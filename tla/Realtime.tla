------------------------------ MODULE Realtime ------------------------------
(***************************************************************************)
(* What comes over the sockets: the chat and the notices of the dashboard. *)
(*                                                                         *)
(* A chat message is put into a list of Redis and then published on a      *)
(* channel; every container has a listener on the channel that sends what  *)
(* it hears to its own sockets.  A page that joins is sent the list first. *)
(* A notice is a row of employee_notifications and an event of a Redis     *)
(* stream, which the listeners of all containers read as one group.        *)
(*                                                                         *)
(* A socket is a connection, not a page: a page that is opened again has   *)
(* another one, while the handler of the old one may still be at work.     *)
(* The two rooms share nothing but the listener, one is modelled.  Texts,  *)
(* times and names are left out, and the line "... joined the chat", which *)
(* only the one who joins is sent; so are the events that no page looks at *)
(* and the notices that a dashboard loads by itself.                       *)
(***************************************************************************)
EXTENDS Naturals, Sequences, SequencesExt

CONSTANTS
    Container,
    Chatter,      \* pages with a chat room
    Viewer,       \* dashboards and wizards, of different employees
    Socket,       \* bounds the connections ever made
    MaxHistory,   \* CHAT_MAX_HISTORY
    MaxSay,       \* bounds the messages sent over one socket
    MaxNotices,   \* bounds the notices
    None

ASSUME BoundsAssumption ==
    MaxHistory \in Nat \ {0} /\ MaxSay \in Nat /\ MaxNotices \in Nat

Page == Chatter \union Viewer

ASSUME PageAssumption == Chatter \cap Viewer = {}

\* None is none of the values it stands in for.
ASSUME NoneAssumption == None \notin Socket \union Page \union Container

\* The no-th message sent over a socket.
Message == [from : Socket, no : 1..MaxSay]

\* The no-th notice.  "ws" remembers over which socket its addressee was
\* connected when it was published.
Notice == [to : Viewer, no : 1..MaxNotices, ws : Socket \union {None}]

Frame(k, b) == [kind |-> k, body |-> b]

VARIABLES
    history,    \* the list of Redis, oldest message first
    listening,  \* the containers whose subscription is in place
    feed,       \* what a subscription has received and the listener has not read
    telling,    \* the message a listener is sending, and to which sockets still
    rows,       \* employee_notifications
    stream,     \* the events that no container has read
    batch,      \* the events a listener has read, and whom the first still goes to
    registry,   \* the sockets a container sends to
    sock,       \* the connections, as their handlers know them
    up, wire,   \* what is under way to the handler and to the browser
    page,
    unheard,    \* history: messages stored and never published
    missed      \* history: messages that a socket was not sent, or that its
                \* page dropped, each for one of the reasons named below

chatVars   == <<history, listening, feed, telling, unheard>>
noticeVars == <<rows, stream, batch>>
vars == <<chatVars, noticeVars, registry, sock, up, wire, page, missed>>

NoTale  == [body |-> <<>>, left |-> {}]
Unused  == [owner |-> None, at |-> "unused", where |-> None, got |-> <<>>, gone |-> FALSE]
NewPage == [ws |-> None, at |-> "closed", said |-> 0, read |-> <<>>, live |-> <<>>]

Used    == {s \in Socket : sock[s].at # "unused"}
OfChat(s) == sock[s].owner \in Chatter
Serving(s) == sock[s].at \in {"joined", "read", "idle", "publishing"}

\* What a connection is to its handler, and what a page holds.
Connection ==
    [owner : Page \union {None}, where : Container \union {None},
     at : {"unused", "asking", "joined", "read", "idle", "publishing", "over"},
     got : Seq(Message), gone : BOOLEAN]
Screen ==
    [ws : Socket \union {None}, at : {"closed", "connecting", "live", "down"},
     said : 0..MaxSay, read : Seq(Message), live : Seq(Message) \union Seq(Notice)]
AnyFrame ==
    [kind : {"open", "history", "message", "notice", "close"},
     body : Seq(Message) \union Seq(Notice)]

TypeOK ==
    /\ history \in Seq(Message) /\ Len(history) <= MaxHistory
    /\ listening \subseteq Container
    /\ feed \in [Container -> Seq(Message)]
    /\ telling \in [Container -> [body : Seq(Message), left : SUBSET Used]]
    /\ rows \in Seq(Notice) /\ stream \in Seq(Notice)
    /\ batch \in [Container -> [body : Seq(Notice), left : SUBSET Used]]
    /\ registry \in [Container -> SUBSET Used]
    /\ sock \in [Socket -> Connection]
    /\ up \in [Socket -> Seq(Message)] /\ wire \in [Socket -> Seq(AnyFrame)]
    /\ page \in [Page -> Screen]
    /\ \A p \in Page : page[p].ws = None \/ sock[page[p].ws].owner = p
    /\ unheard \subseteq Message /\ missed \in [Socket -> SUBSET Message]
    \* A container sends to the sockets it has a handler for, except to those
    \* that it has found closed.
    /\ \A c \in Container : LET served == {s \in Used : sock[s].where = c /\ Serving(s)} IN
        /\ registry[c] \subseteq served
        /\ \A s \in served \ registry[c] : sock[s].gone

Init ==
    /\ history = <<>> /\ listening = Container
    /\ feed = [c \in Container |-> <<>>] /\ telling = [c \in Container |-> NoTale]
    /\ rows = <<>> /\ stream = <<>> /\ batch = [c \in Container |-> NoTale]
    /\ registry = [c \in Container |-> {}] /\ sock = [s \in Socket |-> Unused]
    /\ up = [s \in Socket |-> <<>>] /\ wire = up
    /\ page = [p \in Page |-> NewPage]
    /\ unheard = {} /\ missed = [s \in Socket |-> {}]

-----------------------------------------------------------------------------
(* The pages.                                                              *)

\* ChatRoom, DashboardPage or EmployeesBookingWizard is mounted and connects
\* to the container that nginx picks.
Open(p, s, c) ==
    /\ page[p].ws = None /\ sock[s] = Unused
    /\ page' = [page EXCEPT ![p] = [NewPage EXCEPT !.ws = s, !.at = "connecting"]]
    /\ sock' = [sock EXCEPT ![s] = [Unused EXCEPT !.owner = p, !.at = "asking", !.where = c]]
    /\ UNCHANGED <<chatVars, noticeVars, registry, up, wire, missed>>

\* The clean-up of the effect closes the socket: what is under way to the
\* browser is dropped, what is under way to the handler is not.
Leave(p) ==
    /\ page[p].ws # None
    /\ page' = [page EXCEPT ![p] = NewPage]
    /\ sock' = [sock EXCEPT ![page[p].ws].gone = TRUE]
    /\ wire' = [wire EXCEPT ![page[p].ws] = <<>>]
    /\ UNCHANGED <<chatVars, noticeVars, registry, up, missed>>

CanSpeak(p) == p \in Chatter /\ page[p].at = "live"

\* sendMessage; the message is shown when it comes back.
Say(p) ==
    /\ CanSpeak(p) /\ page[p].said < MaxSay
    /\ LET m == [from |-> page[p].ws, no |-> page[p].said + 1] IN
       /\ up' = [up EXCEPT ![page[p].ws] = IF sock[page[p].ws].gone THEN @ ELSE Append(@, m)]
       /\ page' = [page EXCEPT ![p].said = m.no]
    /\ UNCHANGED <<chatVars, noticeVars, registry, sock, wire, missed>>

\* A dashboard keeps a notice for its own employee; a frame has one.
Mine(p, notices) == IF Head(notices).to = p THEN notices ELSE <<>>

\* onopen, onmessage, onclose.  The list of messages replaces what is shown,
\* anything else is added to it.  Nothing connects again.
Shown(p, f) ==
    CASE f.kind = "open"    -> [page[p] EXCEPT !.at = "live"]
      [] f.kind = "close"   -> [page[p] EXCEPT !.at = "down"]
      [] f.kind = "history" -> [page[p] EXCEPT !.read = f.body, !.live = <<>>]
      [] f.kind = "message" -> [page[p] EXCEPT !.live = @ \o f.body]
      [] f.kind = "notice"  -> [page[p] EXCEPT !.live = @ \o Mine(p, f.body)]

Arrive(p) ==
    /\ page[p].ws # None /\ wire[page[p].ws] # <<>>
    /\ page' = [page EXCEPT ![p] = Shown(p, Head(wire[page[p].ws]))]
    /\ wire' = [wire EXCEPT ![page[p].ws] = Tail(@)]
    /\ UNCHANGED <<chatVars, noticeVars, registry, sock, up, missed>>

-----------------------------------------------------------------------------
(* chat_websocket and websocket_endpoint.                                  *)

ToBrowser(s, f) ==
    wire' = IF sock[s].gone THEN wire ELSE [wire EXCEPT ![s] = Append(@, f)]

\* Variant: the registry is left alone.
EndRegistered(s) ==
    /\ sock' = [sock EXCEPT ![s].at = "over", ![s].got = <<>>]
    /\ UNCHANGED registry
    /\ ToBrowser(s, Frame("close", <<>>))

\* The handler ends, whatever the reason: the socket leaves the registry and,
\* if it is still open, is closed.
End(s) ==
    /\ sock' = [sock EXCEPT ![s].at = "over", ![s].got = <<>>]
    /\ registry' = [registry EXCEPT ![sock[s].where] = @ \ {s}]
    /\ ToBrowser(s, Frame("close", <<>>))

\* No valid session, or not the room of this employee.
Refuse(s) ==
    /\ sock[s].at = "asking" /\ OfChat(s)
    /\ End(s)
    /\ UNCHANGED <<chatVars, noticeVars, up, page, missed>>

\* accept() and the registry, before the history.
Accept(s) ==
    /\ sock[s].at = "asking"
    /\ sock' = [sock EXCEPT ![s].at = IF OfChat(s) THEN "joined" ELSE "idle"]
    /\ registry' = [registry EXCEPT ![sock[s].where] = @ \union {s}]
    /\ ToBrowser(s, Frame("open", <<>>))
    /\ UNCHANGED <<chatVars, noticeVars, up, page, missed>>

\* _get_history.
ReadHistory(s) ==
    /\ sock[s].at = "joined"
    /\ sock' = [sock EXCEPT ![s].at = "read", ![s].got = history]
    /\ UNCHANGED <<chatVars, noticeVars, registry, up, wire, page, missed>>

SendHistory(s) ==
    /\ sock[s].at = "read"
    /\ sock' = [sock EXCEPT ![s].at = "idle", ![s].got = <<>>]
    /\ ToBrowser(s, Frame("history", sock[s].got))
    /\ UNCHANGED <<chatVars, noticeVars, registry, up, page, missed>>

\* LPUSH and LTRIM are one transaction.
Kept(h) == IF Len(h) <= MaxHistory THEN h ELSE Tail(h)

\* receive_json, and the first half of _store_and_publish.
Store(s) ==
    /\ sock[s].at = "idle" /\ up[s] # <<>>
    /\ history' = Kept(Append(history, Head(up[s])))
    /\ sock' = [sock EXCEPT ![s].at = "publishing", ![s].got = <<Head(up[s])>>]
    /\ up' = [up EXCEPT ![s] = Tail(@)]
    /\ UNCHANGED <<listening, feed, telling, unheard, noticeVars, registry, wire, page, missed>>

\* The sockets that will not be sent what container c does not hear: a
\* history that is still to be read has it.
MissedAt(C, M) ==
    [s \in Socket |-> IF sock[s].where \in C /\ sock[s].at \in {"read", "idle", "publishing"}
                      THEN missed[s] \union M ELSE missed[s]]

\* The second half: whoever is subscribed now gets the message.
Publish(s) ==
    /\ sock[s].at = "publishing"
    /\ feed' = [c \in Container |-> IF c \in listening THEN feed[c] \o sock[s].got ELSE feed[c]]
    /\ missed' = MissedAt(Container \ listening, ToSet(sock[s].got))
    /\ sock' = [sock EXCEPT ![s].at = "idle", ![s].got = <<>>]
    /\ UNCHANGED <<history, listening, telling, unheard, noticeVars, registry, up, wire, page>>

\* Redis fails at any of these steps: the handler ends, and a message that was
\* stored remains unpublished.
HandlerFails(s) ==
    /\ \/ sock[s].at \in {"joined", "publishing"}
       \/ sock[s].at = "idle" /\ up[s] # <<>>
    /\ unheard' = IF sock[s].at = "publishing" THEN unheard \union ToSet(sock[s].got) ELSE unheard
    /\ End(s)
    /\ UNCHANGED <<history, listening, feed, telling, noticeVars, up, page, missed>>

\* The handler notices that the browser has gone, after what it had sent.
Disconnected(s) ==
    /\ sock[s].gone
    /\ \/ sock[s].at \in {"asking", "joined", "read"}
       \/ sock[s].at = "idle" /\ up[s] = <<>>
    /\ End(s)
    /\ UNCHANGED <<chatVars, noticeVars, up, page, missed>>

-----------------------------------------------------------------------------
(* chat_pubsub_listener.                                                   *)

\* The sockets of a kind that a listener addresses, as they are now.
Addressees(c, kind) == {s \in registry[c] : sock[s].owner \in kind}

\* A socket that turns out to be closed leaves the registry.
SendTo(c, s, f) ==
    /\ ToBrowser(s, f)
    /\ registry' = IF sock[s].gone THEN [registry EXCEPT ![c] = @ \ {s}] ELSE registry

TakeMessage(c) ==
    /\ c \in listening /\ telling[c].left = {} /\ feed[c] # <<>>
    /\ telling' = [telling EXCEPT ![c] = [body |-> <<Head(feed[c])>>,
                                          left |-> Addressees(c, Chatter)]]
    /\ feed' = [feed EXCEPT ![c] = Tail(@)]
    /\ UNCHANGED <<history, listening, unheard, noticeVars, registry, sock, up, wire, page, missed>>

\* A handler that has read the history and not sent it yet is overtaken, and
\* the page will replace the message by the history.
Overtaken(s, M) == IF sock[s].at = "read" THEN M \ ToSet(sock[s].got) ELSE {}

\* Variant: nobody else is sent what cannot be sent to one.
SendMessageUnguarded(c, s) ==
    /\ s \in telling[c].left
    /\ telling' = [telling EXCEPT ![c].left = IF sock[s].gone THEN {} ELSE @ \ {s}]
    /\ SendTo(c, s, Frame("message", telling[c].body))
    /\ missed' = [missed EXCEPT ![s] = @ \union Overtaken(s, ToSet(telling[c].body))]
    /\ UNCHANGED <<history, listening, feed, unheard, noticeVars, sock, up, page>>

SendMessage(c, s) ==
    /\ s \in telling[c].left
    /\ telling' = [telling EXCEPT ![c].left = @ \ {s}]
    /\ IF sock[s].at = "over" THEN UNCHANGED <<registry, wire>>
       ELSE SendTo(c, s, Frame("message", telling[c].body))
    /\ missed' = [missed EXCEPT ![s] = @ \union Overtaken(s, ToSet(telling[c].body))]
    /\ UNCHANGED <<history, listening, feed, unheard, noticeVars, sock, up, page>>

\* The connection of the subscription breaks, with what it has received; the
\* next poll subscribes again.
LoseFeed(c) ==
    /\ c \in listening /\ telling[c].left = {}
    /\ listening' = listening \ {c}
    /\ feed' = [feed EXCEPT ![c] = <<>>]
    /\ missed' = MissedAt({c}, ToSet(feed[c]))
    /\ UNCHANGED <<history, telling, unheard, noticeVars, registry, sock, up, wire, page>>

Resubscribe(c) ==
    /\ listening' = listening \union {c}
    /\ c \notin listening
    /\ UNCHANGED <<history, feed, telling, unheard, noticeVars, registry, sock, up, wire, page, missed>>

-----------------------------------------------------------------------------
(* Notices: the handlers that broadcast, and redis_stream_listener.        *)

\* save_bookings commits the row of a notice and broadcasts it; the latter
\* may fail, and is reported as a failure of both.
Notify(p, ok) ==
    /\ p \in Viewer /\ Len(rows) < MaxNotices
    /\ LET n == [to |-> p, no |-> Len(rows) + 1,
                 ws |-> IF ok /\ page[p].at = "live" THEN page[p].ws ELSE None]
       IN /\ rows' = Append(rows, n)
          /\ stream' = IF ok THEN Append(stream, n) ELSE stream
    /\ UNCHANGED <<chatVars, batch, registry, sock, up, wire, page, missed>>

\* XREADGROUP ">": some of the events that no consumer of the group has had.
TakeNotices(c) ==
    /\ batch[c].body = <<>>
    /\ \E k \in 1..Len(stream) :
        /\ batch' = [batch EXCEPT ![c] = [body |-> SubSeq(stream, 1, k),
                                          left |-> Addressees(c, Viewer)]]
        /\ stream' = SubSeq(stream, k + 1, Len(stream))
    /\ UNCHANGED <<chatVars, rows, registry, sock, up, wire, page, missed>>

SendNotice(c, s) ==
    /\ s \in batch[c].left
    /\ batch' = [batch EXCEPT ![c].left = @ \ {s}]
    /\ IF sock[s].at = "over" THEN UNCHANGED <<registry, wire>>
       ELSE SendTo(c, s, Frame("notice", <<Head(batch[c].body)>>))
    /\ UNCHANGED <<chatVars, rows, stream, sock, up, page, missed>>

\* XACK, and the next event of the batch.
NextNotice(c) ==
    /\ batch[c].body # <<>> /\ batch[c].left = {}
    /\ LET rest == Tail(batch[c].body) IN
       batch' = [batch EXCEPT ![c] = IF rest = <<>> THEN NoTale
                                     ELSE [body |-> rest, left |-> Addressees(c, Viewer)]]
    /\ UNCHANGED <<chatVars, rows, stream, registry, sock, up, wire, page, missed>>

\* Variant: the events that were not acknowledged are read again.
ListenerRereads(c) ==
    /\ batch[c].body # <<>> /\ batch[c].left = {}
    /\ batch' = [batch EXCEPT ![c].left = Addressees(c, Viewer)]
    /\ UNCHANGED <<chatVars, rows, stream, registry, sock, up, wire, page, missed>>

\* Reading or acknowledging fails: the rest of the batch stays pending for
\* this consumer, which only reads new events.
ListenerFails(c) ==
    /\ batch[c].body # <<>> /\ batch[c].left = {}
    /\ batch' = [batch EXCEPT ![c] = NoTale]
    /\ UNCHANGED <<chatVars, rows, stream, registry, sock, up, wire, page, missed>>

-----------------------------------------------------------------------------
(* Faults of connections and containers.                                   *)

\* The connection breaks, with some of what was under way in it.
Cut(s) ==
    /\ sock[s].at \notin {"unused", "over"} /\ ~sock[s].gone
    /\ sock' = [sock EXCEPT ![s].gone = TRUE]
    /\ \E i \in 0..Len(up[s]) : up' = [up EXCEPT ![s] = SubSeq(@, 1, i)]
    /\ \E j \in 0..Len(wire[s]) :
        wire' = [wire EXCEPT ![s] = Append(SubSeq(@, 1, j), Frame("close", <<>>))]
    /\ UNCHANGED <<chatVars, noticeVars, registry, page, missed>>

\* A container dies and is started again: with empty registries, another
\* subscription and another consumer.
Restart(c) ==
    LET here == {s \in Used : sock[s].where = c /\ sock[s].at # "over"} IN
    /\ sock' = [s \in Socket |-> IF s \in here THEN [sock[s] EXCEPT !.at = "over", !.got = <<>>]
                                 ELSE sock[s]]
    /\ up' = [s \in Socket |-> IF s \in here THEN <<>> ELSE up[s]]
    /\ wire' = [s \in Socket |-> IF s \in here /\ ~sock[s].gone
                                 THEN Append(wire[s], Frame("close", <<>>)) ELSE wire[s]]
    /\ unheard' = unheard \union
           UNION {ToSet(sock[s].got) : s \in {x \in here : sock[x].at = "publishing"}}
    /\ registry' = [registry EXCEPT ![c] = {}]
    /\ listening' = listening \union {c}
    /\ feed' = [feed EXCEPT ![c] = <<>>]
    /\ telling' = [telling EXCEPT ![c] = NoTale]
    /\ batch' = [batch EXCEPT ![c] = NoTale]
    /\ UNCHANGED <<history, rows, stream, page, missed>>

UserStep(p) ==
    \/ Leave(p) \/ Say(p)
    \/ \E s \in Socket, c \in Container : Open(p, s, c)
    \/ \E ok \in BOOLEAN : Notify(p, ok)

SystemStep ==
    \/ \E p \in Page : Arrive(p)
    \/ \E s \in Used :
        \/ Accept(s) \/ ReadHistory(s) \/ SendHistory(s) \/ Store(s) \/ Publish(s)
        \/ Disconnected(s)
    \/ \E c \in Container :
        \/ TakeMessage(c) \/ Resubscribe(c) \/ TakeNotices(c) \/ NextNotice(c)
        \/ \E s \in telling[c].left : SendMessage(c, s)
        \/ \E s \in batch[c].left : SendNotice(c, s)

FaultStep ==
    \/ \E s \in Used : Refuse(s) \/ HandlerFails(s) \/ Cut(s)
    \/ \E c \in Container : LoseFeed(c) \/ ListenerFails(c) \/ Restart(c)

Next == (\E p \in Page : UserStep(p)) \/ SystemStep \/ FaultStep

Spec == Init /\ [][Next]_vars

-----------------------------------------------------------------------------
(* Properties.                                                             *)

\* The messages that page p is still to be sent over its socket s.
Coming(s) ==
    LET c == sock[s].where
    IN  ToSet(feed[c])
        \union (IF s \in telling[c].left THEN ToSet(telling[c].body) ELSE {})
        \union UNION {ToSet(sock[x].got) : x \in {y \in Used : sock[y].at = "publishing"}}

\* Once a page has caught up it shows every message of the history, whatever
\* was said while it was joining (the registry comes before the history, the
\* list before the channel), unless the message was never published, passed
\* while its container had no subscription, or overtook the history.
NothingMissed ==
    \A p \in Chatter :
        LET s == page[p].ws IN
        page[p].at = "live" /\ sock[s].at \in {"idle", "publishing"} /\ wire[s] = <<>> =>
            ToSet(history) \subseteq ToSet(page[p].read) \union ToSet(page[p].live)
                                     \union Coming(s) \union missed[s] \union unheard

\* Of what comes from one source, every number comes once, after lower ones.
InOrder(q, Source(_)) ==
    \A i, j \in DOMAIN q : i < j /\ Source(q[i]) = Source(q[j]) => q[i].no < q[j].no

\* Of the messages sent over one socket no page is told twice, or in another
\* order, apart from what the history repeats; and no notice comes twice or
\* late, although containers restart, connections break and listeners fail
\* while they work through a batch.
ToldInOrder ==
    /\ \A p \in Chatter : /\ InOrder(page[p].read, LAMBDA m : m.from)
                          /\ InOrder(page[p].live, LAMBDA m : m.from)
    /\ \A p \in Viewer : InOrder(page[p].live, LAMBDA n : "stream")

\* broadcast_event: "Other containers will pick this up and broadcast to their
\* WebSockets": an employee whose page is connected while a notice is
\* published gets it, when the listeners have nothing left to do.
AddresseeIsTold ==
    \A n \in ToSet(rows) :
        /\ n.ws # None /\ page[n.to].ws = n.ws /\ page[n.to].at = "live" /\ wire[n.ws] = <<>>
        /\ stream = <<>> /\ \A c \in Container : batch[c].body = <<>>
        => n \in ToSet(page[n.to].live)
=============================================================================
