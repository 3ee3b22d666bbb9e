-------------------------- MODULE Realtime_proofs --------------------------
(***************************************************************************)
(* Proofs about Realtime: types, the order in which pages are told, and    *)
(* that nothing is missed without a reason.                                *)
(***************************************************************************)
EXTENDS Realtime, SequenceTheorems, TLAPS

-----------------------------------------------------------------------------
(* Sequences and their elements.                                           *)

LEMMA EmptySet == ToSet(<<>>) = {}
  BY DEF ToSet

LEMMA AppendSet ==
    ASSUME NEW S, NEW q \in Seq(S), NEW x \in S
    PROVE  Append(q, x) \in Seq(S) /\ ToSet(Append(q, x)) = ToSet(q) \union {x}
  <1>1. /\ Append(q, x) \in Seq(S) /\ Len(Append(q, x)) = Len(q) + 1
        /\ \A i \in 1..Len(q) : Append(q, x)[i] = q[i]
        /\ Append(q, x)[Len(q) + 1] = x
    BY AppendProperties
  <1>2. /\ DOMAIN Append(q, x) = 1..(Len(q) + 1) /\ DOMAIN q = 1..Len(q) /\ Len(q) \in Nat
    BY <1>1
  <1>3. \A i \in 1..(Len(q) + 1) : i \in 1..Len(q) \/ i = Len(q) + 1
    BY <1>2
  <1>4. 1..Len(q) \subseteq 1..(Len(q) + 1) /\ Len(q) + 1 \in 1..(Len(q) + 1)
    BY <1>2
  <1> QED BY <1>1, <1>2, <1>3, <1>4, Zenon DEF ToSet

LEMMA TailSet ==
    ASSUME NEW S, NEW q \in Seq(S), q # <<>>
    PROVE  /\ Head(q) \in S /\ Head(q) \in ToSet(q)
           /\ Tail(q) \in Seq(S) /\ ToSet(Tail(q)) \subseteq ToSet(q)
           /\ ToSet(q) = {Head(q)} \union ToSet(Tail(q))
  <1>1. /\ Head(q) = q[1] /\ 1 \in DOMAIN q /\ DOMAIN q = 1..Len(q) /\ Len(q) \in Nat \ {0}
        /\ Tail(q) \in Seq(S) /\ DOMAIN Tail(q) = 1..(Len(q) - 1)
        /\ \A i \in 1..(Len(q) - 1) : Tail(q)[i] = q[i + 1]
    OBVIOUS
  <1>2. \A i \in 1..Len(q) : i = 1 \/ (i - 1 \in 1..(Len(q) - 1) /\ (i - 1) + 1 = i)
    BY <1>1
  <1>3. \A i \in 1..Len(q) : i = 1 \/ \E j \in DOMAIN Tail(q) : Tail(q)[j] = q[i]
    BY <1>1, <1>2
  <1>4. \A i \in 1..(Len(q) - 1) : i + 1 \in 1..Len(q)
    BY <1>1
  <1> QED BY <1>1, <1>3, <1>4 DEF ToSet

LEMMA TailLast ==
    ASSUME NEW S, NEW q \in Seq(S), q # <<>>
    PROVE  IF Tail(q) = <<>> THEN Head(q) = q[Len(q)] ELSE Tail(q)[Len(Tail(q))] = q[Len(q)]
  <1> DEFINE n == Len(q)
  <1>1. /\ n \in Nat /\ Head(q) = q[1] /\ Len(Tail(q)) = n - 1
        /\ \A i \in 1..(n - 1) : Tail(q)[i] = q[i + 1]
    OBVIOUS
  <1>2. Tail(q) \in Seq(S) /\ Len(<<>>) = 0
    OBVIOUS
  <1> HIDE DEF n
  <1>3. CASE Tail(q) = <<>>
    <2>1. n - 1 = 0
      BY <1>1, <1>2, <1>3
    <2>2. n = 1
      BY <1>1, <2>1
    <2> QED BY <1>1, <1>3, <2>2 DEF n
  <1>4. CASE Tail(q) # <<>>
    <2>1. n - 1 \in Nat \ {0}
      BY <1>1, <1>2, <1>4, EmptySeq
    <2>2. n - 1 \in 1..(n - 1) /\ (n - 1) + 1 = n
      BY <1>1, <2>1
    <2>3. Tail(q)[n - 1] = q[n]
      BY <1>1, <2>2
    <2> QED BY <1>1, <1>4, <2>3 DEF n
  <1> QED BY <1>3, <1>4

LEMMA ConcatSet ==
    ASSUME NEW S, NEW q \in Seq(S), NEW r \in Seq(S)
    PROVE  q \o r \in Seq(S) /\ ToSet(q \o r) = ToSet(q) \union ToSet(r)
  <1>1. /\ q \o r \in Seq(S) /\ DOMAIN (q \o r) = 1..(Len(q) + Len(r))
        /\ DOMAIN q = 1..Len(q) /\ DOMAIN r = 1..Len(r) /\ Len(q) \in Nat /\ Len(r) \in Nat
        /\ \A i \in 1..(Len(q) + Len(r)) : (q \o r)[i] = IF i <= Len(q) THEN q[i] ELSE r[i - Len(q)]
    OBVIOUS
  <1>2. \A i \in 1..(Len(q) + Len(r)) :
            i \in 1..Len(q) \/ (~(i <= Len(q)) /\ i - Len(q) \in 1..Len(r))
    BY <1>1
  <1>3. \A i \in 1..Len(q) : i \in 1..(Len(q) + Len(r)) /\ i <= Len(q)
    BY <1>1
  <1>4. \A i \in 1..Len(r) : /\ i + Len(q) \in 1..(Len(q) + Len(r)) /\ ~(i + Len(q) <= Len(q))
                             /\ (i + Len(q)) - Len(q) = i
    BY <1>1
  <1>5. ASSUME NEW x \in ToSet(q \o r) PROVE x \in ToSet(q) \union ToSet(r)
    <2>1. PICK i \in 1..(Len(q) + Len(r)) : x = (q \o r)[i]
      BY <1>1 DEF ToSet
    <2> QED BY <1>1, <1>2, <2>1, SMTT(60) DEF ToSet
  <1>6. ASSUME NEW x \in ToSet(q) PROVE x \in ToSet(q \o r)
    <2>1. PICK i \in 1..Len(q) : x = q[i]
      BY <1>1 DEF ToSet
    <2> QED BY <1>1, <1>3, <2>1 DEF ToSet
  <1>7. ASSUME NEW x \in ToSet(r) PROVE x \in ToSet(q \o r)
    <2>1. PICK i \in 1..Len(r) : x = r[i]
      BY <1>1 DEF ToSet
    <2> QED BY <1>1, <1>4, <2>1 DEF ToSet
  <1> QED BY <1>1, <1>5, <1>6, <1>7

LEMMA SubSet ==
    ASSUME NEW S, NEW q \in Seq(S), NEW i \in 1..(Len(q) + 1), NEW j \in 0..Len(q)
    PROVE  SubSeq(q, i, j) \in Seq(S) /\ ToSet(SubSeq(q, i, j)) \subseteq ToSet(q)
  BY DEF ToSet

LEMMA SingleSet ==
    ASSUME NEW S, NEW x \in S
    PROVE  <<x>> \in Seq(S) /\ ToSet(<<x>>) = {x}
  BY DEF ToSet

LEMMA SetOfSeq ==
    ASSUME NEW S, NEW q \in Seq(S)
    PROVE  ToSet(q) \subseteq S
  BY DEF ToSet

-----------------------------------------------------------------------------
(* Types, and how connections, pages and containers belong together.       *)

ChatFrame   == [kind : {"open", "history", "message", "close"}, body : Seq(Message)]
NoticeFrame == [kind : {"open", "notice", "close"}, body : Seq(Notice)]
FrameOf(s)  == IF OfChat(s) THEN ChatFrame ELSE NoticeFrame

FrameFor(p) == IF p \in Chatter THEN ChatFrame ELSE NoticeFrame
LiveOf(p)   == IF p \in Chatter THEN Seq(Message) ELSE Seq(Notice)

Types ==
    /\ history \in Seq(Message) /\ Len(history) <= MaxHistory
    /\ listening \subseteq Container
    /\ feed \in [Container -> Seq(Message)]
    /\ telling \in [Container -> [body : Seq(Message), left : SUBSET Socket]]
    /\ rows \in Seq(Notice) /\ stream \in Seq(Notice)
    /\ batch \in [Container -> [body : Seq(Notice), left : SUBSET Socket]]
    /\ registry \in [Container -> SUBSET Socket]
    /\ sock \in [Socket -> Connection]
    /\ up \in [Socket -> Seq(Message)] /\ wire \in [Socket -> Seq(AnyFrame)]
    /\ page \in [Page -> Screen]
    /\ unheard \subseteq Message /\ missed \in [Socket -> SUBSET Message]

\* Chat rooms get messages and dashboards get notices, and what a handler has
\* received was sent by its own page.
SockOK(s) ==
    /\ sock[s].at = "unused" => sock[s] = Unused /\ up[s] = <<>> /\ wire[s] = <<>>
    /\ sock[s].at # "unused" => sock[s].owner \in Page /\ sock[s].where \in Container
    /\ sock[s].at \in {"joined", "read", "publishing"} => OfChat(s)
    /\ wire[s] \in Seq(FrameOf(s))
    /\ up[s] \in Seq({m \in Message : m.from = s}) /\ (up[s] # <<>> => OfChat(s))
    /\ sock[s].at = "publishing" => \E m \in Message : m.from = s /\ sock[s].got = <<m>>

PageOK(p) ==
    /\ page[p].ws = None => page[p] = NewPage
    /\ page[p].ws # None => sock[page[p].ws].owner = p
    /\ page[p].live \in LiveOf(p)

\* Container c has a handler for s.
Served(c, s) == sock[s].where = c /\ Serving(s)

ContainerOK(c) ==
    /\ \A s \in registry[c] : Served(c, s)
    /\ \A s \in Socket : Served(c, s) => sock[s].gone \/ s \in registry[c]
    /\ \A s \in telling[c].left : sock[s].where = c /\ OfChat(s)
    /\ \A s \in batch[c].left : sock[s].where = c /\ ~OfChat(s)
    /\ batch[c].left # {} => batch[c].body # <<>>

Consistent ==
    /\ Types
    /\ \A s \in Socket : SockOK(s)
    /\ \A p \in Page : PageOK(p)
    /\ \A c \in Container : ContainerOK(c)

LEMMA ConsistentType == Consistent => TypeOK
  <1> SUFFICES ASSUME Consistent PROVE TypeOK
    OBVIOUS
  <1>1. Types
    BY DEF Consistent
  <1>2. \A s \in Socket : sock[s].where \in Container => s \in Used
    <2> SUFFICES ASSUME NEW s \in Socket, sock[s].at = "unused" PROVE sock[s].where = None
      BY NoneAssumption DEF Used
    <2>1. sock[s] = Unused
      BY DEF Consistent, SockOK
    <2> QED BY <2>1 DEF Unused
  <1>3. /\ telling \in [Container -> [body : Seq(Message), left : SUBSET Used]]
        /\ batch \in [Container -> [body : Seq(Notice), left : SUBSET Used]]
        /\ registry \in [Container -> SUBSET Used]
    <2>1. \A c \in Container : /\ telling[c].left \subseteq Used /\ batch[c].left \subseteq Used
                               /\ registry[c] \subseteq Used
      <3> SUFFICES ASSUME NEW c \in Container
                   PROVE  /\ telling[c].left \subseteq Used /\ batch[c].left \subseteq Used
                          /\ registry[c] \subseteq Used
        OBVIOUS
      <3>1. /\ telling[c].left \subseteq Socket /\ batch[c].left \subseteq Socket
            /\ registry[c] \subseteq Socket
        BY <1>1 DEF Types
      <3>2. ContainerOK(c)
        BY DEF Consistent
      <3> QED BY <1>2, <3>1, <3>2 DEF ContainerOK, Served
    <2>2. \A c \in Container : /\ telling[c] \in [body : Seq(Message), left : SUBSET Used]
                               /\ batch[c] \in [body : Seq(Notice), left : SUBSET Used]
      BY <1>1, <2>1 DEF Types
    <2> QED BY <1>1, <2>1, <2>2 DEF Types
  <1>4. \A p \in Page : page[p].ws = None \/ sock[page[p].ws].owner = p
    BY DEF Consistent, PageOK
  <1>5. ASSUME NEW c \in Container
        PROVE  LET served == {s \in Used : sock[s].where = c /\ Serving(s)} IN
                 /\ registry[c] \subseteq served
                 /\ \A s \in served \ registry[c] : sock[s].gone
    BY <1>1, <1>3 DEF Consistent, ContainerOK, Served, Types, Used
  <1> QED BY <1>1, <1>3, <1>4, <1>5 DEF Types, TypeOK

LEMMA InitConsistent == Init => Consistent
  <1> SUFFICES ASSUME Init PROVE Consistent
    OBVIOUS
  <1>1. /\ <<>> \in Seq(Message) /\ <<>> \in Seq(Notice) /\ <<>> \in Seq(AnyFrame) /\ Len(<<>>) = 0
        /\ \A S : <<>> \in Seq(S)
    OBVIOUS
  <1>2. Unused \in Connection /\ Unused.at = "unused" /\ Unused.where = None
    BY <1>1 DEF Unused, Connection
  <1>3. NewPage \in Screen /\ NewPage.ws = None /\ NewPage.live = <<>>
    BY <1>1, BoundsAssumption DEF NewPage, Screen
  <1>4. /\ NoTale \in [body : Seq(Message), left : SUBSET Socket]
        /\ NoTale \in [body : Seq(Notice), left : SUBSET Socket] /\ NoTale.left = {}
    BY <1>1 DEF NoTale
  <1>5. Types
    BY <1>1, <1>2, <1>3, <1>4, BoundsAssumption DEF Init, Types
  <1>6. \A s \in Socket : SockOK(s)
    BY <1>1, <1>2 DEF Init, SockOK
  <1>7. \A p \in Page : PageOK(p)
    BY <1>1, <1>3 DEF Init, PageOK, LiveOf
  <1>8. \A c \in Container : ContainerOK(c)
    BY <1>2, <1>4 DEF Init, ContainerOK, Served, Serving
  <1> QED BY <1>5, <1>6, <1>7, <1>8 DEF Consistent

\* A frame of either kind is a frame.
LEMMA FrameFacts ==
    /\ ChatFrame \subseteq AnyFrame /\ NoticeFrame \subseteq AnyFrame
    /\ \A s : FrameOf(s) \subseteq AnyFrame
    /\ \A s : Frame("open", <<>>) \in FrameOf(s) /\ Frame("close", <<>>) \in FrameOf(s)
    /\ \A q \in Seq(Message) : Frame("history", q) \in ChatFrame /\ Frame("message", q) \in ChatFrame
    /\ \A q \in Seq(Notice) : Frame("notice", q) \in NoticeFrame
  <1>1. <<>> \in Seq(Message) /\ <<>> \in Seq(Notice)
    OBVIOUS
  <1>2. ChatFrame \subseteq AnyFrame /\ NoticeFrame \subseteq AnyFrame
    BY DEF ChatFrame, NoticeFrame, AnyFrame
  <1>3. /\ Frame("open", <<>>) \in ChatFrame /\ Frame("close", <<>>) \in ChatFrame
        /\ Frame("open", <<>>) \in NoticeFrame /\ Frame("close", <<>>) \in NoticeFrame
    BY <1>1 DEF Frame, ChatFrame, NoticeFrame
  <1>4. /\ \A q \in Seq(Message) : Frame("history", q) \in ChatFrame /\ Frame("message", q) \in ChatFrame
        /\ \A q \in Seq(Notice) : Frame("notice", q) \in NoticeFrame
    BY DEF Frame, ChatFrame, NoticeFrame
  <1> QED BY <1>2, <1>3, <1>4 DEF FrameOf

LEMMA ToBrowserFacts ==
    ASSUME Consistent, NEW s \in Socket, NEW f \in FrameOf(s), ToBrowser(s, f)
    PROVE  /\ wire' \in [Socket -> Seq(AnyFrame)]
           /\ wire'[s] = IF sock[s].gone THEN wire[s] ELSE Append(wire[s], f)
           /\ wire'[s] \in Seq(FrameOf(s))
           /\ \A x \in Socket : x # s => wire'[x] = wire[x]
  <1>1. /\ wire \in [Socket -> Seq(AnyFrame)] /\ wire[s] \in Seq(FrameOf(s)) /\ f \in AnyFrame
    BY FrameFacts DEF Consistent, Types, SockOK
  <1>2. Append(wire[s], f) \in Seq(AnyFrame) /\ Append(wire[s], f) \in Seq(FrameOf(s))
    BY <1>1, AppendSet
  <1> QED BY <1>1, <1>2 DEF ToBrowser

\* A step that concerns the connection s and, it may be, a page.
LEMMA SocketStep ==
    ASSUME Consistent, Types', NEW s \in Socket, sock[s].at # "unused", SockOK(s)',
           \A x \in Socket : x # s => sock'[x] = sock[x] /\ up'[x] = up[x] /\ wire'[x] = wire[x],
           sock'[s].owner = sock[s].owner, sock'[s].where = sock[s].where,
           \A p \in Page : page'[p] = page[p] \/ PageOK(p)',
           \A c \in Container :
              /\ telling'[c].left \subseteq telling[c].left /\ batch'[c].left \subseteq batch[c].left
              /\ batch'[c].body = batch[c].body \/ batch'[c].left = {}
              /\ \A x \in Socket : x # s => (x \in registry'[c] <=> x \in registry[c])
              /\ s \in registry'[c] => Served(c, s)'
              /\ Served(c, s)' => sock'[s].gone \/ s \in registry'[c]
    PROVE  Consistent'
  <1>1. \A x \in Socket : /\ sock'[x].owner = sock[x].owner /\ sock'[x].where = sock[x].where
                          /\ OfChat(x)' <=> OfChat(x)
    BY DEF OfChat
  <1>2. \A x \in Socket : SockOK(x)'
    <2> SUFFICES ASSUME NEW x \in Socket, x # s PROVE SockOK(x)'
      OBVIOUS
    <2>1. SockOK(x) /\ sock'[x] = sock[x] /\ up'[x] = up[x] /\ wire'[x] = wire[x]
      BY DEF Consistent
    <2> QED BY <2>1 DEF SockOK, FrameOf, OfChat
  <1>3. \A p \in Page : PageOK(p)'
    <2> SUFFICES ASSUME NEW p \in Page, page'[p] = page[p] PROVE PageOK(p)'
      OBVIOUS
    <2>1. PageOK(p) /\ page[p].ws \in Socket \union {None}
      BY DEF Consistent, Types, Screen
    <2> QED BY <1>1, <2>1 DEF PageOK
  <1>4. \A c \in Container : ContainerOK(c)'
    <2> SUFFICES ASSUME NEW c \in Container PROVE ContainerOK(c)'
      OBVIOUS
    <2>1. /\ ContainerOK(c)
          /\ registry'[c] \subseteq Socket /\ telling[c].left \subseteq Socket /\ batch[c].left \subseteq Socket
      BY SMTT(60) DEF Consistent, Types
    <2>2. \A x \in Socket : x # s => (Served(c, x)' <=> Served(c, x)) /\ sock'[x].gone = sock[x].gone
      BY DEF Served, Serving
    <2>3. \A x \in registry'[c] : Served(c, x)'
      BY <2>1, <2>2 DEF ContainerOK
    <2>4. \A x \in Socket : Served(c, x)' => sock'[x].gone \/ x \in registry'[c]
      BY <2>1, <2>2 DEF ContainerOK
    <2>5. /\ \A x \in telling'[c].left : sock'[x].where = c /\ OfChat(x)'
          /\ \A x \in batch'[c].left : sock'[x].where = c /\ ~OfChat(x)'
      BY <1>1, <2>1 DEF ContainerOK
    <2>6. batch'[c].left # {} => batch'[c].body # <<>>
      BY <2>1 DEF ContainerOK
    <2> QED BY <2>3, <2>4, <2>5, <2>6 DEF ContainerOK
  <1> QED BY <1>2, <1>3, <1>4 DEF Consistent

\* A step that concerns no connection and no page.
LEMMA ListenerStep ==
    ASSUME Consistent, Types', UNCHANGED <<registry, sock, up, wire, page>>,
           \A c \in Container :
              /\ telling'[c].left \subseteq telling[c].left \union Addressees(c, Chatter)
              /\ batch'[c].left \subseteq batch[c].left \union Addressees(c, Viewer)
              /\ batch'[c].left # {} => batch'[c].body # <<>> \/ batch' = batch
    PROVE  Consistent'
  <1>1. \A s \in Socket : SockOK(s)'
    BY DEF Consistent, SockOK, FrameOf, OfChat
  <1>2. \A p \in Page : PageOK(p)'
    BY DEF Consistent, PageOK
  <1>3. ASSUME NEW c \in Container PROVE ContainerOK(c)'
    <2>1. ContainerOK(c)
      BY DEF Consistent
    <2>2. \A s : (Served(c, s)' <=> Served(c, s)) /\ (OfChat(s)' <=> OfChat(s))
      BY DEF Served, Serving, OfChat
    <2>3. \A s \in Addressees(c, Chatter) : sock[s].where = c /\ OfChat(s)
      BY <2>1 DEF Addressees, OfChat, ContainerOK, Served
    <2>4. \A s \in Addressees(c, Viewer) : sock[s].where = c /\ ~OfChat(s)
      BY <2>1, PageAssumption DEF Addressees, OfChat, ContainerOK, Served
    <2> QED BY <2>1, <2>2, <2>3, <2>4 DEF ContainerOK
  <1> QED BY <1>1, <1>2, <1>3 DEF Consistent

LEMMA ListenerConsistent ==
    ASSUME Consistent, NEW c \in Container,
           \/ TakeMessage(c) \/ LoseFeed(c) \/ Resubscribe(c)
           \/ TakeNotices(c) \/ NextNotice(c) \/ ListenerFails(c)
    PROVE  Consistent'
  <1>1. Types
    BY DEF Consistent
  <1>2. /\ feed[c] \in Seq(Message) /\ batch[c].body \in Seq(Notice)
        /\ telling[c] \in [body : Seq(Message), left : SUBSET Socket]
        /\ batch[c] \in [body : Seq(Notice), left : SUBSET Socket]
        /\ NoTale \in [body : Seq(Notice), left : SUBSET Socket] /\ NoTale.left = {}
    BY <1>1 DEF Types, NoTale
  <1>3. Addressees(c, Chatter) \subseteq Socket /\ Addressees(c, Viewer) \subseteq Socket
    BY <1>1 DEF Types, Addressees
  <1>4. CASE TakeMessage(c)
    <2> DEFINE t == [body |-> <<Head(feed[c])>>, left |-> Addressees(c, Chatter)]
    <2>1. /\ telling' = [telling EXCEPT ![c] = t] /\ feed' = [feed EXCEPT ![c] = Tail(@)]
          /\ feed[c] # <<>>
          /\ UNCHANGED <<history, listening, rows, stream, batch, registry, sock, up, wire, page,
                         unheard, missed>>
      BY <1>4 DEF TakeMessage, noticeVars
    <2>2. Head(feed[c]) \in Message /\ Tail(feed[c]) \in Seq(Message)
      BY <1>2, <2>1, TailSet
    <2>3. t \in [body : Seq(Message), left : SUBSET Socket] /\ t.left = Addressees(c, Chatter)
      BY <1>3, <2>2
    <2> HIDE DEF t
    <2>4. Types'
      BY <1>1, <2>1, <2>2, <2>3 DEF Types
    <2> QED BY <1>1, <2>1, <2>3, <2>4, ListenerStep DEF Types
  <1>5. CASE LoseFeed(c)
    <2>1. /\ listening' = listening \ {c} /\ feed' = [feed EXCEPT ![c] = <<>>]
          /\ missed' = MissedAt({c}, ToSet(feed[c]))
          /\ UNCHANGED <<history, telling, rows, stream, batch, registry, sock, up, wire, page, unheard>>
      BY <1>5 DEF LoseFeed, noticeVars
    <2>2. ToSet(feed[c]) \subseteq Message /\ <<>> \in Seq(Message)
      BY <1>2, SetOfSeq
    <2>3. missed' \in [Socket -> SUBSET Message]
      BY <1>1, <2>1, <2>2 DEF MissedAt, Types
    <2>4. Types'
      BY <1>1, <2>1, <2>2, <2>3 DEF Types
    <2> QED BY <2>1, <2>4, ListenerStep
  <1>6. CASE Resubscribe(c)
    <2>1. /\ listening' = listening \union {c}
          /\ UNCHANGED <<history, feed, telling, rows, stream, batch, registry, sock, up, wire, page,
                         unheard, missed>>
      BY <1>6 DEF Resubscribe, noticeVars
    <2>2. Types'
      BY <1>1, <2>1 DEF Types
    <2> QED BY <2>1, <2>2, ListenerStep
  \* What the listener for notices does.
  <1>7. ASSUME NEW b \in [body : Seq(Notice), left : SUBSET Socket], batch' = [batch EXCEPT ![c] = b],
               b.left \subseteq Addressees(c, Viewer), b.left # {} => b.body # <<>>,
               UNCHANGED <<chatVars, rows, registry, sock, up, wire, page, missed>>, stream' \in Seq(Notice)
        PROVE  Consistent'
    <2>1. Types'
      BY <1>1, <1>7 DEF Types, chatVars
    <2>2. \A d \in Container :
            /\ batch'[d].left \subseteq batch[d].left \union Addressees(d, Viewer)
            /\ batch'[d].left # {} => batch'[d].body # <<>>
      BY <1>1, <1>7 DEF Types, Consistent, ContainerOK
    <2> QED BY <1>7, <2>1, <2>2, ListenerStep DEF chatVars
  <1>8. CASE TakeNotices(c)
    <2>1. PICK k \in 1..Len(stream) :
            /\ batch' = [batch EXCEPT ![c] = [body |-> SubSeq(stream, 1, k), left |-> Addressees(c, Viewer)]]
            /\ stream' = SubSeq(stream, k + 1, Len(stream))
      BY <1>8 DEF TakeNotices
    <2>2. /\ stream \in Seq(Notice) /\ Len(stream) \in Nat /\ k \in 0..Len(stream)
          /\ 1 \in 1..(Len(stream) + 1) /\ k + 1 \in 1..(Len(stream) + 1) /\ Len(stream) \in 0..Len(stream)
      BY <1>1 DEF Types
    <2>3. SubSeq(stream, 1, k) \in Seq(Notice) /\ SubSeq(stream, k + 1, Len(stream)) \in Seq(Notice)
      BY <2>2, SubSet
    <2>4. SubSeq(stream, 1, k) # <<>>
      BY <2>2
    <2> QED BY <1>3, <1>7, <1>8, <2>1, <2>3, <2>4 DEF TakeNotices
  <1>9. CASE NextNotice(c)
    <2> DEFINE rest == Tail(batch[c].body)
               b == IF rest = <<>> THEN NoTale ELSE [body |-> rest, left |-> Addressees(c, Viewer)]
    <2>1. /\ batch[c].body # <<>> /\ batch' = [batch EXCEPT ![c] = b]
          /\ UNCHANGED <<chatVars, rows, stream, registry, sock, up, wire, page, missed>>
      BY <1>9 DEF NextNotice
    <2>2. rest \in Seq(Notice)
      BY <1>2, <2>1, TailSet
    <2>3. /\ b \in [body : Seq(Notice), left : SUBSET Socket] /\ b.left \subseteq Addressees(c, Viewer)
          /\ b.left # {} => b.body # <<>>
      BY <1>2, <1>3, <2>2
    <2> HIDE DEF b
    <2> QED BY <1>1, <1>7, <2>1, <2>3 DEF Types
  <1>10. CASE ListenerFails(c)
    BY <1>1, <1>2, <1>7, <1>10 DEF ListenerFails, Types
  <1> QED BY <1>4, <1>5, <1>6, <1>8, <1>9, <1>10

LEMMA NotifyConsistent ==
    ASSUME Consistent, NEW p \in Page, NEW ok \in BOOLEAN, Notify(p, ok)
    PROVE  Consistent'
  <1> DEFINE n == [to |-> p, no |-> Len(rows) + 1,
                   ws |-> IF ok /\ page[p].at = "live" THEN page[p].ws ELSE None]
  <1>1. Types
    BY DEF Consistent
  <1>2. /\ p \in Viewer /\ Len(rows) < MaxNotices
        /\ rows' = Append(rows, n) /\ stream' = IF ok THEN Append(stream, n) ELSE stream
        /\ UNCHANGED <<chatVars, batch, registry, sock, up, wire, page, missed>>
    BY DEF Notify
  <1>3. /\ rows \in Seq(Notice) /\ stream \in Seq(Notice) /\ Len(rows) \in Nat
        /\ page[p].ws \in Socket \union {None}
    BY <1>1 DEF Types, Screen
  <1>4. n \in Notice
    <2>1. Len(rows) + 1 \in 1..MaxNotices
      BY <1>2, <1>3, BoundsAssumption
    <2> QED BY <1>2, <1>3, <2>1 DEF Notice
  <1> HIDE DEF n
  <1>5. Append(rows, n) \in Seq(Notice) /\ Append(stream, n) \in Seq(Notice)
    BY <1>3, <1>4, AppendSet
  <1>6. Types'
    BY <1>1, <1>2, <1>3, <1>5 DEF Types, chatVars
  <1> QED BY <1>2, <1>6, ListenerStep DEF chatVars

\* The handler of s goes on or ends: the page and the listeners are left alone.
LEMMA HandlerStep ==
    ASSUME Consistent, NEW s \in Socket, sock[s].at # "unused", NEW y \in Connection,
           sock' = [sock EXCEPT ![s] = y],
           y.owner = sock[s].owner, y.where = sock[s].where, y.gone = sock[s].gone, y.at # "unused",
           y.at \in {"joined", "read", "publishing"} => OfChat(s),
           y.at = "publishing" => \E m \in Message : m.from = s /\ y.got = <<m>>,
           up' \in [Socket -> Seq(Message)], wire' \in [Socket -> Seq(AnyFrame)],
           wire'[s] \in Seq(FrameOf(s)), up'[s] \in Seq({m \in Message : m.from = s}),
           up'[s] # <<>> => OfChat(s),
           \A x \in Socket : x # s => up'[x] = up[x] /\ wire'[x] = wire[x],
           \/ registry' = registry /\ Serving(s) /\ y.at # "over" /\ y.at # "asking"
           \/ registry' = [registry EXCEPT ![sock[s].where] = @ \ {s}] /\ y.at = "over"
           \/ registry' = [registry EXCEPT ![sock[s].where] = @ \union {s}] /\ y.at \in {"joined", "idle"},
           history' \in Seq(Message), Len(history') <= MaxHistory,
           feed' \in [Container -> Seq(Message)], unheard' \subseteq Message,
           missed' \in [Socket -> SUBSET Message],
           UNCHANGED <<listening, telling, noticeVars, page>>
    PROVE  Consistent'
  <1>1. Types
    BY DEF Consistent
  <1>2. /\ sock'[s] = y /\ sock' \in [Socket -> Connection]
        /\ \A x \in Socket : x # s => sock'[x] = sock[x]
    BY <1>1 DEF Types
  <1>3. /\ registry' \in [Container -> SUBSET Socket]
        /\ \A c \in Container, x \in Socket : x # s => (x \in registry'[c] <=> x \in registry[c])
    <2>1. registry \in [Container -> SUBSET Socket]
      BY <1>1 DEF Types
    <2>2. CASE registry' = registry
      BY <2>1, <2>2
    <2>3. CASE registry' = [registry EXCEPT ![sock[s].where] = @ \ {s}]
      BY <2>1, <2>3
    <2>4. CASE registry' = [registry EXCEPT ![sock[s].where] = @ \union {s}]
      BY <2>1, <2>4
    <2> QED BY <2>2, <2>3, <2>4
  <1>4. Types'
    BY <1>1, <1>2, <1>3 DEF Types, noticeVars
  <1>5. SockOK(s) /\ sock[s].where \in Container
    BY DEF Consistent, SockOK
  <1>6. SockOK(s)'
    BY <1>2, <1>5 DEF SockOK, FrameOf, OfChat
  <1>7. ASSUME NEW c \in Container
        PROVE  /\ \A x \in Socket : x # s => (x \in registry'[c] <=> x \in registry[c])
               /\ s \in registry'[c] => Served(c, s)'
               /\ Served(c, s)' => sock'[s].gone \/ s \in registry'[c]
    <2>1. ContainerOK(c)
      BY DEF Consistent
    <2>2. \A x \in Socket : x # s => (x \in registry'[c] <=> x \in registry[c])
      BY <1>3
    <2>3. Serving(s)' <=> y.at \in {"joined", "read", "idle", "publishing"}
      BY <1>2 DEF Serving
    <2>4. CASE registry' = registry /\ Serving(s) /\ y.at # "over" /\ y.at # "asking"
      <3>1. Serving(s)'
        BY <2>3, <2>4 DEF Connection
      <3> QED BY <1>2, <2>1, <2>2, <2>4, <3>1 DEF ContainerOK, Served
    <2>5. CASE registry' = [registry EXCEPT ![sock[s].where] = @ \ {s}] /\ y.at = "over"
      <3>1. ~Serving(s)'
        BY <2>3, <2>5
      <3>2. s \notin registry'[c]
        BY <1>1, <2>1, <2>5 DEF ContainerOK, Served, Types
      <3> QED BY <2>2, <3>1, <3>2 DEF Served
    <2>6. CASE registry' = [registry EXCEPT ![sock[s].where] = @ \union {s}] /\ y.at \in {"joined", "idle"}
      <3>1. Serving(s)'
        BY <2>3, <2>6
      <3>2. s \in registry'[c] <=> sock[s].where = c
        BY <1>1, <1>5, <2>1, <2>6 DEF ContainerOK, Served, Types
      <3> QED BY <1>2, <2>2, <3>1, <3>2 DEF Served
    <2> QED BY <2>4, <2>5, <2>6
  <1>8. \A c \in Container : /\ telling'[c].left \subseteq telling[c].left
                            /\ batch'[c].left \subseteq batch[c].left /\ batch'[c].body = batch[c].body
    BY DEF noticeVars
  <1> QED BY <1>2, <1>4, <1>6, <1>7, <1>8, SocketStep

LEMMA EndConsistent ==
    ASSUME Consistent, NEW s \in Used, Refuse(s) \/ HandlerFails(s) \/ Disconnected(s)
    PROVE  Consistent'
  <1> DEFINE y == [sock[s] EXCEPT !.at = "over", !.got = <<>>]
  <1>1. Types /\ s \in Socket /\ sock[s].at # "unused" /\ SockOK(s)
    BY DEF Consistent, Used
  <1>2. sock[s] \in Connection /\ <<>> \in Seq(Message)
    BY <1>1 DEF Types
  <1>3. y \in Connection
    BY <1>2 DEF Connection
  <1>4. /\ y.owner = sock[s].owner /\ y.where = sock[s].where /\ y.gone = sock[s].gone
        /\ y.at = "over"
    BY <1>2 DEF Connection
  <1>5. /\ End(s) /\ UNCHANGED <<history, listening, feed, telling, noticeVars, up, page, missed>>
        /\ unheard' = unheard \/ unheard' = unheard \union ToSet(sock[s].got)
    BY DEF Refuse, HandlerFails, Disconnected, chatVars
  <1>6. /\ sock' = [sock EXCEPT ![s] = y]
        /\ registry' = [registry EXCEPT ![sock[s].where] = @ \ {s}]
        /\ ToBrowser(s, Frame("close", <<>>))
    BY <1>1, <1>5 DEF End, Types
  <1> HIDE DEF y
  <1>7. /\ wire' \in [Socket -> Seq(AnyFrame)] /\ wire'[s] \in Seq(FrameOf(s))
        /\ \A x \in Socket : x # s => wire'[x] = wire[x]
    BY <1>1, <1>6, FrameFacts, ToBrowserFacts
  <1>8. ToSet(sock[s].got) \subseteq Message
    BY <1>2, SetOfSeq DEF Connection
  <1> QED BY <1>1, <1>3, <1>4, <1>5, <1>6, <1>7, <1>8, HandlerStep DEF Types, SockOK

LEMMA AcceptConsistent ==
    ASSUME Consistent, NEW s \in Used, Accept(s)
    PROVE  Consistent'
  <1> DEFINE y == [sock[s] EXCEPT !.at = IF OfChat(s) THEN "joined" ELSE "idle"]
  <1>1. Types /\ s \in Socket /\ sock[s].at # "unused" /\ SockOK(s)
    BY DEF Consistent, Used
  <1>2. sock[s] \in Connection
    BY <1>1 DEF Types
  <1>3. y \in Connection
    BY <1>2 DEF Connection
  <1>4. /\ y.owner = sock[s].owner /\ y.where = sock[s].where /\ y.gone = sock[s].gone
        /\ y.at = IF OfChat(s) THEN "joined" ELSE "idle"
    BY <1>2 DEF Connection
  <1>5. /\ sock' = [sock EXCEPT ![s] = y]
        /\ registry' = [registry EXCEPT ![sock[s].where] = @ \union {s}]
        /\ ToBrowser(s, Frame("open", <<>>))
        /\ UNCHANGED <<chatVars, noticeVars, up, page, missed>>
    BY <1>1 DEF Accept, Types
  <1> HIDE DEF y
  <1>6. /\ wire' \in [Socket -> Seq(AnyFrame)] /\ wire'[s] \in Seq(FrameOf(s))
        /\ \A x \in Socket : x # s => wire'[x] = wire[x]
    BY <1>1, <1>5, FrameFacts, ToBrowserFacts
  <1> QED BY <1>1, <1>3, <1>4, <1>5, <1>6, HandlerStep DEF Types, SockOK, chatVars

LEMMA HistoryConsistent ==
    ASSUME Consistent, NEW s \in Used, ReadHistory(s) \/ SendHistory(s)
    PROVE  Consistent'
  <1>1. Types /\ s \in Socket /\ sock[s].at # "unused" /\ SockOK(s)
    BY DEF Consistent, Used
  <1>2. sock[s] \in Connection /\ history \in Seq(Message) /\ <<>> \in Seq(Message)
    BY <1>1 DEF Types
  <1>3. CASE ReadHistory(s)
    <2> DEFINE y == [sock[s] EXCEPT !.at = "read", !.got = history]
    <2>1. y \in Connection
      BY <1>2 DEF Connection
    <2>2. /\ y.owner = sock[s].owner /\ y.where = sock[s].where /\ y.gone = sock[s].gone
          /\ y.at = "read"
      BY <1>2 DEF Connection
    <2>3. /\ sock' = [sock EXCEPT ![s] = y] /\ sock[s].at = "joined"
          /\ UNCHANGED <<chatVars, noticeVars, registry, up, wire, page, missed>>
      BY <1>1, <1>3 DEF ReadHistory, Types
    <2> HIDE DEF y
    <2> QED BY <1>1, <2>1, <2>2, <2>3, HandlerStep DEF Types, SockOK, Serving, chatVars
  <1>4. CASE SendHistory(s)
    <2> DEFINE y == [sock[s] EXCEPT !.at = "idle", !.got = <<>>]
    <2>1. y \in Connection
      BY <1>2 DEF Connection
    <2>2. /\ y.owner = sock[s].owner /\ y.where = sock[s].where /\ y.gone = sock[s].gone
          /\ y.at = "idle"
      BY <1>2 DEF Connection
    <2>3. /\ sock' = [sock EXCEPT ![s] = y] /\ sock[s].at = "read"
          /\ ToBrowser(s, Frame("history", sock[s].got))
          /\ UNCHANGED <<chatVars, noticeVars, registry, up, page, missed>>
      BY <1>1, <1>4 DEF SendHistory, Types
    <2>4. Frame("history", sock[s].got) \in FrameOf(s)
      BY <1>1, <1>2, <2>3, FrameFacts DEF FrameOf, SockOK, Connection
    <2>5. /\ wire' \in [Socket -> Seq(AnyFrame)] /\ wire'[s] \in Seq(FrameOf(s))
          /\ \A x \in Socket : x # s => wire'[x] = wire[x]
      BY <1>1, <2>3, <2>4, ToBrowserFacts
    <2> HIDE DEF y
    <2> QED BY <1>1, <2>1, <2>2, <2>3, <2>5, HandlerStep DEF Types, SockOK, Serving, chatVars
  <1> QED BY <1>3, <1>4

LEMMA MessageConsistent ==
    ASSUME Consistent, NEW s \in Used, Store(s) \/ Publish(s)
    PROVE  Consistent'
  <1>1. Types /\ s \in Socket /\ sock[s].at # "unused" /\ SockOK(s)
    BY DEF Consistent, Used
  <1>2. /\ sock[s] \in Connection /\ history \in Seq(Message) /\ <<>> \in Seq(Message)
        /\ wire[s] \in Seq(FrameOf(s)) /\ up[s] \in Seq({m \in Message : m.from = s})
    BY <1>1 DEF Types, SockOK
  <1>3. CASE Store(s)
    <2> DEFINE m == Head(up[s])
               y == [sock[s] EXCEPT !.at = "publishing", !.got = <<m>>]
               rest == Tail(up[s])
    <2>1. /\ sock[s].at = "idle" /\ up[s] # <<>> /\ sock' = [sock EXCEPT ![s] = y]
          /\ history' = Kept(Append(history, m)) /\ up' = [up EXCEPT ![s] = rest]
          /\ UNCHANGED <<listening, feed, telling, unheard, noticeVars, registry, wire, page, missed>>
      BY <1>1, <1>3 DEF Store, Types
    <2>2. m \in {x \in Message : x.from = s} /\ rest \in Seq({x \in Message : x.from = s})
      BY <1>2, <2>1, TailSet
    <2>3. m \in Message /\ m.from = s /\ rest \in Seq(Message)
      BY <2>2, SeqMonotonic
    <2>4. <<m>> \in Seq(Message)
      BY <2>3, SingleSet
    <2>5. y \in Connection
      BY <1>2, <2>4 DEF Connection
    <2>6. /\ y.owner = sock[s].owner /\ y.where = sock[s].where /\ y.gone = sock[s].gone
          /\ y.at = "publishing" /\ y.got = <<m>>
      BY <1>2 DEF Connection
    <2>7. /\ up' \in [Socket -> Seq(Message)] /\ up'[s] = rest
          /\ \A x \in Socket : x # s => up'[x] = up[x]
      BY <1>1, <2>1, <2>3 DEF Types
    <2>8. Append(history, m) \in Seq(Message) /\ Len(Append(history, m)) = Len(history) + 1
      BY <1>2, <2>3
    <2>9. history' \in Seq(Message) /\ Len(history') <= MaxHistory
      <3> DEFINE h == Append(history, m)
      <3>0. Len(history) \in Nat /\ Len(history) <= MaxHistory /\ MaxHistory \in Nat
        BY <1>1, BoundsAssumption DEF Types
      <3>1. h \in Seq(Message) /\ Len(h) <= MaxHistory + 1 /\ Len(h) \in Nat /\ Len(h) # 0
        BY <2>8, <3>0
      <3> HIDE DEF h
      <3>2. Tail(h) \in Seq(Message) /\ Len(Tail(h)) = Len(h) - 1
        BY <3>1
      <3>3. Kept(h) \in Seq(Message) /\ Len(Kept(h)) <= MaxHistory
        BY <3>1, <3>2, BoundsAssumption DEF Kept
      <3> QED BY <2>1, <3>3 DEF h
    <2>10. OfChat(s)
      BY <1>1, <2>1 DEF SockOK
    <2> HIDE DEF m, y, rest
    <2> QED BY <1>1, <1>2, <2>1, <2>2, <2>3, <2>5, <2>6, <2>7, <2>9, <2>10, HandlerStep, ZenonT(60)
            DEF Types, Serving
  <1>4. CASE Publish(s)
    <2> DEFINE y == [sock[s] EXCEPT !.at = "idle", !.got = <<>>]
    <2>1. y \in Connection
      BY <1>2 DEF Connection
    <2>2. /\ y.owner = sock[s].owner /\ y.where = sock[s].where /\ y.gone = sock[s].gone
          /\ y.at = "idle"
      BY <1>2 DEF Connection
    <2>3. /\ sock' = [sock EXCEPT ![s] = y] /\ sock[s].at = "publishing"
          /\ feed' = [c \in Container |-> IF c \in listening THEN feed[c] \o sock[s].got ELSE feed[c]]
          /\ missed' = MissedAt(Container \ listening, ToSet(sock[s].got))
          /\ UNCHANGED <<history, listening, telling, unheard, noticeVars, registry, up, wire, page>>
      BY <1>1, <1>4 DEF Publish, Types
    <2>4. sock[s].got \in Seq(Message) /\ ToSet(sock[s].got) \subseteq Message
      BY <1>2, SetOfSeq DEF Connection
    <2>5. feed' \in [Container -> Seq(Message)]
      BY <1>1, <2>3, <2>4, ConcatSet DEF Types
    <2>6. missed' \in [Socket -> SUBSET Message]
      BY <1>1, <2>3, <2>4 DEF MissedAt, Types
    <2> HIDE DEF y
    <2> QED BY <1>1, <1>2, <2>1, <2>2, <2>3, <2>5, <2>6, HandlerStep DEF Types, Serving, SockOK
  <1> QED BY <1>3, <1>4

\* A listener sends to s, or finds the handler of s gone.
LEMMA SendStep ==
    ASSUME Consistent, NEW c \in Container, NEW s \in Socket, sock[s].where = c, NEW f \in FrameOf(s),
           IF sock[s].at = "over" THEN UNCHANGED <<registry, wire>> ELSE SendTo(c, s, f),
           telling' \in [Container -> [body : Seq(Message), left : SUBSET Socket]],
           batch' \in [Container -> [body : Seq(Notice), left : SUBSET Socket]],
           \A d \in Container : /\ telling'[d].left \subseteq telling[d].left
                                /\ batch'[d].left \subseteq batch[d].left
                                /\ batch'[d].body = batch[d].body \/ batch'[d].left = {},
           missed' \in [Socket -> SUBSET Message],
           UNCHANGED <<history, listening, feed, unheard, rows, stream, sock, up, page>>
    PROVE  Consistent'
  <1>1. Types /\ SockOK(s) /\ registry \in [Container -> SUBSET Socket]
    BY DEF Consistent, Types
  <1>2. sock[s].at # "unused"
    BY <1>1, NoneAssumption DEF SockOK, Unused
  <1>3. /\ wire' \in [Socket -> Seq(AnyFrame)] /\ wire'[s] \in Seq(FrameOf(s))
        /\ \A x \in Socket : x # s => wire'[x] = wire[x]
    <2>1. CASE sock[s].at = "over"
      BY <1>1, <2>1 DEF Types, SockOK
    <2>2. CASE sock[s].at # "over"
      BY <2>2, ToBrowserFacts DEF SendTo
    <2> QED BY <2>1, <2>2
  <1>4. \/ registry' = registry
        \/ sock[s].gone /\ registry' = [registry EXCEPT ![c] = @ \ {s}]
    BY DEF SendTo
  <1>5. registry' \in [Container -> SUBSET Socket]
    <2>1. CASE registry' = registry
      BY <1>1, <2>1
    <2>2. CASE registry' = [registry EXCEPT ![c] = @ \ {s}]
      BY <1>1, <2>2
    <2> QED BY <1>4, <2>1, <2>2
  <1>6. Types'
    BY <1>1, <1>3, <1>5 DEF Types
  <1>7. SockOK(s)'
    BY <1>1, <1>2, <1>3 DEF SockOK, FrameOf, OfChat
  <1>8. ASSUME NEW d \in Container
        PROVE  /\ \A x \in Socket : x # s => (x \in registry'[d] <=> x \in registry[d])
               /\ s \in registry'[d] => Served(d, s)'
               /\ Served(d, s)' => sock'[s].gone \/ s \in registry'[d]
    <2>1. ContainerOK(d) /\ (Served(d, s)' <=> Served(d, s)) /\ sock'[s].gone = sock[s].gone
      BY DEF Consistent, Served, Serving
    <2>2. CASE registry' = registry
      BY <2>1, <2>2 DEF ContainerOK
    <2>3. CASE sock[s].gone /\ registry' = [registry EXCEPT ![c] = @ \ {s}]
      BY <1>1, <2>1, <2>3 DEF ContainerOK
    <2> QED BY <1>4, <2>2, <2>3
  <1> QED BY <1>2, <1>3, <1>6, <1>7, <1>8, SocketStep

LEMMA SendConsistent ==
    ASSUME Consistent, NEW c \in Container, NEW s, SendMessage(c, s) \/ SendNotice(c, s)
    PROVE  Consistent'
  <1>1. /\ Types /\ ContainerOK(c)
        /\ telling[c] \in [body : Seq(Message), left : SUBSET Socket]
        /\ batch[c] \in [body : Seq(Notice), left : SUBSET Socket]
    BY DEF Consistent, Types
  <1>2. CASE SendMessage(c, s)
    <2> DEFINE t == [telling[c] EXCEPT !.left = @ \ {s}]
    <2>1. /\ s \in telling[c].left /\ telling' = [telling EXCEPT ![c] = t]
          /\ IF sock[s].at = "over" THEN UNCHANGED <<registry, wire>>
             ELSE SendTo(c, s, Frame("message", telling[c].body))
          /\ missed' = [missed EXCEPT ![s] = @ \union Overtaken(s, ToSet(telling[c].body))]
          /\ UNCHANGED <<history, listening, feed, unheard, rows, stream, batch, sock, up, page>>
      BY <1>1, <1>2 DEF SendMessage, noticeVars, Types
    <2>2. s \in Socket /\ sock[s].where = c /\ OfChat(s)
      BY <1>1, <2>1 DEF ContainerOK
    <2>3. Frame("message", telling[c].body) \in FrameOf(s)
      BY <1>1, <2>2, FrameFacts DEF FrameOf
    <2>4. t \in [body : Seq(Message), left : SUBSET Socket] /\ t.left \subseteq telling[c].left
      BY <1>1
    <2> HIDE DEF t
    <2>5. /\ telling' \in [Container -> [body : Seq(Message), left : SUBSET Socket]]
          /\ \A d \in Container : telling'[d].left \subseteq telling[d].left
      BY <1>1, <2>1, <2>4 DEF Types
    <2>6. missed' \in [Socket -> SUBSET Message]
      <3>1. ToSet(telling[c].body) \subseteq Message
        BY <1>1, SetOfSeq
      <3> QED BY <1>1, <2>1, <3>1 DEF Overtaken, Types
    <2> QED BY <1>1, <2>1, <2>2, <2>3, <2>5, <2>6, SendStep DEF Types
  <1>3. CASE SendNotice(c, s)
    <2> DEFINE t == [batch[c] EXCEPT !.left = @ \ {s}]
    <2>1. /\ s \in batch[c].left /\ batch' = [batch EXCEPT ![c] = t]
          /\ IF sock[s].at = "over" THEN UNCHANGED <<registry, wire>>
             ELSE SendTo(c, s, Frame("notice", <<Head(batch[c].body)>>))
          /\ UNCHANGED <<history, listening, feed, telling, unheard, rows, stream, sock, up, page, missed>>
      BY <1>1, <1>3 DEF SendNotice, chatVars, Types
    <2>2. s \in Socket /\ sock[s].where = c /\ ~OfChat(s) /\ batch[c].body # <<>>
      BY <1>1, <2>1 DEF ContainerOK
    <2>3. Frame("notice", <<Head(batch[c].body)>>) \in FrameOf(s)
      <3>1. Head(batch[c].body) \in Notice
        BY <1>1, <2>2, TailSet
      <3> QED BY <2>2, <3>1, FrameFacts, SingleSet DEF FrameOf
    <2>4. /\ t \in [body : Seq(Notice), left : SUBSET Socket] /\ t.left \subseteq batch[c].left
          /\ t.body = batch[c].body
      BY <1>1
    <2> HIDE DEF t
    <2>5. /\ batch' \in [Container -> [body : Seq(Notice), left : SUBSET Socket]]
          /\ \A d \in Container : /\ batch'[d].left \subseteq batch[d].left
                                 /\ batch'[d].body = batch[d].body
      BY <1>1, <2>1, <2>4 DEF Types
    <2> QED BY <1>1, <2>1, <2>2, <2>3, <2>5, SendStep DEF Types
  <1> QED BY <1>2, <1>3

\* The browser, or the connection s, does something.
LEMMA BrowserStep ==
    ASSUME Consistent, NEW s \in Socket, sock[s].at # "unused",
           sock' = sock \/ sock' = [sock EXCEPT ![s].gone = TRUE],
           up' \in [Socket -> Seq(Message)], wire' \in [Socket -> Seq(AnyFrame)],
           wire'[s] \in Seq(FrameOf(s)), up'[s] \in Seq({m \in Message : m.from = s}),
           up'[s] # <<>> => OfChat(s),
           \A x \in Socket : x # s => up'[x] = up[x] /\ wire'[x] = wire[x],
           page' \in [Page -> Screen], \A p \in Page : page'[p] = page[p] \/ PageOK(p)',
           UNCHANGED <<chatVars, noticeVars, registry, missed>>
    PROVE  Consistent'
  <1>1. Types /\ SockOK(s) /\ sock \in [Socket -> Connection]
    BY DEF Consistent, Types
  <1>2. /\ sock' \in [Socket -> Connection]
        /\ \A x \in Socket : x # s => sock'[x] = sock[x]
        /\ sock'[s].owner = sock[s].owner /\ sock'[s].where = sock[s].where
        /\ sock'[s].at = sock[s].at /\ sock'[s].got = sock[s].got
        /\ sock[s].gone => sock'[s].gone
    <2>1. CASE sock' = sock
      BY <1>1, <2>1
    <2>2. CASE sock' = [sock EXCEPT ![s].gone = TRUE]
      BY <1>1, <2>2 DEF Connection
    <2> QED BY <2>1, <2>2
  <1>3. Types'
    BY <1>1, <1>2 DEF Types, chatVars, noticeVars
  <1>4. OfChat(s)' <=> OfChat(s)
    BY <1>2 DEF OfChat
  <1>5. SockOK(s)'
    BY <1>1, <1>2, <1>4 DEF SockOK, FrameOf
  <1>6. ASSUME NEW c \in Container
        PROVE  /\ s \in registry'[c] => Served(c, s)'
               /\ Served(c, s)' => sock'[s].gone \/ s \in registry'[c]
    <2>1. ContainerOK(c) /\ (Served(c, s)' <=> Served(c, s))
      BY <1>2 DEF Consistent, Served, Serving
    <2> QED BY <1>2, <2>1 DEF ContainerOK
  <1> QED BY <1>2, <1>3, <1>5, <1>6, SocketStep DEF chatVars, noticeVars

\* The connection of a page is in use.
LEMMA OwnSocket ==
    ASSUME Consistent, NEW p \in Page, page[p].ws # None
    PROVE  /\ page[p].ws \in Socket /\ sock[page[p].ws].owner = p /\ sock[page[p].ws].at # "unused"
           /\ OfChat(page[p].ws) <=> p \in Chatter
           /\ \A q \in Page : page[q].ws = page[p].ws => q = p
  <1>1. page[p].ws \in Socket /\ sock[page[p].ws].owner = p
    BY DEF Consistent, Types, Screen, PageOK
  <1>2. SockOK(page[p].ws) /\ Unused.owner = None
    BY <1>1 DEF Consistent, Unused
  <1>3. sock[page[p].ws].at # "unused"
    BY <1>1, <1>2, NoneAssumption DEF SockOK
  <1>4. \A q \in Page : page[q].ws = page[p].ws => q = p
    BY <1>1 DEF Consistent, PageOK
  <1> QED BY <1>1, <1>3, <1>4 DEF OfChat

LEMMA BlankPage == NewPage \in Screen /\ NewPage.ws = None /\ NewPage.live = <<>> /\ NewPage.read = <<>>
  <1>1. <<>> \in Seq(Message)
    OBVIOUS
  <1> QED BY <1>1, BoundsAssumption DEF NewPage, Screen

LEMMA LeaveConsistent ==
    ASSUME Consistent, NEW p \in Page, Leave(p)
    PROVE  Consistent'
  <1> DEFINE s == page[p].ws
  <1>1. Types /\ SockOK(s) /\ s \in Socket /\ sock[s].at # "unused"
    BY OwnSocket DEF Leave, Consistent
  <1>2. /\ page' = [page EXCEPT ![p] = NewPage] /\ wire' = [wire EXCEPT ![s] = <<>>]
        /\ sock' = [sock EXCEPT ![s].gone = TRUE]
        /\ UNCHANGED <<chatVars, noticeVars, registry, up, missed>>
    BY DEF Leave
  <1> HIDE DEF s
  <1>3. <<>> \in Seq(AnyFrame) /\ <<>> \in Seq(FrameOf(s)) /\ <<>> \in Seq(Message) /\ <<>> \in Seq(Notice)
    OBVIOUS
  <1>4. page' \in [Page -> Screen] /\ page'[p] = NewPage /\ \A q \in Page : q # p => page'[q] = page[q]
    BY <1>1, <1>2, BlankPage DEF Types
  <1>5. PageOK(p)'
    BY <1>3, <1>4, BlankPage DEF PageOK, LiveOf
  <1>6. /\ wire' \in [Socket -> Seq(AnyFrame)] /\ wire'[s] = <<>>
        /\ \A x \in Socket : x # s => wire'[x] = wire[x]
    BY <1>1, <1>2, <1>3 DEF Types
  <1>7. /\ up' \in [Socket -> Seq(Message)] /\ up'[s] \in Seq({m \in Message : m.from = s})
        /\ up'[s] # <<>> => OfChat(s)
        /\ \A x \in Socket : x # s => up'[x] = up[x]
    BY <1>1, <1>2 DEF Types, SockOK
  <1>8. wire'[s] \in Seq(FrameOf(s)) /\ \A q \in Page : page'[q] = page[q] \/ PageOK(q)'
    BY <1>3, <1>4, <1>5, <1>6
  <1> QED BY <1>1, <1>2, <1>4, <1>6, <1>7, <1>8, BrowserStep

LEMMA SayConsistent ==
    ASSUME Consistent, NEW p \in Page, Say(p)
    PROVE  Consistent'
  <1> DEFINE s == page[p].ws
             m == [from |-> s, no |-> page[p].said + 1]
             y == [page[p] EXCEPT !.said = m.no]
  <1>1. /\ p \in Chatter /\ page[p].at = "live" /\ page[p].said < MaxSay
        /\ up' = [up EXCEPT ![s] = IF sock[s].gone THEN @ ELSE Append(@, m)]
        /\ UNCHANGED <<chatVars, noticeVars, registry, sock, wire, missed>>
    BY DEF Say, CanSpeak
  <1>2. Types /\ PageOK(p) /\ page[p] \in Screen /\ page \in [Page -> Screen]
    BY DEF Consistent, Types
  <1>3. page' = [page EXCEPT ![p] = y]
    BY <1>2 DEF Say
  <1>4. s # None
    BY <1>1, <1>2 DEF PageOK, NewPage
  <1>5. SockOK(s) /\ s \in Socket /\ sock[s].at # "unused" /\ OfChat(s) /\ sock[s].owner = p
    BY <1>1, <1>4, OwnSocket DEF Consistent
  <1>6. page[p].said + 1 \in 1..MaxSay /\ page[p].said + 1 \in 0..MaxSay
    BY <1>1, <1>2, BoundsAssumption DEF Screen
  <1>7. m \in Message /\ m \in {x \in Message : x.from = s} /\ m.no = page[p].said + 1
    BY <1>5, <1>6 DEF Message
  <1>8. /\ y \in Screen /\ y.ws = s /\ y.live = page[p].live
    BY <1>2, <1>6, <1>7 DEF Screen
  <1> HIDE DEF y, m, s
  <1>9. page' \in [Page -> Screen] /\ page'[p] = y /\ \A q \in Page : q # p => page'[q] = page[q]
    BY <1>2, <1>3, <1>8
  <1>10. PageOK(p)'
    BY <1>1, <1>2, <1>4, <1>5, <1>8, <1>9 DEF PageOK
  <1>11. /\ Append(up[s], m) \in Seq(Message) /\ Append(up[s], m) \in Seq({x \in Message : x.from = s})
         /\ up[s] \in Seq({x \in Message : x.from = s})
    BY <1>2, <1>5, <1>7, AppendSet DEF SockOK, Types
  <1>12. /\ up' \in [Socket -> Seq(Message)] /\ up'[s] \in Seq({x \in Message : x.from = s})
         /\ \A x \in Socket : x # s => up'[x] = up[x]
    BY <1>1, <1>2, <1>5, <1>11 DEF Types
  <1> QED BY <1>1, <1>2, <1>5, <1>9, <1>10, <1>12, BrowserStep, ZenonT(60) DEF Types, SockOK

LEMMA CutConsistent ==
    ASSUME Consistent, NEW s \in Used, Cut(s)
    PROVE  Consistent'
  <1>1. Types /\ SockOK(s) /\ s \in Socket /\ sock[s].at # "unused"
    BY DEF Used, Consistent
  <1>2. /\ sock' = [sock EXCEPT ![s].gone = TRUE]
        /\ UNCHANGED <<chatVars, noticeVars, registry, page, missed>>
    BY DEF Cut
  <1>3. PICK i \in 0..Len(up[s]) : up' = [up EXCEPT ![s] = SubSeq(@, 1, i)]
    BY DEF Cut
  <1>4. PICK j \in 0..Len(wire[s]) :
          wire' = [wire EXCEPT ![s] = Append(SubSeq(@, 1, j), Frame("close", <<>>))]
    BY DEF Cut
  <1>5. /\ up[s] \in Seq({m \in Message : m.from = s}) /\ wire[s] \in Seq(FrameOf(s))
        /\ up[s] \in Seq(Message) /\ wire[s] \in Seq(AnyFrame)
        /\ Len(up[s]) \in Nat /\ Len(wire[s]) \in Nat
    BY <1>1 DEF Types, SockOK
  <1>6. 1 \in 1..(Len(up[s]) + 1) /\ 1 \in 1..(Len(wire[s]) + 1)
    BY <1>5
  <1>7. /\ SubSeq(up[s], 1, i) \in Seq({m \in Message : m.from = s})
        /\ SubSeq(up[s], 1, i) \in Seq(Message)
        /\ SubSeq(wire[s], 1, j) \in Seq(FrameOf(s)) /\ SubSeq(wire[s], 1, j) \in Seq(AnyFrame)
    BY <1>5, <1>6, SubSet
  <1>8. /\ Append(SubSeq(wire[s], 1, j), Frame("close", <<>>)) \in Seq(FrameOf(s))
        /\ Append(SubSeq(wire[s], 1, j), Frame("close", <<>>)) \in Seq(AnyFrame)
    BY <1>7, AppendSet, FrameFacts
  <1>9. /\ up' \in [Socket -> Seq(Message)] /\ wire' \in [Socket -> Seq(AnyFrame)]
        /\ wire'[s] \in Seq(FrameOf(s)) /\ up'[s] \in Seq({m \in Message : m.from = s})
        /\ \A x \in Socket : x # s => up'[x] = up[x] /\ wire'[x] = wire[x]
    BY <1>1, <1>3, <1>4, <1>7, <1>8 DEF Types
  <1>10. up'[s] # <<>> => OfChat(s)
    <2>1. up[s] = <<>> => SubSeq(up[s], 1, i) = <<>>
      BY <1>5
    <2>2. up'[s] = SubSeq(up[s], 1, i)
      BY <1>1, <1>3 DEF Types
    <2> QED BY <1>1, <2>1, <2>2 DEF SockOK
  <1> QED BY <1>1, <1>2, <1>9, <1>10, BrowserStep DEF Types

\* What a page makes of a frame that is meant for a page of its kind.
LEMMA ShownFacts ==
    ASSUME Consistent, NEW p \in Page, NEW f \in FrameFor(p)
    PROVE  /\ Shown(p, f) \in Screen
           /\ Shown(p, f).ws = page[p].ws /\ Shown(p, f).said = page[p].said
           /\ Shown(p, f).live \in LiveOf(p)
           /\ f.kind = "open" =>
                Shown(p, f).at = "live" /\ Shown(p, f).read = page[p].read /\ Shown(p, f).live = page[p].live
           /\ f.kind = "close" =>
                Shown(p, f).at = "down" /\ Shown(p, f).read = page[p].read /\ Shown(p, f).live = page[p].live
           /\ f.kind = "history" =>
                Shown(p, f).at = page[p].at /\ Shown(p, f).read = f.body /\ Shown(p, f).live = <<>>
           /\ f.kind = "message" =>
                /\ Shown(p, f).at = page[p].at /\ Shown(p, f).read = page[p].read
                /\ Shown(p, f).live = page[p].live \o f.body
           /\ f.kind = "notice" =>
                /\ Shown(p, f).at = page[p].at /\ Shown(p, f).read = page[p].read
                /\ Shown(p, f).live = page[p].live \o Mine(p, f.body)
  <1> DEFINE y == page[p]
             L == LiveOf(p)
  <1>1. y \in Screen /\ y.live \in L
    BY DEF Consistent, Types, PageOK
  <1>2. <<>> \in Seq(Message) /\ <<>> \in L /\ L \subseteq Seq(Message) \union Seq(Notice)
    <2>1. <<>> \in Seq(Message) /\ <<>> \in Seq(Notice)
      OBVIOUS
    <2> QED BY <2>1 DEF LiveOf
  <1>3. ASSUME NEW q \in L PROVE y.live \o q \in L
    <2>1. CASE p \in Chatter
      BY <1>1, <1>3, <2>1, ConcatSet DEF LiveOf
    <2>2. CASE p \notin Chatter
      BY <1>1, <1>3, <2>2, ConcatSet DEF LiveOf
    <2> QED BY <2>1, <2>2
  <1> HIDE DEF L
  <1>4. CASE f.kind = "open"
    <2>1. Shown(p, f) = [y EXCEPT !.at = "live"]
      BY <1>4 DEF Shown
    <2> QED BY <1>1, <1>4, <2>1 DEF L, Screen
  <1>5. CASE f.kind = "close"
    <2>1. Shown(p, f) = [y EXCEPT !.at = "down"]
      BY <1>5 DEF Shown
    <2> QED BY <1>1, <1>5, <2>1 DEF L, Screen
  <1>6. CASE f.kind = "history"
    <2>1. Shown(p, f) = [y EXCEPT !.read = f.body, !.live = <<>>]
      BY <1>6 DEF Shown
    <2>2. f.body \in Seq(Message)
      BY <1>6 DEF ChatFrame, NoticeFrame, FrameFor
    <2> QED BY <1>1, <1>2, <1>6, <2>1, <2>2 DEF L, Screen
  <1>7. ASSUME NEW q \in L, Shown(p, f) = [y EXCEPT !.live = @ \o q]
        PROVE  /\ Shown(p, f) \in Screen /\ Shown(p, f).ws = y.ws /\ Shown(p, f).said = y.said
               /\ Shown(p, f).live \in L /\ Shown(p, f).at = y.at /\ Shown(p, f).read = y.read
               /\ Shown(p, f).live = y.live \o q
    <2>1. y.live \o q \in L
      BY <1>3
    <2> QED BY <1>1, <1>2, <1>7, <2>1 DEF Screen
  <1>8. CASE f.kind = "message"
    <2>1. Shown(p, f) = [y EXCEPT !.live = @ \o f.body]
      BY <1>8 DEF Shown
    <2>2. f.body \in L
      BY <1>8 DEF L, ChatFrame, NoticeFrame, FrameFor, LiveOf
    <2> QED BY <1>7, <1>8, <2>1, <2>2 DEF L
  <1>9. CASE f.kind = "notice"
    <2>1. Shown(p, f) = [y EXCEPT !.live = @ \o Mine(p, f.body)]
      BY <1>9 DEF Shown
    <2>2. f.body \in L
      BY <1>9 DEF L, ChatFrame, NoticeFrame, FrameFor, LiveOf
    <2>3. Mine(p, f.body) \in L
      BY <1>2, <2>2 DEF Mine
    <2> QED BY <1>7, <1>9, <2>1, <2>3 DEF L
  <1>10. f.kind \in {"open", "close", "history", "message", "notice"}
    BY DEF ChatFrame, NoticeFrame, FrameFor
  <1> QED BY <1>4, <1>5, <1>6, <1>8, <1>9, <1>10

LEMMA ArriveConsistent ==
    ASSUME Consistent, NEW p \in Page, Arrive(p)
    PROVE  Consistent'
  <1> DEFINE s == page[p].ws
             f == Head(wire[s])
             y == Shown(p, f)
  <1>1. Types /\ SockOK(s) /\ s \in Socket /\ sock[s].at # "unused" /\ (OfChat(s) <=> p \in Chatter)
        /\ sock[s].owner = p /\ s # None
    BY OwnSocket DEF Arrive, Consistent
  <1>2. /\ wire[s] # <<>> /\ page' = [page EXCEPT ![p] = y]
        /\ wire' = [wire EXCEPT ![s] = Tail(@)]
        /\ UNCHANGED <<chatVars, noticeVars, registry, sock, up, missed>>
    BY DEF Arrive
  <1> HIDE DEF s
  <1>3. /\ wire[s] \in Seq(FrameOf(s)) /\ wire[s] \in Seq(AnyFrame)
    BY <1>1 DEF Types, SockOK
  <1>4. f \in FrameOf(s) /\ Tail(wire[s]) \in Seq(FrameOf(s)) /\ Tail(wire[s]) \in Seq(AnyFrame)
    BY <1>2, <1>3, TailSet
  <1>5. f \in FrameFor(p)
    BY <1>1, <1>4 DEF FrameOf, FrameFor
  <1> HIDE DEF f
  <1>6. /\ y \in Screen /\ y.ws = page[p].ws
        /\ y.live \in LiveOf(p)
    BY <1>5, ShownFacts
  <1> HIDE DEF y
  <1>7. page' \in [Page -> Screen] /\ page'[p] = y /\ \A q \in Page : q # p => page'[q] = page[q]
    BY <1>1, <1>2, <1>6 DEF Types
  <1>8. PageOK(p)'
    BY <1>1, <1>2, <1>6, <1>7 DEF PageOK, s
  <1>9. /\ wire' \in [Socket -> Seq(AnyFrame)] /\ wire'[s] \in Seq(FrameOf(s))
        /\ \A x \in Socket : x # s => wire'[x] = wire[x]
    BY <1>1, <1>2, <1>4 DEF Types
  <1>10. /\ up' \in [Socket -> Seq(Message)] /\ up'[s] \in Seq({m \in Message : m.from = s})
         /\ up'[s] # <<>> => OfChat(s)
         /\ \A x \in Socket : x # s => up'[x] = up[x]
    BY <1>1, <1>2 DEF Types, SockOK
  <1>11. \A q \in Page : page'[q] = page[q] \/ PageOK(q)'
    BY <1>7, <1>8
  <1> QED BY <1>1, <1>2, <1>7, <1>9, <1>10, <1>11, BrowserStep

LEMMA OpenConsistent ==
    ASSUME Consistent, NEW p \in Page, NEW s \in Socket, NEW c \in Container, Open(p, s, c)
    PROVE  Consistent'
  <1> DEFINE y == [NewPage EXCEPT !.ws = s, !.at = "connecting"]
             k == [Unused EXCEPT !.owner = p, !.at = "asking", !.where = c]
  <1>1. /\ Types /\ SockOK(s) /\ sock[s] = Unused /\ page[p].ws = None
        /\ page' = [page EXCEPT ![p] = y] /\ sock' = [sock EXCEPT ![s] = k]
        /\ UNCHANGED <<chatVars, noticeVars, registry, up, wire, missed>>
    BY DEF Open, Consistent
  <1>2. /\ <<>> \in Seq(Message) /\ <<>> \in Seq(Notice)
        /\ <<>> \in Seq(ChatFrame) /\ <<>> \in Seq(NoticeFrame)
        /\ <<>> \in Seq({m \in Message : m.from = s})
    OBVIOUS
  <1>3. y \in Screen /\ y.ws = s /\ y.live = <<>>
    BY BlankPage DEF Screen
  <1>4. k \in Connection /\ k.owner = p /\ k.where = c /\ k.at = "asking"
    BY <1>2 DEF Unused, Connection
  <1>5. Unused.at = "unused" /\ Unused.owner = None /\ Unused.where = None
    BY DEF Unused
  <1> HIDE DEF y, k
  <1>6. /\ page' \in [Page -> Screen] /\ page'[p] = y /\ \A q \in Page : q # p => page'[q] = page[q]
        /\ sock' \in [Socket -> Connection] /\ sock'[s] = k
        /\ \A x \in Socket : x # s => sock'[x] = sock[x]
    BY <1>1, <1>3, <1>4 DEF Types
  <1>7. Types'
    BY <1>1, <1>6 DEF Types, chatVars, noticeVars
  <1>8. \A x \in Socket : SockOK(x)'
    <2>1. SockOK(s)'
      BY <1>1, <1>2, <1>4, <1>5, <1>6 DEF SockOK, FrameOf
    <2>2. ASSUME NEW x \in Socket, x # s PROVE SockOK(x)'
      <3>1. SockOK(x) /\ sock'[x] = sock[x] /\ up'[x] = up[x] /\ wire'[x] = wire[x]
        BY <1>1, <1>6, <2>2 DEF Consistent
      <3>2. (OfChat(x)' <=> OfChat(x)) /\ FrameOf(x)' = FrameOf(x)
        BY <3>1 DEF OfChat, FrameOf
      <3> QED BY <3>1, <3>2 DEF SockOK
    <2> QED BY <2>1, <2>2
  <1>9. \A q \in Page : PageOK(q)'
    <2>1. PageOK(p)'
      BY <1>1, <1>2, <1>3, <1>4, <1>6, NoneAssumption DEF PageOK, LiveOf
    <2>2. ASSUME NEW q \in Page, q # p PROVE PageOK(q)'
      <3>1. PageOK(q) /\ page'[q] = page[q] /\ page[q].ws \in Socket \union {None}
        BY <1>1, <1>6, <2>2 DEF Consistent, Types, Screen
      <3>2. page[q].ws # s
        BY <1>1, <1>5, <2>2, OwnSocket, NoneAssumption
      <3> QED BY <1>6, <3>1, <3>2 DEF PageOK
    <2> QED BY <2>1, <2>2
  <1>10. ASSUME NEW d \in Container PROVE ContainerOK(d)'
    <2>1. ContainerOK(d)
      BY DEF Consistent
    <2>2. registry' = registry /\ telling' = telling /\ batch' = batch
      BY <1>1 DEF chatVars, noticeVars
    <2>3. ~Served(d, s) /\ ~Served(d, s)'
      BY <1>1, <1>4, <1>5, <1>6 DEF Served, Serving
    <2>4. ASSUME NEW x \in Socket, x # s
          PROVE  /\ Served(d, x)' <=> Served(d, x)
                 /\ OfChat(x)' <=> OfChat(x)
                 /\ sock'[x].where = sock[x].where /\ sock'[x].gone = sock[x].gone
      BY <1>6, <2>4 DEF Served, Serving, OfChat
    <2>5. s \notin telling[d].left /\ s \notin batch[d].left /\ s \notin registry[d]
      BY <1>1, <1>5, <2>1, <2>3, NoneAssumption DEF ContainerOK
    <2>6. telling[d].left \subseteq Socket /\ batch[d].left \subseteq Socket /\ registry[d] \subseteq Socket
      BY <1>1 DEF Types
    <2> QED BY <2>1, <2>2, <2>3, <2>4, <2>5, <2>6 DEF ContainerOK
  <1> QED BY <1>7, <1>8, <1>9, <1>10 DEF Consistent

LEMMA RestartConsistent ==
    ASSUME Consistent, NEW c \in Container, Restart(c)
    PROVE  Consistent'
  <1> DEFINE here == {s \in Used : sock[s].where = c /\ sock[s].at # "over"}
  <1>1. /\ sock' = [s \in Socket |-> IF s \in here THEN [sock[s] EXCEPT !.at = "over", !.got = <<>>]
                                     ELSE sock[s]]
        /\ up' = [s \in Socket |-> IF s \in here THEN <<>> ELSE up[s]]
        /\ wire' = [s \in Socket |-> IF s \in here /\ ~sock[s].gone
                                     THEN Append(wire[s], Frame("close", <<>>)) ELSE wire[s]]
        /\ unheard' = unheard \union
               UNION {ToSet(sock[s].got) : s \in {x \in here : sock[x].at = "publishing"}}
        /\ registry' = [registry EXCEPT ![c] = {}]
        /\ listening' = listening \union {c} /\ feed' = [feed EXCEPT ![c] = <<>>]
        /\ telling' = [telling EXCEPT ![c] = NoTale] /\ batch' = [batch EXCEPT ![c] = NoTale]
        /\ UNCHANGED <<history, rows, stream, page, missed>>
    BY DEF Restart
  <1>2. Types /\ \A s \in Socket : SockOK(s)
    BY DEF Consistent
  <1>3. /\ <<>> \in Seq(Message) /\ <<>> \in Seq(Notice)
        /\ NoTale \in [body : Seq(Message), left : SUBSET Socket]
        /\ NoTale \in [body : Seq(Notice), left : SUBSET Socket] /\ NoTale.left = {}
    BY DEF NoTale
  <1>4. here \subseteq Socket
    BY DEF Used
  <1>5. ASSUME NEW s \in Socket
        PROVE  /\ sock'[s] \in Connection /\ sock'[s].owner = sock[s].owner
               /\ sock'[s].where = sock[s].where /\ sock'[s].gone = sock[s].gone
               /\ s \in here => sock'[s].at = "over" /\ sock[s].at # "unused"
               /\ s \notin here => sock'[s] = sock[s] /\ up'[s] = up[s] /\ wire'[s] = wire[s]
               /\ s \in here => up'[s] = <<>>
               /\ up'[s] \in Seq(Message) /\ wire'[s] \in Seq(AnyFrame) /\ wire'[s] \in Seq(FrameOf(s))
    <2>1. /\ sock[s] \in Connection /\ up[s] \in Seq(Message) /\ wire[s] \in Seq(AnyFrame)
          /\ wire[s] \in Seq(FrameOf(s))
      BY <1>2 DEF Types, SockOK
    <2>2. /\ Append(wire[s], Frame("close", <<>>)) \in Seq(AnyFrame)
          /\ Append(wire[s], Frame("close", <<>>)) \in Seq(FrameOf(s))
      BY <2>1, AppendSet, FrameFacts
    <2>3. CASE s \in here
      <3>1. sock'[s] = [sock[s] EXCEPT !.at = "over", !.got = <<>>]
        BY <1>1, <2>3
      <3>2. /\ sock'[s] \in Connection /\ sock'[s].owner = sock[s].owner
            /\ sock'[s].where = sock[s].where /\ sock'[s].gone = sock[s].gone /\ sock'[s].at = "over"
        BY <1>3, <2>1, <3>1 DEF Connection
      <3>3. up'[s] = <<>> /\ wire'[s] \in {Append(wire[s], Frame("close", <<>>)), wire[s]}
        BY <1>1, <2>3
      <3> QED BY <1>3, <2>1, <2>2, <2>3, <3>2, <3>3 DEF Used
    <2>4. CASE s \notin here
      BY <1>1, <2>1, <2>4
    <2> QED BY <2>3, <2>4
  <1>6. ToSet(<<>>) = {} /\ \A s \in Socket : ToSet(sock[s].got) \subseteq Message
    <2> SUFFICES ASSUME NEW s \in Socket PROVE ToSet(sock[s].got) \subseteq Message
      BY EmptySet
    <2>1. sock[s].got \in Seq(Message)
      BY <1>2 DEF Types, Connection
    <2> QED BY <2>1, SetOfSeq
  <1>7. unheard' \subseteq Message
    <2>1. UNION {ToSet(sock[s].got) : s \in {x \in here : sock[x].at = "publishing"}} \subseteq Message
      BY <1>4, <1>6, Zenon
    <2> QED BY <1>1, <1>2, <2>1 DEF Types
  <1>8. Types'
    <2>1. /\ sock' \in [Socket -> Connection] /\ up' \in [Socket -> Seq(Message)]
          /\ wire' \in [Socket -> Seq(AnyFrame)]
      <3> HIDE DEF here
      <3> QED BY <1>1, <1>5
    <2>2. /\ registry' \in [Container -> SUBSET Socket] /\ listening' \subseteq Container
          /\ feed' \in [Container -> Seq(Message)]
          /\ telling' \in [Container -> [body : Seq(Message), left : SUBSET Socket]]
          /\ batch' \in [Container -> [body : Seq(Notice), left : SUBSET Socket]]
      BY <1>1, <1>2, <1>3 DEF Types
    <2> QED BY <1>1, <1>2, <1>7, <2>1, <2>2, ZenonT(60) DEF Types
  <1>9. \A s \in Socket : (OfChat(s)' <=> OfChat(s)) /\ FrameOf(s)' = FrameOf(s)
    BY <1>5 DEF OfChat, FrameOf
  <1> HIDE DEF here
  <1>10. ASSUME NEW s \in Socket PROVE SockOK(s)'
    <2>1. CASE s \in here
      <3>1. sock'[s].owner \in Page /\ sock'[s].where \in Container
        BY <1>2, <1>5, <2>1 DEF SockOK
      <3>2. <<>> \in Seq({m \in Message : m.from = s})
        OBVIOUS
      <3> QED BY <1>5, <1>9, <2>1, <3>1, <3>2 DEF SockOK
    <2>2. CASE s \notin here
      <3>1. SockOK(s) /\ sock'[s] = sock[s] /\ up'[s] = up[s] /\ wire'[s] = wire[s]
        BY <1>2, <1>5, <2>2
      <3> QED BY <1>9, <3>1 DEF SockOK
    <2> QED BY <2>1, <2>2
  <1>11. ASSUME NEW p \in Page PROVE PageOK(p)'
    <2>1. PageOK(p) /\ page' = page /\ page[p].ws \in Socket \union {None}
      BY <1>1, <1>2 DEF Consistent, Types, Screen
    <2> QED BY <1>5, <2>1 DEF PageOK
  <1>12. ASSUME NEW d \in Container PROVE ContainerOK(d)'
    <2>1. /\ ContainerOK(d) /\ telling[d].left \subseteq Socket /\ batch[d].left \subseteq Socket
          /\ registry[d] \subseteq Socket
      BY <1>2 DEF Consistent, Types
    <2>2. CASE d = c
      <3>1. registry'[d] = {} /\ telling'[d] = NoTale /\ batch'[d] = NoTale
        BY <1>1, <1>2, <2>2 DEF Types
      <3>2. \A s \in Socket : ~Served(d, s)'
        BY <1>5, <2>2 DEF Served, Serving, here, Used
      <3> QED BY <1>3, <3>1, <3>2 DEF ContainerOK
    <2>3. CASE d # c
      <3>1. registry'[d] = registry[d] /\ telling'[d] = telling[d] /\ batch'[d] = batch[d]
        BY <1>1, <1>2, <2>3 DEF Types
      <3>2. \A s \in Socket : sock[s].where = d => s \notin here
        BY <2>3 DEF here
      <3>3. \A s \in Socket : Served(d, s)' <=> Served(d, s)
        BY <1>5, <3>2 DEF Served, Serving
      <3> QED BY <1>5, <1>9, <2>1, <3>1, <3>3 DEF ContainerOK
    <2> QED BY <2>2, <2>3
  <1> QED BY <1>8, <1>10, <1>11, <1>12 DEF Consistent

LEMMA ConsistentStep == Consistent /\ [Next]_vars => Consistent'
  <1> SUFFICES ASSUME Consistent, [Next]_vars PROVE Consistent'
    OBVIOUS
  <1>1. CASE UNCHANGED vars
    <2>1. UNCHANGED <<history, listening, feed, telling, unheard, rows, stream, batch, registry, sock,
                      up, wire, page, missed>>
      BY <1>1 DEF vars, chatVars, noticeVars
    <2>2. Types'
      BY <2>1 DEF Consistent, Types
    <2> QED BY <2>1, <2>2, ListenerStep DEF Consistent, ContainerOK
  <1>2. ASSUME NEW p \in Page, UserStep(p) PROVE Consistent'
    BY <1>2, LeaveConsistent, SayConsistent, OpenConsistent, NotifyConsistent DEF UserStep
  <1>3. CASE SystemStep
    BY <1>3, ArriveConsistent, AcceptConsistent, HistoryConsistent, MessageConsistent, EndConsistent,
       ListenerConsistent, SendConsistent DEF SystemStep
  <1>4. CASE FaultStep
    BY <1>4, EndConsistent, CutConsistent, ListenerConsistent, RestartConsistent DEF FaultStep
  <1> QED BY <1>1, <1>2, <1>3, <1>4 DEF Next

LEMMA AlwaysConsistent == Spec => []Consistent
  BY InitConsistent, ConsistentStep, PTL DEF Spec

\* The types, one connection per page, and registries that hold exactly the
\* connections a container has a handler for, but those it found closed.
THEOREM TypeCorrect == Spec => []TypeOK
  BY AlwaysConsistent, ConsistentType, PTL

-----------------------------------------------------------------------------
(* Order.  A message passes from the page that has yet to say it into "up",*)
(* from there into the hands of the handler and the history, the feeds, the*)
(* hands of the listeners, the wires and the pages.  At each place, what   *)
(* comes from one socket is in order, and before all that is further back. *)

\* Messages are compared with those of the same socket, notices with all.
Earlier(chat, A, B) ==
    \A a \in A, b \in B : (chat => a.from = b.from) => a.no < b.no
Rising(chat, q) ==
    \A i, j \in DOMAIN q : i < j /\ (chat => q[i].from = q[j].from) => q[i].no < q[j].no

LEMMA RisingEmpty == \A chat : Rising(chat, <<>>)
  BY DEF Rising

LEMMA RisingSingle ==
    ASSUME NEW chat, NEW S, NEW x \in S
    PROVE  Rising(chat, <<x>>)
  BY DEF Rising

LEMMA RisingTail ==
    ASSUME NEW chat \in BOOLEAN, NEW S, NEW q \in Seq(S), q # <<>>, Rising(chat, q)
    PROVE  Rising(chat, Tail(q)) /\ Earlier(chat, {Head(q)}, ToSet(Tail(q)))
  <1>1. /\ Head(q) = q[1] /\ 1 \in DOMAIN q /\ DOMAIN q = 1..Len(q) /\ Len(q) \in Nat \ {0}
        /\ DOMAIN Tail(q) = 1..(Len(q) - 1)
        /\ \A i \in 1..(Len(q) - 1) : Tail(q)[i] = q[i + 1]
    OBVIOUS
  <1>2. \A i \in 1..(Len(q) - 1) : i + 1 \in 1..Len(q) /\ 1 < i + 1
    BY <1>1
  <1>3. \A i, j \in 1..(Len(q) - 1) : i < j => i + 1 < j + 1
    BY <1>1
  <1>4. Rising(chat, Tail(q))
    BY <1>1, <1>2, <1>3 DEF Rising
  <1>5. Earlier(chat, {Head(q)}, ToSet(Tail(q)))
    BY <1>1, <1>2 DEF Rising, Earlier, ToSet
  <1> QED BY <1>4, <1>5

LEMMA RisingSub ==
    ASSUME NEW chat \in BOOLEAN, NEW S, NEW q \in Seq(S), NEW k \in 0..Len(q), Rising(chat, q)
    PROVE  /\ Rising(chat, SubSeq(q, 1, k)) /\ Rising(chat, SubSeq(q, k + 1, Len(q)))
           /\ Earlier(chat, ToSet(SubSeq(q, 1, k)), ToSet(SubSeq(q, k + 1, Len(q))))
  <1> DEFINE a == SubSeq(q, 1, k)
             b == SubSeq(q, k + 1, Len(q))
  <1>1. /\ DOMAIN q = 1..Len(q) /\ Len(q) \in Nat /\ k \in Nat /\ k <= Len(q)
        /\ DOMAIN a = 1..k /\ \A i \in 1..k : a[i] = q[i]
    OBVIOUS
  <1>2. DOMAIN b = 1..(Len(q) - k) /\ \A i \in 1..(Len(q) - k) : b[i] = q[i + k]
    BY <1>1
  <1>3. \A i \in 1..k : i \in 1..Len(q)
    BY <1>1
  <1>4. \A i \in 1..(Len(q) - k) : i + k \in 1..Len(q)
    BY <1>1
  <1>5. \A i \in 1..k, j \in 1..(Len(q) - k) : i < j + k
    BY <1>1
  <1>6. \A i, j \in 1..(Len(q) - k) : i < j => i + k < j + k
    BY <1>1
  <1> HIDE DEF a, b
  <1>7. Rising(chat, a)
    BY <1>1, <1>3 DEF Rising
  <1>8. Rising(chat, b)
    BY <1>1, <1>2, <1>4, <1>6, ZenonT(60) DEF Rising
  <1>9. Earlier(chat, ToSet(a), ToSet(b))
    BY <1>1, <1>2, <1>3, <1>4, <1>5, SMTT(60) DEF Rising, Earlier, ToSet
  <1> QED BY <1>7, <1>8, <1>9 DEF a, b

LEMMA RisingConcat ==
    ASSUME NEW chat \in BOOLEAN, NEW S, NEW q \in Seq(S), NEW r \in Seq(S),
           Rising(chat, q), Rising(chat, r), Earlier(chat, ToSet(q), ToSet(r))
    PROVE  Rising(chat, q \o r)
  <1> DEFINE n == Len(q)
             c == q \o r
  <1>1. /\ DOMAIN c = 1..(n + Len(r)) /\ DOMAIN q = 1..n /\ DOMAIN r = 1..Len(r)
        /\ n \in Nat /\ Len(r) \in Nat
        /\ \A i \in 1..(n + Len(r)) : c[i] = IF i <= n THEN q[i] ELSE r[i - n]
    OBVIOUS
  <1> HIDE DEF n, c
  <1>2. \A i \in 1..(n + Len(r)) :
            (i \in 1..n /\ i <= n) \/ (~(i <= n) /\ i - n \in 1..Len(r))
    BY <1>1
  <1> SUFFICES ASSUME NEW i \in 1..(n + Len(r)), NEW j \in 1..(n + Len(r)), i < j,
                      chat => c[i].from = c[j].from
               PROVE  c[i].no < c[j].no
    BY <1>1 DEF Rising, c
  <1>3. CASE i <= n /\ j <= n
    <2>1. c[i] = q[i] /\ c[j] = q[j] /\ i \in DOMAIN q /\ j \in DOMAIN q
      BY <1>1, <1>2, <1>3
    <2> QED BY <2>1 DEF Rising
  <1>4. CASE i <= n /\ ~(j <= n)
    <2>1. c[i] = q[i] /\ c[j] = r[j - n] /\ i \in DOMAIN q /\ j - n \in DOMAIN r
      BY <1>1, <1>2, <1>4
    <2> QED BY <2>1 DEF Earlier, ToSet
  <1>5. CASE ~(i <= n) /\ ~(j <= n)
    <2>1. /\ c[i] = r[i - n] /\ c[j] = r[j - n] /\ i - n \in DOMAIN r /\ j - n \in DOMAIN r
          /\ i - n < j - n
      BY <1>1, <1>2, <1>5
    <2> QED BY <2>1 DEF Rising
  <1>6. ~(i <= n) => ~(j <= n)
    BY <1>1
  <1> QED BY <1>3, <1>4, <1>5, <1>6

LEMMA RisingAppend ==
    ASSUME NEW chat \in BOOLEAN, NEW S, NEW q \in Seq(S), NEW x \in S,
           Rising(chat, q), Earlier(chat, ToSet(q), {x})
    PROVE  Rising(chat, Append(q, x))
  <1>1. Append(q, x) = q \o <<x>> /\ <<x>> \in Seq(S) /\ ToSet(<<x>>) = {x}
    BY SingleSet
  <1> QED BY <1>1, RisingConcat, RisingSingle

\* What may still be sent over the connections, and what has been.
Future == {m \in Message : \/ sock[m.from].at = "unused"
                           \/ \E p \in Page : page[p].ws = m.from /\ page[p].said < m.no}
Queued == {m \in Message : m \in ToSet(up[m.from])}
InHand == {m \in Message : sock[m.from].at = "publishing" /\ m \in ToSet(sock[m.from].got)}

Ahead       == Future \union Queued
Unpublished == Ahead \union InHand

\* A step that adds nothing to these, other than by moving it on.
Upstream ==
    /\ history' = history
    /\ \A p \in Page : /\ page'[p].ws \in {None, page[p].ws}
                       /\ page'[p].ws # None => page'[p].said = page[p].said
    /\ \A s \in Socket :
        /\ sock'[s].at = "unused" <=> sock[s].at = "unused"
        /\ sock'[s].owner = sock[s].owner /\ sock'[s].where = sock[s].where
        /\ \/ up'[s] \in {up[s], <<>>}
           \/ \E i \in 0..Len(up[s]) : up'[s] = SubSeq(up[s], 1, i)
        /\ sock'[s].at = "publishing" => sock[s].at = "publishing" /\ sock'[s].got = sock[s].got

LEMMA UpstreamKinds ==
    ASSUME Consistent, [Next]_vars
    PROVE  \/ \E p \in Page : Say(p)
           \/ \E s \in Used : Store(s)
           \/ \E p \in Page, s \in Socket, c \in Container : Open(p, s, c)
           \/ Upstream
  <1>1. /\ sock \in [Socket -> Connection] /\ page \in [Page -> Screen] /\ Used \subseteq Socket
        /\ \A s \in Socket : SockOK(s)
    BY DEF Consistent, Types, Used
  <1>2. ASSUME UNCHANGED <<history, page, sock, up>> PROVE Upstream
    BY <1>2 DEF Upstream
  <1>3. ASSUME NEW s \in Used, NEW a, a \notin {"unused", "publishing"}, NEW g,
               sock' = [sock EXCEPT ![s].at = a, ![s].got = g],
               UNCHANGED <<history, page, up>>
        PROVE  Upstream
    <2>1. /\ sock'[s].at = a /\ \A x \in Socket : x # s => sock'[x] = sock[x]
          /\ sock'[s].owner = sock[s].owner /\ sock'[s].where = sock[s].where
      BY <1>1, <1>3 DEF Connection
    <2> QED BY <1>3, <2>1 DEF Upstream, Used
  <1>4. ASSUME NEW s \in Used, Refuse(s) \/ HandlerFails(s) \/ Disconnected(s) PROVE Upstream
    <2>1. sock' = [sock EXCEPT ![s].at = "over", ![s].got = <<>>] /\ UNCHANGED <<history, page, up>>
      BY <1>4 DEF Refuse, HandlerFails, Disconnected, End, chatVars
    <2> QED BY <1>1, <1>3, <2>1
  <1>5. ASSUME NEW s \in Used, Accept(s) PROVE Upstream
    <2>1. /\ sock' = [sock EXCEPT ![s].at = IF OfChat(s) THEN "joined" ELSE "idle"]
          /\ UNCHANGED <<history, page, up>>
      BY <1>5 DEF Accept, chatVars
    <2>2. /\ sock'[s].at \in {"joined", "idle"} /\ \A x \in Socket : x # s => sock'[x] = sock[x]
          /\ sock'[s].owner = sock[s].owner /\ sock'[s].where = sock[s].where
      BY <1>1, <2>1 DEF Connection
    <2> QED BY <2>1, <2>2 DEF Upstream, Used
  <1>6. ASSUME NEW s \in Used, ReadHistory(s) PROVE Upstream
    BY <1>1, <1>3, <1>6 DEF ReadHistory, chatVars
  <1>7. ASSUME NEW s \in Used, SendHistory(s) PROVE Upstream
    BY <1>1, <1>3, <1>7 DEF SendHistory, chatVars
  <1>8. ASSUME NEW s \in Used, Publish(s) PROVE Upstream
    BY <1>1, <1>3, <1>8 DEF Publish, chatVars
  <1>9. ASSUME NEW s \in Used, Cut(s) PROVE Upstream
    <2>1. /\ sock' = [sock EXCEPT ![s].gone = TRUE] /\ UNCHANGED <<history, page>>
          /\ \E i \in 0..Len(up[s]) : up' = [up EXCEPT ![s] = SubSeq(@, 1, i)]
      BY <1>9 DEF Cut, chatVars
    <2>2. \A x \in Socket : /\ sock'[x].at = sock[x].at /\ sock'[x].got = sock[x].got
                            /\ sock'[x].owner = sock[x].owner /\ sock'[x].where = sock[x].where
      BY <1>1, <2>1 DEF Connection
    <2>3. \A x \in Socket : up'[x] = up[x] \/ \E i \in 0..Len(up[x]) : up'[x] = SubSeq(up[x], 1, i)
      BY <1>1, <2>1 DEF Consistent, Types
    <2> QED BY <2>1, <2>2, <2>3 DEF Upstream
  <1>10. ASSUME NEW p \in Page, Leave(p) PROVE Upstream
    <2> DEFINE s == page[p].ws
    <2>1. /\ sock' = [sock EXCEPT ![s].gone = TRUE] /\ page' = [page EXCEPT ![p] = NewPage]
          /\ UNCHANGED <<history, up>>
      BY <1>10 DEF Leave, chatVars
    <2>2. \A x \in Socket : /\ sock'[x].at = sock[x].at /\ sock'[x].got = sock[x].got
                            /\ sock'[x].owner = sock[x].owner /\ sock'[x].where = sock[x].where
      BY <1>1, <2>1 DEF Connection
    <2>3. page'[p].ws = None /\ \A q \in Page : q # p => page'[q] = page[q]
      BY <1>1, <2>1, BlankPage
    <2> QED BY <2>1, <2>2, <2>3 DEF Upstream
  <1>11. ASSUME NEW p \in Page, Arrive(p) PROVE Upstream
    <2> DEFINE s == page[p].ws
               f == Head(wire[s])
               y == Shown(p, f)
    <2>1. /\ s # None /\ wire[s] # <<>> /\ page' = [page EXCEPT ![p] = y]
          /\ UNCHANGED <<history, sock, up>>
      BY <1>11 DEF Arrive, chatVars
    <2>2. s \in Socket /\ (OfChat(s) <=> p \in Chatter)
      BY <2>1, OwnSocket
    <2>3. f \in FrameFor(p)
      BY <1>1, <2>1, <2>2, TailSet DEF SockOK, FrameOf, FrameFor
    <2> HIDE DEF f
    <2>4. y.ws = page[p].ws /\ y.said = page[p].said
      BY <2>3, ShownFacts
    <2> HIDE DEF y
    <2>5. \A q \in Page : page'[q].ws = page[q].ws /\ page'[q].said = page[q].said
      BY <1>1, <2>1, <2>4
    <2> QED BY <2>1, <2>5 DEF Upstream
  <1>12. ASSUME NEW c \in Container, Restart(c) PROVE Upstream
    <2> DEFINE here == {s \in Used : sock[s].where = c /\ sock[s].at # "over"}
    <2>1. /\ sock' = [s \in Socket |-> IF s \in here THEN [sock[s] EXCEPT !.at = "over", !.got = <<>>]
                                       ELSE sock[s]]
          /\ up' = [s \in Socket |-> IF s \in here THEN <<>> ELSE up[s]]
          /\ UNCHANGED <<history, page>>
      BY <1>12 DEF Restart
    <2> HIDE DEF here
    <2>2. ASSUME NEW x \in Socket
          PROVE  /\ up'[x] \in {up[x], <<>>}
                 /\ sock'[x] = sock[x] \/ (sock'[x].at = "over" /\ sock[x].at # "unused")
                 /\ sock'[x].owner = sock[x].owner /\ sock'[x].where = sock[x].where
      <3> DEFINE k == [sock[x] EXCEPT !.at = "over", !.got = <<>>]
      <3>1. sock[x] \in Connection
        BY <1>1
      <3>2. k.at = "over" /\ k.owner = sock[x].owner /\ k.where = sock[x].where
        BY <3>1 DEF Connection
      <3>3. x \in here => sock[x].at # "unused"
        BY DEF here, Used
      <3>4. sock'[x] = IF x \in here THEN k ELSE sock[x]
        BY <2>1
      <3> HIDE DEF k
      <3> QED BY <2>1, <3>2, <3>3, <3>4
    <2> QED BY <2>1, <2>2 DEF Upstream
  <1>13. ASSUME NEW c \in Container, TakeMessage(c) \/ LoseFeed(c) \/ Resubscribe(c) \/ TakeNotices(c)
                                     \/ NextNotice(c) \/ ListenerFails(c)
         PROVE  Upstream
    <2>1. UNCHANGED <<history, page, sock, up>>
      BY <1>13 DEF TakeMessage, LoseFeed, Resubscribe, TakeNotices, NextNotice, ListenerFails, chatVars
    <2> QED BY <1>2, <2>1
  <1>14. ASSUME NEW c \in Container, NEW s, SendMessage(c, s) \/ SendNotice(c, s) PROVE Upstream
    <2>1. UNCHANGED <<history, page, sock, up>>
      BY <1>14 DEF SendMessage, SendNotice, chatVars
    <2> QED BY <1>2, <2>1
  <1>15. ASSUME NEW p \in Page, NEW ok, Notify(p, ok) PROVE Upstream
    <2>1. UNCHANGED <<history, page, sock, up>>
      BY <1>15 DEF Notify, chatVars
    <2> QED BY <1>2, <2>1
  <1>16. CASE UNCHANGED vars
    BY <1>2, <1>16 DEF vars, chatVars
  <1>17. CASE \E p \in Page : UserStep(p)
    BY <1>10, <1>15, <1>17 DEF UserStep
  <1>18. CASE SystemStep
    BY <1>4, <1>5, <1>6, <1>7, <1>8, <1>11, <1>13, <1>14, <1>18 DEF SystemStep
  <1>19. CASE FaultStep
    BY <1>4, <1>9, <1>12, <1>13, <1>19 DEF FaultStep
  <1> QED BY <1>16, <1>17, <1>18, <1>19 DEF Next

LEMMA SayFacts ==
    ASSUME Consistent, NEW p \in Page, Say(p)
    PROVE  \E s \in Socket, m \in Future :
             /\ page[p].ws = s /\ m.from = s /\ m.no = page[p].said + 1
             /\ up'[s] \in {up[s], Append(up[s], m)}
             /\ \A x \in Socket : x # s => up'[x] = up[x]
             /\ page'[p].ws = s /\ page'[p].said = m.no
             /\ \A q \in Page : q # p => page'[q] = page[q]
             /\ UNCHANGED <<history, sock>>
  <1> DEFINE s == page[p].ws
             m == [from |-> s, no |-> page[p].said + 1]
             y == [page[p] EXCEPT !.said = m.no]
  <1>1. /\ p \in Chatter /\ page[p].at = "live" /\ page[p].said < MaxSay
        /\ up' = [up EXCEPT ![s] = IF sock[s].gone THEN @ ELSE Append(@, m)]
        /\ UNCHANGED <<history, sock>>
    BY DEF Say, CanSpeak, chatVars
  <1>2. /\ page[p] \in Screen /\ page \in [Page -> Screen] /\ up \in [Socket -> Seq(Message)]
        /\ (page[p].ws = None => page[p].at = "closed")
    BY DEF Consistent, Types, PageOK, NewPage
  <1>3. page' = [page EXCEPT ![p] = y]
    BY <1>2 DEF Say
  <1>4. s # None /\ s \in Socket
    BY <1>1, <1>2 DEF Screen
  <1>5. page[p].said + 1 \in 1..MaxSay /\ page[p].said < page[p].said + 1
    BY <1>1, <1>2, BoundsAssumption DEF Screen
  <1>6. m \in Message /\ m.from = s /\ m.no = page[p].said + 1
    BY <1>4, <1>5 DEF Message
  <1>7. m \in Future
    BY <1>5, <1>6 DEF Future
  <1>8. y.ws = s /\ y.said = m.no
    BY <1>2 DEF Screen
  <1> HIDE DEF y, m
  <1>9. /\ up'[s] \in {up[s], Append(up[s], m)} /\ \A x \in Socket : x # s => up'[x] = up[x]
        /\ page'[p] = y /\ \A q \in Page : q # p => page'[q] = page[q]
    BY <1>1, <1>2, <1>3, <1>4
  <1> QED BY <1>1, <1>4, <1>6, <1>7, <1>8, <1>9

LEMMA StoreFacts ==
    ASSUME Consistent, NEW s \in Used, Store(s)
    PROVE  \E m \in Queued :
             /\ s \in Socket /\ m = Head(up[s]) /\ m.from = s /\ up[s] # <<>>
             /\ up[s] \in Seq(Message) /\ history \in Seq(Message)
             /\ history' \in {Append(history, m), Tail(Append(history, m))}
             /\ up'[s] = Tail(up[s]) /\ \A x \in Socket : x # s => up'[x] = up[x]
             /\ sock[s].at = "idle" /\ sock'[s].at = "publishing" /\ sock'[s].got = <<m>>
             /\ sock'[s].owner = sock[s].owner /\ sock'[s].where = sock[s].where
             /\ \A x \in Socket : x # s => sock'[x] = sock[x]
             /\ UNCHANGED page
  <1> DEFINE m == Head(up[s])
  <1>1. /\ sock[s].at = "idle" /\ up[s] # <<>> /\ up' = [up EXCEPT ![s] = Tail(@)]
        /\ sock' = [sock EXCEPT ![s].at = "publishing", ![s].got = <<m>>]
        /\ history' = Kept(Append(history, m)) /\ UNCHANGED page
    BY DEF Store
  <1>2. /\ s \in Socket /\ up \in [Socket -> Seq(Message)] /\ sock \in [Socket -> Connection]
        /\ up[s] \in Seq({x \in Message : x.from = s}) /\ history \in Seq(Message)
    BY DEF Used, Consistent, Types, SockOK
  <1>3. m \in {x \in Message : x.from = s} /\ m \in ToSet(up[s])
    BY <1>1, <1>2, TailSet
  <1>4. m \in Queued /\ m.from = s
    BY <1>3 DEF Queued
  <1> HIDE DEF m
  <1>5. /\ up'[s] = Tail(up[s]) /\ \A x \in Socket : x # s => up'[x] = up[x]
        /\ sock'[s].at = "publishing" /\ sock'[s].got = <<m>>
        /\ sock'[s].owner = sock[s].owner /\ sock'[s].where = sock[s].where
        /\ \A x \in Socket : x # s => sock'[x] = sock[x]
    BY <1>1, <1>2 DEF Connection
  <1>6. history' \in {Append(history, m), Tail(Append(history, m))}
    BY <1>1 DEF Kept
  <1> QED BY <1>1, <1>2, <1>4, <1>5, <1>6 DEF m

LEMMA OpenFacts ==
    ASSUME Consistent, NEW p \in Page, NEW s \in Socket, NEW c \in Container, Open(p, s, c)
    PROVE  /\ sock[s].at = "unused" /\ up[s] = <<>> /\ wire[s] = <<>> /\ page[p].ws = None
           /\ page'[p].ws = s /\ page'[p].said = 0 /\ page'[p].read = <<>> /\ page'[p].live = <<>>
           /\ page'[p].at = "connecting"
           /\ \A q \in Page : q # p => page'[q] = page[q]
           /\ sock'[s].at = "asking" /\ ~sock'[s].gone /\ sock'[s].owner = p /\ sock'[s].where = c
           /\ \A x \in Socket : x # s => sock'[x] = sock[x]
           /\ up' = up /\ wire' = wire
  <1> DEFINE y == [NewPage EXCEPT !.ws = s, !.at = "connecting"]
             k == [Unused EXCEPT !.owner = p, !.at = "asking", !.where = c]
  <1>1. /\ sock[s] = Unused /\ page[p].ws = None
        /\ page' = [page EXCEPT ![p] = y] /\ sock' = [sock EXCEPT ![s] = k]
        /\ up' = up /\ wire' = wire
    BY DEF Open
  <1>2. SockOK(s) /\ page \in [Page -> Screen] /\ sock \in [Socket -> Connection]
    BY DEF Consistent, Types
  <1>3. Unused.at = "unused"
    BY DEF Unused
  <1>4. y.ws = s /\ y.said = 0 /\ y.read = <<>> /\ y.live = <<>> /\ y.at = "connecting"
    BY DEF NewPage
  <1>5. k.at = "asking" /\ ~k.gone /\ k.owner = p /\ k.where = c
    BY DEF Unused
  <1> HIDE DEF y, k
  <1> QED BY <1>1, <1>2, <1>3, <1>4, <1>5 DEF SockOK

\* Nothing enters the way to the pages but by its beginning.
LEMMA Shrinks ==
    ASSUME Consistent, [Next]_vars
    PROVE  /\ Future' \subseteq Future
           /\ Queued' \subseteq Queued \union Future
           /\ InHand' \subseteq InHand \union Queued
  <1>1. /\ \A s \in Socket : up[s] \in Seq(Message)
        /\ \A p \in Page : page[p].said \in 0..MaxSay
        /\ \A m \in Message : m.from \in Socket /\ m.no \in Nat /\ 0 < m.no
        /\ MaxSay \in Nat
    <2>1. up \in [Socket -> Seq(Message)] /\ page \in [Page -> Screen]
      BY DEF Consistent, Types
    <2>2. \A p \in Page : page[p] \in Screen
      BY <2>1
    <2>3. \A m \in Message : m.from \in Socket /\ m.no \in 1..MaxSay
      BY DEF Message
    <2> QED BY <2>1, <2>2, <2>3, BoundsAssumption DEF Screen
  <1>2. CASE \E p \in Page : Say(p)
    <2>1. PICK p \in Page : Say(p)
      BY <1>2
    <2>2. PICK s \in Socket, m \in Future :
             /\ page[p].ws = s /\ m.from = s /\ m.no = page[p].said + 1
             /\ up'[s] \in {up[s], Append(up[s], m)}
             /\ \A x \in Socket : x # s => up'[x] = up[x]
             /\ page'[p].ws = s /\ page'[p].said = m.no
             /\ \A q \in Page : q # p => page'[q] = page[q]
             /\ UNCHANGED <<history, sock>>
      BY <2>1, SayFacts
    <2>3. Future' \subseteq Future
      BY <1>1, <2>2 DEF Future
    <2>4. ToSet(Append(up[s], m)) = ToSet(up[s]) \union {m}
      BY <1>1, AppendSet DEF Future
    <2>5. Queued' \subseteq Queued \union Future
      BY <1>1, <2>2, <2>4, ZenonT(60) DEF Queued
    <2>6. InHand' \subseteq InHand
      BY <2>2 DEF InHand
    <2> QED BY <2>3, <2>5, <2>6
  <1>3. CASE \E s \in Used : Store(s)
    <2>1. PICK s \in Used : Store(s)
      BY <1>3
    <2>2. PICK m \in Queued :
             /\ s \in Socket /\ m = Head(up[s]) /\ m.from = s /\ up[s] # <<>>
             /\ up[s] \in Seq(Message) /\ history \in Seq(Message)
             /\ history' \in {Append(history, m), Tail(Append(history, m))}
             /\ up'[s] = Tail(up[s]) /\ \A x \in Socket : x # s => up'[x] = up[x]
             /\ sock[s].at = "idle" /\ sock'[s].at = "publishing" /\ sock'[s].got = <<m>>
             /\ sock'[s].owner = sock[s].owner /\ sock'[s].where = sock[s].where
             /\ \A x \in Socket : x # s => sock'[x] = sock[x]
             /\ UNCHANGED page
      BY <2>1, StoreFacts
    <2>3. Future' \subseteq Future
      BY <1>1, <2>2 DEF Future
    <2>4. ToSet(Tail(up[s])) \subseteq ToSet(up[s]) /\ ToSet(<<m>>) = {m}
      BY <2>2, TailSet, SingleSet DEF Queued
    <2>5. Queued' \subseteq Queued
      BY <1>1, <2>2, <2>4 DEF Queued
    <2>6. InHand' \subseteq InHand \union Queued
      <3> SUFFICES ASSUME NEW x \in InHand' PROVE x \in InHand \union Queued
        OBVIOUS
      <3>1. x \in Message /\ x.from \in Socket
        BY <1>1 DEF InHand
      <3>2. CASE x.from = s
        BY <2>2, <2>4, <3>2 DEF InHand
      <3>3. CASE x.from # s
        BY <2>2, <3>1, <3>3 DEF InHand
      <3> QED BY <3>2, <3>3
    <2> QED BY <2>3, <2>5, <2>6
  <1>4. CASE \E p \in Page, s \in Socket, c \in Container : Open(p, s, c)
    <2>1. PICK p \in Page, s \in Socket, c \in Container : Open(p, s, c)
      BY <1>4
    <2>2. /\ sock[s].at = "unused" /\ page'[p].ws = s
          /\ \A q \in Page : q # p => page'[q] = page[q]
          /\ sock'[s].at = "asking" /\ \A x \in Socket : x # s => sock'[x] = sock[x]
          /\ up' = up
      BY <2>1, OpenFacts
    <2>3. Future' \subseteq Future
      BY <1>1, <2>2 DEF Future
    <2>4. Queued' \subseteq Queued
      BY <2>2 DEF Queued
    <2>5. InHand' \subseteq InHand
      BY <1>1, <2>2 DEF InHand
    <2> QED BY <2>3, <2>4, <2>5
  <1>5. CASE Upstream
    <2>1. Future' \subseteq Future
      BY <1>1, <1>5, NoneAssumption DEF Future, Upstream
    <2>2. ASSUME NEW s \in Socket PROVE ToSet(up'[s]) \subseteq ToSet(up[s])
      <3>1. CASE up'[s] \in {up[s], <<>>}
        BY <3>1, EmptySet
      <3>2. CASE \E i \in 0..Len(up[s]) : up'[s] = SubSeq(up[s], 1, i)
        <4>1. PICK i \in 0..Len(up[s]) : up'[s] = SubSeq(up[s], 1, i)
          BY <3>2
        <4>2. 1 \in 1..(Len(up[s]) + 1)
          BY <1>1
        <4> QED BY <1>1, <4>1, <4>2, SubSet
      <3> QED BY <1>5, <3>1, <3>2 DEF Upstream
    <2>3. Queued' \subseteq Queued
      BY <1>1, <2>2 DEF Queued
    <2>4. InHand' \subseteq InHand
      BY <1>1, <1>5 DEF InHand, Upstream
    <2> QED BY <2>1, <2>3, <2>4
  <1> QED BY <1>2, <1>3, <1>4, <1>5, UpstreamKinds

LEMMA AheadShrinks ==
    ASSUME Consistent, [Next]_vars
    PROVE  Ahead' \subseteq Ahead /\ Unpublished' \subseteq Unpublished
  BY Shrinks DEF Ahead, Unpublished

\* What is on the way to a handler comes before what is not sent yet, and
\* what the handler is about to publish before both.
Spoken(s) ==
    /\ Rising(TRUE, up[s]) /\ Earlier(TRUE, ToSet(up[s]), Future)
    /\ sock[s].at = "publishing" => Earlier(TRUE, ToSet(sock[s].got), Ahead)

LEMMA SpokenStep ==
    ASSUME Consistent, [Next]_vars, NEW s \in Socket, Spoken(s)
    PROVE  Spoken(s)'
  <1>1. Future' \subseteq Future /\ Ahead' \subseteq Ahead
    BY Shrinks, AheadShrinks
  <1>2. /\ up[s] \in Seq(Message) /\ Rising(TRUE, up[s]) /\ Earlier(TRUE, ToSet(up[s]), Future)
        /\ TRUE \in BOOLEAN
    BY DEF Consistent, Types, Spoken
  <1>3. ASSUME up'[s] = up[s], sock'[s] = sock[s] \/ sock'[s].at # "publishing" PROVE Spoken(s)'
    BY <1>1, <1>3 DEF Spoken, Earlier
  <1>4. CASE \E p \in Page : Say(p)
    <2>1. PICK p \in Page : Say(p)
      BY <1>4
    <2>2. PICK t \in Socket, m \in Future :
             /\ page[p].ws = t /\ m.from = t /\ m.no = page[p].said + 1
             /\ up'[t] \in {up[t], Append(up[t], m)}
             /\ \A x \in Socket : x # t => up'[x] = up[x]
             /\ page'[p].ws = t /\ page'[p].said = m.no
             /\ \A q \in Page : q # p => page'[q] = page[q]
             /\ UNCHANGED <<history, sock>>
      BY <2>1, SayFacts
    <2>3. CASE up'[s] = up[s]
      BY <1>3, <2>2, <2>3
    <2>4. CASE s = t /\ up'[s] = Append(up[s], m)
      <3>1. Earlier(TRUE, ToSet(up[s]), {m}) /\ m \in Message
        BY <1>2, <2>2 DEF Future, Earlier
      <3>2. Rising(TRUE, up'[s]) /\ ToSet(up'[s]) = ToSet(up[s]) \union {m}
        <4>1. Rising(TRUE, Append(up[s], m))
          BY <1>2, <3>1, RisingAppend
        <4>2. up[s] \in Seq(Message) /\ m \in Message
          BY <1>2, <3>1
        <4>3. ToSet(Append(up[s], m)) = ToSet(up[s]) \union {m}
          BY <4>2, AppendSet
        <4> QED BY <2>4, <4>1, <4>3
      <3>3. sock[s].owner = p /\ sock[s].at # "unused"
        <4>1. PageOK(p) /\ SockOK(s) /\ page[p].ws # None /\ None \notin Page
          BY <2>2, <2>4, NoneAssumption DEF Consistent
        <4> QED BY <2>2, <2>4, <4>1 DEF PageOK, SockOK, Unused
      <3>4. \A q \in Page : page'[q].ws = s => q = p
        <4>1. \A q \in Page : PageOK(q)
          BY DEF Consistent
        <4>2. s # None
          BY NoneAssumption
        <4> QED BY <2>2, <2>4, <3>3, <4>1, <4>2 DEF PageOK
      <3>5. Earlier(TRUE, {m}, Future')
        BY <2>2, <2>4, <3>3, <3>4 DEF Future, Earlier
      <3>6. Earlier(TRUE, ToSet(up'[s]), Future')
        BY <1>1, <1>2, <3>2, <3>5 DEF Earlier
      <3>7. sock'[s].at = "publishing" => Earlier(TRUE, ToSet(sock'[s].got), Ahead')
        BY <1>1, <2>2 DEF Spoken, Earlier
      <3> QED BY <3>2, <3>6, <3>7 DEF Spoken
    <2> QED BY <2>2, <2>3, <2>4
  <1>5. CASE \E t \in Used : Store(t)
    <2>1. PICK t \in Used : Store(t)
      BY <1>5
    <2>2. PICK m \in Queued :
             /\ t \in Socket /\ m = Head(up[t]) /\ m.from = t /\ up[t] # <<>>
             /\ up[t] \in Seq(Message) /\ history \in Seq(Message)
             /\ history' \in {Append(history, m), Tail(Append(history, m))}
             /\ up'[t] = Tail(up[t]) /\ \A x \in Socket : x # t => up'[x] = up[x]
             /\ sock[t].at = "idle" /\ sock'[t].at = "publishing" /\ sock'[t].got = <<m>>
             /\ sock'[t].owner = sock[t].owner /\ sock'[t].where = sock[t].where
             /\ \A x \in Socket : x # t => sock'[x] = sock[x]
             /\ UNCHANGED page
      BY <2>1, StoreFacts
    <2>3. CASE s # t
      BY <1>3, <2>2, <2>3
    <2>4. CASE s = t
      <3>1. /\ Rising(TRUE, up'[s]) /\ Earlier(TRUE, {m}, ToSet(up'[s]))
            /\ ToSet(up'[s]) \subseteq ToSet(up[s]) /\ m \in ToSet(up[s])
        BY <1>2, <2>2, <2>4, RisingTail, TailSet
      <3>2. Earlier(TRUE, ToSet(up'[s]), Future') /\ Earlier(TRUE, {m}, Future')
        BY <1>1, <1>2, <3>1 DEF Earlier
      <3>3. Earlier(TRUE, {m}, Ahead')
        BY <2>2, <2>4, <3>1, <3>2 DEF Ahead, Queued, Earlier
      <3>4. ToSet(<<m>>) = {m}
        BY SingleSet
      <3> QED BY <2>2, <2>4, <3>1, <3>2, <3>3, <3>4 DEF Spoken
    <2> QED BY <2>3, <2>4
  <1>6. CASE \E p \in Page, t \in Socket, c \in Container : Open(p, t, c)
    <2>1. PICK p \in Page, t \in Socket, c \in Container : Open(p, t, c)
      BY <1>6
    <2>2. /\ sock'[t].at = "asking" /\ \A x \in Socket : x # t => sock'[x] = sock[x]
          /\ up' = up
      BY <2>1, OpenFacts
    <2> QED BY <1>3, <2>2
  <1>7. CASE Upstream
    <2>1. Rising(TRUE, up'[s]) /\ ToSet(up'[s]) \subseteq ToSet(up[s])
      <3>1. CASE up'[s] \in {up[s], <<>>}
        BY <1>2, <3>1, EmptySet, RisingEmpty
      <3>2. CASE \E i \in 0..Len(up[s]) : up'[s] = SubSeq(up[s], 1, i)
        <4>1. PICK i \in 0..Len(up[s]) : up'[s] = SubSeq(up[s], 1, i)
          BY <3>2
        <4>2. 1 \in 1..(Len(up[s]) + 1)
          BY <1>2
        <4> QED BY <1>2, <4>1, <4>2, SubSet, RisingSub
      <3> QED BY <1>7, <3>1, <3>2 DEF Upstream
    <2>2. sock'[s].at = "publishing" => sock[s].at = "publishing" /\ sock'[s].got = sock[s].got
      BY <1>7 DEF Upstream
    <2> QED BY <1>1, <1>2, <2>1, <2>2 DEF Spoken, Earlier
  <1> QED BY <1>4, <1>5, <1>6, <1>7, UpstreamKinds

\* The history, in order, comes before what is not stored yet.
HistoryInOrder == Rising(TRUE, history) /\ Earlier(TRUE, ToSet(history), Ahead)

LEMMA HistoryStep ==
    ASSUME Consistent, [Next]_vars, HistoryInOrder, \A s \in Socket : Spoken(s)'
    PROVE  HistoryInOrder'
  <1>1. Ahead' \subseteq Ahead
    BY AheadShrinks
  <1>2. CASE \E s \in Used : Store(s)
    <2>1. PICK s \in Used : Store(s)
      BY <1>2
    <2>2. PICK m \in Queued :
             /\ s \in Socket /\ m = Head(up[s]) /\ m.from = s /\ up[s] # <<>>
             /\ up[s] \in Seq(Message) /\ history \in Seq(Message)
             /\ history' \in {Append(history, m), Tail(Append(history, m))}
             /\ up'[s] = Tail(up[s]) /\ \A x \in Socket : x # s => up'[x] = up[x]
             /\ sock[s].at = "idle" /\ sock'[s].at = "publishing" /\ sock'[s].got = <<m>>
             /\ sock'[s].owner = sock[s].owner /\ sock'[s].where = sock[s].where
             /\ \A x \in Socket : x # s => sock'[x] = sock[x]
             /\ UNCHANGED page
      BY <2>1, StoreFacts
    <2> DEFINE h == Append(history, m)
    <2>3. m \in Message /\ m \in Ahead /\ TRUE \in BOOLEAN
      BY DEF Queued, Ahead
    <2>4. Rising(TRUE, history) /\ Earlier(TRUE, ToSet(history), {m})
      BY <2>3 DEF HistoryInOrder, Earlier
    <2>5. h \in Seq(Message) /\ ToSet(h) = ToSet(history) \union {m} /\ Rising(TRUE, h) /\ h # <<>>
      <3>1. Rising(TRUE, h)
        BY <2>2, <2>3, <2>4, RisingAppend
      <3>2. history \in Seq(Message) /\ m \in Message
        BY <2>2, <2>3
      <3>3. h \in Seq(Message) /\ ToSet(h) = ToSet(history) \union {m}
        BY <3>2, AppendSet
      <3>4. ToSet(h) # {}
        BY <3>3
      <3> QED BY <3>1, <3>3, <3>4, EmptySet
    <2>6. Earlier(TRUE, {m}, Ahead')
      <3>1. ToSet(<<m>>) = {m}
        BY SingleSet
      <3> QED BY <2>2, <3>1 DEF Spoken
    <2>7. Earlier(TRUE, ToSet(h), Ahead')
      BY <1>1, <2>5, <2>6 DEF HistoryInOrder, Earlier
    <2> HIDE DEF h
    <2>8. Rising(TRUE, history') /\ ToSet(history') \subseteq ToSet(h)
      BY <2>2, <2>3, <2>5, RisingTail, TailSet DEF h
    <2> QED BY <2>7, <2>8 DEF HistoryInOrder, Earlier
  <1>3. CASE history' = history
    BY <1>1, <1>3 DEF HistoryInOrder, Earlier
  <1>4. ASSUME NEW p \in Page, Say(p) PROVE history' = history
    BY <1>4, SayFacts
  <1>5. ASSUME NEW p \in Page, NEW s \in Socket, NEW c \in Container, Open(p, s, c)
        PROVE  history' = history
    BY <1>5 DEF Open, chatVars
  <1>6. Upstream => history' = history
    BY DEF Upstream
  <1> QED BY <1>2, <1>3, <1>4, <1>5, <1>6, UpstreamKinds

\* What a listener is sending comes before what its subscription has received,
\* and that before what is not published yet.
FeedInOrder(c) ==
    /\ Rising(TRUE, feed[c]) /\ Rising(TRUE, telling[c].body)
    /\ Earlier(TRUE, ToSet(feed[c]), Unpublished)
    /\ Earlier(TRUE, ToSet(telling[c].body), ToSet(feed[c]) \union Unpublished)

\* What a step may do to the feed of container c and to what its listener is
\* sending.
LEMMA TellKinds ==
    ASSUME Consistent, [Next]_vars, NEW c \in Container
    PROVE  \/ feed'[c] = feed[c] /\ telling'[c] = telling[c]
           \/ TakeMessage(c) \/ LoseFeed(c) \/ Restart(c)
           \/ \E s \in Used : Publish(s)
           \/ \E s \in telling[c].left : SendMessage(c, s)
  <1>1. /\ feed \in [Container -> Seq(Message)]
        /\ telling \in [Container -> [body : Seq(Message), left : SUBSET Socket]]
    BY DEF Consistent, Types
  <1> DEFINE Same == feed'[c] = feed[c] /\ telling'[c] = telling[c]
  <1>2. UNCHANGED <<feed, telling>> => Same
    OBVIOUS
  <1>3. ASSUME NEW d \in Container, d # c, TakeMessage(d) PROVE Same
    <2>1. PICK t : telling' = [telling EXCEPT ![d] = t]
      BY <1>3 DEF TakeMessage
    <2>2. feed' = [feed EXCEPT ![d] = Tail(@)]
      BY <1>3 DEF TakeMessage
    <2> QED BY <1>1, <1>3, <2>1, <2>2
  <1>4. ASSUME NEW d \in Container, d # c, LoseFeed(d) PROVE Same
    BY <1>1, <1>4 DEF LoseFeed
  <1>5. ASSUME NEW d \in Container, d # c, Restart(d) PROVE Same
    <2>1. feed' = [feed EXCEPT ![d] = <<>>] /\ telling' = [telling EXCEPT ![d] = NoTale]
      BY <1>5 DEF Restart
    <2> QED BY <1>1, <1>5, <2>1
  <1>6. ASSUME NEW d \in Container, d # c, NEW s, SendMessage(d, s) PROVE Same
    <2>1. telling' = [telling EXCEPT ![d].left = @ \ {s}] /\ feed' = feed
      BY <1>6 DEF SendMessage
    <2> QED BY <1>1, <1>6, <2>1
  <1>7. ASSUME NEW s, HandlerFails(s) \/ Store(s) PROVE Same
    BY <1>7 DEF HandlerFails, Store
  <1>8. ASSUME NEW d, Resubscribe(d) PROVE Same
    BY <1>8, SMTT(60) DEF Resubscribe
  <1>9. ASSUME NEW p, UserStep(p) PROVE Same
    BY <1>2, <1>9 DEF UserStep, Leave, Say, Open, Notify, chatVars
  <1>10. ASSUME NEW s, Accept(s) \/ ReadHistory(s) \/ SendHistory(s) \/ Disconnected(s) \/ Refuse(s) \/ Cut(s)
         PROVE  Same
    BY <1>2, <1>10 DEF Accept, ReadHistory, SendHistory, Disconnected, Refuse, Cut, chatVars
  <1>11. ASSUME NEW d, TakeNotices(d) \/ NextNotice(d) \/ ListenerFails(d) PROVE Same
    BY <1>2, <1>11 DEF TakeNotices, NextNotice, ListenerFails, chatVars
  <1>12. ASSUME NEW d, NEW s, SendNotice(d, s) PROVE Same
    BY <1>2, <1>12 DEF SendNotice, chatVars
  <1>13. ASSUME NEW p, Arrive(p) PROVE Same
    BY <1>2, <1>13 DEF Arrive, chatVars
  <1>14. UNCHANGED vars => Same
    BY <1>2 DEF vars, chatVars
  <1> HIDE DEF Same
  <1>15. CASE SystemStep
    BY <1>3, <1>6, <1>7, <1>8, <1>10, <1>11, <1>12, <1>13, <1>15 DEF SystemStep, Same
  <1>16. CASE FaultStep
    BY <1>4, <1>5, <1>7, <1>10, <1>11, <1>16 DEF FaultStep, Same
  <1> QED BY <1>9, <1>14, <1>15, <1>16 DEF Next, Same

\* The same, as far as the order is concerned.
LEMMA FeedKinds ==
    ASSUME Consistent, [Next]_vars, NEW c \in Container
    PROVE  \/ TakeMessage(c) /\ feed[c] # <<>> /\ feed'[c] = Tail(feed[c])
              /\ telling'[c].body = <<Head(feed[c])>>
           \/ \E s \in Used : Publish(s) /\ feed'[c] \in {feed[c], feed[c] \o sock[s].got}
                              /\ telling'[c] = telling[c]
           \/ /\ feed'[c] \in {feed[c], <<>>}
              /\ \/ telling'[c].body = telling[c].body /\ telling'[c].left \subseteq telling[c].left
                 \/ telling'[c].body = <<>>
  <1>1. /\ feed \in [Container -> Seq(Message)]
        /\ telling \in [Container -> [body : Seq(Message), left : SUBSET Socket]]
    BY DEF Consistent, Types
  <1> DEFINE Rest == /\ feed'[c] \in {feed[c], <<>>}
                     /\ \/ telling'[c].body = telling[c].body /\ telling'[c].left \subseteq telling[c].left
                        \/ telling'[c].body = <<>>
  <1>2. CASE TakeMessage(c)
    <2> DEFINE t == [body |-> <<Head(feed[c])>>, left |-> Addressees(c, Chatter)]
    <2>1. /\ feed[c] # <<>> /\ telling' = [telling EXCEPT ![c] = t]
          /\ feed' = [feed EXCEPT ![c] = Tail(@)]
      BY <1>2 DEF TakeMessage
    <2>2. t.body = <<Head(feed[c])>>
      OBVIOUS
    <2> HIDE DEF t
    <2> QED BY <1>1, <1>2, <2>1, <2>2
  <1>3. ASSUME NEW s \in Used, Publish(s)
        PROVE  feed'[c] \in {feed[c], feed[c] \o sock[s].got} /\ telling'[c] = telling[c]
    BY <1>3 DEF Publish
  <1>4. ASSUME NEW s, SendMessage(c, s) PROVE Rest
    <2>1. telling' = [telling EXCEPT ![c].left = @ \ {s}] /\ feed' = feed
      BY <1>4 DEF SendMessage
    <2> QED BY <1>1, <2>1
  <1>5. CASE LoseFeed(c)
    BY <1>1, <1>5 DEF LoseFeed
  <1>6. CASE Restart(c)
    <2>1. feed' = [feed EXCEPT ![c] = <<>>] /\ telling' = [telling EXCEPT ![c] = NoTale]
      BY <1>6 DEF Restart
    <2> QED BY <1>1, <2>1 DEF NoTale
  <1> QED BY <1>2, <1>3, <1>4, <1>5, <1>6, TellKinds

LEMMA PublishFacts ==
    ASSUME Consistent, NEW s \in Used, Publish(s), Spoken(s)
    PROVE  \E m \in InHand : /\ sock[s].got = <<m>> /\ m.from = s
                             /\ Earlier(TRUE, {m}, Unpublished')
  <1>1. s \in Socket /\ SockOK(s) /\ sock[s].at = "publishing"
        /\ sock' = [sock EXCEPT ![s].at = "idle", ![s].got = <<>>]
        /\ sock \in [Socket -> Connection] /\ UNCHANGED <<up, page>>
    BY DEF Used, Consistent, Types, Publish
  <1>2. PICK m \in Message : m.from = s /\ sock[s].got = <<m>>
    BY <1>1 DEF SockOK
  <1>3. ToSet(<<m>>) = {m}
    BY SingleSet
  <1>4. m \in InHand
    BY <1>1, <1>2, <1>3 DEF InHand
  <1>5. Ahead' \subseteq Ahead
    <2>1. [Next]_vars
      BY DEF Next, SystemStep
    <2> QED BY <2>1, AheadShrinks
  <1>6. Earlier(TRUE, {m}, Ahead')
    BY <1>1, <1>2, <1>3, <1>5 DEF Spoken, Earlier
  <1>7. sock'[s].at = "idle"
    BY <1>1 DEF Connection
  <1>8. \A x \in InHand' : x.from # s
    BY <1>7 DEF InHand
  <1>9. Earlier(TRUE, {m}, Unpublished')
    BY <1>2, <1>6, <1>8 DEF Earlier, Unpublished
  <1> QED BY <1>2, <1>4, <1>9

LEMMA FeedStep ==
    ASSUME Consistent, [Next]_vars, NEW c \in Container, FeedInOrder(c), \A s \in Socket : Spoken(s)
    PROVE  FeedInOrder(c)'
  <1> DEFINE f == feed[c]
             b == telling[c].body
  <1>1. f \in Seq(Message) /\ b \in Seq(Message) /\ TRUE \in BOOLEAN
    BY DEF Consistent, Types
  <1>2. Unpublished' \subseteq Unpublished
    BY AheadShrinks
  <1>3. /\ Rising(TRUE, f) /\ Rising(TRUE, b) /\ Earlier(TRUE, ToSet(f), Unpublished)
        /\ Earlier(TRUE, ToSet(b), ToSet(f) \union Unpublished)
    BY DEF FeedInOrder
  <1>4. CASE f # <<>> /\ feed'[c] = Tail(f) /\ telling'[c].body = <<Head(f)>>
    <2>1. /\ Rising(TRUE, Tail(f)) /\ Earlier(TRUE, {Head(f)}, ToSet(Tail(f)))
          /\ ToSet(Tail(f)) \subseteq ToSet(f) /\ Head(f) \in ToSet(f)
      BY <1>1, <1>3, <1>4, RisingTail, TailSet
    <2>2. Rising(TRUE, <<Head(f)>>) /\ ToSet(<<Head(f)>>) = {Head(f)}
      BY RisingSingle, SingleSet
    <2>3. Earlier(TRUE, ToSet(Tail(f)), Unpublished') /\ Earlier(TRUE, {Head(f)}, Unpublished')
      BY <1>2, <1>3, <2>1 DEF Earlier
    <2>4. Earlier(TRUE, {Head(f)}, ToSet(Tail(f)) \union Unpublished')
      BY <2>1, <2>3 DEF Earlier
    <2> QED BY <1>4, <2>1, <2>2, <2>3, <2>4 DEF FeedInOrder
  <1>5. ASSUME NEW s \in Used, Publish(s), feed'[c] \in {feed[c], feed[c] \o sock[s].got},
               telling'[c] = telling[c]
        PROVE  FeedInOrder(c)'
    <2>1. Spoken(s)
      BY DEF Used
    <2>2. PICK m \in InHand : sock[s].got = <<m>> /\ m.from = s /\ Earlier(TRUE, {m}, Unpublished')
      BY <1>5, <2>1, PublishFacts
    <2>3. CASE feed'[c] = feed[c]
      <3>1. Earlier(TRUE, ToSet(f), Unpublished') /\ Earlier(TRUE, ToSet(b), ToSet(f) \union Unpublished')
        BY <1>2, <1>3 DEF Earlier
      <3> QED BY <1>3, <1>5, <2>3, <3>1 DEF FeedInOrder
    <2>4. CASE feed'[c] = f \o <<m>>
      <3>1. m \in Message /\ m \in Unpublished /\ <<m>> \in Seq(Message) /\ ToSet(<<m>>) = {m}
        BY SingleSet DEF InHand, Unpublished
      <3>2. Earlier(TRUE, ToSet(f), {m}) /\ Earlier(TRUE, ToSet(f), Unpublished')
        BY <1>2, <1>3, <3>1 DEF Earlier
      <3>3. Rising(TRUE, f \o <<m>>) /\ ToSet(f \o <<m>>) = ToSet(f) \union {m}
        <4>1. Rising(TRUE, <<m>>) /\ Earlier(TRUE, ToSet(f), ToSet(<<m>>))
          BY <3>1, <3>2, RisingSingle
        <4>2. Rising(TRUE, f \o <<m>>)
          BY <1>1, <1>3, <3>1, <4>1, RisingConcat
        <4>3. f \in Seq(Message) /\ <<m>> \in Seq(Message)
          BY <1>1, <3>1
        <4>4. ToSet(f \o <<m>>) = ToSet(f) \union ToSet(<<m>>)
          BY <4>3, ConcatSet, ZenonT(60)
        <4> QED BY <3>1, <4>2, <4>4
      <3>4. Earlier(TRUE, ToSet(f) \union {m}, Unpublished')
        BY <2>2, <3>2 DEF Earlier
      <3>5. Earlier(TRUE, ToSet(b), ToSet(f) \union {m} \union Unpublished')
        BY <1>2, <1>3, <3>1 DEF Earlier
      <3> QED BY <1>3, <1>5, <2>4, <3>3, <3>4, <3>5 DEF FeedInOrder
    <2> QED BY <1>5, <2>2, <2>3, <2>4
  <1>6. CASE feed'[c] \in {f, <<>>} /\ telling'[c].body \in {b, <<>>}
    <2>1. /\ Rising(TRUE, feed'[c]) /\ ToSet(feed'[c]) \subseteq ToSet(f)
          /\ Rising(TRUE, telling'[c].body) /\ ToSet(telling'[c].body) \subseteq ToSet(b)
      BY <1>3, <1>6, RisingEmpty, EmptySet
    <2>2. ToSet(feed'[c]) \union Unpublished' \subseteq ToSet(f) \union Unpublished
      BY <1>2, <2>1
    <2>3. /\ Earlier(TRUE, ToSet(feed'[c]), Unpublished')
          /\ Earlier(TRUE, ToSet(telling'[c].body), ToSet(feed'[c]) \union Unpublished')
      BY <1>2, <1>3, <2>1, <2>2 DEF Earlier
    <2> QED BY <2>1, <2>3 DEF FeedInOrder
  <1> QED BY <1>4, <1>5, <1>6, FeedKinds

-----------------------------------------------------------------------------
(* Notices: from the table and the stream into the batches.                *)

FutureNotices == {n \in Notice : Len(rows) < n.no}
Unread        == ToSet(stream) \union FutureNotices

NoticesInOrder ==
    /\ Rising(FALSE, stream) /\ Earlier(FALSE, ToSet(stream), FutureNotices)
    /\ \A c \in Container : /\ Rising(FALSE, batch[c].body)
                            /\ Earlier(FALSE, ToSet(batch[c].body), Unread)

\* What becomes of the table, the stream and the batches.
Republished ==
    \E n \in FutureNotices : /\ n.no = Len(rows) + 1 /\ rows' = Append(rows, n)
                             /\ stream' \in {stream, Append(stream, n)} /\ batch' = batch
ReadBy(c) ==
    /\ batch[c].body = <<>> /\ rows' = rows
    /\ \E k \in 0..Len(stream) : /\ batch'[c].body = SubSeq(stream, 1, k)
                                 /\ stream' = SubSeq(stream, k + 1, Len(stream))
    /\ \A d \in Container : d # c => batch'[d] = batch[d]
Advance(c) ==
    /\ batch[c].body # <<>> /\ batch[c].left = {} /\ batch'[c].body = Tail(batch[c].body)
    /\ UNCHANGED <<rows, stream>> /\ \A d \in Container : d # c => batch'[d] = batch[d]
Finish ==
    /\ UNCHANGED <<rows, stream>>
    /\ \A c \in Container : \/ batch'[c].body = batch[c].body /\ batch'[c].left \subseteq batch[c].left
                            \/ batch'[c].body = <<>>

LEMMA NoticeKinds ==
    ASSUME Consistent, [Next]_vars
    PROVE  Republished \/ Finish \/ \E c \in Container : ReadBy(c) \/ Advance(c)
  <1>1. /\ rows \in Seq(Notice) /\ stream \in Seq(Notice)
        /\ batch \in [Container -> [body : Seq(Notice), left : SUBSET Socket]]
    BY DEF Consistent, Types
  <1>2. UNCHANGED noticeVars => Finish
    BY DEF noticeVars, Finish
  <1>3. ASSUME NEW p \in Page, NEW ok \in BOOLEAN, Notify(p, ok) PROVE Republished
    <2> DEFINE n == [to |-> p, no |-> Len(rows) + 1,
                     ws |-> IF ok /\ page[p].at = "live" THEN page[p].ws ELSE None]
    <2>1. /\ p \in Viewer /\ Len(rows) < MaxNotices /\ rows' = Append(rows, n)
          /\ stream' = (IF ok THEN Append(stream, n) ELSE stream) /\ batch' = batch
      BY <1>3 DEF Notify
    <2>2. Len(rows) \in Nat /\ Len(rows) + 1 \in 1..MaxNotices /\ Len(rows) < Len(rows) + 1
      BY <1>1, <2>1, BoundsAssumption
    <2>3. page[p].ws \in Socket \union {None}
      BY DEF Consistent, Types, Screen
    <2>4. n \in Notice /\ n.no = Len(rows) + 1
      BY <2>1, <2>2, <2>3 DEF Notice
    <2> HIDE DEF n
    <2>5. n \in FutureNotices
      BY <2>2, <2>4 DEF FutureNotices
    <2> QED BY <2>1, <2>4, <2>5 DEF Republished
  <1>4. ASSUME NEW c \in Container, TakeNotices(c) PROVE ReadBy(c)
    <2>1. PICK k \in 1..Len(stream) :
              /\ batch' = [batch EXCEPT ![c] = [body |-> SubSeq(stream, 1, k),
                                                left |-> Addressees(c, Viewer)]]
              /\ stream' = SubSeq(stream, k + 1, Len(stream))
      BY <1>4 DEF TakeNotices
    <2>2. k \in 0..Len(stream) /\ batch'[c].body = SubSeq(stream, 1, k)
          /\ \A d \in Container : d # c => batch'[d] = batch[d]
      BY <1>1, <2>1
    <2>3. batch[c].body = <<>> /\ rows' = rows
      BY <1>4 DEF TakeNotices
    <2> QED BY <2>1, <2>2, <2>3 DEF ReadBy
  <1>5. ASSUME NEW c \in Container, NextNotice(c) PROVE Advance(c)
    <2> DEFINE t == IF Tail(batch[c].body) = <<>> THEN NoTale
                    ELSE [body |-> Tail(batch[c].body), left |-> Addressees(c, Viewer)]
    <2>1. /\ batch[c].body # <<>> /\ batch[c].left = {} /\ batch' = [batch EXCEPT ![c] = t]
          /\ UNCHANGED <<rows, stream>>
      BY <1>5 DEF NextNotice
    <2>2. t.body = Tail(batch[c].body)
      BY DEF NoTale
    <2> HIDE DEF t
    <2> QED BY <1>1, <2>1, <2>2 DEF Advance
  <1>6. ASSUME NEW c \in Container, ListenerFails(c) \/ Restart(c) PROVE Finish
    <2>1. batch' = [batch EXCEPT ![c] = NoTale] /\ UNCHANGED <<rows, stream>>
      BY <1>6 DEF ListenerFails, Restart
    <2>2. NoTale.body = <<>>
      BY DEF NoTale
    <2> QED BY <1>1, <2>1, <2>2 DEF Finish
  <1>7. ASSUME NEW c \in Container, NEW s, SendNotice(c, s) PROVE Finish
    <2>1. batch' = [batch EXCEPT ![c].left = @ \ {s}] /\ UNCHANGED <<rows, stream>>
      BY <1>7, SMTT(60) DEF SendNotice
    <2> QED BY <1>1, <2>1 DEF Finish
  <1>8. ASSUME NEW p \in Page, UserStep(p) PROVE Republished \/ Finish
    BY <1>2, <1>3, <1>8 DEF UserStep, Leave, Say, Open
  <1>9. ASSUME NEW s, \/ Accept(s) \/ ReadHistory(s) \/ SendHistory(s) \/ Store(s) \/ Publish(s)
                      \/ Disconnected(s) \/ Refuse(s) \/ HandlerFails(s) \/ Cut(s)
        PROVE  Finish
    BY <1>2, <1>9 DEF Accept, ReadHistory, SendHistory, Store, Publish, Disconnected, Refuse,
                      HandlerFails, Cut
  <1>10. ASSUME NEW c, TakeMessage(c) \/ LoseFeed(c) \/ Resubscribe(c) PROVE Finish
    BY <1>2, <1>10 DEF TakeMessage, LoseFeed, Resubscribe
  <1>11. ASSUME NEW c, NEW s, SendMessage(c, s) PROVE Finish
    BY <1>2, <1>11 DEF SendMessage
  <1>12. ASSUME NEW p, Arrive(p) PROVE Finish
    BY <1>2, <1>12 DEF Arrive
  <1>13. UNCHANGED vars => Finish
    BY <1>2 DEF vars
  <1>14. CASE SystemStep
    BY <1>4, <1>5, <1>7, <1>9, <1>10, <1>11, <1>12, <1>14 DEF SystemStep
  <1>15. CASE FaultStep
    BY <1>6, <1>9, <1>10, <1>15 DEF FaultStep
  <1> QED BY <1>8, <1>13, <1>14, <1>15 DEF Next

LEMMA NoticesStep ==
    ASSUME Consistent, [Next]_vars, NoticesInOrder
    PROVE  NoticesInOrder' /\ Unread' \subseteq Unread
  <1>1. /\ rows \in Seq(Notice) /\ stream \in Seq(Notice) /\ FALSE \in BOOLEAN
        /\ \A c \in Container : batch[c].body \in Seq(Notice)
        /\ \A n \in Notice : n.no \in Nat
    <2>1. \A n \in Notice : n.no \in 1..MaxNotices
      BY DEF Notice
    <2>2. \A n \in Notice : n.no \in Nat
      BY <2>1, BoundsAssumption
    <2> QED BY <2>2 DEF Consistent, Types
  <1>2. /\ Rising(FALSE, stream) /\ Earlier(FALSE, ToSet(stream), FutureNotices)
        /\ \A c \in Container : /\ Rising(FALSE, batch[c].body)
                                /\ Earlier(FALSE, ToSet(batch[c].body), Unread)
    BY DEF NoticesInOrder
  <1>3. CASE Republished
    <2>1. PICK n \in FutureNotices : /\ n.no = Len(rows) + 1 /\ rows' = Append(rows, n)
                                     /\ stream' \in {stream, Append(stream, n)} /\ batch' = batch
      BY <1>3 DEF Republished
    <2>2. Len(rows') = Len(rows) + 1 /\ Len(rows) \in Nat /\ n \in Notice
      BY <1>1, <2>1, AppendProperties DEF FutureNotices
    <2>3. FutureNotices' \subseteq FutureNotices /\ Earlier(FALSE, {n}, FutureNotices')
      BY <1>1, <2>1, <2>2 DEF FutureNotices, Earlier
    <2>4. Earlier(FALSE, ToSet(stream), {n})
      BY <1>2 DEF Earlier
    <2>5. Rising(FALSE, stream') /\ ToSet(stream') \subseteq ToSet(stream) \union {n}
      <3>1. Rising(FALSE, Append(stream, n))
        BY <1>1, <1>2, <2>2, <2>4, RisingAppend
      <3>2. ToSet(Append(stream, n)) = ToSet(stream) \union {n}
        BY <1>1, <2>2, AppendSet
      <3> QED BY <1>2, <2>1, <3>1, <3>2
    <2>6. Earlier(FALSE, ToSet(stream'), FutureNotices')
      BY <1>2, <2>3, <2>5 DEF Earlier
    <2>7. Unread' \subseteq Unread
      BY <2>3, <2>5 DEF Unread
    <2>8. \A c \in Container : /\ Rising(FALSE, batch'[c].body)
                               /\ Earlier(FALSE, ToSet(batch'[c].body), Unread')
      BY <1>2, <2>1, <2>7 DEF Earlier
    <2> QED BY <2>5, <2>6, <2>7, <2>8 DEF NoticesInOrder
  <1>4. ASSUME NEW c \in Container, ReadBy(c) PROVE NoticesInOrder' /\ Unread' \subseteq Unread
    <2>1. PICK k \in 0..Len(stream) : /\ batch'[c].body = SubSeq(stream, 1, k)
                                      /\ stream' = SubSeq(stream, k + 1, Len(stream))
      BY <1>4 DEF ReadBy
    <2>2. /\ Rising(FALSE, batch'[c].body) /\ Rising(FALSE, stream')
          /\ Earlier(FALSE, ToSet(batch'[c].body), ToSet(stream'))
      BY <1>1, <1>2, <2>1, RisingSub
    <2>3. ToSet(batch'[c].body) \subseteq ToSet(stream) /\ ToSet(stream') \subseteq ToSet(stream)
      <3>1. /\ 1 \in 1..(Len(stream) + 1) /\ k \in 0..Len(stream)
            /\ k + 1 \in 1..(Len(stream) + 1) /\ Len(stream) \in 0..Len(stream)
        BY <1>1
      <3> QED BY <1>1, <2>1, <3>1, SubSet
    <2>4. FutureNotices' = FutureNotices
      BY <1>4 DEF ReadBy, FutureNotices
    <2>5. Unread' \subseteq Unread
      BY <2>3, <2>4 DEF Unread
    <2>6. /\ Earlier(FALSE, ToSet(stream'), FutureNotices')
          /\ Earlier(FALSE, ToSet(batch'[c].body), FutureNotices')
      BY <1>2, <2>3, <2>4 DEF Earlier
    <2>7. Earlier(FALSE, ToSet(batch'[c].body), Unread')
      BY <2>2, <2>6 DEF Earlier, Unread
    <2>8. \A d \in Container : d # c => batch'[d] = batch[d]
      BY <1>4 DEF ReadBy
    <2>9. \A d \in Container : /\ Rising(FALSE, batch'[d].body)
                               /\ Earlier(FALSE, ToSet(batch'[d].body), Unread')
      BY <1>2, <2>2, <2>5, <2>7, <2>8 DEF Earlier
    <2> QED BY <2>2, <2>5, <2>6, <2>9 DEF NoticesInOrder
  <1>5. ASSUME UNCHANGED <<rows, stream>>,
               \A c \in Container : \/ batch'[c].body \in {batch[c].body, <<>>}
                                    \/ batch[c].body # <<>> /\ batch'[c].body = Tail(batch[c].body)
        PROVE  NoticesInOrder' /\ Unread' \subseteq Unread
    <2>1. Unread' = Unread /\ FutureNotices' = FutureNotices
      BY <1>5 DEF Unread, FutureNotices
    <2>2. ASSUME NEW c \in Container
          PROVE  Rising(FALSE, batch'[c].body) /\ ToSet(batch'[c].body) \subseteq ToSet(batch[c].body)
      <3>1. CASE batch'[c].body \in {batch[c].body, <<>>}
        BY <1>2, <3>1, RisingEmpty, EmptySet
      <3>2. CASE batch[c].body # <<>> /\ batch'[c].body = Tail(batch[c].body)
        BY <1>1, <1>2, <3>2, RisingTail, TailSet
      <3> QED BY <1>5, <3>1, <3>2
    <2>3. \A c \in Container : Earlier(FALSE, ToSet(batch'[c].body), Unread')
      BY <1>2, <2>1, <2>2 DEF Earlier
    <2> QED BY <1>2, <1>5, <2>1, <2>2, <2>3 DEF NoticesInOrder
  <1>6. CASE Finish
    BY <1>5, <1>6 DEF Finish
  <1>7. ASSUME NEW c \in Container, Advance(c) PROVE NoticesInOrder' /\ Unread' \subseteq Unread
    BY <1>5, <1>7 DEF Advance
  <1> QED BY <1>3, <1>4, <1>6, <1>7, NoticeKinds

-----------------------------------------------------------------------------
(* What a page has been told and what is on the wire to it.                *)

Tells(f) == f.kind \in {"message", "notice"}

\* On a wire q to a page that shows L and will later be sent what is in N.
Line(chat, L, q, N) ==
    /\ Earlier(chat, L, N)
    /\ \A i \in DOMAIN q : Tells(q[i]) =>
          /\ Rising(chat, q[i].body)
          /\ Earlier(chat, L, ToSet(q[i].body)) /\ Earlier(chat, ToSet(q[i].body), N)
          /\ \A j \in DOMAIN q : i < j /\ Tells(q[j]) =>
                Earlier(chat, ToSet(q[i].body), ToSet(q[j].body))
    /\ \A i \in DOMAIN q : q[i].kind = "history" => Rising(TRUE, q[i].body)

LEMMA LineLess ==
    ASSUME NEW chat \in BOOLEAN, NEW L, NEW q, NEW N, Line(chat, L, q, N),
           NEW K, K \subseteq L, NEW M, M \subseteq N
    PROVE  Line(chat, K, q, M)
  <1>1. Earlier(chat, K, M)
    BY DEF Line, Earlier
  <1>2. \A i \in DOMAIN q : Tells(q[i]) =>
          Earlier(chat, K, ToSet(q[i].body)) /\ Earlier(chat, ToSet(q[i].body), M)
    BY DEF Line, Earlier
  <1> QED BY <1>1, <1>2 DEF Line

LEMMA LineSub ==
    ASSUME NEW chat \in BOOLEAN, NEW L, NEW S, NEW q \in Seq(S), NEW N, Line(chat, L, q, N),
           NEW k \in 0..Len(q)
    PROVE  Line(chat, L, SubSeq(q, 1, k), N)
  <1> DEFINE a == SubSeq(q, 1, k)
  <1>1. /\ DOMAIN q = 1..Len(q) /\ Len(q) \in Nat /\ k \in Nat /\ k <= Len(q)
        /\ DOMAIN a = 1..k /\ \A i \in 1..k : a[i] = q[i]
    OBVIOUS
  <1>2. \A i \in 1..k : i \in 1..Len(q)
    BY <1>1
  <1> HIDE DEF a
  <1>3. \A i \in DOMAIN a : i \in DOMAIN q /\ a[i] = q[i]
    BY <1>1, <1>2
  <1>4. Line(chat, L, a, N)
    BY <1>3 DEF Line
  <1> QED BY <1>4 DEF a

LEMMA LineQuiet ==
    ASSUME NEW chat \in BOOLEAN, NEW L, NEW S, NEW q \in Seq(S), NEW N, Line(chat, L, q, N),
           NEW f \in S, ~Tells(f), f.kind = "history" => Rising(TRUE, f.body)
    PROVE  Line(chat, L, Append(q, f), N)
  <1> DEFINE a == Append(q, f)
  <1>1. /\ DOMAIN a = 1..(Len(q) + 1) /\ DOMAIN q = 1..Len(q) /\ Len(q) \in Nat
        /\ \A i \in 1..Len(q) : a[i] = q[i]
        /\ a[Len(q) + 1] = f
    BY AppendProperties
  <1>2. \A i \in 1..(Len(q) + 1) : i \in 1..Len(q) \/ i = Len(q) + 1
    BY <1>1
  <1> HIDE DEF a
  <1>3. \A i \in DOMAIN a : (i \in DOMAIN q /\ a[i] = q[i]) \/ a[i] = f
    BY <1>1, <1>2
  <1>4. Line(chat, L, a, N)
    <2>1. ASSUME NEW i \in DOMAIN a, Tells(a[i])
          PROVE  /\ i \in DOMAIN q /\ a[i] = q[i]
      BY <1>3, <2>1
    <2>2. \A i \in DOMAIN a : a[i].kind = "history" => Rising(TRUE, a[i].body)
      BY <1>3 DEF Line
    <2> QED BY <2>1, <2>2 DEF Line
  <1> QED BY <1>4 DEF a

\* A frame with something that was still to come.
LEMMA LineTold ==
    ASSUME NEW chat \in BOOLEAN, NEW L, NEW S, NEW q \in Seq(S), NEW N, Line(chat, L, q, N),
           NEW f \in S, Tells(f), f.kind # "history", Rising(chat, f.body), ToSet(f.body) \subseteq N,
           NEW M, M \subseteq N, Earlier(chat, ToSet(f.body), M)
    PROVE  Line(chat, L, Append(q, f), M)
  <1> DEFINE a == Append(q, f)
  <1>1. /\ DOMAIN a = 1..(Len(q) + 1) /\ DOMAIN q = 1..Len(q) /\ Len(q) \in Nat
        /\ \A i \in 1..Len(q) : a[i] = q[i]
        /\ a[Len(q) + 1] = f
    BY AppendProperties
  <1>2. \A i \in 1..(Len(q) + 1) : i \in 1..Len(q) \/ i = Len(q) + 1
    BY <1>1
  <1>3. \A i \in 1..Len(q), j \in 1..(Len(q) + 1) : j = Len(q) + 1 => ~(j < i)
    BY <1>1
  <1> HIDE DEF a
  <1>4. \A i \in DOMAIN a : (i \in DOMAIN q /\ a[i] = q[i]) \/ (i = Len(q) + 1 /\ a[i] = f)
    BY <1>1, <1>2
  <1>5. Earlier(chat, L, M) /\ Earlier(chat, L, ToSet(f.body))
    BY DEF Line, Earlier
  <1>6. \A i \in DOMAIN q : Tells(q[i]) =>
          Earlier(chat, ToSet(q[i].body), M) /\ Earlier(chat, ToSet(q[i].body), ToSet(f.body))
    BY DEF Line, Earlier
  <1>7. \A i \in DOMAIN a : a[i].kind = "history" => Rising(TRUE, a[i].body)
    BY <1>4 DEF Line
  <1>8. ASSUME NEW i \in DOMAIN a, Tells(a[i])
        PROVE  /\ Rising(chat, a[i].body)
               /\ Earlier(chat, L, ToSet(a[i].body)) /\ Earlier(chat, ToSet(a[i].body), M)
    BY <1>4, <1>5, <1>6, <1>8 DEF Line
  <1>9. ASSUME NEW i \in DOMAIN a, NEW j \in DOMAIN a, i < j, Tells(a[i]), Tells(a[j])
        PROVE  Earlier(chat, ToSet(a[i].body), ToSet(a[j].body))
    <2>1. CASE i \in DOMAIN q /\ a[i] = q[i]
      BY <1>4, <1>6, <1>9, <2>1 DEF Line
    <2>2. CASE i = Len(q) + 1
      <3>1. FALSE
        BY <1>1, <1>9, <2>2
      <3> QED BY <3>1
    <2> QED BY <1>4, <2>1, <2>2
  <1>10. Line(chat, L, a, M)
    BY <1>5, <1>7, <1>8, <1>9 DEF Line
  <1> QED BY <1>10 DEF a

\* The first frame arrives.
LEMMA LineTail ==
    ASSUME NEW chat \in BOOLEAN, NEW L, NEW S, NEW q \in Seq(S), q # <<>>, NEW N,
           Line(chat, L, q, N)
    PROVE  /\ Line(chat, L, Tail(q), N)
           /\ Head(q).kind = "history" => Rising(TRUE, Head(q).body)
           /\ Tells(Head(q)) =>
                /\ Rising(chat, Head(q).body) /\ Earlier(chat, L, ToSet(Head(q).body))
                /\ Line(chat, L \union ToSet(Head(q).body), Tail(q), N)
  <1> DEFINE t == Tail(q)
             h == Head(q)
  <1>1. /\ h = q[1] /\ 1 \in DOMAIN q /\ DOMAIN q = 1..Len(q) /\ Len(q) \in Nat \ {0}
        /\ DOMAIN t = 1..(Len(q) - 1)
        /\ \A i \in 1..(Len(q) - 1) : t[i] = q[i + 1]
    OBVIOUS
  <1>2. \A i \in 1..(Len(q) - 1) : i + 1 \in 1..Len(q) /\ 1 < i + 1
    BY <1>1
  <1>3. \A i, j \in 1..(Len(q) - 1) : i < j => i + 1 < j + 1
    BY <1>1
  <1> HIDE DEF t, h
  <1>4. \A i \in DOMAIN t : i + 1 \in DOMAIN q /\ t[i] = q[i + 1] /\ 1 < i + 1
    BY <1>1, <1>2
  <1>5. \A i \in DOMAIN t : Tells(t[i]) =>
          /\ Rising(chat, t[i].body)
          /\ Earlier(chat, L, ToSet(t[i].body)) /\ Earlier(chat, ToSet(t[i].body), N)
    BY <1>4 DEF Line
  <1>6. \A i, j \in DOMAIN t : i < j /\ Tells(t[i]) /\ Tells(t[j]) =>
          Earlier(chat, ToSet(t[i].body), ToSet(t[j].body))
    BY <1>1, <1>3, <1>4 DEF Line
  <1>7. \A i \in DOMAIN t : t[i].kind = "history" => Rising(TRUE, t[i].body)
    BY <1>4 DEF Line
  <1>8. Line(chat, L, t, N)
    BY <1>5, <1>6, <1>7 DEF Line
  <1>9. h.kind = "history" => Rising(TRUE, h.body)
    BY <1>1 DEF Line
  <1>10. ASSUME Tells(h)
         PROVE  /\ Rising(chat, h.body) /\ Earlier(chat, L, ToSet(h.body))
                /\ Line(chat, L \union ToSet(h.body), t, N)
    <2>1. /\ Rising(chat, h.body) /\ Earlier(chat, L, ToSet(h.body)) /\ Earlier(chat, ToSet(h.body), N)
          /\ \A i \in DOMAIN t : Tells(t[i]) => Earlier(chat, ToSet(h.body), ToSet(t[i].body))
      BY <1>1, <1>4, <1>10 DEF Line
    <2>2. Earlier(chat, L \union ToSet(h.body), N)
      BY <2>1 DEF Line, Earlier
    <2>3. \A i \in DOMAIN t : Tells(t[i]) => Earlier(chat, L \union ToSet(h.body), ToSet(t[i].body))
      BY <1>5, <2>1 DEF Earlier
    <2> QED BY <1>5, <1>6, <1>7, <2>1, <2>2, <2>3 DEF Line
  <1> QED BY <1>8, <1>9, <1>10 DEF t, h

-----------------------------------------------------------------------------
(* What is still to be put on the wire of a connection.                    *)

NextMessages(s) ==
    LET c == sock[s].where
    IN  ToSet(feed[c]) \union Unpublished
            \union (IF s \in telling[c].left THEN ToSet(telling[c].body) ELSE {})

\* Of the batch, what a connection has not been sent yet.
RestOf(c, s) ==
    IF s \in batch[c].left THEN ToSet(batch[c].body)
    ELSE IF batch[c].body = <<>> THEN {} ELSE ToSet(Tail(batch[c].body))
NextNotices(s) == Unread \union RestOf(sock[s].where, s)

LEMMA MessagesLess ==
    ASSUME Consistent, [Next]_vars, NEW s \in Socket, sock[s].where \in Container,
           sock'[s].where = sock[s].where, OfChat(s)
    PROVE  NextMessages(s)' \subseteq NextMessages(s)
  <1> DEFINE c == sock[s].where
             T == IF s \in telling[c].left THEN ToSet(telling[c].body) ELSE {}
             F == ToSet(feed[c])
  <1>1. feed[c] \in Seq(Message) /\ telling[c].body \in Seq(Message) /\ c \in Container
    BY DEF Consistent, Types
  <1>2. Unpublished' \subseteq Unpublished
    BY AheadShrinks
  <1>3. NextMessages(s) = F \union Unpublished \union T
    BY DEF NextMessages
  <1>4. NextMessages(s)' = ToSet(feed'[c]) \union Unpublished'
                           \union (IF s \in telling'[c].left THEN ToSet(telling'[c].body) ELSE {})
    BY DEF NextMessages
  <1> HIDE DEF c
  <1>5. CASE feed[c] # <<>> /\ feed'[c] = Tail(feed[c]) /\ telling'[c].body = <<Head(feed[c])>>
    <2>1. /\ ToSet(Tail(feed[c])) \subseteq F /\ Head(feed[c]) \in F
          /\ ToSet(<<Head(feed[c])>>) = {Head(feed[c])}
      BY <1>1, <1>5, TailSet, SingleSet
    <2>2. ToSet(feed'[c]) \subseteq F /\ ToSet(telling'[c].body) \subseteq F
      BY <1>5, <2>1
    <2> QED BY <1>2, <1>3, <1>4, <2>2
  <1>6. ASSUME NEW x \in Used, Publish(x), feed'[c] \in {feed[c], feed[c] \o sock[x].got},
               telling'[c] = telling[c]
        PROVE  NextMessages(s)' \subseteq NextMessages(s)
    <2>1. x \in Socket /\ SockOK(x) /\ sock[x].at = "publishing"
      BY <1>6 DEF Used, Consistent, Publish
    <2>2. PICK m \in Message : m.from = x /\ sock[x].got = <<m>>
      BY <2>1 DEF SockOK
    <2>3. ToSet(<<m>>) = {m} /\ <<m>> \in Seq(Message)
      BY SingleSet
    <2>4. m \in Unpublished
      BY <2>1, <2>2, <2>3 DEF InHand, Unpublished
    <2>5. ToSet(feed[c] \o <<m>>) = F \union {m}
      <3>1. feed[c] \in Seq(Message) /\ <<m>> \in Seq(Message)
        BY <1>1, <2>3
      <3>2. ToSet(feed[c] \o <<m>>) = F \union ToSet(<<m>>)
        BY <3>1, ConcatSet, ZenonT(60)
      <3> QED BY <2>3, <3>2
    <2>6. ToSet(feed'[c]) \subseteq F \union Unpublished
      BY <1>6, <2>2, <2>4, <2>5
    <2> QED BY <1>2, <1>3, <1>4, <1>6, <2>6
  <1>7. CASE /\ feed'[c] \in {feed[c], <<>>}
             /\ \/ telling'[c].body = telling[c].body /\ telling'[c].left \subseteq telling[c].left
                \/ telling'[c].body = <<>>
    <2>1. ToSet(feed'[c]) \subseteq F
      BY <1>7, EmptySet
    <2>2. (IF s \in telling'[c].left THEN ToSet(telling'[c].body) ELSE {}) \subseteq T
      BY <1>7, EmptySet
    <2> QED BY <1>2, <1>3, <1>4, <2>1, <2>2
  <1> QED BY <1>1, <1>5, <1>6, <1>7, FeedKinds

LEMMA NoticesLess ==
    ASSUME Consistent, [Next]_vars, NoticesInOrder, NEW s \in Socket, sock[s].where \in Container,
           sock'[s].where = sock[s].where
    PROVE  NextNotices(s)' \subseteq NextNotices(s)
  <1>1. PICK c \in Container : c = sock[s].where
    OBVIOUS
  <1>2. batch[c].body \in Seq(Notice) /\ stream \in Seq(Notice)
    BY DEF Consistent, Types
  <1>3. Unread' \subseteq Unread
    BY NoticesStep
  <1>4. NextNotices(s) = Unread \union RestOf(c, s) /\ NextNotices(s)' = Unread' \union RestOf(c, s)'
    BY <1>1 DEF NextNotices
  <1>5. CASE batch'[c] = batch[c]
    <2>1. RestOf(c, s)' = RestOf(c, s)
      BY <1>5 DEF RestOf
    <2> QED BY <1>3, <1>4, <2>1
  <1>6. ASSUME NEW d \in Container, ReadBy(d) PROVE NextNotices(s)' \subseteq NextNotices(s)
    <2>1. CASE d = c
      <3>1. PICK k \in 0..Len(stream) : batch'[c].body = SubSeq(stream, 1, k)
        BY <1>6, <2>1 DEF ReadBy
      <3>2. 1 \in 1..(Len(stream) + 1)
        BY <1>2
      <3>3. /\ SubSeq(stream, 1, k) \in Seq(Notice)
            /\ ToSet(SubSeq(stream, 1, k)) \subseteq ToSet(stream)
        BY <1>2, <3>2, SubSet
      <3>4. batch'[c].body # <<>> => ToSet(Tail(batch'[c].body)) \subseteq ToSet(batch'[c].body)
        BY <3>1, <3>3, TailSet
      <3>5. RestOf(c, s)' \subseteq ToSet(stream)
        BY <3>1, <3>3, <3>4 DEF RestOf
      <3> QED BY <1>3, <1>4, <3>5 DEF Unread
    <2>2. CASE d # c
      BY <1>2, <1>5, <1>6, <2>2 DEF ReadBy
    <2> QED BY <2>1, <2>2
  <1>7. ASSUME NEW d \in Container, Advance(d) PROVE NextNotices(s)' \subseteq NextNotices(s)
    <2>1. CASE d = c
      <3>1. /\ batch[c].body # <<>> /\ batch[c].left = {} /\ batch'[c].body = Tail(batch[c].body)
        BY <1>7, <2>1 DEF Advance
      <3>2. RestOf(c, s) = ToSet(Tail(batch[c].body))
        BY <3>1 DEF RestOf
      <3>3. Tail(batch[c].body) \in Seq(Notice)
        BY <1>2, <3>1, TailSet
      <3>4. batch'[c].body # <<>> => ToSet(Tail(batch'[c].body)) \subseteq ToSet(batch'[c].body)
        BY <3>1, <3>3, TailSet
      <3>5. RestOf(c, s)' \subseteq ToSet(batch'[c].body)
        BY <3>4 DEF RestOf
      <3> QED BY <1>3, <1>4, <3>1, <3>2, <3>5
    <2>2. CASE d # c
      BY <1>2, <1>5, <1>7, <2>2 DEF Advance
    <2> QED BY <2>1, <2>2
  <1>8. CASE Finish
    <2>1. CASE batch'[c].body = batch[c].body /\ batch'[c].left \subseteq batch[c].left
      <3>1. batch[c].body # <<>> => ToSet(Tail(batch[c].body)) \subseteq ToSet(batch[c].body)
        BY <1>2, TailSet
      <3>2. batch[c].left # {} => batch[c].body # <<>>
        BY <1>2 DEF Consistent, ContainerOK
      <3>3. RestOf(c, s)' \subseteq RestOf(c, s)
        BY <2>1, <3>1, <3>2 DEF RestOf
      <3> QED BY <1>3, <1>4, <3>3
    <2>2. CASE batch'[c].body = <<>>
      <3>1. RestOf(c, s)' = {}
        BY <2>2, EmptySet DEF RestOf
      <3> QED BY <1>3, <1>4, <3>1
    <2> QED BY <1>2, <1>8, <2>1, <2>2 DEF Finish
  <1>9. CASE Republished
    BY <1>5, <1>9 DEF Republished
  <1> QED BY <1>6, <1>7, <1>8, <1>9, NoticeKinds

\* A connection belongs to one page and one container as long as it exists.
LEMMA Stays ==
    ASSUME Consistent, [Next]_vars, NEW s \in Socket
    PROVE  \/ sock'[s].owner = sock[s].owner /\ sock'[s].where = sock[s].where
              /\ (sock'[s].at = "unused" <=> sock[s].at = "unused")
           \/ \E p \in Page, c \in Container : Open(p, s, c)
  <1> DEFINE Same(x) == /\ sock'[x].owner = sock[x].owner /\ sock'[x].where = sock[x].where
                        /\ sock'[x].at = "unused" <=> sock[x].at = "unused"
  <1>1. ASSUME NEW p \in Page, Say(p) PROVE Same(s)
    <2>1. sock' = sock
      BY <1>1, SayFacts
    <2> QED BY <2>1
  <1>2. ASSUME NEW t \in Used, Store(t) PROVE Same(s)
    <2>1. PICK m \in Queued :
             /\ t \in Socket /\ m = Head(up[t]) /\ m.from = t /\ up[t] # <<>>
             /\ up[t] \in Seq(Message) /\ history \in Seq(Message)
             /\ history' \in {Append(history, m), Tail(Append(history, m))}
             /\ up'[t] = Tail(up[t]) /\ \A x \in Socket : x # t => up'[x] = up[x]
             /\ sock[t].at = "idle" /\ sock'[t].at = "publishing" /\ sock'[t].got = <<m>>
             /\ sock'[t].owner = sock[t].owner /\ sock'[t].where = sock[t].where
             /\ \A x \in Socket : x # t => sock'[x] = sock[x]
             /\ UNCHANGED page
      BY <1>2, StoreFacts
    <2>2. CASE t = s
      BY <2>1, <2>2
    <2>3. CASE t # s
      BY <2>1, <2>3
    <2> QED BY <2>2, <2>3
  <1>3. ASSUME NEW p \in Page, NEW t \in Socket, NEW c \in Container, Open(p, t, c), t # s PROVE Same(s)
    BY <1>3, OpenFacts
  <1>4. Upstream => Same(s)
    BY DEF Upstream
  <1> QED BY <1>1, <1>2, <1>3, <1>4, UpstreamKinds

LEMMA PageKinds ==
    ASSUME Consistent, [Next]_vars, NEW p \in Page
    PROVE  \/ /\ page'[p].live = page[p].live /\ page'[p].read = page[p].read
              /\ page'[p].ws = page[p].ws /\ page'[p].at = page[p].at
           \/ /\ page'[p].live = <<>> /\ page'[p].read = <<>>
              /\ page'[p].ws = None \/ \E s \in Socket, c \in Container : Open(p, s, c)
           \/ Arrive(p)
  <1>1. page \in [Page -> Screen]
    BY DEF Consistent, Types
  <1> DEFINE Same == /\ page'[p].live = page[p].live /\ page'[p].read = page[p].read
                     /\ page'[p].ws = page[p].ws /\ page'[p].at = page[p].at
             Blank == /\ page'[p].live = <<>> /\ page'[p].read = <<>>
                      /\ page'[p].ws = None \/ \E s \in Socket, c \in Container : Open(p, s, c)
  <1>2. page' = page => Same
    OBVIOUS
  <1>3. ASSUME NEW q \in Page, Leave(q) PROVE Same \/ Blank
    <2>1. page' = [page EXCEPT ![q] = NewPage]
      BY <1>3 DEF Leave
    <2> QED BY <1>1, <2>1, BlankPage
  <1>4. ASSUME NEW q \in Page, Say(q) PROVE Same
    <2>1. PICK n : page' = [page EXCEPT ![q].said = n]
      BY <1>4 DEF Say
    <2> QED BY <1>1, <2>1 DEF Screen
  <1>5. ASSUME NEW q \in Page, NEW s \in Socket, NEW c \in Container, Open(q, s, c) PROVE Same \/ Blank
    <2>1. /\ page'[q].live = <<>> /\ page'[q].read = <<>>
          /\ \A x \in Page : x # q => page'[x] = page[x]
      BY <1>5, OpenFacts
    <2> QED BY <1>5, <2>1
  <1>6. ASSUME NEW q \in Page, Arrive(q) PROVE Same \/ Arrive(p)
    <2>1. CASE q # p
      <3>1. PICK y : page' = [page EXCEPT ![q] = y]
        BY <1>6 DEF Arrive
      <3> QED BY <1>1, <2>1, <3>1
    <2> QED BY <1>6, <2>1
  <1>7. ASSUME NEW q \in Page, NEW ok, Notify(q, ok) PROVE Same
    BY <1>2, <1>7 DEF Notify
  <1>8. ASSUME NEW s, \/ Accept(s) \/ ReadHistory(s) \/ SendHistory(s) \/ Store(s) \/ Publish(s)
                      \/ Disconnected(s) \/ Refuse(s) \/ HandlerFails(s) \/ Cut(s)
        PROVE  Same
    BY <1>2, <1>8 DEF Accept, ReadHistory, SendHistory, Store, Publish, Disconnected, Refuse,
                      HandlerFails, Cut
  <1>9. ASSUME NEW c, \/ TakeMessage(c) \/ LoseFeed(c) \/ Resubscribe(c) \/ TakeNotices(c)
                      \/ NextNotice(c) \/ ListenerFails(c) \/ Restart(c)
                      \/ \E s : SendMessage(c, s) \/ SendNotice(c, s)
        PROVE  Same
    BY <1>2, <1>9 DEF TakeMessage, LoseFeed, Resubscribe, TakeNotices, NextNotice, ListenerFails,
                      Restart, SendMessage, SendNotice
  <1>10. UNCHANGED vars => Same
    BY <1>2 DEF vars
  <1> HIDE DEF Same, Blank
  <1>11. CASE \E q \in Page : UserStep(q)
    <2>1. Same \/ Blank
      BY <1>3, <1>4, <1>5, <1>7, <1>11 DEF UserStep
    <2> QED BY <2>1 DEF Same, Blank
  <1>12. CASE SystemStep
    <2>1. Same \/ Arrive(p)
      BY <1>6, <1>8, <1>9, <1>12 DEF SystemStep
    <2> QED BY <2>1 DEF Same
  <1>13. CASE FaultStep
    <2>1. Same
      BY <1>8, <1>9, <1>13 DEF FaultStep
    <2> QED BY <2>1 DEF Same
  <1> QED BY <1>10, <1>11, <1>12, <1>13 DEF Next, Same

\* Nothing is put on the wire of s but what tells the page nothing new.
Quiet(f) == ~Tells(f) /\ (f.kind = "history" => Rising(TRUE, f.body))
Quietly(s) ==
    \E k \in 0..Len(wire[s]) :
        \/ wire'[s] = SubSeq(wire[s], 1, k)
        \/ \E f \in FrameOf(s) : Quiet(f) /\ wire'[s] = Append(SubSeq(wire[s], 1, k), f)

LEMMA QuietlyFacts ==
    ASSUME Consistent, NEW s \in Socket
    PROVE  /\ wire'[s] = wire[s] => Quietly(s)
           /\ wire'[s] = <<>> => Quietly(s)
           /\ \A f \in FrameOf(s) : Quiet(f) /\ wire'[s] = Append(wire[s], f) => Quietly(s)
  <1>1. wire[s] \in Seq(FrameOf(s))
    BY DEF Consistent, SockOK
  <1>2. /\ Len(wire[s]) \in 0..Len(wire[s]) /\ SubSeq(wire[s], 1, Len(wire[s])) = wire[s]
        /\ 0 \in 0..Len(wire[s]) /\ SubSeq(wire[s], 1, 0) = <<>>
    BY <1>1
  <1> QED BY <1>2 DEF Quietly

LEMMA ToBrowserQuietly ==
    ASSUME Consistent, NEW s \in Socket, NEW t \in Socket, NEW f \in FrameOf(t), Quiet(f), ToBrowser(t, f)
    PROVE  Quietly(s)
  <1>1. /\ wire'[t] = IF sock[t].gone THEN wire[t] ELSE Append(wire[t], f)
        /\ \A x \in Socket : x # t => wire'[x] = wire[x]
    BY ToBrowserFacts
  <1>2. CASE s = t
    BY <1>1, <1>2, QuietlyFacts
  <1>3. CASE s # t
    BY <1>1, <1>3, QuietlyFacts
  <1> QED BY <1>2, <1>3

LEMMA QuietFrames ==
    /\ \A s : /\ Frame("open", <<>>) \in FrameOf(s) /\ Quiet(Frame("open", <<>>))
              /\ Frame("close", <<>>) \in FrameOf(s) /\ Quiet(Frame("close", <<>>))
    /\ \A q : Rising(TRUE, q) => Quiet(Frame("history", q))
  <1>1. \A s : Frame("open", <<>>) \in FrameOf(s) /\ Frame("close", <<>>) \in FrameOf(s)
    BY FrameFacts
  <1>2. \A k, q : Frame(k, q).kind = k /\ Frame(k, q).body = q
    BY DEF Frame
  <1>3. Quiet(Frame("open", <<>>)) /\ Quiet(Frame("close", <<>>))
    <2>1. Frame("open", <<>>).kind = "open" /\ Frame("close", <<>>).kind = "close"
      BY <1>2
    <2> QED BY <2>1 DEF Quiet, Tells
  <1>4. ASSUME NEW q, Rising(TRUE, q) PROVE Quiet(Frame("history", q))
    <2> DEFINE f == Frame("history", q)
    <2>1. f.kind = "history" /\ f.body = q
      BY <1>2
    <2> HIDE DEF f
    <2>2. Quiet(f)
      BY <1>4, <2>1 DEF Quiet, Tells
    <2> QED BY <2>2 DEF f
  <1> QED BY <1>1, <1>3, <1>4

LEMMA WireKinds ==
    ASSUME Consistent, [Next]_vars, NEW s \in Socket,
           \A x \in Socket : sock[x].at = "read" => Rising(TRUE, sock[x].got)
    PROVE  \/ Quietly(s)
           \/ \E p \in Page : Arrive(p) /\ page[p].ws = s
           \/ \E c \in Container : /\ s \in telling[c].left \union batch[c].left
                                   /\ SendMessage(c, s) \/ SendNotice(c, s)
  <1>1. /\ wire \in [Socket -> Seq(AnyFrame)] /\ sock \in [Socket -> Connection] /\ Used \subseteq Socket
        /\ \A x \in Socket : SockOK(x)
    BY DEF Consistent, Types, Used
  <1>2. wire' = wire => Quietly(s)
    BY QuietlyFacts
  <1>3. ASSUME NEW t \in Used, Refuse(t) \/ HandlerFails(t) \/ Disconnected(t) PROVE Quietly(s)
    <2>1. ToBrowser(t, Frame("close", <<>>)) /\ t \in Socket
      BY <1>1, <1>3 DEF Refuse, HandlerFails, Disconnected, End
    <2> QED BY <2>1, QuietFrames, ToBrowserQuietly
  <1>4. ASSUME NEW t \in Used, Accept(t) PROVE Quietly(s)
    <2>1. ToBrowser(t, Frame("open", <<>>)) /\ t \in Socket
      BY <1>1, <1>4 DEF Accept
    <2> QED BY <2>1, QuietFrames, ToBrowserQuietly
  <1>5. ASSUME NEW t \in Used, SendHistory(t) PROVE Quietly(s)
    <2>1. /\ ToBrowser(t, Frame("history", sock[t].got)) /\ t \in Socket
          /\ sock[t].at = "read" /\ sock[t].got \in Seq(Message)
      BY <1>1, <1>5 DEF SendHistory, Connection
    <2>2. FrameOf(t) = ChatFrame
      BY <1>1, <2>1 DEF SockOK, FrameOf
    <2>3. Frame("history", sock[t].got) \in FrameOf(t)
      BY <2>1, <2>2, FrameFacts
    <2>4. Quiet(Frame("history", sock[t].got))
      BY <2>1, QuietFrames
    <2> QED BY <2>1, <2>3, <2>4, ToBrowserQuietly
  <1>6. ASSUME NEW t \in Used, Cut(t) PROVE Quietly(s)
    <2>1. PICK k \in 0..Len(wire[t]) :
            wire' = [wire EXCEPT ![t] = Append(SubSeq(@, 1, k), Frame("close", <<>>))]
      BY <1>6 DEF Cut
    <2>2. CASE t = s
      <3>1. wire'[s] = Append(SubSeq(wire[s], 1, k), Frame("close", <<>>))
        BY <1>1, <2>1, <2>2
      <3> QED BY <2>1, <2>2, <3>1, QuietFrames DEF Quietly
    <2>3. CASE t # s
      BY <1>1, <2>1, <2>3, QuietlyFacts
    <2> QED BY <2>2, <2>3
  <1>7. ASSUME NEW c \in Container, Restart(c) PROVE Quietly(s)
    <2> DEFINE here == {x \in Used : sock[x].where = c /\ sock[x].at # "over"}
    <2>1. wire' = [x \in Socket |-> IF x \in here /\ ~sock[x].gone
                                    THEN Append(wire[x], Frame("close", <<>>)) ELSE wire[x]]
      BY <1>7 DEF Restart
    <2> HIDE DEF here
    <2>2. wire'[s] = wire[s] \/ wire'[s] = Append(wire[s], Frame("close", <<>>))
      BY <2>1
    <2> QED BY <2>2, QuietFrames, QuietlyFacts
  <1>8. ASSUME NEW p \in Page, Leave(p) PROVE Quietly(s)
    <2>1. wire' = [wire EXCEPT ![page[p].ws] = <<>>]
      BY <1>8 DEF Leave
    <2>2. wire'[s] = wire[s] \/ wire'[s] = <<>>
      BY <1>1, <2>1
    <2> QED BY <2>2, QuietlyFacts
  <1>9. ASSUME NEW p \in Page, Arrive(p), page[p].ws # s PROVE Quietly(s)
    <2>1. wire' = [wire EXCEPT ![page[p].ws] = Tail(@)]
      BY <1>9 DEF Arrive
    <2>2. wire'[s] = wire[s]
      BY <1>1, <1>9, <2>1
    <2> QED BY <2>2, QuietlyFacts
  <1>10. ASSUME NEW c \in Container, NEW t \in telling[c].left \union batch[c].left, t # s,
                SendMessage(c, t) \/ SendNotice(c, t)
         PROVE  Quietly(s)
    <2>1. wire' = wire \/ \E f : ToBrowser(t, f)
      BY <1>10 DEF SendMessage, SendNotice, SendTo
    <2>2. ASSUME NEW f, ToBrowser(t, f) PROVE wire'[s] = wire[s]
      BY <1>1, <1>10, <2>2 DEF ToBrowser
    <2>3. wire'[s] = wire[s]
      BY <2>1, <2>2
    <2> QED BY <2>3, QuietlyFacts
  <1>11. ASSUME NEW p, NEW t, NEW c, Open(p, t, c) PROVE Quietly(s)
    BY <1>2, <1>11 DEF Open
  <1>12. ASSUME NEW p, Say(p) \/ \E ok : Notify(p, ok) PROVE Quietly(s)
    BY <1>2, <1>12 DEF Say, Notify
  <1>13. ASSUME NEW t, ReadHistory(t) \/ Store(t) \/ Publish(t) PROVE Quietly(s)
    BY <1>2, <1>13 DEF ReadHistory, Store, Publish
  <1>14. ASSUME NEW c, \/ TakeMessage(c) \/ LoseFeed(c) \/ Resubscribe(c) \/ TakeNotices(c)
                       \/ NextNotice(c) \/ ListenerFails(c)
         PROVE  Quietly(s)
    BY <1>2, <1>14 DEF TakeMessage, LoseFeed, Resubscribe, TakeNotices, NextNotice, ListenerFails
  <1>15. UNCHANGED vars => Quietly(s)
    BY <1>2 DEF vars
  <1>16. CASE \E p \in Page : UserStep(p)
    BY <1>8, <1>11, <1>12, <1>16 DEF UserStep
  <1>17. CASE SystemStep
    BY <1>3, <1>4, <1>5, <1>9, <1>10, <1>13, <1>14, <1>17 DEF SystemStep
  <1>18. CASE FaultStep
    BY <1>3, <1>6, <1>7, <1>14, <1>18 DEF FaultStep
  <1> QED BY <1>15, <1>16, <1>17, <1>18 DEF Next

\* What a step of its handler makes of the connection s.
OwnStep(s) ==
    \/ Accept(s) \/ ReadHistory(s) \/ SendHistory(s) \/ Store(s) \/ Publish(s)
    \/ Refuse(s) \/ HandlerFails(s) \/ Disconnected(s)

LEMMA HandlerKinds ==
    ASSUME Consistent, [Next]_vars, NEW s \in Socket
    PROVE  \/ sock'[s].at = sock[s].at /\ sock'[s].got = sock[s].got
           \/ s \in Used /\ OwnStep(s)
           \/ \E p \in Page, c \in Container : Open(p, s, c)
           \/ sock[s].where \in Container /\ Restart(sock[s].where) /\ sock'[s].at = "over"
  <1> DEFINE Same == sock'[s].at = sock[s].at /\ sock'[s].got = sock[s].got
  <1>1. sock \in [Socket -> Connection] /\ Used \subseteq Socket
    BY DEF Consistent, Types, Used
  <1>2. sock' = sock => Same
    OBVIOUS
  <1>3. ASSUME NEW t \in Used, t # s, OwnStep(t) PROVE Same
    <2>1. \E y : sock' = [sock EXCEPT ![t] = y]
      <3>1. \/ \E a : sock' = [sock EXCEPT ![t].at = a]
            \/ \E a, g : sock' = [sock EXCEPT ![t].at = a, ![t].got = g]
        BY <1>3 DEF OwnStep, Accept, ReadHistory, SendHistory, Store, Publish, Refuse, HandlerFails,
                    Disconnected, End
      <3>2. ASSUME NEW a, sock' = [sock EXCEPT ![t].at = a]
            PROVE  \E y : sock' = [sock EXCEPT ![t] = y]
        <4>1. sock' = [sock EXCEPT ![t] = [sock[t] EXCEPT !.at = a]]
          BY <1>1, <1>3, <3>2
        <4> QED BY <4>1
      <3>3. ASSUME NEW a, NEW g, sock' = [sock EXCEPT ![t].at = a, ![t].got = g]
            PROVE  \E y : sock' = [sock EXCEPT ![t] = y]
        <4>1. sock' = [sock EXCEPT ![t] = [sock[t] EXCEPT !.at = a, !.got = g]]
          BY <1>1, <1>3, <3>3
        <4> QED BY <4>1
      <3> QED BY <3>1, <3>2, <3>3
    <2> QED BY <1>1, <1>3, <2>1
  <1>4. ASSUME NEW t, sock' = [sock EXCEPT ![t].gone = TRUE] PROVE Same
    BY <1>1, <1>4 DEF Connection
  <1>5. ASSUME NEW p \in Page, Leave(p) PROVE Same
    BY <1>4, <1>5 DEF Leave
  <1>6. ASSUME NEW t \in Used, Cut(t) PROVE Same
    BY <1>4, <1>6 DEF Cut
  <1>7. ASSUME NEW p \in Page, NEW t \in Socket, t # s, NEW c \in Container, Open(p, t, c) PROVE Same
    BY <1>7, OpenFacts
  <1>8. ASSUME NEW c \in Container, Restart(c)
        PROVE  Same \/ (sock[s].where = c /\ sock'[s].at = "over")
    <2> DEFINE here == {x \in Used : sock[x].where = c /\ sock[x].at # "over"}
               k == [sock[s] EXCEPT !.at = "over", !.got = <<>>]
    <2>1. sock' = [x \in Socket |-> IF x \in here THEN [sock[x] EXCEPT !.at = "over", !.got = <<>>]
                                    ELSE sock[x]]
      BY <1>8 DEF Restart
    <2>2. sock[s] \in Connection
      BY <1>1
    <2>3. k.at = "over"
      BY <2>2 DEF Connection
    <2>4. sock'[s] = sock[s] \/ (sock'[s] = k /\ s \in here)
      BY <2>1
    <2> HIDE DEF k
    <2> QED BY <2>3, <2>4
  <1>9. ASSUME NEW p, Say(p) \/ Arrive(p) \/ \E ok : Notify(p, ok) PROVE Same
    BY <1>2, <1>9 DEF Say, Arrive, Notify
  <1>10. ASSUME NEW c, \/ TakeMessage(c) \/ LoseFeed(c) \/ Resubscribe(c) \/ TakeNotices(c)
                       \/ NextNotice(c) \/ ListenerFails(c)
                       \/ \E t : SendMessage(c, t) \/ SendNotice(c, t)
         PROVE  Same
    BY <1>2, <1>10 DEF TakeMessage, LoseFeed, Resubscribe, TakeNotices, NextNotice, ListenerFails,
                       SendMessage, SendNotice
  <1>11. UNCHANGED vars => Same
    BY <1>2 DEF vars
  <1> HIDE DEF Same
  <1>12. CASE \E p \in Page : UserStep(p)
    BY <1>5, <1>7, <1>9, <1>12 DEF UserStep, Same
  <1>13. CASE SystemStep
    BY <1>3, <1>9, <1>10, <1>13 DEF SystemStep, Same, OwnStep
  <1>14. CASE FaultStep
    BY <1>3, <1>6, <1>8, <1>10, <1>14 DEF FaultStep, Same, OwnStep
  <1> QED BY <1>11, <1>12, <1>13, <1>14 DEF Next, Same

\* What it makes of the connection, step by step.
LEMMA OwnFacts ==
    ASSUME Consistent, NEW s \in Socket
    PROVE  /\ Accept(s) => sock'[s].at = IF OfChat(s) THEN "joined" ELSE "idle"
           /\ ReadHistory(s) => sock'[s].at = "read" /\ sock'[s].got = history
           /\ SendHistory(s) => sock[s].at = "read" /\ sock'[s].at = "idle"
           /\ Store(s) => sock[s].at = "idle" /\ sock'[s].at = "publishing"
           /\ Publish(s) => sock[s].at = "publishing" /\ sock'[s].at = "idle"
           /\ Refuse(s) \/ HandlerFails(s) \/ Disconnected(s) => sock'[s].at = "over"
  <1>1. sock \in [Socket -> Connection]
    BY DEF Consistent, Types
  <1>2. ASSUME NEW a, sock' = [sock EXCEPT ![s].at = a] PROVE sock'[s].at = a
    BY <1>1, <1>2 DEF Connection
  <1>3. ASSUME NEW a, NEW g, sock' = [sock EXCEPT ![s].at = a, ![s].got = g]
        PROVE  sock'[s].at = a /\ sock'[s].got = g
    BY <1>1, <1>3 DEF Connection
  <1>4. Accept(s) => sock'[s].at = IF OfChat(s) THEN "joined" ELSE "idle"
    BY <1>2 DEF Accept
  <1>5. ReadHistory(s) => sock'[s].at = "read" /\ sock'[s].got = history
    BY <1>3 DEF ReadHistory
  <1>6. SendHistory(s) => sock[s].at = "read" /\ sock'[s].at = "idle"
    BY <1>3 DEF SendHistory
  <1>7. Store(s) => sock[s].at = "idle" /\ sock'[s].at = "publishing"
    BY <1>3 DEF Store
  <1>8. Publish(s) => sock[s].at = "publishing" /\ sock'[s].at = "idle"
    BY <1>3 DEF Publish
  <1>9. Refuse(s) \/ HandlerFails(s) \/ Disconnected(s) => sock'[s].at = "over"
    BY <1>3 DEF Refuse, HandlerFails, Disconnected, End
  <1> QED BY <1>4, <1>5, <1>6, <1>7, <1>8, <1>9

LEMMA ReadKinds ==
    ASSUME Consistent, [Next]_vars, NEW s \in Socket, sock'[s].at = "read"
    PROVE  (sock[s].at = "read" /\ sock'[s].got = sock[s].got) \/ sock'[s].got = history
  BY HandlerKinds, OwnFacts, OpenFacts DEF OwnStep

-----------------------------------------------------------------------------
(* What the pages have been told.                                          *)

OnScreen(s) == UNION {ToSet(page[p].live) : p \in {x \in Page : page[x].ws = s}}

Told(s) ==
    /\ OfChat(s) => Line(TRUE, OnScreen(s), wire[s], NextMessages(s))
    /\ ~OfChat(s) => Line(FALSE, OnScreen(s), wire[s], NextNotices(s))
    /\ sock[s].at = "read" => Rising(TRUE, sock[s].got)

PageInOrder(p) ==
    /\ p \in Chatter => Rising(TRUE, page[p].live)
    /\ p \notin Chatter => Rising(FALSE, page[p].live)
    /\ Rising(TRUE, page[p].read)

LEMMA BlankLine == \A N : Line(TRUE, {}, <<>>, N) /\ Line(FALSE, {}, <<>>, N)
  BY DEF Line, Earlier

LEMMA QuietLine ==
    ASSUME Consistent, NEW s \in Socket, NEW chat \in BOOLEAN, NEW L, NEW N,
           Line(chat, L, wire[s], N), Quietly(s), NEW K, K \subseteq L, NEW M, M \subseteq N
    PROVE  Line(chat, K, wire'[s], M)
  <1>1. wire[s] \in Seq(FrameOf(s))
    BY DEF Consistent, SockOK
  <1>2. PICK k \in 0..Len(wire[s]) :
            \/ wire'[s] = SubSeq(wire[s], 1, k)
            \/ \E f \in FrameOf(s) : Quiet(f) /\ wire'[s] = Append(SubSeq(wire[s], 1, k), f)
    BY DEF Quietly
  <1> DEFINE q == SubSeq(wire[s], 1, k)
  <1>3. Line(chat, L, q, N)
    BY <1>1, LineSub
  <1>4. q \in Seq(FrameOf(s))
    BY <1>1
  <1> HIDE DEF q
  <1>5. Line(chat, L, wire'[s], N)
    <2>1. CASE wire'[s] = q
      BY <1>3, <2>1
    <2>2. ASSUME NEW f \in FrameOf(s), Quiet(f), wire'[s] = Append(q, f)
          PROVE  Line(chat, L, wire'[s], N)
      <3>1. Line(chat, L, Append(q, f), N)
        BY <1>3, <1>4, <2>2, LineQuiet DEF Quiet
      <3> QED BY <2>2, <3>1
    <2> QED BY <1>2, <2>1, <2>2 DEF q
  <1> QED BY <1>5, LineLess

LEMMA OnScreenLess ==
    ASSUME Consistent, [Next]_vars, NEW s \in Socket, \A p \in Page : ~(Arrive(p) /\ page[p].ws = s)
    PROVE  OnScreen(s)' \subseteq OnScreen(s)
  <1> SUFFICES ASSUME NEW p \in Page, page'[p].ws = s, NEW x \in ToSet(page'[p].live)
               PROVE  x \in OnScreen(s)
    BY DEF OnScreen
  <1>1. CASE page'[p].live = page[p].live /\ page'[p].ws = page[p].ws
    BY <1>1 DEF OnScreen
  <1>2. CASE page'[p].live = <<>>
    BY <1>2, EmptySet
  <1>3. CASE Arrive(p)
    <2> DEFINE t == page[p].ws
               f == Head(wire[t])
               y == Shown(p, f)
    <2>1. /\ t # None /\ wire[t] # <<>> /\ page' = [page EXCEPT ![p] = y]
      BY <1>3 DEF Arrive
    <2>2. t \in Socket /\ (OfChat(t) <=> p \in Chatter) /\ SockOK(t)
      BY <2>1, OwnSocket DEF Consistent
    <2>3. f \in FrameFor(p)
      BY <2>1, <2>2, TailSet DEF SockOK, FrameOf, FrameFor
    <2> HIDE DEF f
    <2>4. y.ws = page[p].ws
      BY <2>3, ShownFacts
    <2> HIDE DEF y
    <2>5. page'[p].ws = page[p].ws
      BY <2>1, <2>4 DEF Consistent, Types
    <2> QED BY <1>3, <2>5
  <1> QED BY <1>1, <1>2, <1>3, PageKinds

LEMMA ArriveLine ==
    ASSUME Consistent, NEW p \in Page, Arrive(p), NEW s \in Socket, page[p].ws = s,
           NEW chat \in BOOLEAN, NEW N, Line(chat, ToSet(page[p].live), wire[s], N),
           Rising(chat, page[p].live), Rising(TRUE, page[p].read)
    PROVE  /\ Line(chat, ToSet(page'[p].live), wire'[s], N)
           /\ Rising(chat, page'[p].live) /\ Rising(TRUE, page'[p].read)
  <1> DEFINE w == wire[s]
             f == Head(w)
             y == Shown(p, f)
             L == ToSet(page[p].live)
  <1>1. /\ w # <<>> /\ page' = [page EXCEPT ![p] = y] /\ wire' = [wire EXCEPT ![s] = Tail(@)]
        /\ page[p].ws # None
    BY DEF Arrive
  <1>2. /\ page \in [Page -> Screen] /\ wire \in [Socket -> Seq(AnyFrame)] /\ w \in Seq(FrameOf(s))
        /\ page[p].live \in LiveOf(p)
    BY DEF Consistent, Types, SockOK, PageOK
  <1>3. FrameOf(s) = FrameFor(p)
    BY <1>1, OwnSocket DEF FrameOf, FrameFor
  <1>4. f \in FrameFor(p)
    BY <1>1, <1>2, <1>3, TailSet
  <1>5. wire'[s] = Tail(w)
    BY <1>1, <1>2
  <1>6. page'[p] = y
    BY <1>1, <1>2
  <1>7. /\ Line(chat, L, Tail(w), N)
        /\ f.kind = "history" => Rising(TRUE, f.body)
        /\ Tells(f) =>
             /\ Rising(chat, f.body) /\ Earlier(chat, L, ToSet(f.body))
             /\ Line(chat, L \union ToSet(f.body), Tail(w), N)
    BY <1>1, <1>2, LineTail
  <1> HIDE DEF f, w
  <1>8. CASE f.kind \in {"open", "close"}
    <2>1. y.live = page[p].live /\ y.read = page[p].read
      BY <1>4, <1>8, ShownFacts
    <2> QED BY <1>5, <1>6, <1>7, <2>1
  <1>9. CASE f.kind = "history"
    <2>1. y.live = <<>> /\ y.read = f.body
      BY <1>4, <1>9, ShownFacts
    <2>2. Line(chat, {}, Tail(w), N)
      BY <1>7, LineLess
    <2>3. Rising(chat, <<>>)
      BY RisingEmpty
    <2> QED BY <1>5, <1>6, <1>7, <1>9, <2>1, <2>2, <2>3, EmptySet
  <1>10. CASE Tells(f)
    <2>1. PICK S : LiveOf(p) = Seq(S)
      BY DEF LiveOf
    <2>2. f.body \in Seq(S) /\ page[p].live \in Seq(S) /\ <<>> \in Seq(S)
      <3>1. f.body \in LiveOf(p)
        BY <1>4, <1>10 DEF Tells, FrameFor, LiveOf, ChatFrame, NoticeFrame
      <3>2. <<>> \in Seq(S)
        OBVIOUS
      <3> QED BY <1>2, <2>1, <3>1, <3>2
    <2>3. PICK q \in {f.body, <<>>} : y.live = page[p].live \o q
      BY <1>4, <1>10, ShownFacts DEF Tells, Mine
    <2>4. y.read = page[p].read
      BY <1>4, <1>10, ShownFacts DEF Tells
    <2>5. Rising(chat, q) /\ Earlier(chat, L, ToSet(q)) /\ ToSet(q) \subseteq ToSet(f.body) /\ q \in Seq(S)
      <3>1. CASE q = f.body
        BY <1>7, <1>10, <2>2, <3>1
      <3>2. CASE q = <<>>
        BY <2>2, <3>2, RisingEmpty, EmptySet DEF Earlier
      <3> QED BY <3>1, <3>2
    <2>6. Rising(chat, page[p].live \o q)
      BY <2>2, <2>5, RisingConcat
    <2>7. page[p].live \in Seq(S) /\ q \in Seq(S)
      BY <2>2, <2>5
    <2>8. ToSet(page[p].live \o q) = L \union ToSet(q)
      BY <2>7, ConcatSet
    <2>9. L \union ToSet(q) \subseteq L \union ToSet(f.body)
      BY <2>5
    <2>10. Line(chat, L \union ToSet(q), Tail(w), N)
      BY <1>7, <1>10, <2>9, LineLess
    <2> QED BY <1>5, <1>6, <2>3, <2>4, <2>6, <2>8, <2>10
  <1>11. f.kind \in {"open", "close", "history"} \/ Tells(f)
    BY <1>4 DEF FrameFor, ChatFrame, NoticeFrame, Tells
  <1> QED BY <1>8, <1>9, <1>10, <1>11

\* The listener of c sends a message to s.
LEMMA SendMessageLine ==
    ASSUME Consistent, [Next]_vars, NEW c \in Container, FeedInOrder(c), NEW s \in telling[c].left,
           SendMessage(c, s), NEW L, Line(TRUE, L, wire[s], NextMessages(s))
    PROVE  OfChat(s) /\ Line(TRUE, L, wire'[s], NextMessages(s)')
  <1> DEFINE b == telling[c].body
             f == Frame("message", b)
             N == ToSet(feed[c]) \union Unpublished
  <1>1. /\ s \in Socket /\ sock[s].where = c /\ OfChat(s)
        /\ telling \in [Container -> [body : Seq(Message), left : SUBSET Socket]]
        /\ b \in Seq(Message) /\ TRUE \in BOOLEAN
    BY DEF Consistent, Types, ContainerOK
  <1>2. /\ Rising(TRUE, b) /\ Earlier(TRUE, ToSet(b), N)
    BY DEF FeedInOrder
  <1>3. NextMessages(s) = N \union ToSet(b)
    BY <1>1 DEF NextMessages
  <1>4. /\ sock' = sock /\ feed' = feed /\ telling' = [telling EXCEPT ![c].left = @ \ {s}]
    BY DEF SendMessage
  <1>5. s \notin telling'[c].left
    BY <1>1, <1>4
  <1>6. NextMessages(s)' = ToSet(feed[c]) \union Unpublished'
    BY <1>1, <1>4, <1>5 DEF NextMessages
  <1>7. NextMessages(s)' \subseteq N
    BY <1>6, AheadShrinks
  <1>8. f \in FrameOf(s) /\ f.kind = "message" /\ f.body = b
    BY <1>1, FrameFacts DEF Frame, FrameOf
  <1>9. wire'[s] = wire[s] \/ wire'[s] = Append(wire[s], f)
    <2>1. wire' = wire \/ ToBrowser(s, f)
      BY DEF SendMessage, SendTo
    <2>2. ToBrowser(s, f) => wire'[s] = wire[s] \/ wire'[s] = Append(wire[s], f)
      BY <1>1, <1>8, ToBrowserFacts
    <2> QED BY <2>1, <2>2
  <1> HIDE DEF f, N
  <1>10. CASE wire'[s] = wire[s]
    <2>1. NextMessages(s)' \subseteq NextMessages(s)
      BY <1>3, <1>7
    <2>2. Line(TRUE, L, wire[s], NextMessages(s)')
      BY <1>1, <2>1, LineLess
    <2> QED BY <1>1, <1>10, <2>2
  <1>11. CASE wire'[s] = Append(wire[s], f)
    <2>1. wire[s] \in Seq(FrameOf(s))
      BY <1>1 DEF Consistent, SockOK
    <2>2. /\ Tells(f) /\ f.kind # "history" /\ Rising(TRUE, f.body)
          /\ ToSet(f.body) \subseteq NextMessages(s)
      BY <1>2, <1>3, <1>8 DEF Tells
    <2>3. NextMessages(s)' \subseteq NextMessages(s) /\ Earlier(TRUE, ToSet(f.body), NextMessages(s)')
      BY <1>2, <1>3, <1>7, <1>8 DEF Earlier
    <2>4. Line(TRUE, L, Append(wire[s], f), NextMessages(s)')
      BY <1>1, <1>8, <2>1, <2>2, <2>3, LineTold
    <2> QED BY <1>1, <1>11, <2>4
  <1> QED BY <1>9, <1>10, <1>11

\* The listener of c sends the first notice of its batch to s.
LEMMA SendNoticeLine ==
    ASSUME Consistent, NoticesInOrder, NEW c \in Container, NEW s \in batch[c].left,
           SendNotice(c, s), NEW L, Line(FALSE, L, wire[s], NextNotices(s))
    PROVE  ~OfChat(s) /\ Line(FALSE, L, wire'[s], NextNotices(s)')
  <1> DEFINE b == batch[c].body
             f == Frame("notice", <<Head(b)>>)
  <1>1. /\ s \in Socket /\ sock[s].where = c /\ ~OfChat(s) /\ b # <<>>
        /\ batch \in [Container -> [body : Seq(Notice), left : SUBSET Socket]]
        /\ b \in Seq(Notice) /\ FALSE \in BOOLEAN
    BY DEF Consistent, Types, ContainerOK
  <1>2. Rising(FALSE, b) /\ Earlier(FALSE, ToSet(b), Unread)
    BY DEF NoticesInOrder
  <1>3. Earlier(FALSE, {Head(b)}, ToSet(Tail(b)))
    BY <1>1, <1>2, RisingTail
  <1>4. Head(b) \in Notice /\ Head(b) \in ToSet(b) /\ ToSet(Tail(b)) \subseteq ToSet(b)
    BY <1>1, TailSet
  <1>5. <<Head(b)>> \in Seq(Notice) /\ ToSet(<<Head(b)>>) = {Head(b)}
    BY <1>4, SingleSet
  <1>6. NextNotices(s) = Unread \union ToSet(b)
    BY <1>1 DEF NextNotices, RestOf
  <1>7. /\ sock' = sock /\ rows' = rows /\ stream' = stream
        /\ batch' = [batch EXCEPT ![c].left = @ \ {s}]
    BY DEF SendNotice
  <1>8. batch'[c].body = b /\ s \notin batch'[c].left
    BY <1>1, <1>7
  <1>9. Unread' = Unread
    BY <1>7 DEF Unread, FutureNotices
  <1>10. NextNotices(s)' = Unread \union ToSet(Tail(b))
    BY <1>1, <1>7, <1>8, <1>9 DEF NextNotices, RestOf
  <1>11. f \in FrameOf(s) /\ f.kind = "notice" /\ f.body = <<Head(b)>>
    BY <1>1, <1>5, FrameFacts DEF Frame, FrameOf
  <1>12. wire'[s] = wire[s] \/ wire'[s] = Append(wire[s], f)
    <2>1. wire' = wire \/ ToBrowser(s, f)
      BY DEF SendNotice, SendTo
    <2>2. ToBrowser(s, f) => wire'[s] = wire[s] \/ wire'[s] = Append(wire[s], f)
      BY <1>1, <1>11, ToBrowserFacts
    <2> QED BY <2>1, <2>2
  <1> HIDE DEF f, b
  <1>13. NextNotices(s)' \subseteq NextNotices(s)
    BY <1>4, <1>6, <1>10
  <1>14. CASE wire'[s] = wire[s]
    <2>1. Line(FALSE, L, wire[s], NextNotices(s)')
      BY <1>1, <1>13, LineLess
    <2> QED BY <1>1, <1>14, <2>1
  <1>15. CASE wire'[s] = Append(wire[s], f)
    <2>1. wire[s] \in Seq(FrameOf(s))
      BY <1>1 DEF Consistent, SockOK
    <2>2. Rising(FALSE, f.body)
      BY <1>4, <1>11, RisingSingle
    <2>3. /\ Tells(f) /\ f.kind # "history" /\ ToSet(f.body) \subseteq NextNotices(s)
      BY <1>4, <1>5, <1>6, <1>11 DEF Tells
    <2>4. Earlier(FALSE, ToSet(f.body), NextNotices(s)')
      BY <1>2, <1>3, <1>4, <1>5, <1>10, <1>11 DEF Earlier
    <2>5. Line(FALSE, L, Append(wire[s], f), NextNotices(s)')
      BY <1>1, <1>11, <1>13, <2>1, <2>2, <2>3, <2>4, LineTold
    <2> QED BY <1>1, <1>15, <2>5
  <1> QED BY <1>12, <1>14, <1>15

LEMMA ToldStep ==
    ASSUME Consistent, [Next]_vars, HistoryInOrder, NoticesInOrder, \A c \in Container : FeedInOrder(c),
           \A s \in Socket : Told(s), \A p \in Page : PageInOrder(p),
           NEW s \in Socket
    PROVE  Told(s)'
  <1>1. sock'[s].at = "read" => Rising(TRUE, sock'[s].got)
    BY ReadKinds DEF Told, HistoryInOrder
  <1>2. Consistent'
    BY ConsistentStep
  <1>3. Told(s) /\ SockOK(s)
    BY DEF Consistent
  <1>4. ASSUME wire'[s] = <<>>, \A p \in Page : page'[p].ws = s => page'[p].live = <<>>
        PROVE  Told(s)'
    <2>1. OnScreen(s)' = {}
      BY <1>4, EmptySet DEF OnScreen
    <2> QED BY <1>1, <1>4, <2>1, BlankLine DEF Told
  <1>5. ASSUME NEW q \in Page, NEW c \in Container, Open(q, s, c) PROVE Told(s)'
    <2>1. /\ wire[s] = <<>> /\ wire' = wire /\ page'[q].live = <<>> /\ sock[s].at = "unused"
          /\ \A p \in Page : p # q => page'[p] = page[p]
      BY <1>5, OpenFacts
    <2>2. ASSUME NEW p \in Page, page[p].ws = s PROVE FALSE
      <3>1. page[p].ws # None
        BY <2>2, NoneAssumption
      <3> QED BY <2>1, <2>2, <3>1, OwnSocket
    <2>3. \A p \in Page : page'[p].ws = s => page'[p].live = <<>>
      BY <2>1, <2>2
    <2> QED BY <1>4, <2>1, <2>3
  <1>6. CASE sock'[s].at = "unused"
    <2>1. wire'[s] = <<>>
      BY <1>2, <1>6 DEF Consistent, SockOK
    <2>2. ASSUME NEW p \in Page, page'[p].ws = s PROVE FALSE
      <3>1. sock'[s].owner = p /\ sock'[s] = Unused
        <4>1. PageOK(p)' /\ SockOK(s)' /\ s # None
          BY <1>2, NoneAssumption DEF Consistent
        <4> QED BY <1>6, <2>2, <4>1 DEF PageOK, SockOK
      <3>2. p = None
        BY <3>1 DEF Unused
      <3> QED BY <3>2, NoneAssumption
    <2> QED BY <1>4, <2>1, <2>2
  <1>7. CASE /\ sock[s].at # "unused"
             /\ sock'[s].owner = sock[s].owner /\ sock'[s].where = sock[s].where
    <2>1. sock[s].where \in Container /\ (OfChat(s)' <=> OfChat(s))
      BY <1>3, <1>7 DEF SockOK, OfChat
    <2>2. OfChat(s) => NextMessages(s)' \subseteq NextMessages(s)
      BY <1>7, <2>1, MessagesLess
    <2>3. NextNotices(s)' \subseteq NextNotices(s)
      BY <1>7, <2>1, NoticesLess
    <2>4. TRUE \in BOOLEAN /\ FALSE \in BOOLEAN
      OBVIOUS
    <2>5. ASSUME NEW p \in Page, Arrive(p), page[p].ws = s PROVE Told(s)'
      <3>1. /\ OfChat(s) <=> p \in Chatter
            /\ \A q \in Page : page[q].ws = s => q = p
        BY <2>5, NoneAssumption, OwnSocket
      <3>2. OnScreen(s) = ToSet(page[p].live)
        BY <2>5, <3>1 DEF OnScreen
      <3>3. OnScreen(s)' \subseteq ToSet(page'[p].live)
        <4>1. page[p].ws # None
          BY <2>5, NoneAssumption
        <4>2. sock[s].owner = p /\ s # None
          BY <2>5, <4>1, OwnSocket
        <4>3. \A q \in Page : page'[q].ws = s => q = p
          BY <1>2, <1>7, <4>2 DEF Consistent, PageOK
        <4> QED BY <4>3 DEF OnScreen
      <3>4. PageInOrder(p)
        OBVIOUS
      <3>5. ASSUME OfChat(s) PROVE Line(TRUE, OnScreen(s)', wire'[s], NextMessages(s)')
        <4>1. Line(TRUE, ToSet(page[p].live), wire[s], NextMessages(s)) /\ Rising(TRUE, page[p].live)
          BY <1>3, <3>1, <3>2, <3>4, <3>5 DEF Told, PageInOrder
        <4>2. Line(TRUE, ToSet(page'[p].live), wire'[s], NextMessages(s))
          BY <2>4, <2>5, <3>4, <4>1, ArriveLine DEF PageInOrder
        <4> QED BY <2>2, <2>4, <3>3, <3>5, <4>2, LineLess
      <3>6. ASSUME ~OfChat(s) PROVE Line(FALSE, OnScreen(s)', wire'[s], NextNotices(s)')
        <4>1. Line(FALSE, ToSet(page[p].live), wire[s], NextNotices(s)) /\ Rising(FALSE, page[p].live)
          BY <1>3, <3>1, <3>2, <3>4, <3>6 DEF Told, PageInOrder
        <4>2. Line(FALSE, ToSet(page'[p].live), wire'[s], NextNotices(s))
          BY <2>4, <2>5, <3>4, <4>1, ArriveLine DEF PageInOrder
        <4> QED BY <2>3, <2>4, <3>3, <4>2, LineLess
      <3> QED BY <1>1, <2>1, <3>5, <3>6 DEF Told
    <2>6. ASSUME \A p \in Page : ~(Arrive(p) /\ page[p].ws = s) PROVE OnScreen(s)' \subseteq OnScreen(s)
      BY <2>6, OnScreenLess
    <2>7. ASSUME \A p \in Page : ~(Arrive(p) /\ page[p].ws = s), Quietly(s) PROVE Told(s)'
      <3>1. ASSUME OfChat(s) PROVE Line(TRUE, OnScreen(s)', wire'[s], NextMessages(s)')
        <4>1. Line(TRUE, OnScreen(s), wire[s], NextMessages(s))
          BY <1>3, <3>1 DEF Told
        <4> QED BY <2>2, <2>4, <2>6, <2>7, <3>1, <4>1, QuietLine
      <3>2. ASSUME ~OfChat(s) PROVE Line(FALSE, OnScreen(s)', wire'[s], NextNotices(s)')
        <4>1. Line(FALSE, OnScreen(s), wire[s], NextNotices(s))
          BY <1>3, <3>2 DEF Told
        <4> QED BY <2>3, <2>4, <2>6, <2>7, <4>1, QuietLine
      <3> QED BY <1>1, <2>1, <3>1, <3>2 DEF Told
    <2>8. ASSUME NEW c \in Container, s \in telling[c].left \union batch[c].left,
                 SendMessage(c, s) \/ SendNotice(c, s)
          PROVE  Told(s)'
      <3>1. OnScreen(s)' = OnScreen(s)
        BY <2>8 DEF SendMessage, SendNotice, OnScreen
      <3>2. CASE SendMessage(c, s)
        <4>1. s \in telling[c].left /\ FeedInOrder(c)
          BY <3>2 DEF SendMessage
        <4>2. OfChat(s)
          BY <4>1 DEF Consistent, ContainerOK
        <4>3. Line(TRUE, OnScreen(s), wire[s], NextMessages(s))
          BY <1>3, <4>2 DEF Told
        <4>4. Line(TRUE, OnScreen(s), wire'[s], NextMessages(s)')
          BY <3>2, <4>1, <4>3, SendMessageLine
        <4> QED BY <1>1, <2>1, <3>1, <4>2, <4>4 DEF Told
      <3>3. CASE SendNotice(c, s)
        <4>1. s \in batch[c].left
          BY <3>3 DEF SendNotice
        <4>2. ~OfChat(s)
          BY <4>1 DEF Consistent, ContainerOK
        <4>3. Line(FALSE, OnScreen(s), wire[s], NextNotices(s))
          BY <1>3, <4>2 DEF Told
        <4>4. Line(FALSE, OnScreen(s), wire'[s], NextNotices(s)')
          BY <3>3, <4>1, <4>3, SendNoticeLine
        <4> QED BY <1>1, <2>1, <3>1, <4>2, <4>4 DEF Told
      <3> QED BY <2>8, <3>2, <3>3
    <2>9. \A x \in Socket : sock[x].at = "read" => Rising(TRUE, sock[x].got)
      BY DEF Told
    <2> QED BY <2>5, <2>7, <2>8, <2>9, WireKinds
  <1> QED BY <1>5, <1>6, <1>7, Stays

LEMMA PageStep ==
    ASSUME Consistent, [Next]_vars, NEW p \in Page, PageInOrder(p), \A s \in Socket : Told(s)
    PROVE  PageInOrder(p)'
  <1>1. CASE page'[p].live = page[p].live /\ page'[p].read = page[p].read
    BY <1>1 DEF PageInOrder
  <1>2. CASE page'[p].live = <<>> /\ page'[p].read = <<>>
    BY <1>2, RisingEmpty DEF PageInOrder
  <1>3. CASE Arrive(p)
    <2>1. page[p].ws # None
      BY <1>3 DEF Arrive
    <2>2. PICK s \in Socket : page[p].ws = s
      BY <2>1, OwnSocket
    <2>3. /\ OfChat(s) <=> p \in Chatter
          /\ \A q \in Page : page[q].ws = s => q = p
      BY <2>1, <2>2, OwnSocket
    <2>4. OnScreen(s) = ToSet(page[p].live)
      BY <2>2, <2>3 DEF OnScreen
    <2>5. TRUE \in BOOLEAN /\ FALSE \in BOOLEAN /\ Told(s)
      OBVIOUS
    <2>6. CASE p \in Chatter
      <3>1. /\ Line(TRUE, ToSet(page[p].live), wire[s], NextMessages(s)) /\ Rising(TRUE, page[p].live)
            /\ Rising(TRUE, page[p].read)
        BY <2>3, <2>4, <2>5, <2>6 DEF Told, PageInOrder
      <3>2. Rising(TRUE, page'[p].live) /\ Rising(TRUE, page'[p].read)
        BY <1>3, <2>2, <2>5, <3>1, ArriveLine
      <3> QED BY <2>6, <3>2 DEF PageInOrder
    <2>7. CASE p \notin Chatter
      <3>1. /\ Line(FALSE, ToSet(page[p].live), wire[s], NextNotices(s)) /\ Rising(FALSE, page[p].live)
            /\ Rising(TRUE, page[p].read)
        BY <2>3, <2>4, <2>5, <2>7 DEF Told, PageInOrder
      <3>2. Rising(FALSE, page'[p].live) /\ Rising(TRUE, page'[p].read)
        BY <1>3, <2>2, <2>5, <3>1, ArriveLine
      <3> QED BY <2>7, <3>2 DEF PageInOrder
    <2> QED BY <2>6, <2>7
  <1> QED BY <1>1, <1>2, <1>3, PageKinds

\* The order at every place a message or a notice passes through.
Ordered ==
    /\ HistoryInOrder /\ NoticesInOrder
    /\ \A s \in Socket : Spoken(s) /\ Told(s)
    /\ \A c \in Container : FeedInOrder(c)
    /\ \A p \in Page : PageInOrder(p)

LEMMA InitOrdered == Init => Ordered
  <1> SUFFICES ASSUME Init PROVE Ordered
    OBVIOUS
  <1>1. /\ NewPage.ws = None /\ NewPage.live = <<>> /\ NewPage.read = <<>>
        /\ Unused.at = "unused" /\ NoTale.body = <<>>
    BY DEF NewPage, Unused, NoTale
  <1>2. HistoryInOrder
    BY EmptySet, RisingEmpty DEF Init, HistoryInOrder, Earlier
  <1>3. NoticesInOrder
    BY <1>1, EmptySet, RisingEmpty DEF Init, NoticesInOrder, Earlier
  <1>4. ASSUME NEW c \in Container PROVE FeedInOrder(c)
    BY <1>1, EmptySet, RisingEmpty DEF Init, FeedInOrder, Earlier
  <1>5. ASSUME NEW p \in Page PROVE PageInOrder(p)
    BY <1>1, RisingEmpty DEF Init, PageInOrder
  <1>6. ASSUME NEW s \in Socket PROVE Spoken(s)
    BY <1>1, EmptySet, RisingEmpty DEF Init, Spoken, Earlier
  <1>7. ASSUME NEW s \in Socket PROVE Told(s)
    <2>1. OnScreen(s) = {}
      BY <1>1, NoneAssumption DEF Init, OnScreen
    <2>2. wire[s] = <<>> /\ sock[s].at = "unused"
      BY <1>1 DEF Init
    <2> QED BY <2>1, <2>2, BlankLine DEF Told
  <1> QED BY <1>2, <1>3, <1>4, <1>5, <1>6, <1>7 DEF Ordered

LEMMA OrderedStep == Consistent /\ Ordered /\ [Next]_vars => Ordered'
  <1> SUFFICES ASSUME Consistent, Ordered, [Next]_vars PROVE Ordered'
    OBVIOUS
  <1>1. /\ HistoryInOrder /\ NoticesInOrder
        /\ \A s \in Socket : Spoken(s) /\ Told(s)
        /\ \A c \in Container : FeedInOrder(c)
        /\ \A p \in Page : PageInOrder(p)
    BY DEF Ordered
  <1>2. \A s \in Socket : Spoken(s)'
    BY <1>1, SpokenStep
  <1>3. HistoryInOrder'
    BY <1>1, <1>2, HistoryStep
  <1>4. NoticesInOrder'
    BY <1>1, NoticesStep
  <1>5. \A s \in Socket : Told(s)'
    BY <1>1, ToldStep
  <1>6. \A c \in Container : FeedInOrder(c)'
    BY <1>1, FeedStep
  <1>7. \A p \in Page : PageInOrder(p)'
    BY <1>1, PageStep
  <1> QED BY <1>2, <1>3, <1>4, <1>5, <1>6, <1>7 DEF Ordered

LEMMA AlwaysOrdered == Spec => []Ordered
  BY AlwaysConsistent, InitOrdered, OrderedStep, PTL DEF Spec

LEMMA OrderedTold == Ordered => ToldInOrder
  <1> SUFFICES ASSUME Ordered PROVE ToldInOrder
    OBVIOUS
  <1>1. ASSUME NEW p \in Chatter
        PROVE  Rising(TRUE, page[p].read) /\ Rising(TRUE, page[p].live)
    BY DEF Ordered, PageInOrder, Page
  <1>2. ASSUME NEW p \in Viewer PROVE Rising(FALSE, page[p].live)
    BY PageAssumption DEF Ordered, PageInOrder, Page
  <1> QED BY <1>1, <1>2 DEF ToldInOrder, InOrder, Rising

\* However containers restart, connections break and listeners fail, no page
\* is told a message or a notice twice, or after one that came later.
THEOREM NeverOutOfOrder == Spec => []ToldInOrder
  BY AlwaysOrdered, OrderedTold, PTL

-----------------------------------------------------------------------------
(* What a page will show when it has worked off its wire.                  *)

Lasting(q, j) == \A i \in DOMAIN q : q[i].kind = "history" => i <= j

\* Message m is among R, what is shown now, or in a frame of q, and no history
\* comes after it.
Shows(R, q, m) ==
    \/ m \in R /\ Lasting(q, 0)
    \/ \E j \in DOMAIN q : /\ q[j].kind \in {"history", "message"} /\ m \in ToSet(q[j].body)
                           /\ Lasting(q, j)

LEMMA ShowsAppend ==
    ASSUME NEW S, NEW q \in Seq(S), NEW f \in S, f.kind # "history", NEW R, NEW m, Shows(R, q, m)
    PROVE  Shows(R, Append(q, f), m)
  <1> DEFINE t == Append(q, f)
  <1>1. /\ Len(q) \in Nat /\ DOMAIN q = 1..Len(q) /\ DOMAIN t = 1..(Len(q) + 1)
        /\ \A i \in 1..Len(q) : t[i] = q[i]
        /\ t[Len(q) + 1] = f
    BY AppendProperties
  <1> HIDE DEF t
  <1>2. \A i \in DOMAIN t : i \in DOMAIN q \/ i = Len(q) + 1
    BY <1>1
  <1>3. ASSUME NEW j, Lasting(q, j) PROVE Lasting(t, j)
    BY <1>1, <1>2, <1>3 DEF Lasting
  <1>4. CASE m \in R /\ Lasting(q, 0)
    <2>1. Shows(R, t, m)
      BY <1>3, <1>4 DEF Shows
    <2> QED BY <2>1 DEF t
  <1>5. ASSUME NEW j \in DOMAIN q, q[j].kind \in {"history", "message"}, m \in ToSet(q[j].body),
               Lasting(q, j)
        PROVE  Shows(R, t, m)
    <2>1. j \in DOMAIN t /\ t[j] = q[j] /\ Lasting(t, j)
      BY <1>1, <1>3, <1>5
    <2> QED BY <1>5, <2>1 DEF Shows
  <1> QED BY <1>4, <1>5 DEF Shows, t

LEMMA ShowsNew ==
    ASSUME NEW S, NEW q \in Seq(S), NEW f \in S, f.kind \in {"history", "message"}, NEW R,
           NEW m \in ToSet(f.body)
    PROVE  Shows(R, Append(q, f), m)
  <1> DEFINE t == Append(q, f)
             n == Len(q) + 1
  <1>1. Len(q) \in Nat /\ DOMAIN t = 1..n /\ t[n] = f
    BY AppendProperties
  <1> HIDE DEF t
  <1>2. n \in DOMAIN t /\ Lasting(t, n)
    BY <1>1 DEF Lasting
  <1>3. Shows(R, t, m)
    BY <1>1, <1>2 DEF Shows
  <1> QED BY <1>3 DEF t

\* The first frame has arrived, and Q is shown.
LEMMA ShowsTail ==
    ASSUME NEW S, NEW q \in Seq(S), q # <<>>, NEW R, NEW m, Shows(R, q, m), NEW Q,
           Head(q).kind # "history" => R \subseteq Q,
           Head(q).kind \in {"history", "message"} => ToSet(Head(q).body) \subseteq Q
    PROVE  Shows(Q, Tail(q), m)
  <1> DEFINE t == Tail(q)
  <1>1. /\ Len(q) \in Nat \ {0} /\ DOMAIN q = 1..Len(q) /\ DOMAIN t = 1..(Len(q) - 1)
        /\ \A i \in 1..(Len(q) - 1) : t[i] = q[i + 1]
        /\ Head(q) = q[1]
    OBVIOUS
  <1> HIDE DEF t
  <1>2. \A i \in DOMAIN t : i \in Nat \ {0} /\ i + 1 \in DOMAIN q /\ t[i] = q[i + 1]
    BY <1>1
  <1>3. ASSUME NEW j \in Nat, Lasting(q, j + 1) PROVE Lasting(t, j)
    <2> SUFFICES ASSUME NEW i \in DOMAIN t, t[i].kind = "history" PROVE i <= j
      BY DEF Lasting
    <2>1. i + 1 <= j + 1 /\ i \in Nat
      BY <1>2, <1>3 DEF Lasting
    <2> QED BY <2>1
  <1>4. CASE m \in R /\ Lasting(q, 0)
    <2>1. \A i \in DOMAIN q : q[i].kind # "history"
      BY <1>1, <1>4 DEF Lasting
    <2>2. q[1].kind # "history"
      BY <1>1, <2>1
    <2>3. Lasting(t, 0)
      BY <1>2, <2>1 DEF Lasting
    <2>4. Shows(Q, t, m)
      BY <1>1, <1>4, <2>2, <2>3 DEF Shows
    <2> QED BY <2>4 DEF t
  <1>5. ASSUME NEW j \in DOMAIN q, q[j].kind \in {"history", "message"}, m \in ToSet(q[j].body),
               Lasting(q, j)
        PROVE  Shows(Q, t, m)
    <2>1. CASE j = 1
      <3>1. m \in Q
        BY <1>1, <1>5, <2>1
      <3>2. Lasting(q, 0 + 1)
        BY <1>5, <2>1
      <3>3. Lasting(t, 0)
        BY <1>3, <3>2
      <3> QED BY <3>1, <3>3 DEF Shows
    <2>2. CASE j # 1
      <3> DEFINE i == j - 1
      <3>1. i \in DOMAIN t /\ i + 1 = j /\ i \in Nat
        BY <1>1, <2>2
      <3> HIDE DEF i
      <3>2. t[i] = q[j]
        BY <1>2, <3>1
      <3>3. Lasting(t, i)
        BY <1>3, <1>5, <3>1
      <3> QED BY <1>5, <3>1, <3>2, <3>3 DEF Shows
    <2> QED BY <2>1, <2>2
  <1> QED BY <1>4, <1>5 DEF Shows, t

\* Nothing happens to the wire of s, but that a frame is added while the
\* connection is there; a history only by its handler.
Extended(s) ==
    /\ sock'[s].gone <=> sock[s].gone
    /\ \/ wire'[s] = wire[s]
       \/ /\ ~sock[s].gone
          /\ \E f \in FrameOf(s) : /\ wire'[s] = Append(wire[s], f)
                                   /\ f.kind = "history" => SendHistory(s)

LEMMA ToBrowserExtends ==
    ASSUME Consistent, NEW s \in Socket, NEW t \in Socket, NEW f \in FrameOf(t), ToBrowser(t, f),
           sock'[s].gone <=> sock[s].gone, t = s /\ f.kind = "history" => SendHistory(s)
    PROVE  Extended(s)
  <1>1. /\ wire'[t] = IF sock[t].gone THEN wire[t] ELSE Append(wire[t], f)
        /\ \A x \in Socket : x # t => wire'[x] = wire[x]
    BY ToBrowserFacts
  <1>2. CASE s = t
    BY <1>1, <1>2 DEF Extended
  <1>3. CASE s # t
    BY <1>1, <1>3 DEF Extended
  <1> QED BY <1>2, <1>3

LEMMA FrameKinds ==
    ASSUME Consistent, [Next]_vars, NEW s \in Socket
    PROVE  \/ Extended(s)
           \/ Cut(s)
           \/ \E p \in Page, c \in Container : Open(p, s, c)
           \/ \E p \in Page : page[p].ws = s /\ (Leave(p) \/ Arrive(p))
  <1>1. /\ wire \in [Socket -> Seq(AnyFrame)] /\ sock \in [Socket -> Connection] /\ Used \subseteq Socket
        /\ \A x \in Socket : SockOK(x)
    BY DEF Consistent, Types, Used
  <1>2. sock' = sock /\ wire' = wire => Extended(s)
    BY DEF Extended
  <1>3. ASSUME NEW t, NEW a, NEW g, sock' = [sock EXCEPT ![t].at = a, ![t].got = g]
        PROVE  sock'[s].gone <=> sock[s].gone
    BY <1>1, <1>3 DEF Connection
  <1>4. ASSUME NEW t \in Used, Refuse(t) \/ HandlerFails(t) \/ Disconnected(t) PROVE Extended(s)
    <2> DEFINE f == Frame("close", <<>>)
    <2>1. /\ ToBrowser(t, f) /\ t \in Socket
          /\ sock' = [sock EXCEPT ![t].at = "over", ![t].got = <<>>]
      BY <1>1, <1>4 DEF Refuse, HandlerFails, Disconnected, End
    <2>2. f \in FrameOf(t) /\ f.kind # "history"
      BY FrameFacts DEF Frame
    <2> HIDE DEF f
    <2>3. sock'[s].gone <=> sock[s].gone
      BY <1>3, <2>1
    <2> QED BY <2>1, <2>2, <2>3, ToBrowserExtends
  <1>5. ASSUME NEW t \in Used, Accept(t) PROVE Extended(s)
    <2> DEFINE f == Frame("open", <<>>)
    <2>1. /\ ToBrowser(t, f) /\ t \in Socket
          /\ sock' = [sock EXCEPT ![t].at = IF OfChat(t) THEN "joined" ELSE "idle"]
      BY <1>1, <1>5 DEF Accept
    <2>2. f \in FrameOf(t) /\ f.kind # "history"
      BY FrameFacts DEF Frame
    <2> HIDE DEF f
    <2>3. sock'[s].gone <=> sock[s].gone
      BY <1>1, <2>1 DEF Connection
    <2> QED BY <2>1, <2>2, <2>3, ToBrowserExtends
  <1>6. ASSUME NEW t \in Used, SendHistory(t) PROVE Extended(s)
    <2> DEFINE f == Frame("history", sock[t].got)
    <2>1. /\ ToBrowser(t, f) /\ t \in Socket /\ sock[t].at = "read" /\ sock[t].got \in Seq(Message)
          /\ sock' = [sock EXCEPT ![t].at = "idle", ![t].got = <<>>]
      BY <1>1, <1>6 DEF SendHistory, Connection
    <2>2. f \in FrameOf(t)
      BY <1>1, <2>1, FrameFacts DEF SockOK, FrameOf
    <2> HIDE DEF f
    <2>3. sock'[s].gone <=> sock[s].gone
      BY <1>3, <2>1
    <2> QED BY <1>6, <2>1, <2>2, <2>3, ToBrowserExtends
  <1>7. ASSUME NEW t \in Used, ReadHistory(t) \/ Store(t) \/ Publish(t) PROVE Extended(s)
    <2>1. wire' = wire /\ \E a, g : sock' = [sock EXCEPT ![t].at = a, ![t].got = g]
      BY <1>7 DEF ReadHistory, Store, Publish
    <2>2. sock'[s].gone <=> sock[s].gone
      BY <1>3, <2>1
    <2> QED BY <2>1, <2>2 DEF Extended
  <1>8. ASSUME NEW t \in Used, t # s, Cut(t) PROVE Extended(s)
    <2>1. /\ sock' = [sock EXCEPT ![t].gone = TRUE]
          /\ \E w : wire' = [wire EXCEPT ![t] = w]
      BY <1>8 DEF Cut
    <2> QED BY <1>1, <1>8, <2>1 DEF Extended
  <1>9. ASSUME NEW p \in Page, page[p].ws # s, Leave(p) PROVE Extended(s)
    <2>1. /\ sock' = [sock EXCEPT ![page[p].ws].gone = TRUE]
          /\ wire' = [wire EXCEPT ![page[p].ws] = <<>>]
      BY <1>9 DEF Leave
    <2> QED BY <1>1, <1>9, <2>1 DEF Extended
  <1>10. ASSUME NEW p \in Page, page[p].ws # s, Arrive(p) PROVE Extended(s)
    <2>1. sock' = sock /\ wire' = [wire EXCEPT ![page[p].ws] = Tail(@)]
      BY <1>10 DEF Arrive
    <2> QED BY <1>1, <1>10, <2>1 DEF Extended
  <1>11. ASSUME NEW p \in Page, NEW t \in Socket, t # s, NEW c \in Container, Open(p, t, c)
         PROVE  Extended(s)
    BY <1>11, OpenFacts DEF Extended
  <1>12. ASSUME NEW c \in Container, Restart(c) PROVE Extended(s)
    <2> DEFINE here == {x \in Used : sock[x].where = c /\ sock[x].at # "over"}
               k == [sock[s] EXCEPT !.at = "over", !.got = <<>>]
               f == Frame("close", <<>>)
    <2>1. /\ sock' = [x \in Socket |-> IF x \in here THEN [sock[x] EXCEPT !.at = "over", !.got = <<>>]
                                       ELSE sock[x]]
          /\ wire' = [x \in Socket |-> IF x \in here /\ ~sock[x].gone
                                       THEN Append(wire[x], f) ELSE wire[x]]
      BY <1>12 DEF Restart
    <2>2. sock[s] \in Connection
      BY <1>1
    <2>3. k.gone <=> sock[s].gone
      BY <2>2 DEF Connection
    <2>4. f \in FrameOf(s) /\ f.kind # "history"
      BY FrameFacts DEF Frame
    <2> HIDE DEF f, here
    <2>5. sock'[s] \in {k, sock[s]}
      BY <2>1
    <2>6. wire'[s] = wire[s] \/ (~sock[s].gone /\ wire'[s] = Append(wire[s], f))
      BY <2>1
    <2> HIDE DEF k
    <2> QED BY <2>3, <2>4, <2>5, <2>6 DEF Extended
  <1>13. ASSUME NEW c \in Container, NEW t \in Socket, SendMessage(c, t), t \in telling[c].left
         PROVE  Extended(s)
    <2> DEFINE f == Frame("message", telling[c].body)
    <2>1. sock' = sock /\ (wire' = wire \/ ToBrowser(t, f))
      BY <1>13 DEF SendMessage, SendTo
    <2>2. OfChat(t) /\ telling[c].body \in Seq(Message)
      BY <1>13 DEF Consistent, Types, ContainerOK
    <2>3. f \in FrameOf(t) /\ f.kind # "history"
      BY <2>2, FrameFacts DEF Frame, FrameOf
    <2> HIDE DEF f
    <2> QED BY <1>2, <2>1, <2>3, ToBrowserExtends
  <1>14. ASSUME NEW c \in Container, NEW t \in Socket, SendNotice(c, t), t \in batch[c].left
         PROVE  Extended(s)
    <2> DEFINE b == <<Head(batch[c].body)>>
               f == Frame("notice", b)
    <2>1. sock' = sock /\ (wire' = wire \/ ToBrowser(t, f))
      BY <1>14 DEF SendNotice, SendTo
    <2>2. /\ ~OfChat(t) /\ batch[c].body # <<>> /\ batch[c].body \in Seq(Notice)
      BY <1>14 DEF Consistent, Types, ContainerOK
    <2>3. b \in Seq(Notice)
      BY <2>2, TailSet, SingleSet
    <2> HIDE DEF b
    <2>4. f \in FrameOf(t) /\ f.kind # "history"
      BY <2>2, <2>3, FrameFacts DEF Frame, FrameOf
    <2> HIDE DEF f
    <2> QED BY <1>2, <2>1, <2>4, ToBrowserExtends
  <1>15. ASSUME NEW p, Say(p) \/ \E ok : Notify(p, ok) PROVE Extended(s)
    BY <1>2, <1>15 DEF Say, Notify
  <1>16. ASSUME NEW c, \/ TakeMessage(c) \/ LoseFeed(c) \/ Resubscribe(c) \/ TakeNotices(c)
                       \/ NextNotice(c) \/ ListenerFails(c)
         PROVE  Extended(s)
    BY <1>2, <1>16 DEF TakeMessage, LoseFeed, Resubscribe, TakeNotices, NextNotice, ListenerFails
  <1>17. UNCHANGED vars => Extended(s)
    BY <1>2 DEF vars
  <1>18. \A c \in Container : telling[c].left \subseteq Socket /\ batch[c].left \subseteq Socket
    BY DEF Consistent, Types
  <1>19. CASE \E p \in Page : UserStep(p)
    BY <1>9, <1>11, <1>15, <1>19 DEF UserStep
  <1>20. CASE SystemStep
    BY <1>4, <1>5, <1>6, <1>7, <1>10, <1>13, <1>14, <1>16, <1>18, <1>20 DEF SystemStep
  <1>21. CASE FaultStep
    BY <1>4, <1>8, <1>12, <1>16, <1>21 DEF FaultStep
  <1> QED BY <1>17, <1>19, <1>20, <1>21 DEF Next

LEMMA ArriveFacts ==
    ASSUME Consistent, NEW p \in Page, Arrive(p)
    PROVE  \E s \in Socket, f \in FrameFor(p) :
             /\ page[p].ws = s /\ wire[s] # <<>> /\ f = Head(wire[s])
             /\ wire'[s] = Tail(wire[s]) /\ page'[p] = Shown(p, f) /\ page'[p].ws = s
             /\ sock' = sock /\ history' = history
  <1> DEFINE t == page[p].ws
             f == Head(wire[t])
             y == Shown(p, f)
  <1>1. /\ t # None /\ wire[t] # <<>> /\ page' = [page EXCEPT ![p] = y]
        /\ wire' = [wire EXCEPT ![t] = Tail(@)] /\ sock' = sock /\ history' = history
    BY DEF Arrive, chatVars
  <1>2. t \in Socket /\ (OfChat(t) <=> p \in Chatter) /\ SockOK(t)
    BY <1>1, OwnSocket DEF Consistent
  <1>3. f \in FrameFor(p)
    BY <1>1, <1>2, TailSet DEF SockOK, FrameOf, FrameFor
  <1> HIDE DEF f
  <1>4. y.ws = page[p].ws
    BY <1>3, ShownFacts
  <1> HIDE DEF y
  <1>5. page'[p] = y /\ wire'[t] = Tail(wire[t])
    BY <1>1, <1>2 DEF Consistent, Types
  <1> QED BY <1>1, <1>2, <1>3, <1>4, <1>5 DEF f, y

\* A page whose connection has gone knows, or will when it has worked off its
\* wire.
GoneOK(p) ==
    LET s == page[p].ws IN
    s # None /\ sock[s].gone =>
        IF wire[s] = <<>> THEN page[p].at = "down" ELSE wire[s][Len(wire[s])].kind = "close"

LEMMA GoneStep ==
    ASSUME Consistent, [Next]_vars, NEW p \in Page, GoneOK(p)
    PROVE  GoneOK(p)'
  <1> SUFFICES ASSUME NEW s \in Socket, page'[p].ws = s, sock'[s].gone
               PROVE  IF wire'[s] = <<>> THEN page'[p].at = "down" ELSE wire'[s][Len(wire'[s])].kind = "close"
    <2>1. page'[p].ws # None => page'[p].ws \in Socket
      <3>1. Consistent'
        BY ConsistentStep
      <3>2. page' \in [Page -> Screen]
        BY <3>1 DEF Consistent, Types
      <3> QED BY <3>2 DEF Screen
    <2> QED BY <2>1 DEF GoneOK
  <1>1. /\ wire[s] \in Seq(FrameOf(s)) /\ wire \in [Socket -> Seq(AnyFrame)] /\ page \in [Page -> Screen]
        /\ sock \in [Socket -> Connection] /\ s # None
    BY NoneAssumption DEF Consistent, Types, SockOK
  <1>2. ASSUME NEW c \in Container, NEW q \in Page, Open(q, s, c) PROVE FALSE
    BY <1>2, OpenFacts
  <1>3. page[p].ws = s
    <2>1. CASE page'[p].ws = page[p].ws
      BY <2>1
    <2>2. CASE page'[p].ws = None \/ \E x \in Socket, c \in Container : Open(p, x, c)
      BY <1>1, <1>2, <2>2, OpenFacts
    <2>3. CASE Arrive(p)
      BY <2>3, ArriveFacts
    <2> QED BY <2>1, <2>2, <2>3, PageKinds
  <1>4. sock[s].gone => IF wire[s] = <<>> THEN page[p].at = "down" ELSE wire[s][Len(wire[s])].kind = "close"
    BY <1>1, <1>3 DEF GoneOK
  <1>5. CASE Cut(s)
    <2> DEFINE f == Frame("close", <<>>)
    <2>1. PICK k \in 0..Len(wire[s]) : wire' = [wire EXCEPT ![s] = Append(SubSeq(@, 1, k), f)]
      BY <1>5 DEF Cut
    <2>2. f \in FrameOf(s) /\ f.kind = "close"
      BY FrameFacts DEF Frame
    <2> HIDE DEF f
    <2> DEFINE q == SubSeq(wire[s], 1, k)
    <2>3. q \in Seq(FrameOf(s))
      BY <1>1
    <2>4. wire'[s] = Append(q, f)
      BY <1>1, <2>1
    <2> HIDE DEF q
    <2>5. Append(q, f) # <<>> /\ Append(q, f)[Len(Append(q, f))] = f
      BY <2>2, <2>3
    <2> QED BY <2>2, <2>4, <2>5
  <1>6. ASSUME Extended(s), page'[p].at = page[p].at
        PROVE  IF wire'[s] = <<>> THEN page'[p].at = "down" ELSE wire'[s][Len(wire'[s])].kind = "close"
    <2>1. sock[s].gone /\ wire'[s] = wire[s]
      BY <1>6 DEF Extended
    <2> QED BY <1>4, <1>6, <2>1
  <1>7. CASE Arrive(p)
    <2> DEFINE w == wire[s]
    <2>1. PICK f \in FrameFor(p) :
            w # <<>> /\ f = Head(w) /\ wire'[s] = Tail(w) /\ page'[p] = Shown(p, f) /\ sock' = sock
      BY <1>3, <1>7, ArriveFacts
    <2>2. f.kind = "close" => page'[p].at = "down"
      BY <2>1, ShownFacts, ZenonT(60)
    <2>3. w[Len(w)].kind = "close"
      BY <1>4, <2>1
    <2>4. IF Tail(w) = <<>> THEN f = w[Len(w)] ELSE Tail(w)[Len(Tail(w))] = w[Len(w)]
      BY <1>1, <2>1, TailLast
    <2> QED BY <2>1, <2>2, <2>3, <2>4
  <1>8. ~Leave(p)
    <2>1. Leave(p) => page'[p].ws = None
      BY <1>1, BlankPage DEF Leave
    <2> QED BY <1>1, <2>1
  <1>9. \A q \in Page : page[q].ws = s => q = p
    BY <1>1, <1>3, OwnSocket
  <1>10. page'[p].at = page[p].at \/ Arrive(p)
    BY <1>1, <1>2, <1>3, PageKinds, OpenFacts, NoneAssumption
  <1> QED BY <1>2, <1>5, <1>6, <1>7, <1>8, <1>9, <1>10, FrameKinds

-----------------------------------------------------------------------------
(* What a page does not show, and why.                                     *)

\* A connection that is or will be up to date.
Following(s) == sock[s].at \in {"read", "idle", "publishing"} /\ ~sock[s].gone

\* What a connection is still to be sent, or has missed for a reason.
Covered(s) == Coming(s) \union missed[s] \union unheard

LEMMA ReasonsKept ==
    ASSUME Consistent, [Next]_vars, NEW s \in Socket
    PROVE  missed[s] \subseteq missed'[s] /\ unheard \subseteq unheard'
  <1> DEFINE Grown == missed[s] \subseteq missed'[s] /\ unheard \subseteq unheard'
  <1>1. missed \in [Socket -> SUBSET Message]
    BY DEF Consistent, Types
  <1>2. missed' = missed /\ unheard' = unheard => Grown
    OBVIOUS
  <1>3. ASSUME NEW C, NEW M, missed' = MissedAt(C, M), unheard' = unheard PROVE Grown
    BY <1>1, <1>3 DEF MissedAt
  <1>4. ASSUME NEW t, Publish(t) PROVE Grown
    BY <1>3, <1>4 DEF Publish
  <1>5. ASSUME NEW c, LoseFeed(c) PROVE Grown
    BY <1>3, <1>5 DEF LoseFeed
  <1>6. ASSUME NEW c, NEW t, SendMessage(c, t) PROVE Grown
    <2>1. PICK M : missed' = [missed EXCEPT ![t] = @ \union M]
      BY <1>6 DEF SendMessage
    <2> QED BY <1>1, <1>6, <2>1 DEF SendMessage
  <1>7. ASSUME NEW t, HandlerFails(t) PROVE Grown
    BY <1>7 DEF HandlerFails
  <1>8. ASSUME NEW c, Restart(c) PROVE Grown
    BY <1>8 DEF Restart
  <1>9. ASSUME NEW p, UserStep(p) \/ Arrive(p) PROVE Grown
    BY <1>2, <1>9 DEF UserStep, Leave, Say, Open, Notify, Arrive, chatVars
  <1>10. ASSUME NEW t, \/ Accept(t) \/ ReadHistory(t) \/ SendHistory(t) \/ Store(t) \/ Disconnected(t)
                       \/ Refuse(t) \/ Cut(t)
         PROVE  Grown
    BY <1>2, <1>10 DEF Accept, ReadHistory, SendHistory, Store, Disconnected, Refuse, Cut, chatVars
  <1>11. ASSUME NEW c, \/ TakeMessage(c) \/ Resubscribe(c) \/ TakeNotices(c) \/ NextNotice(c)
                       \/ ListenerFails(c) \/ \E t : SendNotice(c, t)
         PROVE  Grown
    BY <1>2, <1>11 DEF TakeMessage, Resubscribe, TakeNotices, NextNotice, ListenerFails, SendNotice,
                       chatVars
  <1>12. UNCHANGED vars => Grown
    BY <1>2 DEF vars, chatVars
  <1> HIDE DEF Grown
  <1>13. CASE SystemStep
    BY <1>4, <1>6, <1>9, <1>10, <1>11, <1>13 DEF SystemStep, Grown
  <1>14. CASE FaultStep
    BY <1>5, <1>7, <1>8, <1>10, <1>11, <1>14 DEF FaultStep, Grown
  <1> QED BY <1>9, <1>12, <1>13, <1>14 DEF Next, Grown

\* The listener of c sends s what it is telling.
Sends(c, s) == s \in telling[c].left /\ SendMessage(c, s)

\* What the handler of x is about to publish reaches the feed of s, or s has a
\* reason.
LEMMA PublishingCovers ==
    ASSUME Consistent, [Next]_vars, NEW s \in Socket, Following(s), sock'[s].where = sock[s].where,
           sock[s].where \in Container,
           NEW x \in Used, sock[x].at = "publishing", NEW m \in ToSet(sock[x].got)
    PROVE  m \in Covered(s)'
  <1> DEFINE c == sock[s].where
  <1>1. x \in Socket /\ sock[x].got \in Seq(Message) /\ feed \in [Container -> Seq(Message)]
    BY DEF Consistent, Types, Connection, Used
  <1>2. CASE sock'[x].at = sock[x].at /\ sock'[x].got = sock[x].got
    BY <1>1, <1>2 DEF Covered, Coming, Used
  <1>3. CASE Publish(x)
    <2>1. /\ feed' = [d \in Container |-> IF d \in listening THEN feed[d] \o sock[x].got ELSE feed[d]]
          /\ missed' = MissedAt(Container \ listening, ToSet(sock[x].got))
      BY <1>3 DEF Publish
    <2>2. CASE c \in listening
      <3>1. feed'[c] = feed[c] \o sock[x].got /\ feed[c] \in Seq(Message)
        BY <1>1, <2>1, <2>2
      <3>2. ToSet(feed[c] \o sock[x].got) = ToSet(feed[c]) \union ToSet(sock[x].got)
        BY <1>1, <3>1, ConcatSet
      <3>3. m \in ToSet(feed'[c])
        BY <3>1, <3>2
      <3> QED BY <3>3, SMTT(60) DEF Covered, Coming
    <2>3. CASE c \notin listening
      <3>1. m \in missed'[s]
        BY <2>1, <2>3 DEF MissedAt, Following
      <3> QED BY <3>1 DEF Covered
    <2> QED BY <2>2, <2>3
  <1>4. CASE HandlerFails(x)
    <2>1. m \in unheard'
      BY <1>4, SMTT(60) DEF HandlerFails
    <2> QED BY <2>1 DEF Covered
  <1>5. CASE Restart(sock[x].where)
    <2> DEFINE here == {y \in Used : sock[y].where = sock[x].where /\ sock[y].at # "over"}
               P == {y \in here : sock[y].at = "publishing"}
    <2>1. unheard' = unheard \union UNION {ToSet(sock[y].got) : y \in P}
      BY <1>5 DEF Restart
    <2>2. x \in P
      OBVIOUS
    <2> HIDE DEF P
    <2>3. m \in unheard'
      BY <2>1, <2>2, Zenon
    <2> QED BY <2>3 DEF Covered
  <1>6. ~(Accept(x) \/ ReadHistory(x) \/ SendHistory(x) \/ Store(x) \/ Refuse(x) \/ Disconnected(x))
    BY DEF Accept, ReadHistory, SendHistory, Store, Refuse, Disconnected
  <1>7. \A p \in Page, d \in Container : ~Open(p, x, d)
    BY <1>1, OpenFacts
  <1> QED BY <1>1, <1>2, <1>3, <1>4, <1>5, <1>6, <1>7, HandlerKinds DEF OwnStep

LEMMA NotRestarted ==
    ASSUME Consistent, NEW s \in Used, sock[s].at # "over", sock'[s].at # "over"
    PROVE  ~Restart(sock[s].where)
  <1> SUFFICES ASSUME Restart(sock[s].where) PROVE FALSE
    OBVIOUS
  <1> DEFINE here == {y \in Used : sock[y].where = sock[s].where /\ sock[y].at # "over"}
             k == [sock[s] EXCEPT !.at = "over", !.got = <<>>]
  <1>1. sock' = [y \in Socket |-> IF y \in here THEN [sock[y] EXCEPT !.at = "over", !.got = <<>>]
                                  ELSE sock[y]]
    BY DEF Restart
  <1>2. s \in here /\ s \in Socket
    BY DEF Used
  <1>3. k.at = "over"
    BY <1>2 DEF Consistent, Types, Connection
  <1>4. sock'[s] = k
    BY <1>1, <1>2
  <1> HIDE DEF k
  <1> QED BY <1>3, <1>4

\* What a subscription has received, and what its listener is sending.
LEMMA FeedCovers ==
    ASSUME Consistent, [Next]_vars, NEW s \in Socket, Following(s), OfChat(s),
           sock'[s].where = sock[s].where, sock[s].where \in Container,
           sock'[s].at # "over", NEW m \in ToSet(feed[sock[s].where])
    PROVE  m \in Covered(s)'
  <1> PICK c \in Container : c = sock[s].where
    OBVIOUS
  <1>1. /\ feed \in [Container -> Seq(Message)] /\ feed[c] \in Seq(Message) /\ m \in ToSet(feed[c])
        /\ telling \in [Container -> [body : Seq(Message), left : SUBSET Socket]]
        /\ s \in Used /\ sock[s].at # "over"
    BY DEF Consistent, Types, Used, Following
  <1>2. ~Restart(c)
    BY <1>1, NotRestarted
  <1>3. CASE feed'[c] = feed[c]
    BY <1>1, <1>3 DEF Covered, Coming
  <1>4. CASE TakeMessage(c)
    <2> DEFINE t == [body |-> <<Head(feed[c])>>, left |-> Addressees(c, Chatter)]
    <2>1. /\ feed[c] # <<>> /\ telling' = [telling EXCEPT ![c] = t] /\ feed' = [feed EXCEPT ![c] = Tail(@)]
      BY <1>4 DEF TakeMessage
    <2>2. t.body = <<Head(feed[c])>> /\ t.left = Addressees(c, Chatter)
      OBVIOUS
    <2> HIDE DEF t
    <2>3. /\ telling'[c].body = <<Head(feed[c])>> /\ telling'[c].left = Addressees(c, Chatter)
          /\ feed'[c] = Tail(feed[c])
      BY <1>1, <2>1, <2>2
    <2>4. s \in Addressees(c, Chatter)
      BY DEF Consistent, ContainerOK, Served, Serving, Following, Addressees, OfChat
    <2>5. m = Head(feed[c]) \/ m \in ToSet(Tail(feed[c]))
      BY <1>1, <2>1, TailSet
    <2>6. Head(feed[c]) \in ToSet(<<Head(feed[c])>>)
      BY <1>1, <2>1, TailSet, SingleSet
    <2>7. m \in Coming(s)'
      BY <2>3, <2>4, <2>5, <2>6 DEF Coming
    <2> QED BY <2>7 DEF Covered
  <1>5. CASE LoseFeed(c)
    <2>1. missed' = MissedAt({c}, ToSet(feed[c]))
      BY <1>5 DEF LoseFeed
    <2>2. m \in missed'[s]
      BY <1>1, <2>1 DEF MissedAt, Following
    <2> QED BY <2>2 DEF Covered
  <1>6. ASSUME NEW x \in Used, Publish(x) PROVE m \in Covered(s)'
    <2>1. sock[x].got \in Seq(Message)
      BY <1>6, SMTT(60) DEF Consistent, Types, Connection, Used
    <2>2. feed'[c] \in {feed[c], feed[c] \o sock[x].got}
      BY <1>6 DEF Publish
    <2>3. ToSet(feed[c] \o sock[x].got) = ToSet(feed[c]) \union ToSet(sock[x].got)
      BY <1>1, <2>1, ConcatSet
    <2>4. m \in ToSet(feed'[c])
      BY <1>1, <2>2, <2>3
    <2> QED BY <2>4 DEF Covered, Coming
  <1>7. ASSUME NEW x, SendMessage(c, x) PROVE feed'[c] = feed[c]
    BY <1>7 DEF SendMessage
  <1> QED BY <1>2, <1>3, <1>4, <1>5, <1>6, <1>7, TellKinds

LEMMA TellingCovers ==
    ASSUME Consistent, [Next]_vars, NEW s \in Socket,
           sock'[s].where = sock[s].where, sock[s].where \in Container,
           ~Restart(sock[s].where), s \in telling[sock[s].where].left,
           NEW m \in ToSet(telling[sock[s].where].body), ~Sends(sock[s].where, s)
    PROVE  m \in Covered(s)'
  <1> PICK c \in Container : c = sock[s].where
    OBVIOUS
  <1>1. telling \in [Container -> [body : Seq(Message), left : SUBSET Socket]]
    BY DEF Consistent, Types
  <1>2. ASSUME s \in telling'[c].left, telling'[c].body = telling[c].body PROVE m \in Covered(s)'
    BY <1>2 DEF Covered, Coming
  <1>3. ~TakeMessage(c)
    BY DEF TakeMessage
  <1>4. ASSUME LoseFeed(c) \/ \E x \in Used : Publish(x) PROVE telling'[c] = telling[c]
    BY <1>4 DEF LoseFeed, Publish
  <1>5. ASSUME NEW x, SendMessage(c, x)
        PROVE  s \in telling'[c].left /\ telling'[c].body = telling[c].body
    <2>1. telling' = [telling EXCEPT ![c].left = @ \ {x}]
      BY <1>5 DEF SendMessage
    <2>2. x # s
      BY <1>5 DEF Sends
    <2> QED BY <1>1, <2>1, <2>2
  <1>6. telling'[c] = telling[c] \/ \E x : SendMessage(c, x)
    BY <1>3, <1>4, TellKinds
  <1> QED BY <1>2, <1>5, <1>6

LEMMA CoveredKept ==
    ASSUME Consistent, [Next]_vars, NEW s \in Socket, Following(s), OfChat(s),
           sock'[s].at \in {"read", "idle", "publishing"}, NEW m \in Covered(s)
    PROVE  \/ m \in Covered(s)'
           \/ Sends(sock[s].where, s) /\ m \in ToSet(telling[sock[s].where].body)
  <1> DEFINE P == {y \in Used : sock[y].at = "publishing"}
  <1>1. s \in Used /\ SockOK(s) /\ sock[s].at \notin {"unused", "over"} /\ sock'[s].at # "over"
    BY DEF Following, Used, Consistent
  <1>2. sock[s].where \in Container
    BY <1>1 DEF SockOK
  <1>3. sock'[s].where = sock[s].where
    <2>1. \A p \in Page, c \in Container : Open(p, s, c) => FALSE
      BY <1>1, OpenFacts
    <2> QED BY <2>1, Stays
  <1>4. ~Restart(sock[s].where)
    BY <1>1, NotRestarted
  <1>5. CASE m \in missed[s] \union unheard
    <2>1. m \in missed'[s] \union unheard'
      BY <1>5, ReasonsKept
    <2> QED BY <2>1 DEF Covered
  <1>6. CASE m \in ToSet(feed[sock[s].where])
    BY <1>1, <1>2, <1>3, <1>6, FeedCovers
  <1>7. CASE s \in telling[sock[s].where].left /\ m \in ToSet(telling[sock[s].where].body)
    BY <1>2, <1>3, <1>4, <1>7, TellingCovers
  <1>8. CASE m \in UNION {ToSet(sock[x].got) : x \in P}
    <2>1. PICK x \in P : m \in ToSet(sock[x].got)
      BY <1>8, Zenon
    <2> QED BY <1>2, <1>3, <2>1, PublishingCovers
  <1>9. m \in Coming(s) \/ m \in missed[s] \union unheard
    BY DEF Covered
  <1>10. m \in Coming(s) =>
           \/ m \in ToSet(feed[sock[s].where])
           \/ s \in telling[sock[s].where].left /\ m \in ToSet(telling[sock[s].where].body)
           \/ m \in UNION {ToSet(sock[x].got) : x \in P}
    BY Zenon DEF Coming
  <1> QED BY <1>5, <1>6, <1>7, <1>8, <1>9, <1>10

\* A message of the history that a page shows, or will when it has worked off
\* its wire, or when its handler has sent the history.
Has(p, m) ==
    LET s == page[p].ws
    IN  IF sock[s].at = "read" THEN m \in ToSet(sock[s].got)
        ELSE Shows(ToSet(page[p].read) \union ToSet(page[p].live), wire[s], m)

CaughtUp(p) ==
    LET s == page[p].ws
    IN  s # None /\ Following(s) => \A m \in ToSet(history) : Has(p, m) \/ m \in Covered(s)

\* The history gets longer only by what is about to be published.
LEMMA HistoryGrows ==
    ASSUME Consistent, [Next]_vars, NEW s, NEW m \in ToSet(history'), m \notin ToSet(history)
    PROVE  m \in Covered(s)'
  <1>1. ASSUME NEW x \in Used, Store(x) PROVE m \in Covered(s)'
    <2>1. PICK n \in Queued :
             /\ x \in Socket /\ n = Head(up[x]) /\ n.from = x /\ up[x] # <<>>
             /\ up[x] \in Seq(Message) /\ history \in Seq(Message)
             /\ history' \in {Append(history, n), Tail(Append(history, n))}
             /\ up'[x] = Tail(up[x]) /\ \A y \in Socket : y # x => up'[y] = up[y]
             /\ sock[x].at = "idle" /\ sock'[x].at = "publishing" /\ sock'[x].got = <<n>>
             /\ sock'[x].owner = sock[x].owner /\ sock'[x].where = sock[x].where
             /\ \A y \in Socket : y # x => sock'[y] = sock[y]
             /\ UNCHANGED page
      BY <1>1, StoreFacts
    <2> DEFINE h == Append(history, n)
    <2>2. n \in Message
      BY DEF Queued
    <2>3. h \in Seq(Message) /\ ToSet(h) = ToSet(history) \union {n}
      BY <2>1, <2>2, AppendSet
    <2>4. h # <<>>
      BY <2>3, EmptySet
    <2>5. ToSet(history') \subseteq ToSet(h)
      BY <2>1, <2>3, <2>4, TailSet
    <2>6. m = n
      BY <2>3, <2>5
    <2>7. x \in Used' /\ sock'[x].at = "publishing" /\ m \in ToSet(sock'[x].got)
      BY <2>1, <2>2, <2>6, SingleSet DEF Used
    <2>8. m \in UNION {ToSet(sock'[y].got) : y \in {z \in Used' : sock'[z].at = "publishing"}}
      BY <2>7, Zenon
    <2> QED BY <2>8, Zenon DEF Covered, Coming
  <1>2. ASSUME NEW p \in Page, Say(p) PROVE history' = history
    BY <1>2, SayFacts
  <1>3. ASSUME NEW p \in Page, NEW x \in Socket, NEW c \in Container, Open(p, x, c)
        PROVE  history' = history
    BY <1>3 DEF Open, chatVars
  <1>4. Upstream => history' = history
    BY DEF Upstream
  <1> QED BY <1>1, <1>2, <1>3, <1>4, UpstreamKinds

\* What is shown of a frame that arrives.
LEMMA ArriveShows ==
    ASSUME Consistent, NEW p \in Chatter, Arrive(p), NEW m,
           Shows(ToSet(page[p].read) \union ToSet(page[p].live), wire[page[p].ws], m)
    PROVE  Shows(ToSet(page'[p].read) \union ToSet(page'[p].live), wire'[page[p].ws], m)
  <1>1. p \in Page /\ FrameFor(p) = ChatFrame /\ LiveOf(p) = Seq(Message)
    BY DEF Page, FrameFor, LiveOf
  <1>2. PICK s \in Socket, f \in FrameFor(p) :
             /\ page[p].ws = s /\ wire[s] # <<>> /\ f = Head(wire[s])
             /\ wire'[s] = Tail(wire[s]) /\ page'[p] = Shown(p, f)
    BY <1>1, ArriveFacts
  <1> DEFINE R == ToSet(page[p].read) \union ToSet(page[p].live)
             Q == ToSet(page'[p].read) \union ToSet(page'[p].live)
  <1>3. /\ wire[s] \in Seq(FrameOf(s)) /\ page[p].live \in Seq(Message)
        /\ f.kind \in {"open", "history", "message", "close"} /\ f.body \in Seq(Message)
    <2>1. SockOK(s) /\ PageOK(p)
      BY <1>1 DEF Consistent
    <2>2. wire[s] \in Seq(FrameOf(s)) /\ page[p].live \in Seq(Message)
      BY <1>1, <2>1 DEF SockOK, PageOK
    <2>3. f \in ChatFrame
      BY <1>1
    <2>4. f.kind \in {"open", "history", "message", "close"} /\ f.body \in Seq(Message)
      BY <2>3 DEF ChatFrame
    <2> QED BY <2>2, <2>4
  <1>4. f.kind # "history" => R \subseteq Q
    <2>1. CASE f.kind \in {"open", "close"}
      <3>1. page'[p].read = page[p].read /\ page'[p].live = page[p].live
        BY <1>1, <1>2, <2>1, ShownFacts, ZenonT(60)
      <3> QED BY <3>1
    <2>2. CASE f.kind = "message"
      <3>1. page'[p].read = page[p].read /\ page'[p].live = page[p].live \o f.body
        BY <1>1, <1>2, <2>2, ShownFacts, ZenonT(60)
      <3>2. ToSet(page[p].live \o f.body) = ToSet(page[p].live) \union ToSet(f.body)
        BY <1>3, ConcatSet
      <3> QED BY <3>1, <3>2
    <2> QED BY <1>3, <2>1, <2>2
  <1>5. f.kind \in {"history", "message"} => ToSet(f.body) \subseteq Q
    <2>1. CASE f.kind = "history"
      <3>1. page'[p].read = f.body
        BY <1>1, <1>2, <2>1, ShownFacts
      <3> QED BY <3>1
    <2>2. CASE f.kind = "message"
      <3>1. page'[p].live = page[p].live \o f.body
        BY <1>1, <1>2, <2>2, ShownFacts, ZenonT(60)
      <3>2. ToSet(page[p].live \o f.body) = ToSet(page[p].live) \union ToSet(f.body)
        BY <1>3, ConcatSet
      <3> QED BY <3>1, <3>2
    <2> QED BY <2>1, <2>2
  <1>6. Shows(R, wire[s], m)
    BY <1>2
  <1> HIDE DEF R, Q
  <1>7. Shows(Q, Tail(wire[s]), m)
    BY <1>2, <1>3, <1>4, <1>5, <1>6, ShowsTail
  <1> QED BY <1>2, <1>7 DEF Q

LEMMA HasKept ==
    ASSUME Consistent, [Next]_vars, NEW p \in Chatter, NEW s \in Socket,
           page[p].ws = s, page'[p].ws = s, Following(s), Following(s)', NEW m, Has(p, m)
    PROVE  Has(p, m)'
  <1>1. /\ p \in Page /\ s # None /\ wire[s] \in Seq(FrameOf(s)) /\ page \in [Page -> Screen]
        /\ sock[s].got \in Seq(Message) /\ ~sock[s].gone /\ ~sock'[s].gone
        /\ sock \in [Socket -> Connection] /\ SockOK(s)
    BY NoneAssumption DEF Page, Consistent, Types, SockOK, Connection, Following
  <1>2. /\ \A q \in Page, c \in Container : ~Open(q, s, c)
        /\ ~Cut(s)
    <2>1. sock[s].at # "unused"
      BY DEF Following
    <2>2. ASSUME Cut(s) PROVE sock'[s].gone
      <3>1. sock' = [sock EXCEPT ![s].gone = TRUE]
        BY <2>2 DEF Cut
      <3> QED BY <1>1, <3>1 DEF Connection
    <2> QED BY <1>1, <2>1, <2>2, OpenFacts
  <1>3. CASE SendHistory(s)
    <2> DEFINE f == Frame("history", sock[s].got)
    <2>1. ToBrowser(s, f) /\ sock[s].at = "read" /\ sock'[s].at = "idle"
      BY <1>3, OwnFacts DEF SendHistory
    <2>2. f \in FrameOf(s) /\ f.kind = "history" /\ f.body = sock[s].got
      BY <1>1, <2>1, FrameFacts DEF SockOK, FrameOf, Frame
    <2> HIDE DEF f
    <2>3. wire'[s] = Append(wire[s], f)
      BY <1>1, <2>1, <2>2, ToBrowserFacts
    <2>4. m \in ToSet(f.body)
      BY <2>1, <2>2 DEF Has
    <2>5. \A R : Shows(R, Append(wire[s], f), m)
      BY <1>1, <2>2, <2>4, ShowsNew
    <2> QED BY <2>1, <2>3, <2>5 DEF Has
  <1>4. \/ sock'[s].at = sock[s].at /\ sock'[s].got = sock[s].got
        \/ SendHistory(s)
        \/ sock[s].at # "read" /\ sock'[s].at # "read"
    <2>1. ~(Accept(s) \/ ReadHistory(s))
      BY DEF Accept, ReadHistory, Following
    <2>2. ~(Refuse(s) \/ HandlerFails(s) \/ Disconnected(s)) /\ sock'[s].at # "over"
      BY OwnFacts DEF Following
    <2> QED BY <1>2, <2>1, <2>2, HandlerKinds, OwnFacts DEF OwnStep
  <1>5. CASE sock[s].at = "read" /\ sock'[s].at = sock[s].at /\ sock'[s].got = sock[s].got
    BY <1>5 DEF Has
  <1>6. CASE sock[s].at # "read" /\ sock'[s].at # "read"
    <2> DEFINE R == ToSet(page[p].read) \union ToSet(page[p].live)
    <2>1. Shows(R, wire[s], m)
      BY <1>6 DEF Has
    <2>2. CASE Arrive(p)
      <3>1. Shows(ToSet(page'[p].read) \union ToSet(page'[p].live), wire'[s], m)
        BY <2>1, <2>2, ArriveShows
      <3> QED BY <1>6, <3>1 DEF Has
    <2>3. CASE ~Arrive(p)
      <3>1. page'[p].live = page[p].live /\ page'[p].read = page[p].read
        BY <1>1, <1>2, <2>3, PageKinds, OpenFacts
      <3>2. \A q \in Page : page[q].ws = s => ~Arrive(q) /\ ~Leave(q)
        <4>1. Leave(p) => page'[p].ws = None
          BY <1>1, BlankPage DEF Leave
        <4> QED BY <1>1, <2>3, <4>1, OwnSocket
      <3>3. Extended(s)
        BY <1>2, <3>2, FrameKinds
      <3>4. Shows(R, wire'[s], m)
        <4>1. CASE wire'[s] = wire[s]
          BY <2>1, <4>1
        <4>2. ASSUME NEW f \in FrameOf(s), wire'[s] = Append(wire[s], f), f.kind = "history" => SendHistory(s)
              PROVE  Shows(R, wire'[s], m)
          <5>1. f.kind # "history"
            BY <1>6, <4>2 DEF SendHistory
          <5> HIDE DEF R
          <5>2. Shows(R, Append(wire[s], f), m)
            BY <1>1, <2>1, <5>1, ShowsAppend
          <5> QED BY <4>2, <5>2
        <4> QED BY <3>3, <4>1, <4>2 DEF Extended
      <3> QED BY <1>6, <3>1, <3>4 DEF Has
    <2> QED BY <2>2, <2>3
  <1> QED BY <1>3, <1>4, <1>5, <1>6

\* A message that is sent is shown, unless it overtakes the history.
LEMMA SentIsShown ==
    ASSUME Consistent, NEW p \in Chatter, NEW s \in Socket, page[p].ws = s, page'[p].ws = s,
           Following(s), NEW c \in Container, Sends(c, s), NEW m \in ToSet(telling[c].body)
    PROVE  Has(p, m)' \/ m \in Covered(s)'
  <1> DEFINE f == Frame("message", telling[c].body)
  <1>1. /\ telling[c].body \in Seq(Message) /\ OfChat(s) /\ wire[s] \in Seq(FrameOf(s)) /\ ~sock[s].gone
        /\ missed \in [Socket -> SUBSET Message] /\ sock[s].at # "over"
    BY DEF Consistent, Types, ContainerOK, SockOK, Following, Sends
  <1>2. /\ ToBrowser(s, f) /\ sock' = sock
        /\ missed' = [missed EXCEPT ![s] = @ \union Overtaken(s, ToSet(telling[c].body))]
    BY <1>1 DEF Sends, SendMessage, SendTo
  <1>3. f \in FrameOf(s) /\ f.kind = "message" /\ f.body = telling[c].body
    BY <1>1, FrameFacts DEF FrameOf, Frame
  <1> HIDE DEF f
  <1>4. CASE sock[s].at = "read" /\ m \in ToSet(sock[s].got)
    BY <1>2, <1>4 DEF Has
  <1>5. CASE sock[s].at = "read" /\ m \notin ToSet(sock[s].got)
    <2>1. m \in missed'[s]
      BY <1>1, <1>2, <1>5 DEF Overtaken
    <2> QED BY <2>1 DEF Covered
  <1>6. CASE sock[s].at # "read"
    <2>1. wire'[s] = Append(wire[s], f)
      BY <1>1, <1>2, <1>3, ToBrowserFacts
    <2>2. \A R : Shows(R, Append(wire[s], f), m)
      BY <1>1, <1>3, ShowsNew
    <2> QED BY <1>2, <1>6, <2>1, <2>2 DEF Has
  <1> QED BY <1>4, <1>5, <1>6

LEMMA CaughtUpStep ==
    ASSUME Consistent, [Next]_vars, NEW p \in Chatter, CaughtUp(p)
    PROVE  CaughtUp(p)'
  <1>1. p \in Page /\ page \in [Page -> Screen] /\ Consistent'
    BY ConsistentStep DEF Page, Consistent, Types
  <1> SUFFICES ASSUME NEW s \in Socket, page'[p].ws = s, Following(s)', NEW m \in ToSet(history')
               PROVE  Has(p, m)' \/ m \in Covered(s)'
    <2>1. page'[p].ws # None => page'[p].ws \in Socket
      BY <1>1 DEF Consistent, Types, Screen
    <2> QED BY <2>1 DEF CaughtUp
  <1>2. s # None /\ sock'[s].at \in {"read", "idle", "publishing"} /\ ~sock'[s].gone
    BY NoneAssumption DEF Following
  <1>3. \A q \in Page, c \in Container : ~Open(q, s, c)
    BY <1>2, OpenFacts
  <1>4. page[p].ws = s
    <2>1. CASE page'[p].ws = page[p].ws
      BY <2>1
    <2>2. CASE page'[p].ws = None \/ \E x \in Socket, c \in Container : Open(p, x, c)
      BY <1>1, <1>2, <1>3, <2>2, OpenFacts
    <2>3. CASE Arrive(p)
      BY <1>1, <2>3, ArriveFacts
    <2> QED BY <1>1, <2>1, <2>2, <2>3, PageKinds
  <1>5. OfChat(s)
    BY <1>1, <1>2, <1>4, OwnSocket
  <1>6. ~sock[s].gone
    <2>1. sock[s].gone => sock'[s].gone
      <3>1. CASE Extended(s)
        BY <3>1 DEF Extended
      <3>2. CASE Cut(s)
        <4>1. sock' = [sock EXCEPT ![s].gone = TRUE]
          BY <3>2 DEF Cut
        <4> QED BY <4>1 DEF Consistent, Types, Connection
      <3>3. ASSUME NEW q \in Page, page[q].ws = s, Leave(q) \/ Arrive(q)
            PROVE  sock[s].gone => sock'[s].gone
        <4>1. Arrive(q) => sock' = sock
          BY DEF Arrive
        <4>2. Leave(q) => sock' = [sock EXCEPT ![s].gone = TRUE]
          BY <3>3 DEF Leave
        <4> QED BY <3>3, <4>1, <4>2 DEF Consistent, Types, Connection
      <3> QED BY <1>3, <3>1, <3>2, <3>3, FrameKinds
    <2> QED BY <1>2, <2>1
  <1>7. CASE m \notin ToSet(history)
    BY <1>7, HistoryGrows
  <1>8. CASE m \in ToSet(history) /\ Following(s)
    <2>1. Has(p, m) \/ m \in Covered(s)
      BY <1>2, <1>4, <1>8 DEF CaughtUp
    <2>2. CASE Has(p, m)
      BY <1>4, <1>8, <2>2, HasKept
    <2>3. CASE m \in Covered(s)
      <3>1. CASE m \in Covered(s)'
        BY <3>1
      <3>2. CASE Sends(sock[s].where, s) /\ m \in ToSet(telling[sock[s].where].body)
        <4>1. PICK c \in Container : c = sock[s].where
          BY <1>8 DEF Consistent, SockOK, Following
        <4> QED BY <1>4, <1>8, <3>2, <4>1, SentIsShown
      <3> QED BY <1>2, <1>5, <1>8, <2>3, <3>1, <3>2, CoveredKept
    <2> QED BY <2>1, <2>2, <2>3
  <1>9. CASE m \in ToSet(history) /\ ~Following(s)
    <2>1. sock[s].at \notin {"read", "idle", "publishing"}
      BY <1>6, <1>9 DEF Following
    <2>2. ReadHistory(s)
      BY <1>2, <1>3, <1>5, <2>1, HandlerKinds, OwnFacts DEF OwnStep
    <2>3. sock'[s].at = "read" /\ sock'[s].got = history
      BY <2>2, OwnFacts
    <2>4. Has(p, m)'
      BY <1>9, <2>3 DEF Has
    <2> QED BY <2>4
  <1> QED BY <1>7, <1>8, <1>9

\* Every page is caught up, or will be when it has worked off its wire.
Heard == \A p \in Chatter : GoneOK(p) /\ CaughtUp(p)

LEMMA InitHeard == Init => Heard
  <1> SUFFICES ASSUME Init, NEW p \in Chatter PROVE GoneOK(p) /\ CaughtUp(p)
    BY DEF Heard
  <1>1. page[p].ws = None
    BY BlankPage DEF Init, Page
  <1> QED BY <1>1 DEF GoneOK, CaughtUp

LEMMA HeardStep == Consistent /\ Heard /\ [Next]_vars => Heard'
  <1> SUFFICES ASSUME Consistent, Heard, [Next]_vars, NEW p \in Chatter
               PROVE  GoneOK(p)' /\ CaughtUp(p)'
    BY DEF Heard
  <1>1. p \in Page /\ GoneOK(p) /\ CaughtUp(p)
    BY DEF Page, Heard
  <1> QED BY <1>1, GoneStep, CaughtUpStep

LEMMA HeardNothingMissed == Consistent /\ Heard => NothingMissed
  <1> SUFFICES ASSUME Consistent, Heard, NEW p \in Chatter, NEW s, s = page[p].ws,
                      page[p].at = "live", sock[s].at \in {"idle", "publishing"}, wire[s] = <<>>,
                      NEW m \in ToSet(history)
               PROVE  m \in ToSet(page[p].read) \union ToSet(page[p].live)
                            \union Coming(s) \union missed[s] \union unheard
    BY DEF NothingMissed
  <1>1. p \in Page /\ GoneOK(p) /\ CaughtUp(p)
    BY DEF Page, Heard
  <1>2. s # None
    BY <1>1 DEF Consistent, PageOK, NewPage
  <1>3. Following(s)
    BY <1>1, <1>2 DEF GoneOK, Following
  <1>4. Has(p, m) \/ m \in Covered(s)
    BY <1>1, <1>2, <1>3 DEF CaughtUp
  <1>5. Has(p, m) => m \in ToSet(page[p].read) \union ToSet(page[p].live)
    BY DEF Has, Shows
  <1> QED BY <1>4, <1>5 DEF Covered

\* A page that has caught up shows every message of the history, but those that
\* it is still to be sent or has missed for one of the reasons that "missed"
\* and "unheard" stand for, whatever Redis, the listeners and the handlers did
\* in between.
THEOREM NothingLost == Spec => []NothingMissed
  <1>1. Spec => []Heard
    BY AlwaysConsistent, InitHeard, HeardStep, PTL DEF Spec
  <1> QED BY <1>1, AlwaysConsistent, HeardNothingMissed, PTL
=============================================================================
