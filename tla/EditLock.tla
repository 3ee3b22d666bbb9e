------------------------------ MODULE EditLock ------------------------------
(***************************************************************************)
(* The editing lock of one (date, shift) window: the Redis key             *)
(*     lock:employee-booking:{date}:{shift}                                *)
(* that the booking wizard and the carry-forward page of the front end     *)
(* keep alive with a heartbeat, and the three request handlers that touch  *)
(* it (acquire_lock, release_lock and the check at the top of              *)
(* save_bookings).  A handler is not atomic: each Redis command it sends   *)
(* is one step, and other handlers run between two of them.                *)
(*                                                                         *)
(* Time passes in ticks.  A page never has one request in flight at a     *)
(* time: the effect that asks for the lock first cleans up after its       *)
(* former run, so that every opening sends an unlock and a lock request    *)
(* one right after the other, and a save may meet a heartbeat.  What can   *)
(* go wrong outside the program is chosen by the constant Faults; without  *)
(* it a browser's requests are handled in the order they were sent, within *)
(* Latency ticks:                                                          *)
(*   "overlap"  the requests of a browser are handled in any order         *)
(*   "delay"    a request takes any time, and a background tab fires its   *)
(*              heartbeat late                                             *)
(*   "haste"    a supervisor saves before the page knows who has the lock  *)
(*   "loss"     a request or its answer is lost                            *)
(* A browser may crash at any time whatever Faults is.                     *)
(***************************************************************************)
EXTENDS Integers

CONSTANTS
    Supervisor,       \* the supervisors who may open the window
    Saver,            \* those of them who also save from it
    NoOwner,          \* the Redis key does not exist
    LockTTL,          \* expiry of the key, in ticks          (ex=30)
    HeartbeatPeriod,  \* time between two heartbeats, in ticks (15000 ms)
    Latency,          \* how long a browser's requests are under way, in ticks
    Faults            \* which faults of the environment happen

ASSUME NoOwnerAssumption == NoOwner \notin Supervisor
ASSUME SaverAssumption == Saver \subseteq Supervisor
ASSUME TimingAssumption ==
    /\ LockTTL \in Nat
    /\ HeartbeatPeriod \in Nat \ {0}
    /\ Latency \in Nat
    /\ HeartbeatPeriod + Latency < LockTTL
ASSUME FaultsAssumption == Faults \subseteq {"overlap", "delay", "haste", "loss"}

VARIABLES
    lock,       \* owner named by the Redis key, or NoOwner
    ttl,        \* ticks before the key expires
    page,       \* page[s]: how far the page with the lock effect has come
    lockedOut,  \* lockedOut[s]: the page's lockOwner state is not null
    timer,      \* timer[s]: ticks before the page's next heartbeat
    lockReq,    \* lockReq[s]: progress of s's POST .../bookings/lock
    unlockReq,  \* unlockReq[s]: progress of s's POST .../bookings/unlock
    saveReq,    \* saveReq[s]: progress of s's POST that writes bookings
    age,        \* age[s]: ticks since s's browser last had no request in flight
    writers     \* history: who has written since the key was last created

pageVars == <<page, lockedOut, timer>>
lockVars == <<lock, ttl, page, lockedOut, timer, lockReq, unlockReq, saveReq, age, writers>>

(* A page is "loading" until /auth/me names the user, "asking" until its   *)
(* first answer about the lock, then "open".                               *)
PagePhase == {"closed", "loading", "asking", "open"}

(* How far a request has come.  "ok" and "conflict" are answers on their   *)
(* way back to the page; the other two requests have answers no page       *)
(* state depends on.  An unlock on its way was sent "ahead" of the lock    *)
(* request, or "behind" it.  Bound: one request of each kind per           *)
(* supervisor.                                                             *)
LockPhase   == {"idle", "sent", "read", "renew", "ok", "conflict"}
UnlockPhase == {"idle", "ahead", "behind", "delete"}
SavePhase   == {"idle", "sent", "write"}

LockTypeOK ==
    /\ lock \in Supervisor \union {NoOwner}
    /\ ttl \in 0..LockTTL
    /\ (lock = NoOwner) <=> (ttl = 0)
    /\ page \in [Supervisor -> PagePhase]
    /\ lockedOut \in [Supervisor -> BOOLEAN]
    /\ timer \in [Supervisor -> 0..HeartbeatPeriod]
    /\ lockReq \in [Supervisor -> LockPhase]
    /\ unlockReq \in [Supervisor -> UnlockPhase]
    /\ saveReq \in [Supervisor -> SavePhase]
    /\ age \in [Supervisor -> 0..Latency]
    /\ writers \subseteq Supervisor

LockInit ==
    /\ lock = NoOwner
    /\ ttl = 0
    /\ page = [s \in Supervisor |-> "closed"]
    /\ lockedOut = [s \in Supervisor |-> FALSE]
    /\ timer = [s \in Supervisor |-> 0]
    /\ lockReq = [s \in Supervisor |-> "idle"]
    /\ unlockReq = [s \in Supervisor |-> "idle"]
    /\ saveReq = [s \in Supervisor |-> "idle"]
    /\ age = [s \in Supervisor |-> 0]
    /\ writers = {}

-----------------------------------------------------------------------------
(* The page.                                                               *)

\* s has no request in flight.
Quiet(s) ==
    /\ lockReq[s] = "idle"
    /\ unlockReq[s] = "idle"
    /\ saveReq[s] = "idle"

\* The interval of the lock effect runs.
Mounted(s) == page[s] \in {"asking", "open"}

\* Requests that are sent while none is in flight start the clock.
Sends(s) == age' = IF Quiet(s) THEN [age EXCEPT ![s] = 0] ELSE age

\* The page is mounted.  The lock effect runs before the user is known: it
\* asks for nothing, and leaves its clean-up behind.
Mount(s) ==
    /\ page[s] = "closed"
    /\ page' = [page EXCEPT ![s] = "loading"]
    /\ UNCHANGED <<lock, ttl, lockedOut, timer, lockReq, unlockReq, saveReq, age, writers>>

(* /auth/me names the user, so the effect runs again: its clean-up sends   *)
(* an unlock that nobody waits for, and the lock request follows at once.  *)
Identify(s) ==
    /\ page[s] = "loading"
    /\ lockReq[s] = "idle"
    /\ unlockReq[s] = "idle"
    /\ page' = [page EXCEPT ![s] = "asking"]
    /\ timer' = [timer EXCEPT ![s] = HeartbeatPeriod]
    /\ unlockReq' = [unlockReq EXCEPT ![s] = "ahead"]
    /\ lockReq' = [lockReq EXCEPT ![s] = "sent"]
    /\ Sends(s)
    /\ UNCHANGED <<lock, ttl, lockedOut, saveReq, writers>>

(* The page switches to this window from another date or shift: what its   *)
(* clean-up unlocks is the other window.  It keeps the lockOwner of that   *)
(* window, so lockedOut starts with either value.                          *)
Switch(s) ==
    /\ page[s] = "closed"
    /\ lockReq[s] = "idle"
    /\ page' = [page EXCEPT ![s] = "asking"]
    /\ \E b \in BOOLEAN : lockedOut' = [lockedOut EXCEPT ![s] = b]
    /\ timer' = [timer EXCEPT ![s] = HeartbeatPeriod]
    /\ unlockReq' = [unlockReq EXCEPT ![s] = IF @ = "behind" THEN "ahead" ELSE @]
    /\ lockReq' = [lockReq EXCEPT ![s] = "sent"]
    /\ Sends(s)
    /\ UNCHANGED <<lock, ttl, saveReq, writers>>

\* Mutant: a page that is locked out does not ask again.
HeartbeatUnlessLockedOut(s) ==
    /\ Mounted(s)
    /\ ~lockedOut[s]
    /\ timer[s] = 0
    /\ lockReq[s] = "idle"
    /\ timer' = [timer EXCEPT ![s] = HeartbeatPeriod]
    /\ lockReq' = [lockReq EXCEPT ![s] = "sent"]
    /\ Sends(s)
    /\ UNCHANGED <<lock, ttl, page, lockedOut, unlockReq, saveReq, writers>>

\* setInterval(refreshLock): sent whether or not the page is locked out.
Heartbeat(s) ==
    /\ Mounted(s)
    /\ timer[s] = 0
    /\ lockReq[s] = "idle"
    /\ timer' = [timer EXCEPT ![s] = HeartbeatPeriod]
    /\ lockReq' = [lockReq EXCEPT ![s] = "sent"]
    /\ Sends(s)
    /\ UNCHANGED <<lock, ttl, page, lockedOut, unlockReq, saveReq, writers>>

\* The page is gone: its interval is cleared, its state forgotten.
Gone(s) ==
    /\ page[s] # "closed"
    /\ page' = [page EXCEPT ![s] = "closed"]
    /\ lockedOut' = [lockedOut EXCEPT ![s] = FALSE]
    /\ timer' = [timer EXCEPT ![s] = 0]

\* The user leaves the page, or switches it to another window: the effect's
\* clean-up sends an unlock, whatever is in flight.
Leave(s) ==
    /\ Gone(s)
    /\ unlockReq[s] = "idle"
    /\ unlockReq' = [unlockReq EXCEPT ![s] = "behind"]
    /\ Sends(s)
    /\ UNCHANGED <<lock, ttl, lockReq, saveReq, writers>>

\* The browser dies: no clean-up runs, requests already sent go on.
Crash(s) ==
    /\ Gone(s)
    /\ UNCHANGED <<lock, ttl, lockReq, unlockReq, saveReq, age, writers>>

\* The page lets s save: it knows who has the lock (with "haste", it may
\* not know yet), and shows no other owner.
MaySave(s) ==
    /\ page[s] = "open" \/ (page[s] = "asking" /\ "haste" \in Faults)
    /\ ~lockedOut[s]
    /\ s \in Saver
    /\ saveReq[s] = "idle"

\* handleSaveSupervisors and handleSaveStaff: refused by the page itself
\* while it shows another owner.
SendSave(s) ==
    /\ MaySave(s)
    /\ saveReq' = [saveReq EXCEPT ![s] = "sent"]
    /\ Sends(s)
    /\ UNCHANGED <<lock, ttl, pageVars, lockReq, unlockReq, writers>>

\* handleSubmitRemarks: the same guard in the page, no lock check in the
\* handler, so the request goes straight on to its write.
SendRemarks(s) ==
    /\ MaySave(s)
    /\ saveReq' = [saveReq EXCEPT ![s] = "write"]
    /\ Sends(s)
    /\ UNCHANGED <<lock, ttl, pageVars, lockReq, unlockReq, writers>>

\* Mutant: any answer makes the page editable.
AnsweredAnyway(s) ==
    /\ lockReq[s] \in {"ok", "conflict"}
    /\ lockReq' = [lockReq EXCEPT ![s] = "idle"]
    /\ IF Mounted(s)
       THEN /\ page' = [page EXCEPT ![s] = "open"]
            /\ lockedOut' = [lockedOut EXCEPT ![s] = FALSE]
       ELSE UNCHANGED <<page, lockedOut>>
    /\ UNCHANGED <<lock, ttl, timer, unlockReq, saveReq, age, writers>>

\* refreshLock's continuation: 200 clears lockOwner, 409 sets it.  An
\* answer that arrives after the page is gone changes nothing.
Answered(s) ==
    /\ lockReq[s] \in {"ok", "conflict"}
    /\ lockReq' = [lockReq EXCEPT ![s] = "idle"]
    /\ IF Mounted(s)
       THEN /\ page' = [page EXCEPT ![s] = "open"]
            /\ lockedOut' = [lockedOut EXCEPT ![s] = (lockReq[s] = "conflict")]
       ELSE UNCHANGED <<page, lockedOut>>
    /\ UNCHANGED <<lock, ttl, timer, unlockReq, saveReq, age, writers>>

-----------------------------------------------------------------------------
(* POST /bookings/lock.                                                    *)

\* Mutant: the key is SET without EX, and keeps the expiry it has.
SetKeyNoEX(s) ==
    /\ lock' = s
    /\ ttl' = ttl
    /\ writers' = IF lock = s THEN writers ELSE {}

\* The key is written for s with a fresh expiry; a new owner starts a new
\* window.
SetKey(s) ==
    /\ lock' = s
    /\ ttl' = LockTTL
    /\ writers' = IF lock = s THEN writers ELSE {}

\* The lock request of s is next: without "overlap", an unlock that was sent
\* ahead of it is done.
LockTurn(s) ==
    /\ lockReq[s] = "sent"
    /\ "overlap" \in Faults \/ unlockReq[s] \notin {"ahead", "delete"}

\* Mutant: the key is SET without NX.
AcquireNoNX(s) ==
    /\ LockTurn(s)
    /\ SetKey(s)
    /\ lockReq' = [lockReq EXCEPT ![s] = "ok"]
    /\ UNCHANGED <<pageVars, unlockReq, saveReq, age>>

\* SET key NX EX 30 creates the key, or reports that it exists.
AcquireNX(s) ==
    /\ LockTurn(s)
    /\ \/ /\ lock = NoOwner
          /\ SetKey(s)
          /\ lockReq' = [lockReq EXCEPT ![s] = "ok"]
       \/ /\ lock # NoOwner
          /\ lockReq' = [lockReq EXCEPT ![s] = "read"]
          /\ UNCHANGED <<lock, ttl, writers>>
    /\ UNCHANGED <<pageVars, unlockReq, saveReq, age>>

\* GET: the caller's own key is to be renewed.  Another owner is a
\* conflict, and so is a key that expired since the SET NX failed.
AcquireRead(s) ==
    /\ lockReq[s] = "read"
    /\ lockReq' = [lockReq EXCEPT ![s] = IF lock = s THEN "renew" ELSE "conflict"]
    /\ UNCHANGED <<lock, ttl, pageVars, unlockReq, saveReq, age, writers>>

\* Mutant: "Lock renewed" is answered without the second SET.
RenewWithoutSet(s) ==
    /\ lockReq[s] = "renew"
    /\ lockReq' = [lockReq EXCEPT ![s] = "ok"]
    /\ UNCHANGED <<lock, ttl, pageVars, unlockReq, saveReq, age, writers>>

\* SET key EX 30, unconditionally: whoever owns the key by now loses it.
AcquireRenew(s) ==
    /\ lockReq[s] = "renew"
    /\ SetKey(s)
    /\ lockReq' = [lockReq EXCEPT ![s] = "ok"]
    /\ UNCHANGED <<pageVars, unlockReq, saveReq, age>>

-----------------------------------------------------------------------------
(* POST /bookings/unlock.                                                  *)

\* The unlock of s is next: without "overlap", the saves and the lock
\* request that were sent before it are done.
UnlockTurn(s) ==
    /\ unlockReq[s] \in {"ahead", "behind"}
    /\ \/ "overlap" \in Faults
       \/ /\ saveReq[s] = "idle"
          /\ unlockReq[s] = "behind" => lockReq[s] \in {"idle", "ok", "conflict"}

\* Mutant: the key is deleted whoever it names.
ReleaseAnybody(s) ==
    /\ UnlockTurn(s)
    /\ unlockReq' = [unlockReq EXCEPT ![s] = IF lock # NoOwner THEN "delete" ELSE "idle"]
    /\ UNCHANGED <<lock, ttl, pageVars, lockReq, saveReq, age, writers>>

\* GET: only a key that names the caller is deleted.
ReleaseRead(s) ==
    /\ UnlockTurn(s)
    /\ unlockReq' = [unlockReq EXCEPT ![s] = IF lock = s THEN "delete" ELSE "idle"]
    /\ UNCHANGED <<lock, ttl, pageVars, lockReq, saveReq, age, writers>>

\* DELETE key, whoever owns it by now.
ReleaseDelete(s) ==
    /\ unlockReq[s] = "delete"
    /\ unlockReq' = [unlockReq EXCEPT ![s] = "idle"]
    /\ lock' = NoOwner
    /\ ttl' = 0
    /\ UNCHANGED <<pageVars, lockReq, saveReq, age, writers>>

-----------------------------------------------------------------------------
(* POST /bookings and POST /remarks, as far as the lock is concerned.      *)

\* save_bookings refuses (409) only when the key exists and names somebody
\* else: a missing key lets anybody through.
SaveCheck(s) ==
    /\ saveReq[s] = "sent"
    /\ saveReq' = [saveReq EXCEPT ![s] = IF lock \in {s, NoOwner} THEN "write" ELSE "idle"]
    /\ UNCHANGED <<lock, ttl, pageVars, lockReq, unlockReq, age, writers>>

\* The handler's database transaction commits.
SaveCommit(s) ==
    /\ saveReq[s] = "write"
    /\ saveReq' = [saveReq EXCEPT ![s] = "idle"]
    /\ writers' = writers \union {s}
    /\ UNCHANGED <<lock, ttl, pageVars, lockReq, unlockReq, age>>

-----------------------------------------------------------------------------
(* The environment.                                                        *)

Elapse(n) == IF n > 0 THEN n - 1 ELSE 0

(* Without the fault "delay" a browser's requests are over Latency ticks   *)
(* after the first, a heartbeat is sent when it is due, and no time passes *)
(* between the GET of a handler and the SET or DELETE that follows it.     *)
OnTime ==
    \A s \in Supervisor :
        /\ lockReq[s] # "renew" /\ unlockReq[s] # "delete"
        /\ ~Quiet(s) => age[s] < Latency
        /\ Mounted(s) => timer[s] > 0

Older(s) == IF Quiet(s) \/ age[s] = Latency THEN age[s] ELSE age[s] + 1

Tick ==
    /\ "delay" \in Faults \/ OnTime
    /\ ttl' = Elapse(ttl)
    /\ lock' = IF ttl' = 0 THEN NoOwner ELSE lock
    /\ timer' = [s \in Supervisor |-> Elapse(timer[s])]
    /\ age' = [s \in Supervisor |-> Older(s)]
    /\ UNCHANGED <<page, lockedOut, lockReq, unlockReq, saveReq, writers>>

\* A request that never reaches a server, or the answer of a lock request
\* that never reaches the page: refreshLock leaves lockOwner as it was.  (A
\* save that is lost is one that was not sent.)
Lose(s) ==
    /\ "loss" \in Faults
    /\ \/ /\ lockReq[s] \in {"sent", "ok", "conflict"}
          /\ lockReq' = [lockReq EXCEPT ![s] = "idle"]
          /\ UNCHANGED unlockReq
       \/ /\ unlockReq[s] \in {"ahead", "behind"}
          /\ unlockReq' = [unlockReq EXCEPT ![s] = "idle"]
          /\ UNCHANGED lockReq
    /\ UNCHANGED <<lock, ttl, pageVars, saveReq, age, writers>>

-----------------------------------------------------------------------------
PageStep(s) ==
    \/ Mount(s) \/ Identify(s) \/ Switch(s)
    \/ Heartbeat(s) \/ Leave(s) \/ Crash(s)
    \/ SendSave(s) \/ SendRemarks(s) \/ Answered(s)

ServerStep(s) ==
    \/ AcquireNX(s) \/ AcquireRead(s) \/ AcquireRenew(s)
    \/ ReleaseRead(s) \/ ReleaseDelete(s)
    \/ SaveCheck(s) \/ SaveCommit(s)

LockNext ==
    \/ \E s \in Supervisor : PageStep(s) \/ ServerStep(s) \/ Lose(s)
    \/ Tick

LockSpec == LockInit /\ [][LockNext]_lockVars

(* Fairness.  Redis and the clock go on, a handler that has started runs   *)
(* to its end, and an open page keeps its interval timer running.  The     *)
(* network may lose messages but not all of them for ever: a first command *)
(* and an answer that keep being sent are handled at some point (SF).      *)
Fairness ==
    /\ WF_lockVars(Tick)
    /\ \A s \in Supervisor :
        /\ WF_lockVars(Heartbeat(s))
        /\ WF_lockVars(AcquireRead(s) \/ AcquireRenew(s))
        /\ WF_lockVars(ReleaseRead(s) \/ ReleaseDelete(s))
        /\ WF_lockVars(SaveCheck(s) \/ SaveCommit(s))
        /\ SF_lockVars(AcquireNX(s))
        /\ SF_lockVars(Answered(s) /\ lockReq[s] = "ok")
        /\ WF_lockVars(Answered(s))

FairSpec == LockSpec /\ Fairness

-----------------------------------------------------------------------------
(* Properties.                                                             *)

\* A page that has been told it has the lock, and has not been told
\* otherwise since, does have it, while its next heartbeat is in flight too:
\* heartbeats every 15 s keep a key of 30 s alive, and neither anybody's
\* renewal nor the unlock that its own opening sent ever removes it.
GrantHolds ==
    \A s \in Supervisor : page[s] = "open" /\ ~lockedOut[s] => lock = s

\* save_bookings goes on only for the supervisor who holds the lock: "make
\* sure they currently hold it", although a key that is missing lets
\* everybody through.
SavesHoldLock ==
    [][\A s \in Supervisor :
          saveReq[s] = "sent" /\ saveReq'[s] = "write" => lock = s]_lockVars

\* The key never passes from one supervisor to another without being
\* deleted or expiring in between: acquire_lock gives an exclusive lock.
Exclusive ==
    [][lock # NoOwner => lock' \in {lock, NoOwner}]_lockVars

\* Everything written since the window was opened was written by the one
\* supervisor who holds its lock: supervisors cannot conflict when they
\* assign staff to the same shift.
WindowIsolated ==
    lock # NoOwner => writers \subseteq {lock}

(* Why the above holds without faults, in inductive form.                  *)

\* The key of s outlives what is under way: the next heartbeat, or the
\* requests of age[s] and all the time they still have.
KeptForBeat(s)  == lock = s /\ ttl >= LockTTL - HeartbeatPeriod + timer[s]
KeptForBurst(s) == lock = s /\ ttl >= LockTTL - HeartbeatPeriod - age[s]

\* An unlock is alone with the lock request that follows it, on a page that
\* has had no answer yet; otherwise the page is gone.
UnlockFirst(s) ==
    /\ unlockReq[s] = "ahead" => lockReq[s] = "sent"
    /\ Mounted(s) /\ unlockReq[s] # "idle" => unlockReq[s] # "behind" /\ lockReq[s] = "sent"
    /\ page[s] = "open" => unlockReq[s] = "idle"
    /\ page[s] = "asking" => lockReq[s] # "idle"
    /\ lockReq[s] \in {"read", "renew"} => unlockReq[s] \in {"idle", "behind"}

\* A handler about to renew or delete the key still owns it.
HandlerOwns(s) ==
    /\ lockReq[s] = "renew" => lock = s
    /\ unlockReq[s] = "delete" =>
          lock = s /\ saveReq[s] = "idle" /\ lockReq[s] \notin {"read", "renew"}

\* A page that may edit owns the key, and so does one about to be told so;
\* a save is under way only for the owner.
EditorOwns(s) ==
    /\ Mounted(s) /\ lockReq[s] = "ok" => KeptForBeat(s)
    /\ page[s] = "open" /\ ~lockedOut[s] =>
          /\ lockReq[s] # "conflict"
          /\ IF lockReq[s] = "idle" THEN KeptForBeat(s) ELSE KeptForBurst(s)
    /\ saveReq[s] # "idle" => KeptForBurst(s)

CalmInv ==
    /\ LockTypeOK
    /\ WindowIsolated
    /\ \A s \in Supervisor : UnlockFirst(s) /\ HandlerOwns(s) /\ EditorOwns(s)

\* The handlers and the page together implement the editing window.
Window == INSTANCE EditWindow WITH editor <- lock
ImplementsEditWindow == Window!Spec

\* The page of s is the only one left.
Alone(s) ==
    /\ Mounted(s)
    /\ \A t \in Supervisor \ {s} : page[t] = "closed"

\* Whatever requests were left in flight and whoever crashed with the lock,
\* a supervisor left alone on the window gets the lock, and is shown so.
Recovers ==
    \A s \in Supervisor :
        <>[]Alone(s) => []<>(lock = s) /\ []<>(~lockedOut[s])
=============================================================================
