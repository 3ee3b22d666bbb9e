----------------------------- MODULE EditWindow -----------------------------
(***************************************************************************)
(* What the editing lock of a (date, shift) window promises to the         *)
(* supervisors who book staff through it: the window has at most one       *)
(* editor, it changes hands only by being closed first, and whatever is    *)
(* saved while a window is open was saved by its editor.                   *)
(*                                                                         *)
(* EditLock is the implementation: a Redis key with an expiry, taken and   *)
(* given back by handlers that use several Redis commands each.            *)
(***************************************************************************)

CONSTANTS Supervisor, NoOwner

VARIABLES
    editor,   \* the supervisor who holds the window, or NoOwner
    writers   \* who has saved since the window was last opened

vars == <<editor, writers>>

Init ==
    /\ editor = NoOwner
    /\ writers = {}

Open(s) ==
    /\ editor = NoOwner
    /\ editor' = s
    /\ writers' = {}

Save(s) ==
    /\ editor = s
    /\ writers' = writers \union {s}
    /\ UNCHANGED editor

Close ==
    /\ editor' = NoOwner
    /\ UNCHANGED writers

Next ==
    \/ \E s \in Supervisor : Open(s) \/ Save(s)
    \/ Close

Spec == Init /\ [][Next]_vars
=============================================================================
