----------------------------- MODULE MCEditLock -----------------------------
(* Small instances of EditLock.  In the code the key lives 30 s and a page *)
(* sends its heartbeat every 15 s: a tick is 7.5 s where a browser's       *)
(* requests may take one (LockTTL 4, HeartbeatPeriod 2), 15 s where they   *)
(* take any time (LockTTL 2, HeartbeatPeriod 1).                           *)
EXTENDS EditLock, TLC
=============================================================================
