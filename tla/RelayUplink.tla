------------------------------ MODULE RelayUplink ------------------------------
(******************************************************************************)
(* What the relay client of internal/relay/client.go promises to its agent,   *)
(* with no goroutine, retry counter or lock in sight: one connection after    *)
(* the other, the next one only when the last one is gone, for as long as the *)
(* agent does not stop it.                                                    *)
(******************************************************************************)
EXTENDS Naturals

VARIABLES
  phase,    \* "connecting", "online", "offline" or "over"
  conn,     \* the registered connections so far
  stopped   \* Stop was called

vars == <<phase, conn, stopped>>

Init ==
  /\ phase = "connecting"
  /\ conn = 0
  /\ stopped = FALSE

(* An attempt that has begun ends, also when the client is stopped meanwhile. *)
Register ==
  /\ phase = "connecting"
  /\ phase' = "online"
  /\ conn' = conn + 1
  /\ UNCHANGED stopped

(* Only the first attempt gives up: the agent drops the client then. *)
Fail ==
  /\ phase = "connecting"
  /\ phase' = IF conn = 0 THEN "over" ELSE "offline"
  /\ UNCHANGED <<conn, stopped>>

Lose ==
  /\ phase = "online"
  /\ phase' = "offline"
  /\ UNCHANGED <<conn, stopped>>

(* No attempt begins once the client is stopped. *)
Retry ==
  /\ phase = "offline" /\ ~stopped
  /\ phase' = "connecting"
  /\ UNCHANGED <<conn, stopped>>

Stop ==
  /\ stopped' = TRUE
  /\ UNCHANGED <<phase, conn>>

Finish ==
  /\ phase \in {"online", "offline"} /\ stopped
  /\ phase' = "over"
  /\ UNCHANGED <<conn, stopped>>

Next == Register \/ Fail \/ Lose \/ Retry \/ Stop \/ Finish

Spec == Init /\ [][Next]_vars

================================================================================
