------------------------- MODULE StatementService --------------------------
(***************************************************************************)
(* What the executors of src/src/executor.rs promise a caller, whatever    *)
(* happens to the PostgreSQL session: a call is answered once; if it       *)
(* succeeds the statement took effect exactly once, and if it fails at     *)
(* most once.  A failed call is never tried again by itself.               *)
(***************************************************************************)
EXTENDS Naturals

CONSTANT Conn

VARIABLES outcome,  \* of the call c makes
          effects   \* how often its statement took effect

vars == <<outcome, effects>>

TypeOK == /\ outcome \in [Conn -> {"idle", "pending", "ok", "failed"}]
          /\ effects \in [Conn -> 0 .. 1]

Init == /\ outcome = [c \in Conn |-> "idle"]
        /\ effects = [c \in Conn |-> 0]

Submit(c) == /\ outcome[c] = "idle"
             /\ outcome' = [outcome EXCEPT ![c] = "pending"]
             /\ UNCHANGED effects

Succeed(c) == /\ outcome[c] = "pending"
              /\ outcome' = [outcome EXCEPT ![c] = "ok"]
              /\ effects' = [effects EXCEPT ![c] = effects[c] + 1]

Fail(c) == /\ outcome[c] = "pending"
           /\ outcome' = [outcome EXCEPT ![c] = "failed"]
           /\ effects' \in {effects, [effects EXCEPT ![c] = effects[c] + 1]}

Collect(c) == /\ outcome[c] \in {"ok", "failed"}
              /\ outcome' = [outcome EXCEPT ![c] = "idle"]
              /\ effects' = [effects EXCEPT ![c] = 0]

Next == \E c \in Conn : Submit(c) \/ Succeed(c) \/ Fail(c) \/ Collect(c)

Spec == Init /\ [][Next]_vars

=============================================================================
