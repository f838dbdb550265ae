-------------------------- MODULE OnceOnlyExecution --------------------------
(***************************************************************************)
(* What the execution core promises about one intent, whatever processes,  *)
(* retries and crashes do: it is recorded at most once, spent at most once *)
(* after that, and a fill is handed to at most one caller, only for an     *)
(* intent that is already durably spent.  A crash may lose a fill on its   *)
(* way to the caller; it never produces a second one.                      *)
(***************************************************************************)
EXTENDS Naturals

CONSTANT IntentId

VARIABLES
    status,   \* durable status of each intent
    fills     \* number of fills handed to callers

onceVars == <<status, fills>>

OnceInit ==
    /\ status = [i \in IntentId |-> "ABSENT"]
    /\ fills = [i \in IntentId |-> 0]

Admit(i) ==
    /\ status[i] = "ABSENT"
    /\ status' = [status EXCEPT ![i] = "CREATED"]
    /\ UNCHANGED fills

Spend(i) ==
    /\ status[i] = "CREATED"
    /\ status' = [status EXCEPT ![i] = "CONSUMED"]
    /\ UNCHANGED fills

HandOver(i) ==
    /\ status[i] = "CONSUMED"
    /\ fills[i] = 0
    /\ fills' = [fills EXCEPT ![i] = 1]
    /\ UNCHANGED status

OnceNext == \E i \in IntentId : Admit(i) \/ Spend(i) \/ HandOver(i)

OnceSpec == OnceInit /\ [][OnceNext]_onceVars
=============================================================================
