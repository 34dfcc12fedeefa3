-------------------------- MODULE OperationContract --------------------------
(***************************************************************************)
(* What the v2 Host promises of an accepted Operation, with no ledger, no  *)
(* lease and no retry: it has its Resource to itself, its native effects   *)
(* happen between its acceptance and its settlement, and it is settled     *)
(* once, with what really happened.                                        *)
(***************************************************************************)
CONSTANTS Uids, Ops, None

VARIABLES
  outcome,  \* of each Operation
  effect,   \* what happened natively under each Operation's key
  holder    \* the open Operation of each Resource

vars == <<outcome, effect, holder>>

Init ==
  /\ outcome = [o \in Ops |-> "absent"]
  /\ effect = [o \in Ops |-> "none"]
  /\ holder = [u \in Uids |-> None]

Accept(o, u) ==
  /\ outcome[o] = "absent" /\ holder[u] = None
  /\ outcome' = [outcome EXCEPT ![o] = "open"]
  /\ holder' = [holder EXCEPT ![u] = o]
  /\ UNCHANGED effect

Effect(o) ==
  /\ outcome[o] = "open" /\ effect[o] # "complete"
  /\ \E e \in {"partial", "complete"} : effect' = [effect EXCEPT ![o] = e]
  /\ UNCHANGED <<outcome, holder>>

Decide(o, u) ==
  /\ outcome[o] = "open" /\ holder[u] = o
  /\ outcome' = [outcome EXCEPT ![o] = IF effect[o] = "complete" THEN "succeeded" ELSE "failed"]
  /\ holder' = [holder EXCEPT ![u] = None]
  /\ UNCHANGED effect

Next == \E o \in Ops : Effect(o) \/ \E u \in Uids : Accept(o, u) \/ Decide(o, u)

Spec == Init /\ [][Next]_vars

=============================================================================
