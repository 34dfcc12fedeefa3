--------------------------- MODULE MCWorkflowRuns ---------------------------
(* Two calls in two Hosts over one instance whose lifetime is two leases.   *)
EXTENDS WorkflowRuns

CONSTANTS c1, c2, h1, h2, a, b, v1

\* One name is asked for as two kinds: the deployment may have changed between runs.
Steps == {<<a, "do">>, <<b, "wait">>, <<b, "sleep">>}

\* Bound: of an event, a termination, a fault and a late kill, at most two come together,
\* and not an event with a late kill.
AtMostTwo ==
  LET happened == [event |-> \E v \in Events : send[v].pc # "idle",
                   termination |-> row.termination \/ \E c \in Controllers : job[c].op = "terminate",
                   fault |-> faults # 0,
                   late |-> \E e \in Epochs : Executes(e) /\ Overdue(e)]
  IN /\ Cardinality({k \in DOMAIN happened : happened[k]}) <= 2
     /\ ~(happened.event /\ happened.late)

\* The calls are interchangeable; the Hosts are not, for only one of them polls.
Symmetric == Permutations(Controllers)

=============================================================================
