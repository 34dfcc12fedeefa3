------------------------- MODULE MCOperationLedger -------------------------
(* Instances of OperationLedger for TLC. *)
EXTENDS OperationLedger, TLC

\* Reference sets: none, or one Resource.
AtMostOneTarget == {refs \in SUBSET Uids : Cardinality(refs) <= 1}

\* No statement of the ledger reads "older", which of the free keys an Operation took, or
\* the schedule and the effect of a settled one: states that differ in these only are
\* explored once.
Read(row) ==
  CASE row.status = "absent" -> row
    [] row.status \in Open -> [row EXCEPT !.req.key = None]
    [] OTHER -> [row EXCEPT !.req.key = None, !.due = FALSE, !.effect = "none"]

Essence == <<res, [o \in Ops |-> Read(op[o])], edges>>

=============================================================================
