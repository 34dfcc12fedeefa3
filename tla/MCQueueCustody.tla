--------------------------- MODULE MCQueueCustody ---------------------------
(* A Consumer whose policy changes between one retry with a dead-letter Queue and none without. *)
EXTENDS QueueCustody, TLC

CONSTANTS m1, m2, b1, b2, b3, c1, c2, patient, strict

RetriesOf == [p \in Policies |-> IF p = patient THEN 1 ELSE 0]

\* Messages are interchangeable, and so are batches and Consumer uids.
Symmetric == Permutations(Messages) \cup Permutations(Batches) \cup Permutations(Consumers)

=============================================================================
