--------------------------- MODULE MCCronDelivery ---------------------------
(* Two triggers scanned one per page, by two Hosts whose clocks show two minutes. *)
EXTENDS CronDelivery, TLC

CONSTANTS h1, h2, v1, v2, resolved, rejected

\* Hosts are interchangeable, and so are Versions and the two answers.
Symmetric == Permutations(Hosts) \cup Permutations(Versions) \cup Permutations(Answers)

=============================================================================
