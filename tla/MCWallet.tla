------------------------------ MODULE MCWallet ------------------------------
(* Small instances of Wallet. *)
EXTENDS Wallet, TLC

\* Lot 1 was bought at a discount, so that refunds are rounded.
Amounts == [l \in Lots |-> IF l = 1 THEN 3 ELSE 1]
Paid == [l \in Lots |-> IF l = 1 THEN 2 ELSE 1]
Prices == [r \in Refs |-> 2]

\* No capture is in flight together with a release.
CapturesAlone ==
  \A b, c \in Callers : call[b].kind = "capture" => call[c].kind # "release"

Interchangeable == Permutations(Callers) \cup Permutations(Refs)

=============================================================================
