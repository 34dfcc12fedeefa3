-------------------------- MODULE MCHostOperations --------------------------
(* Instances of HostOperations for TLC. *)
EXTENDS HostOperations, TLC

NoTargets == {{}}

\* Idempotency keys, concurrent requests and concurrent passes are interchangeable.
Interchangeable == Permutations(Keys) \cup Permutations(Workers) \cup Permutations(Clients)

=============================================================================
