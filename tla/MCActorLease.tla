---------------------------- MODULE MCActorLease ----------------------------
(* Three Hosts that each try once: two of them can race over what the third leaves. *)
EXTENDS ActorLease, TLC

CONSTANTS h1, h2, h3

Callers == [h \in Attempts |-> h]

\* Hosts and their attempts are interchangeable.
Symmetric == Permutations(Attempts)

=============================================================================
