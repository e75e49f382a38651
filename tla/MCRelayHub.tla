----------------------------- MODULE MCRelayHub -----------------------------
(* Instances of RelayHub for TLC: identities are interchangeable.          *)
EXTENDS RelayHub, TLC

Symmetry == Permutations(Sandboxes) \cup Permutations(Supervisors)
            \cup Permutations(Openers) \cup Permutations(Relays)
=============================================================================
