------------------------- MODULE MCCredentialStore --------------------------
(* Instances of CredentialStore for TLC.                                   *)
EXTENDS CredentialStore, TLC

Symmetry == Permutations(Names) \cup Permutations(Providers)
            \cup Permutations(Tokens) \cup Permutations(Sessions)
            \cup Permutations(Bearers)
=============================================================================
