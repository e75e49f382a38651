---------------------------- MODULE MCPolicyFlow ----------------------------
(* Instances of PolicyFlow for TLC.                                        *)
EXTENDS PolicyFlow, TLC

\* Every rule clashes with the global policy; the empty policy does not.
AllClash == Rules \X Globals

\* Registration with no base; with none or all rules; and with text that does
\* not parse as well.
NoBase == {NULL}
FullBase == {NULL, Rules}
TextBase == {BROKEN, NULL, Rules}

Symmetry == Permutations(Names) \cup Permutations(Rules)
            \cup Permutations(Globals) \cup Permutations(Providers)
            \cup Permutations(Profiles) \cup Permutations(Proposals)
            \cup Permutations(Calls)
=============================================================================
