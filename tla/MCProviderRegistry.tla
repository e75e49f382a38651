------------------------ MODULE MCProviderRegistry ------------------------
(* Instances of ProviderRegistry for TLC.                                  *)
EXTENDS ProviderRegistry, TLC

CONSTANTS p1, p2

\* Any two requests on the records of one provider; the list of two providers,
\* where a failed write changes the answer only.
SomeCasts ==
    {[kinds |-> {"put", "delete", "set", "unset", "rotate", "restart"},
      provs |-> {p1}, most |-> 2, outcomes |-> {0, 1}],
     [kinds |-> {"attach", "detach", "sandbox", "resolve", "restart"},
      provs |-> {p1, p2}, most |-> 1, outcomes |-> {1}]}

SomeLists == {<<>>, <<p1, p2>>}

Symmetry == Permutations(Keys) \cup Permutations(Requests)
=============================================================================
