----------------------- MODULE MCSupervisorLifecycle ------------------------
(* Instances of SupervisorLifecycle for TLC.                               *)
EXTENDS SupervisorLifecycle, TLC

Symmetry == UNION {Permutations(S) : S \in {Names, Tokens, Sessions, Controls,
                                            Datas, Admins, Minters, Clients}}
=============================================================================
