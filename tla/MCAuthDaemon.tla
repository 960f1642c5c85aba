------------------------------ MODULE MCAuthDaemon ----------------------------
(***************************************************************************)
(* AuthDaemon for TLC.  Clients differ only in name, so invariants may be  *)
(* checked up to a permutation of them.                                    *)
(***************************************************************************)
EXTENDS AuthDaemon, TLC

Symmetry == Permutations(Clients)

===============================================================================
