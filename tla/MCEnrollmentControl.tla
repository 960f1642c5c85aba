-------------------------- MODULE MCEnrollmentControl -------------------------
(***************************************************************************)
(* EnrollmentControl for TLC: two bus connections of one account.          *)
(***************************************************************************)
EXTENDS EnrollmentControl, TLC

CONSTANT u1

SameAccount == [s \in Senders |-> u1]

Symmetry == Permutations(Senders)

===============================================================================
