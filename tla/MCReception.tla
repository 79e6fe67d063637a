----------------------------- MODULE MCReception -----------------------------
(* A small instance of Reception for TLC. *)
EXTENDS Reception, TLC

CONSTANTS shared

\* Profiles have the same name and are told apart by the date of birth.
OneName == [p \in Profile |-> shared]

GuestSymmetry == Permutations(Guest)
=============================================================================
