------------------------------- MODULE MCStaff -------------------------------
(* A small instance of StaffAccess: two administrators, one of whom may be   *)
(* demoted, and an account to be granted.                                    *)
EXTENDS StaffAccess, TLC

CONSTANTS ann, bob, eve, r1, i1, i2, c1, c2

Symmetric == Permutations(Ids) \cup Permutations(Clients)
=============================================================================
