------------------------------- MODULE MCLayout -------------------------------
(* Small instances of HeatLayout: heats of two, of which three racers fill   *)
(* one and a half; one of them may leave.                                     *)
EXTENDS HeatLayout, TLC

CONSTANTS r1, r2, r3, c1, c2

\* Racers who are there from the start and stay, and requests, are alike.
Symmetric == Permutations(Early \ MayLeave) \cup Permutations(Clients)
=============================================================================
