------------------------------ MODULE MCPodium ------------------------------
(* Small instances of FinalPodium: finalists f1 to f3.                       *)
EXTENDS FinalPodium, TLC

CONSTANTS f1, f2, f3, c1, c2

Three == {f1, f2, f3}

\* f1 was given a spare duck since Round One; the others race the winning one.
DucksAtStart == [r \in Racers |-> IF r = f1 THEN 2 ELSE 1]

\* The clients are interchangeable.
Swap == Permutations(Clients)
=============================================================================
