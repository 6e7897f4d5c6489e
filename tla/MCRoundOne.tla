----------------------------- MODULE MCRoundOne -----------------------------
(* Small instances of RoundOneRace.  Racers a1, a2, a3 are drawn into heat 1,  *)
(* b1, b2, b3 into heat 2; the walk-ups w1 and w2 start without a heat.      *)
EXTENDS RoundOneRace, TLC

CONSTANTS a1, a2, a3, b1, b2, b3, w1, w2, c1, c2

HeatA == {a1, a2, a3}
HeatB == {b1, b2, b3}
TwoHeats == HeatA \cup HeatB
OneHeatTwoWalkUps == HeatA \cup {w1, w2}
Draw == [r \in Racers |-> CASE r \in HeatA -> 1 [] r \in HeatB -> 2
                            [] OTHER -> NoHeat]

\* Racers of one heat who are treated alike are interchangeable, and so are
\* the commands in flight.
Swap == Permutations(Clients) \cup Permutations({b1, b2})
SwapWalkUps == Permutations(Clients) \cup Permutations({w1, w2})
=============================================================================
