------------------------------ MODULE MCOvertaken ------------------------------
(* One long behaviour of HeatLayout: a closing is read, and before it commits *)
(* others close registration and reopen it four times and replace rosters.    *)
(* An instance with so many racers is beyond an exhaustive search, so the     *)
(* commands follow a script; every step is a step of HeatLayout.              *)
EXTENDS HeatLayout

CONSTANTS slow, desk   \* the closing that is overtaken, and everybody else

VARIABLE at            \* the place in the script

Pairings(k) == [i \in 1..k |-> [do |-> "pair"]]
Close == <<[do |-> "close"]>>
Reopen == <<[do |-> "reopen"]>>
\* The last k racers of heat n lose their places.
Cut(n, k) == [i \in 1..k |-> [do |-> "cut", heat |-> n]]

Script ==
  \* Six heats, of 4, 4, 2, 4, 4 and 1 racers, the fourth owning two slots.
  Pairings(16) \o Close \o Cut(4, 2) \o Reopen
  \o Pairings(10) \o Close \o Cut(3, 2) \o Cut(6, 3) \o Reopen
  \* The slow closing reads: all of heats 6, 5 and 4 are to go into heat 3.
  \o <<[do |-> "read"]>>
  \* The others fold heats 6 and 5 into heat 4 and split it again, until heat 4
  \* has four racers, two of them from heat 5, and heat 3 has two once more.
  \o Pairings(2) \o Close \o Cut(3, 1) \o Reopen
  \o Close \o Cut(1, 1) \o Cut(2, 1) \o Reopen
  \o Pairings(2) \o Close \o Reopen
  \o Close \o Cut(3, 1) \o Reopen
  \* Two of those four move behind the two of heat 3, and two to where they
  \* would have come after two more.
  \o <<[do |-> "commit"]>>

Now(do) == at <= Len(Script) /\ Script[at].do = do
Goes == at' = at + 1
Stays == UNCHANGED at

Scripted ==
  \/ /\ Now("pair")
     /\ \/ /\ \E r \in Racers : /\ \A s \in Racers : reg[s] = "SUBMITTED" => r <= s
                                /\ BeginPair(desk, r)
           /\ Stays
        \/ CommitPair(desk) /\ Goes
  \/ /\ Now("close")
     /\ \/ BeginClose(desk) /\ req'[desk].passes = Merges(Layout) /\ Stays
        \/ CommitClose(desk) /\ Goes
  \/ /\ Now("reopen")
     /\ \/ BeginReopen(desk) /\ req'[desk].passes = Splits(Layout) /\ Stays
        \/ CommitReopen(desk) /\ Goes
  \/ LET n == Script[at].heat
         ids == Roster(place, n)
     IN  /\ Now("cut") /\ ReplaceRoster(n)
         /\ place'[ids[Len(ids)]] = Nowhere
         /\ Goes
  \/ Now("read") /\ BeginClose(slow) /\ req'[slow].passes = Merges(Layout) /\ Goes
  \/ Now("commit") /\ CommitClose(slow) /\ Goes

Overtaken == Init /\ at = 1 /\ [][Scripted]_<<vars, at>>
=============================================================================
