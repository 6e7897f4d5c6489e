------------------------------ MODULE HeatLayout ------------------------------
(* The Round One heats while registration is open and closed: pairing builds  *)
(* them, closing registration folds short heats together, reopening takes the *)
(* folds apart, a roster may be replaced, and starting the round locks them.  *)
(*                                                                            *)
(* A lifecycle command or a pairing reads the heats, plans its statements and *)
(* runs them later as one transaction, whose guards are all that stand        *)
(* between the plan and whatever was committed in between.  A request with    *)
(* its plan is an element of `req`.                                           *)
EXTENDS Integers, FiniteSets, Sequences, FiniteSetsExt

CONSTANTS
  Racers,              \* participants of the event
  Early,               \* bound: those who register before the first pairing
  MayLeave,            \* bound: those who may withdraw or lose their duck
  Clients,             \* bound: requests in flight
  Capacity,            \* events.round_one_heat_capacity
  FinalCapacity,       \* events.final_heat_capacity
  MinimumHeatSize,     \* MINIMUM_HEAT_SIZE, 3 in the code
  MaxHeat,             \* bound: the heat numbers
  OvertakeReopening,   \* bound: may a roster replacement, or another reopening,
                       \* overtake a reopening between its read and its transaction?
  OvertakeClosing,     \* bound: may a reopening overtake a closing?
  LeaveDuringPairing   \* bound: may racers withdraw while they are being paired?

\* normalizedHeatCapacity refuses a heat capacity below the minimum.
ASSUME LayoutAssumption ==
  /\ IsFiniteSet(Racers) /\ Early \subseteq Racers /\ MayLeave \subseteq Racers
  /\ MinimumHeatSize \in Nat \ {0}
  /\ Capacity \in Nat /\ Capacity >= MinimumHeatSize
  /\ FinalCapacity \in Nat \ {0} /\ MaxHeat \in Nat /\ MaxHeat >= FinalCapacity
  /\ {OvertakeReopening, OvertakeClosing, LeaveDuringPairing} \subseteq BOOLEAN

VARIABLES
  event,  \* events.status
  heat,   \* the heats by heat_number: status ("none": no row) and target_size
  place,  \* heat_entries: each racer's heat (0: no row) and slot_number
  reg,    \* registrations.status ("absent": not registered yet)
  held,   \* the racers with an open duck assignment
  req     \* the requests in flight

vars == <<event, heat, place, reg, held, req>>

-----------------------------------------------------------------------------
Numbers == 1..MaxHeat
NoHeat == [status |-> "none", target |-> 0]
Planned(size) == [status |-> "PLANNED", target |-> size]
Nowhere == [heat |-> 0, slot |-> 0]
Idle == [op |-> "idle"]

Heats(hs) == {n \in Numbers : hs[n].status # "none"}
In(ps, n) == {r \in Racers : ps[r].heat = n}
Size(ps, n) == Cardinality(In(ps, n))
\* ORDER BY slot_number: the i-th of S has i - 1 before it.
InOrder(S, ps) ==
  [i \in 1..Cardinality(S) |->
     CHOOSE r \in S : Cardinality({s \in S : ps[s].slot < ps[r].slot}) = i - 1]
Roster(ps, n) == InOrder(In(ps, n), ps)
\* COALESCE(MAX(heat_number), 0) + 1.
NextNumber(hs) == Max(Heats(hs) \cup {0}) + 1

Init ==
  /\ event = "OPEN"
  /\ heat = [n \in Numbers |-> NoHeat]
  /\ place = [r \in Racers |-> Nowhere]
  /\ reg = [r \in Racers |-> IF r \in Early THEN "SUBMITTED" ELSE "absent"]
  /\ held = {}
  /\ req = [c \in Clients |-> Idle]

-----------------------------------------------------------------------------
(* A transaction.  A batch is a state of the heats and their entries, and     *)
(* whether every statement so far was accepted.                               *)

\* What a request cannot find any more: `dead` are heats whose row is deleted
\* since the request read it, `stale` racers whose entry row is not the one it
\* read (the numbers and the racers may have rows again).
Forgets(q, heats, racers) ==
  IF q = Idle THEN q
  ELSE [q EXCEPT !.dead = @ \cup heats, !.stale = @ \cup racers]

\* Ends request c and tells the others which rows are gone.
Ends(c, heats, racers) ==
  req' = [k \in Clients |-> IF k = c THEN Idle ELSE Forgets(req[k], heats, racers)]

\* The unlocked plan a request read as heat n.
Live(q, hs, n) == hs[n].status = "PLANNED" /\ n \notin q.dead

\* UNIQUE (heat_id, slot_number).
Distinct(ps) == \A r, s \in Racers :
  r # s /\ ps[r].heat # 0 => ps[r] # ps[s]

\* Mutant: the entries are written from the last to the first.
Moves_Reversed(q, ps, moved, from, into, base) ==
  [r \in Racers |->
     LET at == {i \in 1..Len(moved) : moved[i] = r}
     IN  IF at # {} /\ r \notin q.stale /\ ps[r].heat = from /\ from \notin q.dead
         THEN [heat |-> into, slot |-> base + 1 + Len(moved) - Min(at)]
         ELSE ps[r]]
\* UPDATE heat_entries SET heat_id, slot_number: one row at a time, by its id and
\* the heat it was read in.
Moves(q, ps, moved, from, into, base) ==
  [r \in Racers |->
     LET at == {i \in 1..Len(moved) : moved[i] = r}
     IN  IF at # {} /\ r \notin q.stale /\ ps[r].heat = from /\ from \notin q.dead
         THEN [heat |-> into, slot |-> base + Min(at)]
         ELSE ps[r]]

-----------------------------------------------------------------------------
(* Closing registration.                                                      *)

\* readRoundOneLayout: each heat's slots and roster.
Layout == [n \in {m \in Numbers : heat[m].status = "PLANNED"} |->
             [target |-> heat[n].target, roster |-> Roster(place, n)]]

TailOf(layout) == Max(DOMAIN layout)
BeforeTail(layout) == Max(DOMAIN layout \ {TailOf(layout)})

\* Nothing is short, or nothing is left to fold.
Runnable(layout) ==
  \/ Cardinality(DOMAIN layout) <= 1
  \/ \A n \in DOMAIN layout : Len(layout[n].roster) >= MinimumHeatSize
  \/ layout[TailOf(layout)].roster = <<>>

\* One pass: the last heat is folded into the one before, behind its roster.
FoldPass(layout) ==
  LET into == BeforeTail(layout)
      from == TailOf(layout)
  IN  [into |-> into, count |-> Len(layout[into].roster),
       from |-> from, moved |-> layout[from].roster]
FoldTail(layout) ==
  LET pass == FoldPass(layout)
  IN  [n \in DOMAIN layout \ {pass.from} |->
         IF n = pass.into THEN [layout[n] EXCEPT !.roster = @ \o pass.moved]
         ELSE layout[n]]

\* The layout after each pass.
Folding(layout) ==
  LET after[k \in 0..Cardinality(DOMAIN layout)] ==
        IF k = 0 THEN layout
        ELSE IF Runnable(after[k - 1]) THEN after[k - 1] ELSE FoldTail(after[k - 1])
  IN  after

\* Mutant: closing makes a single pass.
Merges_Once(layout) ==
  IF Runnable(layout) THEN <<>> ELSE <<FoldPass(layout)>>
\* planTailMerges: the passes until nothing is short.
Merges(layout) ==
  LET after == Folding(layout)
  IN  [k \in 1..Min({j \in DOMAIN after : Runnable(after[j])}) |->
         FoldPass(after[k - 1])]

\* Mutants: the emptied heat is deleted with the entries left in it; the fold does
\* not check that the target still has the entries it had.
Merge_Cascade(q, b, pass) ==
  LET claims == Live(q, b.heat, pass.into)
      size == Size(b.place, pass.into)
      ps == IF claims
            THEN Moves(q, b.place, pass.moved, pass.from, pass.into, pass.count)
            ELSE b.place
      claimed == IF claims THEN [b.heat EXCEPT ![pass.into].target = size] ELSE b.heat
  IN  [ok |-> b.ok /\ Distinct(ps) /\ (claims => size = pass.count /\ size > 0),
       heat |-> IF Live(q, b.heat, pass.from)
                THEN [claimed EXCEPT ![pass.from] = NoHeat] ELSE claimed,
       place |-> ps]
Merge_Unclaimed(q, b, pass) ==
  LET claims == Live(q, b.heat, pass.into)
      ps == IF claims
            THEN Moves(q, b.place, pass.moved, pass.from, pass.into, pass.count)
            ELSE b.place
      deletes == Live(q, b.heat, pass.from)
  IN  [ok |-> b.ok /\ Distinct(ps) /\ (deletes => In(ps, pass.from) = {}),
       heat |-> IF deletes THEN [b.heat EXCEPT ![pass.from] = NoHeat] ELSE b.heat,
       place |-> ps]
\* mergeStatements: claim the target's slots, move the tail's entries behind
\* them, delete the emptied tail (ON DELETE RESTRICT).
Merge(q, b, pass) ==
  LET claims == Live(q, b.heat, pass.into)
      size == Size(b.place, pass.into)
      ps == IF claims
            THEN Moves(q, b.place, pass.moved, pass.from, pass.into, pass.count)
            ELSE b.place
      deletes == Live(q, b.heat, pass.from)
      claimed == IF claims THEN [b.heat EXCEPT ![pass.into].target = size] ELSE b.heat
  IN  [ok |-> /\ b.ok /\ Distinct(ps)
              /\ claims => size = pass.count /\ size > 0
              /\ deletes => In(ps, pass.from) = {},
       heat |-> IF deletes THEN [claimed EXCEPT ![pass.from] = NoHeat] ELSE claimed,
       place |-> ps]

\* A transaction that has not begun, and what it is after each pass.
Untouched == [ok |-> TRUE, heat |-> heat, place |-> place]
Fold(q) ==
  LET run[i \in 0..Len(q.passes)] ==
        IF i = 0 THEN Untouched ELSE Merge(q, run[i - 1], q.passes[i])
  IN  run
Folded(q) == Fold(q)[Len(q.passes)]

Request(op, passes) == [op |-> op, passes |-> passes, dead |-> {}, stale |-> {}]

\* The layout is read in two steps: a request that commits in between makes them
\* disagree, and then nothing is planned.
Disagreement == IF \E c \in Clients : req[c] # Idle THEN {<<>>} ELSE {}

\* runLifecycleCommand, CLOSE_REGISTRATION, up to the transaction.
BeginClose(c) ==
  /\ req[c] = Idle /\ event = "OPEN"
  /\ \E passes \in {Merges(Layout)} \cup Disagreement :
       req' = [req EXCEPT ![c] = Request("close", passes)]
  /\ UNCHANGED <<event, heat, place, reg, held>>

\* The transaction.  Every statement depends on the command row, which an event
\* that is not open any more refuses.
CommitClose(c) ==
  /\ req[c].op = "close"
  /\ LET b == Folded(req[c])
         commits == event = "OPEN" /\ b.ok
     IN  /\ event' = IF commits THEN "CLOSED" ELSE event
         /\ heat' = IF commits THEN b.heat ELSE heat
         /\ place' = IF commits THEN b.place ELSE place
         /\ Ends(c, IF commits THEN Heats(heat) \ Heats(b.heat) ELSE {}, {})
  /\ UNCHANGED <<reg, held>>

-----------------------------------------------------------------------------
(* Reopening registration.                                                    *)

\* Mutant: a heat is split when it is above the event's capacity, not its own.
Over_Capacity(layout) ==
  {n \in DOMAIN layout : Len(layout[n].roster) > Capacity}
Over(layout) ==
  {n \in DOMAIN layout : Len(layout[n].roster) > layout[n].target}

\* No heat holds more than its own slots, or the final cannot hold another.
Restored(layout) ==
  Cardinality(DOMAIN layout) >= FinalCapacity \/ Over(layout) = {}

\* One pass: the first such heat keeps its slots, and the racers past them get a
\* new last heat.  Both own a capacity of slots from then on.
SplitPass(layout) ==
  LET from == Min(Over(layout))
      keeps == layout[from].target
      roster == layout[from].roster
  IN  [from |-> from, keeps |-> keeps, into |-> Max(DOMAIN layout) + 1,
       moved |-> SubSeq(roster, keeps + 1, Len(roster))]
SplitHeat(layout) ==
  LET pass == SplitPass(layout)
  IN  [n \in DOMAIN layout \cup {pass.into} |->
         CASE n = pass.into -> [target |-> Capacity, roster |-> pass.moved]
           [] n = pass.from -> [target |-> Capacity,
                                roster |-> SubSeq(layout[n].roster, 1, pass.keeps)]
           [] OTHER -> layout[n]]

Splitting(layout) ==
  LET after[k \in 0..FinalCapacity] ==
        IF k = 0 THEN layout
        ELSE IF Restored(after[k - 1]) THEN after[k - 1] ELSE SplitHeat(after[k - 1])
  IN  after

\* planTailSplits: the passes until every heat holds its own again.
Splits(layout) ==
  LET after == Splitting(layout)
  IN  [k \in 1..Min({j \in DOMAIN after : Restored(after[j])}) |->
         SplitPass(after[k - 1])]

\* The new heat appears only while exactly the planned entries are past the slots
\* the source keeps and the final can hold it.
SplitFits(q, b, pass) ==
  /\ Cardinality({r \in In(b.place, pass.from) : b.place[r].slot > pass.keeps})
       = Len(pass.moved)
  /\ Cardinality(Heats(b.heat)) < FinalCapacity
  /\ Live(q, b.heat, pass.from)

\* splitStatements: insert the heat, give the source its slots back, move the
\* entries; a move into a heat that does not exist violates the foreign key.
Split(q, b, pass) ==
  LET inserts == SplitFits(q, b, pass)
      ps == Moves(q, b.place, pass.moved, pass.from, pass.into, 0)
      returned == IF Live(q, b.heat, pass.from)
                  THEN [b.heat EXCEPT ![pass.from].target = Capacity] ELSE b.heat
  IN  [ok |-> /\ b.ok /\ Distinct(ps)
              /\ inserts => b.heat[pass.into] = NoHeat
              /\ ps # b.place => inserts,
       heat |-> IF inserts THEN [returned EXCEPT ![pass.into] = Planned(Capacity)]
                ELSE returned,
       place |-> ps]

Unfold(q) ==
  LET run[i \in 0..Len(q.passes)] ==
        IF i = 0 THEN Untouched ELSE Split(q, run[i - 1], q.passes[i])
  IN  run
Unfolded(q) == Unfold(q)[Len(q.passes)]

Reopening == \E c \in Clients : req[c].op = "reopen"
Closing == \E c \in Clients : req[c].op = "close"

\* runLifecycleCommand, REOPEN_REGISTRATION.
BeginReopen(c) ==
  /\ req[c] = Idle /\ event = "CLOSED"
  /\ OvertakeReopening \/ ~Reopening
  /\ \E passes \in {Splits(Layout)} \cup Disagreement :
       /\ \A i \in 1..Len(passes) : passes[i].into \in Numbers
       /\ req' = [req EXCEPT ![c] = Request("reopen", passes)]
  /\ UNCHANGED <<event, heat, place, reg, held>>

CommitReopen(c) ==
  /\ req[c].op = "reopen"
  /\ OvertakeClosing \/ ~Closing
  /\ LET b == Unfolded(req[c])
         commits == /\ event = "CLOSED" /\ b.ok
                    /\ \A n \in Heats(heat) : heat[n].status = "PLANNED"
     IN  /\ event' = IF commits THEN "OPEN" ELSE event
         /\ heat' = IF commits THEN b.heat ELSE heat
         /\ place' = IF commits THEN b.place ELSE place
         /\ Ends(c, {}, {})
  /\ UNCHANGED <<reg, held>>

-----------------------------------------------------------------------------
(* Pairing.                                                                   *)

\* pairDuck's choice: the place the racer holds, the first heat with room, or a
\* new heat behind the last (refused when the final could not hold it).
Chosen(r) ==
  LET roomy == {n \in Heats(heat) : Size(place, n) < Capacity}
      next == NextNumber(heat)
  IN  IF place[r].heat # 0 THEN {[kind |-> "keep", heat |-> place[r].heat]}
      ELSE IF roomy # {} THEN {[kind |-> "join", heat |-> Min(roomy)]}
      ELSE {[kind |-> "new", heat |-> n] :
              n \in {k \in Numbers : k = next /\ Cardinality(Heats(heat)) < FinalCapacity}}

\* Before the round the scan of a duck and the choice of a heat; see CommitPair.
BeginPair(c, r) ==
  /\ req[c] = Idle /\ event # "ROUND_ONE"
  /\ reg[r] = "SUBMITTED" /\ r \notin held
  /\ \E choice \in Chosen(r) :
       req' = [req EXCEPT ![c] = [op |-> "pair", racer |-> r, kind |-> choice.kind,
                                  heat |-> choice.heat, dead |-> {}, stale |-> {}]]
  /\ UNCHANGED <<event, heat, place, reg, held>>

\* The guarded insert of a heat: as a plan, whatever the event's status is by now.
NewHeat(q) ==
  IF q.kind = "new" /\ Cardinality(Heats(heat)) < FinalCapacity
  THEN [heat EXCEPT ![q.heat] = Planned(Capacity)]
  ELSE heat

\* The constraints on the assignment, the heat and the entry: one open duck per
\* racer, one heat per number, an existing heat with room, one place per racer.
Accepts(q, hs) ==
  /\ q.racer \notin held
  /\ q.kind = "new" => hs # heat /\ heat[q.heat] = NoHeat
  /\ q.kind = "join" => hs[q.heat] # NoHeat /\ q.heat \notin q.dead
  /\ q.kind # "keep" => Size(place, q.heat) < Capacity /\ place[q.racer] = Nowhere

\* The transaction of pairDuck.  The racer becomes ACTIVE whatever they are now.
CommitPair(c) ==
  /\ req[c].op = "pair"
  /\ LET q == req[c]
         hs == NewHeat(q)
         entry == [heat |-> q.heat, slot |-> Size(place, q.heat) + 1]
         ps == IF q.kind = "keep" THEN place ELSE [place EXCEPT ![q.racer] = entry]
         commits == Accepts(q, hs) /\ Distinct(ps)
     IN  /\ heat' = IF commits THEN hs ELSE heat
         /\ place' = IF commits THEN ps ELSE place
         /\ reg' = IF commits THEN [reg EXCEPT ![q.racer] = "ACTIVE"] ELSE reg
         /\ held' = IF commits THEN held \cup {q.racer} ELSE held
         /\ Ends(c, {}, {})
  /\ UNCHANGED event

-----------------------------------------------------------------------------
(* The roster and the participants.                                           *)

Unplaced == {r \in Racers : place[r] = Nowhere}
MayRace(r) == reg[r] = "ACTIVE" /\ r \in held

\* The rosters a director is tried with: the racers who may still race, without
\* one of them, or with one who has no place.
Lineups(n) ==
  LET stay == {r \in In(place, n) : MayRace(r)}
  IN  {InOrder(S, place) : S \in {stay} \cup {stay \ {r} : r \in stay}}
      \cup {Append(InOrder(stay, place), r) : r \in {x \in Unplaced : MayRace(x)}}

\* updateRoster, REPLACE_HEAT_ROSTER: every entry of the heat is deleted and the
\* new ones are written from slot 1; the heat owns exactly those slots.  The
\* heat's revision keeps out folds, splits and other replacements between the
\* operator's read and the transaction.
ReplaceRoster(n) ==
  /\ event = "CLOSED" /\ heat[n].status = "PLANNED"
  /\ OvertakeReopening \/ ~Reopening
  /\ \E ids \in Lineups(n) :
       /\ ids # <<>> /\ ids # Roster(place, n)
       /\ place' = [r \in Racers |->
            IF \E i \in 1..Len(ids) : ids[i] = r
            THEN [heat |-> n, slot |-> CHOOSE i \in 1..Len(ids) : ids[i] = r]
            ELSE IF place[r].heat = n THEN Nowhere ELSE place[r]]
       /\ heat' = [heat EXCEPT ![n].target = Len(ids)]
  /\ req' = [c \in Clients |-> Forgets(req[c], {}, In(place, n))]
  /\ UNCHANGED <<event, reg, held>>

\* createRegistration, or createWalkUp at the desk.
Register(r) ==
  /\ event = "OPEN" /\ reg[r] = "absent"
  /\ reg' = [reg EXCEPT ![r] = "SUBMITTED"]
  /\ UNCHANGED <<event, heat, place, held, req>>

Pairing(r) == \E c \in Clients : req[c].op = "pair" /\ req[c].racer = r

\* changeRegistrationStatus: the duck and the place stay with the racer.
Withdraw(r) ==
  /\ r \in MayLeave /\ event # "ROUND_ONE"
  /\ reg[r] \in {"SUBMITTED", "ACTIVE"}
  /\ LeaveDuringPairing \/ ~Pairing(r)
  /\ reg' = [reg EXCEPT ![r] = "WITHDRAWN"]
  /\ UNCHANGED <<event, heat, place, held, req>>

Reactivate(r) ==
  /\ event # "ROUND_ONE" /\ reg[r] = "WITHDRAWN"
  /\ reg' = [reg EXCEPT ![r] = IF r \in held THEN "ACTIVE" ELSE "SUBMITTED"]
  /\ UNCHANGED <<event, heat, place, held, req>>

\* deleteDuck and unassignDuck: the racer goes back to the pairing desk and
\* keeps the place.
LoseDuck(r) ==
  /\ r \in MayLeave /\ event # "ROUND_ONE" /\ r \in held
  /\ held' = held \ {r}
  /\ reg' = [reg EXCEPT ![r] = IF @ = "ACTIVE" THEN "SUBMITTED" ELSE @]
  /\ UNCHANGED <<event, heat, place, req>>

\* Mutant: the round starts although somebody is still to be paired.
Startable_Unpaired ==
  /\ \E r \in Racers : reg[r] = "ACTIVE"
  /\ \A r \in Racers : reg[r] = "ACTIVE" => r \in held /\ place[r] # Nowhere
\* Nobody waits for a duck, and everybody who races has a duck and a place.
Startable ==
  /\ \E r \in Racers : reg[r] = "ACTIVE"
  /\ \A r \in Racers : /\ reg[r] # "SUBMITTED"
                       /\ reg[r] = "ACTIVE" => r \in held /\ place[r] # Nowhere

\* runLifecycleCommand, START_ROUND_ONE, whose conditions are all in the
\* transaction: every heat is large enough and has somebody to win it.
\* lockRoundStatement locks the planned heats.  The heats after the start are
\* RoundOneRace's.
StartRoundOne ==
  /\ event = "CLOSED" /\ Startable
  /\ Heats(heat) # {} /\ Cardinality(Heats(heat)) <= FinalCapacity
  /\ \A n \in Heats(heat) : /\ Size(place, n) >= MinimumHeatSize
                            /\ \E r \in In(place, n) : reg[r] = "ACTIVE"
  /\ event' = "ROUND_ONE"
  /\ heat' = [n \in Numbers |-> IF heat[n].status = "PLANNED"
                                THEN [heat[n] EXCEPT !.status = "LOADING"] ELSE heat[n]]
  /\ UNCHANGED <<place, reg, held, req>>

-----------------------------------------------------------------------------
Next ==
  \/ \E c \in Clients : \/ BeginClose(c) \/ CommitClose(c)
                        \/ BeginReopen(c) \/ CommitReopen(c)
                        \/ CommitPair(c)
                        \/ \E r \in Racers : BeginPair(c, r)
  \/ \E n \in Numbers : ReplaceRoster(n)
  \/ \E r \in Racers : Register(r) \/ Withdraw(r) \/ Reactivate(r) \/ LoseDuck(r)
  \/ StartRoundOne

Spec == Init /\ [][Next]_vars

-----------------------------------------------------------------------------
(* Properties.                                                                *)

\* The state has its type: an entry lies in an existing heat, heats own at least
\* one slot, and only those who once registered hold a duck or a place.
TypeOK ==
  /\ event \in {"OPEN", "CLOSED", "ROUND_ONE"}
  /\ heat \in [Numbers -> {NoHeat} \cup
       [status : {"PLANNED", "LOADING"}, target : Nat \ {0}]]
  /\ \A r \in Racers : place[r] = Nowhere
       \/ /\ place[r].heat \in Heats(heat)
          /\ place[r].slot \in Nat \ {0}
  /\ reg \in [Racers -> {"absent", "SUBMITTED", "ACTIVE", "WITHDRAWN"}]
  /\ \A r \in Racers : reg[r] = "absent" => r \notin held /\ place[r] = Nowhere
  /\ \A c \in Clients :
       /\ req[c].op \in {"idle", "pair", "close", "reopen"}
       /\ req[c].op = "pair" => /\ req[c].racer \in Racers
                                /\ req[c].kind \in {"keep", "join", "new"}
                                /\ req[c].heat \in Numbers

\* A heat's entries fill its slots from 1 without a gap, whatever plans were run
\* against heats that pairings and other lifecycle commands had changed since: the
\* slot a pairing or a fold computes by counting entries is the next free one.
\* Where closings are overtaken by several others, the code does not keep it.
SlotsContiguous ==
  \A n \in Heats(heat) : {place[r].slot : r \in In(place, n)} = 1..Size(place, n)

\* While registration is open, closing it now commits, and leaves only heats that
\* can race, unless fewer racers than one heat needs have a place at all.
ClosingMends ==
  LET b == Folded(Request("close", Merges(Layout)))
  IN  event = "OPEN" =>
        /\ b.ok
        /\ \/ \A n \in Heats(b.heat) : Size(b.place, n) >= MinimumHeatSize
           \/ Cardinality({r \in Racers : place[r] # Nowhere}) < MinimumHeatSize

\* While registration is closed, reopening it now commits, and leaves every heat
\* with no more racers than it owns slots, as far as the final has places for
\* the heats that takes.
ReopeningMends ==
  LET passes == Splits(Layout)
      b == Unfolded(Request("reopen", passes))
  IN  event = "CLOSED" /\ (\A i \in 1..Len(passes) : passes[i].into \in Numbers) =>
        /\ b.ok
        /\ \/ \A n \in Heats(b.heat) : Size(b.place, n) <= b.heat[n].target
           \/ Cardinality(Heats(b.heat)) = FinalCapacity

\* When the round runs, every heat is locked and large enough: a pairing that
\* chose its heat before the start finds it locked with room for one more, or
\* fails.
RoundIsLocked ==
  event = "ROUND_ONE" =>
    \A n \in Heats(heat) : /\ heat[n].status = "LOADING"
                           /\ Size(place, n) >= MinimumHeatSize

Together(ps, r, s) == ps[r].heat # 0 /\ ps[r].heat = ps[s].heat
Before(ps, r, s) == Together(ps, r, s) /\ ps[r].slot < ps[s].slot

\* A duck is sealed into its heat's bag in slot order, and nobody unpacks a bag:
\* no step but the replacement of a roster takes a place away, and no step
\* reverses the order of two racers of one heat.
PlacesAreKept ==
  [][/\ \A r \in Racers : place[r] # Nowhere /\ place'[r] = Nowhere => event = "CLOSED"
     /\ \A r, s \in Racers : Before(place, r, s) => ~Before(place', s, r)]_vars

=============================================================================
