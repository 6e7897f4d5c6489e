-------------------------- MODULE FinalPodiumProofs --------------------------
(* Proofs about FinalPodium, for every value of its constants.               *)
EXTENDS FinalPodium, FiniteSetTheorems, TLAPS

-----------------------------------------------------------------------------
(* Requests and rows.                                                        *)

\* Retiring requests leaves every other client's request as it was.
LEMMA LapseType ==
  ASSUME TypeOK, NEW S
  PROVE  Lapse(S) \in [Clients -> Requests]
BY DEF TypeOK, Lapse, Idle, Requests

LEMMA MovedType ==
  ASSUME TypeOK
  PROVE  Moved \in [Clients -> Requests]
BY LapseType DEF Moved

\* A request taken in by one client.
LEMMA RequestType ==
  ASSUME TypeOK, NEW c \in Clients, NEW q \in Requests
  PROVE  [req EXCEPT ![c] = q] \in [Clients -> Requests]
BY DEF TypeOK

\* What the requests that carry rows carry.
LEMMA CarriedType ==
  ASSUME TypeOK, NEW c \in Clients
  PROVE  /\ req[c].op = "scan" => /\ req[c].row \in Choice
                                  /\ req[c].carried \in SUBSET Choice
         /\ req[c].op \in {"record", "correct"} => req[c].rows \in (SUBSET Choice) \ {{}}
         /\ req[c].op = "pair" => req[c].racer \in Racers
         /\ req[c].op = "reactivate" => /\ req[c].racer \in Racers
                                        /\ req[c].target \in {"SUBMITTED", "ACTIVE"}
BY DEF TypeOK, Requests

\* A row names a racer, one of three places and the racer's duck.
LEMMA RowType ==
  ASSUME TypeOK, NEW r \in Racers, NEW p \in Places
  PROVE  Row(r, p) \in Choice
BY DEF TypeOK, Row, Choice

LEMMA StampType ==
  ASSUME NEW rows \in SUBSET Choice, NEW n \in 1..MaxRevision
  PROVE  {Stamp(x, n) : x \in rows} \subseteq Result
BY FinalAssumption DEF Stamp, Choice, Result

\* The final has at most three places, and no more than eligible racers.
LEMMA DepthType == Depth \in 0..FinalPodiumDepth
<1>1. IsFiniteSet(Eligible)
  BY FinalAssumption, FS_Subset DEF Eligible
<1>2. Cardinality(Eligible) \in Nat
  BY <1>1, FS_CardinalityType
<1>3. QED
  BY <1>2 DEF Depth, FinalPodiumDepth

LEMMA PodiumsType ==
  ASSUME TypeOK, Depth > 0, NEW rows \in Podiums
  PROVE  rows \in (SUBSET Choice) \ {{}}
<1>1. PICK order \in [1..Depth -> {r \in Eligible : held[r]}] :
        rows = {Row(order[p], p) : p \in 1..Depth}
  BY DEF Podiums
<1>2. ASSUME NEW p \in 1..Depth PROVE Row(order[p], p) \in Choice
  <2>1. p \in Places
    BY DepthType DEF Places, FinalPodiumDepth
  <2>2. order[p] \in Racers
    BY <1>1 DEF Eligible
  <2>3. QED
    BY <2>1, <2>2, RowType
<1>3. 1 \in 1..Depth
  BY DepthType
<1>4. QED
  BY <1>1, <1>2, <1>3

-----------------------------------------------------------------------------
(* Type correctness, one lemma per group of actions.                         *)

LEMMA InitType == Init => TypeOK
BY FinalAssumption
DEF Init, TypeOK, HeatStatus, RegStatus, Requests, Idle

LEMMA TransitionType ==
  ASSUME TypeOK, NEW from, NEW to \in HeatStatus, Transition(from, to)
  PROVE  TypeOK'
BY MovedType DEF Transition, TypeOK, racerVars, resultVars

LEMMA RunHeatType == TypeOK /\ RunHeat => TypeOK'
<1> SUFFICES ASSUME TypeOK, RunHeat PROVE TypeOK'
  OBVIOUS
<1>1. CASE Ready
  BY <1>1, TransitionType DEF Ready, HeatStatus
<1>2. CASE Call
  BY <1>2, TransitionType DEF Call, HeatStatus
<1>3. CASE Start
  BY <1>3, TransitionType DEF Start, HeatStatus
<1>4. CASE Finish
  BY <1>4, TransitionType DEF Finish, HeatStatus
<1>5. CASE Reset
  BY <1>5, MovedType DEF Reset, AfterReset, TypeOK, HeatStatus, racerVars
<1>6. QED
  BY <1>1, <1>2, <1>3, <1>4, <1>5 DEF RunHeat

LEMMA ScanningType == TypeOK /\ Scanning => TypeOK'
<1> SUFFICES ASSUME TypeOK, Scanning PROVE TypeOK'
  OBVIOUS
<1>1. ASSUME NEW c \in Clients, NEW r \in Racers, NEW p \in Places, ScanBegin(c, r, p)
      PROVE  TypeOK'
  <2> DEFINE carried == {Row(s.racer, s.place) : s \in Visible}
             last == Cardinality(carried) + 1 = Depth
             q == [op |-> "scan", row |-> Row(r, p), carried |-> carried, last |-> last]
  <2>1. carried \in SUBSET Choice
    BY RowType DEF Visible, TypeOK, Choice
  <2>2. last \in BOOLEAN
    OBVIOUS
  <2>3. Row(r, p) \in Choice
    BY RowType
  <2> HIDE DEF carried, last
  <2>4. q \in Requests
    BY <2>1, <2>2, <2>3 DEF Requests
  <2>5. req' = [req EXCEPT ![c] = q]
    BY <1>1 DEF ScanBegin, carried, last
  <2> HIDE DEF q
  <2>6. req' \in [Clients -> Requests]
    BY <2>4, <2>5, RequestType
  <2>7. UNCHANGED <<raceVars, racerVars, selections, resultVars>>
    BY <1>1 DEF ScanBegin
  <2>8. QED
    BY <2>6, <2>7 DEF TypeOK, raceVars, racerVars, resultVars
<1>2. ASSUME NEW c \in Clients, ScanCommit(c) PROVE TypeOK'
  <2> DEFINE row == req[c].row
             rows == req[c].carried \cup {row}
  <2>1. row \in Choice /\ rows \in SUBSET Choice
    BY <1>2, CarriedType DEF ScanCommit
  <2>2. selections' \subseteq Choice
    BY <1>2, <2>1 DEF ScanCommit, Swept, AfterRecord, TypeOK
  <2>3. pending' \subseteq Result
    <3> HIDE DEF rows
    <3>1. CASE UNCHANGED pending
      BY <3>1 DEF TypeOK
    <3>2. CASE \E n \in 1..MaxRevision : pending' = {Stamp(x, n) : x \in rows}
      BY <3>2, <2>1, StampType
    <3>3. QED
      BY <1>2, <3>1, <3>2 DEF ScanCommit, rows
  <2>4. QED
    BY <1>2, <2>2, <2>3, MovedType DEF ScanCommit, TypeOK, raceVars, racerVars
<1>3. ASSUME NEW s \in selections, ClearPlace(s) PROVE TypeOK'
  BY <1>3, MovedType DEF ClearPlace, TypeOK, raceVars, racerVars, resultVars
<1>4. QED
  BY <1>1, <1>2, <1>3 DEF Scanning

LEMMA RecordingType == TypeOK /\ Recording => TypeOK'
<1> SUFFICES ASSUME TypeOK, NEW c \in Clients,
                    \/ RecordBegin(c) \/ RecordCommit(c)
                    \/ AnnounceBegin(c) \/ AnnounceCommit(c)
             PROVE  TypeOK'
  BY DEF Recording
<1>1. CASE RecordBegin(c)
  <2>1. PICK rows \in Podiums : req' = [req EXCEPT ![c] = [op |-> "record", rows |-> rows]]
    BY <1>1 DEF RecordBegin
  <2>2. [op |-> "record", rows |-> rows] \in Requests
    BY <1>1, PodiumsType DEF RecordBegin, Requests
  <2>3. QED
    BY <1>1, <2>1, <2>2, RequestType DEF RecordBegin, TypeOK, raceVars, racerVars, resultVars
<1>2. CASE RecordCommit(c)
  <2>1. req[c].rows \in SUBSET Choice
    BY <1>2, CarriedType DEF RecordCommit
  <2>2. pending' \subseteq Result
    BY <1>2, <2>1, StampType DEF RecordCommit
  <2>3. QED
    BY <1>2, <2>2, MovedType DEF RecordCommit, AfterRecord, TypeOK, raceVars, racerVars
<1>3. CASE AnnounceBegin(c)
  <2>1. [op |-> "announce"] \in Requests
    BY DEF Requests
  <2>2. QED
    BY <1>3, <2>1, RequestType DEF AnnounceBegin, TypeOK, raceVars, racerVars, resultVars
<1>4. CASE AnnounceCommit(c)
  BY <1>4, MovedType DEF AnnounceCommit, TypeOK, HeatStatus, racerVars
<1>5. QED
  BY <1>1, <1>2, <1>3, <1>4

LEMMA CorrectingType == TypeOK /\ Correcting => TypeOK'
<1> SUFFICES ASSUME TypeOK, Correcting PROVE TypeOK'
  OBVIOUS
<1>1. CASE Reopen
  BY <1>1, MovedType DEF Reopen, Supersede, TypeOK, HeatStatus, racerVars
<1>2. ASSUME NEW c \in Clients, CorrectBegin(c) PROVE TypeOK'
  <2>1. PICK rows \in Podiums : req' = [req EXCEPT ![c] = [op |-> "correct", rows |-> rows]]
    BY <1>2 DEF CorrectBegin
  <2>2. [op |-> "correct", rows |-> rows] \in Requests
    BY <1>2, PodiumsType DEF CorrectBegin, Requests
  <2>3. QED
    BY <1>2, <2>1, <2>2, RequestType DEF CorrectBegin, TypeOK, raceVars, racerVars, resultVars
<1>3. ASSUME NEW c \in Clients, CorrectCommit(c) PROVE TypeOK'
  <2>1. req[c].rows \in SUBSET Choice
    BY <1>3, CarriedType DEF CorrectCommit
  <2>2. published' \subseteq Result
    BY <1>3, <2>1, StampType DEF CorrectCommit
  <2>3. QED
    BY <1>3, <2>2, MovedType DEF CorrectCommit, Supersede, TypeOK, raceVars, racerVars
<1>4. QED
  BY <1>1, <1>2, <1>3 DEF Correcting

LEMMA ParticipantsType == TypeOK /\ Participants => TypeOK'
<1> SUFFICES ASSUME TypeOK, Participants PROVE TypeOK'
  OBVIOUS
<1>1. ASSUME NEW r \in Racers, Leave(r) PROVE TypeOK'
  BY <1>1 DEF Leave, TypeOK, RegStatus, raceVars, resultVars
<1>2. ASSUME NEW c \in Clients, NEW r \in Racers, ReactivateBegin(c, r) PROVE TypeOK'
  <2> DEFINE q == [op |-> "reactivate", racer |-> r,
                   target |-> IF held[r] THEN "ACTIVE" ELSE "SUBMITTED"]
  <2>1. q \in Requests
    BY DEF Requests
  <2>2. req' = [req EXCEPT ![c] = q]
    BY <1>2 DEF ReactivateBegin
  <2> HIDE DEF q
  <2>3. req' \in [Clients -> Requests]
    BY <2>1, <2>2, RequestType
  <2>4. QED
    BY <1>2, <2>3 DEF ReactivateBegin, TypeOK, raceVars, racerVars, resultVars
<1>3. ASSUME NEW c \in Clients, ReactivateCommit(c) PROVE TypeOK'
  <2>1. reg' \in [Racers -> RegStatus]
    BY <1>3, CarriedType DEF ReactivateCommit, TypeOK, RegStatus
  <2>2. QED
    BY <1>3, <2>1, LapseType DEF ReactivateCommit, TypeOK, raceVars, resultVars
<1>4. QED
  BY <1>1, <1>2, <1>3 DEF Participants

LEMMA FollowType ==
  ASSUME TypeOK, NEW r \in Racers, NEW d \in Nat
  PROVE  Follow(r, d) \in SUBSET Choice
<1>1. \A s \in selections : [s EXCEPT !.duck = d] \in Choice
  BY DEF TypeOK, Choice
<1>2. QED
  BY <1>1 DEF Follow, RowsOf, TypeOK

LEMMA DucksType == TypeOK /\ Ducks => TypeOK'
<1> SUFFICES ASSUME TypeOK, Ducks PROVE TypeOK'
  OBVIOUS
<1>1. ASSUME NEW r \in Racers, DeleteDuck(r) PROVE TypeOK'
  <2>1. reg' \in [Racers -> RegStatus] /\ held' \in [Racers -> BOOLEAN]
    BY <1>1 DEF DeleteDuck, TypeOK, RegStatus
  <2>2. deleted' \subseteq Racers \X Nat
    BY <1>1 DEF DeleteDuck, TypeOK
  <2>3. QED
    BY <1>1, <2>1, <2>2 DEF DeleteDuck, TypeOK, raceVars, resultVars
<1>2. ASSUME NEW r \in Racers, ReplaceDuck(r) PROVE TypeOK'
  <2>1. selections' \in SUBSET Choice
    BY <1>2, FollowType DEF ReplaceDuck, TypeOK
  <2>2. duck' \in [Racers -> Nat]
    BY <1>2 DEF ReplaceDuck, TypeOK
  <2>3. QED
    BY <1>2, <2>1, <2>2 DEF ReplaceDuck, TypeOK, raceVars, resultVars
<1>3. ASSUME NEW r \in Racers, NEW d \in 1..MaxDuck, DeleteOldDuck(r, d) PROVE TypeOK'
  <2>1. deleted' \subseteq Racers \X Nat
    BY <1>3, FinalAssumption DEF DeleteOldDuck, TypeOK
  <2>2. pending' \subseteq pending /\ selections' \subseteq selections
    BY <1>3 DEF DeleteOldDuck
  <2>3. QED
    BY <1>3, <2>1, <2>2 DEF DeleteOldDuck, TypeOK, raceVars
<1>4. ASSUME NEW c \in Clients, NEW r \in Racers, PairBegin(c, r) PROVE TypeOK'
  <2>1. [op |-> "pair", racer |-> r] \in Requests
    BY DEF Requests
  <2>2. QED
    BY <1>4, <2>1, RequestType DEF PairBegin, TypeOK, raceVars, racerVars, resultVars
<1>5. ASSUME NEW c \in Clients, PairCommit(c) PROVE TypeOK'
  <2>1. req[c].racer \in Racers
    BY <1>5, CarriedType DEF PairCommit
  <2>2. reg' \in [Racers -> RegStatus] /\ held' \in [Racers -> BOOLEAN]
    BY <1>5, <2>1 DEF PairCommit, TypeOK, RegStatus
  <2>3. duck' \in [Racers -> Nat]
    BY <1>5, <2>1 DEF PairCommit, TypeOK
  <2>4. QED
    BY <1>5, <2>2, <2>3, LapseType DEF PairCommit, TypeOK, raceVars, resultVars
<1>6. QED
  BY <1>1, <1>2, <1>3, <1>4, <1>5 DEF Ducks

LEMMA NextType == TypeOK /\ [Next]_vars => TypeOK'
<1> SUFFICES ASSUME TypeOK, [Next]_vars PROVE TypeOK'
  OBVIOUS
<1>1. CASE Complete
  BY <1>1 DEF Complete, TypeOK, racerVars, resultVars
<1>2. ASSUME NEW c \in Clients, Abandon(c) PROVE TypeOK'
  BY <1>2, LapseType DEF Abandon, TypeOK, raceVars, racerVars, resultVars
<1>3. CASE UNCHANGED vars
  BY <1>3 DEF TypeOK, vars, raceVars, racerVars, resultVars
<1>4. QED
  BY <1>1, <1>2, <1>3, RunHeatType, ScanningType, RecordingType, CorrectingType,
     ParticipantsType, DucksType DEF Next

\* Whatever clients, racers and directors do, every variable of the final keeps
\* its type.
THEOREM TypeCorrect == Spec => []TypeOK
BY InitType, NextType, PTL DEF Spec

-----------------------------------------------------------------------------
(* The steps, sorted: those that touch nothing but a request, and the        *)
(* batches.                                                                  *)

QuietStep == /\ UNCHANGED <<raceVars, racerVars, selections, resultVars>>
             /\ \A c \in Clients : req'[c].op = "announce" /\ req[c].op # "announce"
                                     => pending # {}

LEMMA StepCases ==
  ASSUME TypeOK, [Next]_vars
  PROVE  \/ QuietStep
         \/ Ready \/ Call \/ Start \/ Finish \/ Reset
         \/ \E s \in selections : ClearPlace(s)
         \/ \E c \in Clients : \/ ScanCommit(c) \/ RecordCommit(c) \/ AnnounceCommit(c)
                               \/ CorrectCommit(c) \/ ReactivateCommit(c) \/ PairCommit(c)
         \/ Reopen \/ Complete
         \/ \E r \in Racers : Leave(r) \/ DeleteDuck(r) \/ ReplaceDuck(r)
         \/ \E r \in Racers, d \in 1..MaxDuck : DeleteOldDuck(r, d)
<1>1. CASE UNCHANGED vars
  BY <1>1 DEF vars, QuietStep
<1>2. CASE RunHeat \/ Complete
  BY <1>2 DEF RunHeat
<1>3. CASE Scanning
  <2>1. ASSUME NEW c \in Clients, NEW r \in Racers, NEW p \in Places, ScanBegin(c, r, p)
        PROVE  QuietStep
    BY <2>1 DEF ScanBegin, QuietStep, TypeOK
  <2>2. QED
    BY <1>3, <2>1 DEF Scanning
<1>4. CASE Recording
  <2>1. ASSUME NEW c \in Clients, RecordBegin(c) PROVE QuietStep
    BY <2>1 DEF RecordBegin, QuietStep, TypeOK
  <2>2. ASSUME NEW c \in Clients, AnnounceBegin(c) PROVE QuietStep
    BY <2>2 DEF AnnounceBegin, QuietStep, TypeOK
  <2>3. QED
    BY <1>4, <2>1, <2>2 DEF Recording
<1>5. CASE Correcting
  <2>1. ASSUME NEW c \in Clients, CorrectBegin(c) PROVE QuietStep
    BY <2>1 DEF CorrectBegin, QuietStep, TypeOK
  <2>2. QED
    BY <1>5, <2>1 DEF Correcting
<1>6. CASE Participants
  <2>1. ASSUME NEW c \in Clients, NEW r \in Racers, ReactivateBegin(c, r) PROVE QuietStep
    BY <2>1 DEF ReactivateBegin, QuietStep, TypeOK
  <2>2. QED
    BY <1>6, <2>1 DEF Participants
<1>7. CASE Ducks
  <2>1. ASSUME NEW c \in Clients, NEW r \in Racers, PairBegin(c, r) PROVE QuietStep
    BY <2>1 DEF PairBegin, QuietStep, TypeOK
  <2>2. QED
    BY <1>7, <2>1 DEF Ducks
<1>8. ASSUME NEW c \in Clients, Abandon(c) PROVE QuietStep
  BY <1>8 DEF Abandon, Lapse, Idle, QuietStep
<1>9. QED
  BY <1>1, <1>2, <1>3, <1>4, <1>5, <1>6, <1>7, <1>8 DEF Next

\* A request that lapsed announces nothing, and lapsing makes none announce.
LEMMA LapsedAnnounce ==
  ASSUME NEW S, req' = Lapse(S), NEW c \in Clients, req'[c].op = "announce"
  PROVE  c \notin S /\ req[c].op = "announce"
BY DEF Lapse, Idle

\* When the heat's revision moves, no announcement stays in flight.
LEMMA MovedAnnounce ==
  ASSUME req' = Moved, NEW c \in Clients
  PROVE  req'[c].op # "announce"
BY LapsedAnnounce DEF Moved, OnHeat

-----------------------------------------------------------------------------
(* One account of the finish.                                                *)

\* What makes OneAccount inductive: an announcement in flight saw a recorded
\* podium, and nothing can be scanned before it lands.
AnnouncedUnscanned == \A c \in Clients : req[c].op = "announce" => selections = {}

LEMMA OneAccountStep ==
  TypeOK /\ OneAccount /\ AnnouncedUnscanned /\ [Next]_vars
    => OneAccount' /\ AnnouncedUnscanned'
<1> SUFFICES ASSUME TypeOK, OneAccount, AnnouncedUnscanned, [Next]_vars
             PROVE  OneAccount' /\ AnnouncedUnscanned'
  OBVIOUS
<1> USE DEF raceVars, racerVars, resultVars
<1>1. CASE QuietStep
  BY <1>1 DEF QuietStep, OneAccount, AnnouncedUnscanned
<1>2. CASE Ready \/ Call \/ Start \/ Finish \/ Reset
  BY <1>2, MovedAnnounce
  DEF Ready, Call, Start, Finish, Reset, Transition, AfterReset, OneAccount, AnnouncedUnscanned
<1>3. ASSUME NEW s \in selections, ClearPlace(s) PROVE OneAccount' /\ AnnouncedUnscanned'
  BY <1>3, MovedAnnounce DEF ClearPlace, OneAccount, AnnouncedUnscanned
<1>4. ASSUME NEW c \in Clients, ScanCommit(c) \/ RecordCommit(c)
      PROVE  OneAccount' /\ AnnouncedUnscanned'
  BY <1>4, MovedAnnounce
  DEF ScanCommit, ScanAccepted, RecordCommit, AfterRecord, OneAccount, AnnouncedUnscanned
<1>5. ASSUME NEW c \in Clients, AnnounceCommit(c) PROVE OneAccount' /\ AnnouncedUnscanned'
  BY <1>5, MovedAnnounce DEF AnnounceCommit, OneAccount, AnnouncedUnscanned
<1>6. CASE Reopen
  BY <1>6, MovedAnnounce DEF Reopen, OneAccount, AnnouncedUnscanned
<1>7. ASSUME NEW c \in Clients, CorrectCommit(c) PROVE OneAccount' /\ AnnouncedUnscanned'
  BY <1>7, MovedAnnounce DEF CorrectCommit, OneAccount, AnnouncedUnscanned
<1>8. ASSUME NEW c \in Clients, ReactivateCommit(c) \/ PairCommit(c)
      PROVE  OneAccount' /\ AnnouncedUnscanned'
  BY <1>8, LapsedAnnounce DEF ReactivateCommit, PairCommit, OneAccount, AnnouncedUnscanned
<1>9. CASE Complete \/ \E r \in Racers : Leave(r) \/ DeleteDuck(r)
  BY <1>9 DEF Complete, Leave, DeleteDuck, OneAccount, AnnouncedUnscanned
<1>10. ASSUME NEW r \in Racers, ReplaceDuck(r) PROVE OneAccount' /\ AnnouncedUnscanned'
  <2>1. selections = {} => selections' = {}
    BY <1>10 DEF ReplaceDuck, Follow, RowsOf
  <2>2. QED
    BY <1>10, <2>1 DEF ReplaceDuck, OneAccount, AnnouncedUnscanned
<1>11. ASSUME NEW r \in Racers, NEW d \in 1..MaxDuck, DeleteOldDuck(r, d)
       PROVE  OneAccount' /\ AnnouncedUnscanned'
  BY <1>11 DEF DeleteOldDuck, OneAccount, AnnouncedUnscanned
<1>12. QED
  BY StepCases, <1>1, <1>2, <1>3, <1>4, <1>5, <1>6, <1>7, <1>8, <1>9, <1>10, <1>11

LEMMA OneAccountInvariant == Spec => [](OneAccount /\ AnnouncedUnscanned)
<1>1. Init => OneAccount /\ AnnouncedUnscanned
  BY DEF Init, OneAccount, AnnouncedUnscanned, Idle
<1>2. QED
  BY <1>1, OneAccountStep, TypeCorrect, PTL DEF Spec

\* Scanned places, a recorded podium and an official one never coexist.
THEOREM OneAccountHolds == Spec => []OneAccount
BY OneAccountInvariant, PTL

-----------------------------------------------------------------------------
(* Scanned places and ducks.                                                 *)

\* No two selections share a place or a racer.
PlacesApart ==
  \A s, t \in selections : s.place = t.place \/ s.racer = t.racer => s = t

\* Both facts at once: each needs the other when a duck is replaced.
Standing == SelectionsFollowDucks /\ PlacesApart

\* Fewer selections, with racers and ducks as they were, still stand.
LEMMA StandingFrame ==
  ASSUME Standing, selections' \subseteq selections, UNCHANGED <<held, duck>>
  PROVE  Standing'
BY DEF Standing, SelectionsFollowDucks, PlacesApart

\* Replacing a racer's duck renames the racer's row and leaves the others.
LEMMA FollowStands ==
  ASSUME TypeOK, Standing, NEW r \in Racers, ReplaceDuck(r)
  PROVE  Standing'
<1> DEFINE d == duck[r] + 1
           Renamed(s) == [racer |-> s.racer, place |-> s.place, duck |-> d]
<1>1. \A s \in selections : s \in Choice
  BY DEF TypeOK
<1>2. \A s \in selections : [s EXCEPT !.duck = d] = Renamed(s)
  BY <1>1 DEF Choice
<1>3. \A s \in selections : s \in RowsOf(r, duck[r], selections) <=> s.racer = r
  BY DEF Standing, SelectionsFollowDucks, RowsOf
<1>4. ASSUME NEW x \in selections'
      PROVE  \/ x \in selections \ RowsOf(r, duck[r], selections)
             \/ \E s \in RowsOf(r, duck[r], selections) : x = [s EXCEPT !.duck = d]
  BY DEF ReplaceDuck, Follow
<1>5. duck' = [duck EXCEPT ![r] = d] /\ held' = held /\ held[r]
  BY DEF ReplaceDuck
<1>6. \A x \in selections' : \/ x \in selections /\ x.racer # r
                             \/ \E s \in selections : s.racer = r /\ x = Renamed(s)
  <2> HIDE DEF Renamed
  <2>1. RowsOf(r, duck[r], selections) \subseteq selections
    BY DEF RowsOf
  <2>2. QED
    BY <1>2, <1>3, <1>4, <2>1
<1> HIDE DEF d
<1>7. \A s \in selections : /\ Renamed(s).racer = s.racer /\ Renamed(s).place = s.place
                            /\ Renamed(s).duck = d
  OBVIOUS
<1> HIDE DEF Renamed
<1>8. SelectionsFollowDucks'
  BY <1>1, <1>5, <1>6, <1>7 DEF Standing, SelectionsFollowDucks, TypeOK, Choice
<1>9. PlacesApart'
  BY <1>6, <1>7 DEF Standing, PlacesApart
<1>10. QED
  BY <1>8, <1>9 DEF Standing

LEMMA StandingStep == TypeOK /\ OneAccount /\ Standing /\ [Next]_vars => Standing'
<1> SUFFICES ASSUME TypeOK, OneAccount, Standing, [Next]_vars PROVE Standing'
  OBVIOUS
<1> USE DEF raceVars, racerVars, resultVars
<1>1. CASE QuietStep
  BY <1>1, StandingFrame DEF QuietStep
<1>2. CASE Ready \/ Call \/ Start \/ Finish \/ Reset
  BY <1>2, StandingFrame DEF Ready, Call, Start, Finish, Reset, Transition, AfterReset
<1>3. ASSUME NEW s \in selections, ClearPlace(s) PROVE Standing'
  BY <1>3, StandingFrame DEF ClearPlace
<1>4. ASSUME NEW c \in Clients, ScanCommit(c) PROVE Standing'
  <2> DEFINE row == req[c].row
  <2>1. UNCHANGED <<held, duck>>
    BY <1>4 DEF ScanCommit
  <2>2. CASE selections' = AfterRecord
    BY <2>1, <2>2, StandingFrame DEF AfterRecord
  <2>3. CASE selections' = Swept(row) \cup {row}
    <3>1. Current(row)
      BY <1>4 DEF ScanCommit, ScanAccepted
    <3> HIDE DEF row
    <3>2. SelectionsFollowDucks'
      BY <2>1, <2>3, <3>1 DEF Current, Swept, Standing, SelectionsFollowDucks
    <3>3. PlacesApart'
      BY <2>3 DEF Swept, Standing, PlacesApart
    <3>4. QED
      BY <3>2, <3>3 DEF Standing
  <2>4. QED
    BY <1>4, <2>2, <2>3 DEF ScanCommit
<1>5. ASSUME NEW c \in Clients, RecordCommit(c) \/ AnnounceCommit(c) \/ CorrectCommit(c)
      PROVE  Standing'
  BY <1>5, StandingFrame DEF RecordCommit, AnnounceCommit, CorrectCommit, AfterRecord
<1>6. CASE Reopen \/ Complete
  BY <1>6, StandingFrame DEF Reopen, Complete
<1>7. ASSUME NEW c \in Clients, ReactivateCommit(c) PROVE Standing'
  BY <1>7, StandingFrame DEF ReactivateCommit
<1>8. ASSUME NEW c \in Clients, PairCommit(c) PROVE Standing'
  <2>1. ~held[req[c].racer] /\ req[c].racer \in Racers
    BY <1>8, CarriedType DEF PairCommit
  <2>2. \A s \in selections : s.racer \in Racers /\ s.racer # req[c].racer
    BY <2>1 DEF Standing, SelectionsFollowDucks, TypeOK, Choice
  <2>3. \A s \in selections : held'[s.racer] = held[s.racer] /\ duck'[s.racer] = duck[s.racer]
    BY <1>8, <2>1, <2>2 DEF PairCommit, TypeOK
  <2>4. selections' = selections
    BY <1>8 DEF PairCommit
  <2>5. QED
    BY <2>3, <2>4 DEF Standing, SelectionsFollowDucks, PlacesApart
<1>9. ASSUME NEW r \in Racers, Leave(r) PROVE Standing'
  BY <1>9, StandingFrame DEF Leave
<1>10. ASSUME NEW r \in Racers, DeleteDuck(r) PROVE Standing'
  <2>1. selections' = {}
    BY <1>10 DEF DeleteDuck, OneAccount
  <2>2. QED
    BY <2>1 DEF Standing, SelectionsFollowDucks, PlacesApart
<1>11. ASSUME NEW r \in Racers, NEW d \in 1..MaxDuck, DeleteOldDuck(r, d) PROVE Standing'
  BY <1>11, StandingFrame DEF DeleteOldDuck
<1>12. QED
  BY StepCases, FollowStands, <1>1, <1>2, <1>3, <1>4, <1>5, <1>6, <1>7, <1>8, <1>9,
     <1>10, <1>11

LEMMA StandingInvariant == Spec => []Standing
<1>1. Init => Standing
  BY DEF Init, Standing, SelectionsFollowDucks, PlacesApart
<1>2. QED
  BY <1>1, StandingStep, TypeCorrect, OneAccountHolds, PTL DEF Spec

\* A scanned place names the duck its racer holds, whatever happened to ducks
\* since the scan.
THEOREM SelectionsFollowDucksHolds == Spec => []SelectionsFollowDucks
BY StandingInvariant, PTL DEF Standing

-----------------------------------------------------------------------------
(* The official podium.                                                      *)

\* Only an announcement and a correction publish, and what they publish they
\* check; only a reopen and a correction withdraw, and they archive.
LEMMA PublishingSteps ==
  ASSUME TypeOK, [Next]_vars
  PROVE  \/ UNCHANGED published
         \/ \E c \in Clients : AnnounceCommit(c) \/ CorrectCommit(c)
         \/ Reopen
<1> USE DEF raceVars, racerVars, resultVars
<1>1. QuietStep \/ Ready \/ Call \/ Start \/ Finish \/ Reset \/ Complete
        => UNCHANGED published
  BY DEF QuietStep, Ready, Call, Start, Finish, Reset, Transition, Complete
<1>2. ASSUME NEW c \in Clients, \/ ScanCommit(c) \/ RecordCommit(c)
                                \/ ReactivateCommit(c) \/ PairCommit(c)
      PROVE  UNCHANGED published
  BY <1>2 DEF ScanCommit, RecordCommit, ReactivateCommit, PairCommit
<1>3. ASSUME NEW r \in Racers, Leave(r) \/ DeleteDuck(r) \/ ReplaceDuck(r)
      PROVE  UNCHANGED published
  BY <1>3 DEF Leave, DeleteDuck, ReplaceDuck
<1>4. ASSUME NEW r \in Racers, NEW d \in 1..MaxDuck, DeleteOldDuck(r, d)
      PROVE  UNCHANGED published
  BY <1>4 DEF DeleteOldDuck
<1>5. ASSUME NEW s \in selections, ClearPlace(s) PROVE UNCHANGED published
  BY <1>5 DEF ClearPlace
<1>6. QED
  BY StepCases, <1>1, <1>2, <1>3, <1>4, <1>5

LEMMA PodiumsAreKeptStep ==
  TypeOK /\ OneAccount /\ [Next]_vars => published \ published' \subseteq history'
<1> SUFFICES ASSUME TypeOK, OneAccount, [Next]_vars
             PROVE  published \ published' \subseteq history'
  OBVIOUS
<1>1. ASSUME NEW c \in Clients, AnnounceCommit(c) PROVE published = {}
  BY <1>1 DEF AnnounceCommit, OneAccount
<1>2. ASSUME NEW c \in Clients, CorrectCommit(c) PROVE published \subseteq history'
  BY <1>2 DEF CorrectCommit, Supersede
<1>3. Reopen => published \subseteq history'
  BY DEF Reopen, Supersede
<1>4. QED
  BY PublishingSteps, <1>1, <1>2, <1>3

\* No official place is ever lost.
THEOREM PodiumsAreKeptHolds == Spec => PodiumsAreKept
BY PodiumsAreKeptStep, TypeCorrect, OneAccountHolds, PTL DEF Spec, PodiumsAreKept

LEMMA OnlyEligiblePlacesStep ==
  ASSUME TypeOK, [Next]_vars, NEW row \in published', row \notin published
  PROVE  /\ reg[row.racer] = "ACTIVE"
         /\ held[row.racer] /\ duck[row.racer] = row.duck
<1>1. ASSUME NEW c \in Clients, AnnounceCommit(c) PROVE Current(row)
  BY <1>1 DEF AnnounceCommit, Announceable
<1>2. ASSUME NEW c \in Clients, CorrectCommit(c) PROVE Current(row)
  <2>1. PICK x \in req[c].rows, n \in 1..MaxRevision : row = Stamp(x, n)
    BY <1>2 DEF CorrectCommit
  <2>2. Current(x)
    BY <1>2, <2>1 DEF CorrectCommit
  <2>3. QED
    BY <2>1, <2>2 DEF Stamp, Current
<1>3. ~Reopen
  BY DEF Reopen
<1>4. QED
  BY PublishingSteps, <1>1, <1>2, <1>3 DEF Current

\* Whoever enters the official podium is eligible at that very step and holds
\* the duck the podium names.
THEOREM OnlyEligiblePlacesHolds == Spec => OnlyEligiblePlaces
<1>1. TypeOK /\ [Next]_vars
        => [\A row \in published' \ published :
              /\ reg[row.racer] = "ACTIVE"
              /\ held[row.racer] /\ duck[row.racer] = row.duck]_vars
  BY OnlyEligiblePlacesStep
<1>2. QED
  BY <1>1, TypeCorrect, PTL DEF Spec, OnlyEligiblePlaces

\* The heat is finalized by an announcement only.
LEMMA FinalizingStep ==
  ASSUME TypeOK, [Next]_vars, status = "AWAITING_RESULT", status' = "FINALIZED"
  PROVE  \E c \in Clients : AnnounceCommit(c)
<1> USE DEF raceVars, racerVars, resultVars
<1>1. ~QuietStep /\ ~(Ready \/ Call \/ Start \/ Finish \/ Reset \/ Reopen \/ Complete)
  BY DEF QuietStep, Ready, Call, Start, Finish, Reset, Transition, Reopen, Complete
<1>2. ASSUME NEW c \in Clients
      PROVE  ~(\/ ScanCommit(c) \/ RecordCommit(c) \/ CorrectCommit(c)
               \/ ReactivateCommit(c) \/ PairCommit(c))
  BY DEF ScanCommit, RecordCommit, CorrectCommit, ReactivateCommit, PairCommit
<1>3. ASSUME NEW r \in Racers PROVE ~(Leave(r) \/ DeleteDuck(r) \/ ReplaceDuck(r))
  BY DEF Leave, DeleteDuck, ReplaceDuck
<1>4. ASSUME NEW r \in Racers, NEW d \in 1..MaxDuck PROVE ~DeleteOldDuck(r, d)
  BY DEF DeleteOldDuck
<1>5. ASSUME NEW s \in selections PROVE ~ClearPlace(s)
  BY DEF ClearPlace
<1>6. QED
  BY StepCases, <1>1, <1>2, <1>3, <1>4, <1>5

\* An announcement publishes as many places as there are then eligible
\* finalists, up to three: neither a place too many nor one too few.
THEOREM AnnouncedInFullHolds == Spec => AnnouncedInFull
<1>1. TypeOK /\ [Next]_vars
        => [status = "AWAITING_RESULT" /\ status' = "FINALIZED"
              => Cardinality(published') = Depth]_vars
  <2> SUFFICES ASSUME TypeOK, [Next]_vars, status = "AWAITING_RESULT",
                      status' = "FINALIZED"
               PROVE  Cardinality(published') = Depth
    OBVIOUS
  <2>1. PICK c \in Clients : AnnounceCommit(c)
    BY FinalizingStep
  <2>2. QED
    BY <2>1 DEF AnnounceCommit, Announceable
<1>2. QED
  BY <1>1, TypeCorrect, PTL DEF Spec, AnnouncedInFull

-----------------------------------------------------------------------------
(* Result revisions.                                                         *)

\* What makes RevisionsAreNew inductive: a recorded podium has one revision.
Recorded == RevisionsAreNew /\ \A x, y \in pending : x.rev = y.rev

LEMMA RecordedFrame ==
  ASSUME Recorded, pending' \subseteq pending, UNCHANGED <<published, history>>
  PROVE  Recorded'
BY DEF Recorded, RevisionsAreNew

\* A freshly stamped podium has one revision, later than every result before.
LEMMA StampedNew ==
  ASSUME NEW n \in 1..MaxRevision, NextRevision(n), NEW rows
  PROVE  \A x \in {Stamp(row, n) : row \in rows} :
           /\ x.rev = n
           /\ \A y \in history \cup published : x.rev > y.rev
BY DEF Stamp, NextRevision

LEMMA RecordedStep == TypeOK /\ OneAccount /\ Recorded /\ [Next]_vars => Recorded'
<1> SUFFICES ASSUME TypeOK, OneAccount, Recorded, [Next]_vars PROVE Recorded'
  OBVIOUS
<1> USE DEF raceVars, racerVars, resultVars
<1>1. CASE QuietStep
  BY <1>1, RecordedFrame DEF QuietStep
<1>2. CASE Ready \/ Call \/ Start \/ Finish \/ Reset \/ Complete
  BY <1>2, RecordedFrame DEF Ready, Call, Start, Finish, Reset, Transition, Complete
<1>3. ASSUME NEW s \in selections, ClearPlace(s) PROVE Recorded'
  BY <1>3, RecordedFrame DEF ClearPlace
<1>4. ASSUME NEW rows, NEW n \in 1..MaxRevision, NextRevision(n),
             pending' = {Stamp(x, n) : x \in rows}, UNCHANGED <<published, history>>
      PROVE  Recorded'
  BY <1>4, StampedNew DEF Recorded, RevisionsAreNew
<1>5. ASSUME NEW c \in Clients, ScanCommit(c) PROVE Recorded'
  <2>1. CASE UNCHANGED pending
    BY <1>5, <2>1, RecordedFrame DEF ScanCommit
  <2>2. CASE \E n \in 1..MaxRevision :
               /\ NextRevision(n)
               /\ pending' = {Stamp(x, n) : x \in req[c].carried \cup {req[c].row}}
    BY <1>5, <2>2, <1>4 DEF ScanCommit
  <2>3. QED
    BY <1>5, <2>1, <2>2 DEF ScanCommit
<1>6. ASSUME NEW c \in Clients, RecordCommit(c) PROVE Recorded'
  BY <1>6, <1>4 DEF RecordCommit
<1>7. ASSUME NEW c \in Clients, AnnounceCommit(c) PROVE Recorded'
  BY <1>7 DEF AnnounceCommit, Recorded, RevisionsAreNew
<1>8. CASE Reopen
  <2>1. pending = {} /\ pending' = {} /\ published' = {} /\ history' = history \cup published
    BY <1>8 DEF Reopen, Supersede, OneAccount
  <2>2. QED
    BY <2>1 DEF Recorded, RevisionsAreNew
<1>9. ASSUME NEW c \in Clients, CorrectCommit(c) PROVE Recorded'
  <2>1. pending = {} /\ pending' = {} /\ history' = history \cup published
    BY <1>9 DEF CorrectCommit, Supersede, OneAccount
  <2>2. PICK n \in 1..MaxRevision : /\ NextRevision(n)
                                    /\ published' = {Stamp(x, n) : x \in req[c].rows}
    BY <1>9 DEF CorrectCommit
  <2>3. QED
    BY <2>1, <2>2, StampedNew DEF Recorded, RevisionsAreNew
<1>10. ASSUME NEW c \in Clients, ReactivateCommit(c) \/ PairCommit(c) PROVE Recorded'
  BY <1>10, RecordedFrame DEF ReactivateCommit, PairCommit
<1>11. ASSUME NEW r \in Racers, Leave(r) \/ DeleteDuck(r) \/ ReplaceDuck(r) PROVE Recorded'
  BY <1>11, RecordedFrame DEF Leave, DeleteDuck, ReplaceDuck
<1>12. ASSUME NEW r \in Racers, NEW d \in 1..MaxDuck, DeleteOldDuck(r, d) PROVE Recorded'
  BY <1>12, RecordedFrame DEF DeleteOldDuck
<1>13. QED
  BY StepCases, <1>1, <1>2, <1>3, <1>5, <1>6, <1>7, <1>8, <1>9, <1>10, <1>11, <1>12

\* A revision is never used for two podiums, so a correction is never mistaken
\* for the result it replaces.
THEOREM RevisionsAreNewHolds == Spec => []RevisionsAreNew
<1>1. Init => Recorded
  BY DEF Init, Recorded, RevisionsAreNew
<1>2. Recorded => RevisionsAreNew
  BY DEF Recorded
<1>3. QED
  BY <1>1, <1>2, RecordedStep, TypeCorrect, OneAccountHolds, PTL DEF Spec

-----------------------------------------------------------------------------
(* What a scanning station is offered.                                       *)

\* A completed event has a finalized final, so while the final waits for its
\* result the event is in FINAL.
CompletedIsFinalized == evStatus = "COMPLETED" => status = "FINALIZED"

LEMMA CompletedStep ==
  TypeOK /\ CompletedIsFinalized /\ [Next]_vars => CompletedIsFinalized'
<1> SUFFICES ASSUME TypeOK, CompletedIsFinalized, [Next]_vars PROVE CompletedIsFinalized'
  OBVIOUS
<1> USE DEF raceVars, CompletedIsFinalized
<1>1. QuietStep \/ Ready \/ Call \/ Start \/ Finish \/ Reset \/ Reopen \/ Complete
        => CompletedIsFinalized'
  BY DEF QuietStep, Ready, Call, Start, Finish, Reset, Transition, Reopen, Complete
<1>2. ASSUME NEW c \in Clients,
             \/ ScanCommit(c) \/ RecordCommit(c) \/ AnnounceCommit(c) \/ CorrectCommit(c)
             \/ ReactivateCommit(c) \/ PairCommit(c)
      PROVE  CompletedIsFinalized'
  BY <1>2 DEF ScanCommit, RecordCommit, AnnounceCommit, CorrectCommit, ReactivateCommit,
              PairCommit
<1>3. ASSUME NEW r \in Racers, Leave(r) \/ DeleteDuck(r) \/ ReplaceDuck(r)
      PROVE  CompletedIsFinalized'
  BY <1>3 DEF Leave, DeleteDuck, ReplaceDuck
<1>4. ASSUME NEW r \in Racers, NEW d \in 1..MaxDuck, DeleteOldDuck(r, d)
      PROVE  CompletedIsFinalized'
  BY <1>4 DEF DeleteOldDuck
<1>5. ASSUME NEW s \in selections, ClearPlace(s) PROVE CompletedIsFinalized'
  BY <1>5 DEF ClearPlace
<1>6. QED
  BY StepCases, <1>1, <1>2, <1>3, <1>4, <1>5

LEMMA CompletedInvariant == Spec => []CompletedIsFinalized
<1>1. Init => CompletedIsFinalized
  BY DEF Init, CompletedIsFinalized
<1>2. QED
  BY <1>1, CompletedStep, TypeCorrect, PTL DEF Spec

\* The read and the guard agree: what the page offers, the batch accepts.
LEMMA OfferedAccepted == TypeOK /\ CompletedIsFinalized => OfferedPlacesAreAccepted
<1> SUFFICES ASSUME TypeOK, CompletedIsFinalized,
                    status = "AWAITING_RESULT", pending = {},
                    NEW r \in Eligible, held[r], ~HasPlace(r), NEW p \in OpenPlaces
             PROVE  ScanAccepted(Row(r, p), Visible)
  BY DEF OfferedPlacesAreAccepted
<1>1. evStatus = "FINAL"
  BY DEF CompletedIsFinalized, TypeOK
<1>2. Row(r, p).racer = r /\ Row(r, p).place = p /\ Row(r, p).duck = duck[r]
  BY DEF Row
<1>3. r \in Racers /\ reg[r] = "ACTIVE"
  BY DEF Eligible
<1>4. Current(Row(r, p))
  BY <1>2, <1>3 DEF Current
<1>5. p \in Places /\ p <= Depth /\ \A s \in Visible : s.place # p
  BY DEF OpenPlaces
<1>6. \A s \in selections : s.place = p => reg[s.racer] # "ACTIVE"
  BY <1>5 DEF Visible
<1>7. \A s \in selections : s.racer = r => s.place > Depth
  <2> SUFFICES ASSUME NEW s \in selections, s.racer = r, ~(s.place > Depth)
               PROVE  FALSE
    OBVIOUS
  <2>1. s.place <= Depth
    BY DepthType DEF TypeOK, Choice, Places, FinalPodiumDepth
  <2>2. s \in Visible
    BY <2>1, <1>3 DEF Visible
  <2>3. QED
    BY <2>2 DEF HasPlace
<1>8. Placing(Visible) \subseteq Placing(selections)
  BY DEF Placing, Visible
<1>9. QED
  BY <1>1, <1>2, <1>4, <1>6, <1>7, <1>8 DEF ScanAccepted, PlaceIsOpen

\* No station is offered a place that is then refused, however many racers left
\* or came back between two scans.
THEOREM OfferedPlacesAreAcceptedHolds == Spec => []OfferedPlacesAreAccepted
BY OfferedAccepted, CompletedInvariant, TypeCorrect, PTL

-----------------------------------------------------------------------------
(* A podium can always be finished.                                          *)

\* With a racer and a place to each selection, either the visible ones are the
\* podium, or a place is open and a racer is left to take it: counting places
\* one way and eligible racers the other.
LEMMA SomeoneCanBeScanned == TypeOK /\ PlacesApart => PodiumCanBeFinished
<1> SUFFICES ASSUME TypeOK, PlacesApart
             PROVE  \/ Cardinality(Visible) = Depth /\ InOrder(Visible)
                    \/ OpenPlaces # {} /\ \E r \in Eligible : ~HasPlace(r)
  BY DEF PodiumCanBeFinished
<1> DEFINE place == [s \in Visible |-> s.place]
           racer == [s \in Visible |-> s.racer]
<1>1. Depth \in Nat /\ Depth \in 0..FinalPodiumDepth
  BY DepthType DEF FinalPodiumDepth
<1>2. \A s \in Visible : s \in selections /\ s.place \in 1..Depth /\ s.racer \in Eligible
  BY <1>1 DEF Visible, Eligible, TypeOK, Choice, Places
<1>3. place \in Injection(Visible, 1..Depth)
  BY <1>2 DEF Injection, IsInjective, PlacesApart
<1>4. IsFiniteSet(1..Depth) /\ Cardinality(1..Depth) = Depth
  BY <1>1, FS_Interval
<1>5. /\ IsFiniteSet(Visible)
      /\ Cardinality(Visible) <= Depth
      /\ Cardinality(Visible) = Depth <=> place \in Surjection(Visible, 1..Depth)
  BY <1>3, <1>4, FS_Injection
<1>6. Cardinality(Visible) \in Nat
  BY <1>5, FS_CardinalityType
<1>7. CASE Cardinality(Visible) = Depth
  <2>1. \A p \in 1..Depth : \E s \in Visible : s.place = p
    BY <1>5, <1>7 DEF Surjection
  <2>2. {s.place : s \in Visible} = 1..Depth
    BY <1>2, <2>1
  <2>3. QED
    BY <1>7, <2>2 DEF InOrder
<1>8. CASE Cardinality(Visible) < Depth
  <2>1. place \notin Surjection(Visible, 1..Depth)
    BY <1>1, <1>5, <1>6, <1>8
  <2>2. PICK p \in 1..Depth : \A s \in Visible : s.place # p
    BY <1>3, <2>1 DEF Surjection, Injection
  <2>3. p \in OpenPlaces
    BY <1>1, <2>2 DEF OpenPlaces, Places, FinalPodiumDepth
  <2>4. IsFiniteSet(Eligible) /\ Cardinality(Eligible) \in Nat
    BY FinalAssumption, FS_Subset, FS_CardinalityType DEF Eligible
  <2>5. ASSUME \A r \in Eligible : HasPlace(r) PROVE FALSE
    <3>1. racer \in [Visible -> Eligible]
      BY <1>2
    <3>2. racer \in Surjection(Visible, Eligible)
      BY <2>5, <3>1 DEF HasPlace, Surjection
    <3>3. Cardinality(Eligible) <= Cardinality(Visible)
      BY <1>5, <3>2, FS_Surjection
    <3>4. Depth <= Cardinality(Eligible)
      BY <2>4 DEF Depth, FinalPodiumDepth
    <3>5. QED
      BY <1>1, <1>6, <1>8, <2>4, <3>3, <3>4
  <2>6. QED
    BY <2>3, <2>5
<1>9. QED
  BY <1>1, <1>5, <1>6, <1>7, <1>8

\* While the final waits for its result, the scanned podium is complete or some
\* racer can still be scanned into an open place.
THEOREM PodiumCanBeFinishedHolds == Spec => []PodiumCanBeFinished
<1>1. Standing => PlacesApart
  BY DEF Standing
<1>2. QED
  BY <1>1, SomeoneCanBeScanned, StandingInvariant, TypeCorrect, PTL

-----------------------------------------------------------------------------
(* Nobody is scanned out of a place.                                         *)

\* A final with more eligible finalists has no fewer places.
LEMMA DepthGrows ==
  ASSUME Eligible \subseteq Eligible'
  PROVE  Depth <= Depth'
<1>1. /\ IsFiniteSet(Eligible) /\ Cardinality(Eligible) \in Nat
      /\ IsFiniteSet(Eligible') /\ Cardinality(Eligible') \in Nat
  BY FinalAssumption, FS_Subset, FS_CardinalityType DEF Eligible
<1>2. Cardinality(Eligible) <= Cardinality(Eligible')
  BY <1>1, FS_Subset
<1>3. QED
  BY <1>1, <1>2 DEF Depth, FinalPodiumDepth

\* A selection stays visible while nobody leaves and its racer keeps the row.
LEMMA StaysVisible ==
  ASSUME TypeOK, Eligible \subseteq Eligible', NEW s \in Visible, NEW t \in selections',
         t.racer = s.racer, t.place = s.place
  PROVE  \E u \in Visible' : u.racer = s.racer /\ u.place = s.place
<1>1. s.racer \in Racers /\ s.place \in Nat /\ s.place <= Depth /\ reg[s.racer] = "ACTIVE"
  BY DEF Visible, TypeOK, Choice, Places, FinalPodiumDepth
<1>2. reg'[s.racer] = "ACTIVE"
  BY <1>1 DEF Eligible
<1>3. Depth <= Depth' /\ Depth \in Nat /\ Depth' \in Nat
  <2>1. IsFiniteSet(Eligible') /\ IsFiniteSet(Eligible)
    BY FinalAssumption, FS_Subset DEF Eligible
  <2>2. Depth \in Nat /\ Depth' \in Nat
    BY <2>1, FS_CardinalityType DEF Depth, FinalPodiumDepth
  <2>3. QED
    BY <2>2, DepthGrows
<1>4. t \in Visible'
  BY <1>1, <1>2, <1>3 DEF Visible
<1>5. QED
  BY <1>4

\* A place is kept, or it went for one of the reasons the code has.
Kept(s) ==
  \/ \E t \in Visible' : t.racer = s.racer /\ t.place = s.place
  \/ Placing(selections') = Placing(selections) \ {<<s.racer, s.place>>}
  \/ status' # "AWAITING_RESULT" \/ pending' # {}
  \/ \E r \in Racers : reg[r] = "ACTIVE" /\ reg'[r] # "ACTIVE"

LEMMA KeptFrame ==
  ASSUME TypeOK, NEW s \in Visible, s \in selections', Eligible \subseteq Eligible'
  PROVE  Kept(s)
BY StaysVisible DEF Kept

LEMMA KeptStep ==
  ASSUME TypeOK, OneAccount, Standing, [Next]_vars, NEW s \in Visible
  PROVE  Kept(s)
<1> USE DEF raceVars, racerVars, resultVars
<1>1. s \in selections /\ s \in Choice /\ reg[s.racer] = "ACTIVE" /\ s.place <= Depth
  BY DEF Visible, TypeOK
<1>2. UNCHANGED reg => Eligible \subseteq Eligible'
  BY DEF Eligible
<1>3. QuietStep \/ Complete \/ Reopen => Kept(s)
  BY <1>1, <1>2, KeptFrame DEF QuietStep, Complete, Reopen
<1>4. CASE Ready \/ Call \/ Start \/ Finish
  BY <1>1, <1>2, <1>4, KeptFrame DEF Ready, Call, Start, Finish, Transition
<1>5. CASE Reset
  BY <1>5 DEF Reset, Kept
<1>6. ASSUME NEW u \in selections, ClearPlace(u) PROVE Kept(s)
  <2>1. CASE u # s
    BY <1>1, <1>2, <1>6, <2>1, KeptFrame DEF ClearPlace
  <2>2. CASE u = s
    <3>1. \A t \in selections : t.racer = s.racer => t = s
      BY <1>1 DEF Standing, PlacesApart
    <3>2. Placing(selections') = Placing(selections) \ {<<s.racer, s.place>>}
      BY <1>6, <2>2, <3>1 DEF ClearPlace, Placing
    <3>3. QED
      BY <3>2 DEF Kept
  <2>3. QED
    BY <2>1, <2>2
<1>7. ASSUME NEW c \in Clients, ScanCommit(c) PROVE Kept(s)
  <2> DEFINE row == req[c].row
             rows == req[c].carried \cup {row}
  <2>1. CASE selections' = Swept(row) \cup {row}
    <3>1. PlaceIsOpen(row)
      BY <1>7 DEF ScanCommit, ScanAccepted
    <3>2. s.place # row.place
      BY <1>1, <3>1 DEF PlaceIsOpen
    <3>3. s.racer # row.racer
      BY <1>1, <3>1, DepthType DEF PlaceIsOpen, Choice, Places, FinalPodiumDepth
    <3>4. s \in selections'
      BY <1>1, <2>1, <3>2, <3>3 DEF Swept
    <3>5. QED
      BY <1>2, <1>7, <3>4, KeptFrame DEF ScanCommit
  <2>2. CASE \E n \in 1..MaxRevision : pending' = {Stamp(x, n) : x \in rows}
    BY <2>2 DEF Kept
  <2>3. QED
    BY <1>7, <2>1, <2>2 DEF ScanCommit
<1>8. ASSUME NEW c \in Clients, RecordCommit(c) PROVE Kept(s)
  <2>1. req[c].rows # {}
    BY <1>8, CarriedType DEF RecordCommit
  <2>2. PICK n \in 1..MaxRevision : pending' = {Stamp(x, n) : x \in req[c].rows}
    BY <1>8 DEF RecordCommit
  <2>3. pending' # {}
    BY <2>1, <2>2
  <2>4. QED
    BY <2>3 DEF Kept
<1>9. ASSUME NEW c \in Clients, AnnounceCommit(c) \/ CorrectCommit(c) PROVE Kept(s)
  BY <1>1, <1>2, <1>9, KeptFrame DEF AnnounceCommit, CorrectCommit
<1>10. ASSUME NEW c \in Clients, ReactivateCommit(c) \/ PairCommit(c) PROVE Kept(s)
  <2>1. selections' = selections
    BY <1>10 DEF ReactivateCommit, PairCommit
  <2>2. Eligible \subseteq Eligible'
    <3>1. CASE ReactivateCommit(c)
      BY <3>1, CarriedType DEF ReactivateCommit, Eligible, TypeOK
    <3>2. CASE PairCommit(c)
      BY <3>2, CarriedType DEF PairCommit, Eligible, TypeOK
    <3>3. QED
      BY <1>10, <3>1, <3>2
  <2>3. QED
    BY <1>1, <2>1, <2>2, KeptFrame
<1>11. ASSUME NEW r \in Racers, Leave(r) PROVE Kept(s)
  <2>1. CASE reg[r] = "ACTIVE"
    <3>1. reg'[r] # "ACTIVE"
      BY <1>11 DEF Leave, TypeOK
    <3>2. QED
      BY <2>1, <3>1 DEF Kept
  <2>2. CASE reg[r] # "ACTIVE"
    <3>1. Eligible \subseteq Eligible'
      BY <1>11, <2>2 DEF Leave, Eligible, TypeOK
    <3>2. QED
      BY <1>1, <1>11, <3>1, KeptFrame DEF Leave
  <2>3. QED
    BY <2>1, <2>2
<1>12. ASSUME NEW r \in Racers PROVE ~DeleteDuck(r)
  BY <1>1 DEF DeleteDuck, OneAccount
<1>13. ASSUME NEW r \in Racers, ReplaceDuck(r) PROVE Kept(s)
  <2>1. CASE s \in RowsOf(r, duck[r], selections)
    <3> DEFINE t == [s EXCEPT !.duck = duck[r] + 1]
    <3>1. t \in selections'
      BY <1>13, <2>1 DEF ReplaceDuck, Follow
    <3>2. t.racer = s.racer /\ t.place = s.place
      BY <1>1 DEF Choice
    <3> HIDE DEF t
    <3>3. QED
      BY <1>2, <1>13, <3>1, <3>2, StaysVisible DEF ReplaceDuck, Kept
  <2>2. CASE s \notin RowsOf(r, duck[r], selections)
    BY <1>1, <1>2, <1>13, <2>2, KeptFrame DEF ReplaceDuck, Follow
  <2>3. QED
    BY <2>1, <2>2
<1>14. ASSUME NEW r \in Racers, NEW d \in 1..MaxDuck, DeleteOldDuck(r, d) PROVE Kept(s)
  <2>1. d # duck[r]
    BY <1>14 DEF DeleteOldDuck, TypeOK
  <2>2. s \notin RowsOf(r, d, selections)
    BY <1>1, <2>1 DEF RowsOf, Standing, SelectionsFollowDucks
  <2>3. s \in selections'
    BY <1>1, <1>14, <2>2 DEF DeleteOldDuck
  <2>4. QED
    BY <1>2, <1>14, <2>3, KeptFrame DEF DeleteOldDuck
<1>15. QED
  BY StepCases, <1>3, <1>4, <1>5, <1>6, <1>7, <1>8, <1>9, <1>10, <1>11, <1>12,
     <1>13, <1>14

\* Two stations never scan each other's racer out of a place.
THEOREM NoPlaceIsTakenAwayHolds == Spec => NoPlaceIsTakenAway
<1>1. TypeOK /\ OneAccount /\ Standing /\ [Next]_vars
        => [\A s \in Visible : Kept(s)]_vars
  BY KeptStep
<1>2. QED
  BY <1>1, TypeCorrect, OneAccountHolds, StandingInvariant, PTL
  DEF Spec, NoPlaceIsTakenAway, Kept
=============================================================================
