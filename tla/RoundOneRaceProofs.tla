------------------------- MODULE RoundOneRaceProofs -------------------------
(* Proofs about RoundOneRace, for every value of its constants: type         *)
(* correctness first, then the safety properties that TLC checks on the      *)
(* small instances of MCRoundOne.                                            *)
EXTENDS RoundOneRace, FiniteSetTheorems, TLAPS

-----------------------------------------------------------------------------
(* Requests.                                                                 *)

\* Retiring requests leaves every other client's request as it was.
LEMMA LapseType ==
  ASSUME TypeOK, NEW S
  PROVE  Lapse(S) \in [Clients -> Requests]
BY DEF TypeOK, Lapse, Idle, Requests

LEMMA MovedType ==
  ASSUME TypeOK, NEW h
  PROVE  Moved(h) \in [Clients -> Requests]
BY LapseType DEF Moved

\* A request taken in by one client.
LEMMA RequestType ==
  ASSUME TypeOK, NEW c \in Clients, NEW q \in Requests
  PROVE  [req EXCEPT ![c] = q] \in [Clients -> Requests]
BY DEF TypeOK

\* A roster is finite, so its size is a number.
LEMMA FinalSizeType == FinalSize \in Nat
<1>1. IsFiniteSet(Roster(Final))
  BY RacersAssumption, FS_Subset DEF Roster
<1>2. QED
  BY <1>1, FS_CardinalityType DEF FinalSize

\* A lineup gives every finalist a place, and everybody else none.
LEMMA LineupType == Lineups \subseteq [Racers -> Nat]
<1>1. IsFiniteSet(Finalists)
  BY RacersAssumption, FS_Subset DEF Finalists
<1>2. Cardinality(Finalists) \in Nat
  BY <1>1, FS_CardinalityType
<1>3. SUFFICES ASSUME NEW place \in [Finalists -> 0..Cardinality(Finalists)]
               PROVE  [r \in Racers |-> IF r \in Finalists THEN place[r] ELSE 0]
                        \in [Racers -> Nat]
  BY DEF Lineups
<1>4. QED
  BY <1>2

-----------------------------------------------------------------------------
(* Type correctness, one lemma per group of actions.                         *)

LEMMA InitType == Init => TypeOK
BY RacersAssumption
DEF Init, TypeOK, HeatStatus, RegStatus, Result, Requests, Idle, Heats, RoundOne

LEMMA TransitionType ==
  ASSUME TypeOK, NEW h \in Heats, NEW from, NEW to \in HeatStatus,
         Transition(h, from, to), started' \in [Heats -> BOOLEAN]
  PROVE  TypeOK'
BY MovedType DEF Transition, TypeOK, rosterVars, racerVars, resultVars

LEMMA RunHeatsType == TypeOK /\ RunHeats => TypeOK'
<1> SUFFICES ASSUME TypeOK, NEW h \in Heats,
                    Ready(h) \/ Call(h) \/ Start(h) \/ Finish(h) \/ Reset(h)
             PROVE  TypeOK'
  BY DEF RunHeats
<1>1. CASE Ready(h)
  BY <1>1, TransitionType DEF Ready, HeatStatus, TypeOK
<1>2. CASE Call(h)
  BY <1>2, TransitionType DEF Call, HeatStatus, TypeOK
<1>3. CASE Start(h)
  <2>1. started' \in [Heats -> BOOLEAN]
    BY <1>3 DEF Start, TypeOK
  <2>2. QED
    BY <1>3, <2>1, TransitionType DEF Start, HeatStatus
<1>4. CASE Finish(h)
  BY <1>4, TransitionType DEF Finish, HeatStatus, TypeOK
<1>5. CASE Reset(h)
  <2>1. pending' \in [RoundOne -> SUBSET Result]
    BY <1>5 DEF Reset, ClearPending, TypeOK
  <2>2. status' \in [Heats -> HeatStatus]
    BY <1>5 DEF Reset, HeatStatus, TypeOK
  <2>3. QED
    BY <1>5, <2>1, <2>2, MovedType DEF Reset, TypeOK, rosterVars, racerVars
<1>6. QED
  BY <1>1, <1>2, <1>3, <1>4, <1>5

LEMMA RecordType ==
  ASSUME TypeOK, NEW h \in RoundOne, NEW r \in Racers, Record(h, r)
  PROVE  TypeOK'
<1>1. [racer |-> r, duck |-> duck[r]] \in Result
  BY DEF TypeOK, Result
<1>2. pending' \in [RoundOne -> SUBSET Result]
  BY <1>1 DEF Record, TypeOK
<1>3. QED
  BY <1>2, MovedType DEF Record, TypeOK, roundVars, rosterVars, racerVars

LEMMA AnnounceType ==
  ASSUME TypeOK, NEW c \in Clients
  PROVE  /\ \A h \in RoundOne : AnnounceBegin(c, h) => TypeOK'
         /\ AnnounceCommit(c) => TypeOK'
<1>1. ASSUME NEW h \in RoundOne, AnnounceBegin(c, h) PROVE TypeOK'
  <2>1. [op |-> "announce", heat |-> h, slot |-> FinalSize + 1,
         made |-> status[Final] # "NONE"] \in Requests
    BY FinalSizeType DEF Requests
  <2>2. QED
    BY <1>1, <2>1, RequestType
    DEF AnnounceBegin, TypeOK, roundVars, rosterVars, racerVars, resultVars
<1>2. ASSUME AnnounceCommit(c) PROVE TypeOK'
  <2> DEFINE h == req[c].heat
  <2>1. h \in RoundOne /\ req[c].slot \in Nat
    BY <1>2 DEF AnnounceCommit, TypeOK, Requests
  <2>2. finalSlot' \in [Racers -> Nat]
    BY <1>2, <2>1 DEF AnnounceCommit, TypeOK
  <2>3. published' \in [RoundOne -> SUBSET Result]
    BY <1>2, <2>1 DEF AnnounceCommit, TypeOK
  <2>4. pending' \in [RoundOne -> SUBSET Result]
    BY <1>2, <2>1 DEF AnnounceCommit, ClearPending, TypeOK
  <2>5. status' \in [Heats -> HeatStatus]
    BY <1>2, <2>1 DEF AnnounceCommit, HeatStatus, TypeOK
  <2>6. req' \in [Clients -> Requests]
    BY <1>2, MovedType DEF AnnounceCommit
  <2>7. QED
    BY <1>2, <2>2, <2>3, <2>4, <2>5, <2>6 DEF AnnounceCommit, TypeOK, racerVars
<1>3. QED
  BY <1>1, <1>2

LEMMA ReopenType ==
  ASSUME TypeOK, NEW c \in Clients
  PROVE  /\ \A h \in RoundOne : ReopenBegin(c, h) => TypeOK'
         /\ ReopenCommit(c) => TypeOK'
<1>1. ASSUME NEW h \in RoundOne, ReopenBegin(c, h) PROVE TypeOK'
  <2>1. PICK w \in Winners(h) :
          req' = [req EXCEPT ![c] = [op |-> "reopen", heat |-> h, old |-> w,
                                     entry |-> TRUE]]
    BY <1>1 DEF ReopenBegin
  <2>2. w \in Racers
    BY DEF Winners, TypeOK, Result
  <2>3. [op |-> "reopen", heat |-> h, old |-> w, entry |-> TRUE] \in Requests
    BY <2>2 DEF Requests
  <2>4. QED
    BY <1>1, <2>1, <2>3, RequestType
    DEF ReopenBegin, TypeOK, roundVars, rosterVars, racerVars, resultVars
<1>2. ASSUME ReopenCommit(c) PROVE TypeOK'
  <2>1. req[c].heat \in RoundOne
    BY <1>2 DEF ReopenCommit, TypeOK, Requests
  <2>2. finalSlot' \in [Racers -> Nat]
    BY <1>2 DEF ReopenCommit, TypeOK
  <2>3. published' \in [RoundOne -> SUBSET Result] /\ history' \in SUBSET Result
    BY <1>2, <2>1 DEF ReopenCommit, Supersede, TypeOK
  <2>4. status' \in [Heats -> HeatStatus]
    BY <1>2 DEF ReopenCommit, HeatStatus, TypeOK
  <2>5. req' \in [Clients -> Requests]
    BY <1>2, MovedType DEF ReopenCommit
  <2>6. QED
    BY <1>2, <2>2, <2>3, <2>4, <2>5 DEF ReopenCommit, TypeOK, racerVars
<1>3. QED
  BY <1>1, <1>2

LEMMA CorrectType ==
  ASSUME TypeOK, NEW c \in Clients
  PROVE  /\ \A h \in RoundOne, r \in Racers : CorrectBegin(c, h, r) => TypeOK'
         /\ CorrectCommit(c) => TypeOK'
<1>1. ASSUME NEW h \in RoundOne, NEW r \in Racers, CorrectBegin(c, h, r)
      PROVE  TypeOK'
  <2>1. PICK w \in Winners(h) :
          req' = [req EXCEPT ![c] = [op |-> "correct", heat |-> h, old |-> w,
                                     new |-> r, duck |-> duck[r],
                                     entry |-> TRUE]]
    BY <1>1 DEF CorrectBegin
  <2>2. w \in Racers /\ duck[r] \in Nat
    BY DEF Winners, TypeOK, Result
  <2>3. [op |-> "correct", heat |-> h, old |-> w, new |-> r,
         duck |-> duck[r], entry |-> TRUE] \in Requests
    BY <2>2 DEF Requests
  <2>4. QED
    BY <1>1, <2>1, <2>3, RequestType
    DEF CorrectBegin, TypeOK, roundVars, rosterVars, racerVars, resultVars
<1>2. ASSUME CorrectCommit(c) PROVE TypeOK'
  <2> DEFINE q == req[c]
  <2>1. /\ q.heat \in RoundOne /\ q.old \in Racers
        /\ q.new \in Racers /\ q.duck \in Nat
    BY <1>2 DEF CorrectCommit, TypeOK, Requests
  <2>2. [racer |-> q.new, duck |-> q.duck] \in Result
    BY <2>1 DEF Result
  <2>3. published' \in [RoundOne -> SUBSET Result] /\ history' \in SUBSET Result
    BY <1>2, <2>1, <2>2 DEF CorrectCommit, Supersede, TypeOK
  <2>4. finalSlot' \in [Racers -> Nat]
    BY <1>2, <2>1 DEF CorrectCommit, TypeOK
  <2>5. req' \in [Clients -> Requests]
    BY <1>2, LapseType DEF CorrectCommit
  <2>6. QED
    BY <1>2, <2>3, <2>4, <2>5 DEF CorrectCommit, TypeOK, roundVars, racerVars
<1>3. QED
  BY <1>1, <1>2

LEMMA ResultsType == TypeOK /\ Results => TypeOK'
BY RecordType, AnnounceType, ReopenType, CorrectType DEF Results

LEMMA SettleType == TypeOK /\ Settle => TypeOK'
<1> SUFFICES ASSUME TypeOK, NEW h \in RoundOne, Skip(h) \/ Uncontested(h)
             PROVE  TypeOK'
  BY DEF Settle
<1>1. CASE Skip(h)
  <2>1. status' \in [Heats -> HeatStatus]
    BY <1>1 DEF Skip, HeatStatus, TypeOK
  <2>2. QED
    BY <1>1, <2>1, MovedType DEF Skip, TypeOK, rosterVars, racerVars, resultVars
<1>2. CASE Uncontested(h)
  <2>1. PICK r \in Racers :
          /\ finalSlot' = [finalSlot EXCEPT ![r] = FinalSize + 1]
          /\ published' = [published EXCEPT ![h] = {[racer |-> r, duck |-> duck[r]]}]
    BY <1>2 DEF Uncontested
  <2>2. [racer |-> r, duck |-> duck[r]] \in Result
    BY DEF TypeOK, Result
  <2>3. published' \in [RoundOne -> SUBSET Result]
    BY <2>1, <2>2 DEF TypeOK
  <2>4. finalSlot' \in [Racers -> Nat]
    BY <2>1, FinalSizeType DEF TypeOK
  <2>5. status' \in [Heats -> HeatStatus]
    BY <1>2 DEF Uncontested, HeatStatus, TypeOK
  <2>6. QED
    BY <1>2, <2>3, <2>4, <2>5, MovedType DEF Uncontested, TypeOK, racerVars
<1>3. QED
  BY <1>1, <1>2

LEMMA ReplaceRosterType == TypeOK /\ ReplaceRoster => TypeOK'
<1> SUFFICES ASSUME TypeOK, NEW c \in Clients, RosterBegin(c) \/ RosterCommit(c)
             PROVE  TypeOK'
  BY DEF ReplaceRoster
<1>1. CASE RosterBegin(c)
  <2>1. PICK slots \in Lineups :
          req' = [req EXCEPT ![c] = [op |-> "roster", slots |-> slots]]
    BY <1>1 DEF RosterBegin
  <2>2. [op |-> "roster", slots |-> slots] \in Requests
    BY LineupType DEF Requests
  <2>3. QED
    BY <1>1, <2>1, <2>2, RequestType
    DEF RosterBegin, TypeOK, roundVars, rosterVars, racerVars, resultVars
<1>2. CASE RosterCommit(c)
  <2>1. finalSlot' \in [Racers -> Nat]
    BY <1>2 DEF RosterCommit, TypeOK, Requests
  <2>2. ASSUME NEW d \in Clients, req[d].op \in {"reopen", "correct"}
        PROVE  [req[d] EXCEPT !.entry = FALSE] \in Requests
    <3> DEFINE q == req[d]
    <3>1. CASE q \in [op : {"reopen"}, heat : RoundOne, old : Racers,
                      entry : BOOLEAN]
      <4>1. [q EXCEPT !.entry = FALSE] \in [op : {"reopen"}, heat : RoundOne,
                                            old : Racers, entry : BOOLEAN]
        BY <3>1
      <4>2. QED
        BY <4>1 DEF Requests
    <3>2. CASE q \in [op : {"correct"}, heat : RoundOne, old : Racers,
                      new : Racers, duck : Nat, entry : BOOLEAN]
      <4>1. [q EXCEPT !.entry = FALSE] \in
              [op : {"correct"}, heat : RoundOne, old : Racers, new : Racers,
               duck : Nat, entry : BOOLEAN]
        BY <3>2
      <4>2. QED
        BY <4>1 DEF Requests
    <3>3. QED
      BY <2>2, <3>1, <3>2 DEF TypeOK, Requests
  <2>3. req' \in [Clients -> Requests]
    BY <1>2, <2>2 DEF RosterCommit, Idle, Requests, TypeOK
  <2>4. QED
    BY <1>2, <2>1, <2>3 DEF RosterCommit, TypeOK, roundVars, racerVars, resultVars
<1>3. QED
  BY <1>1, <1>2

LEMMA ParticipantsType == TypeOK /\ Participants => TypeOK'
<1> USE DEF TypeOK, roundVars, rosterVars, racerVars, resultVars, RegStatus
<1>1. ASSUME TypeOK, NEW r \in Racers,
             CreateWalkUp(r) \/ Leave(r) \/ DeleteRegistration(r)
      PROVE  TypeOK'
  BY <1>1, LapseType DEF CreateWalkUp, Leave, DeleteRegistration
<1>2. ASSUME TypeOK, NEW c \in Clients, NEW r \in Racers, ReactivateBegin(c, r)
      PROVE  TypeOK'
  <2>1. [op |-> "reactivate", racer |-> r,
         target |-> IF held[r] THEN "ACTIVE" ELSE "SUBMITTED"] \in Requests
    BY DEF Requests
  <2>2. QED
    BY <1>2, <2>1, RequestType DEF ReactivateBegin
<1>3. ASSUME TypeOK, NEW c \in Clients, ReactivateCommit(c) PROVE TypeOK'
  <2>1. req[c].racer \in Racers /\ req[c].target \in RegStatus
    BY <1>3 DEF ReactivateCommit, Requests
  <2>2. QED
    BY <1>3, <2>1, LapseType DEF ReactivateCommit
<1>4. QED
  BY <1>1, <1>2, <1>3 DEF Participants

LEMMA DucksType == TypeOK /\ Ducks => TypeOK'
<1> USE DEF roundVars, rosterVars, racerVars, resultVars
<1>1. ASSUME TypeOK, NEW r \in Racers, DeleteDuck(r) \/ ReplaceDuck(r)
      PROVE  TypeOK'
  <2>1. CASE DeleteDuck(r)
    BY <1>1, <2>1 DEF DeleteDuck, TypeOK, RegStatus
  <2>2. CASE ReplaceDuck(r)
    BY <1>1, <2>2 DEF ReplaceDuck, TypeOK
  <2>3. QED
    BY <1>1, <2>1, <2>2
<1>2. ASSUME TypeOK, NEW h \in RoundOne, EraseOldDuck(h) PROVE TypeOK'
  BY <1>2 DEF EraseOldDuck, TypeOK
<1>3. ASSUME TypeOK, NEW c \in Clients, NEW r \in Racers, PairBegin(c, r)
      PROVE  TypeOK'
  <2>1. PICK h \in RoundOne \cup {NoHeat}, new \in BOOLEAN :
          req' = [req EXCEPT ![c] = [op |-> "pair", racer |-> r, heat |-> h,
                                     new |-> new]]
    BY <1>3 DEF PairBegin
  <2>2. [op |-> "pair", racer |-> r, heat |-> h, new |-> new] \in Requests
    BY DEF Requests
  <2>3. QED
    BY <1>3, <2>1, <2>2, RequestType DEF PairBegin, TypeOK
<1>4. ASSUME TypeOK, NEW c \in Clients, PairCommit(c) PROVE TypeOK'
  <2> DEFINE r == req[c].racer
             h == req[c].heat
  <2>1. r \in Racers /\ h \in RoundOne \cup {NoHeat}
    BY <1>4 DEF PairCommit, TypeOK, Requests
  <2>2. status' \in [Heats -> HeatStatus]
    BY <1>4 DEF PairCommit, TypeOK, HeatStatus
  <2>3. heatOf' \in [Racers -> RoundOne \cup {NoHeat}]
    BY <1>4, <2>1 DEF PairCommit, TypeOK
  <2>4. /\ reg' \in [Racers -> RegStatus]
        /\ held' \in [Racers -> BOOLEAN]
        /\ duck' \in [Racers -> Nat]
    BY <1>4, <2>1 DEF PairCommit, TypeOK, RegStatus
  <2>5. req' \in [Clients -> Requests]
    BY <1>4, LapseType DEF PairCommit
  <2>6. QED
    BY <1>4, <2>2, <2>3, <2>4, <2>5 DEF PairCommit, TypeOK
<1>5. QED
  BY <1>1, <1>2, <1>3, <1>4 DEF Ducks

LEMMA StartFinalType == TypeOK /\ StartFinal => TypeOK'
<1> SUFFICES ASSUME TypeOK, StartFinal PROVE TypeOK'
  OBVIOUS
<1>1. status' \in [Heats -> HeatStatus]
  BY DEF StartFinal, TypeOK, HeatStatus
<1>2. req' \in [Clients -> Requests]
  BY MovedType DEF StartFinal, TypeOK
<1>3. QED
  BY <1>1, <1>2 DEF StartFinal, TypeOK, rosterVars, racerVars, resultVars

LEMMA AbandonType == ASSUME TypeOK, NEW c \in Clients, Abandon(c) PROVE TypeOK'
BY LapseType
DEF Abandon, TypeOK, roundVars, rosterVars, racerVars, resultVars

\* Every step keeps every variable in its type.
LEMMA NextType == TypeOK /\ [Next]_vars => TypeOK'
<1>1. TypeOK /\ Next => TypeOK'
  BY RunHeatsType, ResultsType, SettleType, ReplaceRosterType,
     ParticipantsType, DucksType, StartFinalType, AbandonType
  DEF Next
<1>2. TypeOK /\ UNCHANGED vars => TypeOK'
  BY DEF TypeOK, vars, roundVars, rosterVars, racerVars, resultVars
<1>3. QED
  BY <1>1, <1>2

\* Whatever staff do and in whatever order their batches land, every variable
\* keeps its type.
THEOREM TypeCorrect == Spec => []TypeOK
BY InitType, NextType, PTL DEF Spec

\* The final is no heat of Round One.
LEMMA TwoRounds == Final \in Heats /\ \A h \in RoundOne : h # Final /\ h \in Heats
BY RacersAssumption DEF Heats, RoundOne, Final

-----------------------------------------------------------------------------
(* The steps, sorted: those that only take a request in or give it up, and   *)
(* the batches.                                                              *)

QuietStep == UNCHANGED <<roundVars, rosterVars, racerVars, resultVars>>

LEMMA StepCases ==
  ASSUME [Next]_vars
  PROVE  \/ QuietStep
         \/ \E h \in Heats : Ready(h) \/ Call(h) \/ Start(h) \/ Finish(h) \/ Reset(h)
         \/ \E h \in RoundOne, r \in Racers : Record(h, r)
         \/ \E c \in Clients : AnnounceCommit(c) \/ ReopenCommit(c) \/ CorrectCommit(c)
         \/ \E h \in RoundOne : Skip(h) \/ Uncontested(h) \/ EraseOldDuck(h)
         \/ \E c \in Clients : RosterCommit(c) \/ ReactivateCommit(c) \/ PairCommit(c)
         \/ \E r \in Racers : \/ CreateWalkUp(r) \/ Leave(r) \/ DeleteRegistration(r)
                              \/ DeleteDuck(r) \/ ReplaceDuck(r)
         \/ StartFinal
<1>1. CASE UNCHANGED vars
  BY <1>1 DEF vars, QuietStep
<1>2. CASE RunHeats
  BY <1>2 DEF RunHeats
<1>3. CASE Results
  BY <1>3 DEF Results, AnnounceBegin, ReopenBegin, CorrectBegin, QuietStep
<1>4. CASE Settle
  BY <1>4 DEF Settle
<1>5. CASE ReplaceRoster
  BY <1>5 DEF ReplaceRoster, RosterBegin, QuietStep
<1>6. CASE Participants
  BY <1>6 DEF Participants, ReactivateBegin, QuietStep
<1>7. CASE Ducks
  BY <1>7 DEF Ducks, PairBegin, QuietStep
<1>8. CASE StartFinal \/ \E c \in Clients : Abandon(c)
  BY <1>8 DEF Abandon, QuietStep
<1>9. QED
  BY <1>1, <1>2, <1>3, <1>4, <1>5, <1>6, <1>7, <1>8 DEF Next

\* Only these steps touch a heat's status, and this is what they do to it.
LEMMA StatusSteps ==
  ASSUME TypeOK, [Next]_vars
  PROVE  \/ UNCHANGED status
         \/ \E h \in Heats : Start(h)
         \/ \E h \in Heats, s \in HeatStatus \ {"RUNNING"} :
              status' = [status EXCEPT ![h] = s]
         \/ \E h \in RoundOne : status' = [status EXCEPT ![h] = "FINALIZED",
                                                         ![Final] = "PLANNED"]
<1>1. CASE QuietStep
  BY <1>1 DEF QuietStep, roundVars
<1>2. ASSUME NEW h \in Heats, Ready(h) \/ Call(h) \/ Finish(h) \/ Reset(h)
      PROVE  \E s \in HeatStatus \ {"RUNNING"} : status' = [status EXCEPT ![h] = s]
  BY <1>2 DEF Ready, Call, Finish, Reset, Transition, HeatStatus
<1>3. ASSUME NEW c \in Clients, AnnounceCommit(c) \/ ReopenCommit(c) \/ CorrectCommit(c)
      PROVE  \/ UNCHANGED status
             \/ \E h \in RoundOne : status' = [status EXCEPT ![h] = "AWAITING_RESULT"]
             \/ \E h \in RoundOne : status' = [status EXCEPT ![h] = "FINALIZED",
                                                             ![Final] = "PLANNED"]
  BY <1>3 DEF AnnounceCommit, ReopenCommit, CorrectCommit, roundVars, TypeOK, Requests
<1>4. ASSUME NEW h \in RoundOne, Skip(h) \/ Uncontested(h) \/ EraseOldDuck(h)
      PROVE  \/ UNCHANGED status
             \/ status' = [status EXCEPT ![h] = "CANCELLED"]
             \/ status' = [status EXCEPT ![h] = "FINALIZED", ![Final] = "PLANNED"]
  BY <1>4 DEF Skip, Uncontested, EraseOldDuck, roundVars
<1>5. ASSUME NEW c \in Clients, RosterCommit(c) \/ ReactivateCommit(c) \/ PairCommit(c)
      PROVE  \/ UNCHANGED status
             \/ \E h \in RoundOne : status' = [status EXCEPT ![h] = "LOADING"]
  BY <1>5 DEF RosterCommit, ReactivateCommit, PairCommit, roundVars, TypeOK,
              Requests
<1>6. ASSUME StartFinal
      PROVE  status' = [status EXCEPT ![Final] = IF @ = "PLANNED" THEN "LOADING" ELSE @]
  BY <1>6 DEF StartFinal
<1>7. QED
  <2>1. RoundOne \subseteq Heats /\ Final \in Heats
    BY DEF Heats
  <2>2. {"LOADING", "AWAITING_RESULT", "CANCELLED"} \subseteq HeatStatus \ {"RUNNING"}
    BY DEF HeatStatus
  <2>3. ASSUME StartFinal
        PROVE  \/ UNCHANGED status
               \/ status' = [status EXCEPT ![Final] = "LOADING"]
    BY <1>6, <2>3, <2>1 DEF TypeOK
  <2>4. ASSUME NEW r \in Racers, \/ CreateWalkUp(r) \/ Leave(r) \/ DeleteRegistration(r)
                                 \/ DeleteDuck(r) \/ ReplaceDuck(r)
        PROVE  UNCHANGED status
    BY <2>4 DEF CreateWalkUp, Leave, DeleteRegistration, DeleteDuck, ReplaceDuck,
                roundVars
  <2>5. ASSUME NEW h \in RoundOne, NEW r \in Racers, Record(h, r)
        PROVE  UNCHANGED status
    BY <2>5 DEF Record, roundVars
  <2>6. QED
    BY <1>1, <1>2, <1>3, <1>4, <1>5, <2>1, <2>2, <2>3, <2>4, <2>5, StepCases

-----------------------------------------------------------------------------
(* One heat on the water.                                                    *)

LEMMA OneHeatRunningStep == TypeOK /\ OneHeatRunning /\ [Next]_vars => OneHeatRunning'
<1> SUFFICES ASSUME TypeOK, OneHeatRunning, [Next]_vars PROVE OneHeatRunning'
  OBVIOUS
<1>1. CASE UNCHANGED status
  BY <1>1 DEF OneHeatRunning
<1>2. ASSUME NEW h \in Heats, Start(h) PROVE OneHeatRunning'
  BY <1>2 DEF Start, Transition, InFlight, OneHeatRunning, TypeOK
<1>3. ASSUME NEW h \in Heats, NEW s \in HeatStatus \ {"RUNNING"},
             status' = [status EXCEPT ![h] = s]
      PROVE  OneHeatRunning'
  BY <1>3 DEF OneHeatRunning, TypeOK
<1>4. ASSUME NEW h \in RoundOne,
             status' = [status EXCEPT ![h] = "FINALIZED", ![Final] = "PLANNED"]
      PROVE  OneHeatRunning'
  BY <1>4 DEF OneHeatRunning, TypeOK
<1>5. QED
  BY <1>1, <1>2, <1>3, <1>4, StatusSteps

\* Never two heats on the water, whatever the number of heats and of clients.
THEOREM OneHeatRunningHolds == Spec => []OneHeatRunning
<1>1. Init => OneHeatRunning
  BY DEF Init, OneHeatRunning
<1>2. QED
  BY <1>1, OneHeatRunningStep, TypeCorrect, PTL DEF Spec

-----------------------------------------------------------------------------
(* Results.                                                                  *)

\* A step that leaves a heat's status and its rows alone keeps its account.
LEMMA AccountFrame ==
  ASSUME NEW h \in RoundOne, Account(h), status'[h] = status[h],
         pending'[h] = pending[h], published'[h] = published[h]
  PROVE  Account(h)'
BY DEF Account

LEMMA OneAccountPerHeatStep == TypeOK /\ OneAccountPerHeat /\ [Next]_vars => OneAccountPerHeat'
<1> SUFFICES ASSUME TypeOK, OneAccountPerHeat, [Next]_vars, NEW g \in RoundOne
             PROVE  Account(g)'
  BY DEF OneAccountPerHeat
<1> Account(g) /\ g # Final /\ g \in Heats
  BY TwoRounds DEF OneAccountPerHeat
<1>1. CASE QuietStep
  BY <1>1, AccountFrame DEF QuietStep, roundVars, resultVars
<1>2. ASSUME NEW h \in Heats, Ready(h) \/ Call(h) \/ Start(h) \/ Finish(h)
      PROVE  Account(g)'
  <2>1. PICK from, to : /\ status[h] = from /\ status' = [status EXCEPT ![h] = to]
                        /\ from \notin {"AWAITING_RESULT", "FINALIZED"}
                        /\ to # "FINALIZED"
                        /\ UNCHANGED <<pending, published>>
    BY <1>2 DEF Ready, Call, Start, Finish, Transition, resultVars
  <2>2. CASE g = h
    BY <2>1, <2>2 DEF Account, TypeOK
  <2>3. CASE g # h
    BY <2>1, <2>3, AccountFrame DEF TypeOK
  <2>4. QED
    BY <2>2, <2>3
<1>3. ASSUME NEW h \in Heats, Reset(h) PROVE Account(g)'
  <2>1. CASE g = h
    BY <1>3, <2>1 DEF Reset, ClearPending, Account, TypeOK
  <2>2. CASE g # h
    BY <1>3, <2>2, AccountFrame DEF Reset, ClearPending, TypeOK
  <2>3. QED
    BY <2>1, <2>2
<1>4. ASSUME NEW h \in RoundOne, NEW r \in Racers, Record(h, r) PROVE Account(g)'
  <2>1. CASE g = h
    BY <1>4, <2>1 DEF Record, Account, TypeOK, roundVars
  <2>2. CASE g # h
    BY <1>4, <2>2, AccountFrame DEF Record, TypeOK, roundVars
  <2>3. QED
    BY <2>1, <2>2
<1>5. ASSUME NEW c \in Clients, AnnounceCommit(c) PROVE Account(g)'
  <2>1. req[c].heat \in RoundOne
    BY <1>5 DEF AnnounceCommit, TypeOK, Requests
  <2>2. CASE g = req[c].heat
    <3>1. PICK row \in pending[g] : pending[g] = {row}
      BY <1>5, <2>2 DEF AnnounceCommit
    <3>2. row \in Result
      BY <3>1 DEF TypeOK
    <3>3. published'[g] = {row} /\ pending'[g] = {} /\ status'[g] = "FINALIZED"
      BY <1>5, <2>2, <3>1 DEF AnnounceCommit, ClearPending, TypeOK
    <3>4. QED
      BY <3>2, <3>3 DEF Account
  <2>3. CASE g # req[c].heat
    BY <1>5, <2>1, <2>3, AccountFrame DEF AnnounceCommit, ClearPending, TypeOK
  <2>4. QED
    BY <2>2, <2>3
<1>6. ASSUME NEW c \in Clients, ReopenCommit(c) PROVE Account(g)'
  <2>1. req[c].heat \in RoundOne
    BY <1>6 DEF ReopenCommit, TypeOK, Requests
  <2>2. CASE g = req[c].heat
    BY <1>6, <2>2 DEF ReopenCommit, Account, TypeOK
  <2>3. CASE g # req[c].heat
    BY <1>6, <2>1, <2>3, AccountFrame DEF ReopenCommit, TypeOK
  <2>4. QED
    BY <2>2, <2>3
<1>7. ASSUME NEW c \in Clients, CorrectCommit(c) PROVE Account(g)'
  <2> DEFINE row == [racer |-> req[c].new, duck |-> req[c].duck]
  <2>1. req[c].heat \in RoundOne /\ row \in Result
    BY <1>7 DEF CorrectCommit, TypeOK, Requests, Result
  <2>2. CASE g = req[c].heat
    BY <1>7, <2>1, <2>2 DEF CorrectCommit, Account, TypeOK, roundVars
  <2>3. CASE g # req[c].heat
    BY <1>7, <2>1, <2>3, AccountFrame DEF CorrectCommit, TypeOK, roundVars
  <2>4. QED
    BY <2>2, <2>3
<1>8. ASSUME NEW h \in RoundOne, Skip(h) PROVE Account(g)'
  <2>1. CASE g = h
    BY <1>8, <2>1 DEF Skip, Settleable, NeverStarted, Account, TypeOK, resultVars
  <2>2. CASE g # h
    BY <1>8, <2>2, AccountFrame DEF Skip, TypeOK, resultVars
  <2>3. QED
    BY <2>1, <2>2
<1>9. ASSUME NEW h \in RoundOne, Uncontested(h) PROVE Account(g)'
  <2>1. PICK r \in Racers :
          published' = [published EXCEPT ![h] = {[racer |-> r, duck |-> duck[r]]}]
    BY <1>9 DEF Uncontested
  <2>2. [racer |-> r, duck |-> duck[r]] \in Result
    BY DEF TypeOK, Result
  <2>3. CASE g = h
    BY <1>9, <2>1, <2>2, <2>3
    DEF Uncontested, Settleable, NeverStarted, Account, TypeOK
  <2>4. CASE g # h
    <3>1. status'[g] = status[g] /\ pending' = pending
      BY <1>9, <2>4, TwoRounds DEF Uncontested, TypeOK
    <3>2. published'[g] = published[g]
      BY <2>1, <2>4 DEF TypeOK
    <3>3. QED
      BY <3>1, <3>2, AccountFrame
  <2>5. QED
    BY <2>3, <2>4
<1>10. ASSUME NEW h \in RoundOne, EraseOldDuck(h) PROVE Account(g)'
  <2>1. pending'[g] \subseteq pending[g]
    BY <1>10 DEF EraseOldDuck, TypeOK
  <2>2. UNCHANGED <<status, published>>
    BY <1>10 DEF EraseOldDuck, roundVars
  <2>3. QED
    BY <2>1, <2>2 DEF Account
<1>11. ASSUME NEW c \in Clients, RosterCommit(c) \/ ReactivateCommit(c)
       PROVE  Account(g)'
  BY <1>11, AccountFrame DEF RosterCommit, ReactivateCommit, roundVars, resultVars
<1>12. ASSUME NEW c \in Clients, PairCommit(c) PROVE Account(g)'
  <2>1. \/ status' = status
        \/ \E h \in RoundOne : /\ status[h] = "NONE"
                               /\ status' = [status EXCEPT ![h] = "LOADING"]
    BY <1>12 DEF PairCommit, TypeOK, Requests
  <2>2. UNCHANGED <<pending, published>>
    BY <1>12 DEF PairCommit, resultVars
  <2>3. QED
    BY <2>1, <2>2 DEF Account, TypeOK
<1>13. ASSUME NEW r \in Racers, \/ CreateWalkUp(r) \/ Leave(r) \/ DeleteRegistration(r)
                                \/ DeleteDuck(r) \/ ReplaceDuck(r)
       PROVE  Account(g)'
  BY <1>13, AccountFrame
  DEF CreateWalkUp, Leave, DeleteRegistration, DeleteDuck, ReplaceDuck,
      roundVars, resultVars
<1>14. CASE StartFinal
  BY <1>14, AccountFrame DEF StartFinal, resultVars, TypeOK
<1>15. QED
  BY StepCases, <1>1, <1>2, <1>3, <1>4, <1>5, <1>6, <1>7, <1>8, <1>9, <1>10,
     <1>11, <1>12, <1>13, <1>14

\* A heat never has two accounts of its finish, and an official result exactly
\* while it is finalized, for every draw and every interleaving of commands.
THEOREM OneAccountPerHeatHolds == Spec => []OneAccountPerHeat
<1>1. Init => OneAccountPerHeat
  BY DEF Init, OneAccountPerHeat, Account, Heats
<1>2. QED
  BY <1>1, OneAccountPerHeatStep, TypeCorrect, PTL DEF Spec

\* With the account of each heat known, no step can drop an official result.
LEMMA ResultsAreKeptStep ==
  ASSUME TypeOK, OneAccountPerHeat, [Next]_vars, NEW h \in RoundOne
  PROVE  published[h] \ published'[h] \subseteq history'
<1> USE DEF Supersede
<1>1. CASE QuietStep
  BY <1>1 DEF QuietStep, resultVars
<1>2. ASSUME NEW g \in Heats, Ready(g) \/ Call(g) \/ Start(g) \/ Finish(g) \/ Reset(g)
      PROVE  UNCHANGED published
  BY <1>2 DEF Ready, Call, Start, Finish, Reset, Transition, resultVars
<1>3. ASSUME NEW g \in RoundOne, NEW r \in Racers, Record(g, r)
      PROVE  UNCHANGED published
  BY <1>3 DEF Record
<1>4. ASSUME NEW c \in Clients, AnnounceCommit(c)
      PROVE  published[h] \subseteq published'[h]
  <2>1. req[c].heat \in RoundOne
    BY <1>4 DEF AnnounceCommit, TypeOK, Requests
  <2>2. published[req[c].heat] = {}
    BY <1>4, <2>1 DEF AnnounceCommit, OneAccountPerHeat, Account
  <2>3. QED
    BY <1>4, <2>1, <2>2 DEF AnnounceCommit, TypeOK
<1>5. ASSUME NEW c \in Clients, ReopenCommit(c) \/ CorrectCommit(c)
      PROVE  published[h] \ published'[h] \subseteq history'
  BY <1>5 DEF ReopenCommit, CorrectCommit, TypeOK
<1>6. ASSUME NEW g \in RoundOne, Skip(g) \/ EraseOldDuck(g)
      PROVE  UNCHANGED published
  BY <1>6 DEF Skip, EraseOldDuck, resultVars
<1>7. ASSUME NEW g \in RoundOne, Uncontested(g)
      PROVE  published[h] \subseteq published'[h]
  <2>1. published[g] = {}
    BY <1>7 DEF Uncontested, Settleable, NeverStarted, OneAccountPerHeat, Account
  <2>2. QED
    BY <1>7, <2>1 DEF Uncontested, TypeOK
<1>8. ASSUME NEW c \in Clients, RosterCommit(c) \/ ReactivateCommit(c) \/ PairCommit(c)
      PROVE  UNCHANGED published
  BY <1>8 DEF RosterCommit, ReactivateCommit, PairCommit, resultVars
<1>9. ASSUME NEW r \in Racers, \/ CreateWalkUp(r) \/ Leave(r) \/ DeleteRegistration(r)
                               \/ DeleteDuck(r) \/ ReplaceDuck(r)
      PROVE  UNCHANGED published
  BY <1>9 DEF CreateWalkUp, Leave, DeleteRegistration, DeleteDuck, ReplaceDuck,
              resultVars
<1>10. CASE StartFinal
  BY <1>10 DEF StartFinal, resultVars
<1>11. QED
  BY StepCases, <1>1, <1>2, <1>3, <1>4, <1>5, <1>6, <1>7, <1>8, <1>9, <1>10

\* Official results only ever move to the history, for every instance.
THEOREM ResultsAreKeptHolds == Spec => ResultsAreKept
<1>1. TypeOK /\ OneAccountPerHeat /\ [Next]_vars
        => [\A h \in RoundOne : published[h] \ published[h]' \subseteq history']_vars
  BY ResultsAreKeptStep
<1>2. QED
  BY <1>1, TypeCorrect, OneAccountPerHeatHolds, PTL DEF Spec, ResultsAreKept

-----------------------------------------------------------------------------
(* The end of the round and the final's roster.                              *)

\* In ROUND_ONE there is nothing to show; a step inside FINAL leaves settled
\* heats settled and the final out of its plan.
LEMMA FinalAfterRoundStep ==
  TypeOK /\ FinalAfterRound /\ [Next]_vars => FinalAfterRound'
<1> SUFFICES ASSUME TypeOK, FinalAfterRound, [Next]_vars, evStatus' = "FINAL"
             PROVE  /\ \A h \in Planned' : status'[h] \in {"FINALIZED", "CANCELLED"}
                    /\ status'[Final] \notin {"NONE", "PLANNED"}
  BY DEF FinalAfterRound
<1> USE TwoRounds DEF Planned
<1>1. ASSUME evStatus = "FINAL", UNCHANGED status
      PROVE  /\ \A h \in Planned' : status'[h] \in {"FINALIZED", "CANCELLED"}
             /\ status'[Final] \notin {"NONE", "PLANNED"}
  BY <1>1 DEF FinalAfterRound
<1>2. ASSUME NEW h \in Heats, Ready(h) \/ Call(h) \/ Start(h) \/ Finish(h) \/ Reset(h)
      PROVE  /\ \A g \in Planned' : status'[g] \in {"FINALIZED", "CANCELLED"}
             /\ status'[Final] \notin {"NONE", "PLANNED"}
  <2>1. evStatus = "FINAL" /\ h = Final
    BY <1>2 DEF Ready, Call, Start, Finish, Reset, Transition, InRound
  <2>2. PICK to \in HeatStatus \ {"NONE", "PLANNED"} :
          status' = [status EXCEPT ![Final] = to]
    BY <1>2, <2>1
    DEF Ready, Call, Start, Finish, Reset, Transition, HeatStatus
  <2>3. QED
    BY <2>1, <2>2 DEF FinalAfterRound, TypeOK
<1>3. ASSUME StartFinal
      PROVE  /\ \A h \in Planned' : status'[h] \in {"FINALIZED", "CANCELLED"}
             /\ status'[Final] \notin {"NONE", "PLANNED"}
  <2>1. \A h \in RoundOne : status'[h] = status[h]
    BY <1>3 DEF StartFinal, TypeOK
  <2>2. status'[Final] \notin {"NONE", "PLANNED"}
    BY <1>3 DEF StartFinal, TypeOK
  <2>3. QED
    BY <1>3, <2>1, <2>2 DEF StartFinal, Settled
<1>4. CASE QuietStep
  BY <1>1, <1>4 DEF QuietStep, roundVars
<1>5. ASSUME NEW c \in Clients, AnnounceCommit(c) \/ ReopenCommit(c) PROVE FALSE
  BY <1>5 DEF AnnounceCommit, ReopenCommit, InRound, TypeOK, Requests
<1>6. ASSUME NEW h \in RoundOne, Skip(h) \/ Uncontested(h) PROVE FALSE
  BY <1>6 DEF Skip, Uncontested, Settleable
<1>7. ASSUME NEW c \in Clients, PairCommit(c)
      PROVE  evStatus = "FINAL" /\ UNCHANGED status
  BY <1>7 DEF PairCommit
<1>8. ASSUME NEW c \in Clients, CorrectCommit(c) \/ RosterCommit(c) \/ ReactivateCommit(c)
      PROVE  evStatus = "FINAL" /\ UNCHANGED status
  BY <1>8 DEF CorrectCommit, RosterCommit, ReactivateCommit, roundVars
<1>9. ASSUME NEW h \in RoundOne, EraseOldDuck(h) \/ \E r \in Racers : Record(h, r)
      PROVE  evStatus = "FINAL" /\ UNCHANGED status
  BY <1>9 DEF EraseOldDuck, Record, roundVars
<1>10. ASSUME NEW r \in Racers, \/ CreateWalkUp(r) \/ Leave(r) \/ DeleteRegistration(r)
                                \/ DeleteDuck(r) \/ ReplaceDuck(r)
       PROVE  evStatus = "FINAL" /\ UNCHANGED status
  BY <1>10 DEF CreateWalkUp, Leave, DeleteRegistration, DeleteDuck, ReplaceDuck,
               roundVars
<1>11. QED
  BY StepCases, <1>1, <1>2, <1>3, <1>4, <1>5, <1>6, <1>7, <1>8, <1>9, <1>10

\* FINAL means the round is over, whatever was reopened on the way there.
THEOREM FinalAfterRoundHolds == Spec => []FinalAfterRound
<1>1. Init => FinalAfterRound
  BY DEF Init, FinalAfterRound
<1>2. QED
  BY <1>1, FinalAfterRoundStep, TypeCorrect, PTL DEF Spec

\* Only corrections reach a roster that has left PLANNED, and they hand over
\* one slot.
LEMMA LockedFinalRosterStep ==
  ASSUME TypeOK, [Next]_vars,
         status[Final] \notin {"NONE", "PLANNED"}, finalSlot' # finalSlot
  PROVE  /\ status[Final] = "LOADING"
         /\ \E old \in Roster(Final) : \E new \in Racers \ Roster(Final) :
              finalSlot' = [finalSlot EXCEPT ![old] = 0, ![new] = finalSlot[old]]
<1>1. ASSUME NEW c \in Clients, CorrectCommit(c)
      PROVE  /\ status[Final] = "LOADING"
             /\ \E old \in Roster(Final) : \E new \in Racers \ Roster(Final) :
                  finalSlot' = [finalSlot EXCEPT ![old] = 0, ![new] = finalSlot[old]]
  <2> DEFINE old == req[c].old
             new == req[c].new
  <2>1. old \in Racers /\ new \in Racers
    BY <1>1 DEF CorrectCommit, TypeOK, Requests
  <2>2. /\ status[Final] = "LOADING"
        /\ finalSlot[old] > 0 /\ finalSlot[new] = 0
        /\ finalSlot' = [finalSlot EXCEPT ![new] = finalSlot[old], ![old] = 0]
    BY <1>1 DEF CorrectCommit
  <2>3. old \in Roster(Final) /\ new \in Racers \ Roster(Final)
    BY <2>1, <2>2 DEF Roster
  <2>4. finalSlot' = [finalSlot EXCEPT ![old] = 0, ![new] = finalSlot[old]]
    BY <2>1, <2>2 DEF TypeOK
  <2>5. QED
    BY <2>2, <2>3, <2>4
<1>2. ASSUME NEW c \in Clients, AnnounceCommit(c) \/ ReopenCommit(c) \/ RosterCommit(c)
      PROVE  FALSE
  BY <1>2 DEF AnnounceCommit, ReopenCommit, RosterCommit, DeletableEntry
<1>3. ASSUME NEW h \in RoundOne, Uncontested(h) PROVE FALSE
  BY <1>3 DEF Uncontested
<1>4. ~QuietStep
  BY DEF QuietStep, rosterVars
<1>5. ASSUME NEW h \in Heats, Ready(h) \/ Call(h) \/ Start(h) \/ Finish(h) \/ Reset(h)
      PROVE  FALSE
  BY <1>5 DEF Ready, Call, Start, Finish, Reset, Transition, rosterVars
<1>6. ASSUME NEW h \in RoundOne,
             Skip(h) \/ EraseOldDuck(h) \/ \E r \in Racers : Record(h, r)
      PROVE  FALSE
  BY <1>6 DEF Skip, EraseOldDuck, Record, rosterVars
<1>7. ASSUME NEW c \in Clients, ReactivateCommit(c) \/ PairCommit(c) PROVE FALSE
  BY <1>7 DEF ReactivateCommit, PairCommit, rosterVars
<1>8. ASSUME NEW r \in Racers, \/ CreateWalkUp(r) \/ Leave(r) \/ DeleteRegistration(r)
                               \/ DeleteDuck(r) \/ ReplaceDuck(r)
      PROVE  FALSE
  BY <1>8 DEF CreateWalkUp, Leave, DeleteRegistration, DeleteDuck, ReplaceDuck,
              rosterVars
<1>9. ~StartFinal
  BY DEF StartFinal, rosterVars
<1>10. QED
  BY StepCases, <1>1, <1>2, <1>3, <1>4, <1>5, <1>6, <1>7, <1>8, <1>9

\* Once locked, the final's roster changes only by a winner's correction.
THEOREM LockedFinalRosterHolds == Spec => LockedFinalRoster
<1>1. TypeOK /\ [Next]_vars
        => [status[Final] \notin {"NONE", "PLANNED"} /\ finalSlot' # finalSlot =>
              /\ status[Final] = "LOADING"
              /\ \E old \in Roster(Final) : \E new \in Racers \ Roster(Final) :
                   finalSlot' = [finalSlot EXCEPT ![old] = 0,
                                                  ![new] = finalSlot[old]]]_vars
  BY LockedFinalRosterStep
<1>2. QED
  BY <1>1, TypeCorrect, PTL DEF Spec, LockedFinalRoster

-----------------------------------------------------------------------------
(* Walk-ups.                                                                 *)

\* A heat that has never started stays so, except in the three steps whose
\* guard looks for waiting walk-ups.
LEMMA UnstartedSteps ==
  ASSUME TypeOK, [Next]_vars
  PROVE  \/ Unstarted \subseteq Unstarted'
         \/ \E h \in RoundOne : /\ Unstarted \ {h} \subseteq Unstarted'
                                /\ ~HeldForWalkUps(h)
<1> USE TwoRounds DEF Unstarted, NeverStarted
<1>1. ASSUME UNCHANGED <<status, started>> PROVE Unstarted \subseteq Unstarted'
  BY <1>1
<1>2. ASSUME NEW h \in Heats, Ready(h) \/ Call(h) \/ Finish(h) \/ Reset(h)
      PROVE  Unstarted \subseteq Unstarted'
  BY <1>2 DEF Ready, Call, Finish, Reset, Transition, TypeOK
<1>3. ASSUME NEW h \in Heats, Start(h)
      PROVE  \/ Unstarted \subseteq Unstarted'
             \/ h \in RoundOne /\ Unstarted \ {h} \subseteq Unstarted' /\ ~HeldForWalkUps(h)
  <2>1. h = Final \/ h \in RoundOne
    BY DEF Heats
  <2>2. \A g \in RoundOne \ {h} : status'[g] = status[g] /\ started'[g] = started[g]
    BY <1>3 DEF Start, Transition, TypeOK
  <2>3. h \in RoundOne => ~HeldForWalkUps(h)
    BY <1>3 DEF Start
  <2>4. QED
    BY <2>1, <2>2, <2>3
<1>4. ASSUME NEW h \in RoundOne, Skip(h) \/ Uncontested(h)
      PROVE  Unstarted \ {h} \subseteq Unstarted' /\ ~HeldForWalkUps(h)
  BY <1>4 DEF Skip, Uncontested, Settleable, TypeOK
<1>5. ASSUME NEW c \in Clients, AnnounceCommit(c) \/ ReopenCommit(c)
      PROVE  Unstarted \subseteq Unstarted'
  <2>1. req[c].heat \in RoundOne
    BY <1>5 DEF AnnounceCommit, ReopenCommit, TypeOK, Requests
  <2>2. status[req[c].heat] \in {"AWAITING_RESULT", "FINALIZED"}
    BY <1>5 DEF AnnounceCommit, ReopenCommit
  <2>3. \A g \in RoundOne \ {req[c].heat} : status'[g] = status[g]
    BY <1>5, <2>1 DEF AnnounceCommit, ReopenCommit, TypeOK
  <2>4. started' = started
    BY <1>5 DEF AnnounceCommit, ReopenCommit
  <2>5. QED
    BY <2>1, <2>2, <2>3, <2>4
<1>6. ASSUME NEW c \in Clients, PairCommit(c) PROVE Unstarted \subseteq Unstarted'
  <2>1. \/ status' = status
        \/ \E h \in RoundOne : /\ status[h] = "NONE"
                               /\ status' = [status EXCEPT ![h] = "LOADING"]
    BY <1>6 DEF PairCommit, TypeOK, Requests
  <2>2. started' = started
    BY <1>6 DEF PairCommit
  <2>3. QED
    BY <2>1, <2>2 DEF TypeOK
<1>7. ASSUME StartFinal PROVE Unstarted \subseteq Unstarted'
  BY <1>7 DEF StartFinal, TypeOK
<1>8. ASSUME QuietStep PROVE UNCHANGED <<status, started>>
  BY <1>8 DEF QuietStep, roundVars
<1>9. ASSUME NEW c \in Clients, CorrectCommit(c) \/ RosterCommit(c) \/ ReactivateCommit(c)
      PROVE  UNCHANGED <<status, started>>
  BY <1>9 DEF CorrectCommit, RosterCommit, ReactivateCommit, roundVars
<1>10. ASSUME NEW h \in RoundOne, EraseOldDuck(h) \/ \E r \in Racers : Record(h, r)
       PROVE  UNCHANGED <<status, started>>
  BY <1>10 DEF EraseOldDuck, Record, roundVars
<1>11. ASSUME NEW r \in Racers, \/ CreateWalkUp(r) \/ Leave(r) \/ DeleteRegistration(r)
                                \/ DeleteDuck(r) \/ ReplaceDuck(r)
       PROVE  UNCHANGED <<status, started>>
  BY <1>11 DEF CreateWalkUp, Leave, DeleteRegistration, DeleteDuck, ReplaceDuck,
               roundVars
<1>12. QED
  BY StepCases, <1>1, <1>2, <1>3, <1>4, <1>5, <1>6, <1>7, <1>8, <1>9, <1>10, <1>11

\* However many walk-ups wait, a heat that has never started is left for them.
THEOREM WalkUpsKeepAHeatHolds == Spec => WalkUpsKeepAHeat
<1>1. TypeOK /\ [Next]_vars
        => [Waiting # {} /\ Unstarted # {} => Unstarted' # {}]_vars
  BY UnstartedSteps DEF HeldForWalkUps
<1>2. QED
  BY <1>1, TypeCorrect, PTL DEF Spec, WalkUpsKeepAHeat

-----------------------------------------------------------------------------
(* Ducks.                                                                    *)

\* Nobody on the roster of a running heat is left without a duck by a step.
LEMMA EveryoneAfloatStep == TypeOK /\ EveryoneAfloat /\ [Next]_vars => EveryoneAfloat'
<1> SUFFICES ASSUME TypeOK, EveryoneAfloat, [Next]_vars, NEW g \in Heats,
                    status'[g] = "RUNNING", NEW r \in Racers, r \in Roster(g)'
             PROVE  held'[r]
  BY DEF EveryoneAfloat, Roster
<1> USE TwoRounds DEF Roster
<1>1. ASSUME status'[g] = status[g], UNCHANGED <<rosterVars, held>> PROVE held'[r]
  BY <1>1 DEF EveryoneAfloat, rosterVars
<1>2. ASSUME NEW h \in Heats, Ready(h) \/ Call(h) \/ Start(h) \/ Finish(h) \/ Reset(h)
      PROVE  held'[r]
  <2>1. UNCHANGED <<rosterVars, held>>
    BY <1>2 DEF Ready, Call, Start, Finish, Reset, Transition, racerVars
  <2>2. CASE g = h
    <3>1. Start(h)
      BY <1>2, <2>2 DEF Ready, Call, Finish, Reset, Transition, TypeOK
    <3>2. QED
      BY <2>1, <2>2, <3>1 DEF Start, rosterVars
  <2>3. CASE g # h
    BY <1>1, <1>2, <2>1, <2>3
    DEF Ready, Call, Start, Finish, Reset, Transition, TypeOK
  <2>4. QED
    BY <2>2, <2>3
<1>3. ASSUME NEW c \in Clients, AnnounceCommit(c) PROVE held'[r]
  <2>1. g # Final /\ status'[g] = status[g]
    BY <1>3 DEF AnnounceCommit, TypeOK, Requests
  <2>2. heatOf' = heatOf /\ held' = held
    BY <1>3 DEF AnnounceCommit, racerVars
  <2>3. QED
    BY <2>1, <2>2 DEF EveryoneAfloat
<1>4. ASSUME NEW c \in Clients, ReopenCommit(c) PROVE held'[r]
  <2>1. status'[g] = status[g]
    BY <1>4 DEF ReopenCommit, TypeOK, Requests
  <2>2. heatOf' = heatOf /\ held' = held /\ finalSlot'[r] \in {0, finalSlot[r]}
    BY <1>4 DEF ReopenCommit, racerVars, TypeOK
  <2>3. QED
    BY <2>1, <2>2 DEF EveryoneAfloat
<1>5. ASSUME NEW c \in Clients, CorrectCommit(c) \/ RosterCommit(c) PROVE held'[r]
  <2>1. /\ status' = status /\ heatOf' = heatOf /\ held' = held
        /\ status[Final] # "RUNNING"
    BY <1>5 DEF CorrectCommit, RosterCommit, roundVars, racerVars
  <2>2. QED
    BY <2>1 DEF EveryoneAfloat
<1>6. ASSUME NEW h \in RoundOne, Uncontested(h) PROVE held'[r]
  <2>1. g # Final /\ status'[g] = status[g]
    BY <1>6 DEF Uncontested, TypeOK
  <2>2. heatOf' = heatOf /\ held' = held
    BY <1>6 DEF Uncontested, racerVars
  <2>3. QED
    BY <2>1, <2>2 DEF EveryoneAfloat
<1>7. ASSUME NEW h \in RoundOne, Skip(h) PROVE held'[r]
  BY <1>1, <1>7 DEF Skip, TypeOK, racerVars
<1>8. ASSUME NEW c \in Clients, PairCommit(c) PROVE held'[r]
  <2> DEFINE x == req[c].racer
  <2>1. x \in Racers /\ held' = [held EXCEPT ![x] = TRUE] /\ finalSlot' = finalSlot
    BY <1>8 DEF PairCommit, TypeOK, Requests
  <2>2. \A y \in Racers \ {x} : heatOf'[y] = heatOf[y]
    BY <1>8 DEF PairCommit, TypeOK
  <2>3. status'[g] = status[g]
    BY <1>8 DEF PairCommit, TypeOK, Requests
  <2>4. QED
    BY <2>1, <2>2, <2>3 DEF EveryoneAfloat, TypeOK
<1>9. ASSUME NEW x \in Racers, DeleteDuck(x) PROVE held'[r]
  BY <1>9 DEF DeleteDuck, InFlight, EveryoneAfloat, TypeOK, roundVars, rosterVars
<1>10. CASE StartFinal
  BY <1>1, <1>10 DEF StartFinal, TypeOK, racerVars
<1>11. CASE QuietStep
  BY <1>1, <1>11 DEF QuietStep, roundVars, racerVars
<1>12. ASSUME NEW h \in RoundOne, EraseOldDuck(h) \/ \E x \in Racers : Record(h, x)
       PROVE  held'[r]
  BY <1>1, <1>12 DEF EraseOldDuck, Record, roundVars, racerVars
<1>13. ASSUME NEW c \in Clients, ReactivateCommit(c) PROVE held'[r]
  BY <1>1, <1>13 DEF ReactivateCommit, roundVars
<1>14. ASSUME NEW x \in Racers, \/ CreateWalkUp(x) \/ Leave(x) \/ DeleteRegistration(x)
                                \/ ReplaceDuck(x)
       PROVE  held'[r]
  BY <1>1, <1>14
  DEF CreateWalkUp, Leave, DeleteRegistration, ReplaceDuck, roundVars
<1>15. QED
  BY StepCases, <1>2, <1>3, <1>4, <1>5, <1>6, <1>7, <1>8, <1>9, <1>10, <1>11,
     <1>12, <1>13, <1>14

\* No racer of a running heat is without a duck, for every draw.
THEOREM EveryoneAfloatHolds == Spec => []EveryoneAfloat
<1>1. Init => EveryoneAfloat
  BY DEF Init, EveryoneAfloat
<1>2. QED
  BY <1>1, EveryoneAfloatStep, TypeCorrect, PTL DEF Spec

\* A recorded winner is on the roster of the heat, and stays on it.
RanInHeat == \A h \in RoundOne : \A row \in pending[h] : heatOf[row.racer] = h

LEMMA RanInHeatStep == TypeOK /\ RanInHeat /\ [Next]_vars => RanInHeat'
<1> SUFFICES ASSUME TypeOK, RanInHeat, [Next]_vars, NEW h \in RoundOne,
                    NEW row \in pending'[h]
             PROVE  heatOf'[row.racer] = h
  BY DEF RanInHeat
<1> USE TwoRounds
<1>1. ASSUME heatOf' = heatOf, pending'[h] \subseteq pending[h]
      PROVE  heatOf'[row.racer] = h
  BY <1>1 DEF RanInHeat
<1>2. ASSUME NEW g \in Heats, Ready(g) \/ Call(g) \/ Start(g) \/ Finish(g) \/ Reset(g)
      PROVE  heatOf'[row.racer] = h
  BY <1>1, <1>2 DEF Ready, Call, Start, Finish, Reset, Transition, ClearPending,
                    rosterVars, resultVars
<1>3. ASSUME NEW g \in RoundOne, NEW r \in Racers, Record(g, r)
      PROVE  heatOf'[row.racer] = h
  <2>1. heatOf' = heatOf /\ heatOf[r] = g
    BY <1>3 DEF Record, Eligible, Roster, rosterVars
  <2>2. CASE g = h
    BY <1>3, <2>1, <2>2 DEF Record, TypeOK
  <2>3. CASE g # h
    BY <1>1, <1>3, <2>1, <2>3 DEF Record, TypeOK
  <2>4. QED
    BY <2>2, <2>3
<1>4. ASSUME NEW c \in Clients, AnnounceCommit(c) \/ ReopenCommit(c) \/ CorrectCommit(c)
      PROVE  heatOf'[row.racer] = h
  BY <1>1, <1>4 DEF AnnounceCommit, ReopenCommit, CorrectCommit, ClearPending
<1>5. ASSUME NEW g \in RoundOne, Skip(g) \/ Uncontested(g)
      PROVE  heatOf'[row.racer] = h
  BY <1>1, <1>5 DEF Skip, Uncontested, rosterVars, resultVars
<1>6. ASSUME NEW g \in RoundOne, EraseOldDuck(g) PROVE heatOf'[row.racer] = h
  <2>1. pending'[h] \subseteq pending[h]
    BY <1>6 DEF EraseOldDuck, TypeOK
  <2>2. QED
    BY <1>1, <1>6, <2>1 DEF EraseOldDuck, rosterVars
<1>7. ASSUME NEW c \in Clients, RosterCommit(c) \/ ReactivateCommit(c)
      PROVE  heatOf'[row.racer] = h
  BY <1>1, <1>7 DEF RosterCommit, ReactivateCommit, rosterVars, resultVars
<1>8. ASSUME NEW c \in Clients, PairCommit(c) PROVE heatOf'[row.racer] = h
  <2>1. row \in pending[h] /\ row.racer \in Racers
    BY <1>8 DEF PairCommit, resultVars, TypeOK, Result
  <2>2. heatOf[row.racer] = h /\ h # NoHeat
    BY <2>1, RacersAssumption DEF RanInHeat, RoundOne, NoHeat
  <2>3. heatOf'[row.racer] = heatOf[row.racer]
    BY <1>8, <2>1, <2>2 DEF PairCommit, TypeOK
  <2>4. QED
    BY <2>2, <2>3
<1>9. ASSUME NEW r \in Racers, \/ CreateWalkUp(r) \/ Leave(r) \/ DeleteRegistration(r)
                               \/ DeleteDuck(r) \/ ReplaceDuck(r)
      PROVE  heatOf'[row.racer] = h
  BY <1>1, <1>9
  DEF CreateWalkUp, Leave, DeleteRegistration, DeleteDuck, ReplaceDuck,
      rosterVars, resultVars
<1>10. CASE StartFinal
  BY <1>1, <1>10 DEF StartFinal, rosterVars, resultVars
<1>11. CASE QuietStep
  BY <1>1, <1>11 DEF QuietStep, rosterVars, resultVars
<1>12. QED
  BY StepCases, <1>2, <1>3, <1>4, <1>5, <1>6, <1>7, <1>8, <1>9, <1>10, <1>11

\* Announcements, corrections and uncontested settlements are the steps that
\* make a result official.
LEMMA OnlyEligibleWinnersStep ==
  ASSUME TypeOK, RanInHeat, [Next]_vars, NEW h \in RoundOne,
         NEW row \in published'[h] \ published[h]
  PROVE  /\ row.racer \in Roster(h) /\ reg[row.racer] = "ACTIVE"
         /\ held[row.racer] /\ duck[row.racer] = row.duck
<1> USE TwoRounds
<1>1. ASSUME NEW c \in Clients, AnnounceCommit(c)
      PROVE  row \in pending[h] /\ Current(row)
  BY <1>1 DEF AnnounceCommit, TypeOK
<1>2. ASSUME NEW c \in Clients, CorrectCommit(c)
      PROVE  row.racer \in Roster(h) /\ Current(row)
  BY <1>2 DEF CorrectCommit, TypeOK
<1>3. ASSUME NEW g \in RoundOne, Uncontested(g)
      PROVE  row.racer \in Roster(h) /\ Current(row)
  BY <1>3 DEF Uncontested, Eligible, Current, TypeOK
<1>4. ASSUME NEW g \in Heats, Ready(g) \/ Call(g) \/ Start(g) \/ Finish(g) \/ Reset(g)
      PROVE  FALSE
  BY <1>4 DEF Ready, Call, Start, Finish, Reset, Transition, resultVars
<1>5. ASSUME NEW g \in RoundOne,
             Skip(g) \/ EraseOldDuck(g) \/ \E r \in Racers : Record(g, r)
      PROVE  FALSE
  BY <1>5 DEF Skip, EraseOldDuck, Record, resultVars
<1>6. ASSUME NEW c \in Clients, \/ ReopenCommit(c) \/ RosterCommit(c)
                                \/ ReactivateCommit(c) \/ PairCommit(c)
      PROVE  FALSE
  BY <1>6 DEF ReopenCommit, RosterCommit, ReactivateCommit, PairCommit,
              resultVars, TypeOK
<1>7. ASSUME NEW r \in Racers, \/ CreateWalkUp(r) \/ Leave(r) \/ DeleteRegistration(r)
                               \/ DeleteDuck(r) \/ ReplaceDuck(r)
      PROVE  FALSE
  BY <1>7 DEF CreateWalkUp, Leave, DeleteRegistration, DeleteDuck, ReplaceDuck,
              resultVars
<1>8. ~StartFinal /\ ~QuietStep
  BY DEF StartFinal, QuietStep, resultVars
<1>9. row \in pending[h] => row.racer \in Roster(h)
  BY DEF RanInHeat, Roster, TypeOK, Result
<1>10. QED
  BY StepCases, <1>1, <1>2, <1>3, <1>4, <1>5, <1>6, <1>7, <1>8, <1>9 DEF Current

\* Nobody becomes an official winner who is not, at that very step, an eligible
\* racer of the heat holding the duck the result names.
THEOREM OnlyEligibleWinnersHolds == Spec => OnlyEligibleWinners
<1>1. Init => RanInHeat
  BY DEF Init, RanInHeat
<1>2. TypeOK /\ RanInHeat /\ [Next]_vars
        => [\A h \in RoundOne : \A row \in published[h]' \ published[h] :
              /\ row.racer \in Roster(h) /\ reg[row.racer] = "ACTIVE"
              /\ held[row.racer] /\ duck[row.racer] = row.duck]_vars
  BY OnlyEligibleWinnersStep
<1>3. QED
  BY <1>1, <1>2, RanInHeatStep, TypeCorrect, PTL DEF Spec, OnlyEligibleWinners

-----------------------------------------------------------------------------
(* Reactivation against pairing.                                             *)

\* Only a registration still to be paired is submitted or absent, and a
\* reactivation that will restore SUBMITTED has no duck to overlook.
UnpairedHoldNone ==
  /\ \A r \in Racers : reg[r] \in {"ABSENT", "SUBMITTED"} => ~held[r]
  /\ \A c \in Clients : req[c].op = "reactivate" /\ req[c].target = "SUBMITTED"
                          => ~held[req[c].racer]

\* A request that is not as it was has ended, has just been taken in, or has
\* lost its entry of the final's roster.
LEMMA RequestSteps ==
  ASSUME TypeOK, [Next]_vars, NEW c \in Clients
  PROVE  \/ req'[c] = req[c] \/ req'[c] = Idle
         \/ \E h \in RoundOne : AnnounceBegin(c, h) \/ ReopenBegin(c, h)
         \/ \E h \in RoundOne, r \in Racers : CorrectBegin(c, h, r)
         \/ RosterBegin(c) \/ \E d \in Clients : RosterCommit(d)
         \/ \E r \in Racers : ReactivateBegin(c, r) \/ PairBegin(c, r)
<1> DEFINE Ended == req'[c] = req[c] \/ req'[c] = Idle
<1>1. ASSUME NEW S, req' = Lapse(S) PROVE Ended
  BY <1>1 DEF Lapse
<1>2. CASE RunHeats \/ Settle
  BY <1>1, <1>2
  DEF RunHeats, Settle, Ready, Call, Start, Finish, Reset, Transition, Skip, Uncontested,
      Moved
<1>3. ASSUME NEW d \in Clients,
             \/ AnnounceCommit(d) \/ ReopenCommit(d) \/ CorrectCommit(d)
             \/ ReactivateCommit(d) \/ PairCommit(d) \/ Abandon(d)
      PROVE  Ended
  BY <1>1, <1>3
  DEF AnnounceCommit, ReopenCommit, CorrectCommit, ReactivateCommit, PairCommit, Abandon,
      Moved
<1>4. ASSUME NEW d \in Clients, d # c, NEW q, req' = [req EXCEPT ![d] = q] PROVE Ended
  BY <1>4 DEF TypeOK
<1>5. ASSUME NEW d \in Clients, d # c,
             \/ \E h \in RoundOne : AnnounceBegin(d, h) \/ ReopenBegin(d, h)
             \/ \E h \in RoundOne, r \in Racers : CorrectBegin(d, h, r)
             \/ \E r \in Racers : ReactivateBegin(d, r) \/ PairBegin(d, r)
             \/ RosterBegin(d)
      PROVE  Ended
  BY <1>4, <1>5
  DEF AnnounceBegin, ReopenBegin, CorrectBegin, RosterBegin, ReactivateBegin, PairBegin
<1>6. ASSUME NEW h \in RoundOne, NEW r \in Racers, Record(h, r) PROVE Ended
  BY <1>1, <1>6 DEF Record, Moved
<1>7. CASE Results
  BY <1>3, <1>5, <1>6, <1>7 DEF Results
<1>8. CASE ReplaceRoster
  BY <1>5, <1>8 DEF ReplaceRoster
<1>9. CASE Participants
  BY <1>1, <1>3, <1>5, <1>9 DEF Participants, CreateWalkUp, Leave, DeleteRegistration
<1>10. CASE Ducks
  BY <1>3, <1>5, <1>10 DEF Ducks, DeleteDuck, ReplaceDuck, EraseOldDuck
<1>11. CASE StartFinal \/ UNCHANGED vars
  BY <1>1, <1>11 DEF StartFinal, Moved, vars
<1>12. QED
  BY <1>2, <1>3, <1>7, <1>8, <1>9, <1>10, <1>11 DEF Next

\* A lost entry is all that a replaced roster changes in a request.
LEMMA RosterCommitRequests ==
  ASSUME TypeOK, NEW d \in Clients, RosterCommit(d), NEW c \in Clients
  PROVE  \/ req'[c] = req[c] \/ req'[c] = Idle
         \/ req[c].op \in {"reopen", "correct"} /\ req'[c].op = req[c].op
<1>1. CASE req[c].op \in {"reopen", "correct"} /\ c \notin OnRoster
  <2>1. req'[c] = [req[c] EXCEPT !.entry = FALSE]
    BY <1>1 DEF RosterCommit
  <2>2. CASE req[c] \in [op : {"reopen"}, heat : RoundOne, old : Racers,
                         entry : BOOLEAN]
    <3>1. [req[c] EXCEPT !.entry = FALSE].op = "reopen"
      BY <2>2
    <3>2. QED
      BY <2>1, <2>2, <3>1
  <2>3. CASE req[c] \in [op : {"correct"}, heat : RoundOne, old : Racers,
                         new : Racers, duck : Nat, entry : BOOLEAN]
    <3>1. [req[c] EXCEPT !.entry = FALSE].op = "correct"
      BY <2>3
    <3>2. QED
      BY <2>1, <2>3, <3>1
  <2>4. QED
    BY <1>1, <2>2, <2>3 DEF TypeOK, Requests
<1>2. CASE ~(req[c].op \in {"reopen", "correct"} /\ c \notin OnRoster)
  BY <1>2 DEF RosterCommit
<1>3. QED
  BY <1>1, <1>2

\* The target of a reactivation is the one its preflight chose.
LEMMA ReactivationSteps ==
  ASSUME TypeOK, [Next]_vars, NEW c \in Clients, req'[c].op = "reactivate",
         req'[c] # req[c]
  PROVE  \E r \in Racers : ReactivateBegin(c, r)
<1>1. ASSUME \/ \E h \in RoundOne : AnnounceBegin(c, h) \/ ReopenBegin(c, h)
             \/ \E h \in RoundOne, r \in Racers : CorrectBegin(c, h, r)
             \/ RosterBegin(c) \/ \E r \in Racers : PairBegin(c, r)
      PROVE  FALSE
  BY <1>1
  DEF AnnounceBegin, ReopenBegin, CorrectBegin, RosterBegin, PairBegin, TypeOK
<1>2. QED
  BY <1>1, RequestSteps, RosterCommitRequests DEF Idle

\* A duck is taken only by a pairing, which retires the racer's reactivations
\* and makes the registration ACTIVE.
LEMMA UnpairedHoldNoneStep == TypeOK /\ UnpairedHoldNone /\ [Next]_vars => UnpairedHoldNone'
<1> SUFFICES ASSUME TypeOK, UnpairedHoldNone, [Next]_vars PROVE UnpairedHoldNone'
  OBVIOUS
<1> DEFINE Kept == \A r \in Racers : held'[r] => held[r]
           Queue == \A r \in Racers : reg'[r] \in {"ABSENT", "SUBMITTED"} => ~held'[r]
<1>1. ASSUME Kept PROVE \A c \in Clients :
                           req'[c].op = "reactivate" /\ req'[c].target = "SUBMITTED"
                             => ~held'[req'[c].racer]
  <2> SUFFICES ASSUME NEW c \in Clients, req'[c].op = "reactivate",
                      req'[c].target = "SUBMITTED"
               PROVE  ~held'[req'[c].racer]
    OBVIOUS
  <2>1. CASE req'[c] = req[c]
    <3>1. req[c].racer \in Racers
      BY <2>1 DEF TypeOK, Requests
    <3>2. QED
      BY <1>1, <2>1, <3>1 DEF UnpairedHoldNone
  <2>2. CASE req'[c] # req[c]
    <3>1. PICK r \in Racers : ReactivateBegin(c, r)
      BY <2>2, ReactivationSteps
    <3>2. req'[c] = [op |-> "reactivate", racer |-> r,
                     target |-> IF held[r] THEN "ACTIVE" ELSE "SUBMITTED"]
      BY <3>1 DEF ReactivateBegin, TypeOK
    <3>3. req'[c].racer = r /\ ~held[r]
      BY <3>2
    <3>4. QED
      BY <1>1, <3>3
  <2>3. QED
    BY <2>1, <2>2
<1>2. ASSUME UNCHANGED <<reg, held>> PROVE Kept /\ Queue
  BY <1>2 DEF UnpairedHoldNone
<1>3. ASSUME NEW c \in Clients, PairCommit(c) PROVE UnpairedHoldNone'
  <2> DEFINE x == req[c].racer
  <2>1. /\ x \in Racers
        /\ reg' = [reg EXCEPT ![x] = "ACTIVE"]
        /\ held' = [held EXCEPT ![x] = TRUE]
    BY <1>3 DEF PairCommit, TypeOK, Requests
  <2>2. Queue
    BY <2>1 DEF UnpairedHoldNone, TypeOK
  <2>3. ASSUME NEW d \in Clients, req'[d].op = "reactivate",
               req'[d].target = "SUBMITTED"
        PROVE  ~held'[req'[d].racer]
    <3>1. req'[d] = req[d] /\ req[d].racer # x
      BY <1>3, <2>3 DEF PairCommit, Lapse, OnRegistration, Idle
    <3>2. req[d].racer \in Racers
      BY <2>3, <3>1 DEF TypeOK, Requests
    <3>3. QED
      BY <2>1, <2>3, <3>1, <3>2 DEF UnpairedHoldNone, TypeOK
  <2>4. QED
    BY <2>2, <2>3 DEF UnpairedHoldNone
<1>4. ASSUME NEW c \in Clients, ReactivateCommit(c) PROVE Kept /\ Queue
  <2> DEFINE x == req[c].racer
  <2>1. /\ x \in Racers
        /\ reg' = [reg EXCEPT ![x] = req[c].target]
        /\ req[c].target \in {"SUBMITTED", "ACTIVE"}
        /\ req[c].op = "reactivate" /\ held' = held
    BY <1>4 DEF ReactivateCommit, TypeOK, Requests
  <2>2. req[c].target = "SUBMITTED" => ~held[x]
    BY <2>1 DEF UnpairedHoldNone
  <2>3. QED
    BY <2>1, <2>2 DEF UnpairedHoldNone, TypeOK
<1>5. ASSUME NEW r \in Racers, CreateWalkUp(r) PROVE Kept /\ Queue
  BY <1>5 DEF CreateWalkUp, UnpairedHoldNone, TypeOK
<1>6. ASSUME NEW r \in Racers, Leave(r) \/ DeleteRegistration(r) PROVE Kept /\ Queue
  BY <1>6 DEF Leave, DeleteRegistration, UnpairedHoldNone, TypeOK
<1>7. ASSUME NEW r \in Racers, DeleteDuck(r) PROVE Kept /\ Queue
  BY <1>7 DEF DeleteDuck, UnpairedHoldNone, TypeOK
<1>8. ASSUME NEW r \in Racers, ReplaceDuck(r) PROVE UNCHANGED <<reg, held>>
  BY <1>8 DEF ReplaceDuck
<1>9. ASSUME NEW h \in Heats, Ready(h) \/ Call(h) \/ Start(h) \/ Finish(h) \/ Reset(h)
      PROVE  UNCHANGED <<reg, held>>
  BY <1>9 DEF Ready, Call, Start, Finish, Reset, Transition, racerVars
<1>10. ASSUME NEW c \in Clients, \/ AnnounceCommit(c) \/ ReopenCommit(c)
                                 \/ CorrectCommit(c) \/ RosterCommit(c)
       PROVE  UNCHANGED <<reg, held>>
  BY <1>10 DEF AnnounceCommit, ReopenCommit, CorrectCommit, RosterCommit, racerVars
<1>11. ASSUME NEW h \in RoundOne, \/ Skip(h) \/ Uncontested(h) \/ EraseOldDuck(h)
                                  \/ \E r \in Racers : Record(h, r)
       PROVE  UNCHANGED <<reg, held>>
  BY <1>11 DEF Skip, Uncontested, EraseOldDuck, Record, racerVars
<1>12. ASSUME StartFinal \/ QuietStep PROVE UNCHANGED <<reg, held>>
  BY <1>12 DEF StartFinal, QuietStep, racerVars
<1>13. (Kept /\ Queue) \/ UnpairedHoldNone'
  BY StepCases, <1>2, <1>3, <1>4, <1>5, <1>6, <1>7, <1>8, <1>9, <1>10, <1>11, <1>12
<1>14. QED
  BY <1>1, <1>13 DEF UnpairedHoldNone

\* The pairing queue never shows a racer who already holds a duck, whatever
\* reactivations and pairings overlap.
THEOREM SubmittedHoldsNoDuckHolds == Spec => []SubmittedHoldsNoDuck
<1>1. Init => UnpairedHoldNone
  <2> SUFFICES ASSUME Init PROVE UnpairedHoldNone
    OBVIOUS
  <2>1. ASSUME NEW r \in Racers, reg[r] \in {"ABSENT", "SUBMITTED"}
        PROVE  ~held[r]
    BY <2>1 DEF Init
  <2>2. ASSUME NEW c \in Clients PROVE req[c].op # "reactivate"
    BY DEF Init, Idle
  <2>3. QED
    BY <2>1, <2>2 DEF UnpairedHoldNone
<1>2. UnpairedHoldNone => SubmittedHoldsNoDuck
  BY DEF UnpairedHoldNone, SubmittedHoldsNoDuck
<1>3. QED
  BY <1>1, <1>2, UnpairedHoldNoneStep, TypeCorrect, PTL DEF Spec

-----------------------------------------------------------------------------
(* Capacities.                                                               *)

RostersFit == \A h \in RoundOne : \/ Roster(h) = InitialRoster(h)
                                  \/ Cardinality(Roster(h)) <= HeatCapacity
HeatsFit == Cardinality(Planned) <= FinalCapacity
FinalFits == FinalSize <= FinalCapacity
\* A lineup in flight lists no more racers than the final holds.
Listed(slots) == {r \in Racers : slots[r] > 0}
LineupsFit ==
  \A c \in Clients : req[c].op = "roster" => Cardinality(Listed(req[c].slots)) <= FinalCapacity

Fits == RostersFit /\ HeatsFit /\ FinalFits /\ LineupsFit

LEMMA FiniteSets ==
  /\ \A S \in SUBSET Racers : IsFiniteSet(S) /\ Cardinality(S) \in Nat
  /\ \A S \in SUBSET RoundOne : IsFiniteSet(S) /\ Cardinality(S) \in Nat
<1>1. IsFiniteSet(Racers) /\ IsFiniteSet(RoundOne)
  BY RacersAssumption, FS_Interval DEF RoundOne
<1>2. QED
  BY <1>1, FS_Subset, FS_CardinalityType

LEMMA OneMore ==
  ASSUME NEW S, IsFiniteSet(S), NEW x
  PROVE  /\ IsFiniteSet(S \cup {x}) /\ Cardinality(S \cup {x}) \in Nat
         /\ Cardinality(S) \in Nat /\ Cardinality(S \cup {x}) <= Cardinality(S) + 1
         /\ x \notin S => Cardinality(S \cup {x}) = Cardinality(S) + 1
<1>1. Cardinality(S) \in Nat
  BY FS_CardinalityType
<1>2. /\ IsFiniteSet(S \cup {x})
      /\ Cardinality(S \cup {x}) = IF x \in S THEN Cardinality(S) ELSE Cardinality(S) + 1
  BY FS_AddElement, Zenon
<1>3. QED
  BY <1>1, <1>2

\* Only a pairing adds a racer to a heat, and looks for room; a new heat is
\* planned while the final still has a place for its winner.
LEMMA PairingFits ==
  ASSUME TypeOK, RostersFit, HeatsFit, NEW c \in Clients, PairCommit(c)
  PROVE  RostersFit' /\ HeatsFit'
<1>1. req[c].racer \in Racers /\ req[c].heat \in RoundOne \cup {NoHeat}
  BY DEF PairCommit, TypeOK, Requests
<1>2. PICK r \in Racers, g \in RoundOne \cup {NoHeat} : r = req[c].racer /\ g = req[c].heat
  BY <1>1
<1>3. NoHeat \notin RoundOne
  BY RacersAssumption DEF NoHeat, RoundOne
<1>4. CASE g = NoHeat
  <2>1. UNCHANGED <<status, heatOf>>
    BY <1>2, <1>4 DEF PairCommit
  <2>2. QED
    BY <2>1, TwoRounds DEF RostersFit, HeatsFit, Roster, Planned
<1>5. CASE g # NoHeat
  <2>1. /\ heatOf[r] = NoHeat /\ Cardinality(Roster(g)) < HeatCapacity
        /\ heatOf' = [heatOf EXCEPT ![r] = g]
        /\ \/ UNCHANGED status
           \/ /\ status' = [status EXCEPT ![g] = "LOADING"]
              /\ Cardinality(Planned) < FinalCapacity
    BY <1>2, <1>5 DEF PairCommit, HasRoom
  <2>2. ASSUME NEW h \in RoundOne, h # g PROVE Roster(h)' = Roster(h)
    <3>1. \A x \in Racers : heatOf'[x] = h <=> heatOf[x] = h
      BY <1>3, <2>1, <2>2 DEF TypeOK
    <3>2. QED
      BY <3>1, TwoRounds DEF Roster
  <2>3. g \in RoundOne /\ Roster(g)' = Roster(g) \cup {r}
    BY <1>5, <2>1, TwoRounds DEF Roster, TypeOK
  <2>4. Cardinality(Roster(g)')  <= HeatCapacity
    <3>1. IsFiniteSet(Roster(g)) /\ Cardinality(Roster(g)) \in Nat
      BY FiniteSets DEF Roster
    <3>2. Cardinality(Roster(g) \cup {r}) <= Cardinality(Roster(g)) + 1
      BY <3>1, OneMore
    <3>3. Cardinality(Roster(g) \cup {r}) \in Nat
      BY <3>1, OneMore
    <3>4. QED
      BY <2>1, <2>3, <3>1, <3>2, <3>3, RacersAssumption
  <2>5. RostersFit'
    BY <2>2, <2>3, <2>4 DEF RostersFit
  <2>6. HeatsFit'
    <3>1. CASE UNCHANGED status
      BY <3>1 DEF HeatsFit, Planned
    <3>2. CASE /\ status' = [status EXCEPT ![g] = "LOADING"]
               /\ Cardinality(Planned) < FinalCapacity
      <4>1. Planned' = Planned \cup {g}
        BY <2>3, <3>2, TwoRounds DEF Planned, TypeOK
      <4>2. IsFiniteSet(Planned) /\ Cardinality(Planned) \in Nat
        BY FiniteSets DEF Planned
      <4>3. Cardinality(Planned \cup {g}) <= Cardinality(Planned) + 1
        BY <4>2, OneMore
      <4>4. Cardinality(Planned \cup {g}) \in Nat
        BY <4>2, OneMore
      <4>5. QED
        BY <3>2, <4>1, <4>2, <4>3, <4>4, RacersAssumption DEF HeatsFit
    <3>3. QED
      BY <2>1, <3>1, <3>2
  <2>7. QED
    BY <2>5, <2>6
<1>6. QED
  BY <1>4, <1>5

\* Every other step leaves the rosters alone, and a heat that is planned.
LEMMA RoundKept ==
  ASSUME TypeOK, [Next]_vars, \A c \in Clients : ~PairCommit(c)
  PROVE  heatOf' = heatOf /\ Planned' = Planned
<1> USE TwoRounds DEF Planned
<1>1. CASE QuietStep
  BY <1>1 DEF QuietStep, roundVars, rosterVars
<1>2. ASSUME NEW h \in Heats, Ready(h) \/ Call(h) \/ Start(h) \/ Finish(h)
      PROVE  heatOf' = heatOf /\ Planned' = Planned
  BY <1>2 DEF Ready, Call, Start, Finish, Transition, rosterVars, TypeOK
<1>3. ASSUME NEW h \in Heats, Reset(h) PROVE heatOf' = heatOf /\ Planned' = Planned
  BY <1>3 DEF Reset, rosterVars, TypeOK
<1>4. ASSUME NEW c \in Clients, AnnounceCommit(c) \/ ReopenCommit(c)
      PROVE  heatOf' = heatOf /\ Planned' = Planned
  <2>1. req[c].heat \in RoundOne /\ status[req[c].heat] # "NONE"
    BY <1>4 DEF AnnounceCommit, ReopenCommit, TypeOK, Requests
  <2>2. QED
    BY <1>4, <2>1 DEF AnnounceCommit, ReopenCommit, TypeOK
<1>5. ASSUME NEW c \in Clients, CorrectCommit(c) \/ RosterCommit(c) \/ ReactivateCommit(c)
      PROVE  heatOf' = heatOf /\ Planned' = Planned
  BY <1>5 DEF CorrectCommit, RosterCommit, ReactivateCommit, roundVars, rosterVars
<1>6. ASSUME NEW h \in RoundOne, Skip(h) \/ Uncontested(h)
      PROVE  heatOf' = heatOf /\ Planned' = Planned
  BY <1>6 DEF Skip, Uncontested, Settleable, NeverStarted, rosterVars, TypeOK
<1>7. ASSUME NEW h \in RoundOne, EraseOldDuck(h) \/ \E r \in Racers : Record(h, r)
      PROVE  heatOf' = heatOf /\ Planned' = Planned
  BY <1>7 DEF EraseOldDuck, Record, roundVars, rosterVars
<1>8. ASSUME NEW r \in Racers, \/ CreateWalkUp(r) \/ Leave(r) \/ DeleteRegistration(r)
                               \/ DeleteDuck(r) \/ ReplaceDuck(r)
      PROVE  heatOf' = heatOf /\ Planned' = Planned
  BY <1>8
  DEF CreateWalkUp, Leave, DeleteRegistration, DeleteDuck, ReplaceDuck, roundVars, rosterVars
<1>9. ASSUME StartFinal PROVE heatOf' = heatOf /\ Planned' = Planned
  BY <1>9 DEF StartFinal, rosterVars, TypeOK
<1>10. QED
  BY StepCases, <1>1, <1>2, <1>3, <1>4, <1>5, <1>6, <1>7, <1>8, <1>9

\* There are at most as many finalists as finalized heats.
LEMMA FewFinalists ==
  ASSUME TypeOK, OneAccountPerHeat, HeatsFit
  PROVE  Cardinality(Finalists) <= FinalCapacity
<1> DEFINE Won == {h \in RoundOne : status[h] = "FINALIZED" /\ Winners(h) \cap Finalists # {}}
           winner == [h \in Won |-> CHOOSE r \in Racers : r \in Winners(h)]
<1>1. ASSUME NEW h \in Won
      PROVE  winner[h] \in Racers /\ Winners(h) = {winner[h]} /\ winner[h] \in Finalists
  <2>1. PICK row \in published[h] : published[h] = {row}
    BY <1>1 DEF OneAccountPerHeat, Account
  <2>2. Winners(h) = {row.racer} /\ row.racer \in Racers
    BY <2>1 DEF Winners, TypeOK, Result
  <2>3. QED
    BY <1>1, <2>2
<1>2. ASSUME NEW r \in Finalists PROVE \E h \in Won : winner[h] = r
  <2>1. PICK h \in RoundOne : status[h] = "FINALIZED" /\ r \in Winners(h)
    BY <1>2 DEF Finalists
  <2>2. h \in Won
    BY <1>2, <2>1
  <2>3. QED
    BY <1>1, <2>1, <2>2
<1>3. winner \in [Won -> Finalists]
  BY <1>1
<1> HIDE DEF winner
<1>4. winner \in Surjection(Won, Finalists)
  BY <1>2, <1>3 DEF Surjection
<1>5. IsFiniteSet(Won)
  BY FiniteSets
<1>6. Cardinality(Finalists) <= Cardinality(Won)
  BY <1>4, <1>5, FS_Surjection
<1>7. Cardinality(Won) <= Cardinality(Planned)
  <2>1. Won \in SUBSET Planned
    BY DEF Planned
  <2>2. IsFiniteSet(Planned)
    BY FiniteSets DEF Planned
  <2>3. QED
    BY <2>1, <2>2, FS_Subset
<1>8. /\ Cardinality(Finalists) \in Nat /\ Cardinality(Won) \in Nat
      /\ Cardinality(Planned) \in Nat
  BY FiniteSets DEF Finalists, Planned
<1>9. QED
  BY <1>6, <1>7, <1>8, RacersAssumption DEF HeatsFit

LEMMA LineupFits ==
  ASSUME TypeOK, OneAccountPerHeat, HeatsFit, NEW slots \in Lineups
  PROVE  Cardinality(Listed(slots)) <= FinalCapacity
<1>1. PICK place \in [Finalists -> 0..Cardinality(Finalists)] :
        slots = [r \in Racers |-> IF r \in Finalists THEN place[r] ELSE 0]
  BY DEF Lineups
<1>2. Listed(slots) \in SUBSET Finalists
  BY <1>1 DEF Listed
<1>3. /\ IsFiniteSet(Finalists)
      /\ Cardinality(Finalists) \in Nat /\ Cardinality(Listed(slots)) \in Nat
  BY FiniteSets DEF Finalists, Listed
<1>4. Cardinality(Listed(slots)) <= Cardinality(Finalists)
  BY <1>2, <1>3, FS_Subset
<1>5. QED
  BY <1>3, <1>4, FewFinalists, RacersAssumption

LEMMA LineupsFitStep ==
  ASSUME TypeOK, OneAccountPerHeat, HeatsFit, LineupsFit, [Next]_vars
  PROVE  LineupsFit'
<1> SUFFICES ASSUME NEW c \in Clients, req'[c].op = "roster"
             PROVE  Cardinality(Listed(req'[c].slots)) <= FinalCapacity
  BY DEF LineupsFit
<1>1. CASE req'[c] = req[c]
  BY <1>1 DEF LineupsFit
<1>2. ASSUME RosterBegin(c) PROVE Cardinality(Listed(req'[c].slots)) <= FinalCapacity
  <2>1. PICK slots \in Lineups :
          req' = [req EXCEPT ![c] = [op |-> "roster", slots |-> slots]]
    BY <1>2 DEF RosterBegin
  <2>2. req'[c].slots = slots
    BY <2>1 DEF TypeOK
  <2>3. QED
    BY <2>2, LineupFits
<1>3. ASSUME \/ \E h \in RoundOne : AnnounceBegin(c, h) \/ ReopenBegin(c, h)
             \/ \E h \in RoundOne, r \in Racers : CorrectBegin(c, h, r)
             \/ \E r \in Racers : ReactivateBegin(c, r) \/ PairBegin(c, r)
      PROVE  FALSE
  BY <1>3
  DEF AnnounceBegin, ReopenBegin, CorrectBegin, ReactivateBegin, PairBegin, TypeOK
<1>4. QED
  BY <1>1, <1>2, <1>3, RequestSteps, RosterCommitRequests DEF Idle

\* Who is added to the final's roster finds a place; the others take one over.
LEMMA FinalFitsStep ==
  ASSUME TypeOK, FinalFits, LineupsFit, [Next]_vars
  PROVE  FinalFits'
<1> DEFINE R == Roster(Final)
<1>0. R \in SUBSET Racers /\ IsFiniteSet(R) /\ FinalSize \in Nat /\ FinalSize = Cardinality(R)
  BY FiniteSets, FinalSizeType DEF Roster, FinalSize
<1>1. ASSUME NEW r \in Racers, NEW n \in Nat, finalSlot' = [finalSlot EXCEPT ![r] = n],
             FinalSize < FinalCapacity
      PROVE  FinalFits'
  <2>1. Roster(Final)' \in SUBSET (R \cup {r})
    BY <1>1 DEF Roster, TypeOK
  <2>2. IsFiniteSet(R \cup {r}) /\ Cardinality(R \cup {r}) <= FinalSize + 1
    BY <1>0, OneMore
  <2>3. Cardinality(Roster(Final)') <= Cardinality(R \cup {r})
    BY <2>1, <2>2, FS_Subset
  <2>4. Cardinality(R \cup {r}) \in Nat /\ Cardinality(Roster(Final)') \in Nat
    BY <1>0, <2>1, FiniteSets
  <2>5. Cardinality(Roster(Final)') <= FinalCapacity
    BY <1>0, <1>1, <2>2, <2>3, <2>4, RacersAssumption
  <2>6. QED
    BY <2>5 DEF FinalFits, FinalSize
<1>2. ASSUME Roster(Final)' \in SUBSET R PROVE FinalFits'
  <2>1. Cardinality(Roster(Final)') <= Cardinality(R) /\ Cardinality(Roster(Final)') \in Nat
    BY <1>0, <1>2, FS_Subset, FiniteSets
  <2>2. QED
    BY <1>0, <2>1, RacersAssumption DEF FinalFits, FinalSize
<1>3. ASSUME finalSlot' = finalSlot PROVE FinalFits'
  BY <1>2, <1>3 DEF Roster
<1>4. ASSUME NEW c \in Clients, AnnounceCommit(c) PROVE FinalFits'
  <2>1. PICK row \in pending[req[c].heat] :
          finalSlot' = [finalSlot EXCEPT ![row.racer] = req[c].slot]
    BY <1>4 DEF AnnounceCommit
  <2>2. req[c].slot \in Nat /\ row.racer \in Racers
    BY <1>4, <2>1 DEF AnnounceCommit, TypeOK, Requests, Result
  <2>3. FinalSize < FinalCapacity
    BY <1>4 DEF AnnounceCommit
  <2>4. QED
    BY <1>1, <2>1, <2>2, <2>3
<1>5. ASSUME NEW h \in RoundOne, Uncontested(h) PROVE FinalFits'
  <2>1. FinalSize < FinalCapacity
        /\ \E r \in Racers : finalSlot' = [finalSlot EXCEPT ![r] = FinalSize + 1]
    BY <1>5 DEF Uncontested
  <2>2. FinalSize + 1 \in Nat
    BY <1>0
  <2>3. QED
    BY <1>1, <2>1, <2>2
<1>6. ASSUME NEW c \in Clients, ReopenCommit(c) PROVE FinalFits'
  BY <1>2, <1>6 DEF ReopenCommit, Roster, TypeOK
<1>7. ASSUME NEW c \in Clients, CorrectCommit(c) PROVE FinalFits'
  <2>1. CASE finalSlot' = finalSlot
    BY <1>3, <2>1
  <2>2. CASE finalSlot' # finalSlot
    <3>1. PICK old \in Racers, new \in Racers :
            /\ finalSlot[old] > 0 /\ finalSlot[new] = 0
            /\ finalSlot' = [finalSlot EXCEPT ![new] = finalSlot[old], ![old] = 0]
      BY <1>7, <2>2 DEF CorrectCommit, TypeOK, Requests
    <3>2. Roster(Final)' = (R \ {old}) \cup {new} /\ old \in R /\ new \notin R
      BY <3>1 DEF Roster, TypeOK
    <3>3. IsFiniteSet(R \ {old}) /\ Cardinality(R \ {old}) = FinalSize - 1
      BY <1>0, <3>2, FS_RemoveElement
    <3>4. Cardinality(Roster(Final)') = FinalSize
      <4>1. new \notin R \ {old}
        BY <3>2
      <4>2. Cardinality((R \ {old}) \cup {new}) = Cardinality(R \ {old}) + 1
        BY <3>3, <4>1, OneMore
      <4>3. QED
        BY <1>0, <3>2, <3>3, <4>2
    <3>5. QED
      BY <3>4 DEF FinalFits, FinalSize
  <2>3. QED
    BY <2>1, <2>2
<1>8. ASSUME NEW c \in Clients, RosterCommit(c) PROVE FinalFits'
  <2>1. req[c].op = "roster" /\ finalSlot' = req[c].slots
    BY <1>8 DEF RosterCommit
  <2>2. Roster(Final)' = Listed(req[c].slots)
    BY <2>1 DEF Roster, Listed
  <2>3. QED
    BY <2>1, <2>2 DEF LineupsFit, FinalFits, FinalSize
<1>9. ASSUME NEW h \in Heats, Ready(h) \/ Call(h) \/ Start(h) \/ Finish(h) \/ Reset(h)
      PROVE  finalSlot' = finalSlot
  BY <1>9 DEF Ready, Call, Start, Finish, Reset, Transition, rosterVars
<1>10. ASSUME NEW h \in RoundOne,
              Skip(h) \/ EraseOldDuck(h) \/ \E r \in Racers : Record(h, r)
       PROVE  finalSlot' = finalSlot
  BY <1>10 DEF Skip, EraseOldDuck, Record, rosterVars
<1>11. ASSUME NEW c \in Clients, ReactivateCommit(c) \/ PairCommit(c)
       PROVE  finalSlot' = finalSlot
  BY <1>11 DEF ReactivateCommit, PairCommit, rosterVars
<1>12. ASSUME NEW r \in Racers, \/ CreateWalkUp(r) \/ Leave(r) \/ DeleteRegistration(r)
                                \/ DeleteDuck(r) \/ ReplaceDuck(r)
       PROVE  finalSlot' = finalSlot
  BY <1>12 DEF CreateWalkUp, Leave, DeleteRegistration, DeleteDuck, ReplaceDuck, rosterVars
<1>13. ASSUME StartFinal \/ QuietStep PROVE finalSlot' = finalSlot
  BY <1>13 DEF StartFinal, QuietStep, rosterVars
<1>14. QED
  BY StepCases, <1>3, <1>4, <1>5, <1>6, <1>7, <1>8, <1>9, <1>10, <1>11, <1>12, <1>13

LEMMA FitsStep == TypeOK /\ OneAccountPerHeat /\ Fits /\ [Next]_vars => Fits'
<1> SUFFICES ASSUME TypeOK, OneAccountPerHeat, Fits, [Next]_vars PROVE Fits'
  OBVIOUS
<1>1. FinalFits' /\ LineupsFit'
  BY FinalFitsStep, LineupsFitStep DEF Fits
<1>2. RostersFit' /\ HeatsFit'
  <2>1. CASE \E c \in Clients : PairCommit(c)
    BY <2>1, PairingFits DEF Fits
  <2>2. CASE \A c \in Clients : ~PairCommit(c)
    <3>1. heatOf' = heatOf /\ Planned' = Planned
      BY <2>2, RoundKept
    <3>2. QED
      BY <3>1, TwoRounds DEF Fits, RostersFit, HeatsFit, Roster
  <2>3. QED
    BY <2>1, <2>2
<1>3. QED
  BY <1>1, <1>2 DEF Fits

LEMMA InitFits == Init => Fits
<1> SUFFICES ASSUME Init PROVE Fits
  OBVIOUS
<1>1. RostersFit
  BY TwoRounds DEF Init, RostersFit, Roster, InitialRoster
<1>2. HeatsFit
  <2>1. InitialHeats \subseteq RoundOne
    BY RacersAssumption DEF InitialHeats
  <2>2. Planned = InitialHeats
    BY <2>1 DEF Init, Planned, Heats
  <2>3. QED
    BY <2>2, StartReadiness DEF HeatsFit
<1>3. FinalFits
  <2>1. Roster(Final) = {}
    BY DEF Init, Roster
  <2>2. QED
    BY <2>1, FS_EmptySet, RacersAssumption DEF FinalFits, FinalSize
<1>4. LineupsFit
  BY DEF Init, LineupsFit, Idle
<1>5. QED
  BY <1>1, <1>2, <1>3, <1>4 DEF Fits

\* No heat of the round is overfilled, there is never a heat whose winner the
\* final could not hold, and the final is never overfilled: not by pairings and
\* announcements that overlap, and not by a director who lists its roster anew.
THEOREM WithinCapacityHolds == Spec => []WithinCapacity
<1>1. Fits => WithinCapacity
  BY DEF Fits, RostersFit, HeatsFit, FinalFits, WithinCapacity
<1>2. QED
  BY <1>1, InitFits, FitsStep, TypeCorrect, OneAccountPerHeatHolds, PTL DEF Spec

-----------------------------------------------------------------------------
(* The final's roster.                                                       *)

\* A published winner raced in that heat, and in no other.
WinnersRan == \A h \in RoundOne : \A row \in published[h] : heatOf[row.racer] = h

\* What a preflight saw of the final's roster is still so when its batch is let
\* through: whoever publishes another winner retires the requests on the heat.
Stands(c) == /\ req[c].op # "roster"
             /\ req[c].op = "announce" => req[c].slot > 0
             /\ req[c].op \in {"reopen", "correct"} =>
                  req[c].entry /\ Winners(req[c].heat) = {req[c].old}
SeenStands == \A c \in Clients : Stands(c)

\* Only these steps touch the published results or the final's roster.
LEMMA FinalistSteps ==
  ASSUME TypeOK, [Next]_vars
  PROVE  \/ UNCHANGED <<published, finalSlot>>
         \/ \E c \in Clients : AnnounceCommit(c) \/ ReopenCommit(c) \/ CorrectCommit(c)
         \/ \E c \in Clients : RosterCommit(c)
         \/ \E h \in RoundOne : Uncontested(h)
<1>1. ASSUME NEW h \in Heats, Ready(h) \/ Call(h) \/ Start(h) \/ Finish(h) \/ Reset(h)
      PROVE  UNCHANGED <<published, finalSlot>>
  BY <1>1 DEF Ready, Call, Start, Finish, Reset, Transition, rosterVars, resultVars
<1>2. ASSUME NEW h \in RoundOne,
             Skip(h) \/ EraseOldDuck(h) \/ \E r \in Racers : Record(h, r)
      PROVE  UNCHANGED <<published, finalSlot>>
  BY <1>2 DEF Skip, EraseOldDuck, Record, rosterVars, resultVars
<1>3. ASSUME NEW c \in Clients, ReactivateCommit(c) \/ PairCommit(c)
      PROVE  UNCHANGED <<published, finalSlot>>
  BY <1>3 DEF ReactivateCommit, PairCommit, rosterVars, resultVars
<1>4. ASSUME NEW r \in Racers, \/ CreateWalkUp(r) \/ Leave(r) \/ DeleteRegistration(r)
                               \/ DeleteDuck(r) \/ ReplaceDuck(r)
      PROVE  UNCHANGED <<published, finalSlot>>
  BY <1>4
  DEF CreateWalkUp, Leave, DeleteRegistration, DeleteDuck, ReplaceDuck, rosterVars, resultVars
<1>5. ASSUME StartFinal \/ QuietStep PROVE UNCHANGED <<published, finalSlot>>
  BY <1>5 DEF StartFinal, QuietStep, rosterVars, resultVars
<1>6. QED
  BY StepCases, <1>1, <1>2, <1>3, <1>4, <1>5

LEMMA WinnersRanStep ==
  ASSUME TypeOK, RanInHeat, WinnersRan, [Next]_vars
  PROVE  WinnersRan'
<1> SUFFICES ASSUME NEW h \in RoundOne, NEW row \in published'[h]
             PROVE  heatOf'[row.racer] = h
  BY DEF WinnersRan
<1>1. heatOf[row.racer] = h /\ row.racer \in Racers
  <2>1. CASE row \in published[h]
    BY <2>1 DEF WinnersRan, TypeOK, Result
  <2>2. CASE row \notin published[h]
    <3>1. row.racer \in Roster(h)
      BY <2>2, OnlyEligibleWinnersStep
    <3>2. QED
      BY <3>1, TwoRounds DEF Roster
  <2>3. QED
    BY <2>1, <2>2
<1>2. CASE \E c \in Clients : PairCommit(c)
  <2>1. PICK c \in Clients : PairCommit(c)
    BY <1>2
  <2>2. h # NoHeat
    BY RacersAssumption DEF RoundOne, NoHeat
  <2>3. heatOf'[row.racer] = heatOf[row.racer]
    BY <1>1, <2>1, <2>2 DEF PairCommit, TypeOK, Requests
  <2>4. QED
    BY <1>1, <2>3
<1>3. CASE \A c \in Clients : ~PairCommit(c)
  BY <1>1, <1>3, RoundKept
<1>4. QED
  BY <1>2, <1>3

\* Another winner for a heat retires the requests that know the former one.
LEMMA PublishedRetires ==
  ASSUME TypeOK, [Next]_vars, SeenStands, NEW c \in Clients,
         req[c].op \in {"announce", "reopen", "correct"},
         NEW h \in RoundOne, h = req[c].heat, req'[c] = req[c]
  PROVE  published'[h] = published[h]
<1>1. c \in OnHeat(h) /\ req[c] # Idle
  BY DEF OnHeat, Idle
<1>2. ASSUME NEW g \in RoundOne, req' = Moved(g) PROVE g # h
  BY <1>1, <1>2, TwoRounds DEF Moved, Lapse
<1>3. ASSUME NEW d \in Clients, AnnounceCommit(d) \/ ReopenCommit(d) \/ CorrectCommit(d)
      PROVE  published'[h] = published[h]
  <2>1. PICK g \in RoundOne : g = req[d].heat
    BY <1>3 DEF AnnounceCommit, ReopenCommit, CorrectCommit, TypeOK, Requests
  <2>2. g # h
    <3>1. CASE req' = Moved(g)
      BY <1>2, <3>1
    <3>2. CASE req' = Lapse(OnHeat(g) \cup OnRoster)
      BY <1>1, <3>2 DEF Lapse
    <3>3. QED
      BY <1>3, <2>1, <3>1, <3>2 DEF AnnounceCommit, ReopenCommit, CorrectCommit
  <2>3. QED
    BY <1>3, <2>1, <2>2 DEF AnnounceCommit, ReopenCommit, CorrectCommit, TypeOK
<1>4. ASSUME NEW g \in RoundOne, Uncontested(g) PROVE published'[h] = published[h]
  <2>1. g # h
    BY <1>2, <1>4 DEF Uncontested
  <2>2. QED
    BY <1>4, <2>1 DEF Uncontested, TypeOK
<1>5. ASSUME NEW d \in Clients, RosterCommit(d) PROVE FALSE
  BY <1>5 DEF RosterCommit, SeenStands, Stands
<1>6. QED
  BY <1>3, <1>4, <1>5, FinalistSteps

LEMMA SeenStandsStep ==
  ASSUME MayReplaceRoster = FALSE, TypeOK, OneAccountPerHeat, SeenStands, [Next]_vars
  PROVE  SeenStands'
<1> SUFFICES ASSUME NEW c \in Clients PROVE Stands(c)'
  BY DEF SeenStands
<1>0. Stands(c)
  BY DEF SeenStands
<1>1. CASE req'[c] = req[c]
  <2>1. CASE req[c].op \in {"reopen", "correct"}
    <3>1. PICK h \in RoundOne : h = req[c].heat
      BY <2>1 DEF TypeOK, Requests
    <3>2. published'[h] = published[h]
      BY <1>1, <2>1, <3>1, PublishedRetires
    <3>3. QED
      BY <1>0, <1>1, <3>1, <3>2 DEF Stands, Winners
  <2>2. CASE req[c].op \notin {"reopen", "correct"}
    BY <1>0, <1>1, <2>2 DEF Stands
  <2>3. QED
    BY <2>1, <2>2
<1>2. CASE req'[c] = Idle
  BY <1>2 DEF Idle, Stands
<1>3. ASSUME NEW h \in RoundOne, AnnounceBegin(c, h) PROVE Stands(c)'
  <2>1. req'[c].op = "announce" /\ req'[c].slot = FinalSize + 1
    BY <1>3 DEF AnnounceBegin, TypeOK
  <2>2. QED
    BY <2>1, FinalSizeType DEF Stands
<1>4. ASSUME NEW h \in RoundOne, NEW w \in Winners(h), status[h] = "FINALIZED",
             published' = published
      PROVE  Winners(h)' = {w}
  <2>1. PICK row \in published[h] : published[h] = {row}
    BY <1>4 DEF OneAccountPerHeat, Account
  <2>2. Winners(h) = {row.racer}
    BY <2>1 DEF Winners
  <2>3. QED
    BY <1>4, <2>2 DEF Winners
<1>5. ASSUME NEW h \in RoundOne, ReopenBegin(c, h) PROVE Stands(c)'
  <2>1. PICK w \in Winners(h) :
          req' = [req EXCEPT ![c] = [op |-> "reopen", heat |-> h, old |-> w,
                                     entry |-> TRUE]]
    BY <1>5 DEF ReopenBegin
  <2>2. Winners(h)' = {w}
    BY <1>4, <1>5 DEF ReopenBegin, resultVars
  <2>3. req'[c] = [op |-> "reopen", heat |-> h, old |-> w, entry |-> TRUE]
    BY <2>1 DEF TypeOK
  <2>4. req'[c].op = "reopen" /\ req'[c].heat = h /\ req'[c].old = w /\ req'[c].entry
    BY <2>3
  <2>5. QED
    BY <2>2, <2>4 DEF Stands, Winners
<1>6. ASSUME NEW h \in RoundOne, NEW r \in Racers, CorrectBegin(c, h, r) PROVE Stands(c)'
  <2>1. PICK w \in Winners(h) :
          req' = [req EXCEPT ![c] = [op |-> "correct", heat |-> h, old |-> w,
                                     new |-> r, duck |-> duck[r], entry |-> TRUE]]
    BY <1>6 DEF CorrectBegin
  <2>2. Winners(h)' = {w}
    BY <1>4, <1>6 DEF CorrectBegin, resultVars
  <2>3. req'[c] = [op |-> "correct", heat |-> h, old |-> w, new |-> r,
                   duck |-> duck[r], entry |-> TRUE]
    BY <2>1 DEF TypeOK
  <2>4. req'[c].op = "correct" /\ req'[c].heat = h /\ req'[c].old = w /\ req'[c].entry
    BY <2>3
  <2>5. QED
    BY <2>2, <2>4 DEF Stands, Winners
<1>7. ASSUME NEW r \in Racers, ReactivateBegin(c, r) \/ PairBegin(c, r)
      PROVE  Stands(c)'
  <2>1. req'[c].op \in {"reactivate", "pair"}
    BY <1>7 DEF ReactivateBegin, PairBegin, TypeOK
  <2>2. QED
    BY <2>1 DEF Stands
<1>8. ~RosterBegin(c) /\ \A d \in Clients : ~RosterCommit(d)
  BY DEF RosterBegin, RosterCommit, SeenStands, Stands
<1>9. QED
  BY <1>1, <1>2, <1>3, <1>5, <1>6, <1>7, <1>8, RequestSteps

\* Each step that publishes a winner puts that racer on the final's roster, each
\* one that takes a result back removes its racer, who has won no other heat.
LEMMA FinalistsStep ==
  ASSUME TypeOK, OneAccountPerHeat, WinnersRan, SeenStands, FinalistsAreWinners, [Next]_vars
  PROVE  FinalistsAreWinners'
<1> DEFINE R == Roster(Final)
           Won == UNION {Winners(h) : h \in RoundOne}
<1>0. R = Won /\ R \subseteq Racers
  BY DEF FinalistsAreWinners, Roster
<1>1. ASSUME NEW h \in RoundOne, NEW w \in Winners(h), NEW g \in RoundOne, g # h
      PROVE  w \notin Winners(g)
  BY <1>1 DEF WinnersRan, Winners
<1>2. ASSUME NEW h \in RoundOne, NEW row \in Result, NEW n \in Nat, n > 0,
             published[h] = {}, published' = [published EXCEPT ![h] = {row}],
             finalSlot' = [finalSlot EXCEPT ![row.racer] = n]
      PROVE  FinalistsAreWinners'
  <2>1. row.racer \in Racers
    BY DEF Result
  <2>2. Roster(Final)' = R \cup {row.racer}
    BY <1>2, <2>1 DEF Roster, TypeOK
  <2>3. Winners(h)' = {row.racer} /\ Winners(h) = {}
    BY <1>2 DEF Winners, TypeOK
  <2>4. \A g \in RoundOne : g # h => Winners(g)' = Winners(g)
    BY <1>2 DEF Winners, TypeOK
  <2>5. QED
    BY <1>0, <2>2, <2>3, <2>4 DEF FinalistsAreWinners
<1>3. ASSUME NEW c \in Clients, AnnounceCommit(c) PROVE FinalistsAreWinners'
  <2>1. PICK h \in RoundOne : h = req[c].heat
    BY <1>3 DEF AnnounceCommit, TypeOK, Requests
  <2>2. PICK row \in pending[h] :
          /\ pending[h] = {row}
          /\ finalSlot' = [finalSlot EXCEPT ![row.racer] = req[c].slot]
    BY <1>3, <2>1 DEF AnnounceCommit
  <2>3. row \in Result
    BY <2>2 DEF TypeOK
  <2>4. req[c].slot \in Nat /\ req[c].slot > 0
    BY <1>3 DEF AnnounceCommit, TypeOK, Requests, SeenStands, Stands
  <2>5. published[h] = {}
    BY <1>3, <2>1 DEF AnnounceCommit, OneAccountPerHeat, Account
  <2>6. published' = [published EXCEPT ![h] = {row}]
    BY <1>3, <2>1, <2>2 DEF AnnounceCommit
  <2>7. QED
    BY <1>2, <2>2, <2>3, <2>4, <2>5, <2>6
<1>4. ASSUME NEW h \in RoundOne, Uncontested(h) PROVE FinalistsAreWinners'
  <2>1. PICK r \in Racers :
          /\ finalSlot' = [finalSlot EXCEPT ![r] = FinalSize + 1]
          /\ published' = [published EXCEPT ![h] = {[racer |-> r, duck |-> duck[r]]}]
    BY <1>4 DEF Uncontested
  <2>2. [racer |-> r, duck |-> duck[r]] \in Result /\ [racer |-> r, duck |-> duck[r]].racer = r
    BY DEF TypeOK, Result
  <2>3. FinalSize + 1 \in Nat /\ FinalSize + 1 > 0
    BY FinalSizeType
  <2>4. published[h] = {}
    BY <1>4 DEF Uncontested, Settleable, NeverStarted, OneAccountPerHeat, Account
  <2>5. QED
    BY <1>2, <2>1, <2>2, <2>3, <2>4
<1>5. ASSUME NEW c \in Clients, ReopenCommit(c) PROVE FinalistsAreWinners'
  <2>1. PICK h \in RoundOne, old \in Racers : h = req[c].heat /\ old = req[c].old
    BY <1>5 DEF ReopenCommit, TypeOK, Requests
  <2>2. req[c].entry /\ Winners(h) = {old}
    BY <1>5, <2>1 DEF ReopenCommit, SeenStands, Stands
  <2>3. /\ finalSlot' = [finalSlot EXCEPT ![old] = 0]
        /\ published' = [published EXCEPT ![h] = {}]
    BY <1>5, <2>1, <2>2 DEF ReopenCommit
  <2>4. Roster(Final)' = R \ {old}
    BY <2>3 DEF Roster, TypeOK
  <2>5. Winners(h)' = {} /\ \A g \in RoundOne : g # h => Winners(g)' = Winners(g)
    BY <2>3 DEF Winners, TypeOK
  <2>6. \A g \in RoundOne : g # h => old \notin Winners(g)
    BY <1>1, <2>2
  <2>7. (UNION {Winners(g) : g \in RoundOne})' = Won \ {old}
    BY <2>2, <2>5, <2>6
  <2>8. QED
    BY <1>0, <2>4, <2>7 DEF FinalistsAreWinners
<1>6. ASSUME NEW c \in Clients, CorrectCommit(c) PROVE FinalistsAreWinners'
  <2>1. PICK h \in RoundOne, old \in Racers, new \in Racers :
          h = req[c].heat /\ old = req[c].old /\ new = req[c].new
    BY <1>6 DEF CorrectCommit, TypeOK, Requests
  <2>2. req[c].entry /\ Winners(h) = {old}
    BY <1>6, <2>1 DEF CorrectCommit, SeenStands, Stands
  <2>3. /\ finalSlot[old] > 0 /\ finalSlot[new] = 0
        /\ finalSlot' = [finalSlot EXCEPT ![new] = finalSlot[old], ![old] = 0]
        /\ published' = [published EXCEPT ![h] = {[racer |-> new, duck |-> req[c].duck]}]
    BY <1>6, <2>1, <2>2 DEF CorrectCommit
  <2>4. Roster(Final)' = (R \ {old}) \cup {new}
    BY <2>3 DEF Roster, TypeOK
  <2> DEFINE row == [racer |-> new, duck |-> req[c].duck]
  <2>9. row.racer = new
    OBVIOUS
  <2>10. published' = [published EXCEPT ![h] = {row}]
    BY <2>3
  <2> HIDE DEF row
  <2>11. published'[h] = {row} /\ \A g \in RoundOne : g # h => published'[g] = published[g]
    BY <2>10 DEF TypeOK
  <2>5. Winners(h)' = {new} /\ \A g \in RoundOne : g # h => Winners(g)' = Winners(g)
    BY <2>9, <2>11 DEF Winners
  <2>6. \A g \in RoundOne : g # h => old \notin Winners(g)
    BY <1>1, <2>2
  <2>7. (UNION {Winners(g) : g \in RoundOne})' = (Won \ {old}) \cup {new}
    BY <2>2, <2>5, <2>6
  <2>8. QED
    BY <1>0, <2>4, <2>7 DEF FinalistsAreWinners
<1>7. ASSUME NEW c \in Clients, RosterCommit(c) PROVE FALSE
  BY <1>7 DEF RosterCommit, SeenStands, Stands
<1>8. CASE UNCHANGED <<published, finalSlot>>
  BY <1>8 DEF FinalistsAreWinners, Roster, Winners
<1>9. QED
  BY <1>3, <1>4, <1>5, <1>6, <1>7, <1>8, FinalistSteps

\* Where no director replaces its roster, the final's racers are exactly the
\* winners of the round, whatever is announced, settled, corrected and reopened
\* at the same time.
THEOREM FinalistsAreWinnersHolds ==
  ASSUME MayReplaceRoster = FALSE
  PROVE  Spec => []FinalistsAreWinners
<1>1. Init => RanInHeat /\ WinnersRan /\ SeenStands /\ FinalistsAreWinners
  <2> SUFFICES ASSUME Init PROVE RanInHeat /\ WinnersRan /\ SeenStands /\ FinalistsAreWinners
    OBVIOUS
  <2>1. RanInHeat /\ WinnersRan
    BY DEF Init, RanInHeat, WinnersRan
  <2>2. SeenStands
    BY DEF Init, SeenStands, Stands, Idle
  <2>3. FinalistsAreWinners
    BY DEF Init, FinalistsAreWinners, Roster, Winners
  <2>4. QED
    BY <2>1, <2>2, <2>3
<1>2. TypeOK /\ OneAccountPerHeat /\ RanInHeat /\ WinnersRan /\ SeenStands
        /\ FinalistsAreWinners /\ [Next]_vars
      => RanInHeat' /\ WinnersRan' /\ SeenStands' /\ FinalistsAreWinners'
  <2> SUFFICES ASSUME TypeOK, OneAccountPerHeat, RanInHeat, WinnersRan, SeenStands,
                      FinalistsAreWinners, [Next]_vars
               PROVE  RanInHeat' /\ WinnersRan' /\ SeenStands' /\ FinalistsAreWinners'
    OBVIOUS
  <2>1. RanInHeat'
    BY RanInHeatStep
  <2>2. WinnersRan'
    BY WinnersRanStep
  <2>3. SeenStands'
    BY SeenStandsStep, Zenon
  <2>4. FinalistsAreWinners'
    BY FinalistsStep
  <2>5. QED
    BY <2>1, <2>2, <2>3, <2>4
<1>3. QED
  BY <1>1, <1>2, TypeCorrect, OneAccountPerHeatHolds, PTL DEF Spec
=============================================================================
