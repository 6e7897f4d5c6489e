---------------------------- MODULE RoundOneRace ----------------------------
(* Race day, from START_ROUND_ONE to the running of the final heat.          *)
(*                                                                           *)
(* Every staff command ends in ONE guarded batch, which the database runs as *)
(* one transaction.  A command whose guards are all repeated in its batch is *)
(* one action here.  A command that carries facts of its un-locked preflight *)
(* reads into the batch is two: <Command>Begin takes the reads into req[c],  *)
(* <Command>Commit is the batch, and anything may happen between them.       *)
EXTENDS Integers, FiniteSets

CONSTANTS
  Racers,         \* race entries, each with its registration
  InitialHeat,    \* the Round One heat of each racer when the round starts;
                  \* NoHeat for a walk-up who has not come yet
  InitiallyOut,   \* racers withdrawn before the round: on a roster, no contest
  MaxHeat,        \* bound: the highest Round One heat number
  HeatCapacity,   \* events.round_one_heat_capacity
  FinalCapacity,  \* events.final_heat_capacity
  MaxDuck,        \* bound: the duck assignments one racer may have
  Clients,        \* commands in flight between preflight and batch
  MayLeave,       \* bound: the racers who may be withdrawn and reactivated
  MayLoseDuck,    \* bound: the racers whose duck may be deleted or replaced
  MayReplaceRoster \* bound: may a director replace the final's roster?

Final  == 0       \* the one heat of round FINAL
NoHeat == -1
RoundOne == 1..MaxHeat
Heats == RoundOne \cup {Final}

ASSUME RacersAssumption ==
  /\ IsFiniteSet(Racers)
  /\ MaxHeat \in Nat /\ HeatCapacity \in Nat /\ FinalCapacity \in Nat
  /\ MaxDuck \in Nat \ {0}
  /\ InitialHeat \in [Racers -> RoundOne \cup {NoHeat}]
  /\ MayReplaceRoster \in BOOLEAN

\* What START_ROUND_ONE requires of the rosters it locks.
MinimumHeatSize == 3
InitialHeats == {InitialHeat[r] : r \in Racers} \ {NoHeat}
InitialRoster(h) == {r \in Racers : InitialHeat[r] = h}

ASSUME StartReadiness ==
  /\ Cardinality(InitialHeats) <= FinalCapacity
  /\ \A h \in InitialHeats :
       /\ Cardinality(InitialRoster(h)) >= MinimumHeatSize
       /\ InitialRoster(h) \ InitiallyOut # {}

VARIABLES
  evStatus,   \* events.status
  status,     \* heats.status; "NONE" while no such row exists
  started,    \* a committed START_HEAT command names the heat
  heatOf,     \* the racer's ROUND_ONE heat entry
  finalSlot,  \* the slot of the racer's FINAL heat entry, 0 without one
  reg,        \* registrations.status
  duck,       \* serial number of the racer's latest duck assignment
  held,       \* is that assignment still open (valid_to IS NULL)?
  pending,    \* pending_heat_results rows of the heat
  published,  \* heat_results rows of the heat
  history,    \* heat_result_history: every superseded row
  req         \* the command each client has in flight

roundVars  == <<evStatus, status, started>>
rosterVars == <<heatOf, finalSlot>>
racerVars  == <<reg, duck, held>>
resultVars == <<pending, published, history>>
vars == <<roundVars, rosterVars, racerVars, resultVars, req>>

-----------------------------------------------------------------------------
(* The data.  "OUT" is WITHDRAWN or DISQUALIFIED, which no code here tells   *)
(* apart; "ABSENT" has not registered yet and "DELETED" was removed.         *)

HeatStatus == {"NONE", "PLANNED", "LOADING", "READY", "CALLING", "RUNNING",
               "AWAITING_RESULT", "FINALIZED", "CANCELLED"}
RegStatus == {"ABSENT", "SUBMITTED", "ACTIVE", "OUT", "DELETED"}

\* A result row: the racer and the exact duck assignment that crossed first.
Result == [racer : Racers, duck : Nat]

Idle == [op |-> "idle"]
Requests ==
  [op : {"idle"}]
    \cup [op : {"announce"}, heat : RoundOne, slot : Nat, made : BOOLEAN]
    \cup [op : {"reopen"}, heat : RoundOne, old : Racers, entry : BOOLEAN]
    \cup [op : {"correct"}, heat : RoundOne, old : Racers, new : Racers,
          duck : Nat, entry : BOOLEAN]
    \cup [op : {"roster"}, slots : [Racers -> Nat]]
    \cup [op : {"reactivate"}, racer : Racers, target : {"SUBMITTED", "ACTIVE"}]
    \cup [op : {"pair"}, racer : Racers, heat : RoundOne \cup {NoHeat},
          new : BOOLEAN]

Roster(h) == IF h = Final THEN {r \in Racers : finalSlot[r] > 0}
                          ELSE {r \in Racers : heatOf[r] = h}
Eligible(h) == {r \in Roster(h) : reg[r] = "ACTIVE"}
FinalSize == Cardinality(Roster(Final))

Planned == {h \in RoundOne : status[h] # "NONE"}
InRound(h) == evStatus = IF h = Final THEN "FINAL" ELSE "ROUND_ONE"

InFlight == {"RUNNING", "AWAITING_RESULT"}
Settled == {"FINALIZED", "CANCELLED"}

NeverStarted(h) == /\ status[h] \in {"LOADING", "READY", "CALLING"}
                   /\ ~started[h]
Unstarted == {h \in RoundOne : NeverStarted(h)}

\* Walk-ups admitted on race day who still need a duck and a heat.
Waiting == {r \in Racers : reg[r] = "SUBMITTED" /\ heatOf[r] = NoHeat}

\* Mutant: nobody looks for pending walk-ups.
HeldForWalkUps_Never(h) == FALSE

\* The last never-started heat must wait for them.
HeldForWalkUps(h) == Unstarted \subseteq {h} /\ Waiting # {}


\* A result row still describes an eligible racer and the duck they hold.
Current(row) == /\ reg[row.racer] = "ACTIVE"
                /\ held[row.racer]
                /\ duck[row.racer] = row.duck

\* The winner a heat has published.
Winners(h) == {row.racer : row \in published[h]}

(* A request is refused when the revision its batch pins has moved.  The     *)
(* action that moves the revision retires it on the spot.                    *)
OnHeat(h) == {c \in Clients : /\ req[c].op \in {"announce", "reopen", "correct"}
                              /\ req[c].heat = h}
OnRoster == {c \in Clients : req[c].op = "roster"}
OnRegistration(r) == {c \in Clients : /\ req[c].op = "reactivate"
                                      /\ req[c].racer = r}
Lapse(S) == [c \in Clients |-> IF c \in S THEN Idle ELSE req[c]]
\* Mutant: the heat's revision is not pinned.
Moved_Unpinned(h) == req
Moved(h) == Lapse(IF h = Final THEN OnRoster ELSE OnHeat(h))

\* Mutants: the recorded result is not cleared, the old one not archived, one
\* racer too many fits.
ClearPending_Kept(h) == pending
Supersede_Forgotten(h) == history
HasRoom_OneTooMany(h) == Cardinality(Roster(h)) <= HeatCapacity

\* Statements several batches share.
ClearPending(h) == [x \in RoundOne |-> IF x = h THEN {} ELSE pending[x]]
Supersede(h) == history \cup published[h]

\* A FINAL heat entry may be deleted only from an unlocked roster (trigger); a
\* delete that finds no row is never checked.
DeletableEntry(q) == q.entry => status[Final] = "PLANNED"

HasRoom(h) == Cardinality(Roster(h)) < HeatCapacity

-----------------------------------------------------------------------------
Init ==
  /\ evStatus = "ROUND_ONE"
  /\ status = [h \in Heats |-> IF h \in InitialHeats THEN "LOADING" ELSE "NONE"]
  /\ started = [h \in Heats |-> FALSE]
  /\ heatOf = InitialHeat
  /\ finalSlot = [r \in Racers |-> 0]
  /\ reg = [r \in Racers |-> IF InitialHeat[r] = NoHeat THEN "ABSENT"
                             ELSE IF r \in InitiallyOut THEN "OUT" ELSE "ACTIVE"]
  /\ duck = [r \in Racers |-> IF InitialHeat[r] = NoHeat THEN 0 ELSE 1]
  /\ held = [r \in Racers |-> InitialHeat[r] # NoHeat]
  /\ pending = [h \in RoundOne |-> {}]
  /\ published = [h \in RoundOne |-> {}]
  /\ history = {}
  /\ req = [c \in Clients |-> Idle]

-----------------------------------------------------------------------------
(* Running a heat: READY_HEAT, CALL_HEAT, START_HEAT, FINISH_HEAT,           *)
(* RESET_HEAT.  Both rounds share the handlers.  LOCK_HEAT asks for a        *)
(* PLANNED heat of the round being run; there is none: START_ROUND_ONE and   *)
(* START_FINAL lock theirs (FinalAfterRound).                                *)

Transition(h, from, to) ==
  /\ status[h] = from
  /\ InRound(h)
  /\ status' = [status EXCEPT ![h] = to]
  /\ req' = Moved(h)
  /\ UNCHANGED <<evStatus, rosterVars, racerVars, resultVars>>

Ready(h) == Transition(h, "LOADING", "READY") /\ UNCHANGED started
Call(h)  == Transition(h, "READY", "CALLING") /\ UNCHANGED started

Start(h) ==
  /\ \A other \in Heats \ {h} : status[other] \notin InFlight
  /\ \A r \in Roster(h) : held[r]
  /\ Eligible(h) # {}
  /\ ~(h \in RoundOne /\ HeldForWalkUps(h))
  /\ Transition(h, "CALLING", "RUNNING")
  /\ started' = [started EXCEPT ![h] = TRUE]

Finish(h) == Transition(h, "RUNNING", "AWAITING_RESULT") /\ UNCHANGED started

Reset(h) ==
  /\ status[h] \in {"READY", "CALLING", "RUNNING", "AWAITING_RESULT"}
  /\ InRound(h)
  /\ Roster(h) # {}
  /\ h \in RoundOne => published[h] = {}
  /\ pending' = ClearPending(h)
  /\ status' = [status EXCEPT ![h] = "LOADING"]
  /\ req' = Moved(h)
  /\ UNCHANGED <<evStatus, started, rosterVars, racerVars, published, history>>

-----------------------------------------------------------------------------
(* Results of Round One.                                                     *)

\* RECORD_HEAT_RESULT: the finish line names the winning duck.
Record(h, r) ==
  /\ status[h] = "AWAITING_RESULT" /\ InRound(h)
  /\ pending[h] = {}
  /\ r \in Eligible(h) /\ held[r]
  /\ pending' = [pending EXCEPT ![h] = {[racer |-> r, duck |-> duck[r]]}]
  /\ req' = Moved(h)
  /\ UNCHANGED <<roundVars, rosterVars, racerVars, published, history>>

\* CONFIRM_WINNER_ANNOUNCEMENT.  The preflight reads whether the final exists
\* and how many entries it has, and binds the next slot number from that.
AnnounceBegin(c, h) ==
  /\ req[c] = Idle
  /\ status[h] = "AWAITING_RESULT"
  /\ pending[h] # {} /\ \A row \in pending[h] : Current(row)
  /\ status[Final] \in {"NONE", "PLANNED"}
  /\ FinalSize < FinalCapacity
  /\ req' = [req EXCEPT ![c] = [op |-> "announce", heat |-> h,
                                slot |-> FinalSize + 1,
                                made |-> status[Final] # "NONE"]]
  /\ UNCHANGED <<roundVars, rosterVars, racerVars, resultVars>>

AnnounceCommit(c) ==
  /\ req[c].op = "announce"
  /\ LET h == req[c].heat IN
     /\ status[h] = "AWAITING_RESULT" /\ InRound(h)
     /\ status[Final] = IF req[c].made THEN "PLANNED" ELSE "NONE"
     /\ FinalSize < FinalCapacity
     /\ \E row \in pending[h] :
          /\ pending[h] = {row} /\ Current(row)
          /\ finalSlot[row.racer] = 0
          /\ \A r \in Racers : finalSlot[r] # req[c].slot
          /\ finalSlot' = [finalSlot EXCEPT ![row.racer] = req[c].slot]
     /\ published' = [published EXCEPT ![h] = pending[h]]
     /\ pending' = ClearPending(h)
     /\ status' = [status EXCEPT ![h] = "FINALIZED", ![Final] = "PLANNED"]
     /\ req' = Moved(h)
  /\ UNCHANGED <<evStatus, started, heatOf, racerVars, history>>

\* REOPEN_HEAT_RESULT.  The preflight finds the winner's FINAL heat entry on an
\* unlocked roster; the batch deletes the entry it found and looks at the
\* roster's lock again only when that row is still there to delete.
ReopenBegin(c, h) ==
  /\ req[c] = Idle
  /\ status[h] = "FINALIZED"
  /\ status[Final] = "PLANNED"
  /\ \E w \in Winners(h) :
       /\ finalSlot[w] > 0
       /\ req' = [req EXCEPT ![c] = [op |-> "reopen", heat |-> h, old |-> w,
                                     entry |-> TRUE]]
  /\ UNCHANGED <<roundVars, rosterVars, racerVars, resultVars>>

ReopenCommit(c) ==
  /\ req[c].op = "reopen"
  /\ LET h == req[c].heat IN
     /\ status[h] = "FINALIZED"
     /\ DeletableEntry(req[c])
     /\ finalSlot' = IF req[c].entry
                     THEN [finalSlot EXCEPT ![req[c].old] = 0] ELSE finalSlot
     /\ published' = [published EXCEPT ![h] = {}]
     /\ history' = Supersede(h)
     /\ status' = [status EXCEPT ![h] = "AWAITING_RESULT"]
     /\ evStatus' = "ROUND_ONE"
     /\ req' = Moved(h)
  /\ UNCHANGED <<started, heatOf, racerVars, pending>>

\* CORRECT_HEAT_RESULT.  The batch publishes the new winner and hands over the
\* FINAL heat entry the preflight found, if that row is still there.
CorrectBegin(c, h, r) ==
  /\ req[c] = Idle
  /\ status[h] = "FINALIZED"
  /\ r \in Eligible(h) /\ held[r]
  /\ status[Final] \in {"PLANNED", "LOADING"}
  /\ \E w \in Winners(h) \ {r} :
       /\ finalSlot[w] > 0
       /\ req' = [req EXCEPT ![c] = [op |-> "correct", heat |-> h, old |-> w,
                                     new |-> r, duck |-> duck[r],
                                     entry |-> TRUE]]
  /\ UNCHANGED <<roundVars, rosterVars, racerVars, resultVars>>

CorrectCommit(c) ==
  /\ req[c].op = "correct"
  /\ LET h   == req[c].heat
         old == req[c].old
         new == [racer |-> req[c].new, duck |-> req[c].duck]
     IN
     /\ status[h] = "FINALIZED"
     /\ finalSlot[old] > 0 /\ status[Final] \in {"PLANNED", "LOADING"}
     /\ new.racer \in Roster(h) /\ Current(new)
     /\ req[c].entry => finalSlot[new.racer] = 0
     /\ finalSlot' = IF req[c].entry
                     THEN [finalSlot EXCEPT ![new.racer] = finalSlot[old],
                                            ![old] = 0]
                     ELSE finalSlot
     /\ published' = [published EXCEPT ![h] = {new}]
     /\ history' = Supersede(h)
     /\ req' = Lapse(OnHeat(h) \cup OnRoster)
  /\ UNCHANGED <<roundVars, heatOf, racerVars, pending>>

-----------------------------------------------------------------------------
(* reconcileRoundOneHeats: a never-started heat that is no contest any more  *)
(* is settled without staff, after a withdrawal and before START_FINAL; each *)
(* settlement is a batch of its own and may be lost or repeated.             *)

Settleable(h) == NeverStarted(h) /\ evStatus = "ROUND_ONE" /\ ~HeldForWalkUps(h)

Skip(h) ==
  /\ Settleable(h)
  /\ Eligible(h) = {}
  /\ status' = [status EXCEPT ![h] = "CANCELLED"]
  /\ req' = Moved(h)
  /\ UNCHANGED <<evStatus, started, rosterVars, racerVars, resultVars>>

Uncontested(h) ==
  /\ Settleable(h)
  /\ status[Final] \in {"NONE", "PLANNED"}
  /\ FinalSize < FinalCapacity
  /\ \E r \in Racers :
       /\ Eligible(h) = {r} /\ held[r]
       /\ finalSlot[r] = 0
       /\ \A x \in Racers : finalSlot[x] # FinalSize + 1
       /\ finalSlot' = [finalSlot EXCEPT ![r] = FinalSize + 1]
       /\ published' = [published EXCEPT ![h] = {[racer |-> r, duck |-> duck[r]]}]
  /\ status' = [status EXCEPT ![h] = "FINALIZED", ![Final] = "PLANNED"]
  /\ req' = Moved(h)
  /\ UNCHANGED <<evStatus, started, heatOf, racerVars, pending, history>>

-----------------------------------------------------------------------------
(* REPLACE_HEAT_ROSTER of the final (Round One rosters are editable only     *)
(* before this module's events).  Who is eligible is read in the preflight;  *)
(* the batch pins the final's revision, which promotions do not move.        *)

Finalists == {r \in Racers : /\ reg[r] = "ACTIVE" /\ held[r]
                             /\ \E h \in RoundOne : /\ status[h] = "FINALIZED"
                                                    /\ r \in Winners(h)}

\* The director lists finalists in any order; they take slots 1, 2, ...
Lineups ==
  {[r \in Racers |-> IF r \in Finalists THEN place[r] ELSE 0] : place \in
     {p \in [Finalists -> 0..Cardinality(Finalists)] :
        LET listed == {r \in Finalists : p[r] > 0}
        IN listed # {} /\ {p[r] : r \in listed} = 1..Cardinality(listed)}}

RosterBegin(c) ==
  /\ MayReplaceRoster
  /\ req[c] = Idle
  /\ status[Final] = "PLANNED" /\ evStatus = "ROUND_ONE"
  /\ \E slots \in Lineups :
       req' = [req EXCEPT ![c] = [op |-> "roster", slots |-> slots]]
  /\ UNCHANGED <<roundVars, rosterVars, racerVars, resultVars>>

\* All rows are deleted and written anew: the entry a reopen or a correction
\* found in its preflight is gone, even when its racer is listed again.
RosterCommit(c) ==
  /\ req[c].op = "roster"
  /\ status[Final] = "PLANNED" /\ evStatus = "ROUND_ONE"
  /\ finalSlot' = req[c].slots
  /\ req' = [d \in Clients |->
               IF d \in OnRoster THEN Idle
               ELSE IF req[d].op \in {"reopen", "correct"}
                    THEN [req[d] EXCEPT !.entry = FALSE]
                    ELSE req[d]]
  /\ UNCHANGED <<roundVars, heatOf, racerVars, resultVars>>

-----------------------------------------------------------------------------
(* Participants.                                                             *)

\* CREATE_STAFF_REGISTRATION while a heat has never started.
CreateWalkUp(r) ==
  /\ reg[r] = "ABSENT"
  /\ evStatus = "ROUND_ONE" /\ Unstarted # {}
  /\ reg' = [reg EXCEPT ![r] = "SUBMITTED"]
  /\ UNCHANGED <<roundVars, rosterVars, duck, held, resultVars, req>>

\* WITHDRAW_REGISTRATION, DISQUALIFY_REGISTRATION.
Leave(r) ==
  /\ r \in MayLeave
  /\ reg[r] \in {"SUBMITTED", "ACTIVE"}
  /\ reg' = [reg EXCEPT ![r] = "OUT"]
  /\ UNCHANGED <<roundVars, rosterVars, duck, held, resultVars, req>>

\* REACTIVATE_REGISTRATION.  Which status to restore is decided by the duck the
\* preflight saw; the batch pins the registration, not the assignment.
ReactivateBegin(c, r) ==
  /\ req[c] = Idle
  /\ r \in MayLeave
  /\ reg[r] = "OUT"
  /\ req' = [req EXCEPT ![c] = [op |-> "reactivate", racer |-> r,
                                target |-> IF held[r] THEN "ACTIVE"
                                                      ELSE "SUBMITTED"]]
  /\ UNCHANGED <<roundVars, rosterVars, racerVars, resultVars>>

ReactivateCommit(c) ==
  /\ req[c].op = "reactivate"
  /\ LET r == req[c].racer IN
     /\ reg[r] = "OUT"
     /\ reg' = [reg EXCEPT ![r] = req[c].target]
     /\ req' = Lapse(OnRegistration(r))
  /\ UNCHANGED <<roundVars, rosterVars, duck, held, resultVars>>

\* DELETE_REGISTRATION: only a racer never paired and on no roster.
DeleteRegistration(r) ==
  /\ reg[r] \in {"SUBMITTED", "OUT"}
  /\ duck[r] = 0 /\ heatOf[r] = NoHeat
  /\ reg' = [reg EXCEPT ![r] = "DELETED"]
  /\ req' = Lapse(OnRegistration(r))
  /\ UNCHANGED <<roundVars, rosterVars, duck, held, resultVars>>

-----------------------------------------------------------------------------
(* Ducks.                                                                    *)

\* DELETE_DUCK of a duck in use, unless a heat of its racer has been run and
\* its result is not published yet.
DeleteDuck(r) ==
  /\ r \in MayLoseDuck
  /\ held[r]
  /\ \A h \in Heats : r \in Roster(h) => status[h] \notin InFlight
  /\ held' = [held EXCEPT ![r] = FALSE]
  /\ reg' = [reg EXCEPT ![r] = IF @ = "ACTIVE" THEN "SUBMITTED" ELSE @]
  /\ UNCHANGED <<roundVars, rosterVars, duck, resultVars, req>>

\* EMERGENCY_REPLACE_DUCK: every revision involved is pinned by the batch.
ReplaceDuck(r) ==
  /\ r \in MayLoseDuck
  /\ duck[r] < MaxDuck
  /\ reg[r] = "ACTIVE" /\ held[r]
  /\ IF evStatus = "FINAL" THEN finalSlot[r] > 0 ELSE heatOf[r] # NoHeat
  /\ duck' = [duck EXCEPT ![r] = @ + 1]
  /\ UNCHANGED <<roundVars, rosterVars, reg, held, resultVars, req>>

\* DELETE_DUCK of a duck no longer in use.  A duck no published or superseded
\* result names is erased with its assignments, and a recorded result that
\* names one of those goes with it (foreign key ON DELETE CASCADE).
EraseOldDuck(h) ==
  /\ \E row \in pending[h] :
       /\ ~(held[row.racer] /\ duck[row.racer] = row.duck)
       /\ row \notin history \cup UNION {published[x] : x \in RoundOne}
       /\ pending' = [pending EXCEPT ![h] = @ \ {row}]
  /\ UNCHANGED <<roundVars, rosterVars, racerVars, published, history, req>>

\* ASSIGN_DUCK at the pairing desk.  The preflight chooses the heat: none when
\* the racer already has a place, else the first never-started heat with room,
\* else a new one.
HeatWithRoom == {h \in Unstarted : HasRoom(h)}
FirstWithRoom(h) == h \in HeatWithRoom /\ \A x \in HeatWithRoom : h <= x
NextHeat(h) == h - 1 \in Planned \cup {0} /\ \A x \in Planned : x < h

PairBegin(c, r) ==
  /\ req[c] = Idle
  /\ reg[r] = "SUBMITTED" /\ ~held[r]
  /\ duck[r] < MaxDuck
  /\ \/ /\ heatOf[r] # NoHeat
        /\ req' = [req EXCEPT ![c] = [op |-> "pair", racer |-> r,
                                      heat |-> NoHeat, new |-> FALSE]]
     \/ /\ heatOf[r] = NoHeat /\ evStatus = "ROUND_ONE"
        /\ \E h \in RoundOne :
             /\ FirstWithRoom(h)
             /\ req' = [req EXCEPT ![c] = [op |-> "pair", racer |-> r,
                                           heat |-> h, new |-> FALSE]]
     \/ /\ heatOf[r] = NoHeat /\ evStatus = "ROUND_ONE"
        /\ HeatWithRoom = {} /\ Unstarted # {}
        /\ Cardinality(Planned) < FinalCapacity
        /\ \E h \in RoundOne :
             /\ NextHeat(h)
             /\ req' = [req EXCEPT ![c] = [op |-> "pair", racer |-> r,
                                           heat |-> h, new |-> TRUE]]
  /\ UNCHANGED <<roundVars, rosterVars, racerVars, resultVars>>

\* The batch checks the heat again, but of the racer only that the registration
\* still exists and holds no duck: it sets ACTIVE whatever the status has become.
PairCommit(c) ==
  /\ req[c].op = "pair"
  /\ LET r == req[c].racer
         h == req[c].heat
     IN
     /\ reg[r] # "DELETED" /\ ~held[r]
     /\ duck[r] < MaxDuck
     /\ \/ h = NoHeat /\ UNCHANGED <<status, heatOf>>
        \/ /\ h # NoHeat /\ evStatus = "ROUND_ONE" /\ heatOf[r] = NoHeat
           /\ IF req[c].new
              THEN /\ status[h] = "NONE" /\ Unstarted # {}
                   /\ Cardinality(Planned) < FinalCapacity
                   /\ status' = [status EXCEPT ![h] = "LOADING"]
              ELSE NeverStarted(h) /\ UNCHANGED status
           /\ HasRoom(h)
           /\ heatOf' = [heatOf EXCEPT ![r] = h]
     /\ reg' = [reg EXCEPT ![r] = "ACTIVE"]
     /\ held' = [held EXCEPT ![r] = TRUE]
     /\ duck' = [duck EXCEPT ![r] = @ + 1]
     /\ req' = Lapse({c} \cup OnRegistration(r) \cup OnHeat(h))
  /\ UNCHANGED <<evStatus, started, finalSlot, resultVars>>

-----------------------------------------------------------------------------
\* START_FINAL, with the lock of the final's roster.
StartFinal ==
  /\ evStatus = "ROUND_ONE"
  /\ \E h \in RoundOne : status[h] = "FINALIZED"
  /\ \A h \in Planned : status[h] \in Settled
  /\ \A h \in Planned : status[h] = "FINALIZED" => published[h] # {}
  /\ Roster(Final) # {}
  /\ status[Final] \in {"PLANNED", "LOADING", "READY"}
  /\ Eligible(Final) # {}
  /\ evStatus' = "FINAL"
  /\ status' = [status EXCEPT ![Final] = IF @ = "PLANNED" THEN "LOADING" ELSE @]
  /\ req' = IF status[Final] = "PLANNED" THEN Moved(Final) ELSE req
  /\ UNCHANGED <<started, rosterVars, racerVars, resultVars>>

\* The batch is refused, or the worker never gets to it.
Abandon(c) ==
  /\ req[c] # Idle
  /\ req' = Lapse({c})
  /\ UNCHANGED <<roundVars, rosterVars, racerVars, resultVars>>

RunHeats == \E h \in Heats : Ready(h) \/ Call(h) \/ Start(h) \/ Finish(h) \/ Reset(h)
Results ==
  \/ \E h \in RoundOne, r \in Racers : Record(h, r)
  \/ \E c \in Clients, h \in RoundOne : AnnounceBegin(c, h) \/ ReopenBegin(c, h)
  \/ \E c \in Clients, h \in RoundOne, r \in Racers : CorrectBegin(c, h, r)
  \/ \E c \in Clients : AnnounceCommit(c) \/ ReopenCommit(c) \/ CorrectCommit(c)
Settle == \E h \in RoundOne : Skip(h) \/ Uncontested(h)
ReplaceRoster == \E c \in Clients : RosterBegin(c) \/ RosterCommit(c)
Participants ==
  \/ \E r \in Racers : CreateWalkUp(r) \/ Leave(r) \/ DeleteRegistration(r)
  \/ \E c \in Clients : ReactivateCommit(c) \/ \E r \in Racers : ReactivateBegin(c, r)
Ducks ==
  \/ \E r \in Racers : DeleteDuck(r) \/ ReplaceDuck(r)
  \/ \E h \in RoundOne : EraseOldDuck(h)
  \/ \E c \in Clients : PairCommit(c) \/ \E r \in Racers : PairBegin(c, r)

Next == \/ RunHeats \/ Results \/ Settle \/ ReplaceRoster \/ Participants
        \/ Ducks \/ StartFinal \/ \E c \in Clients : Abandon(c)

Spec == Init /\ [][Next]_vars

-----------------------------------------------------------------------------
(* Properties.                                                               *)

\* Every variable has its type.
TypeOK ==
  /\ evStatus \in {"ROUND_ONE", "FINAL"}
  /\ status \in [Heats -> HeatStatus]
  /\ started \in [Heats -> BOOLEAN]
  /\ heatOf \in [Racers -> RoundOne \cup {NoHeat}]
  /\ finalSlot \in [Racers -> Nat]
  /\ reg \in [Racers -> RegStatus]
  /\ duck \in [Racers -> Nat]
  /\ held \in [Racers -> BOOLEAN]
  /\ pending \in [RoundOne -> SUBSET Result]
  /\ published \in [RoundOne -> SUBSET Result]
  /\ history \in SUBSET Result
  /\ req \in [Clients -> Requests]

\* At most one heat of the whole event is on the water, whatever order the
\* start line, the finish line and the directors' resets and reopens come in.
OneHeatRunning ==
  \A g, h \in Heats : status[g] = "RUNNING" /\ status[h] = "RUNNING" => g = h

\* While a heat is on the water every racer of its roster holds a duck: the
\* start checks it and no duck may be deleted before the result (deleteDuck).
EveryoneAfloat ==
  \A h \in Heats : status[h] = "RUNNING" => \A r \in Roster(h) : held[r]

Account(h) ==
  /\ status[h] = "AWAITING_RESULT"
       => published[h] = {} /\ \A x, y \in pending[h] : x = y
  /\ status[h] = "FINALIZED"
       => pending[h] = {} /\ \E row \in published[h] : published[h] = {row}
  /\ status[h] \notin {"AWAITING_RESULT", "FINALIZED"}
       => pending[h] = {} /\ published[h] = {}

\* A heat keeps at most one account of its finish: a recorded winner only while
\* it awaits the announcement, a published one exactly when it is finalized.
OneAccountPerHeat == \A h \in RoundOne : Account(h)

\* Once the event is in FINAL the round is over for good: every heat is settled
\* and the final has left its editable plan (START_FINAL, REOPEN_HEAT_RESULT).
FinalAfterRound ==
  evStatus = "FINAL" =>
    /\ \A h \in Planned : status[h] \in {"FINALIZED", "CANCELLED"}
    /\ status[Final] \notin {"NONE", "PLANNED"}

\* No interleaving of pairings, announcements and settlements overfills a heat,
\* plans more heats than the final can hold winners, or overfills the final.
WithinCapacity ==
  /\ \A h \in RoundOne : \/ Roster(h) = InitialRoster(h)
                          \/ Cardinality(Roster(h)) <= HeatCapacity
  /\ Cardinality(Planned) <= FinalCapacity
  /\ FinalSize <= FinalCapacity

\* A result becomes official only for a racer of that heat who, at that very
\* step, is eligible and holds the duck the result names.
OnlyEligibleWinners ==
  [][\A h \in RoundOne : \A row \in published[h]' \ published[h] :
       /\ row.racer \in Roster(h) /\ reg[row.racer] = "ACTIVE"
       /\ held[row.racer] /\ duck[row.racer] = row.duck]_vars

\* No official result is ever lost: what a step takes from the published
\* results it leaves in the history.
ResultsAreKept ==
  [][\A h \in RoundOne : published[h] \ published[h]' \subseteq history']_vars

\* A locked final roster changes only by the correction of a Round One winner,
\* before READY: one finalist for another, in the same slot.
LockedFinalRoster ==
  [][status[Final] \notin {"NONE", "PLANNED"} /\ finalSlot' # finalSlot =>
       /\ status[Final] = "LOADING"
       /\ \E old \in Roster(Final) : \E new \in Racers \ Roster(Final) :
            finalSlot' = [finalSlot EXCEPT ![old] = 0, ![new] = finalSlot[old]]]_vars

\* A walk-up who waits for a duck and a heat never sees the last never-started
\* heat go: not by a start, not by an automatic settlement.
WalkUpsKeepAHeat ==
  [][Waiting # {} /\ Unstarted # {} => Unstarted' # {}]_vars

\* Where no director replaces the final's roster, it is exactly the published
\* winners, through every announcement, settlement, correction and reopening.
FinalistsAreWinners == Roster(Final) = UNION {Winners(h) : h \in RoundOne}

\* Whoever is back in the pairing queue holds no duck, however reactivations,
\* pairings and deleted ducks overlap.
SubmittedHoldsNoDuck == \A r \in Racers : reg[r] = "SUBMITTED" => ~held[r]

-----------------------------------------------------------------------------
(* What the documentation says and the code does not do.                     *)

\* WORKFLOWS.md: "Slot numbers are always contiguous from one within a heat".
SlotsContiguous == {finalSlot[r] : r \in Roster(Final)} = 1..FinalSize

Reopens(h) == status[h] = "FINALIZED" /\ status'[h] = "AWAITING_RESULT"
Reactivates(r) == reg[r] = "OUT" /\ reg'[r] = "ACTIVE"

\* WORKFLOWS.md: "Reopen is blocked once the final roster is locked or underway."
ReopenOnlyBeforeLock ==
  [][\A h \in RoundOne : Reopens(h) => status[Final] = "PLANNED"]_vars

\* WORKFLOWS.md: reactivation returns to "`ACTIVE` when it still has a current
\* duck assignment, otherwise to `SUBMITTED`".
ActiveHoldsDuck ==
  [][\A r \in Racers : Reactivates(r) => held'[r]]_vars

\* WORKFLOWS.md: "Pairing changes `SUBMITTED` to `ACTIVE`"; bringing back a
\* racer who left is reactivation, and the race director's.
PairingOnlyOfSubmitted ==
  [][\A r \in Racers : duck'[r] # duck[r] /\ ~held[r] => reg[r] = "SUBMITTED"]_vars
=============================================================================
