----------------------------- MODULE FinalPodium -----------------------------
(* The final heat, from START_FINAL to COMPLETE_EVENT and the corrections    *)
(* after it: scanned places, the recorded podium, its announcement, and what *)
(* racers and ducks do meanwhile.                                            *)
(*                                                                           *)
(* As in RoundOneRace, a command is its guarded batch; one that carries facts *)
(* of its un-locked preflight into the batch is <Command>Begin and           *)
(* <Command>Commit.  The roster is fixed: what may still change it, the      *)
(* correction of a Round One winner before READY, is RoundOneRace's.         *)
EXTENDS Integers, FiniteSets

CONSTANTS
  Racers,        \* the roster of the final
  InitiallyOut,  \* finalists who left before the final was locked
  InitialDuck,   \* each finalist's duck assignment; number 1 won Round One
  MaxDuck,       \* bound: the duck assignments one racer may have
  MaxRevision,   \* bound: results recorded or corrected
  Clients,       \* commands in flight between preflight and batch
  MayLeave,      \* bound: the racers who may be withdrawn
  MayReturn,     \* bound: the racers who may be reactivated
  MayLoseDuck,   \* bound: the racers whose duck may be deleted or replaced
  MayErase,      \* bound: may a duck that is no longer in use be deleted?
  MayCorrect     \* bound: may a director correct a published podium?

ASSUME FinalAssumption ==
  /\ IsFiniteSet(Racers)
  /\ InitiallyOut \subseteq Racers /\ Racers \ InitiallyOut # {}
  /\ MaxDuck \in Nat /\ MaxRevision \in Nat
  /\ InitialDuck \in [Racers -> Nat \ {0}]
  /\ MayErase \in BOOLEAN /\ MayCorrect \in BOOLEAN

VARIABLES
  evStatus,    \* events.status
  status,      \* heats.status of the final
  reg,         \* registrations.status
  duck,        \* serial number of the racer's latest duck assignment
  held,        \* is that assignment still open?
  deleted,     \* the racers' ducks that were deleted, <<racer, number>>
  selections,  \* final_podium_selections
  pending,     \* pending_heat_results
  published,   \* heat_results
  history,     \* heat_result_history
  req          \* the command each client has in flight

raceVars   == <<evStatus, status>>
racerVars  == <<reg, duck, held, deleted>>
resultVars == <<pending, published, history>>
vars == <<raceVars, racerVars, selections, resultVars, req>>

-----------------------------------------------------------------------------
(* The data.                                                                 *)

FinalPodiumDepth == 3
Places == 1..FinalPodiumDepth

\* A racer in a place, with the duck assignment that finished there; a result
\* carries the revision it was recorded under.
Choice == [racer : Racers, place : Places, duck : Nat]
Result == [racer : Racers, place : Places, duck : Nat, rev : Nat]
Row(r, p) == [racer |-> r, place |-> p, duck |-> duck[r]]
Stamp(row, n) == [racer |-> row.racer, place |-> row.place,
                  duck |-> row.duck, rev |-> n]

HeatStatus == {"LOADING", "READY", "CALLING", "RUNNING", "AWAITING_RESULT",
               "FINALIZED"}
RegStatus == {"SUBMITTED", "ACTIVE", "OUT"}

Idle == [op |-> "idle"]
Requests ==
  [op : {"idle", "announce"}]
    \cup [op : {"scan"}, row : Choice, carried : SUBSET Choice, last : BOOLEAN]
    \cup [op : {"record", "correct"}, rows : (SUBSET Choice) \ {{}}]
    \cup [op : {"reactivate"}, racer : Racers, target : {"SUBMITTED", "ACTIVE"}]
    \cup [op : {"pair"}, racer : Racers]

Eligible == {r \in Racers : reg[r] = "ACTIVE"}

\* Mutant: the podium is sized by the whole roster.
Depth_WholeRoster == IF Cardinality(Racers) < FinalPodiumDepth
                     THEN Cardinality(Racers) ELSE FinalPodiumDepth

\* How many places this final has, as of now.
Depth == IF Cardinality(Eligible) < FinalPodiumDepth
         THEN Cardinality(Eligible) ELSE FinalPodiumDepth

\* The row still describes an eligible racer and the duck they hold.
Current(row) == /\ reg[row.racer] = "ACTIVE"
                /\ held[row.racer]
                /\ duck[row.racer] = row.duck

\* The places a scanning station sees as taken: a selection holds nothing when
\* its racer has left or its place is deeper than the podium still is.
Visible == {s \in selections : reg[s.racer] = "ACTIVE" /\ s.place <= Depth}
OpenPlaces == {p \in Places : p <= Depth} \ {s.place : s \in Visible}
HasPlace(r) == \E s \in Visible : s.racer = r

\* A whole podium, of eligible racers who all hold a duck.
Podiums ==
  {{Row(order[p], p) : p \in 1..Depth} : order \in
     {f \in [1..Depth -> {r \in Eligible : held[r]}] :
        \A p, q \in 1..Depth : f[p] = f[q] => p = q}}

Placing(rows) == {<<row.racer, row.place>> : row \in rows}
RowsOf(r, d, rows) == {row \in rows : row.racer = r /\ row.duck = d}

\* The next result revision: one more than any result of this heat had.
NextRevision(n) == /\ n - 1 \in {row.rev : row \in history \cup published} \cup {0}
                   /\ \A row \in history \cup published : row.rev < n

\* Does an official result, of Round One or of the final, name the duck?
Named(r, d) == d = 1 \/ RowsOf(r, d, history \cup published) # {}

\* A duck a published place names has left the event.
PodiumDuckReleased == \E row \in published : <<row.racer, row.duck>> \in deleted

(* Refused requests: see RoundOneRace.                                       *)
Lapse(S) == [c \in Clients |-> IF c \in S THEN Idle ELSE req[c]]
OnHeat == {c \in Clients : req[c].op \in {"scan", "record", "announce", "correct"}}
Moved == Lapse(OnHeat)
OnRegistration(r) == {c \in Clients : /\ req[c].op = "reactivate"
                                      /\ req[c].racer = r}

-----------------------------------------------------------------------------
Init ==
  /\ evStatus = "FINAL"
  /\ status = "LOADING"
  /\ reg = [r \in Racers |-> IF r \in InitiallyOut THEN "OUT" ELSE "ACTIVE"]
  /\ duck = InitialDuck
  /\ held = [r \in Racers |-> TRUE]
  /\ deleted = {}
  /\ selections = {}
  /\ pending = {} /\ published = {} /\ history = {}
  /\ req = [c \in Clients |-> Idle]

-----------------------------------------------------------------------------
(* Running the heat.                                                         *)

Transition(from, to) ==
  /\ status = from /\ evStatus = "FINAL"
  /\ status' = to
  /\ req' = Moved
  /\ UNCHANGED <<evStatus, racerVars, selections, resultVars>>

Ready == Transition("LOADING", "READY")
Call  == Transition("READY", "CALLING")
Start == /\ \A r \in Racers : held[r]
         /\ Eligible # {}
         /\ Transition("CALLING", "RUNNING")
Finish == Transition("RUNNING", "AWAITING_RESULT")

AfterReset == {}

Reset ==
  /\ status \in {"READY", "CALLING", "RUNNING", "AWAITING_RESULT"}
  /\ evStatus = "FINAL" /\ published = {}
  /\ status' = "LOADING"
  /\ pending' = {}
  /\ selections' = AfterReset
  /\ req' = Moved
  /\ UNCHANGED <<evStatus, racerVars, published, history>>

-----------------------------------------------------------------------------
(* RECORD_FINAL_PODIUM_PLACE: a duck's tag is scanned and its place chosen.  *)
(* The preflight builds the podium the scan would complete; if it is the     *)
(* last place, the same command records the whole podium.                    *)

ScanBegin(c, r, p) ==
  LET carried == {Row(s.racer, s.place) : s \in Visible}
      last    == Cardinality(carried) + 1 = Depth
  IN
  /\ req[c] = Idle
  /\ status = "AWAITING_RESULT" /\ evStatus = "FINAL" /\ pending = {}
  /\ r \in Eligible /\ held[r]
  /\ ~HasPlace(r) /\ p \in OpenPlaces
  /\ last => \A s \in Visible : held[s.racer]
  /\ req' = [req EXCEPT ![c] = [op |-> "scan", row |-> Row(r, p),
                                carried |-> carried, last |-> last]]
  /\ UNCHANGED <<raceVars, racerVars, selections, resultVars>>

\* Mutant: a racer who left keeps the place.
PlaceIsOpen_Forever(row) == {s \in selections : s.place = row.place} = {}

\* No eligible racer has the place, and the scanned one has no visible place.
PlaceIsOpen(row) ==
  /\ \A s \in selections : s.place = row.place => reg[s.racer] # "ACTIVE"
  /\ \A s \in selections : s.racer = row.racer => s.place > Depth


\* The rows a scan leaves: those hidden under its place or its racer go.
Swept(row) == {s \in selections : s.place # row.place /\ s.racer # row.racer}

ScanAccepted(row, carried) ==
  /\ status = "AWAITING_RESULT" /\ evStatus = "FINAL" /\ pending = {}
  /\ Current(row)
  /\ PlaceIsOpen(row)
  /\ Placing(carried) \subseteq Placing(selections)

AfterRecord == {}

ScanCommit(c) ==
  /\ req[c].op = "scan"
  /\ ScanAccepted(req[c].row, req[c].carried)
  /\ LET row  == req[c].row
         rows == req[c].carried \cup {row}
     IN
     \/ /\ ~req[c].last
        /\ row.place <= Depth
        /\ selections' = Swept(row) \cup {row}
        /\ UNCHANGED pending
     \/ /\ req[c].last
        /\ Cardinality(rows) = Depth
        /\ \A x \in rows : Current(x)
        /\ \E n \in 1..MaxRevision : /\ NextRevision(n)
                                     /\ pending' = {Stamp(x, n) : x \in rows}
        /\ selections' = AfterRecord
  /\ req' = Moved
  /\ UNCHANGED <<raceVars, racerVars, published, history>>

\* CLEAR_FINAL_PODIUM_PLACE: keyed by the place and the duck standing in it.
ClearPlace(s) ==
  /\ status = "AWAITING_RESULT" /\ evStatus = "FINAL"
  /\ s \in selections
  /\ selections' = selections \ {s}
  /\ req' = Moved
  /\ UNCHANGED <<raceVars, racerVars, resultVars>>

-----------------------------------------------------------------------------
(* RECORD_HEAT_RESULT: the podium is entered whole, at the finish line or in *)
(* the console.  Its depth is checked in the preflight only.                 *)

RecordBegin(c) ==
  /\ req[c] = Idle
  /\ status = "AWAITING_RESULT" /\ evStatus = "FINAL" /\ pending = {}
  /\ Depth > 0
  /\ \E rows \in Podiums : req' = [req EXCEPT ![c] = [op |-> "record", rows |-> rows]]
  /\ UNCHANGED <<raceVars, racerVars, selections, resultVars>>

RecordCommit(c) ==
  /\ req[c].op = "record"
  /\ status = "AWAITING_RESULT" /\ evStatus = "FINAL" /\ pending = {}
  /\ \A x \in req[c].rows : Current(x)
  /\ \E n \in 1..MaxRevision : /\ NextRevision(n)
                               /\ pending' = {Stamp(x, n) : x \in req[c].rows}
  /\ selections' = AfterRecord
  /\ req' = Moved
  /\ UNCHANGED <<raceVars, racerVars, published, history>>

\* CONFIRM_WINNER_ANNOUNCEMENT.  The batch publishes the rows the preflight
\* read, as far as they are still there; none can have come in between.
InOrder(rows) == {row.place : row \in rows} = 1..Cardinality(rows)

AnnounceBegin(c) ==
  /\ req[c] = Idle
  /\ status = "AWAITING_RESULT"
  /\ pending # {} /\ InOrder(pending)
  /\ \A row \in pending : Current(row)
  /\ req' = [req EXCEPT ![c] = [op |-> "announce"]]
  /\ UNCHANGED <<raceVars, racerVars, selections, resultVars>>

Announceable == /\ Cardinality(pending) = Depth
                /\ \A row \in pending : Current(row)

AnnounceCommit(c) ==
  /\ req[c].op = "announce"
  /\ status = "AWAITING_RESULT" /\ evStatus = "FINAL"
  /\ Announceable
  /\ published' = pending
  /\ pending' = {}
  /\ status' = "FINALIZED"
  /\ req' = Moved
  /\ UNCHANGED <<evStatus, racerVars, selections, history>>

-----------------------------------------------------------------------------
(* Corrections.                                                              *)

Supersede == history \cup published

\* REOPEN_HEAT_RESULT.
Reopen ==
  /\ MayCorrect
  /\ status = "FINALIZED" /\ published # {}
  /\ ~PodiumDuckReleased
  /\ history' = Supersede
  /\ published' = {}
  /\ status' = "AWAITING_RESULT"
  /\ evStatus' = "FINAL"
  /\ req' = Moved
  /\ UNCHANGED <<racerVars, selections, pending>>

\* CORRECT_HEAT_RESULT.  The batch checks the racers and their ducks again, not
\* how many places the final has by then.
CorrectBegin(c) ==
  /\ MayCorrect
  /\ req[c] = Idle
  /\ status = "FINALIZED" /\ published # {}
  /\ ~PodiumDuckReleased
  /\ Depth > 0
  /\ \E rows \in Podiums :
       /\ Placing(rows) # Placing(published)
       /\ req' = [req EXCEPT ![c] = [op |-> "correct", rows |-> rows]]
  /\ UNCHANGED <<raceVars, racerVars, selections, resultVars>>

CorrectCommit(c) ==
  /\ req[c].op = "correct"
  /\ status = "FINALIZED"
  /\ ~PodiumDuckReleased
  /\ \A x \in req[c].rows : Current(x)
  /\ history' = Supersede
  /\ \E n \in 1..MaxRevision : /\ NextRevision(n)
                               /\ published' = {Stamp(x, n) : x \in req[c].rows}
  /\ req' = Moved
  /\ UNCHANGED <<raceVars, racerVars, selections, pending>>

Completable == Cardinality(published) >= Depth

\* COMPLETE_EVENT.
Complete ==
  /\ evStatus = "FINAL" /\ status = "FINALIZED"
  /\ Completable
  /\ evStatus' = "COMPLETED"
  /\ UNCHANGED <<status, racerVars, selections, resultVars, req>>

-----------------------------------------------------------------------------
(* Racers and ducks (see RoundOneRace).                                      *)

Leave(r) ==
  /\ r \in MayLeave
  /\ evStatus = "FINAL"
  /\ reg[r] \in {"SUBMITTED", "ACTIVE"}
  /\ reg' = [reg EXCEPT ![r] = "OUT"]
  /\ UNCHANGED <<raceVars, duck, held, deleted, selections, resultVars, req>>

ReactivateBegin(c, r) ==
  /\ req[c] = Idle
  /\ r \in MayReturn
  /\ evStatus = "FINAL" /\ reg[r] = "OUT"
  /\ req' = [req EXCEPT ![c] = [op |-> "reactivate", racer |-> r,
                                target |-> IF held[r] THEN "ACTIVE"
                                                      ELSE "SUBMITTED"]]
  /\ UNCHANGED <<raceVars, racerVars, selections, resultVars>>

ReactivateCommit(c) ==
  /\ req[c].op = "reactivate"
  /\ LET r == req[c].racer IN
     /\ evStatus = "FINAL" /\ reg[r] = "OUT"
     /\ reg' = [reg EXCEPT ![r] = req[c].target]
     /\ req' = Lapse(OnRegistration(r))
  /\ UNCHANGED <<raceVars, duck, held, deleted, selections, resultVars>>

\* DELETE_DUCK of a duck in use.
DeleteDuck(r) ==
  /\ r \in MayLoseDuck
  /\ evStatus = "FINAL"
  /\ held[r]
  /\ status \notin {"RUNNING", "AWAITING_RESULT"}
  /\ held' = [held EXCEPT ![r] = FALSE]
  /\ reg' = [reg EXCEPT ![r] = IF @ = "ACTIVE" THEN "SUBMITTED" ELSE @]
  /\ deleted' = deleted \cup {<<r, duck[r]>>}
  /\ UNCHANGED <<raceVars, duck, selections, resultVars, req>>

\* DELETE_DUCK of a replaced duck.  One that no official result names is erased
\* with its assignments, and a recorded place that names one of them goes too
\* (foreign key ON DELETE CASCADE).
DeleteOldDuck(r, d) ==
  /\ MayErase /\ r \in MayLoseDuck
  /\ evStatus = "FINAL"
  /\ d < duck[r] /\ d >= InitialDuck[r] /\ <<r, d>> \notin deleted
  /\ deleted' = deleted \cup {<<r, d>>}
  /\ pending' = IF Named(r, d) THEN pending ELSE pending \ RowsOf(r, d, pending)
  /\ selections' = IF Named(r, d) THEN selections
                                  ELSE selections \ RowsOf(r, d, selections)
  /\ UNCHANGED <<raceVars, reg, duck, held, published, history, req>>

\* Mutant: a scanned place keeps naming the duck that was replaced.
Follow_Not(r, d) == selections
Follow(r, d) == (selections \ RowsOf(r, duck[r], selections))
                  \cup {[s EXCEPT !.duck = d] : s \in RowsOf(r, duck[r], selections)}

\* EMERGENCY_REPLACE_DUCK.
ReplaceDuck(r) ==
  /\ r \in MayLoseDuck
  /\ duck[r] < MaxDuck
  /\ evStatus = "FINAL" /\ reg[r] = "ACTIVE" /\ held[r]
  /\ duck' = [duck EXCEPT ![r] = @ + 1]
  /\ selections' = Follow(r, duck[r] + 1)
  /\ UNCHANGED <<raceVars, reg, held, deleted, resultVars, req>>

\* ASSIGN_DUCK for a finalist whose duck was deleted.  The batch asks neither
\* for the event's status nor for the registration's.
PairBegin(c, r) ==
  /\ req[c] = Idle
  /\ evStatus = "FINAL"
  /\ reg[r] = "SUBMITTED" /\ ~held[r]
  /\ req' = [req EXCEPT ![c] = [op |-> "pair", racer |-> r]]
  /\ UNCHANGED <<raceVars, racerVars, selections, resultVars>>

PairCommit(c) ==
  /\ req[c].op = "pair"
  /\ LET r == req[c].racer IN
     /\ ~held[r]
     /\ duck[r] < MaxDuck
     /\ reg' = [reg EXCEPT ![r] = "ACTIVE"]
     /\ held' = [held EXCEPT ![r] = TRUE]
     /\ duck' = [duck EXCEPT ![r] = @ + 1]
     /\ req' = Lapse({c} \cup OnRegistration(r))
  /\ UNCHANGED <<raceVars, deleted, selections, resultVars>>

\* The batch is refused, or the worker never gets to it.
Abandon(c) ==
  /\ req[c] # Idle
  /\ req' = Lapse({c})
  /\ UNCHANGED <<raceVars, racerVars, selections, resultVars>>

RunHeat == Ready \/ Call \/ Start \/ Finish \/ Reset
Scanning == \/ \E c \in Clients, r \in Racers, p \in Places : ScanBegin(c, r, p)
            \/ \E c \in Clients : ScanCommit(c)
            \/ \E s \in selections : ClearPlace(s)
Recording == \E c \in Clients : \/ RecordBegin(c) \/ RecordCommit(c)
                                \/ AnnounceBegin(c) \/ AnnounceCommit(c)
Correcting == Reopen \/ \E c \in Clients : CorrectBegin(c) \/ CorrectCommit(c)
Participants ==
  \/ \E r \in Racers : Leave(r)
  \/ \E c \in Clients : ReactivateCommit(c) \/ \E r \in Racers : ReactivateBegin(c, r)
Ducks ==
  \/ \E r \in Racers : DeleteDuck(r) \/ ReplaceDuck(r)
  \/ \E r \in Racers, d \in 1..MaxDuck : DeleteOldDuck(r, d)
  \/ \E c \in Clients : PairCommit(c) \/ \E r \in Racers : PairBegin(c, r)

Next == \/ RunHeat \/ Scanning \/ Recording \/ Correcting \/ Complete
        \/ Participants \/ Ducks \/ \E c \in Clients : Abandon(c)

Spec == Init /\ [][Next]_vars

-----------------------------------------------------------------------------
(* Properties.                                                               *)

\* Every variable has its type.
TypeOK ==
  /\ evStatus \in {"FINAL", "COMPLETED"}
  /\ status \in HeatStatus
  /\ reg \in [Racers -> RegStatus]
  /\ duck \in [Racers -> Nat]
  /\ held \in [Racers -> BOOLEAN]
  /\ deleted \subseteq Racers \X Nat
  /\ selections \subseteq Choice
  /\ pending \subseteq Result /\ published \subseteq Result /\ history \subseteq Result
  /\ req \in [Clients -> Requests]

\* The final keeps one account of its finish: scanned places only until a podium
\* is recorded, a recorded one only until it is announced, an official one
\* exactly when the heat is finalized; no leftover contradicts the next one.
OneAccount ==
  /\ selections # {} => status = "AWAITING_RESULT" /\ pending = {}
  /\ pending # {} => status = "AWAITING_RESULT"
  /\ published # {} => status = "FINALIZED"

\* A scanned place names the duck its racer holds now, whatever was replaced,
\* deleted or paired since the scan.
SelectionsFollowDucks ==
  \A s \in selections : held[s.racer] /\ duck[s.racer] = s.duck

\* A station is never offered a place that the scan would then be refused: what
\* the read shows as open, the guarded command takes (finalPodiumState against
\* scannedPodiumPlaceOpenSql, which must hide the same rows).
OfferedPlacesAreAccepted ==
  status = "AWAITING_RESULT" /\ pending = {} =>
    \A r \in Eligible : held[r] /\ ~HasPlace(r) =>
      \A p \in OpenPlaces : ScanAccepted(Row(r, p), Visible)

\* While the final waits for its result nobody is shut out: either every place
\* is taken and the podium can be recorded as it stands, or some eligible racer
\* without a place can still be scanned into an open one.
PodiumCanBeFinished ==
  status = "AWAITING_RESULT" /\ pending = {} /\ Eligible # {} =>
    \/ Cardinality(Visible) = Depth /\ InOrder(Visible)
    \/ OpenPlaces # {} /\ \E r \in Eligible : ~HasPlace(r)

\* A racer whose duck was scanned into a place never loses it to another scan,
\* however stale the page behind that scan was: only clearing the place, the end
\* of the wait, or a racer's leaving takes it away.
NoPlaceIsTakenAway ==
  [][\A s \in Visible :
       \/ \E t \in Visible' : t.racer = s.racer /\ t.place = s.place
       \/ Placing(selections') = Placing(selections) \ {<<s.racer, s.place>>}
       \/ status' # "AWAITING_RESULT" \/ pending' # {}
       \/ \E r \in Racers : reg[r] = "ACTIVE" /\ reg'[r] # "ACTIVE"]_vars

\* A place becomes official only for a finalist who, at that very step, is
\* eligible and holds the duck the result names.
OnlyEligiblePlaces ==
  [][\A row \in published' \ published :
       /\ reg[row.racer] = "ACTIVE"
       /\ held[row.racer] /\ duck[row.racer] = row.duck]_vars

\* No official place is lost: what a step takes from the published podium it
\* leaves in the history.
PodiumsAreKept == [][published \ published' \subseteq history']_vars

\* No result revision serves two podiums: participants are notified once per
\* revision, so a reused one would silence a correction.
RevisionsAreNew ==
  /\ \A x, y \in published : x.rev = y.rev
  /\ \A x \in published \cup pending, y \in history : x.rev > y.rev

\* An announcement publishes exactly as many places as the eligible finalists
\* can fill at that step, whoever left or came back since it was recorded.
AnnouncedInFull ==
  [][status = "AWAITING_RESULT" /\ status' = "FINALIZED"
       => Cardinality(published') = Depth]_vars

-----------------------------------------------------------------------------
(* What the documentation says and the code does not do.                     *)

\* WORKFLOWS.md, of the announcement: it "atomically publishes every required
\* place", 1 to min(3, eligible finalists).
PodiumInOrder ==
  status = "FINALIZED" =>
    /\ published # {} /\ InOrder(published)
    /\ \A x, y \in published : x.racer = y.racer => x = y

\* WORKFLOWS.md: "validateResultSet requires a new or corrected final result to
\* contain exactly places 1 through min(3, eligible final roster size)".
CorrectedInFull ==
  [][status = "FINALIZED" /\ published' # published /\ status' = "FINALIZED"
       => Cardinality(published') = Depth]_vars

\* WORKFLOWS.md, of a podium too short to complete the event: "the remedy is
\* reachable, because a final result can be corrected or reopened"; its released
\* duck stop is scoped "so that this blocker always names a reachable remedy".
RemedyReachable ==
  evStatus = "FINAL" /\ status = "FINALIZED" /\ ~Completable => ~PodiumDuckReleased
=============================================================================
