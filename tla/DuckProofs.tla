------------------------------ MODULE DuckProofs ------------------------------
(* Proofs about DuckProvisioning, for every number of stations, stickers,     *)
(* ducks and takeovers, and about DuckPhotos, for every number of captures,   *)
(* commands, requests and drains, and any number of faults.                   *)
EXTENDS DuckProvisioning, DuckPhotos, WellFoundedInduction, TLAPS

-----------------------------------------------------------------------------
(* The inductive invariants.                                                 *)

Duck == {x \in [at : {"none", "pending", "stock", "gone"}, owner : Stations \cup {None},
                taken : 0..MaxTakeovers, photo : {"none", "PENDING", "READY"}] :
           /\ x.at = "gone" => x.owner = None
           /\ x.photo # "none" => x.at = "stock"}
Record == {p \in [pending : Ducks \cup {None}, wrote : BOOLEAN, confirmed : BOOLEAN,
                  sent : Ducks \cup {None}, photo : Ducks \cup {None}] :
             p.confirmed => p.pending # None /\ p.photo # None}
Jobs == {Idle} \cup [step : {"start"}, sticker : Stickers]
          \cup [step : {"write", "confirm", "commit"}, sticker : Stickers, duck : Ducks]
Takes == {NoTake} \cup [step : {"commit"}, duck : Ducks, seen : {n \in Nat : n < MaxTakeovers}]
           \cup [step : {"answer"}, duck : Ducks]
Recoveries == {NoRecovery} \cup [step : {"asked"}]
                \cup [step : {"answer"}, duck : Ducks, owed : BOOLEAN]

Typed ==
  /\ duck \in [Ducks -> Duck]
  /\ sticker \in [Stickers -> 0..MaxDucks]
  /\ page \in [Stations -> Record]
  /\ job \in [Stations -> Jobs]
  /\ take \in [Stations -> Takes]
  /\ recovery \in [Stations -> Recoveries]
  /\ late \in [Stations -> {"no", "current", "former"}]

\* No sticker is in two hands.
Apart == \A s, t \in Stations :
           s # t /\ job[s] # Idle /\ job[t] # Idle => job[s].sticker # job[t].sticker

\* A takeover excludes a reading, and so do a recovery and an open photo.
TakesAlone == \A s \in Stations : take[s] # NoTake => job[s] = Idle
RecoversAlone == \A s \in Stations : Recovering(s) => job[s] = Idle
\* A write is of the page's record, and what is confirmed is on the sticker.
Works == \A s \in Stations :
  /\ job[s].step = "write" => page[s].pending = job[s].duck
  /\ job[s].step \in {"confirm", "commit"} => sticker[job[s].sticker] = job[s].duck
\* A duck in stock has a sticker that nobody is about to write on.
Overwriting(k) == \E s \in Stations : job[s].step \in {"start", "write"} /\ job[s].sticker = k
Kept(d) == \E k \in Stickers : sticker[k] = d /\ ~Overwriting(k)
StockIsKept == \A d \in Ducks : duck[d].at = "stock" => Kept(d)

-----------------------------------------------------------------------------
(* Operators.                                                                *)

LEMMA OldestIs ==
  ASSUME NEW S \in SUBSET Ducks, S # {}
  PROVE  Oldest(S) \in S
<1>1. S \subseteq Nat
  BY ProvisioningAssumption DEF Ducks
<1> DEFINE Less == OpToRel(<, Nat)
<1>2. IsWellFoundedOn(Less, Nat)
  BY NatLessThanWellFounded
<1>3. \A d, e \in Nat : d < e => <<d, e>> \in Less
  BY DEF OpToRel
<1> HIDE DEF Less
<1>4. \E d \in S : \A e \in S : ~(<<e, d>> \in Less)
  BY <1>1, <1>2, WFMin, Zenon
<1>5. \E d \in S : \A e \in S : d <= e
  <2>1. PICK d \in S : \A e \in S : ~(<<e, d>> \in Less)
    BY <1>4
  <2>2. \A e \in S : ~(e < d)
    BY <1>1, <1>3, <2>1
  <2>3. \A e \in S : d <= e
    BY <1>1, <2>2, SMT
  <2>4. QED
    BY <2>3
<1>6. QED
  BY <1>5 DEF Oldest

LEMMA AdoptIs ==
  ASSUME NEW p \in Record, NEW d \in Ducks
  PROVE  /\ Adopt(p, d) \in Record /\ Adopt(p, d).pending = d
         /\ Adopt(p, d).sent = p.sent /\ Adopt(p, d).photo = p.photo
         /\ p.pending = None => ~Adopt(p, d).wrote
<1>1. d # None
  BY ProvisioningAssumption DEF Ducks
<1>2. CASE p.pending = d
  BY <1>1, <1>2 DEF Adopt, Record
<1>3. CASE p.pending # d
  <2> DEFINE q == [p EXCEPT !.pending = d, !.wrote = FALSE, !.confirmed = FALSE]
  <2>1. Adopt(p, d) = q
    BY <1>3 DEF Adopt
  <2>2. /\ q \in Record /\ q.pending = d /\ q.sent = p.sent
        /\ q.photo = p.photo /\ q.wrote = FALSE
    BY DEF Record
  <2>3. QED
    BY <2>1, <2>2
<1>4. QED
  BY <1>2, <1>3

LEMMA FreshIs ==
  /\ Fresh \in Record /\ Fresh.pending = None /\ Fresh.photo = None
  /\ \A p \in Record : /\ Cleared(p) \in Record /\ Cleared(p).pending = None
                       /\ Cleared(p).photo = p.photo
  BY DEF Fresh, Record, Cleared

LEMMA OpenedIs ==
  ASSUME NEW p \in Record, p.pending # None
  PROVE  Opened(p) \in Record /\ Opened(p).pending = p.pending /\ Opened(p).confirmed
  BY DEF Record, Opened

LEMMA UndoneIs ==
  ASSUME NEW s \in Stations
  PROVE  Undone(s) \in Recoveries
<1>1. CASE Own(s) # {}
  <2>1. Own(s) \in SUBSET Ducks
    BY DEF Own
  <2>2. Oldest(Own(s)) \in Ducks
    BY <1>1, <2>1, OldestIs
  <2>3. QED
    BY <1>1, <2>2 DEF Undone, Recoveries
<1>2. CASE Own(s) = {} /\ Photos(s) # {}
  <2>1. Photos(s) \in SUBSET Ducks
    BY DEF Photos
  <2>2. Oldest(Photos(s)) \in Ducks
    BY <1>2, <2>1, OldestIs
  <2>3. QED
    BY <1>2, <2>2 DEF Undone, Recoveries
<1>3. CASE Own(s) = {} /\ Photos(s) = {}
  BY <1>3 DEF Undone, Recoveries
<1>4. QED
  BY <1>1, <1>2, <1>3

\* An adopted answer opens no photo unless it confirms the record.
LEMMA RecoveredIs ==
  ASSUME NEW p \in Record, NEW r \in Recoveries
  PROVE  /\ Recovered(p, r) \in Record
         /\ p.confirmed \/ ~Recovered(p, r).confirmed => Recovered(p, r).photo = p.photo
<1>1. CASE r.step # "answer"
  BY <1>1 DEF Recovered
<1>2. CASE r.step = "answer"
  <2>1. r.duck \in Ducks /\ r.owed \in BOOLEAN
    BY <1>2 DEF Recoveries, NoRecovery
  <2>2. PICK d \in Ducks : d = r.duck
    BY <2>1
  <2>3. CASE r.owed
    <3> DEFINE q == [p EXCEPT !.pending = d, !.wrote = FALSE]
    <3>1. q \in Record /\ q.pending # None /\ q.photo = p.photo /\ q.confirmed = p.confirmed
      BY ProvisioningAssumption DEF Record, Ducks
    <3>2. Recovered(p, r) = Opened(q)
      BY <1>2, <2>2, <2>3 DEF Recovered
    <3>3. p.confirmed => p.photo # None
      BY DEF Record
    <3> HIDE DEF q
    <3>4. p.photo # None => Opened(q).photo = p.photo
      BY <3>1 DEF Opened, Record
    <3>5. QED
      BY <3>1, <3>2, <3>3, <3>4, OpenedIs
  <2>4. CASE ~r.owed
    BY <1>2, <2>2, <2>4, AdoptIs DEF Recovered
  <2>5. QED
    BY <2>3, <2>4
<1>3. QED
  BY <1>1, <1>2

\* Where a reading goes from the page's record.
FitsRecord(j, p) ==
  /\ j.step = "write" => p.pending = j.duck
  /\ j.step \in {"confirm", "commit"} => sticker[j.sticker] = j.duck

LEMMA AfterIs ==
  ASSUME NEW p \in Record, NEW k \in Stickers
  PROVE  /\ After(p, k) \in Jobs
         /\ After(p, k) # Idle => After(p, k).sticker = k
         /\ FitsRecord(After(p, k), p)
         /\ p.wrote /\ p.pending # None => After(p, k).step \notin {"start", "write"}
<1>1. CASE p.pending = None
  <2>1. After(p, k) = [step |-> "start", sticker |-> k]
    BY <1>1 DEF After
  <2>2. QED
    BY <1>1, <2>1 DEF Jobs, FitsRecord
<1>2. CASE p.pending # None /\ ~p.wrote
  <2>1. After(p, k) = [step |-> "write", sticker |-> k, duck |-> p.pending]
    BY <1>2 DEF After
  <2>2. p.pending \in Ducks
    BY <1>2 DEF Record
  <2>3. QED
    BY <1>2, <2>1, <2>2 DEF Jobs, FitsRecord
<1>3. CASE p.pending # None /\ p.wrote /\ sticker[k] = p.pending
  <2>1. After(p, k) = [step |-> "confirm", sticker |-> k, duck |-> p.pending]
    BY <1>3 DEF After
  <2>2. p.pending \in Ducks
    BY <1>3 DEF Record
  <2>3. QED
    BY <1>3, <2>1, <2>2 DEF Jobs, FitsRecord
<1>4. CASE p.pending # None /\ p.wrote /\ sticker[k] # p.pending
  <2>1. After(p, k) = Idle
    BY <1>4 DEF After
  <2>2. QED
    BY <1>4, <2>1 DEF Jobs, FitsRecord, Idle
<1>5. QED
  BY <1>1, <1>2, <1>3, <1>4 DEF Record

-----------------------------------------------------------------------------
(* What a step does to the ducks.                                            *)

DuckTyped == duck \in [Ducks -> Duck]
Waits(t, d) == Pending(d) /\ duck[d].owner = t /\ duck[d].taken = 0
\* No duck comes to wait for its first write, and none comes into stock.
DucksRest ==
  /\ DuckTyped'
  /\ \A d \in Ducks : duck'[d].at = "stock" => duck[d].at = "stock"
  /\ \A t \in Stations, d \in Ducks : Waits(t, d)' => Waits(t, d)
\* A duck is reserved for a station that has no pending one.
DuckReserved(s) ==
  /\ DuckTyped'
  /\ \A d \in Ducks : duck'[d].at = "stock" => duck[d].at = "stock"
  /\ Own(s) = {}
  /\ \E e \in Ducks : \A t \in Stations, d \in Ducks :
       Waits(t, d)' => Waits(t, d) \/ (t = s /\ d = e)
\* The duck d comes into stock.
DuckStocked(d) ==
  /\ DuckTyped'
  /\ \A e \in Ducks : duck'[e].at = "stock" => duck[e].at = "stock" \/ e = d
  /\ \A t \in Stations, e \in Ducks : Waits(t, e)' => Waits(t, e)

LEMMA DucksStay == ASSUME DuckTyped, duck' = duck PROVE DucksRest
  BY DEF DuckTyped, Ducks, Duck, DucksRest, Waits, Pending

LEMMA DuckSet ==
  ASSUME DuckTyped, NEW d \in Ducks, NEW x \in Duck, duck' = [duck EXCEPT ![d] = x]
  PROVE  DuckTyped' /\ duck'[d] = x /\ \A e \in Ducks : e # d => duck'[e] = duck[e]
  BY DEF DuckTyped, Ducks, Duck

\* A duck becomes x, which is no new duck to be written.
LEMMA DuckBecomes ==
  ASSUME DuckTyped, NEW d \in Ducks, NEW x \in Duck, duck' = [duck EXCEPT ![d] = x],
         x.at # "pending" \/ x.taken # 0, x.at = "stock" => duck[d].at = "stock"
  PROVE  DucksRest
<1>1. DuckTyped' /\ duck'[d] = x /\ \A e \in Ducks : e # d => duck'[e] = duck[e]
  BY DuckSet
<1>2. QED
  BY <1>1 DEF DucksRest, Waits, Pending

LEMMA DuckIsStocked ==
  ASSUME DuckTyped, NEW d \in Ducks, NEW x \in Duck, duck' = [duck EXCEPT ![d] = x],
         x.at # "pending" \/ x.taken # 0
  PROVE  DuckStocked(d)
<1>1. DuckTyped' /\ duck'[d] = x /\ \A e \in Ducks : e # d => duck'[e] = duck[e]
  BY DuckSet
<1>2. QED
  BY <1>1 DEF DuckStocked, Waits, Pending

LEMMA UnbornIs ==
  /\ Unborn.at = "none" /\ Unborn.taken = 0 /\ Unborn.photo = "none"
  /\ [Unborn EXCEPT !.at = "gone"] \in Duck /\ [Unborn EXCEPT !.at = "gone"].at = "gone"
  /\ Unborn \in Duck
  /\ \A s \in Stations : [Unborn EXCEPT !.at = "pending", !.owner = s] \in Duck
<1>1. 0 \in 0..MaxTakeovers
  BY ProvisioningAssumption
<1>2. Unborn \in Duck /\ Unborn.at = "none" /\ Unborn.taken = 0 /\ Unborn.photo = "none"
  BY <1>1 DEF Unborn, Duck
<1>3. [Unborn EXCEPT !.at = "gone"] = [at |-> "gone", owner |-> None, taken |-> 0, photo |-> "none"]
  BY DEF Unborn
<1>4. [at |-> "gone", owner |-> None, taken |-> 0, photo |-> "none"] \in Duck
  BY <1>1 DEF Duck
<1>5. ASSUME NEW s \in Stations PROVE [Unborn EXCEPT !.at = "pending", !.owner = s] \in Duck
  <2> DEFINE x == [Unborn EXCEPT !.at = "pending", !.owner = s]
  <2>1. x \in [at : {"none", "pending", "stock", "gone"}, owner : Stations \cup {None},
               taken : 0..MaxTakeovers, photo : {"none", "PENDING", "READY"}]
    BY <1>1 DEF Unborn
  <2>2. x.at = "pending" /\ x.photo = "none"
    BY DEF Unborn
  <2>3. QED
    BY <2>1, <2>2, Zenon DEF Duck
<1>6. QED
  BY <1>2, <1>3, <1>4, <1>5

LEMMA Reserves ==
  ASSUME DuckTyped, NEW s \in Stations, Own(s) = {}, NEW d \in Ducks, duck' = Reserve(s, d)
  PROVE  DuckReserved(s)
<1> DEFINE x == [Unborn EXCEPT !.at = "pending", !.owner = s]
<1>1. x \in Duck /\ x.at = "pending" /\ x.owner = s
  BY UnbornIs DEF Unborn
<1>2. duck' = [duck EXCEPT ![d] = x]
  BY DEF Reserve
<1> HIDE DEF x
<1>3. DuckTyped' /\ duck'[d] = x /\ \A e \in Ducks : e # d => duck'[e] = duck[e]
  BY <1>1, <1>2, DuckSet
<1>4. \A t \in Stations, e \in Ducks : Waits(t, e)' => Waits(t, e) \/ (t = s /\ e = d)
  BY <1>1, <1>3 DEF Waits, Pending
<1>5. QED
  BY <1>1, <1>3, <1>4 DEF DuckReserved

LEMMA OldestUnused == ASSUME Unused # {} PROVE Oldest(Unused) \in Ducks
<1>1. Unused \in SUBSET Ducks
  BY DEF Unused
<1>2. QED
  BY <1>1, OldestIs

-----------------------------------------------------------------------------
(* What a step does at a station.                                            *)

\* The station's page and reading become p and j.
Moved(s, p, j) ==
  /\ p \in Record /\ page' \in [Stations -> Record] /\ page'[s] = p
  /\ j \in Jobs /\ job' \in [Stations -> Jobs] /\ job'[s] = j
  /\ \A t \in Stations \ {s} : page'[t] = page[t] /\ job'[t] = job[t]

LEMMA BecomesMoves ==
  ASSUME Typed, NEW s \in Stations, NEW p \in Record, NEW j \in Jobs, Becomes(s, p, j)
  PROVE  Moved(s, p, j)
  BY DEF Typed, Becomes, Moved

LEMMA PageIsMoved ==
  ASSUME Typed, NEW s \in Stations, NEW p \in Record, page' = [page EXCEPT ![s] = p], job' = job
  PROVE  Moved(s, p, job[s])
  BY DEF Typed, Moved

\* The reading keeps its sticker, or it has begun with one that is free, which
\* it may not write on when that is the sticker of a duck in stock.
Grips(s, j) ==
  j # Idle =>
    \/ /\ job[s] # Idle /\ j.sticker = job[s].sticker
       /\ j.step \in {"start", "write"} => job[s].step \in {"start", "write"}
    \/ /\ job[s] = Idle /\ j.sticker \in Stickers \ Held
       /\ TapDuringTakeover \/ take[s] = NoTake
       /\ TapDuringRecovery \/ ~Recovering(s)
       /\ j.step \in {"start", "write"} =>
            \A d \in Ducks : duck[d].at = "stock" => sticker[j.sticker] # d
\* A takeover, and a recovery or a photo, begins only where no reading goes on.
TakesFor(s, j) ==
  /\ take' \in [Stations -> Takes]
  /\ \A t \in Stations : take'[t] # NoTake => take[t] # NoTake \/ (t = s /\ j = Idle)
RecoversFor(s, j) ==
  /\ recovery' \in [Stations -> Recoveries]
  /\ \A t \in Stations : Recovering(t)' => Recovering(t) \/ (t = s /\ j = Idle)

\* Every step of a station but its writes and the commit of a confirmation.
Proceeds(s, p, j) ==
  /\ Moved(s, p, j) /\ Grips(s, j)
  /\ Works /\ TakesAlone /\ RecoversAlone => FitsRecord(j, p)
  /\ sticker' = sticker
  /\ TakesFor(s, j) /\ RecoversFor(s, j)
  /\ late' \in [Stations -> {"no", "current", "former"}]
  /\ DucksRest \/ DuckReserved(s)
ProceedsAt(s) == \E p, j : Proceeds(s, p, j)

LEMMA Renames ==
  ASSUME Typed, NEW s \in Stations, Renamed(s) \/ UNCHANGED late
  PROVE  late' \in [Stations -> {"no", "current", "former"}]
  BY DEF Typed, Renamed

LEMMA IdleIs ==
  ASSUME NEW s \in Stations, NEW p
  PROVE  /\ Idle \in Jobs /\ Grips(s, Idle) /\ FitsRecord(Idle, p)
         /\ \A j \in Jobs : j # Idle <=> j.step # "idle"
  BY DEF Idle, Jobs, Grips, FitsRecord

LEMMA TakesStill ==
  ASSUME Typed, NEW s \in Stations, NEW j,
         take' = take \/ take' = [take EXCEPT ![s] = NoTake]
  PROVE  TakesFor(s, j)
  BY DEF Typed, Takes, TakesFor

LEMMA RecoversStill ==
  ASSUME Typed, NEW s \in Stations, NEW p, NEW j, Moved(s, p, j), recovery' = recovery,
         p.photo = page[s].photo \/ j = Idle
  PROVE  RecoversFor(s, j)
  BY DEF Typed, Moved, RecoversFor, Recovering

\* The recovery of the station changes where it has no reading.
LEMMA RecoversIdle ==
  ASSUME Typed, NEW s \in Stations, NEW p, NEW j, NEW r \in Recoveries, Moved(s, p, j),
         recovery' = [recovery EXCEPT ![s] = r], Recovering(s) \/ j = Idle
  PROVE  RecoversFor(s, j)
<1>1. recovery' \in [Stations -> Recoveries] /\ \A t \in Stations \ {s} : recovery'[t] = recovery[t]
  BY DEF Typed
<1>2. \A t \in Stations \ {s} : Recovering(t)' => Recovering(t)
  BY <1>1 DEF Moved, Recovering
<1>3. QED
  BY <1>1, <1>2 DEF RecoversFor

LEMMA AfterProceeds ==
  ASSUME Typed, NEW s \in Stations, NEW p \in Record, NEW k \in Stickers,
         p.photo = page[s].photo, Becomes(s, p, After(p, k)),
         \/ job[s].step = "start" /\ job[s].sticker = k
         \/ /\ job[s] = Idle /\ k \notin Held
            /\ TapDuringTakeover \/ take[s] = NoTake
            /\ TapDuringRecovery \/ ~Recovering(s)
            /\ \/ p.wrote /\ p.pending # None
               \/ \A d \in Ducks : duck[d].at = "stock" => sticker[k] # d,
         UNCHANGED <<sticker, take, recovery>>, DucksRest \/ DuckReserved(s),
         late' \in [Stations -> {"no", "current", "former"}]
  PROVE  ProceedsAt(s)
<1> DEFINE j == After(p, k)
<1>1. /\ j \in Jobs /\ (j # Idle => j.sticker = k) /\ FitsRecord(j, p)
      /\ p.wrote /\ p.pending # None => j.step \notin {"start", "write"}
  BY AfterIs
<1> HIDE DEF j
<1>2. Moved(s, p, j)
  BY <1>1, BecomesMoves DEF j
<1>3. Grips(s, j)
  BY <1>1 DEF Grips, Idle
<1>4. TakesFor(s, j) /\ RecoversFor(s, j)
  BY <1>2, TakesStill, RecoversStill
<1>5. QED
  BY <1>1, <1>2, <1>3, <1>4 DEF Proceeds, ProceedsAt

LEMMA IdleProceeds ==
  ASSUME Typed, NEW s \in Stations, NEW p \in Record, Becomes(s, p, Idle),
         UNCHANGED sticker, DucksRest \/ DuckReserved(s),
         take' = take \/ take' = [take EXCEPT ![s] = NoTake],
         recovery' = recovery \/ recovery' = [recovery EXCEPT ![s] = NoRecovery],
         late' \in [Stations -> {"no", "current", "former"}]
  PROVE  ProceedsAt(s)
<1>1. Idle \in Jobs /\ Grips(s, Idle) /\ FitsRecord(Idle, p)
  BY IdleIs
<1>2. Moved(s, p, Idle)
  BY <1>1, BecomesMoves
<1>3. TakesFor(s, Idle)
  BY TakesStill
<1>4. NoRecovery \in Recoveries
  BY DEF Recoveries
<1>5. RecoversFor(s, Idle)
  BY <1>2, <1>4, RecoversStill, RecoversIdle
<1>6. QED
  BY <1>1, <1>2, <1>3, <1>5 DEF Proceeds, ProceedsAt

\* The reading goes on as it is, on a page that has become p.
LEMMA SameJobProceeds ==
  ASSUME Typed, NEW s \in Stations, NEW p \in Record,
         page' = [page EXCEPT ![s] = p], job' = job,
         \/ p.pending = page[s].pending
         \/ TakesAlone /\ RecoversAlone => job[s] = Idle,
         UNCHANGED sticker, DucksRest \/ DuckReserved(s),
         TakesFor(s, job[s]), RecoversFor(s, job[s]),
         late' \in [Stations -> {"no", "current", "former"}]
  PROVE  ProceedsAt(s)
<1>1. Moved(s, p, job[s])
  BY PageIsMoved
<1>2. Works /\ TakesAlone /\ RecoversAlone => FitsRecord(job[s], p)
  BY DEF Works, FitsRecord, Idle
<1>3. Grips(s, job[s])
  BY DEF Grips
<1>4. QED
  BY <1>1, <1>2, <1>3 DEF Proceeds, ProceedsAt

\* The page rests, and so does its recovery, or its takeover.
LEMMA PageRests ==
  ASSUME Typed, NEW s \in Stations, UNCHANGED <<page, job, recovery>>
  PROVE  /\ page' = [page EXCEPT ![s] = page[s]] /\ page[s] \in Record
         /\ Moved(s, page[s], job[s]) /\ RecoversFor(s, job[s])
<1>1. page' = [page EXCEPT ![s] = page[s]] /\ page[s] \in Record
  BY DEF Typed
<1>2. Moved(s, page[s], job[s])
  BY <1>1, PageIsMoved
<1>3. QED
  BY <1>1, <1>2, RecoversStill

-----------------------------------------------------------------------------
(* Readings and starts.                                                      *)

LEMMA ReadsIs ==
  ASSUME Typed, NEW s \in Stations, NEW k \in Stickers, Reads(s, k)
  PROVE  /\ job[s] = Idle /\ k \notin Held /\ (TapDuringTakeover \/ take[s] = NoTake)
         /\ TapDuringRecovery \/ ~Recovering(s)
         /\ UNCHANGED <<sticker, take, recovery>> /\ DucksRest /\ page[s] \in Record
         /\ sticker[k] \in 0..MaxDucks
<1>1. DucksRest
  BY DucksStay DEF Typed, DuckTyped, Reads
<1>2. QED
  BY <1>1 DEF Reads, Typed

LEMMA TapProceeds ==
  ASSUME Typed, NEW s \in Stations, NEW k \in Stickers,
         TapBlank(s, k) \/ Lookup(s, k) \/ TapReusable(s, k) \/ Resume(s, k)
  PROVE  ProceedsAt(s)
<1>1. Reads(s, k)
  BY DEF TapBlank, Lookup, TapReusable, Resume, TapKnown
<1>2. /\ job[s] = Idle /\ k \notin Held /\ (TapDuringTakeover \/ take[s] = NoTake)
      /\ TapDuringRecovery \/ ~Recovering(s)
      /\ UNCHANGED <<sticker, take, recovery>> /\ DucksRest /\ page[s] \in Record
      /\ sticker[k] \in 0..MaxDucks
  BY <1>1, ReadsIs
<1>3. late' \in [Stations -> {"no", "current", "former"}]
  BY Renames DEF TapBlank, Lookup, TapReusable, Resume
<1>4. CASE TapBlank(s, k)
  <2>1. Becomes(s, page[s], After(page[s], k)) /\ \A d \in Ducks : sticker[k] # d
    BY <1>4 DEF TapBlank, Ducks
  <2>2. QED
    BY <1>2, <1>3, <2>1, AfterProceeds
<1>5. CASE Lookup(s, k)
  BY <1>2, <1>3, <1>5, FreshIs, IdleProceeds DEF Lookup
<1>6. CASE TapReusable(s, k)
  <2>1. Becomes(s, page[s], After(page[s], k)) /\ Kind(s, sticker[k]) = "reusable"
    BY <1>6 DEF TapReusable, TapKnown
  <2>2. \A d \in Ducks : duck[d].at = "stock" => sticker[k] # d
    BY <2>1 DEF Kind, Pending
  <2>3. QED
    BY <1>2, <1>3, <2>1, <2>2, AfterProceeds
<1>7. CASE Resume(s, k)
  <2> DEFINE p == IF page[s].pending = None THEN Recovered(page[s], Undone(s)) ELSE page[s]
             q == [p EXCEPT !.wrote = TRUE]
             goes == p.pending = sticker[k] /\ ~p.confirmed
  <2>1. p \in Record /\ (~p.confirmed => p.photo = page[s].photo)
    BY <1>2, UndoneIs, RecoveredIs
  <2>2. /\ goes => Becomes(s, q, After(q, k))
        /\ ~goes => Becomes(s, p, Idle)
        /\ sticker[k] # 0
    BY <1>7 DEF Resume, TapKnown
  <2> HIDE DEF p
  <2>3. /\ q \in Record /\ q.wrote = TRUE /\ q.pending = p.pending
        /\ ~p.confirmed => q.photo = page[s].photo
    BY <2>1 DEF Record
  <2> HIDE DEF q
  <2>4. CASE goes
    <3>1. sticker[k] # None
      BY <1>2, <2>2, ProvisioningAssumption
    <3>2. QED
      BY <1>2, <1>3, <2>2, <2>3, <2>4, <3>1, AfterProceeds
  <2>5. CASE ~goes
    BY <1>2, <1>3, <2>1, <2>2, <2>5, IdleProceeds
  <2>6. QED
    BY <2>4, <2>5
<1>8. QED
  BY <1>4, <1>5, <1>6, <1>7

LEMMA StartingIs ==
  ASSUME Typed, NEW s \in Stations, job[s].step = "start"
  PROVE  job[s].sticker \in Stickers /\ page[s] \in Record
  BY DEF Typed, Jobs, Idle

LEMMA StartProceeds ==
  ASSUME Typed, NEW s \in Stations,
         \/ \E d \in Ducks : StartAnswered(s, d)
         \/ StartReplayed(s) \/ StartLost(s)
  PROVE  ProceedsAt(s)
<1>1. job[s].step = "start" /\ UNCHANGED <<sticker, take, recovery>>
  BY DEF StartAnswered, StartReplayed, StartLost
<1>2. PICK k \in Stickers : k = job[s].sticker
  BY <1>1, StartingIs
<1>3. page[s] \in Record /\ DuckTyped
  BY DEF Typed, DuckTyped
<1>4. ASSUME NEW d \in Ducks, StartAnswered(s, d) PROVE ProceedsAt(s)
  <2> DEFINE x == IF Own(s) = {} THEN d ELSE page[s].sent
             a == Adopt(page[s], d)
             p == [Adopt(page[s], d) EXCEPT !.sent = IF Own(s) = {} THEN d ELSE @]
  <2>1. a \in Record /\ a.photo = page[s].photo
    BY <1>3, AdoptIs
  <2>2. p \in Record /\ p.photo = page[s].photo
    BY <2>1 DEF Record
  <2>3. Becomes(s, p, After(p, k)) /\ UNCHANGED late
    BY <1>2, <1>4 DEF StartAnswered
  <2>4. DucksRest \/ DuckReserved(s)
    BY <1>3, <1>4, DucksStay, Reserves DEF StartAnswered
  <2> HIDE DEF p, a
  <2>5. QED
    BY <1>1, <1>2, <2>2, <2>3, <2>4, AfterProceeds, Renames
<1>5. ASSUME StartReplayed(s) PROVE ProceedsAt(s)
  <2> DEFINE d == page[s].sent
  <2>1. d \in Ducks
    BY <1>3, <1>5 DEF StartReplayed, Record
  <2>2. DucksRest
    BY <1>3, <1>5, DucksStay DEF StartReplayed
  <2>3. Adopt(page[s], d) \in Record /\ Adopt(page[s], d).photo = page[s].photo
    BY <1>3, <2>1, AdoptIs
  <2>4. CASE duck[d].owner # s
    BY <1>1, <1>3, <1>5, <2>2, <2>4, IdleProceeds, Renames DEF StartReplayed
  <2>5. CASE duck[d].owner = s /\ Pending(d)
    <3>1. Becomes(s, Adopt(page[s], d), After(Adopt(page[s], d), k)) /\ UNCHANGED late
      BY <1>2, <1>5, <2>5 DEF StartReplayed
    <3>2. QED
      BY <1>1, <1>2, <2>2, <2>3, <3>1, AfterProceeds, Renames
  <2>6. CASE duck[d].owner = s /\ ~Pending(d)
    BY <1>1, <1>3, <1>5, <2>2, <2>6, IdleProceeds, Renames, FreshIs DEF StartReplayed
  <2>7. QED
    BY <2>4, <2>5, <2>6
<1>6. ASSUME StartLost(s) PROVE ProceedsAt(s)
  <2>1. DucksRest
    BY <1>3, <1>6, DucksStay DEF StartLost
  <2>2. late' \in [Stations -> {"no", "current", "former"}]
    BY <1>6 DEF StartLost, Typed
  <2>3. QED
    BY <1>1, <1>3, <1>6, <2>1, <2>2, IdleProceeds DEF StartLost
<1>7. QED
  BY <1>4, <1>5, <1>6

-----------------------------------------------------------------------------
(* The other steps of a station.                                             *)

LEMMA StartCommitsProceeds ==
  ASSUME Typed, NEW s \in Stations, StartCommits(s)
  PROVE  ProceedsAt(s)
<1>1. DuckTyped /\ page[s] \in Record
  BY DEF Typed, DuckTyped
<1>2. late' \in [Stations -> {"no", "current", "former"}]
  BY DEF StartCommits, Typed
<1>3. UNCHANGED <<sticker, job, take, recovery>> /\ TakesFor(s, job[s])
  BY TakesStill DEF StartCommits
<1>4. CASE Own(s) = {} /\ Unused # {} /\ ~(late[s] = "current" /\ page[s].sent # None)
  <2>1. PICK d \in Ducks : d = Oldest(Unused)
    BY <1>4, OldestUnused
  <2> DEFINE x == IF late[s] = "current" THEN d ELSE page[s].sent
             p == [page[s] EXCEPT !.sent = x]
  <2>2. duck' = Reserve(s, d) /\ page' = [page EXCEPT ![s].sent = x]
    BY <1>4, <2>1 DEF StartCommits
  <2>3. page' = [page EXCEPT ![s] = p]
    BY <2>2
  <2>4. x \in Ducks \cup {None}
    BY <1>1 DEF Record
  <2> HIDE DEF x
  <2>5. p \in Record /\ p.pending = page[s].pending /\ p.photo = page[s].photo
    BY <1>1, <2>4 DEF Record
  <2> HIDE DEF p
  <2>6. DuckReserved(s)
    BY <1>1, <1>4, <2>2, Reserves
  <2>7. RecoversFor(s, job[s])
    BY <1>3, <2>3, <2>5, PageIsMoved, RecoversStill
  <2>8. QED
    BY <1>1, <1>2, <1>3, <2>3, <2>5, <2>6, <2>7, SameJobProceeds
<1>5. CASE ~(Own(s) = {} /\ Unused # {} /\ ~(late[s] = "current" /\ page[s].sent # None))
  <2>1. duck' = duck /\ page' = page
    BY <1>5 DEF StartCommits
  <2>2. page' = [page EXCEPT ![s] = page[s]] /\ RecoversFor(s, job[s])
    BY <1>3, <2>1, PageRests
  <2>3. DucksRest
    BY <1>1, <2>1, DucksStay
  <2>4. QED
    BY <1>1, <1>2, <1>3, <2>2, <2>3, SameJobProceeds
<1>6. QED
  BY <1>4, <1>5

LEMMA ConfirmedIs ==
  ASSUME Typed, NEW s \in Stations, Confirmed(s)
  PROVE  \E p \in Record : Becomes(s, p, Idle)
<1>1. page[s] \in Record
  BY DEF Typed
<1>2. page[s].pending # None => Opened(page[s]) \in Record
  BY <1>1, OpenedIs
<1>3. QED
  BY <1>1, <1>2 DEF Confirmed

LEMMA ConfirmReadsProceeds ==
  ASSUME Typed, NEW s \in Stations, ConfirmReads(s)
  PROVE  ProceedsAt(s)
<1>1. DuckTyped /\ page[s] \in Record /\ job[s] \in Jobs
  BY DEF Typed, DuckTyped
<1>2. UNCHANGED <<duck, sticker, take, recovery, late>> /\ job[s].step = "confirm"
  BY DEF ConfirmReads
<1>3. late' \in [Stations -> {"no", "current", "former"}] /\ DucksRest
  BY <1>1, <1>2, DucksStay DEF Typed
<1>4. CASE Becomes(s, page[s], Idle) \/ Confirmed(s)
  <2>1. PICK p \in Record : Becomes(s, p, Idle)
    BY <1>1, <1>4, ConfirmedIs
  <2>2. QED
    BY <1>2, <1>3, <2>1, IdleProceeds
<1>5. CASE Becomes(s, page[s], [job[s] EXCEPT !.step = "commit"])
  <2> DEFINE j == [job[s] EXCEPT !.step = "commit"]
  <2>1. /\ j \in Jobs /\ j.step = "commit" /\ j.sticker = job[s].sticker
        /\ j.duck = job[s].duck
    BY <1>1, <1>2 DEF Jobs, Idle
  <2> HIDE DEF j
  <2>2. Moved(s, page[s], j)
    BY <1>1, <1>5, <2>1, BecomesMoves DEF j
  <2>3. Works => FitsRecord(j, page[s])
    BY <1>2, <2>1 DEF Works, FitsRecord
  <2>4. Grips(s, j)
    BY <1>2, <2>1 DEF Grips, Idle
  <2>5. TakesFor(s, j) /\ RecoversFor(s, j)
    BY <1>2, <2>2, TakesStill, RecoversStill
  <2>6. QED
    BY <1>2, <1>3, <2>2, <2>3, <2>4, <2>5 DEF Proceeds, ProceedsAt
<1>6. QED
  BY <1>4, <1>5 DEF ConfirmReads

LEMMA PhotoProceeds ==
  ASSUME Typed, NEW s \in Stations, PhotoSaved(s)
  PROVE  ProceedsAt(s)
<1>1. DuckTyped /\ page[s] \in Record
  BY DEF Typed, DuckTyped
<1>2. PICK d \in Ducks : d = page[s].photo
  BY <1>1 DEF PhotoSaved, Record
<1> DEFINE x == [duck[d] EXCEPT !.photo = "READY"]
           r == [step |-> "asked"]
<1>3. duck[d] \in Duck /\ duck[d].photo = "PENDING"
  BY <1>1, <1>2 DEF DuckTyped, PhotoSaved
<1>4. x \in Duck /\ x.at = "stock" /\ duck[d].at = "stock"
  BY <1>3 DEF Duck
<1>5. duck' = [duck EXCEPT ![d] = x]
  BY <1>1, <1>2 DEF PhotoSaved, DuckTyped
<1> HIDE DEF x
<1>6. DucksRest
  BY <1>1, <1>4, <1>5, DuckBecomes
<1>7. /\ page' = [page EXCEPT ![s] = Fresh] /\ recovery' = [recovery EXCEPT ![s] = r]
      /\ UNCHANGED <<sticker, job, take>> /\ Recovering(s)
  BY DEF PhotoSaved, Recovering
<1>8. r \in Recoveries
  BY DEF Recoveries
<1> HIDE DEF r
<1>9. TakesFor(s, job[s]) /\ RecoversFor(s, job[s])
  BY <1>7, <1>8, FreshIs, PageIsMoved, TakesStill, RecoversIdle
<1>10. RecoversAlone => job[s] = Idle
  BY <1>7 DEF RecoversAlone
<1>11. late' \in [Stations -> {"no", "current", "former"}]
  BY Renames DEF PhotoSaved
<1>12. QED
  BY <1>6, <1>7, <1>9, <1>10, <1>11, FreshIs, SameJobProceeds

LEMMA RecoverProceeds ==
  ASSUME Typed, NEW s \in Stations,
         Recovers(s) \/ RecoverReads(s) \/ RecoverAnswers(s) \/ Reload(s)
  PROVE  ProceedsAt(s)
<1>1. DuckTyped /\ duck' = duck /\ page[s] \in Record
  BY DEF Typed, DuckTyped, Recovers, RecoverReads, RecoverAnswers, Reload
<1>2. DucksRest /\ late' \in [Stations -> {"no", "current", "former"}]
  BY <1>1, DucksStay, Renames DEF Recovers, RecoverReads, RecoverAnswers, Reload
<1>3. ASSUME NEW p \in Record, page' = [page EXCEPT ![s] = p],
             NEW r \in Recoveries, recovery' = [recovery EXCEPT ![s] = r],
             UNCHANGED <<sticker, job, take>>,
             Recovering(s) \/ job[s] = Idle
      PROVE  ProceedsAt(s)
  <2>1. TakesFor(s, job[s]) /\ RecoversFor(s, job[s])
    BY <1>3, PageIsMoved, TakesStill, RecoversIdle
  <2>2. RecoversAlone => job[s] = Idle
    BY <1>3 DEF RecoversAlone
  <2>3. QED
    BY <1>2, <1>3, <2>1, <2>2, SameJobProceeds
<1>4. CASE Recovers(s)
  <2>1. [step |-> "asked"] \in Recoveries
    BY DEF Recoveries
  <2>2. page' = [page EXCEPT ![s] = Cleared(page[s])]
    BY <1>4 DEF Recovers
  <2>3. QED
    BY <1>1, <1>3, <1>4, <2>1, <2>2, FreshIs DEF Recovers
<1>5. CASE RecoverReads(s)
  <2>1. Recovering(s)
    BY <1>5 DEF RecoverReads, Recovering, NoRecovery
  <2>2. page' = [page EXCEPT ![s] = page[s]]
    BY <1>5 DEF Typed, RecoverReads
  <2>3. QED
    BY <1>1, <1>3, <1>5, <2>1, <2>2, UndoneIs DEF RecoverReads
<1>6. CASE RecoverAnswers(s)
  <2>1. Recovering(s)
    BY <1>6 DEF RecoverAnswers, Recovering, NoRecovery
  <2>2. recovery[s] \in Recoveries /\ NoRecovery \in Recoveries
    BY DEF Typed, Recoveries
  <2>3. PICK p \in {page[s], Recovered(page[s], recovery[s])} : page' = [page EXCEPT ![s] = p]
    BY <1>6 DEF Typed, RecoverAnswers
  <2>4. p \in Record
    BY <1>1, <2>2, <2>3, RecoveredIs
  <2>5. QED
    BY <1>3, <1>6, <2>1, <2>2, <2>3, <2>4 DEF RecoverAnswers
<1>7. CASE Reload(s)
  BY <1>2, <1>7, FreshIs, IdleProceeds DEF Reload
<1>8. QED
  BY <1>4, <1>5, <1>6, <1>7

LEMMA TakeoverReadsProceeds ==
  ASSUME Typed, NEW s \in Stations, NEW d \in Ducks, TakeoverReads(s, d)
  PROVE  ProceedsAt(s)
<1> DEFINE x == [step |-> "commit", duck |-> d, seen |-> duck[d].taken]
<1>1. DuckTyped /\ page[s] \in Record /\ take \in [Stations -> Takes] /\ duck[d] \in Duck
  BY DEF Typed, DuckTyped
<1>2. duck[d].taken \in Nat /\ duck[d].taken < MaxTakeovers
  BY <1>1, ProvisioningAssumption DEF Duck, TakeoverReads
<1>3. x \in Takes
  BY <1>2 DEF Takes
<1>4. /\ take' = [take EXCEPT ![s] = x] /\ job[s] = Idle
      /\ UNCHANGED <<duck, sticker, page, job, recovery, late>>
  BY DEF TakeoverReads
<1> HIDE DEF x
<1>5. TakesFor(s, job[s])
  BY <1>1, <1>3, <1>4 DEF TakesFor
<1>6. DucksRest /\ late' \in [Stations -> {"no", "current", "former"}]
  BY <1>1, <1>4, DucksStay DEF Typed
<1>7. page' = [page EXCEPT ![s] = page[s]] /\ RecoversFor(s, job[s])
  BY <1>4, PageRests
<1>8. QED
  BY <1>1, <1>4, <1>5, <1>6, <1>7, SameJobProceeds

LEMMA TakeoverCommitsProceeds ==
  ASSUME Typed, NEW s \in Stations, TakeoverCommits(s)
  PROVE  ProceedsAt(s)
<1>1. DuckTyped /\ page[s] \in Record /\ take \in [Stations -> Takes] /\ take[s] \in Takes
  BY DEF Typed, DuckTyped
<1>2. take[s].step = "commit" /\ UNCHANGED <<sticker, page, job, recovery, late>>
  BY DEF TakeoverCommits
<1>3. /\ take[s].duck \in Ducks /\ take[s].seen \in Nat /\ take[s].seen < MaxTakeovers
      /\ take[s] # NoTake
  BY <1>1, <1>2 DEF Takes, NoTake
<1>4. PICK d \in Ducks : d = take[s].duck
  BY <1>3
<1>5. /\ page' = [page EXCEPT ![s] = page[s]] /\ RecoversFor(s, job[s])
      /\ late' \in [Stations -> {"no", "current", "former"}]
  BY <1>2, PageRests DEF Typed
<1>6. ASSUME NEW x \in Takes, take' = [take EXCEPT ![s] = x], DucksRest PROVE ProceedsAt(s)
  <2>1. TakesFor(s, job[s])
    BY <1>1, <1>3, <1>6 DEF TakesFor
  <2>2. QED
    BY <1>1, <1>2, <1>5, <1>6, <2>1, SameJobProceeds
<1>7. CASE Pending(d) /\ duck[d].taken = take[s].seen
  <2> DEFINE n == duck[d].taken + 1
             x == [duck[d] EXCEPT !.owner = s, !.taken = n]
             y == [step |-> "answer", duck |-> d]
  <2>1. duck[d] \in Duck /\ duck[d].at = "pending"
    BY <1>1, <1>7 DEF DuckTyped, Pending
  <2>2. n \in 0..MaxTakeovers /\ n # 0
    BY <1>3, <1>7, ProvisioningAssumption
  <2>3. /\ duck' = [duck EXCEPT ![d].owner = s, ![d].taken = @ + 1]
        /\ take' = [take EXCEPT ![s] = y]
    BY <1>4, <1>7 DEF TakeoverCommits
  <2>4. duck' = [duck EXCEPT ![d] = x]
    BY <1>1, <2>3 DEF DuckTyped
  <2> HIDE DEF n
  <2>5. x \in Duck /\ x.at = "pending" /\ x.taken # 0
    BY <2>1, <2>2 DEF Duck
  <2>6. y \in Takes
    BY DEF Takes
  <2> HIDE DEF x, y
  <2>7. DucksRest
    BY <1>1, <2>4, <2>5, DuckBecomes
  <2>8. QED
    BY <1>6, <2>3, <2>6, <2>7
<1>8. CASE ~(Pending(d) /\ duck[d].taken = take[s].seen)
  <2>1. duck' = duck /\ take' = [take EXCEPT ![s] = NoTake]
    BY <1>4, <1>8 DEF TakeoverCommits
  <2>2. DucksRest /\ NoTake \in Takes
    BY <1>1, <2>1, DucksStay DEF Takes
  <2>3. QED
    BY <1>6, <2>1, <2>2
<1>9. QED
  BY <1>7, <1>8

LEMMA TakeoverAnswersProceeds ==
  ASSUME Typed, NEW s \in Stations, TakeoverAnswers(s)
  PROVE  ProceedsAt(s)
<1>1. DuckTyped /\ page[s] \in Record /\ take \in [Stations -> Takes] /\ take[s] \in Takes
  BY DEF Typed, DuckTyped
<1>2. take[s].step = "answer" /\ UNCHANGED <<duck, sticker, job, recovery, late>>
      /\ take' = [take EXCEPT ![s] = NoTake]
  BY DEF TakeoverAnswers
<1>3. take[s].duck \in Ducks /\ take[s] # NoTake
  BY <1>1, <1>2 DEF Takes, NoTake
<1>4. PICK d \in Ducks : d = take[s].duck
  BY <1>3
<1>5. TakesFor(s, job[s])
  BY <1>2, TakesStill
<1>6. DucksRest /\ late' \in [Stations -> {"no", "current", "former"}]
  BY <1>1, <1>2, DucksStay DEF Typed
<1>7. TakesAlone => job[s] = Idle
  BY <1>3 DEF TakesAlone
<1>8. PICK p \in {page[s], Adopt(page[s], d)} : page' = [page EXCEPT ![s] = p]
  BY <1>4 DEF Typed, TakeoverAnswers
<1>9. p \in Record /\ p.photo = page[s].photo
  BY <1>1, <1>8, AdoptIs
<1>10. RecoversFor(s, job[s])
  BY <1>2, <1>8, <1>9, PageIsMoved, RecoversStill
<1>11. QED
  BY <1>2, <1>5, <1>6, <1>7, <1>8, <1>9, <1>10, SameJobProceeds

-----------------------------------------------------------------------------
(* The write, the commit of a confirmation, and the inventory desk.          *)

\* The station writes on the sticker in its hand, and no other.
Writes(s, p, j) ==
  /\ Moved(s, p, j) /\ job[s].step = "write" /\ p.photo = page[s].photo
  /\ DucksRest /\ UNCHANGED <<take, recovery, late>>
  /\ sticker' \in [Stickers -> 0..MaxDucks]
  /\ \A k \in Stickers : k # job[s].sticker => sticker'[k] = sticker[k]
  /\ j # Idle => j.step = "confirm" /\ j.sticker = job[s].sticker
  /\ Works => (j.step = "confirm" => sticker'[j.sticker] = j.duck)

LEMMA WriteWrites ==
  ASSUME Typed, NEW s \in Stations, WriteResolves(s) \/ WriteFails(s)
  PROVE  \E p, j : Writes(s, p, j)
<1>1. DuckTyped /\ page[s] \in Record /\ job[s] \in Jobs /\ sticker \in [Stickers -> 0..MaxDucks]
  BY DEF Typed, DuckTyped
<1>2. job[s].step = "write" /\ UNCHANGED <<duck, take, recovery, late>>
  BY DEF WriteResolves, WriteFails
<1>3. PICK k \in Stickers, d \in Ducks : k = job[s].sticker /\ d = job[s].duck
  BY <1>1, <1>2 DEF Jobs, Idle
<1>4. DucksRest /\ d \in 0..MaxDucks
  BY <1>1, <1>2, DucksStay DEF Ducks
<1>5. PICK u \in {sticker[k], d} : sticker' = [sticker EXCEPT ![k] = u]
  BY <1>3 DEF WriteResolves, WriteFails
<1>6. /\ sticker' \in [Stickers -> 0..MaxDucks]
      /\ \A i \in Stickers : i # k => sticker'[i] = sticker[i]
  BY <1>1, <1>4, <1>5
<1>7. CASE WriteResolves(s) /\ page[s].pending # None
  <2> DEFINE p == [page[s] EXCEPT !.wrote = TRUE]
             j == [step |-> "confirm", sticker |-> k, duck |-> p.pending]
  <2>1. /\ p \in Record /\ p.pending = page[s].pending /\ p.pending \in Ducks
        /\ p.photo = page[s].photo
    BY <1>1, <1>7 DEF Record
  <2>2. Becomes(s, p, j) /\ sticker' = [sticker EXCEPT ![k] = d]
    BY <1>3, <1>7 DEF WriteResolves
  <2> HIDE DEF p
  <2>3. j \in Jobs /\ j.step = "confirm" /\ j.sticker = k /\ j.duck = p.pending
    BY <2>1 DEF Jobs
  <2> HIDE DEF j
  <2>4. Moved(s, p, j)
    BY <2>1, <2>2, <2>3, BecomesMoves
  <2>5. sticker'[k] = d
    BY <1>1, <2>2
  <2>6. Works => sticker'[j.sticker] = j.duck
    BY <1>2, <1>3, <2>1, <2>3, <2>5 DEF Works
  <2>7. Writes(s, p, j)
    BY <1>2, <1>3, <1>4, <1>6, <2>1, <2>3, <2>4, <2>6 DEF Writes
  <2>8. QED
    BY <2>7
<1>8. CASE WriteFails(s) \/ page[s].pending = None
  <2>1. Becomes(s, page[s], Idle)
    BY <1>8 DEF WriteResolves, WriteFails
  <2>2. Idle \in Jobs /\ Idle.step # "confirm"
    BY IdleIs DEF Idle
  <2>3. Moved(s, page[s], Idle)
    BY <1>1, <2>1, <2>2, BecomesMoves
  <2>4. Writes(s, page[s], Idle)
    BY <1>2, <1>3, <1>4, <1>6, <2>2, <2>3 DEF Writes
  <2>5. QED
    BY <2>4
<1>9. QED
  BY <1>7, <1>8

\* The station's confirmation brings its duck into stock, or not.
Stocks(s, p) ==
  /\ Moved(s, p, Idle) /\ job[s].step = "commit"
  /\ DuckStocked(job[s].duck) /\ UNCHANGED <<sticker, take, recovery, late>>

LEMMA CommitStocks ==
  ASSUME Typed, NEW s \in Stations, ConfirmCommits(s)
  PROVE  \E p : Stocks(s, p)
<1>1. DuckTyped /\ page[s] \in Record /\ job[s] \in Jobs
  BY DEF Typed, DuckTyped
<1>2. job[s].step = "commit" /\ UNCHANGED <<sticker, take, recovery, late>>
  BY DEF ConfirmCommits
<1>3. PICK d \in Ducks : d = job[s].duck
  BY <1>1, <1>2 DEF Jobs, Idle
<1>4. DuckStocked(d)
  <2>1. CASE Pending(d) /\ duck[d].owner = s
    <3> DEFINE x == [duck[d] EXCEPT !.at = "stock", !.photo = "PENDING"]
    <3>1. duck[d] \in Duck
      BY <1>1 DEF DuckTyped
    <3>2. x \in Duck /\ x.at = "stock"
      BY <3>1 DEF Duck
    <3>3. duck' = [duck EXCEPT ![d].at = "stock", ![d].photo = "PENDING"]
      BY <1>3, <2>1 DEF ConfirmCommits
    <3>4. duck' = [duck EXCEPT ![d] = x]
      BY <1>1, <3>3 DEF DuckTyped
    <3> HIDE DEF x
    <3>5. QED
      BY <1>1, <3>2, <3>4, DuckIsStocked
  <2>2. CASE ~(Pending(d) /\ duck[d].owner = s)
    <3>1. duck' = duck
      BY <1>3, <2>2 DEF ConfirmCommits
    <3>2. QED
      BY <1>1, <3>1, DucksStay DEF DucksRest, DuckStocked
  <2>3. QED
    BY <2>1, <2>2
<1>5. PICK p \in Record : Becomes(s, p, Idle)
  BY <1>1, ConfirmedIs DEF ConfirmCommits
<1>6. Moved(s, p, Idle)
  BY <1>5, IdleIs, BecomesMoves
<1>7. QED
  BY <1>2, <1>3, <1>4, <1>6 DEF Stocks

\* The desk deletes a duck, or takes one into stock whose sticker it holds.
Stands == UNCHANGED <<sticker, page, job, take, recovery, late>>
IntakeStocks(k) == Stands /\ k \notin Held /\ DuckStocked(sticker[k])

LEMMA DeleteIs == ASSUME Typed, NEW d \in Ducks, Delete(d) PROVE Stands /\ DucksRest
<1> DEFINE x == [Unborn EXCEPT !.at = "gone"]
<1>1. x \in Duck /\ x.at = "gone"
  BY UnbornIs
<1>2. duck' = [duck EXCEPT ![d] = x] /\ Stands /\ DuckTyped
  BY DEF Delete, Stands, Typed, DuckTyped
<1> HIDE DEF x
<1>3. QED
  BY <1>1, <1>2, DuckBecomes

LEMMA IntakeIs == ASSUME Typed, NEW k \in Stickers, Intake(k) PROVE IntakeStocks(k)
<1>1. DuckTyped /\ sticker[k] \in 0..MaxDucks /\ sticker[k] # 0
  BY DEF Typed, DuckTyped, Intake
<1>2. PICK d \in Ducks : d = sticker[k]
  BY <1>1, ProvisioningAssumption DEF Ducks
<1> DEFINE x == [duck[d] EXCEPT !.at = "stock"]
<1>3. duck[d] \in Duck /\ duck[d].at = "gone"
  BY <1>1, <1>2 DEF DuckTyped, Intake
<1>4. x \in Duck /\ x.at = "stock"
  BY <1>3 DEF Duck
<1>5. duck' = [duck EXCEPT ![d] = x]
  BY <1>1, <1>2 DEF Intake, DuckTyped
<1> HIDE DEF x
<1>6. DuckStocked(d)
  BY <1>1, <1>4, <1>5, DuckIsStocked
<1>7. QED
  BY <1>2, <1>6 DEF Intake, IntakeStocks, Stands

-----------------------------------------------------------------------------
(* Every step is one of five.                                                *)

LEMMA Steps ==
  ASSUME Typed, [Next]_vars
  PROVE  \/ \E s \in Stations : \E p, j : Proceeds(s, p, j)
         \/ \E s \in Stations : \E p, j : Writes(s, p, j)
         \/ \E s \in Stations : \E p : Stocks(s, p)
         \/ Stands /\ DucksRest
         \/ \E k \in Stickers : IntakeStocks(k)
<1>1. ASSUME NEW s \in Stations, Station(s)
      PROVE  ProceedsAt(s) \/ (\E p, j : Writes(s, p, j)) \/ (\E p : Stocks(s, p))
  BY <1>1, TapProceeds, StartProceeds, StartCommitsProceeds, WriteWrites, ConfirmReadsProceeds,
     CommitStocks, PhotoProceeds, RecoverProceeds, TakeoverReadsProceeds,
     TakeoverCommitsProceeds, TakeoverAnswersProceeds DEF Station
<1>2. ASSUME NEW d \in Ducks, Delete(d) PROVE Stands /\ DucksRest
  BY <1>2, DeleteIs
<1>3. ASSUME NEW k \in Stickers, Intake(k) PROVE IntakeStocks(k)
  BY <1>3, IntakeIs
<1>4. ASSUME UNCHANGED vars PROVE Stands /\ DucksRest
  BY <1>4, DucksStay DEF vars, Stands, Typed, DuckTyped
<1>5. QED
  BY <1>1, <1>2, <1>3, <1>4 DEF Next, ProceedsAt

-----------------------------------------------------------------------------
(* The invariants stay.                                                      *)

LEMMA TypedStays == ASSUME Typed, [Next]_vars PROVE Typed'
<1>1. ASSUME NEW s \in Stations, NEW p, NEW j, Proceeds(s, p, j) PROVE Typed'
  BY <1>1 DEF Proceeds, TakesFor, RecoversFor, Moved, DucksRest, DuckReserved, DuckTyped, Typed
<1>2. ASSUME NEW s \in Stations, NEW p, NEW j, Writes(s, p, j) PROVE Typed'
  BY <1>2 DEF Writes, Moved, DucksRest, DuckTyped, Typed
<1>3. ASSUME NEW s \in Stations, NEW p, Stocks(s, p) PROVE Typed'
  BY <1>3 DEF Stocks, Moved, DuckStocked, DuckTyped, Typed
<1>4. ASSUME Stands, DucksRest PROVE Typed'
  BY <1>4 DEF Stands, DucksRest, DuckTyped, Typed
<1>5. ASSUME NEW k \in Stickers, IntakeStocks(k) PROVE Typed'
  BY <1>5 DEF IntakeStocks, Stands, DuckStocked, DuckTyped, Typed
<1>6. QED
  BY <1>1, <1>2, <1>3, <1>4, <1>5, Steps

\* A move of one station that takes no sticker another one holds.
LEMMA MovedApart ==
  ASSUME Typed, Apart, NEW s \in Stations, NEW p, NEW j, Moved(s, p, j),
         j # Idle => \/ job[s] # Idle /\ j.sticker = job[s].sticker
                     \/ j.sticker \notin Held
  PROVE  Apart'
<1>0. \A t \in Stations : job[t] # Idle => job[t].sticker \in Held
  BY DEF Held, Typed, Jobs, Idle
<1>1. ASSUME NEW t \in Stations, t # s, job'[t] # Idle, j # Idle
      PROVE  job'[t].sticker # j.sticker
  BY <1>0, <1>1 DEF Moved, Apart
<1>2. QED
  BY <1>1 DEF Moved, Apart

LEMMA ApartStays == ASSUME Typed, Apart, [Next]_vars PROVE Apart'
<1>1. ASSUME NEW s \in Stations, NEW p, NEW j, Proceeds(s, p, j) PROVE Apart'
  BY <1>1, MovedApart DEF Proceeds, Grips
<1>2. ASSUME NEW s \in Stations, NEW p, NEW j, Writes(s, p, j) PROVE Apart'
  <2>1. job[s] # Idle
    BY <1>2 DEF Writes, Idle
  <2>2. QED
    BY <1>2, <2>1, MovedApart DEF Writes
<1>3. ASSUME NEW s \in Stations, NEW p, Stocks(s, p) PROVE Apart'
  BY <1>3, MovedApart DEF Stocks
<1>4. ASSUME Stands PROVE Apart'
  BY <1>4 DEF Stands, Apart
<1>5. QED
  BY <1>1, <1>2, <1>3, <1>4, Steps DEF IntakeStocks

LEMMA StartedIs ==
  OneStartedEach <=> \A s \in Stations, d, e \in Ducks : Waits(s, d) /\ Waits(s, e) => d = e
  BY DEF OneStartedEach, Own, Waits

LEMMA OneStartedStays ==
  ASSUME Typed, OneStartedEach, [Next]_vars PROVE OneStartedEach'
<1>0. ASSUME \A s \in Stations, d, e \in Ducks : Waits(s, d)' /\ Waits(s, e)' => d = e
      PROVE  OneStartedEach'
  BY <1>0 DEF OneStartedEach, Own, Waits, Pending
<1>1. ASSUME \A t \in Stations, d \in Ducks : Waits(t, d)' => Waits(t, d)
      PROVE  OneStartedEach'
  BY <1>0, <1>1, StartedIs
<1>2. ASSUME NEW s \in Stations, DuckReserved(s) PROVE OneStartedEach'
  <2>1. PICK e \in Ducks : \A t \in Stations, d \in Ducks :
          Waits(t, d)' => Waits(t, d) \/ (t = s /\ d = e)
    BY <1>2 DEF DuckReserved
  <2>2. \A d \in Ducks : ~Waits(s, d)
    BY <1>2 DEF DuckReserved, Waits, Own
  <2>3. QED
    BY <1>0, <2>1, <2>2, StartedIs
<1>3. QED
  BY <1>1, <1>2, Steps DEF Proceeds, Writes, Stocks, IntakeStocks, DucksRest, DuckStocked

-----------------------------------------------------------------------------
(* While nothing is presented during a takeover, a recovery or a photo.      *)

LEMMA TakesStayAlone ==
  ASSUME TapDuringTakeover = FALSE, Typed, TakesAlone, [Next]_vars
  PROVE  TakesAlone'
<1>1. ASSUME NEW s \in Stations, NEW p, NEW j, Proceeds(s, p, j) PROVE TakesAlone'
  <2> SUFFICES ASSUME NEW t \in Stations, take'[t] # NoTake PROVE job'[t] = Idle
    BY DEF TakesAlone
  <2>1. CASE t # s
    BY <1>1, <2>1 DEF Proceeds, TakesFor, Moved, TakesAlone
  <2>2. CASE t = s /\ j # Idle
    <3>1. take[s] # NoTake /\ job[s] = Idle
      BY <1>1, <2>2 DEF Proceeds, TakesFor, TakesAlone
    <3>2. QED
      BY <1>1, <2>2, <3>1, Zenon DEF Proceeds, Grips
  <2>3. CASE t = s /\ j = Idle
    BY <1>1, <2>3 DEF Proceeds, Moved
  <2>4. QED
    BY <2>1, <2>2, <2>3
<1>2. ASSUME NEW s \in Stations, NEW p, NEW j, Writes(s, p, j) PROVE TakesAlone'
  <2>1. take[s] = NoTake
    BY <1>2 DEF Writes, TakesAlone, Idle
  <2>2. QED
    BY <1>2, <2>1 DEF Writes, Moved, TakesAlone
<1>3. ASSUME NEW s \in Stations, NEW p, Stocks(s, p) PROVE TakesAlone'
  BY <1>3 DEF Stocks, Moved, TakesAlone
<1>4. ASSUME Stands PROVE TakesAlone'
  BY <1>4 DEF Stands, TakesAlone
<1>5. QED
  BY <1>1, <1>2, <1>3, <1>4, Steps DEF IntakeStocks

LEMMA RecoversStayAlone ==
  ASSUME TapDuringRecovery = FALSE, Typed, RecoversAlone, [Next]_vars
  PROVE  RecoversAlone'
<1>1. ASSUME NEW s \in Stations, NEW p, NEW j, Proceeds(s, p, j) PROVE RecoversAlone'
  <2> SUFFICES ASSUME NEW t \in Stations, Recovering(t)' PROVE job'[t] = Idle
    BY DEF RecoversAlone
  <2>1. Recovering(t) \/ (t = s /\ j = Idle)
    BY <1>1 DEF Proceeds, RecoversFor
  <2>2. CASE t # s
    BY <1>1, <2>1, <2>2 DEF Proceeds, Moved, RecoversAlone
  <2>3. CASE t = s /\ j # Idle
    <3>1. Recovering(s) /\ job[s] = Idle
      BY <2>1, <2>3 DEF RecoversAlone
    <3>2. QED
      BY <1>1, <2>3, <3>1, Zenon DEF Proceeds, Grips
  <2>4. CASE t = s /\ j = Idle
    BY <1>1, <2>4 DEF Proceeds, Moved
  <2>5. QED
    BY <2>2, <2>3, <2>4
<1>2. ASSUME NEW s \in Stations, NEW p, NEW j, Writes(s, p, j) PROVE RecoversAlone'
  <2>1. ~Recovering(s)
    BY <1>2 DEF Writes, RecoversAlone, Idle
  <2>2. QED
    BY <1>2, <2>1 DEF Writes, Moved, Recovering, RecoversAlone
<1>3. ASSUME NEW s \in Stations, NEW p, Stocks(s, p) PROVE RecoversAlone'
  BY <1>3 DEF Stocks, Moved, Recovering, RecoversAlone
<1>4. ASSUME Stands PROVE RecoversAlone'
  BY <1>4 DEF Stands, Recovering, RecoversAlone
<1>5. QED
  BY <1>1, <1>2, <1>3, <1>4, Steps DEF IntakeStocks

LEMMA WorksStay ==
  ASSUME Typed, Apart, TakesAlone, RecoversAlone, Works, [Next]_vars
  PROVE  Works'
<1>1. ASSUME NEW s \in Stations, NEW p, NEW j, Proceeds(s, p, j) PROVE Works'
  <2>1. FitsRecord(j, p)
    BY <1>1 DEF Proceeds
  <2>2. QED
    BY <1>1, <2>1 DEF Proceeds, Moved, FitsRecord, Works
<1>2. ASSUME NEW s \in Stations, NEW p, NEW j, Writes(s, p, j) PROVE Works'
  <2> SUFFICES ASSUME NEW t \in Stations
               PROVE  /\ job'[t].step = "write" => page'[t].pending = job'[t].duck
                      /\ job'[t].step \in {"confirm", "commit"} =>
                           sticker'[job'[t].sticker] = job'[t].duck
    BY DEF Works
  <2>1. CASE t = s
    BY <1>2, <2>1 DEF Writes, Moved, Idle
  <2>2. CASE t # s
    <3>1. job'[t] = job[t] /\ page'[t] = page[t] /\ job[s] # Idle
      BY <1>2, <2>2 DEF Writes, Moved, Idle
    <3>2. CASE job[t].step \in {"confirm", "commit"}
      <4>1. job[t] # Idle /\ job[t].sticker \in Stickers
        BY <3>2 DEF Typed, Jobs, Idle
      <4>2. job[t].sticker # job[s].sticker
        BY <2>2, <3>1, <4>1 DEF Apart
      <4>3. sticker'[job[t].sticker] = sticker[job[t].sticker]
        BY <1>2, <4>1, <4>2 DEF Writes
      <4>4. QED
        BY <3>1, <3>2, <4>3 DEF Works
    <3>3. CASE job[t].step \notin {"confirm", "commit"}
      BY <3>1, <3>3 DEF Works
    <3>4. QED
      BY <3>2, <3>3
  <2>3. QED
    BY <2>1, <2>2
<1>3. ASSUME NEW s \in Stations, NEW p, Stocks(s, p) PROVE Works'
  BY <1>3 DEF Stocks, Moved, Works, Idle
<1>4. ASSUME Stands PROVE Works'
  BY <1>4 DEF Stands, Works
<1>5. QED
  BY <1>1, <1>2, <1>3, <1>4, Steps DEF IntakeStocks

LEMMA StockStaysKept ==
  ASSUME Typed, Apart, Works, StockIsKept, [Next]_vars
  PROVE  StockIsKept'
<1>0. Ducks' = Ducks
  BY DEF Ducks
<1>1. ASSUME NEW s \in Stations, NEW p, NEW j, Proceeds(s, p, j) PROVE StockIsKept'
  <2> SUFFICES ASSUME NEW d \in Ducks, duck'[d].at = "stock" PROVE Kept(d)'
    BY <1>0 DEF StockIsKept
  <2>1. duck[d].at = "stock" /\ sticker' = sticker
    BY <1>1 DEF Proceeds, DucksRest, DuckReserved
  <2>2. PICK k \in Stickers : sticker[k] = d /\ ~Overwriting(k)
    BY <2>1 DEF StockIsKept, Kept
  <2>3. ASSUME NEW t \in Stations, job'[t].step \in {"start", "write"}, job'[t].sticker = k
        PROVE  FALSE
    <3>1. CASE t # s
      BY <1>1, <2>2, <2>3, <3>1 DEF Proceeds, Moved, Overwriting
    <3>2. CASE t = s
      <4>1. j = job'[s] /\ j # Idle /\ Grips(s, j)
        BY <1>1, <2>3, <3>2 DEF Proceeds, Moved, Idle
      <4>2. QED
        BY <2>1, <2>2, <2>3, <3>2, <4>1 DEF Grips, Overwriting
    <3>3. QED
      BY <3>1, <3>2
  <2>4. QED
    BY <2>1, <2>2, <2>3 DEF Kept, Overwriting
<1>2. ASSUME NEW s \in Stations, NEW p, NEW j, Writes(s, p, j) PROVE StockIsKept'
  <2> SUFFICES ASSUME NEW d \in Ducks, duck'[d].at = "stock" PROVE Kept(d)'
    BY <1>0 DEF StockIsKept
  <2>1. duck[d].at = "stock"
    BY <1>2 DEF Writes, DucksRest
  <2>2. PICK k \in Stickers : sticker[k] = d /\ ~Overwriting(k)
    BY <2>1 DEF StockIsKept, Kept
  <2>3. k # job[s].sticker
    BY <1>2, <2>2 DEF Writes, Overwriting
  <2>4. sticker'[k] = d
    BY <1>2, <2>2, <2>3 DEF Writes
  <2>5. ASSUME NEW t \in Stations, job'[t].step \in {"start", "write"}, job'[t].sticker = k
        PROVE  FALSE
    BY <1>2, <2>2, <2>5 DEF Writes, Moved, Overwriting, Idle
  <2>6. QED
    BY <2>4, <2>5 DEF Kept, Overwriting
<1>3. ASSUME NEW s \in Stations, NEW p, Stocks(s, p) PROVE StockIsKept'
  <2> SUFFICES ASSUME NEW d \in Ducks, duck'[d].at = "stock" PROVE Kept(d)'
    BY <1>0 DEF StockIsKept
  <2>1. /\ sticker' = sticker
        /\ \A t \in Stations : job'[t].step \in {"start", "write"} => job'[t] = job[t]
    BY <1>3 DEF Stocks, Moved, Idle
  <2>2. \A k \in Stickers : ~Overwriting(k) => ~Overwriting(k)'
    BY <2>1 DEF Overwriting
  <2>3. CASE duck[d].at = "stock"
    BY <2>1, <2>2, <2>3 DEF StockIsKept, Kept
  <2>4. CASE duck[d].at # "stock"
    <3>1. d = job[s].duck /\ job[s].step = "commit"
      BY <1>3, <2>4 DEF Stocks, DuckStocked
    <3>2. PICK k \in Stickers : k = job[s].sticker
      BY <3>1 DEF Typed, Jobs, Idle
    <3>3. sticker[k] = d
      BY <3>1, <3>2 DEF Works
    <3>4. ~Overwriting(k)
      <4> SUFFICES ASSUME NEW t \in Stations, job[t].step \in {"start", "write"}, job[t].sticker = k
                   PROVE  FALSE
        BY DEF Overwriting
      <4>1. t # s /\ job[t] # Idle /\ job[s] # Idle
        BY <3>1 DEF Idle
      <4>2. QED
        BY <3>2, <4>1 DEF Apart
    <3>5. QED
      BY <2>1, <2>2, <3>3, <3>4 DEF Kept
  <2>5. QED
    BY <2>3, <2>4
<1>4. ASSUME Stands PROVE \A d \in Ducks : Kept(d) => Kept(d)'
  BY <1>4 DEF Stands, Kept, Overwriting
<1>5. ASSUME Stands, DucksRest PROVE StockIsKept'
  BY <1>0, <1>4, <1>5 DEF StockIsKept, DucksRest
<1>6. ASSUME NEW k \in Stickers, IntakeStocks(k) PROVE StockIsKept'
  <2> SUFFICES ASSUME NEW d \in Ducks, duck'[d].at = "stock" PROVE Kept(d)'
    BY <1>0 DEF StockIsKept
  <2>1. Stands /\ (duck[d].at = "stock" \/ d = sticker[k])
    BY <1>6 DEF IntakeStocks, DuckStocked
  <2>2. ~Overwriting(k)
    BY <1>6 DEF IntakeStocks, Held, Overwriting
  <2>3. Kept(d)
    BY <2>1, <2>2 DEF StockIsKept, Kept
  <2>4. QED
    BY <1>4, <2>1, <2>3
<1>7. QED
  BY <1>1, <1>2, <1>3, <1>5, <1>6, Steps

-----------------------------------------------------------------------------
(* Theorems.                                                                 *)

LEMMA AtFirst ==
  Init => /\ Typed /\ Apart /\ OneStartedEach
          /\ TakesAlone /\ RecoversAlone /\ Works /\ StockIsKept
<1> SUFFICES ASSUME Init
             PROVE  /\ Typed /\ Apart /\ OneStartedEach
                    /\ TakesAlone /\ RecoversAlone /\ Works /\ StockIsKept
  OBVIOUS
<1>1. \A s \in Stations : job[s] = Idle /\ take[s] = NoTake
  BY DEF Init
<1>2. \A d \in Ducks : duck[d] = Unborn /\ Unborn.at = "none"
  BY UnbornIs DEF Init, Ducks
<1>3. Typed
  <2>1. duck \in [Ducks -> Duck] /\ page \in [Stations -> Record]
    BY UnbornIs, FreshIs DEF Init
  <2>2. /\ job \in [Stations -> Jobs] /\ take \in [Stations -> Takes]
        /\ recovery \in [Stations -> Recoveries]
    BY DEF Init, Jobs, Takes, Recoveries
  <2>3. sticker \in [Stickers -> 0..MaxDucks]
    BY ProvisioningAssumption DEF Init
  <2>4. QED
    BY <2>1, <2>2, <2>3 DEF Init, Typed
<1>4. Apart /\ TakesAlone /\ RecoversAlone /\ Works
  BY <1>1 DEF Apart, TakesAlone, RecoversAlone, Works, Idle
<1>5. OneStartedEach /\ StockIsKept
  BY <1>2 DEF OneStartedEach, Own, Pending, StockIsKept
<1>6. QED
  BY <1>3, <1>4, <1>5

Provisioned == Typed /\ Apart /\ OneStartedEach

LEMMA ProvisionedAlways == Spec => []Provisioned
<1>1. Init => Provisioned
  BY AtFirst DEF Provisioned
<1>2. Provisioned /\ [Next]_vars => Provisioned'
  BY TypedStays, ApartStays, OneStartedStays DEF Provisioned
<1>3. QED
  BY <1>1, <1>2, PTL DEF Spec

\* The variables keep their types: an erased duck keeps no owner and no photo,
\* only a page with a record and an open photo is confirmed, and no sticker is in
\* two hands, even when one is presented during a takeover or a recovery.
THEOREM TypeCorrect == Spec => []TypeOK
<1>1. Provisioned => TypeOK
  <2> SUFFICES ASSUME Provisioned PROVE TypeOK
    OBVIOUS
  <2>0. Typed /\ Apart
    BY DEF Provisioned
  <2>1. duck \in [Ducks -> [at : {"none", "pending", "stock", "gone"},
                owner : Stations \cup {None}, taken : 0..MaxTakeovers,
                photo : {"none", "PENDING", "READY"}]]
    BY <2>0 DEF Typed, Duck
  <2>2. page \in [Stations -> [pending : Ducks \cup {None}, wrote : BOOLEAN,
                confirmed : BOOLEAN, sent : Ducks \cup {None}, photo : Ducks \cup {None}]]
    BY <2>0 DEF Typed, Record
  <2>3. \A d \in Ducks :
          /\ duck[d].at = "gone" => duck[d].owner = None
          /\ duck[d].photo # "none" => duck[d].at = "stock"
    BY <2>0 DEF Typed, Duck
  <2>4. \A s \in Stations : page[s].confirmed => page[s].pending # None /\ page[s].photo # None
    BY <2>0 DEF Typed, Record
  <2>5. \A s \in Stations : job[s].step \in {"idle", "start", "write", "confirm", "commit"}
    BY <2>0 DEF Typed, Jobs, Idle
  <2>6. \A s \in Stations : take[s].step \in {"none", "commit", "answer"}
    BY <2>0 DEF Typed, Takes, NoTake
  <2>7. \A s \in Stations : /\ late[s] \in {"no", "current", "former"}
                           /\ recovery[s].step \in {"none", "asked", "answer"}
    BY <2>0 DEF Typed, Recoveries, NoRecovery
  <2>8. \A s \in Stations : \A t \in Stations \ {s} :
          job[s] # Idle /\ job[t] # Idle => job[s].sticker # job[t].sticker
    BY <2>0 DEF Apart
  <2>9. sticker \in [Stickers -> 0..MaxDucks]
    BY <2>0 DEF Typed
  <2>10. QED
    BY <2>1, <2>2, <2>3, <2>4, <2>5, <2>6, <2>7, <2>8, <2>9 DEF TypeOK
<1>2. QED
  BY <1>1, ProvisionedAlways, PTL

\* Of the tags that wait for their write an operator has started at most one and
\* kept it, whatever answers were lost: the transaction that reserves a duck
\* repeats the handler's check, and only takeovers give an operator more than
\* one.  A tag that ever changed hands is not counted.
THEOREM OneStartedEachHolds == Spec => []OneStartedEach
<1>1. Provisioned => OneStartedEach
  BY DEF Provisioned
<1>2. QED
  BY <1>1, ProvisionedAlways, PTL

\* Where no sticker is presented during a takeover, nor while a recovery's answer
\* is outstanding or the photo it opened is, a duck in stock carries its URL on a
\* sticker: what a page confirms is what the sticker in its hand says, and that
\* sticker is in no other hand; and no page comes to write on the last sticker of
\* a duck in stock.
THEOREM StockIsWrittenHolds ==
  ASSUME TapDuringTakeover = FALSE, TapDuringRecovery = FALSE
  PROVE  Spec => []StockIsWritten
<1> DEFINE Inv == Provisioned /\ TakesAlone /\ RecoversAlone /\ Works /\ StockIsKept
<1>1. Init => Inv
  BY AtFirst DEF Provisioned
<1>2. Inv /\ [Next]_vars => Inv'
  <2> SUFFICES ASSUME Inv, [Next]_vars PROVE Inv'
    OBVIOUS
  <2>1. /\ Typed /\ Apart /\ OneStartedEach
        /\ TakesAlone /\ RecoversAlone /\ Works /\ StockIsKept
    BY DEF Provisioned
  <2>2. Provisioned'
    BY <2>1, TypedStays, ApartStays, OneStartedStays DEF Provisioned
  <2>3. TakesAlone' /\ RecoversAlone' /\ Works' /\ StockIsKept'
    BY <2>1, TakesStayAlone, RecoversStayAlone, WorksStay, StockStaysKept
  <2>4. QED
    BY <2>2, <2>3
<1>3. Inv => StockIsWritten
  BY DEF StockIsWritten, StockIsKept, Kept
<1> HIDE DEF Inv
<1>4. QED
  BY <1>1, <1>2, <1>3, PTL DEF Spec

-----------------------------------------------------------------------------
(* The photo of one duck.                                                    *)

\* The types of the variables.
Working == {"read", "stage", "put", "associate", "check", "queue"}
Types ==
  /\ photo \in [state : {"PENDING", "READY", "gone"}, key : Keys \cup {Nil}]
  /\ saved \in [Commands -> Captures \cup {Nil}]
  /\ objects \subseteq Keys
  /\ cleanup \in [Keys -> {"none", "due"} \cup Uploads]
  /\ upload \in [Uploads -> {Free} \cup [step : Working, key : Keys]]
  /\ drain \in [Drains -> {Free} \cup [step : {"object", "row"}, key : Keys]]
  /\ controller \in [command : Commands \cup {Nil}, awaits : Uploads \cup {Nil},
               done : BOOLEAN]
  /\ faults \in 0..MaxFaults
  /\ doubted \subseteq Keys

\* The request a controller awaits is live and carries the controller's command.
AwaitsItsOwn ==
  controller.awaits # Nil => /\ Key(controller.awaits) \in Keys
                        /\ Key(controller.awaits)[1] = controller.command

\* A READY row names a key, whose command was saved for the same bytes.
ReadyIsSaved ==
  /\ (photo.state = "READY") = (photo.key # Nil)
  /\ photo.state = "READY" => saved[photo.key[1]] = photo.key[2]

Drained(k) == \E x \in Drains : drain[x].key = k

\* While no capture is sent again before its first try is settled, a key has
\* one request, which finds the ledger free, holds it until it has associated
\* or given up, and meets no drain before.
OneRequestEach ==
  \A u, v \in Uploads : Key(u) \in Keys /\ Key(u) = Key(v) => u = v
HoldsLedger ==
  \A u \in Uploads :
    /\ \/ upload[u].step = "read" /\ photo.state = "PENDING"
       \/ upload[u].step = "stage"
       => cleanup[Key(u)] = "none"
    /\ upload[u].step \in {"put", "associate"} => cleanup[Key(u)] = u
NotDrained ==
  \A u \in Uploads :
    \/ upload[u].step = "read" /\ photo.state = "PENDING"
    \/ upload[u].step \in {"stage", "put", "associate"}
    => ~Drained(Key(u))
NotShown ==
  \A u \in Uploads :
    /\ upload[u].step \in {"stage", "put", "associate"} => ~Shown(Key(u))
    /\ upload[u].step = "queue" => ~Shown(Key(u)) \/ Key(u) \in doubted
HasPut == \A u \in Uploads : upload[u].step = "associate" => Key(u) \in objects

\* A drain that has deleted the object finds nobody putting it back.
RowDrainHasNoObject == \A x \in Drains : drain[x].step = "row" => drain[x].key \notin objects

\* What is shown has left the ledger and every drain, unless its own request
\* could not read that it is shown.
ShownIsSafe ==
  \A k \in Keys : Shown(k) /\ k \notin doubted
                  => k \in objects /\ cleanup[k] = "none" /\ ~Drained(k)

Protocol == /\ OneRequestEach /\ HoldsLedger /\ NotDrained /\ NotShown /\ HasPut
            /\ RowDrainHasNoObject /\ ShownIsSafe /\ NothingOrphaned

-----------------------------------------------------------------------------
(* Types.                                                                    *)

\* What a step may be.
LEMMA StepCases ==
  ASSUME [PhotoNext]_photoVars
  PROVE  \/ \E u \in Uploads :
              \/ \E k \in Keys : Send(u, k)
              \/ ReadsRow(u) \/ Stages(u) \/ Puts(u) \/ PutFails(u) \/ Associates(u)
              \/ AssociateFails(u) \/ Checks(u) \/ CheckFails(u) \/ Queues(u) \/ Stops(u)
         \/ \E x \in Drains :
              \/ \E k \in Keys : Picks(x, k)
              \/ DropsObject(x) \/ DropsRow(x) \/ DrainFails(x)
         \/ \E k \in Keys : Expires(k)
         \/ Lost \/ ReloadPage \/ DeletePhoto \/ UNCHANGED photoVars
BY DEF PhotoNext, Runs, Sweeps

\* A request at work has a key of its own, and a free one none.
LEMMA RequestKeys ==
  ASSUME Types, NEW u \in Uploads
  PROVE  /\ upload[u].step \in Working <=> upload[u] # Free
         /\ upload[u] # Free => Key(u) \in Keys
         /\ upload[u] = Free => Key(u) = Nil
         /\ Nil \notin Keys
BY PhotoAssumption DEF Types, Working, Free, Key, Keys

LEMMA GoesType ==
  ASSUME Types, NEW u \in Uploads, upload[u] # Free, NEW step \in Working, Goes(u, step)
  PROVE  /\ upload' \in [Uploads -> {Free} \cup [step : Working, key : Keys]]
         /\ upload' = [upload EXCEPT ![u] = [step |-> step, key |-> Key(u)]]
<1>1. upload[u] \in [step : Working, key : Keys]
  BY DEF Types
<1>2. [upload[u] EXCEPT !.step = step] = [step |-> step, key |-> Key(u)]
  BY <1>1 DEF Key
<1>3. upload' = [upload EXCEPT ![u] = [step |-> step, key |-> Key(u)]]
  BY <1>2 DEF Goes
<1>4. Key(u) \in Keys
  BY <1>1 DEF Key
<1>5. QED
  BY <1>3, <1>4 DEF Types

LEMMA AnswerType ==
  ASSUME Types, NEW u \in Uploads, NEW ok \in BOOLEAN, Answer(u, ok)
  PROVE  /\ upload' \in [Uploads -> {Free} \cup [step : Working, key : Keys]]
         /\ controller' \in [command : Commands \cup {Nil}, awaits : Uploads \cup {Nil},
                       done : BOOLEAN]
BY DEF Types, Answer, NewPage

LEMMA UploadStepTypes ==
  ASSUME Types, NEW u \in Uploads
  PROVE  (\/ \E k \in Keys : Send(u, k)
          \/ ReadsRow(u) \/ Stages(u) \/ Puts(u) \/ PutFails(u) \/ Associates(u)
          \/ AssociateFails(u) \/ Checks(u) \/ CheckFails(u) \/ Queues(u) \/ Stops(u))
         => Types'
<1>1. ASSUME NEW k \in Keys, Send(u, k) PROVE Types'
  BY <1>1 DEF Types, Send, Working, Keys
<1>2. CASE ReadsRow(u)
  BY <1>2, RequestKeys, GoesType, AnswerType DEF Types, ReadsRow, Working
<1>3. CASE Stages(u)
  BY <1>3, RequestKeys, GoesType DEF Types, Stages, Working
<1>4. CASE Puts(u)
  BY <1>4, RequestKeys, GoesType DEF Types, Puts, Working
<1>5. CASE PutFails(u)
  BY <1>5, RequestKeys, GoesType, PhotoAssumption DEF Types, PutFails, Fault, Working
<1>6. CASE Associates(u)
  <2>1. Key(u) \in Keys /\ upload[u] # Free
    BY <1>6, RequestKeys DEF Associates, Working
  <2>2. /\ photo' \in [state : {"PENDING", "READY", "gone"}, key : Keys \cup {Nil}]
        /\ saved' \in [Commands -> Captures \cup {Nil}]
    BY <1>6, <2>1 DEF Associates, Types, Keys
  <2>3. cleanup' \in [Keys -> {"none", "due"} \cup Uploads]
    BY <1>6 DEF Associates, Types
  <2>4. upload' \in [Uploads -> {Free} \cup [step : Working, key : Keys]]
    BY <1>6, <2>1, GoesType DEF Associates, Working
  <2>5. QED
    BY <1>6, <2>2, <2>3, <2>4 DEF Associates, Types
<1>7. CASE AssociateFails(u)
  BY <1>7, RequestKeys, GoesType, PhotoAssumption
  DEF Types, AssociateFails, Fault, Working
<1>8. CASE Checks(u)
  BY <1>8, RequestKeys, GoesType, AnswerType DEF Types, Checks, Working
<1>9. CASE Queues(u)
  BY <1>9, RequestKeys, AnswerType DEF Types, Queues, Working
<1>12. CASE CheckFails(u)
  BY <1>12, RequestKeys, GoesType, PhotoAssumption DEF Types, CheckFails, Fault, Working
<1>10. CASE Stops(u)
  <2>1. upload[u] # Free
    BY <1>10 DEF Stops, Free
  <2>2. faults' \in 0..MaxFaults
    BY <1>10, PhotoAssumption DEF Types, Stops, Fault
  <2>3. QED
    BY <1>10, <2>1, <2>2, AnswerType DEF Types, Stops
<1>11. QED
  BY <1>1, <1>2, <1>3, <1>4, <1>5, <1>6, <1>7, <1>8, <1>9, <1>10, <1>12

LEMMA DrainStepTypes ==
  ASSUME Types, NEW x \in Drains
  PROVE  ((\E k \in Keys : Picks(x, k)) \/ DropsObject(x) \/ DropsRow(x) \/ DrainFails(x))
         => Types'
BY PhotoAssumption DEF Types, Picks, DropsObject, DropsRow, DrainFails, Fault, Free

LEMMA TypesStep == Types /\ [PhotoNext]_photoVars => Types'
<1> SUFFICES ASSUME Types, [PhotoNext]_photoVars PROVE Types'
  OBVIOUS
<1>1. ASSUME NEW k \in Keys, Expires(k) PROVE Types'
  BY <1>1 DEF Types, Expires
<1>2. CASE Lost
  BY <1>2 DEF Types, Lost
<1>3. CASE ReloadPage
  BY <1>3 DEF Types, ReloadPage, NewPage
<1>4. CASE DeletePhoto
  BY <1>4 DEF Types, DeletePhoto, Shown
<1>5. CASE UNCHANGED photoVars
  BY <1>5 DEF Types, photoVars
<1>6. QED
  BY <1>1, <1>2, <1>3, <1>4, <1>5, StepCases, UploadStepTypes, DrainStepTypes

LEMMA InitTypes == PhotoInit => Types
BY PhotoAssumption DEF PhotoInit, Types, NewPage, Keys

-----------------------------------------------------------------------------
(* The protocol.                                                             *)

LEMMA InitProtocol == PhotoInit => Protocol
BY PhotoAssumption
DEF PhotoInit, Protocol, OneRequestEach, HoldsLedger, NotDrained, NotShown, HasPut,
    RowDrainHasNoObject, ShownIsSafe, NothingOrphaned, Shown, Drained, Free, Key, Keys

LEMMA SendProtocol ==
  ASSUME Types, Protocol, RetryEarly = FALSE, NEW u \in Uploads, NEW k \in Keys, Send(u, k)
  PROVE  Protocol'
<1> USE DEF Send, Key, Shown, Drained
<1>0. upload' = [upload EXCEPT ![u] = [step |-> "read", key |-> k]]
  OBVIOUS
<1>1. cleanup[k] = "none" /\ (\A v \in Uploads : Key(v) # k) /\ ~Drained(k)
  BY DEF Settled, Live
<1>2. OneRequestEach'
  BY <1>1 DEF Types, Protocol, OneRequestEach
<1>3. HoldsLedger' /\ NotDrained'
  BY <1>1 DEF Types, Protocol, HoldsLedger, NotDrained
<1>4. NotShown' /\ HasPut'
  BY DEF Types, Protocol, NotShown, HasPut
<1>5. QED
  BY <1>2, <1>3, <1>4 DEF Protocol, RowDrainHasNoObject, ShownIsSafe, NothingOrphaned

LEMMA ReadsProtocol ==
  ASSUME Types, Protocol, NEW u \in Uploads,
         ReadsRow(u)
  PROVE  Protocol'
<1> USE DEF ReadsRow, Key, Shown, Drained, Goes, Answer, Free
<1>1. OneRequestEach'
  BY RequestKeys DEF Types, Protocol, OneRequestEach
<1>2. HoldsLedger' /\ NotDrained'
  BY DEF Types, Protocol, HoldsLedger, NotDrained
<1>3. NotShown' /\ HasPut'
  BY DEF Types, Protocol, NotShown, HasPut
<1>4. QED
  BY <1>1, <1>2, <1>3 DEF Protocol, RowDrainHasNoObject, ShownIsSafe, NothingOrphaned

LEMMA StagesProtocol ==
  ASSUME Types, Protocol, NEW u \in Uploads, Stages(u)
  PROVE  Protocol'
<1> USE DEF Stages, Key, Shown, Drained, Goes, Free
<1>1. upload' = [upload EXCEPT ![u] = [step |-> "put", key |-> Key(u)]] /\ Key(u) \in Keys
  BY RequestKeys, GoesType DEF Working
<1>2. cleanup' = [cleanup EXCEPT ![Key(u)] = u]
  BY DEF Protocol, HoldsLedger
<1>3. OneRequestEach'
  BY <1>1 DEF Types, Protocol, OneRequestEach
<1>4. HoldsLedger'
  BY <1>1, <1>2 DEF Types, Protocol, HoldsLedger, OneRequestEach
<1>5. NotDrained' /\ NotShown' /\ HasPut'
  BY <1>1 DEF Types, Protocol, NotDrained, NotShown, HasPut
<1>6. ShownIsSafe' /\ NothingOrphaned'
  BY <1>1, <1>2, PhotoAssumption
  DEF Types, Protocol, NotShown, ShownIsSafe, NothingOrphaned
<1>7. QED
  BY <1>3, <1>4, <1>5, <1>6 DEF Protocol, RowDrainHasNoObject

LEMMA PutsProtocol ==
  ASSUME Types, Protocol, NEW u \in Uploads, Puts(u) \/ PutFails(u)
  PROVE  Protocol'
<1> USE DEF Key, Shown, Drained, Free
<1>1. PICK step \in {"associate", "queue"} :
        /\ upload' = [upload EXCEPT ![u] = [step |-> step, key |-> Key(u)]]
        /\ objects' \in {objects, objects \cup {Key(u)}}
        /\ step = "associate" => Key(u) \in objects'
  BY RequestKeys, GoesType DEF Working, Puts, PutFails
<1>2. /\ upload[u].step = "put" /\ Key(u) \in Keys
      /\ UNCHANGED <<photo, cleanup, drain, doubted>>
  BY RequestKeys DEF Working, Puts, PutFails
<1>3. OneRequestEach'
  BY <1>1 DEF Types, Protocol, OneRequestEach
<1>4. HoldsLedger' /\ NotDrained' /\ NotShown'
  BY <1>1, <1>2 DEF Types, Protocol, HoldsLedger, NotDrained, NotShown
<1>5. HasPut'
  BY <1>1, <1>2 DEF Types, Protocol, HasPut
<1>6. RowDrainHasNoObject'
  BY <1>1, <1>2 DEF Types, Protocol, NotDrained, RowDrainHasNoObject
<1>7. ShownIsSafe' /\ NothingOrphaned'
  BY <1>1, <1>2, PhotoAssumption DEF Types, Protocol, HoldsLedger, ShownIsSafe, NothingOrphaned
<1>8. QED
  BY <1>3, <1>4, <1>5, <1>6, <1>7 DEF Protocol

LEMMA AssociatesProtocol ==
  ASSUME Types, Protocol, NEW u \in Uploads, Associates(u)
  PROVE  Protocol'
<1> USE DEF Key, Shown, Drained, Free
<1>1. upload' = [upload EXCEPT ![u] = [step |-> "check", key |-> Key(u)]]
  BY RequestKeys, GoesType DEF Working, Associates
<1>2. /\ upload[u].step = "associate" /\ Key(u) \in Keys
      /\ UNCHANGED <<objects, drain, doubted>>
      /\ Key(u) \in objects /\ ~Drained(Key(u)) /\ ~Shown(Key(u))
  BY RequestKeys DEF Working, Associates, Protocol, HasPut, NotDrained, NotShown
<1>3. OneRequestEach'
  BY <1>1 DEF Types, Protocol, OneRequestEach
<1>4. CASE photo.state = "PENDING"
  <2>1. photo' = [state |-> "READY", key |-> Key(u)]
    BY <1>4 DEF Associates
  <2>2. cleanup' = [cleanup EXCEPT ![Key(u)] = "none"]
    BY <1>4, <2>1 DEF Associates
  <2>3. HoldsLedger' /\ NotDrained'
    BY <1>1, <1>2, <2>1, <2>2 DEF Types, Protocol, HoldsLedger, NotDrained, OneRequestEach
  <2>4. NotShown' /\ HasPut'
    BY <1>1, <1>2, <2>1, RequestKeys
    DEF Types, Protocol, NotShown, HasPut, OneRequestEach
  <2>5. ShownIsSafe' /\ NothingOrphaned' /\ RowDrainHasNoObject'
    BY <1>2, <1>4, <2>1, <2>2
    DEF Types, Protocol, ShownIsSafe, NothingOrphaned, RowDrainHasNoObject
  <2>6. QED
    BY <1>3, <2>3, <2>4, <2>5 DEF Protocol
<1>5. CASE photo.state # "PENDING"
  <2>1. photo' = photo
    BY <1>5 DEF Associates
  <2>2. photo # [state |-> "READY", key |-> Key(u)]
    BY <1>2
  <2>3. cleanup' = cleanup
    BY <2>1, <2>2 DEF Associates, Types
  <2>4. HoldsLedger' /\ NotDrained' /\ NotShown' /\ HasPut'
    BY <1>1, <1>2, <2>1, <2>3 DEF Types, Protocol, HoldsLedger, NotDrained, NotShown, HasPut
  <2>5. QED
    BY <1>2, <1>3, <2>1, <2>3, <2>4
    DEF Protocol, ShownIsSafe, NothingOrphaned, RowDrainHasNoObject
<1>6. QED
  BY <1>4, <1>5

LEMMA AssociateFailsProtocol ==
  ASSUME Types, Protocol, NEW u \in Uploads, AssociateFails(u)
  PROVE  Protocol'
<1> USE DEF Key, Shown, Drained, AssociateFails
<1>1. upload' = [upload EXCEPT ![u] = [step |-> "check", key |-> Key(u)]]
  BY RequestKeys, GoesType DEF Working
<1>2. QED
  BY <1>1
  DEF Types, Protocol, OneRequestEach, HoldsLedger, NotDrained, NotShown, HasPut,
      RowDrainHasNoObject, ShownIsSafe, NothingOrphaned

LEMMA ChecksProtocol ==
  ASSUME Types, Protocol, NEW u \in Uploads, Checks(u)
  PROVE  Protocol'
<1> USE DEF Key, Shown, Drained, Checks, Answer, Goes, Free
<1>1. \/ upload' = [upload EXCEPT ![u] = Free]
      \/ upload' = [upload EXCEPT ![u] = [step |-> "queue", key |-> Key(u)]] /\ ~Shown(Key(u))
  BY RequestKeys, GoesType DEF Working
<1>2. OneRequestEach'
  BY <1>1, RequestKeys DEF Types, Protocol, OneRequestEach
<1>3. QED
  BY <1>1, <1>2
  DEF Types, Protocol, HoldsLedger, NotDrained, NotShown, HasPut,
      RowDrainHasNoObject, ShownIsSafe, NothingOrphaned

\* The one request that gives back the key of the READY photo.
LEMMA CheckFailsProtocol ==
  ASSUME Types, Protocol, NEW u \in Uploads, CheckFails(u)
  PROVE  Protocol'
<1> USE DEF Key, Shown, Drained, CheckFails
<1>1. upload' = [upload EXCEPT ![u] = [step |-> "queue", key |-> Key(u)]]
  BY RequestKeys, GoesType DEF Working
<1>2. OneRequestEach'
  BY <1>1 DEF Types, Protocol, OneRequestEach
<1>3. HoldsLedger' /\ NotDrained' /\ NotShown' /\ HasPut'
  BY <1>1 DEF Types, Protocol, HoldsLedger, NotDrained, NotShown, HasPut
<1>4. QED
  BY <1>2, <1>3 DEF Protocol, RowDrainHasNoObject, ShownIsSafe, NothingOrphaned

\* A request that ends leaves the rest as it was.
LEMMA StopsProtocol ==
  ASSUME Types, Protocol, NEW u \in Uploads, Stops(u)
  PROVE  Protocol'
<1> USE DEF Key, Shown, Drained, Stops, Answer, Free
<1>1. OneRequestEach'
  BY RequestKeys DEF Types, Protocol, OneRequestEach
<1>2. QED
  BY <1>1
  DEF Types, Protocol, HoldsLedger, NotDrained, NotShown, HasPut,
      RowDrainHasNoObject, ShownIsSafe, NothingOrphaned

LEMMA QueuesProtocol ==
  ASSUME Types, Protocol, NEW u \in Uploads, Queues(u)
  PROVE  Protocol'
<1> USE DEF Key, Shown, Drained, Queues, Answer, Free
<1>1. upload[u].step = "queue" /\ Key(u) \in Keys /\ (~Shown(Key(u)) \/ Key(u) \in doubted)
  BY RequestKeys DEF Working, Protocol, NotShown
<1>2. OneRequestEach'
  BY RequestKeys DEF Types, Protocol, OneRequestEach
<1>3. HoldsLedger'
  BY <1>1, RequestKeys DEF Types, Protocol, HoldsLedger, OneRequestEach, Working
<1>4. NotDrained' /\ NotShown' /\ HasPut'
  BY DEF Types, Protocol, NotDrained, NotShown, HasPut
<1>5. QED
  BY <1>1, <1>2, <1>3, <1>4
  DEF Types, Protocol, RowDrainHasNoObject, ShownIsSafe, NothingOrphaned

LEMMA ExpiresProtocol ==
  ASSUME Types, Protocol, NEW k \in Keys, Expires(k)
  PROVE  Protocol'
<1> USE DEF Key, Shown, Drained, Expires
<1>1. HoldsLedger'
  BY RequestKeys, PhotoAssumption DEF Types, Protocol, HoldsLedger, Working
<1>2. ShownIsSafe' /\ NothingOrphaned'
  BY PhotoAssumption DEF Types, Protocol, ShownIsSafe, NothingOrphaned
<1>3. QED
  BY <1>1, <1>2
  DEF Protocol, OneRequestEach, NotDrained, NotShown, HasPut, RowDrainHasNoObject

LEMMA DeleteProtocol ==
  ASSUME Types, Protocol, DeletePhoto
  PROVE  Protocol'
<1> USE DEF Key, Shown, Drained, DeletePhoto
<1>1. HoldsLedger'
  BY RequestKeys, PhotoAssumption DEF Types, Protocol, HoldsLedger, NotShown, Working
<1>2. NothingOrphaned'
  BY DEF Types, Protocol, NothingOrphaned
<1>3. QED
  BY <1>1, <1>2
  DEF Protocol, OneRequestEach, NotDrained, NotShown, HasPut, RowDrainHasNoObject,
      ShownIsSafe

LEMMA DrainProtocol ==
  ASSUME Types, Protocol, NEW x \in Drains,
         (\E k \in Keys : Picks(x, k)) \/ DropsObject(x) \/ DropsRow(x) \/ DrainFails(x)
  PROVE  Protocol'
<1> USE DEF Key, Shown, Drained
<1>1. ASSUME NEW k \in Keys, Picks(x, k) PROVE Protocol'
  <2>1. drain' = [drain EXCEPT ![x] = [step |-> "object", key |-> k]] /\ cleanup[k] = "due"
    BY <1>1 DEF Picks
  <2>2. NotDrained'
    BY <1>1, <2>1, PhotoAssumption DEF Picks, Types, Protocol, NotDrained, HoldsLedger
  <2>3. RowDrainHasNoObject' /\ ShownIsSafe'
    BY <1>1, <2>1 DEF Picks, Types, Protocol, RowDrainHasNoObject, ShownIsSafe
  <2>4. QED
    BY <1>1, <2>2, <2>3
    DEF Picks, Protocol, OneRequestEach, HoldsLedger, NotShown, HasPut, NothingOrphaned
<1>2. CASE DropsObject(x)
  <2>1. drain[x].key \in Keys /\ Drained(drain[x].key)
    BY <1>2 DEF DropsObject, Types, Free
  <2>2. drain' = [drain EXCEPT ![x] = [step |-> "row", key |-> drain[x].key]]
    <3>1. drain[x] \in [step : {"object", "row"}, key : Keys]
      BY <1>2 DEF DropsObject, Types, Free
    <3>2. [drain[x] EXCEPT !.step = "row"] = [step |-> "row", key |-> drain[x].key]
      BY <3>1
    <3>3. QED
      BY <1>2, <3>2 DEF DropsObject
  <2>3. HasPut' /\ NotDrained'
    BY <1>2, <2>1, <2>2 DEF DropsObject, Types, Protocol, HasPut, NotDrained
  <2>4. RowDrainHasNoObject' /\ ShownIsSafe' /\ NothingOrphaned'
    BY <1>2, <2>1, <2>2
    DEF DropsObject, Types, Protocol, RowDrainHasNoObject, ShownIsSafe, NothingOrphaned
  <2>5. QED
    BY <1>2, <2>3, <2>4 DEF DropsObject, Protocol, OneRequestEach, HoldsLedger, NotShown
<1>3. CASE DropsRow(x)
  <2>1. drain[x].key \in Keys /\ Drained(drain[x].key) /\ drain[x].key \notin objects
    BY <1>3 DEF DropsRow, Types, Free, Protocol, RowDrainHasNoObject
  <2>2. HoldsLedger'
    BY <1>3, <2>1, RequestKeys
    DEF DropsRow, Types, Protocol, HoldsLedger, NotDrained, Working
  <2>3. NotDrained' /\ RowDrainHasNoObject' /\ ShownIsSafe'
    BY <1>3, <2>1, PhotoAssumption
    DEF DropsRow, Types, Free, Protocol, NotDrained, RowDrainHasNoObject, ShownIsSafe, Keys
  <2>4. NothingOrphaned'
    BY <1>3, <2>1 DEF DropsRow, Types, Protocol, NothingOrphaned
  <2>5. QED
    BY <1>3, <2>2, <2>3, <2>4 DEF DropsRow, Protocol, OneRequestEach, NotShown, HasPut
<1>4. CASE DrainFails(x)
  <2>1. \A k \in Keys : Drained(k)' => Drained(k)
    BY <1>4, RequestKeys, PhotoAssumption DEF DrainFails, Types, Free, Keys
  <2>2. NotDrained'
    BY <1>4, <2>1, RequestKeys DEF DrainFails, Protocol, NotDrained, Working
  <2>3. RowDrainHasNoObject' /\ ShownIsSafe'
    BY <1>4, <2>1 DEF DrainFails, Types, Free, Protocol, RowDrainHasNoObject, ShownIsSafe
  <2>4. QED
    BY <1>4, <2>2, <2>3
    DEF DrainFails, Protocol, OneRequestEach, HoldsLedger, NotShown, HasPut, NothingOrphaned
<1>5. QED
  BY <1>1, <1>2, <1>3, <1>4

LEMMA ProtocolStep ==
  ASSUME Types, Protocol, RetryEarly = FALSE, [PhotoNext]_photoVars
  PROVE  Protocol'
<1>1. CASE Lost \/ ReloadPage \/ UNCHANGED photoVars
  BY <1>1
  DEF Lost, ReloadPage, photoVars, Protocol, OneRequestEach, HoldsLedger, NotDrained, NotShown,
      HasPut, RowDrainHasNoObject, ShownIsSafe, NothingOrphaned, Key, Shown, Drained
<1>2. QED
  BY <1>1, StepCases, SendProtocol, ReadsProtocol, StagesProtocol, PutsProtocol,
     AssociatesProtocol, AssociateFailsProtocol, ChecksProtocol, CheckFailsProtocol,
     QueuesProtocol, StopsProtocol, ExpiresProtocol, DeleteProtocol, DrainProtocol

-----------------------------------------------------------------------------
(* The controller and the saved commands.                                          *)

LEMMA PageStep ==
  ASSUME Types, AwaitsItsOwn, [PhotoNext]_photoVars
  PROVE  AwaitsItsOwn'
<1> USE DEF AwaitsItsOwn, Key
<1>1. ASSUME NEW u \in Uploads, NEW k \in Keys, Send(u, k) PROVE AwaitsItsOwn'
  BY <1>1 DEF Send, Types
<1>2. ASSUME NEW u \in Uploads, NEW ok \in BOOLEAN, Answer(u, ok) PROVE AwaitsItsOwn'
  BY <1>2 DEF Answer, Types, NewPage
<1>3. ASSUME NEW u \in Uploads, upload[u] # Free, NEW step \in Working, Goes(u, step),
             UNCHANGED controller
      PROVE  AwaitsItsOwn'
  BY <1>3, GoesType DEF Types
<1>4. ASSUME UNCHANGED <<upload, controller>> PROVE AwaitsItsOwn'
  BY <1>4
<1>5. CASE Lost \/ ReloadPage
  BY <1>5 DEF Lost, ReloadPage, NewPage, Types
<1>6. ASSUME NEW u \in Uploads,
             \/ ReadsRow(u) \/ Stages(u) \/ Puts(u) \/ PutFails(u) \/ Associates(u)
             \/ AssociateFails(u) \/ Checks(u) \/ CheckFails(u) \/ Queues(u) \/ Stops(u)
      PROVE  AwaitsItsOwn'
  <2>1. \/ \E ok \in BOOLEAN : Answer(u, ok)
        \/ upload[u] # Free /\ UNCHANGED controller /\ \E step \in Working : Goes(u, step)
    <3>1. upload[u] # Free
      <4>1. upload[u].step \in Working \/ upload[u].step # "free"
        BY <1>6, Zenon
        DEF ReadsRow, Stages, Puts, PutFails, Associates, AssociateFails, Checks, CheckFails,
            Queues, Stops, Working
      <4>2. QED
        BY <4>1, RequestKeys DEF Free
    <3>2. CASE \/ Stages(u) \/ Puts(u) \/ PutFails(u) \/ Associates(u)
               \/ AssociateFails(u) \/ CheckFails(u)
      BY <3>1, <3>2 DEF Stages, Puts, PutFails, Associates, AssociateFails, CheckFails, Working
    <3>3. CASE ReadsRow(u) \/ Checks(u) \/ Queues(u) \/ Stops(u)
      BY <3>1, <3>3, Zenon DEF ReadsRow, Checks, Queues, Stops, Working, Shown
    <3>4. QED
      BY <1>6, <3>2, <3>3
  <2>2. QED
    BY <1>2, <1>3, <2>1
<1>7. QED
  BY <1>1, <1>4, <1>5, <1>6, StepCases
  DEF Picks, DropsObject, DropsRow, DrainFails, Expires, DeletePhoto, photoVars

LEMMA SavedStep ==
  ASSUME Types, ReadyIsSaved, [PhotoNext]_photoVars
  PROVE  ReadyIsSaved'
<1> USE DEF ReadyIsSaved
<1>1. ASSUME NEW u \in Uploads, Associates(u) PROVE ReadyIsSaved'
  <2>1. Key(u) \in Keys /\ Key(u) # Nil /\ Key(u)[1] \in Commands
    BY <1>1, RequestKeys DEF Associates, Working, Keys
  <2>2. QED
    BY <1>1, <2>1 DEF Associates, Types
<1>2. CASE DeletePhoto
  BY <1>2 DEF DeletePhoto
<1>3. ASSUME UNCHANGED <<photo, saved>> PROVE ReadyIsSaved'
  BY <1>3
<1>4. ASSUME NEW u \in Uploads,
             \/ ReadsRow(u) \/ Stages(u) \/ Puts(u) \/ PutFails(u)
             \/ AssociateFails(u) \/ Checks(u) \/ CheckFails(u) \/ Queues(u) \/ Stops(u)
      PROVE  ReadyIsSaved'
  <2>1. photo' = photo /\ saved' = saved
    BY <1>4, Zenon
    DEF ReadsRow, Stages, Puts, PutFails, AssociateFails, Checks, CheckFails, Queues, Stops
  <2>2. QED
    BY <1>3, <2>1
<1>5. ASSUME NEW x \in Drains,
             (\E k \in Keys : Picks(x, k)) \/ DropsObject(x) \/ DropsRow(x) \/ DrainFails(x)
      PROVE  ReadyIsSaved'
  BY <1>3, <1>5 DEF Picks, DropsObject, DropsRow, DrainFails
<1>6. ASSUME NEW u \in Uploads, NEW k \in Keys, Send(u, k) PROVE ReadyIsSaved'
  BY <1>3, <1>6 DEF Send
<1>7. ASSUME NEW k \in Keys, Expires(k) PROVE ReadyIsSaved'
  BY <1>3, <1>7 DEF Expires
<1>8. CASE Lost \/ ReloadPage \/ UNCHANGED photoVars
  BY <1>3, <1>8 DEF Lost, ReloadPage, photoVars
<1> HIDE DEF ReadyIsSaved
<1>9. QED
  BY <1>1, <1>2, <1>4, <1>5, <1>6, <1>7, <1>8, StepCases, Zenon

-----------------------------------------------------------------------------
(* The theorems.                                                             *)

\* The rows, the bucket, the ledger, the requests and the controller keep their types
\* through every upload, drain, deletion and fault, and a READY row always names
\* bytes that were saved under its command.
THEOREM PhotoTypeCorrect == PhotoSpec => []PhotoTypeOK
<1>1. PhotoInit => Types /\ AwaitsItsOwn /\ ReadyIsSaved
  BY InitTypes DEF PhotoInit, AwaitsItsOwn, ReadyIsSaved, NewPage
<1>2. Types /\ AwaitsItsOwn /\ ReadyIsSaved /\ [PhotoNext]_photoVars
      => (Types /\ AwaitsItsOwn /\ ReadyIsSaved)'
  BY TypesStep, PageStep, SavedStep
<1>3. Types /\ AwaitsItsOwn /\ ReadyIsSaved => PhotoTypeOK
  BY DEF Types, AwaitsItsOwn, ReadyIsSaved, PhotoTypeOK, Key
<1>4. QED
  BY <1>1, <1>2, <1>3, PTL DEF PhotoSpec

LEMMA ProtocolInvariant ==
  ASSUME RetryEarly = FALSE
  PROVE  PhotoSpec => [](Types /\ ReadyIsSaved /\ Protocol)
<1>1. PhotoInit => Types /\ ReadyIsSaved /\ Protocol
  BY InitTypes, InitProtocol DEF PhotoInit, ReadyIsSaved
<1>2. Types /\ ReadyIsSaved /\ Protocol /\ [PhotoNext]_photoVars
      => (Types /\ ReadyIsSaved /\ Protocol)'
  BY TypesStep, SavedStep, ProtocolStep, Zenon
<1>3. QED
  BY <1>1, <1>2, PTL DEF PhotoSpec

\* Where no capture is sent again before its first try is settled, the object of a
\* READY photo is never deleted: not by the drain of a lost or stopped request,
\* not by the cleanup of a conflicting one, however many run at once; only by the
\* request that associated it and could not read that it had.
THEOREM ReadyHasObjectHolds ==
  ASSUME RetryEarly = FALSE
  PROVE  PhotoSpec => []ReadyHasObject
<1>1. Types /\ ReadyIsSaved /\ Protocol => ReadyHasObject
  BY DEF Types, ReadyIsSaved, Protocol, ShownIsSafe, Shown, ReadyHasObject
<1>2. QED
  BY <1>1, ProtocolInvariant, PTL

\* Under the same condition no object is ever forgotten: it is shown, or the
\* ledger has a row that will lead a drain to it.
THEOREM NothingOrphanedHolds ==
  ASSUME RetryEarly = FALSE
  PROVE  PhotoSpec => []NothingOrphaned
<1>1. Protocol => NothingOrphaned
  BY DEF Protocol
<1>2. QED
  BY <1>1, ProtocolInvariant, PTL
=============================================================================
