-------------------------- MODULE LiveUpdatesProofs --------------------------
(* Proofs about LiveUpdates, for every set of roles and every bound.          *)
EXTENDS LiveUpdates, TLAPS

-----------------------------------------------------------------------------
(* The inductive invariants.                                                 *)

\* A read whose answer may still be painted.
Current(w) == reads[w].of \in {"asked", "rows"}
OneCurrent == \A v, w \in Readers : Current(v) /\ Current(w) => v = w

\* What a read was answered with is no older than what the document shows, and
\* the data is no older than either.
Ahead == /\ shown <= version
         /\ \A w \in Readers : reads[w].of = "rows" => /\ shown <= reads[w].got
                                                       /\ reads[w].got <= version

\* A cleared page has no read that may paint.
StaysClear == page = "cleared" => shown = Nothing /\ \A w \in Readers : ~Current(w)

-----------------------------------------------------------------------------
(* Types, by what the steps change together.                                 *)

ServerTyped == version \in Versions /\ granted \subseteq Roles
LinkTyped == /\ socket \in {"none", "connecting", "open"} /\ wire \subseteq Signals
             /\ wire # {} => socket = "open"
PageTyped == page \in {"up", "leaving", "cleared", "gone"} /\ rendered \subseteq Roles
ShownTyped == shown \in Versions \cup {Nothing}
UserTyped == /\ hidden \in BOOLEAN /\ dirty \in BOOLEAN
             /\ command \in {"none", "sent", "loading"}
LoopTyped == /\ since \in {"unset", "running", "over"} /\ queued \in BOOLEAN
             /\ work \in {"none", "event", "rows"}
ReadsTyped == reads \in [Readers -> Reads]
HubTyped == /\ reload \in BOOLEAN /\ check \in Checks
            /\ timer \in {"off", "set", "waiting"}
TimerFits == page = "up" => (hidden <=> timer = "off")
WorkFits == page = "up" => (work = "rows" <=> reads["work"] # NoRead)
CommandFits == page = "up" => (command = "loading" <=> reads["command"] # NoRead)

LEMMA TypeParts ==
  TypeOK <=> /\ ServerTyped /\ LinkTyped /\ PageTyped /\ ShownTyped /\ UserTyped
             /\ LoopTyped /\ ReadsTyped /\ HubTyped /\ TimerFits /\ WorkFits /\ CommandFits
  BY DEF TypeOK, ServerTyped, LinkTyped, PageTyped, ShownTyped, UserTyped, LoopTyped,
         ReadsTyped, HubTyped, TimerFits, WorkFits, CommandFits

LEMMA TypePartsNext ==
  ASSUME ServerTyped', LinkTyped', PageTyped', ShownTyped', UserTyped', LoopTyped', ReadsTyped',
         HubTyped', TimerFits', WorkFits', CommandFits'
  PROVE  TypeOK'
  BY DEF TypeOK, ServerTyped, LinkTyped, PageTyped, ShownTyped, UserTyped, LoopTyped,
         ReadsTyped, HubTyped, TimerFits, WorkFits, CommandFits, Versions, Reads, Checks

\* What is left alone keeps its type.
LEMMA Alone ==
  ASSUME TypeOK
  PROVE  /\ UNCHANGED server => ServerTyped' /\ version' = version
         /\ UNCHANGED <<socket, wire>> => LinkTyped'
         /\ UNCHANGED <<page, rendered>> => PageTyped'
         /\ UNCHANGED shown => ShownTyped'
         /\ UNCHANGED user => UserTyped'
         /\ UNCHANGED <<since, queued, work>> => LoopTyped'
         /\ UNCHANGED reads => ReadsTyped'
         /\ UNCHANGED hub => HubTyped'
         /\ UNCHANGED <<hidden, timer>> /\ page' \in {page, "leaving", "cleared"} => TimerFits'
         /\ UNCHANGED <<work, reads>> /\ page' \in {page, "leaving", "cleared"} => WorkFits'
         /\ UNCHANGED <<command, reads>> /\ page' \in {page, "leaving", "cleared"} => CommandFits'
  BY TypeParts DEF server, user, hub, ServerTyped, LinkTyped, PageTyped, ShownTyped, UserTyped,
     LoopTyped, ReadsTyped, HubTyped, TimerFits, WorkFits, CommandFits, Versions, Reads, Checks

-----------------------------------------------------------------------------
(* Reads.                                                                    *)

LEMMA VersionsAre ==
  /\ Versions \subseteq Nat /\ 0 \in Versions
  /\ Nothing \in Int /\ \A v \in Versions : Nothing <= v
  BY LiveAssumption DEF Versions, Nothing

LEMMA RowsAreIntegers ==
  /\ \A v \in Versions : v \in Int /\ Nothing <= v
  /\ \A v \in Versions \cup {Nothing} : v \in Int
  BY DEF Versions, Nothing

LEMMA ReadFacts ==
  /\ NoRead \in Reads /\ Asked \in Reads /\ Stale \in Reads
  /\ NoRead.of = "none" /\ Asked.of = "asked" /\ Stale.of = "stale"
  /\ \A v \in Versions : /\ Read("rows", v) \in Reads /\ Read("rows", v).of = "rows"
                         /\ Read("rows", v).got = v
  /\ \A x \in Reads : x.of = "rows" => x.got \in Versions
  /\ \A x \in Reads : x.of = "none" <=> x = NoRead
<1>1. NoRead \in Reads /\ Asked \in Reads /\ Stale \in Reads
  BY DEF Reads
<1>2. NoRead.of = "none" /\ Asked.of = "asked" /\ Stale.of = "stale"
  BY DEF NoRead, Asked, Stale, Read
<1>3. ASSUME NEW v \in Versions
      PROVE  /\ Read("rows", v) \in Reads /\ Read("rows", v).of = "rows"
             /\ Read("rows", v).got = v
  BY DEF Reads, Read
<1> HIDE DEF NoRead, Asked, Stale
<1>4. ASSUME NEW x \in Reads
      PROVE  /\ x.of = "rows" => x.got \in Versions
             /\ x.of = "none" <=> x = NoRead
  <2>1. x \in {NoRead, Asked, Stale} \/ \E v \in Versions : x = Read("rows", v)
    BY DEF Reads
  <2>2. CASE x \in {NoRead, Asked, Stale}
    BY <1>2, <2>2
  <2>3. ASSUME NEW v \in Versions, x = Read("rows", v) PROVE x.of = "rows" /\ x.got \in Versions
    BY <1>3, <2>3
  <2>4. QED
    BY <1>2, <2>1, <2>2, <2>3
<1>5. QED
  BY <1>1, <1>2, <1>3, <1>4

IsCurrent(x) == x.of \in {"asked", "rows"}
\* The reads after some have been made stale.
Retires(rs, new) ==
  /\ new \in [Readers -> Reads]
  /\ \A w \in Readers : /\ new[w] = NoRead <=> rs[w] = NoRead
                        /\ new[w] = rs[w] \/ ~IsCurrent(new[w])

LEMMA RetiredIs ==
  ASSUME NEW rs \in [Readers -> Reads]
  PROVE  /\ Retires(rs, rs) /\ Retires(rs, Retired(rs))
         /\ \A w \in Readers : ~IsCurrent(Retired(rs)[w])
<1>1. Stale # NoRead /\ ~IsCurrent(Stale) /\ ~IsCurrent(NoRead) /\ NoRead \in Reads /\ Stale \in Reads
  BY ReadFacts DEF IsCurrent
<1> HIDE DEF NoRead, Stale
<1>2. QED
  BY <1>1 DEF Retires, Retired

LEMMA OverIs ==
  ASSUME ReadsTyped, NEW w \in Readers
  PROVE  /\ Over(w) \in [Readers -> Reads] /\ Over(w)[w] = NoRead /\ ~IsCurrent(Over(w)[w])
         /\ \A v \in Readers \ {w} : Over(w)[v] = reads[v]
  BY ReadFacts DEF Over, ReadsTyped, IsCurrent

LEMMA BegunIs ==
  ASSUME ReadsTyped, NEW w \in Readers
  PROVE  /\ Begun(w) \in [Readers -> Reads] /\ Begun(w)[w] = Asked /\ Begun(w)[w] # NoRead
         /\ \A v \in Readers \ {w} : /\ ~IsCurrent(Begun(w)[v])
                                     /\ Begun(w)[v] = NoRead <=> reads[v] = NoRead
<1> DEFINE rs == Retired(reads)
<1>1. Retires(reads, rs) /\ \A v \in Readers : ~IsCurrent(rs[v])
  BY RetiredIs DEF ReadsTyped
<1> HIDE DEF rs
<1>2. Begun(w) = [rs EXCEPT ![w] = Asked]
  BY DEF Begun, rs
<1>3. QED
  BY <1>1, <1>2, ReadFacts DEF Retires

-----------------------------------------------------------------------------
(* The refresh queue.                                                        *)

Loop == since' \in {"unset", "running", "over"} /\ queued' \in BOOLEAN
        /\ work' \in {"none", "event", "rows"}
\* The queue has gone on from the reads rs.
Settled(rs) == /\ Loop /\ Retires(rs, reads')
               /\ work' = "rows" <=> reads'["work"] # NoRead

LEMMA RefreshSettles ==
  ASSUME TypeOK, NEW b \in BOOLEAN, NEW d \in BOOLEAN, NEW rs \in [Readers -> Reads],
         NEW twice \in BOOLEAN, work = "rows" <=> rs["work"] # NoRead, Refresh(b, d, rs, twice)
  PROVE  Settled(rs)
<1>1. LoopTyped /\ UserTyped
  BY TypeParts
<1>2. Timed(b, d) \in {"unset", "running", "over"}
  BY <1>1 DEF Timed, LoopTyped, UserTyped
<1>3. since' \in {"unset", "running", "over"}
  BY <1>2 DEF Refresh
<1>4. Retires(rs, rs) /\ Retires(rs, Retired(rs)) /\ "work" \in Readers
  BY RetiredIs DEF Readers
<1>5. CASE work = "none" /\ ~Blocked(b, d)
  <2>1. queued' = twice /\ work' = "event" /\ reads' = Retired(rs)
    BY <1>5 DEF Refresh
  <2>2. QED
    BY <1>3, <1>4, <1>5, <2>1 DEF Settled, Loop, Retires
<1>6. CASE ~(work = "none" /\ ~Blocked(b, d))
  <2>1. queued' = TRUE /\ reads' = rs /\ work' = work
    BY <1>6 DEF Refresh
  <2>2. QED
    BY <1>1, <1>3, <1>4, <2>1 DEF Settled, Loop, LoopTyped
<1>7. QED
  BY <1>5, <1>6

LEMMA WorkDoneSettles ==
  ASSUME TypeOK, NEW rs \in [Readers -> Reads], rs["work"] = NoRead, WorkDone(rs)
  PROVE  Settled(rs)
<1>1. LoopTyped /\ UserTyped
  BY TypeParts
<1>2. Timed(Busy, dirty) \in {"unset", "running", "over"}
  BY <1>1 DEF Timed, LoopTyped, UserTyped
<1>4. Retires(rs, rs) /\ Retires(rs, Retired(rs)) /\ "work" \in Readers
  BY RetiredIs DEF Readers
<1>5. CASE queued /\ ~Blocked(Busy, dirty)
  <2>1. queued' = FALSE /\ work' = "event" /\ reads' = Retired(rs) /\ since' = Timed(Busy, dirty)
    BY <1>5 DEF WorkDone
  <2>2. QED
    BY <1>2, <1>4, <2>1 DEF Settled, Loop, Retires
<1>6. CASE ~(queued /\ ~Blocked(Busy, dirty))
  <2>1. /\ work' = "none" /\ reads' = rs /\ queued' = queued
        /\ since' = IF queued THEN Timed(Busy, dirty) ELSE since
    BY <1>6 DEF WorkDone
  <2>2. QED
    BY <1>1, <1>2, <1>4, <2>1 DEF Settled, Loop, LoopTyped
<1>7. QED
  BY <1>5, <1>6

\* A page at rest is reloaded, or its queue goes on.
Released(rs) == \/ page' = "leaving" /\ reads' = rs /\ Loop
                \/ page' = page /\ Settled(rs)

LEMMA ReleaseReleases ==
  ASSUME TypeOK, NEW b \in BOOLEAN, NEW d \in BOOLEAN, NEW rs \in [Readers -> Reads],
         NEW twice \in BOOLEAN, work = "rows" <=> rs["work"] # NoRead, Release(b, d, rs, twice)
  PROVE  Released(rs)
<1>1. LoopTyped
  BY TypeParts
<1>2. CASE reload /\ ~b /\ ~d
  BY <1>1, <1>2 DEF Release, ReloadPage, Released, Loop, LoopTyped
<1>3. CASE ~(reload /\ ~b /\ ~d)
  BY <1>3, RefreshSettles DEF Release, Released
<1>4. QED
  BY <1>2, <1>3

-----------------------------------------------------------------------------
(* What a step does to the rows that the document shows.                     *)

Grows == version' \in Versions /\ version' >= version
KeepsShut == page' = "cleared" => page = "cleared"
FewerReads == \A w \in Readers : reads'[w] = reads[w] \/ ~IsCurrent(reads'[w])
NoReads == \A w \in Readers : ~IsCurrent(reads'[w])

Quiet == Grows /\ KeepsShut /\ shown' = shown /\ FewerReads
Begins(w) == /\ Grows /\ page' = "up" /\ shown' = shown /\ reads'[w] = Asked
             /\ \A v \in Readers \ {w} : ~IsCurrent(reads'[v])
Answers(w) == /\ version' = version /\ page' = page /\ shown' = shown
              /\ reads[w] = Asked /\ reads'[w] = Read("rows", version)
              /\ \A v \in Readers \ {w} : reads'[v] = reads[v]
Paints(w) == /\ version' = version /\ KeepsShut /\ FewerReads /\ ~IsCurrent(reads'[w])
             /\ reads[w].of \in {"rows", "stale"} /\ shown' = Painted(reads[w])
Clears == Grows /\ page = "up" /\ page' = "cleared" /\ shown' = Nothing /\ NoReads
Leaves == Grows /\ page # "up" /\ page' # "cleared" /\ shown' = Nothing /\ NoReads
Shape == \/ Quiet \/ Clears \/ Leaves
         \/ \E w \in Readers : Begins(w) \/ Answers(w) \/ Paints(w)

LEMMA Stands ==
  ASSUME TypeOK, UNCHANGED version
  PROVE  /\ Grows
         /\ UNCHANGED <<page, shown, reads>> => Quiet
<1>1. version \in Versions /\ version \in Nat
  BY TypeParts, VersionsAre DEF ServerTyped
<1>2. Versions' = Versions
  BY DEF Versions
<1>3. QED
  BY <1>1, <1>2 DEF Grows, Quiet, KeepsShut, FewerReads

LEMMA Grown ==
  ASSUME TypeOK, version < MaxVersion, version' = version + 1
  PROVE  /\ Grows
         /\ UNCHANGED <<page, shown, reads>> => Quiet
<1>1. version \in Versions /\ version \in Nat /\ MaxVersion \in Nat
  BY TypeParts, VersionsAre, LiveAssumption DEF ServerTyped
<1>2. version + 1 \in Versions
  BY <1>1 DEF Versions
<1>3. QED
  BY <1>1, <1>2 DEF Grows, Quiet, KeepsShut, FewerReads

LEMMA PublishTyped ==
  ASSUME TypeOK, NEW signal \in Signals, Publish(signal)
  PROVE  LinkTyped'
<1>1. LinkTyped
  BY TypeParts
<1>2. PICK told \in BOOLEAN :
        /\ told => socket = "open" /\ page = "up"
        /\ wire' = IF told THEN wire \cup {signal} ELSE wire
        /\ UNCHANGED socket
  BY DEF Publish
<1>3. QED
  BY <1>1, <1>2 DEF LinkTyped, Signals

LEMMA AskTyped == ASSUME TypeOK, Ask PROVE check' \in Checks
<1>1. check \in Checks
  BY TypeParts DEF HubTyped
<1>2. NoCheck \in Checks /\ [of |-> "asked"] \in Checks
  BY DEF Checks
<1>3. QED
  BY <1>1, <1>2 DEF Ask

LEMMA ArmedIs == ASSUME TypeOK PROVE Armed \in {"off", "set"} /\ (hidden <=> Armed = "off")
  BY TypeParts DEF UserTyped, Armed

-----------------------------------------------------------------------------
(* The server, the socket, and the checks.                                   *)

Fine == TypeOK' /\ Shape

LEMMA CommitFine == ASSUME TypeOK, Commit PROVE Fine
<1>1. /\ version < MaxVersion /\ version' = version + 1
      /\ UNCHANGED <<granted, document, user, queue, hub, spent>>
      /\ \E signal \in {"data", "all"} : Publish(signal)
  BY DEF Commit
<1>2. UNCHANGED <<page, rendered, shown, hidden, dirty, command, since, queued, work, reads,
                  reload, check, timer>>
  BY <1>1 DEF document, user, queue, hub
<1>3. LinkTyped'
  BY <1>1, PublishTyped DEF Signals
<1>4. Grows /\ Quiet
  BY <1>1, <1>2, Grown
<1>5. ServerTyped'
  BY <1>1, <1>4, TypeParts DEF Grows, ServerTyped, Versions
<1>6. TypeOK'
  BY <1>2, <1>3, <1>5, Alone, TypePartsNext DEF user, hub
<1>7. QED
  BY <1>4, <1>6 DEF Fine, Shape

LEMMA ChangeRolesFine == ASSUME TypeOK, ChangeRoles PROVE Fine
<1>1. PICK roles \in SUBSET Roles :
        /\ granted' = roles /\ Publish("staff")
        /\ UNCHANGED <<version, document, user, queue, hub>>
  BY DEF ChangeRoles
<1>2. UNCHANGED <<page, rendered, shown, hidden, dirty, command, since, queued, work, reads,
                  reload, check, timer>>
  BY <1>1 DEF document, user, queue, hub
<1>3. LinkTyped'
  BY <1>1, PublishTyped DEF Signals
<1>4. Quiet
  BY <1>1, <1>2, Stands
<1>5. ServerTyped'
  BY <1>1, TypeParts DEF ServerTyped, Versions
<1>6. TypeOK'
  BY <1>2, <1>3, <1>5, Alone, TypePartsNext DEF user, hub
<1>7. QED
  BY <1>4, <1>6 DEF Fine, Shape

LEMMA SocketFine == ASSUME TypeOK, Opened \/ Closed \/ Reconnect PROVE Fine
<1>1. /\ UNCHANGED <<version, granted, page, rendered, shown, hidden, dirty, command,
                     since, queued, work, reads, reload>>
      /\ page = "up"
  BY DEF Opened, Closed, Reconnect, server, document, user, queue, hub, Up
<1>2. LinkTyped'
  BY TypeParts DEF Opened, Closed, Reconnect, LinkTyped
<1>3. /\ check' \in Checks
      /\ \/ timer' = Armed
         \/ timer' = timer
  BY AskTyped, TypeParts DEF Opened, Closed, Reconnect, hub, HubTyped, Checks
<1>4. HubTyped' /\ TimerFits'
  BY <1>1, <1>3, ArmedIs, TypeParts DEF HubTyped, TimerFits, Checks
<1>5. Quiet
  BY <1>1, Stands
<1>6. TypeOK'
  BY <1>1, <1>2, <1>4, Alone, TypePartsNext DEF server, user
<1>7. QED
  BY <1>5, <1>6 DEF Fine, Shape

LEMMA PollFine == ASSUME TypeOK, Poll \/ CheckAnswered PROVE Fine
<1>1. /\ UNCHANGED <<version, granted, socket, wire, page, rendered, shown, hidden, dirty,
                     command, since, queued, work, reads, reload>>
      /\ page = "up"
  BY DEF Poll, CheckAnswered, server, link, document, user, queue, Up
<1>2. check' \in Checks
  <2>1. CASE Poll
    BY <2>1, AskTyped DEF Poll
  <2>2. CASE CheckAnswered
    <3>1. check' = [of |-> "answer", roles |-> granted] /\ granted \in SUBSET Roles
      BY <2>2, TypeParts DEF CheckAnswered, ServerTyped
    <3>2. QED
      BY <3>1 DEF Checks
  <2>3. QED
    BY <2>1, <2>2
<1>3. timer' = timer \/ (timer = "set" /\ timer' = "waiting")
  BY DEF Poll, CheckAnswered
<1>4. HubTyped' /\ TimerFits'
  BY <1>1, <1>2, <1>3, TypeParts DEF HubTyped, TimerFits, Checks
<1>5. Quiet
  BY <1>1, Stands
<1>6. TypeOK'
  BY <1>1, <1>4, Alone, TypePartsNext DEF server, user
<1>7. QED
  BY <1>5, <1>6 DEF Fine, Shape

-----------------------------------------------------------------------------
(* The page, its queue, and its reads.                                       *)

Kept(rs) == \A w \in Readers : rs[w] = reads[w] \/ ~IsCurrent(rs[w])

\* What holds of a page in use after a step from the reads rs.
LEMMA ReleasedGoes ==
  ASSUME TypeOK, page = "up", NEW rs \in [Readers -> Reads], Released(rs), Kept(rs),
         command' = "loading" <=> rs["command"] # NoRead
  PROVE  /\ LoopTyped' /\ ReadsTyped' /\ WorkFits' /\ CommandFits'
         /\ page' \in {"up", "leaving"} /\ KeepsShut /\ FewerReads
<1>1. "command" \in Readers /\ "work" \in Readers
  BY DEF Readers
<1>2. CASE page' = "leaving" /\ reads' = rs /\ Loop
  <2>1. LoopTyped' /\ ReadsTyped'
    BY <1>2 DEF Loop, LoopTyped, ReadsTyped, Reads, Versions
  <2>2. QED
    BY <1>2, <2>1 DEF WorkFits, CommandFits, KeepsShut, FewerReads, Kept
<1>3. CASE page' = page /\ Settled(rs)
  <2>1. LoopTyped' /\ ReadsTyped'
    BY <1>3 DEF Settled, Loop, Retires, LoopTyped, ReadsTyped, Reads, Versions
  <2>2. WorkFits' /\ CommandFits'
    BY <1>1, <1>3 DEF Settled, Retires, WorkFits, CommandFits
  <2>3. FewerReads
    BY <1>3 DEF Settled, Retires, FewerReads, Kept
  <2>4. QED
    BY <1>3, <2>1, <2>2, <2>3 DEF KeepsShut
<1>4. QED
  BY <1>2, <1>3 DEF Released

LEMMA RefreshNowGoes ==
  ASSUME TypeOK, page = "up", RefreshNow, UNCHANGED <<version, command>>
  PROVE  /\ LoopTyped' /\ ReadsTyped' /\ WorkFits' /\ CommandFits' /\ Quiet
         /\ UNCHANGED <<page, rendered, shown>>
<1>1. ReadsTyped /\ UserTyped /\ WorkFits /\ CommandFits
  BY TypeParts
<1>2. /\ Busy \in BOOLEAN /\ dirty \in BOOLEAN /\ reads \in [Readers -> Reads]
      /\ work = "rows" <=> reads["work"] # NoRead
      /\ command' = "loading" <=> reads["command"] # NoRead
  BY <1>1 DEF Busy, UserTyped, ReadsTyped, WorkFits, CommandFits
<1>3. Refresh(Busy, dirty, reads, FALSE) /\ UNCHANGED <<page, rendered, shown>>
  BY DEF RefreshNow, document
<1>4. Settled(reads)
  BY <1>2, <1>3, RefreshSettles
<1>5. Released(reads) /\ Kept(reads)
  BY <1>3, <1>4 DEF Released, Kept
<1>6. QED
  BY <1>2, <1>3, <1>5, ReleasedGoes, Stands DEF Quiet

LEMMA ClearPageGoes ==
  ASSUME TypeOK, page = "up", ClearPage, UNCHANGED version
  PROVE  /\ LoopTyped' /\ ReadsTyped' /\ PageTyped' /\ ShownTyped' /\ WorkFits' /\ CommandFits'
         /\ Clears
<1>1. reads' = Retired(reads) /\ page' = "cleared" /\ shown' = Nothing
      /\ UNCHANGED <<rendered, since, queued, work>>
  BY DEF ClearPage
<1>2. ReadsTyped /\ LoopTyped /\ PageTyped
  BY TypeParts
<1>3. Retires(reads, reads') /\ NoReads
  BY <1>1, <1>2, RetiredIs DEF ReadsTyped, NoReads
<1>4. ReadsTyped'
  BY <1>3 DEF Retires, ReadsTyped, Reads, Versions
<1>5. PageTyped' /\ ShownTyped' /\ LoopTyped'
  BY <1>1, <1>2 DEF PageTyped, ShownTyped, LoopTyped
<1>6. QED
  BY <1>1, <1>3, <1>4, <1>5, Stands DEF WorkFits, CommandFits, Clears

LEMMA HearFine == ASSUME TypeOK, Hear PROVE Fine
<1>1. PICK signal \in wire :
        /\ Up /\ wire' = wire \ {signal}
        /\ CASE signal = "all" -> ClearPage /\ UNCHANGED check
             [] signal = "staff" -> Ask /\ UNCHANGED <<document, queue>>
             [] signal = "data" -> RefreshNow /\ UNCHANGED check
        /\ UNCHANGED <<server, socket, user, reload, timer, spent>>
  BY DEF Hear
<1>2. UNCHANGED <<version, granted, socket, hidden, dirty, command, reload, timer>>
      /\ page = "up"
  BY <1>1 DEF server, user, Up
<1>3. LinkTyped'
  BY <1>1, <1>2, TypeParts DEF LinkTyped
<1>4. signal \in {"all", "staff", "data"}
  BY TypeParts DEF LinkTyped, Signals
<1>5. CASE signal = "all"
  <2>1. ClearPage /\ UNCHANGED check
    BY <1>1, <1>5
  <2>2. HubTyped' /\ TimerFits'
    BY <1>2, <2>1, TypeParts DEF HubTyped, TimerFits, ClearPage, Checks
  <2>3. QED
    BY <1>2, <1>3, <2>1, <2>2, ClearPageGoes, Alone, TypePartsNext DEF Fine, Shape, server, user
<1>6. CASE signal = "staff"
  <2>1. Ask /\ UNCHANGED <<page, rendered, shown, since, queued, work, reads>>
    BY <1>1, <1>6 DEF document, queue
  <2>2. HubTyped'
    BY <1>2, <2>1, AskTyped, TypeParts DEF HubTyped, Checks
  <2>3. QED
    BY <1>2, <1>3, <2>1, <2>2, Stands, Alone, TypePartsNext DEF Fine, Shape, server, user
<1>7. CASE signal = "data"
  <2>1. RefreshNow /\ UNCHANGED check
    BY <1>1, <1>7
  <2>2. /\ LoopTyped' /\ ReadsTyped' /\ WorkFits' /\ CommandFits' /\ Quiet
        /\ UNCHANGED <<page, rendered, shown>>
    BY <1>2, <2>1, RefreshNowGoes
  <2>3. QED
    BY <1>2, <1>3, <2>1, <2>2, Alone, TypePartsNext DEF Fine, Shape, server, user, hub
<1>8. QED
  BY <1>4, <1>5, <1>6, <1>7

LEMMA CheckDoneIs ==
  ASSUME TypeOK, CheckDone
  PROVE  /\ check' \in Checks /\ timer' \in {"off", "set", "waiting"}
         /\ timer' = "off" <=> timer = "off"
<1>1. HubTyped
  BY TypeParts
<1>2. check' \in Checks
  BY DEF CheckDone, Checks
<1>3. QED
  BY <1>1, <1>2 DEF CheckDone, HubTyped

LEMMA CheckArrivesFine == ASSUME TypeOK, CheckArrives PROVE Fine
<1>1. /\ CheckDone /\ page = "up"
      /\ UNCHANGED <<version, granted, socket, wire, hidden, dirty, command>>
  BY DEF CheckArrives, server, link, user, Up
<1>2. /\ check' \in Checks /\ timer' \in {"off", "set", "waiting"}
      /\ timer' = "off" <=> timer = "off"
  BY <1>1, CheckDoneIs
<1>3. reload' \in BOOLEAN => HubTyped'
  BY <1>2 DEF HubTyped, Checks
<1>4. TimerFits'
  BY <1>1, <1>2, TypeParts DEF TimerFits
<1>5. reload \in BOOLEAN
  BY TypeParts DEF HubTyped
<1>6. CASE check.roles = rendered
  <2>1. RefreshNow /\ UNCHANGED reload
    BY <1>6 DEF CheckArrives, Reduced
  <2>2. /\ LoopTyped' /\ ReadsTyped' /\ WorkFits' /\ CommandFits' /\ Quiet
        /\ UNCHANGED <<page, rendered, shown>>
    BY <1>1, <2>1, RefreshNowGoes
  <2>3. QED
    BY <1>1, <1>3, <1>4, <1>5, <2>1, <2>2, Alone, TypePartsNext DEF Fine, Shape, server, user
<1>7. CASE ClearPage /\ UNCHANGED reload
  BY <1>1, <1>3, <1>4, <1>5, <1>7, ClearPageGoes, Alone, TypePartsNext
     DEF Fine, Shape, server, user
<1>8. CASE /\ reload' = TRUE
           /\ UNCHANGED <<rendered, shown>>
           /\ IF Busy \/ dirty THEN UNCHANGED <<page, queue>>
              ELSE ReloadPage(reads)
  <2>1. /\ UNCHANGED <<rendered, shown, since, queued, work, reads>>
        /\ page' \in {page, "leaving"}
    BY <1>8 DEF queue, ReloadPage
  <2>2. PageTyped' /\ KeepsShut
    BY <2>1, TypeParts DEF PageTyped, KeepsShut
  <2>3. Quiet
    BY <1>1, <2>1, <2>2, Stands DEF Quiet, FewerReads
  <2>4. WorkFits' /\ CommandFits'
    BY <1>1, <2>1, TypeParts DEF WorkFits, CommandFits
  <2>5. QED
    BY <1>1, <1>3, <1>4, <1>8, <2>1, <2>2, <2>3, <2>4, Alone, TypePartsNext
       DEF Fine, Shape, server, user
<1>9. QED
  BY <1>6, <1>7, <1>8 DEF CheckArrives

LEMMA CheckFailsFine == ASSUME TypeOK, CheckFails PROVE Fine
<1>1. /\ CheckDone /\ RefreshNow /\ page = "up"
      /\ UNCHANGED <<version, granted, socket, wire, hidden, dirty, command, reload>>
  BY DEF CheckFails, server, link, user, Up
<1>2. HubTyped' /\ TimerFits'
  <2>1. /\ check' \in Checks /\ timer' \in {"off", "set", "waiting"}
        /\ timer' = "off" <=> timer = "off"
    BY <1>1, CheckDoneIs
  <2>2. QED
    BY <1>1, <2>1, TypeParts DEF HubTyped, TimerFits, Checks, RefreshNow, document
<1>3. /\ LoopTyped' /\ ReadsTyped' /\ WorkFits' /\ CommandFits' /\ Quiet
      /\ UNCHANGED <<page, rendered, shown>>
  BY <1>1, RefreshNowGoes
<1>4. QED
  BY <1>1, <1>2, <1>3, Alone, TypePartsNext DEF Fine, Shape, server, user

-----------------------------------------------------------------------------
(* Reading.                                                                  *)

LEMMA ReleasedEnds ==
  ASSUME NEW rs, Released(rs), NEW w \in Readers, ~IsCurrent(rs[w])
  PROVE  ~IsCurrent(reads'[w])
  BY DEF Released, Settled, Retires

LEMMA ThenGoes ==
  ASSUME TypeOK, page = "up", NEW w \in Readers, NEW done \in BOOLEAN, Then(w, done),
         UNCHANGED hidden
  PROVE  /\ LoopTyped' /\ ReadsTyped' /\ WorkFits' /\ CommandFits' /\ UserTyped'
         /\ page' \in {"up", "leaving"} /\ KeepsShut /\ FewerReads /\ ~IsCurrent(reads'[w])
<1> DEFINE rs == Over(w)
<1>1. LoopTyped /\ ReadsTyped /\ UserTyped /\ WorkFits /\ CommandFits
  BY TypeParts
<1>2. /\ rs \in [Readers -> Reads] /\ rs[w] = NoRead /\ ~IsCurrent(rs[w])
      /\ \A v \in Readers \ {w} : rs[v] = reads[v]
  BY <1>1, OverIs
<1>3. "work" \in Readers /\ "filter" \in Readers /\ "command" \in Readers
      /\ w \in {"work", "filter", "command"}
  BY DEF Readers
<1>4. Kept(rs) /\ Retires(rs, rs)
  BY <1>2, RetiredIs DEF Kept
<1>5. w # "work" => (work = "rows" <=> rs["work"] # NoRead)
  BY <1>1, <1>2, <1>3 DEF WorkFits
<1>6. w # "command" => (command = "loading" <=> rs["command"] # NoRead)
  BY <1>1, <1>2, <1>3 DEF CommandFits
<1>7. Busy \in BOOLEAN /\ dirty \in BOOLEAN
  BY <1>1 DEF Busy, UserTyped
<1> HIDE DEF rs
<1>8. ASSUME Released(rs), command' = "loading" <=> rs["command"] # NoRead, UserTyped'
      PROVE  /\ LoopTyped' /\ ReadsTyped' /\ WorkFits' /\ CommandFits' /\ UserTyped'
             /\ page' \in {"up", "leaving"} /\ KeepsShut /\ FewerReads /\ ~IsCurrent(reads'[w])
  BY <1>2, <1>4, <1>8, ReleasedGoes, ReleasedEnds
<1>9. CASE w = "work"
  <2>1. WorkDone(rs) /\ UNCHANGED <<page, dirty, command>>
    BY <1>9 DEF Then, rs
  <2>2. Released(rs)
    BY <1>2, <1>9, <2>1, WorkDoneSettles DEF Released
  <2>3. UserTyped'
    BY <1>1, <2>1 DEF UserTyped
  <2>4. command' = "loading" <=> rs["command"] # NoRead
    BY <1>6, <1>9, <2>1
  <2>5. QED
    BY <1>8, <2>2, <2>3, <2>4
<1>10. CASE w = "filter" /\ ~done
  <2>1. reads' = rs /\ UNCHANGED <<page, dirty, command, since, queued, work>>
    BY <1>10 DEF Then, rs
  <2>2. Released(rs)
    BY <1>1, <1>4, <1>5, <1>10, <2>1 DEF Released, Settled, Loop, LoopTyped
  <2>3. UserTyped'
    BY <1>1, <2>1 DEF UserTyped
  <2>4. command' = "loading" <=> rs["command"] # NoRead
    BY <1>6, <1>10, <2>1
  <2>5. QED
    BY <1>8, <2>2, <2>3, <2>4
<1>11. CASE w = "filter" /\ done
  <2>1. Release(Busy, dirty, rs, FALSE) /\ UNCHANGED <<dirty, command>>
    BY <1>11 DEF Then, rs
  <2>2. Released(rs)
    BY <1>2, <1>5, <1>7, <1>11, <2>1, ReleaseReleases
  <2>3. UserTyped'
    BY <1>1, <2>1 DEF UserTyped
  <2>4. command' = "loading" <=> rs["command"] # NoRead
    BY <1>6, <1>11, <2>1
  <2>5. QED
    BY <1>8, <2>2, <2>3, <2>4
<1>12. CASE w = "command"
  <2>1. /\ command' = "none" /\ dirty' = (dirty /\ ~done)
        /\ Release(FALSE, dirty /\ ~done, rs, TRUE)
    BY <1>12 DEF Then, rs
  <2>2. (dirty /\ ~done) \in BOOLEAN
    OBVIOUS
  <2>3. Released(rs)
    BY <1>2, <1>5, <1>12, <2>1, <2>2, ReleaseReleases
  <2>4. UserTyped'
    BY <1>1, <2>1 DEF UserTyped
  <2>5. command' = "loading" <=> rs["command"] # NoRead
    BY <1>2, <1>12, <2>1
  <2>6. QED
    BY <1>8, <2>3, <2>4, <2>5
<1>13. QED
  BY <1>3, <1>9, <1>10, <1>11, <1>12

LEMMA EventFine == ASSUME TypeOK, EventArrives \/ EventFails PROVE Fine
<1>1. /\ page = "up" /\ work = "event"
      /\ UNCHANGED <<version, granted, socket, wire, page, rendered, shown, hidden, dirty,
                     command, reload, check, timer>>
  BY DEF EventArrives, EventFails, server, link, document, user, hub, Up
<1>2. LoopTyped /\ ReadsTyped /\ UserTyped /\ WorkFits /\ CommandFits
  BY TypeParts
<1>3. "work" \in Readers /\ "command" \in Readers
  BY DEF Readers
<1>4. ASSUME LoopTyped', ReadsTyped', WorkFits', CommandFits', Shape PROVE Fine
  BY <1>1, <1>4, Alone, TypePartsNext DEF Fine, server, user, hub
<1>5. CASE EventFails
  <2>1. work' = "none" /\ UNCHANGED <<since, queued, reads>>
    BY <1>5 DEF EventFails
  <2>2. LoopTyped' /\ ReadsTyped' /\ WorkFits' /\ CommandFits'
    BY <1>1, <1>2, <2>1 DEF LoopTyped, ReadsTyped, WorkFits, CommandFits, Reads, Versions
  <2>3. QED
    BY <1>1, <1>4, <2>1, <2>2, Stands DEF Shape
<1>6. CASE EventArrives /\ hidden
  <2>1. WorkDone(reads) /\ reads \in [Readers -> Reads] /\ reads["work"] = NoRead
    BY <1>1, <1>2, <1>6 DEF EventArrives, WorkFits, ReadsTyped
  <2>2. Settled(reads)
    BY <2>1, WorkDoneSettles
  <2>3. Released(reads) /\ Kept(reads)
    BY <1>1, <2>2 DEF Released, Kept
  <2>4. /\ LoopTyped' /\ ReadsTyped' /\ WorkFits' /\ CommandFits' /\ KeepsShut /\ FewerReads
    BY <1>1, <1>2, <2>1, <2>3, ReleasedGoes DEF CommandFits
  <2>5. QED
    BY <1>1, <1>4, <2>4, Stands DEF Shape, Quiet
<1>7. CASE EventArrives /\ ~hidden
  <2>1. work' = "rows" /\ reads' = Begun("work") /\ UNCHANGED <<since, queued>>
    BY <1>7 DEF EventArrives
  <2>2. /\ reads' \in [Readers -> Reads] /\ reads'["work"] = Asked /\ reads'["work"] # NoRead
        /\ \A v \in Readers \ {"work"} : /\ ~IsCurrent(reads'[v])
                                         /\ reads'[v] = NoRead <=> reads[v] = NoRead
    BY <1>2, <1>3, <2>1, BegunIs
  <2>3. LoopTyped' /\ ReadsTyped' /\ WorkFits' /\ CommandFits'
    BY <1>1, <1>2, <1>3, <2>1, <2>2
       DEF LoopTyped, ReadsTyped, WorkFits, CommandFits, Reads, Versions
  <2>4. Begins("work")
    BY <1>1, <2>2, Stands DEF Begins
  <2>5. QED
    BY <1>3, <1>4, <2>3, <2>4 DEF Shape
<1>8. QED
  BY <1>5, <1>6, <1>7

LEMMA AnsweredFine == ASSUME TypeOK, NEW w \in Readers, Answered(w) PROVE Fine
<1>1. /\ reads[w] = Asked /\ reads' = [reads EXCEPT ![w] = Read("rows", version)]
      /\ UNCHANGED <<version, granted, socket, wire, page, rendered, shown, hidden, dirty,
                     command, since, queued, work, reload, check, timer>>
  BY DEF Answered, server, link, document, user, hub
<1>2. ReadsTyped /\ ServerTyped /\ WorkFits /\ CommandFits
  BY TypeParts
<1>3. Read("rows", version) \in Reads /\ Read("rows", version) # NoRead /\ reads[w] # NoRead
  BY <1>1, <1>2, ReadFacts DEF ServerTyped
<1>4. /\ reads' \in [Readers -> Reads] /\ reads'[w] = Read("rows", version)
      /\ \A v \in Readers \ {w} : reads'[v] = reads[v]
  BY <1>1, <1>2, <1>3 DEF ReadsTyped
<1>5. ReadsTyped' /\ WorkFits' /\ CommandFits'
  BY <1>1, <1>2, <1>3, <1>4 DEF ReadsTyped, WorkFits, CommandFits, Readers, Reads, Versions
<1>6. Answers(w)
  BY <1>1, <1>4 DEF Answers
<1>7. QED
  BY <1>1, <1>5, <1>6, Alone, TypePartsNext DEF Fine, Shape, server, user, hub

LEMMA PaintedTyped ==
  ASSUME TypeOK, NEW w \in Readers PROVE Painted(reads[w]) \in Versions \cup {Nothing}
<1>1. reads[w] \in Reads /\ shown \in Versions \cup {Nothing}
  BY TypeParts DEF ReadsTyped, ShownTyped
<1>2. QED
  BY <1>1, ReadFacts DEF Painted

LEMMA ReadArrivesFine == ASSUME TypeOK, NEW w \in Readers, ReadArrives(w) PROVE Fine
<1>1. /\ page = "up" /\ reads[w].of \in {"rows", "stale"} /\ shown' = Painted(reads[w])
      /\ Then(w, TRUE)
      /\ UNCHANGED <<version, granted, socket, wire, rendered, hidden, reload, check, timer>>
  BY DEF ReadArrives, server, link, hub, Up
<1>2. /\ LoopTyped' /\ ReadsTyped' /\ WorkFits' /\ CommandFits' /\ UserTyped'
      /\ page' \in {"up", "leaving"} /\ KeepsShut /\ FewerReads /\ ~IsCurrent(reads'[w])
  BY <1>1, ThenGoes
<1>3. PageTyped' /\ TimerFits'
  BY <1>1, <1>2, TypeParts DEF PageTyped, TimerFits
<1>4. ShownTyped'
  BY <1>1, PaintedTyped DEF ShownTyped, Versions, Nothing
<1>5. Paints(w)
  BY <1>1, <1>2 DEF Paints
<1>6. QED
  BY <1>1, <1>2, <1>3, <1>4, <1>5, Alone, TypePartsNext DEF Fine, Shape, server, hub

LEMMA ReadFailsFine == ASSUME TypeOK, NEW w \in Readers, ReadFails(w) PROVE Fine
<1>1. /\ page = "up" /\ Then(w, FALSE)
      /\ UNCHANGED <<version, granted, socket, wire, rendered, shown, hidden, reload, check,
                     timer>>
  BY DEF ReadFails, server, link, hub, Up
<1>2. /\ LoopTyped' /\ ReadsTyped' /\ WorkFits' /\ CommandFits' /\ UserTyped'
      /\ page' \in {"up", "leaving"} /\ KeepsShut /\ FewerReads
  BY <1>1, ThenGoes
<1>3. PageTyped' /\ TimerFits'
  BY <1>1, <1>2, TypeParts DEF PageTyped, TimerFits
<1>4. Quiet
  BY <1>1, <1>2, Stands DEF Quiet
<1>5. QED
  BY <1>1, <1>2, <1>3, <1>4, Alone, TypePartsNext DEF Fine, Shape, server, hub

LEMMA LateArrivalFine == ASSUME TypeOK, NEW w \in Readers, LateArrival(w) PROVE Fine
<1>1. /\ page \in {"leaving", "cleared"} /\ reads[w].of \in {"rows", "stale"}
      /\ shown' = Painted(reads[w]) /\ reads' = Over(w)
      /\ UNCHANGED <<version, granted, socket, wire, page, rendered, hidden, dirty, command,
                     since, queued, work, reload, check, timer>>
  BY DEF LateArrival, Left, server, link, user, hub
<1>2. /\ reads' \in [Readers -> Reads] /\ ~IsCurrent(reads'[w])
      /\ \A v \in Readers \ {w} : reads'[v] = reads[v]
  BY <1>1, OverIs, TypeParts
<1>3. ReadsTyped' /\ WorkFits' /\ CommandFits'
  BY <1>1, <1>2 DEF ReadsTyped, WorkFits, CommandFits, Reads, Versions
<1>4. ShownTyped'
  BY <1>1, PaintedTyped DEF ShownTyped, Versions, Nothing
<1>5. Paints(w)
  BY <1>1, <1>2 DEF Paints, KeepsShut, FewerReads
<1>6. QED
  BY <1>1, <1>3, <1>4, <1>5, Alone, TypePartsNext DEF Fine, Shape, server, user, hub

-----------------------------------------------------------------------------
(* The user, commands, the passing of time, and the navigation.              *)

\* What is released outside a read: an edit is gone, or a command has failed.
LEMMA ReleaseFine ==
  ASSUME TypeOK, page = "up", NEW b \in BOOLEAN, NEW d \in BOOLEAN, NEW twice \in BOOLEAN,
         Release(b, d, reads, twice), UserTyped', command' = "loading" <=> command = "loading",
         UNCHANGED <<server, link, rendered, shown, hidden, hub>>
  PROVE  Fine
<1>1. ReadsTyped /\ WorkFits /\ CommandFits /\ PageTyped /\ TimerFits
  BY TypeParts
<1>2. /\ reads \in [Readers -> Reads] /\ Kept(reads)
      /\ work = "rows" <=> reads["work"] # NoRead
      /\ command' = "loading" <=> reads["command"] # NoRead
  BY <1>1 DEF ReadsTyped, Kept, WorkFits, CommandFits
<1>3. Released(reads)
  BY <1>2, ReleaseReleases
<1>4. /\ LoopTyped' /\ ReadsTyped' /\ WorkFits' /\ CommandFits'
      /\ page' \in {"up", "leaving"} /\ KeepsShut /\ FewerReads
  BY <1>2, <1>3, ReleasedGoes
<1>5. UNCHANGED <<version, granted, socket, wire, timer, hidden>>
  BY DEF server, link, hub
<1>6. PageTyped' /\ TimerFits'
  BY <1>1, <1>4, <1>5 DEF PageTyped, TimerFits
<1>7. Quiet
  BY <1>4, <1>5, Stands DEF Quiet
<1>8. QED
  BY <1>4, <1>5, <1>6, <1>7, Alone, TypePartsNext DEF Fine, Shape

LEMMA ReleasesFine == ASSUME TypeOK, Discard \/ Refused PROVE Fine
<1>1. UserTyped
  BY TypeParts
<1>2. CASE Discard
  <2>1. /\ page = "up" /\ Release(Busy, FALSE, reads, FALSE) /\ dirty' = FALSE
        /\ UNCHANGED <<server, link, rendered, shown, hidden, command, hub>>
    BY <1>2 DEF Discard, Up
  <2>2. UserTyped' /\ Busy \in BOOLEAN
    BY <1>1, <2>1 DEF UserTyped, Busy
  <2>3. QED
    BY <2>1, <2>2, ReleaseFine
<1>3. CASE Refused
  <2>1. /\ page = "up" /\ Release(FALSE, dirty, reads, TRUE) /\ command = "sent"
        /\ command' = "none"
        /\ UNCHANGED <<server, link, rendered, shown, hidden, dirty, hub>>
    BY <1>3 DEF Refused, Up
  <2>2. UserTyped' /\ dirty \in BOOLEAN
    BY <1>1, <2>1 DEF UserTyped
  <2>3. QED
    BY <2>1, <2>2, ReleaseFine
<1>4. QED
  BY <1>2, <1>3

LEMMA StartsFine == ASSUME TypeOK, Edit \/ Submit \/ Overdue PROVE Fine
<1>1. /\ page = "up"
      /\ UNCHANGED <<version, granted, socket, wire, page, rendered, shown, hidden, queued,
                     work, reads, reload, check, timer>>
  BY DEF Edit, Submit, Overdue, server, link, document, user, queue, hub, Up
<1>2. UserTyped /\ LoopTyped /\ CommandFits
  BY TypeParts
<1>3. /\ since' \in {"unset", "running", "over"} /\ dirty' \in BOOLEAN
      /\ command' = command \/ (command = "none" /\ command' = "sent")
  BY <1>2 DEF Edit, Submit, Overdue, user, queue, LoopTyped, UserTyped, Busy
<1>4. UserTyped' /\ LoopTyped' /\ CommandFits'
  BY <1>1, <1>2, <1>3 DEF UserTyped, LoopTyped, CommandFits
<1>5. Quiet
  BY <1>1, Stands
<1>6. QED
  BY <1>1, <1>4, <1>5, Alone, TypePartsNext DEF Fine, Shape, server, hub

LEMMA SeenFine == ASSUME TypeOK, Hide \/ Show PROVE Fine
<1>1. /\ page = "up"
      /\ UNCHANGED <<version, granted, wire, page, rendered, shown, dirty, command, since,
                     queued, work, reads, reload>>
  BY DEF Hide, Show, server, link, document, queue, Up
<1>2. UserTyped /\ LinkTyped /\ HubTyped
  BY TypeParts
<1>3. check' \in Checks
  BY <1>2, AskTyped DEF Hide, Show, HubTyped
<1>4. /\ hidden' \in BOOLEAN /\ timer' \in {"off", "set"}
      /\ hidden' <=> timer' = "off"
      /\ socket' = socket \/ (socket = "none" /\ socket' = "connecting")
  BY DEF Hide, Show, link
<1>5. UserTyped' /\ LinkTyped' /\ TimerFits'
  BY <1>1, <1>2, <1>4 DEF UserTyped, LinkTyped, TimerFits
<1>6. HubTyped'
  BY <1>1, <1>2, <1>3, <1>4 DEF HubTyped, Checks
<1>7. Quiet
  BY <1>1, Stands
<1>8. QED
  BY <1>1, <1>5, <1>6, <1>7, Alone, TypePartsNext DEF Fine, Shape, server

\* A read begun for someone other than the refresh.
LEMMA BeginFine ==
  ASSUME TypeOK, page = "up", NEW w \in {"filter", "command"}, reads' = Begun(w),
         w = "command" <=> (command' = "loading" /\ command # "loading"),
         w # "command" => command' = command,
         Grows, LinkTyped', UNCHANGED <<granted, page, rendered, shown, hidden, dirty>>,
         UNCHANGED <<since, queued, work, reload, check, timer>>
  PROVE  Fine
<1>1. ReadsTyped /\ UserTyped /\ ServerTyped /\ LoopTyped /\ HubTyped /\ WorkFits /\ CommandFits
  BY TypeParts
<1>2. "work" \in Readers /\ "filter" \in Readers /\ "command" \in Readers /\ w \in Readers
      /\ w # "work"
  BY DEF Readers
<1>3. /\ reads' \in [Readers -> Reads] /\ reads'[w] = Asked /\ reads'[w] # NoRead
      /\ \A v \in Readers \ {w} : /\ ~IsCurrent(reads'[v])
                                  /\ reads'[v] = NoRead <=> reads[v] = NoRead
  BY <1>1, <1>2, BegunIs
<1>4. ReadsTyped' /\ WorkFits'
  BY <1>1, <1>2, <1>3 DEF ReadsTyped, WorkFits, Reads, Versions
<1>5. CommandFits' /\ UserTyped'
  BY <1>1, <1>2, <1>3 DEF CommandFits, UserTyped
<1>6. ServerTyped'
  BY <1>1 DEF Grows, ServerTyped, Versions
<1>7. Begins(w)
  BY <1>3 DEF Begins
<1>8. QED
  BY <1>2, <1>4, <1>5, <1>6, <1>7, Alone, TypePartsNext DEF Fine, Shape, hub

LEMMA FilterFine == ASSUME TypeOK, Filter PROVE Fine
<1>1. /\ page = "up" /\ reads' = Begun("filter")
      /\ UNCHANGED <<version, granted, socket, wire, page, rendered, shown, hidden, dirty,
                     command, since, queued, work, reload, check, timer>>
  BY DEF Filter, server, link, document, user, hub, Up
<1>2. Grows /\ LinkTyped'
  BY <1>1, Stands, Alone
<1>3. QED
  BY <1>1, <1>2, BeginFine

LEMMA AcceptedFine == ASSUME TypeOK, Accepted PROVE Fine
<1>1. /\ page = "up" /\ reads' = Begun("command") /\ command = "sent" /\ command' = "loading"
      /\ version < MaxVersion /\ version' = version + 1 /\ Publish("data")
      /\ UNCHANGED <<granted, page, rendered, shown, hidden, dirty, since, queued, work,
                     reload, check, timer>>
  BY DEF Accepted, document, hub, Up
<1>2. Grows /\ LinkTyped'
  BY <1>1, Grown, PublishTyped DEF Signals
<1>3. QED
  BY <1>1, <1>2, BeginFine

LEMMA NavigateFine == ASSUME TypeOK, Navigate PROVE Fine
<1>1. /\ page # "up" /\ page' \in {"gone", "up"} /\ rendered' = granted /\ shown' = Nothing
      /\ dirty' = FALSE /\ command' = "none"
      /\ socket' = (IF hidden THEN "none" ELSE "connecting") /\ wire' = {}
      /\ since' = "unset" /\ queued' = hidden
      /\ work' = (IF hidden THEN "none" ELSE "event")
      /\ reads' = [w \in Readers |-> NoRead]
      /\ reload' = FALSE /\ check' = NoCheck
      /\ timer' = (IF hidden THEN "off" ELSE "set")
      /\ UNCHANGED <<version, granted, hidden>>
  BY DEF Navigate, Left, server
<1>2. UserTyped /\ ServerTyped
  BY TypeParts
<1>3. "work" \in Readers /\ "command" \in Readers
  BY DEF Readers
<1>4. reads' \in [Readers -> Reads] /\ \A w \in Readers : reads'[w] = NoRead
  BY <1>1, ReadFacts
<1>5. NoReads
  BY <1>4, ReadFacts DEF NoReads, IsCurrent
<1>6. ReadsTyped' /\ WorkFits' /\ CommandFits'
  BY <1>1, <1>3, <1>4 DEF ReadsTyped, WorkFits, CommandFits, Reads, Versions
<1>7. LinkTyped' /\ PageTyped' /\ UserTyped' /\ ShownTyped'
  BY <1>1, <1>2 DEF LinkTyped, PageTyped, UserTyped, ShownTyped, ServerTyped
<1>8. LoopTyped' /\ TimerFits'
  BY <1>1, <1>2 DEF LoopTyped, TimerFits, UserTyped
<1>9. HubTyped'
  BY <1>1 DEF HubTyped, Checks
<1>10. Leaves
  BY <1>1, <1>5, Stands DEF Leaves
<1>11. QED
  BY <1>1, <1>6, <1>7, <1>8, <1>9, <1>10, Alone, TypePartsNext DEF Fine, Shape, server

-----------------------------------------------------------------------------
(* Every step, and what its shape does to the invariants.                    *)

LEMMA InitTyped == ASSUME Init PROVE TypeOK
<1>1. /\ version = 0 /\ granted = InitialRoles
      /\ socket = "connecting" /\ wire = {}
      /\ page = "up" /\ rendered = InitialRoles /\ shown = Nothing
      /\ hidden = FALSE /\ dirty = FALSE /\ command = "none"
      /\ since = "unset" /\ queued = FALSE /\ work = "event"
      /\ reads = [w \in Readers |-> NoRead]
      /\ reload = FALSE /\ check = NoCheck /\ timer = "set"
  BY DEF Init
<1>2. "work" \in Readers /\ "command" \in Readers
  BY DEF Readers
<1>3. ReadsTyped /\ WorkFits /\ CommandFits
  BY <1>1, <1>2, ReadFacts DEF ReadsTyped, WorkFits, CommandFits
<1>4. ServerTyped /\ LinkTyped /\ PageTyped /\ ShownTyped
  BY <1>1, VersionsAre, LiveAssumption DEF ServerTyped, LinkTyped, PageTyped, ShownTyped
<1>5. UserTyped /\ LoopTyped /\ HubTyped /\ TimerFits
  BY <1>1 DEF UserTyped, LoopTyped, HubTyped, TimerFits, Checks
<1>6. QED
  BY <1>3, <1>4, <1>5, TypeParts

LEMMA Steps == ASSUME TypeOK, [Next]_vars PROVE Fine
<1>1. CASE Server
  BY <1>1, CommitFine, ChangeRolesFine DEF Server
<1>2. CASE Socket
  BY <1>2, SocketFine, HearFine DEF Socket
<1>3. CASE Poll \/ Checking
  BY <1>3, PollFine, CheckArrivesFine, CheckFailsFine DEF Checking
<1>4. CASE Reading
  BY <1>4, EventFine, AnsweredFine, ReadArrivesFine, ReadFailsFine, LateArrivalFine DEF Reading
<1>5. CASE User
  BY <1>5, StartsFine, ReleasesFine, FilterFine, SeenFine DEF User
<1>6. CASE Accepted \/ Refused \/ Navigate \/ Overdue
  BY <1>6, AcceptedFine, ReleasesFine, NavigateFine, StartsFine
<1>7. CASE UNCHANGED vars
  <2>1. UNCHANGED <<server, socket, wire, page, rendered, shown, user, since, queued, work,
                    reads, hub, hidden, timer, command, version>>
    BY <1>7 DEF vars, server, link, document, user, queue, hub
  <2>2. Quiet
    BY <2>1, Stands
  <2>3. QED
    BY <2>1, <2>2, Alone, TypePartsNext DEF Fine, Shape
<1>8. QED
  BY <1>1, <1>2, <1>3, <1>4, <1>5, <1>6, <1>7 DEF Next

LEMMA OneStaysCurrent == ASSUME OneCurrent, Shape PROVE OneCurrent'
<1>1. \A v, w \in Readers : IsCurrent(reads[v]) /\ IsCurrent(reads[w]) => v = w
  BY DEF OneCurrent, Current, IsCurrent
<1>2. CASE FewerReads
  BY <1>1, <1>2 DEF FewerReads, OneCurrent, Current, IsCurrent
<1>3. ASSUME NEW w \in Readers, \A v \in Readers \ {w} : ~IsCurrent(reads'[v])
      PROVE  OneCurrent'
  BY <1>3 DEF OneCurrent, Current, IsCurrent
<1>4. ASSUME NEW w \in Readers, Answers(w) PROVE OneCurrent'
  <2>1. IsCurrent(reads[w])
    BY <1>4, ReadFacts DEF Answers, IsCurrent
  <2>2. \A v \in Readers \ {w} : ~IsCurrent(reads'[v])
    BY <1>1, <1>4, <2>1 DEF Answers
  <2>3. QED
    BY <1>3, <2>2
<1>5. CASE NoReads
  BY <1>5 DEF NoReads, OneCurrent, Current, IsCurrent
<1>6. QED
  BY <1>2, <1>3, <1>4, <1>5 DEF Shape, Quiet, Begins, Paints, Clears, Leaves

\* The only read that paints is the current one, so no other is left behind it.
LEMMA StaysAhead == ASSUME TypeOK, OneCurrent, Ahead, Shape PROVE Ahead'
<1>1. version \in Int /\ shown \in Int /\ Nothing <= version
  BY TypeParts, RowsAreIntegers DEF ServerTyped, ShownTyped
<1>2. \A w \in Readers : reads[w].of = "rows" => /\ reads[w].got \in Int
                                                 /\ shown <= reads[w].got
                                                 /\ reads[w].got <= version
  <2>1. \A w \in Readers : reads[w] \in Reads
    BY TypeParts DEF ReadsTyped
  <2>2. QED
    BY <2>1, ReadFacts, RowsAreIntegers DEF Ahead
<1>3. CASE Quiet
  <2>1. version' \in Int /\ version' >= version /\ shown' = shown
    BY <1>3, RowsAreIntegers DEF Quiet, Grows
  <2>2. ASSUME NEW w \in Readers, reads'[w].of = "rows"
        PROVE  shown' <= reads'[w].got /\ reads'[w].got <= version'
    <3>1. reads'[w] = reads[w]
      BY <1>3, <2>2 DEF Quiet, FewerReads, IsCurrent
    <3>2. QED
      BY <1>1, <1>2, <2>1, <2>2, <3>1
  <2>3. QED
    BY <1>1, <2>1, <2>2 DEF Ahead
<1>4. CASE Clears \/ Leaves
  <2>1. shown' = Nothing /\ version' \in Int /\ version' >= version /\ NoReads
    BY <1>4, RowsAreIntegers DEF Clears, Leaves, Grows
  <2>2. QED
    BY <1>1, <2>1, RowsAreIntegers DEF Ahead, NoReads, IsCurrent
<1>5. ASSUME NEW w \in Readers, Begins(w) PROVE Ahead'
  <2>1. shown' = shown /\ version' \in Int /\ version' >= version
    BY <1>5, RowsAreIntegers DEF Begins, Grows
  <2>2. \A v \in Readers : reads'[v].of # "rows"
    BY <1>5, ReadFacts DEF Begins, IsCurrent
  <2>3. QED
    BY <1>1, <2>1, <2>2 DEF Ahead
<1>6. ASSUME NEW w \in Readers, Answers(w) PROVE Ahead'
  <2>1. reads'[w].got = version
    BY <1>6, ReadFacts, TypeParts DEF Answers, ServerTyped
  <2>2. QED
    BY <1>1, <1>2, <1>6, <2>1 DEF Answers, Ahead
<1>7. ASSUME NEW w \in Readers, Paints(w) PROVE Ahead'
  <2>1. version' = version /\ FewerReads /\ ~IsCurrent(reads'[w]) /\ shown' = Painted(reads[w])
    BY <1>7 DEF Paints
  <2>2. CASE reads[w].of = "rows"
    <3>1. shown' \in Int /\ shown' <= version
      BY <1>1, <1>2, <2>1, <2>2 DEF Painted
    <3>2. \A v \in Readers : reads'[v].of # "rows"
      BY <2>1, <2>2 DEF OneCurrent, Current, FewerReads, IsCurrent
    <3>3. QED
      BY <2>1, <3>1, <3>2 DEF Ahead
  <2>3. CASE reads[w].of # "rows"
    <3>1. shown' = shown
      BY <2>1, <2>3 DEF Painted
    <3>2. ASSUME NEW v \in Readers, reads'[v].of = "rows"
          PROVE  shown' <= reads'[v].got /\ reads'[v].got <= version'
      <4>1. reads'[v] = reads[v]
        BY <2>1, <3>2 DEF FewerReads, IsCurrent
      <4>2. QED
        BY <1>2, <2>1, <3>1, <3>2, <4>1
    <3>3. QED
      BY <2>1, <3>1, <3>2 DEF Ahead
  <2>4. QED
    BY <2>2, <2>3
<1>8. QED
  BY <1>3, <1>4, <1>5, <1>6, <1>7 DEF Shape

LEMMA StaysCleared == ASSUME StaysClear, Shape PROVE StaysClear'
<1>1. page = "cleared" => shown = Nothing /\ \A w \in Readers : ~IsCurrent(reads[w])
  BY DEF StaysClear, Current, IsCurrent
<1>2. CASE Quiet
  BY <1>1, <1>2 DEF Quiet, KeepsShut, FewerReads, StaysClear, Current, IsCurrent
<1>3. CASE Clears \/ Leaves
  BY <1>3 DEF Clears, Leaves, NoReads, StaysClear, Current, IsCurrent
<1>4. ASSUME NEW w \in Readers, Begins(w) PROVE StaysClear'
  BY <1>4 DEF Begins, StaysClear
<1>5. ASSUME NEW w \in Readers, Answers(w) PROVE StaysClear'
  <2>1. IsCurrent(reads[w])
    BY <1>5, ReadFacts DEF Answers, IsCurrent
  <2>2. QED
    BY <1>1, <1>5, <2>1 DEF Answers, StaysClear
<1>6. ASSUME NEW w \in Readers, Paints(w) PROVE StaysClear'
  <2>1. page' = "cleared" => page = "cleared" /\ shown' = shown
    BY <1>1, <1>6 DEF Paints, KeepsShut, Painted, IsCurrent
  <2>2. QED
    BY <1>1, <1>6, <2>1 DEF Paints, FewerReads, StaysClear, Current, IsCurrent
<1>7. QED
  BY <1>2, <1>3, <1>4, <1>5, <1>6 DEF Shape

LEMMA NothingBack ==
  ASSUME TypeOK, Ahead, StaysClear, Shape
  PROVE  /\ page = "up" /\ page' = "up" => shown' >= shown
         /\ page = "cleared" /\ page' = "cleared" => shown' = Nothing
<1>1. shown \in Int
  BY TypeParts, RowsAreIntegers DEF ShownTyped
<1>2. CASE shown' = shown
  BY <1>1, <1>2 DEF StaysClear
<1>3. CASE Clears \/ Leaves
  BY <1>3 DEF Clears, Leaves
<1>4. ASSUME NEW w \in Readers, Paints(w), shown' # shown
      PROVE  shown' >= shown /\ page # "cleared"
  <2>1. reads[w].of = "rows" /\ shown' = reads[w].got
    BY <1>4 DEF Paints, Painted
  <2>2. reads[w].got \in Int
    BY <2>1, TypeParts, ReadFacts, RowsAreIntegers DEF ReadsTyped
  <2>3. QED
    BY <1>1, <2>1, <2>2 DEF Ahead, StaysClear, Current
<1>5. QED
  BY <1>2, <1>3, <1>4 DEF Shape, Quiet, Begins, Answers

-----------------------------------------------------------------------------
(* The theorems.                                                             *)

\* Every variable keeps its type, the poll timer goes with the page being
\* visible, and whoever waits for rows has a read of its own in flight.
THEOREM TypeCorrect == Spec => []TypeOK
<1>1. Init => TypeOK
  BY InitTyped
<1>2. TypeOK /\ [Next]_vars => TypeOK'
  BY Steps DEF Fine
<1>3. QED
  BY <1>1, <1>2, PTL DEF Spec

LEMMA Guarded == Spec => [](TypeOK /\ OneCurrent /\ Ahead /\ StaysClear)
<1>1. Init => OneCurrent /\ Ahead /\ StaysClear
  <2> SUFFICES ASSUME Init PROVE OneCurrent /\ Ahead /\ StaysClear
    OBVIOUS
  <2>1. version = 0 /\ shown = Nothing /\ page = "up" /\ reads = [w \in Readers |-> NoRead]
    BY DEF Init
  <2>2. \A w \in Readers : reads[w].of = "none"
    BY <2>1, ReadFacts
  <2>3. QED
    BY <2>1, <2>2 DEF Nothing, OneCurrent, Ahead, StaysClear, Current
<1>2. /\ TypeOK /\ OneCurrent /\ Ahead /\ StaysClear /\ [Next]_vars
      => OneCurrent' /\ Ahead' /\ StaysClear'
  BY Steps, OneStaysCurrent, StaysAhead, StaysCleared DEF Fine
<1>3. QED
  BY <1>1, <1>2, TypeCorrect, PTL DEF Spec

\* What a document shows never goes back to older rows, however the reads of
\* refreshes, filters and commands overlap, and no response that was under way
\* puts rows back into a page that was cleared.
THEOREM NothingComesBackHolds == Spec => NothingComesBack
<1>1. /\ TypeOK /\ OneCurrent /\ Ahead /\ StaysClear /\ [Next]_vars
      => [/\ page = "up" /\ page' = "up" => shown' >= shown
          /\ page = "cleared" /\ page' = "cleared" => shown' = Nothing]_vars
  BY Steps, NothingBack DEF Fine
<1>2. QED
  BY <1>1, Guarded, PTL DEF Spec, NothingComesBack
=============================================================================
