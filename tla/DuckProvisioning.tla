--------------------------- MODULE DuckProvisioning ---------------------------
(* NFC intake: a station taps a writable sticker, has the server reserve a   *)
(* duck with its permanent URL, writes the URL, confirms the write online    *)
(* and photographs the duck before the next one.  Any answer may be lost and *)
(* any write may fail, with or without reaching the sticker; a page may be   *)
(* reloaded at any moment; after ten minutes another operator may take the   *)
(* pending tag over.                                                         *)
(*                                                                           *)
(* The page is modelled at the granularity of its awaits: between two awaits *)
(* of a reading, the takeover button's handler may run, the recovery that a  *)
(* refresh of the page asks for, or the photo that a recovery has opened,    *)
(* and the other way round.  A duck and the URL of its tag are one identity, *)
(* the visible number in order of reservation; each station has an operator  *)
(* of its own.                                                               *)
EXTENDS Integers, FiniteSets

CONSTANTS
  Stations,
  Stickers,
  None,           \* null in the page, no owner in the database
  MaxDucks,       \* bound: URLs reserved
  MaxTakeovers,   \* bound: takeovers of one duck
  TapDuringTakeover, \* may a sticker be presented while a takeover is under way?
  TapDuringRecovery  \* and while a recovery is, the photo that it opened included?

ASSUME ProvisioningAssumption ==
  /\ None \notin Stations /\ None \notin 1..MaxDucks
  /\ MaxDucks \in Nat /\ MaxTakeovers \in Nat
  /\ TapDuringTakeover \in BOOLEAN /\ TapDuringRecovery \in BOOLEAN

VARIABLES
  duck,     \* ducks, duck_tags, event_ducks, duck_photos and the owner audits
  sticker,  \* the URL a physical sticker carries, 0 when blank
  page,     \* each station's provisioning machine
  job,      \* the reading in flight at each station
  take,     \* the takeover request of each station
  recovery, \* the request of each station for what its operator left undone
  late      \* a start request whose client gave up while it still runs

vars == <<duck, sticker, page, job, take, recovery, late>>

-----------------------------------------------------------------------------
Ducks == 1..MaxDucks
Idle == [step |-> "idle"]
NoTake == [step |-> "none"]
NoRecovery == [step |-> "none"]
Unborn == [at |-> "none", owner |-> None, taken |-> 0, photo |-> "none"]
\* The machine's pending record, its flags, the duck that the current start
\* command (nextStartCommandId) reserved, and the one being photographed.
Fresh == [pending |-> None, wrote |-> FALSE, confirmed |-> FALSE, sent |-> None,
          photo |-> None]

Init ==
  /\ duck = [d \in Ducks |-> Unborn]
  /\ sticker = [k \in Stickers |-> 0]
  /\ page = [s \in Stations |-> Fresh]
  /\ job = [s \in Stations |-> Idle]
  /\ take = [s \in Stations |-> NoTake]
  /\ recovery = [s \in Stations |-> NoRecovery]
  /\ late = [s \in Stations |-> "no"]

Pending(d) == duck[d].at = "pending"
Own(s) == {d \in Ducks : Pending(d) /\ duck[d].owner = s}
Photos(s) == {d \in Ducks : duck[d].photo = "PENDING" /\ duck[d].owner = s}
Oldest(S) == CHOOSE d \in S : \A e \in S : d <= e
Held == {job[s].sticker : s \in {t \in Stations : job[t].step # "idle"}}
Unused == {d \in Ducks : duck[d].at = "none"}

\* adopt: the same record keeps its flags.
Adopt(p, d) == IF p.pending = d THEN p
               ELSE [p EXCEPT !.pending = d, !.wrote = FALSE, !.confirmed = FALSE]
\* completeConfirmedPhoto opens the photo, unless another one is being taken.
Opened(p) == [p EXCEPT !.confirmed = TRUE,
                       !.photo = IF @ = None THEN p.pending ELSE @]
\* GET provisioning: the operator's oldest pending tag, else the oldest photo
\* that is owed, else nothing.
Undone(s) ==
  IF Own(s) # {} THEN [step |-> "answer", duck |-> Oldest(Own(s)), owed |-> FALSE]
  ELSE IF Photos(s) # {} THEN [step |-> "answer", duck |-> Oldest(Photos(s)), owed |-> TRUE]
  ELSE NoRecovery
\* recoverPending, when its answer is there.
Recovered(p, r) ==
  IF r.step # "answer" THEN p
  ELSE IF r.owed THEN Opened([p EXCEPT !.pending = r.duck, !.wrote = FALSE])
  ELSE Adopt(p, r.duck)

\* Mutant: every tag but a pending one of the own is taken for blank stock.
Kind_NotMine(s, u) == IF Pending(u) /\ duck[u].owner = s THEN "pending" ELSE "reusable"
\* classifyProvisioningTag
Kind(s, u) == IF duck[u].at \in {"none", "gone"} THEN "reusable"
              ELSE IF Pending(u) /\ duck[u].owner = s THEN "pending" ELSE "already"

\* What a reading awaits next: the reservation, the write, or the confirmation,
\* which after a resolved write only the exact tag may reach.
After(p, k) ==
  IF p.pending = None THEN [step |-> "start", sticker |-> k]
  ELSE IF ~p.wrote THEN [step |-> "write", sticker |-> k, duck |-> p.pending]
  ELSE IF sticker[k] = p.pending
       THEN [step |-> "confirm", sticker |-> k, duck |-> p.pending]
       ELSE Idle

Becomes(s, p, j) == /\ page' = [page EXCEPT ![s] = p]
                    /\ job' = [job EXCEPT ![s] = j]
\* A page with no record and a new start command, its camera left alone.
Cleared(p) == [Fresh EXCEPT !.photo = p.photo]
\* A new start command; one still running keeps the identifier it had.
Renamed(s) == late' = [late EXCEPT ![s] = IF @ = "current" THEN "former" ELSE @]

-----------------------------------------------------------------------------
(* A reading.                                                                *)

Recovering(s) == recovery[s] # NoRecovery \/ page[s].photo # None
\* One reading at a time, none while a photo is owed.
Reads(s, k) ==
  /\ job[s] = Idle /\ ~page[s].confirmed /\ k \notin Held
  /\ TapDuringTakeover \/ take[s] = NoTake
  /\ TapDuringRecovery \/ ~Recovering(s)
  /\ UNCHANGED <<duck, sticker, take, recovery>>

TapBlank(s, k) ==
  /\ Reads(s, k) /\ sticker[k] = 0
  /\ Becomes(s, page[s], After(page[s], k)) /\ UNCHANGED late

\* Another tag may not be mixed with an unfinished one, unless it is reusable
\* and the write has not resolved: the reading is then refused.
Mixed(s, u) == LET p == page[s] IN
  p.pending # None /\ p.pending # u /\ (p.wrote \/ Kind(s, u) # "reusable")
TapKnown(s, k, kind) ==
  Reads(s, k) /\ sticker[k] # 0 /\ ~Mixed(s, sticker[k]) /\ Kind(s, sticker[k]) = kind

\* alreadyRegistered: open the record, forget the start command.
Lookup(s, k) ==
  /\ TapKnown(s, k, "already") /\ page[s].pending # sticker[k]
  /\ Becomes(s, Cleared(page[s]), Idle) /\ Renamed(s)

TapReusable(s, k) ==
  /\ TapKnown(s, k, "reusable")
  /\ Becomes(s, page[s], After(page[s], k)) /\ UNCHANGED late

\* The URL read is the pending one: the physical write is complete.  Without a
\* local record the pending tag is first recovered, and must be this one.
Resume(s, k) ==
  LET p == IF page[s].pending = None THEN Recovered(page[s], Undone(s)) ELSE page[s]
      q == [p EXCEPT !.wrote = TRUE]
  IN /\ \/ TapKnown(s, k, "pending")
        \/ TapKnown(s, k, "already") /\ page[s].pending = sticker[k]
     /\ IF p.pending = sticker[k] /\ ~p.confirmed
        THEN Becomes(s, q, After(q, k)) ELSE Becomes(s, p, Idle)
     /\ UNCHANGED late

-----------------------------------------------------------------------------
(* POST provisioning: replay the command, recover the operator's own pending *)
(* tag, or reserve the next number.                                          *)

Reserve(s, d) == [duck EXCEPT ![d] = [Unborn EXCEPT !.at = "pending", !.owner = s]]

\* The next reservation of a station with none pending, or the server's answer
\* that there is one already.
StartAnswered(s, d) ==
  LET p == [Adopt(page[s], d) EXCEPT !.sent = IF Own(s) = {} THEN d ELSE @] IN
  /\ job[s].step = "start" /\ page[s].sent = None
  /\ IF Own(s) = {}
     THEN Unused # {} /\ d = Oldest(Unused) /\ duck' = Reserve(s, d)
     ELSE d = Oldest(Own(s)) /\ UNCHANGED duck
  /\ Becomes(s, p, After(p, job[s].sticker))
  /\ UNCHANGED <<sticker, take, recovery, late>>

\* The same command again: the saved reservation, unless it left this operator.
StartReplayed(s) == LET d == page[s].sent IN
  /\ job[s].step = "start" /\ d # None
  /\ IF duck[d].owner # s THEN Becomes(s, page[s], Idle) /\ UNCHANGED late
     ELSE IF Pending(d)
     THEN /\ LET p == Adopt(page[s], d) IN Becomes(s, p, After(p, job[s].sticker))
          /\ UNCHANGED late
     ELSE Becomes(s, Cleared(page[s]), Idle) /\ Renamed(s)
  /\ UNCHANGED <<duck, sticker, take, recovery>>

\* The answer is lost, before or after the transaction; the request may still run.
StartLost(s) ==
  /\ job[s].step = "start" /\ page[s].sent = None
  /\ Becomes(s, page[s], Idle)
  /\ late' = [late EXCEPT ![s] = IF Own(s) = {} /\ @ = "no" THEN "current" ELSE @]
  /\ UNCHANGED <<duck, sticker, take, recovery>>

\* Mutant: the transaction does not repeat what the handler read.
StartCommits_Unguarded(s) ==
  /\ late[s] # "no"
  /\ IF Unused # {} /\ ~(late[s] = "current" /\ page[s].sent # None)
     THEN /\ duck' = Reserve(s, Oldest(Unused))
          /\ page' = [page EXCEPT ![s].sent =
                        IF late[s] = "current" THEN Oldest(Unused) ELSE @]
     ELSE UNCHANGED <<duck, page>>
  /\ late' = [late EXCEPT ![s] = "no"]
  /\ UNCHANGED <<sticker, job, take, recovery>>
\* The transaction guards again what the handler read before it.
StartCommits(s) ==
  /\ late[s] # "no"
  /\ IF Own(s) = {} /\ Unused # {} /\ ~(late[s] = "current" /\ page[s].sent # None)
     THEN /\ duck' = Reserve(s, Oldest(Unused))
          /\ page' = [page EXCEPT ![s].sent =
                        IF late[s] = "current" THEN Oldest(Unused) ELSE @]
     ELSE UNCHANGED <<duck, page>>
  /\ late' = [late EXCEPT ![s] = "no"]
  /\ UNCHANGED <<sticker, job, take, recovery>>

-----------------------------------------------------------------------------
(* The physical write.  Its result is recorded on whatever record is pending *)
(* when it resolves, and that record is confirmed; without one it fails.     *)

WriteResolves(s) == LET d == page[s].pending IN
  /\ job[s].step = "write"
  /\ sticker' = [sticker EXCEPT ![job[s].sticker] = job[s].duck]
  /\ IF d = None THEN Becomes(s, page[s], Idle)
     ELSE Becomes(s, [page[s] EXCEPT !.wrote = TRUE],
                  [step |-> "confirm", sticker |-> job[s].sticker, duck |-> d])
  /\ UNCHANGED <<duck, take, recovery, late>>

\* A failed write may have reached the sticker.
WriteFails(s) ==
  /\ job[s].step = "write"
  /\ \E u \in {sticker[job[s].sticker], job[s].duck} :
       sticker' = [sticker EXCEPT ![job[s].sticker] = u]
  /\ Becomes(s, page[s], Idle)
  /\ UNCHANGED <<duck, take, recovery, late>>

-----------------------------------------------------------------------------
(* POST provisioning/confirm: the checks, then one transaction.              *)

\* The answer settles whatever record is pending when it arrives, and opens its
\* photo; a record that is in stock already is answered as done.
Confirmed(s) ==
  Becomes(s, IF page[s].pending = None THEN page[s] ELSE Opened(page[s]), Idle)

ConfirmReads(s) == LET d == job[s].duck IN
  /\ job[s].step = "confirm"
  /\ \/ /\ duck[d].owner = s /\ Pending(d)
        /\ Becomes(s, page[s], [job[s] EXCEPT !.step = "commit"])
     \/ duck[d].owner = s /\ duck[d].at = "stock" /\ Confirmed(s)
     \/ Becomes(s, page[s], Idle)        \* refused, or no answer
  /\ UNCHANGED <<duck, sticker, take, recovery, late>>

ConfirmCommits(s) == LET d == job[s].duck IN
  /\ job[s].step = "commit"
  /\ duck' = IF Pending(d) /\ duck[d].owner = s
             THEN [duck EXCEPT ![d].at = "stock", ![d].photo = "PENDING"]
             ELSE duck
  /\ \/ duck'[d].at = "stock" /\ Confirmed(s)
     \/ Becomes(s, page[s], Idle)
  /\ UNCHANGED <<sticker, take, recovery, late>>

\* completeConfirmedPhoto, once the photo is there, whatever the machine does by
\* now: no record, a new start command, and one more recovery, which does not ask
\* whether the machine is busy.  The photo's own protocol is DuckPhotos.
PhotoSaved(s) == LET d == page[s].photo IN
  /\ d # None /\ duck[d].photo = "PENDING"
  /\ duck' = [duck EXCEPT ![d].photo = "READY"]
  /\ page' = [page EXCEPT ![s] = Fresh] /\ Renamed(s)
  /\ recovery' = [recovery EXCEPT ![s] = [step |-> "asked"]]
  /\ UNCHANGED <<sticker, job, take>>

-----------------------------------------------------------------------------
(* Recovery, reload and takeover.                                            *)

\* intakeRecoverSelected, on every refresh of the page, forgets the start command
\* and asks.  Bound: one recovery at a time, so a later request takes the place
\* of one that is outstanding.
Recovers(s) ==
  /\ job[s] = Idle /\ page[s].pending = None
  /\ page' = [page EXCEPT ![s] = Cleared(@)] /\ Renamed(s)
  /\ recovery' = [recovery EXCEPT ![s] = [step |-> "asked"]]
  /\ UNCHANGED <<duck, sticker, job, take>>

RecoverReads(s) ==
  /\ recovery[s].step = "asked"
  /\ recovery' = [recovery EXCEPT ![s] = Undone(s)]
  /\ UNCHANGED <<duck, sticker, page, job, take, late>>

\* The answer is taken up whatever the machine does by now, or it is lost.
RecoverAnswers(s) ==
  /\ recovery[s].step = "answer"
  /\ page' \in {page, [page EXCEPT ![s] = Recovered(@, recovery[s])]}
  /\ recovery' = [recovery EXCEPT ![s] = NoRecovery]
  /\ UNCHANGED <<duck, sticker, job, take, late>>

Reload(s) ==
  /\ page[s] # Fresh \/ job[s] # Idle \/ recovery[s] # NoRecovery
  /\ Becomes(s, Fresh, Idle) /\ Renamed(s)
  /\ take' = [take EXCEPT ![s] = NoTake]
  /\ recovery' = [recovery EXCEPT ![s] = NoRecovery]
  /\ UNCHANGED <<duck, sticker>>

\* The button is refused while the machine is busy or has a pending tag; the ten
\* minutes since the last start or takeover have passed by now.
TakeoverReads(s, d) ==
  /\ take[s] = NoTake /\ job[s] = Idle /\ page[s].pending = None
  /\ Pending(d) /\ duck[d].owner # s
  /\ duck[d].taken < MaxTakeovers
  /\ take' = [take EXCEPT
                ![s] = [step |-> "commit", duck |-> d, seen |-> duck[d].taken]]
  /\ UNCHANGED <<duck, sticker, page, job, recovery, late>>

\* The transaction requires that the owner audit read is still the latest.
TakeoverCommits(s) == LET d == take[s].duck IN
  /\ take[s].step = "commit"
  /\ IF Pending(d) /\ duck[d].taken = take[s].seen
     THEN /\ duck' = [duck EXCEPT ![d].owner = s, ![d].taken = @ + 1]
          /\ take' = [take EXCEPT ![s] = [step |-> "answer", duck |-> d]]
     ELSE take' = [take EXCEPT ![s] = NoTake] /\ UNCHANGED duck
  /\ UNCHANGED <<sticker, page, job, recovery, late>>

\* The answer is adopted whatever the machine does by now, or it is lost.
TakeoverAnswers(s) ==
  /\ take[s].step = "answer"
  /\ page' \in {page, [page EXCEPT ![s] = Adopt(page[s], take[s].duck)]}
  /\ take' = [take EXCEPT ![s] = NoTake]
  /\ UNCHANGED <<duck, sticker, job, recovery, late>>

-----------------------------------------------------------------------------
(* The inventory desk.                                                       *)

\* Mutant: the photo of an erased duck stays.
Delete_KeepPhoto(d) ==
  /\ duck[d].at \in {"pending", "stock"}
  /\ duck' = [duck EXCEPT ![d] = [Unborn EXCEPT !.at = "gone", !.photo = duck[d].photo]]
  /\ UNCHANGED <<sticker, page, job, take, recovery, late>>
\* deleteDuck of a duck without a published result erases it with its tag.
Delete(d) ==
  /\ duck[d].at \in {"pending", "stock"}
  /\ duck' = [duck EXCEPT ![d] = [Unborn EXCEPT !.at = "gone"]]
  /\ UNCHANGED <<sticker, page, job, take, recovery, late>>

\* intakeDuck, of a sticker at hand whose URL the dataset does not know.
Intake(k) ==
  /\ sticker[k] # 0 /\ k \notin Held /\ duck[sticker[k]].at = "gone"
  /\ duck' = [duck EXCEPT ![sticker[k]].at = "stock"]
  /\ UNCHANGED <<sticker, page, job, take, recovery, late>>

-----------------------------------------------------------------------------
Station(s) ==
  \/ \E k \in Stickers : TapBlank(s, k) \/ Lookup(s, k) \/ TapReusable(s, k) \/ Resume(s, k)
  \/ \E d \in Ducks : StartAnswered(s, d)
  \/ StartReplayed(s) \/ StartLost(s) \/ StartCommits(s)
  \/ WriteResolves(s) \/ WriteFails(s)
  \/ ConfirmReads(s) \/ ConfirmCommits(s) \/ PhotoSaved(s)
  \/ Recovers(s) \/ RecoverReads(s) \/ RecoverAnswers(s) \/ Reload(s)
  \/ \E d \in Ducks : TakeoverReads(s, d)
  \/ TakeoverCommits(s) \/ TakeoverAnswers(s)

Next ==
  \/ \E s \in Stations : Station(s)
  \/ \E d \in Ducks : Delete(d)
  \/ \E k \in Stickers : Intake(k)

Spec == Init /\ [][Next]_vars

-----------------------------------------------------------------------------
(* Properties.                                                               *)

\* The variables have their types; an erased duck keeps no owner and
\* no photo, a confirmed record is a pending one that waits for the camera, and
\* no sticker is in two hands.
TypeOK ==
  /\ duck \in [Ducks -> [at : {"none", "pending", "stock", "gone"},
                owner : Stations \cup {None}, taken : 0..MaxTakeovers,
                photo : {"none", "PENDING", "READY"}]]
  /\ sticker \in [Stickers -> 0..MaxDucks]
  /\ page \in [Stations -> [pending : Ducks \cup {None}, wrote : BOOLEAN,
                confirmed : BOOLEAN, sent : Ducks \cup {None}, photo : Ducks \cup {None}]]
  /\ \A s \in Stations :
       /\ job[s].step \in {"idle", "start", "write", "confirm", "commit"}
       /\ take[s].step \in {"none", "commit", "answer"}
       /\ recovery[s].step \in {"none", "asked", "answer"}
       /\ late[s] \in {"no", "current", "former"}
       /\ page[s].confirmed => page[s].pending # None /\ page[s].photo # None
       /\ \A t \in Stations \ {s} :
            job[s] # Idle /\ job[t] # Idle => job[s].sticker # job[t].sticker
  /\ \A d \in Ducks :
       /\ duck[d].at = "gone" => duck[d].owner = None
       /\ duck[d].photo # "none" => duck[d].at = "stock"

\* A duck in stock carries its URL on a physical sticker: confirmation follows
\* a write that resolved, through lost answers, failed writes, reloads, erased
\* URLs that are written over, and takeovers.
StockIsWritten ==
  \A d \in Ducks : duck[d].at = "stock" => \E k \in Stickers : sticker[k] = d

\* A retry never allocates a second duck: whatever answers were lost, and with
\* the first request still running, of the tags that wait for their write an
\* operator has started at most one and kept it.  A tag that ever changed hands
\* is not counted, not even when its first operator has taken it back.
OneStartedEach ==
  \A s \in Stations : \A d, e \in Own(s) :
    duck[d].taken = 0 /\ duck[e].taken = 0 => d = e

=============================================================================
