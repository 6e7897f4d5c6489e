# Verification of Duck Race Manager

TLA+ models of Duck Race Manager, TLC instances that check them, and TLAPS
proofs about all of them. Paths are relative to the repository root.

## 1. The system

A Cloudflare Worker (`src/index.ts`) serves a public site and a staff console.
The state that matters is in one SQLite database (D1, `db/migrations/`); around
it stand a queue and two message providers, an identity provider (Cognito), an
object store (R2), one durable object with the open sockets, and the browsers.
A staff or public command is handled by a stateless request:

1. **replay check**: has `race_commands` seen this `commandId`?
2. **preflight**: reads without any lock, which choose the error message and,
   for some commands, values that end up in the writes (a slot number, a target
   status, a plan of merges, the id of a row to delete);
3. **guarded batch**: one `env.DB.batch([...])`, which D1 runs as one
   transaction. Its first statement inserts the command's row only if the
   guards hold; later statements depend on that row or fail on a constraint,
   which rolls the batch back.

So inside the database nothing fails half way, and concurrency is between the
preflight of one command and the batches of the others. Everything outside the
database (queue, provider, identities, photos, stickers, pages) has no
transaction with it, and there requests stop, answers are lost and copies come
late.

### Components

| component | state | operations | hard because |
|---|---|---|---|
| heat operations (`heat-operations.ts`) | `heats`, `heat_entries`, `pending_heat_results`, `heat_results`, `heat_result_history`, `final_podium_selections` | ready, call, start, finish, reset; record, announce, reopen, correct; scan and clear podium places; replace a roster | many devices act on one heat; promotions couple the two rounds; revision checks pin some rows and not others |
| round-one auto resolution (`round-one-auto-resolution.ts`) | same | skip a heat nobody can race, settle an uncontested one | runs after a withdrawal and before START_FINAL, between other commands |
| walk-up admission (`walk-up-admission.ts`) | derived | admit late registrations while a heat has never started | the last such heat must not start or vanish under them |
| event lifecycle (`event-operations.ts`) | `events`, heats | open, close, reopen registration, start round one, start final, complete | merges and splits are planned on an earlier read |
| participant operations (`participant-operations.ts`, `registration.ts`) | `registrations`, `race_entries` | walk-up, edit, withdraw, disqualify, reactivate, delete | eligibility changes under running heats |
| duck inventory (`duck-operations.ts`) | `ducks`, `duck_tags`, `event_ducks`, `duck_assignments` | intake, provisioning, takeover, unassign, delete | a sticker is written after the row exists; a duck carries results |
| duck photos (`duck-operations.ts`, `duck-photo-storage.ts`) | `duck_photos`, `duck_photo_cleanup`, R2 | stage, put, associate, drain, delete | two stores without a transaction |
| pairing desk (`staff-api.ts`) | assignments and heats | pair, emergency replacement | places racers into heats concurrently |
| public registration, browser collections (`api.ts`, `browser-collection.ts`) | `browser_*` tables, cookies, `localStorage` | register, follow, unfollow, prove, edit, name, self-delete | several tabs, one cookie, lost answers, and the desk owns the same rows |
| notifications (`email-notifications.ts`, `support-operations.ts`) | `email_notifications`, attempts, suppressions, queue | request, publish, claim, check, submit, retry, close, unsubscribe | at-least-once queue, ambiguous submissions |
| staff access and lifecycle (`staff-lifecycle-operations.ts`, `staff-api.ts`, `staff-session.ts`, `auth.ts`) | staff tables, Cognito, cookies | grant, change role, activate, deactivate, sign in, refresh, sign off | two stores without a transaction, compensation that may fail |
| live updates (`live-updates.ts`, `client-scripts.ts`) | sockets of one durable object; the page's hub | connect, signal, poll, refresh, check access, clear | best-effort signals, reads answered out of order, unfinished edits |
| public status (`race-status.ts`, `race-board.ts`, `public-phase.ts`) | none | what spectators see | projections of the rows |
| browser client, pages (`client-scripts.ts`, `site.ts`) | page state | forms, machines for provisioning and photos, the hub | lost answers, reloads |
| duck name filter (`duck-name-filter.ts`) | none | text matching | not hard |
| routing and scheduling (`index.ts`) | none | requests, queue batches, the minute trigger | not hard by itself |

The race components meet in the database: the desk builds heats, the lifecycle
reshapes and locks them, heat operations race them, and every one of these
commits notification rows with its own batch. The consumers of those rows, the
photo drain and the pages run beside.

## 2. Modules

| module | models | checked by | proofs |
|---|---|---|---|
| `HeatLayout` | heats before the round: pairing, closing with tail merges, reopening with tail splits, roster replacement, START_ROUND_ONE | `MCLayout`, `MCOvertaken` | `HeatLayoutProofs` |
| `RoundOneRace` | race day from START_ROUND_ONE to the running of the final | `MCRoundOne` | `RoundOneRaceProofs` |
| `FinalPodium` | the final from START_FINAL to COMPLETE_EVENT and the corrections of its podium | `MCPodium` | `FinalPodiumProofs` |
| `OneReminder` | abstract: what the outbox promises of each notification | as a property of `MCOutbox` | in `NotificationOutboxProofs` |
| `NotificationOutbox` | a notification from its request to its end; refines `OneReminder` | `MCOutbox` | `NotificationOutboxProofs` |
| `StaffAccess` | profiles, identities, sessions and the lifecycle commands | `MCStaff` | `StaffAccessProofs` |
| `BrowserCollection` | the participant's side of a registration | `MCCollection` | `BrowserCollectionProofs` |
| `DuckProvisioning` | writing NFC stickers for new ducks | `MCProvisioning` | `DuckProofs` |
| `DuckPhotos` | a duck's photo between R2 and D1 | `MCPhotos` | `DuckProofs` |
| `LiveUpdates` | an open staff page and what keeps it current | `MCLive` | `LiveUpdatesProofs` |

`HeatLayout` ends where `RoundOneRace` begins, and `RoundOneRace` where
`FinalPodium` begins: the states START_ROUND_ONE leaves are the initial states
of `RoundOneRace`, a locked final roster those of `FinalPodium`.

Common to all database modules: a command whose batch repeats all its guards is
one atomic action. A command that carries preflight reads into the batch is two
actions, the second guarded by exactly what the batch re-checks. A request may
be given up at any time (a refusal, a lost connection).

### HeatLayout

`heat`, `place`, `reg`, `held` and `event` are the rows; `req` the commands
between read and transaction, each with its plan. `Merges` and `Splits` are
`planTailMerges` and `planTailSplits`: a pass (`FoldPass`, `SplitPass`) is
planned over the layout the passes before it leave (`Folding`, `Splitting`).
`Merge` and `Split` are the statements of one pass, which `Fold` and `Unfold`
run one after the other inside one transaction, with the constraints that abort
it (a slot twice, an emptied heat that is not empty, a move into a heat that
does not exist). Rows have identities in the code and numbers in the model, so
a request also remembers which heats (`dead`) and entries (`stale`) were
deleted since its read: a statement by id does not find a new row of the same
number. A layout is read in two steps; when another request commits in between
the two disagree and the plan is empty (`Disagreement`). In pairing, `Chosen`
is the preflight's choice of a heat and `Accepts` everything the batch and the
schema check.

### RoundOneRace

Variables are the rows that decide anything: `evStatus` (`events.status`),
`status` and `started` (a heat's status, and whether a START_HEAT command ever
committed for it, which is how the code defines "never started"), `heatOf` and
`finalSlot` (heat entries of the two rounds), `reg` (registration status),
`duck` and `held` (the racer's latest assignment and whether it is open),
`pending`, `published`, `history` (the three result tables) and `req`.

Announcing carries the slot number and whether the final exists; reopening and
correcting carry the id of the final's heat entry; replacing a roster who is
eligible; reactivating the status to restore; pairing which heat.

*Revisions.* A batch pins the revision of the rows it read. Instead of counters
the model retires a request at the very step that moves a revision it pins
(`Lapse`, `Moved`); what the code does not pin is not retired.

*Abstractions.* "OUT" is WITHDRAWN or DISQUALIFIED: no code in this module's
scope tells them apart. A duck is a serial number per racer. A replay or
repeated command is the command again. Result rows have one place in Round
One, so a result is the racer and the duck assignment. Names, reasons, audit
rows, notifications and timestamps are left out.

### FinalPodium

One heat, its roster fixed, from `LOADING` to `FINALIZED` and back. The podium
exists in three tables, one after the other: `selections`
(`final_podium_selections`, places scanned one by one), `pending` (recorded,
not announced), `published` (official), and `history` keeps what was
superseded. `Depth` is the SQL expression for the number of places,
`min(3, eligible finalists)`, computed anew by every statement that uses it: a
row may become invisible without being deleted, and a podium checked in a
preflight may be too short or too long in the batch.

* `ScanBegin`/`ScanCommit` are RECORD_FINAL_PODIUM_PLACE: the preflight computes
  which places are visible (`Visible`, `OpenPlaces`) and whether this scan is
  the last one; the batch checks the place (`PlaceIsOpen`), the duck
  (`Current`), that the carried places still stand, and the depth: exactly for
  the last scan, as an upper bound for the others. It sweeps the rows hidden
  under the place or the racer (`Swept`).
* `RecordBegin`/`RecordCommit` enter a podium whole; the batch checks the racers
  and ducks, not the depth. `AnnounceBegin`/`AnnounceCommit` make it official,
  and re-check its size, its racers and ducks.
* `Reopen` and `CorrectBegin`/`CorrectCommit` work in `FINAL` and `COMPLETED`;
  `Complete` is COMPLETE_EVENT with its podium guard.
* Racers leave and return, and ducks are deleted, replaced, erased and paired
  again, by the same rules as in `RoundOneRace`. An emergency replacement
  carries a scanned place over to the new duck (`Follow`).

Left out: the token of the scanned tag beyond the duck it stands for, roles,
and the roster of the final, which `RoundOneRace` models. f1's duck number 2 in
the instances stands for a duck exchanged since Round One.

### NotificationOutbox and OneReminder

A row is requested in the batch of the command it reports (`Request`). A
publication reads it, sends its id to the queue and records that
(`PublishBegin`, `QueueSend`, `PublishRecord`), and may stop or fail at each
point. The queue holds up to two copies of an id, each with its delivery count
and delay, and gives up to the dead-letter queue. A consumer is a small
program: claim, reload and check, local suppression, provider suppression,
reload and check again, local suppression, owner check, submit, record; each
call is an action, and it may stop between any two (`WorkerStops`). From the
provider's suppression list to the submission a call that fails is caught: the
row is closed as unknown and the message acknowledged, although nothing was
submitted (`CallFails`). `Submit` has the four outcomes the code distinguishes:
accepted, refused for good, refused for now, and accepted with the answer lost
(`AnswerLost`: such a row is closed as unknown). A retried message has a fixed
delay of a minute, and so has a deferred row: the message does not wake before
the deferral it was set behind is over, but may wake before one that is set
later (`Freed`), and then it uses up a delivery. Meanwhile facts, consent,
addresses and suppressions change, and staff retry or close rows.

`OneReminder` is the promise: at most one receipt for each notification, a
recorded success is real, only what was not sent is reopened. The map `Phase`
takes a row's status and the reason it was closed for to a phase of the
promise; `got` is the number of acceptances. `AtMostOnce` is the refinement.

### StaffAccess

`profile` is `staff_profiles` with the open `staff_role_assignments`, `user` is
Cognito's account of the same e-mail, `browser` the two cookies, `order` and
`done` what a command id was sent for and which ones the database recorded. A
lifecycle request goes step by step through both stores (`Enable`/`Disable`,
`SignOut`, `Persist`, and `Undo` when the database refuses; `Create`, `Save`,
`Unmake` for a grant). A call may fail with or without effect; a request may
stop. A lifecycle command whose batch throws looks for its record before it
undoes anything; a grant does not, and deletes the identity it made even if its
batch took effect and only the answer was lost (`Save`, `Named`). `Trigger` is `staff_profiles_keep_active_admin_on_update`. `muddled`
records which people's stores the code itself leaves unreconciled: commands
that overlapped about one person, or one that was torn with nobody completing
it, such a grant among them; the properties speak of everybody else. A later command that ends well
reconciles its person only if the identity it changed is the one the profile
names (`SameIdentity`); `Unmake` takes back only an identity its own request
made.

### BrowserCollection

Three tabs in two browsers share cookie jars and storage, and the desk works on
the same rows. A command reads (`Send`), commits (`Commit`), and its answer,
with the cookie and the stored proof, arrives later (`Answer`) or never
(`Lost`). `link` is `REGISTRATION` or `FOLLOWED`, `proof` the hash that opens
the contact details, `row` the registration with its revision and who wrote the
contact last.

### DuckProvisioning

Each station's page is a machine: a sticker is read, a start command reserves a
duck and its URL, the sticker is written, the write is confirmed, the duck is
photographed. `duck` is the database, `sticker` what the physical stickers
carry, `page` and `job` the machine and its reading at the granularity of its
awaits, `late` a start request that still runs after its page gave it up,
`take` a takeover by another operator, and `recovery` the request for what the
operator left undone. A refresh of the page asks for it, and so does a photo
that was saved (`Recovers`, `PhotoSaved`); it is read later (`RecoverReads`)
and its answer adopted later still, whatever the machine does by then
(`RecoverAnswers`), since nothing marks the machine as busy meanwhile. A
recovered photo is opened beside the machine (`Opened`), and when it is saved
it clears the machine, whatever that is doing. `TapDuringTakeover` and
`TapDuringRecovery` let a sticker be presented in these windows. One URL per
sticker, one operator and one recovery at a time per station; the ten minutes
before a takeover are assumed passed, and the debounce of repeated readings is
left out.

### DuckPhotos

A key (of the command and the bytes) is staged in `duck_photo_cleanup` under a
lease, the object is put, and one batch associates the key with the row and
removes it from the ledger; the drain deletes the object of every key that is
due. Requests outlive the page and may stop anywhere; a call to either store
may be refused. A request whose batch is done reads whether the photo is its
own; a refused read counts as no, and the request gives its key back to the
ledger even when its photo is the READY one (`CheckFails`). `doubted` remembers
those keys for `ReadyHasObject`, which excuses them. The lease outlasts a live
request, which is why `Expires` waits for it.

### LiveUpdates

One page of the staff console or the registration desk and the list it shows.
Rows are abstracted to the version they were read at. Signals may be lost,
sockets close, connections are refused (the hub's limit of
`MAX_LIVE_CONNECTIONS`), polls and visibility refresh the page, the refresh
queue runs one refresh at a time, and reads by refreshes, filters and commands
overlap; `Retired` is the latest-read rule that lets only the newest paint. An
edit defers refreshes (`Deferred`) up to five minutes, a command keeps the page
busy, a reduced role clears it at once (`Reduced`), an added role waits for the
page to be idle. A refresh reads the event first and the rows after it; the
requests that make up the reading of the rows are one.

## 3. Runs

| run | instance | what it shows |
|---|---|---|
| `RoundOneFinal` | two heats of two contestants and a withdrawn racer, two places in the final, two commands in flight | one account per heat, no official result lost |
| `RoundOneWalkUps` | one heat, a racer who may leave, return, lose and get a duck, two walk-ups, up to two heats (`FinalCapacity` is 2), two commands in flight | capacities, finalists are the winners, a heat is kept for waiting walk-ups |
| `PodiumScans` | three finalists who leave and return, two commands in flight | what a scanning page offers is accepted, the podium can always be finished |
| `PodiumLife` | three finalists, two of whom may leave, one of whom changes ducks and returns; two revisions, before and after completion | scanned places follow their racers' ducks |
| `Layout` | three racers, heats of two (minimum two), two requests in flight | slots stay contiguous, closing and reopening mend the layout, a running round is locked and large enough, nobody loses a place or is reordered in a bag |
| `StrandedHeat` | the same, and racers may also withdraw while being paired | violates `RoundIsLocked`: see below |
| `Outbox` | one reminder, two queue copies, two consumers, one fault, two changes | at most one delivery (refinement of `OneReminder`), nothing unwanted is sent, nothing that may have been sent is retried, nothing is forgotten, everything settles |
| `Staff` | two administrators and a third person, two commands, two requests, one fault | an administrator remains, both stores agree, no session survives a deactivation |
| `Collections` | two tabs of one browser and one of another, the desk, one registration, two collections | only the registrant owns, credentials are kept, raced registrations are kept, edits overwrite only what was seen |
| `Provisioning` | two stations, two stickers, two ducks, two takeovers, answers of recoveries late or lost | stock is written, a retry allocates no second duck |
| `Photos` | two commands, two captures, two requests, one drain, one fault | a READY photo has its object, but for one that its own request gave back, no object is orphaned, every object without a READY row is deleted at last |
| `Live` | one page, one commit, one change of roles, one move of the user, one request that fails | no older rows come back, the page catches up, revoked data is cleared |

### Bounds

Two requests in flight are enough for every race of a preflight with a batch:
a batch is atomic, and a third party acts through the one-step commands, which
are always possible. The rest, by run:

* *Race.* Two heats and two places are the least that let promotions of
  different heats meet, and a walk-up open a heat while another is unstarted: a
  heat may be added as long as the final has a place for its winner, so a
  capacity of two allows one more beside the first, and is reached.
  START_ROUND_ONE requires three racers a heat; the
  withdrawn ones keep the number of contestants small. `MaxDuck` bounds how
  often a racer gets another duck, `MayLeave`, `MayReturn` and `MayLoseDuck` who
  is affected. Three finalists are the least that fill the podium, and a
  departure then changes its depth.
* *Layout.* The minimum heat size is a parameter (3 in the code): with heats of
  two, three racers give a full heat and a short one, a merge to three, and a
  split of it. `MaxHeat` of four leaves room for the heat numbers a stale
  plan may use. `OvertakeReopening`, `OvertakeClosing` and `LeaveDuringPairing`
  switch on the overtakings the code does not survive; see below. Of these
  `OvertakeClosing` is on in `Layout`: with three racers a closing that others
  have overtaken fails, plans nothing, or does no harm. `MCOvertaken` follows a
  script to the layouts where it does harm; every step of it is one of
  `HeatLayout`.
* *Outbox.* Two copies, two consumers and two deliveries (`FinalAttempt` 2
  instead of 5) are the least at which a duplicate meets a running delivery and
  at which a temporary failure becomes final; one fault can stop any
  invocation anywhere; two changes let one contradict the other.
* *Staff.* Two commands by two administrators are what the last-administrator
  rule and overlapping work on one person need; each identifier may be sent
  again, before and after it was recorded.
* *Collections.* A second tab is needed for two proofs, a second browser for a
  follower, a second collection for a lost cookie.
* *Provisioning.* Two ducks let a recovery meet a new reservation; two takeovers
  let a duck come back. One recovery at a time stands for any number: a later one
  takes the place of an outstanding one, whose answer is then lost.
* *Photos.* Two commands stand for two lives of the page, two captures for a
  retake; two requests let a lost one meet its repetition.
* *Live.* One newer version and one change of roles suffice for a property that
  compares two. `MaxMoves` bounds what the user begins (an edit, a filter, hiding
  the page) and `MaxFaults` the requests that fail. What is submitted, discarded,
  refused, lost or shown again is not bounded, so one move is an edit with all
  that follows from it, a page whose user has no roles may fail every read, and
  sockets may close without end.

Deadlock is not checked: every one of these systems may stop (a race ends, an
event is over, an outbox is empty, the bounds are used up).

### Fairness

Only three runs have liveness properties, and only for what runs by itself:

* `Outbox`: weak fairness of the dispatcher (`index.ts` runs it every minute),
  of the queue and its consumers, and of time. Faults, staff and participants
  promise nothing. `EverythingSettles`: a row comes to an end, or its message
  is in the dead-letter queue.
* `Photos`: the Worker runs a request to an end, leases run out, the scheduler
  starts a drain each minute and a drain runs on. Stops and failures are bounded
  by `MaxFaults`.
* `Live`: timers fire and requests are answered or fail.
  Signals, sockets and the user promise nothing: it is the polling that
  `CatchesUp` and `RevokedIsCleared` rest on.

Nothing is assumed of people, so nothing is said of whether a race gets to its
final.

### What the documentation says and the code does not do

`StrandedHeat` is a run. `docs/WORKFLOWS.md` says that "planned and unlocked" and
"the round is running" cannot both be true. `pairDuck` decides from its
preflight that the round has not started; its batch inserts a PLANNED heat
whatever the event's status is by then. Before START_ROUND_ONE every SUBMITTED
racer blocks the start, so the racer being paired has to withdraw meanwhile:
then the round starts, and the pairing, which sets ACTIVE unconditionally,
adds an unlocked heat of one to it.

`MCOvertaken` with `OvertakenClose.cfg` is another, kept as an instance beside
the runs: thirty racers, heats of four, one scripted behaviour, which ends in a
state that violates `SlotsContiguous`. A comment says that "slot numbers stay
contiguous from 1 on both sides of the operation" (`event-operations.ts:1505`).
A closing plans the slot of every entry it moves when it reads the layout
(`:1681`), and its transaction checks that registration is open and that each
target has the number of entries it had. There a closing plans to fold three
heats into the third, of two racers; before it commits, others close and reopen
registration four times, with roster replacements in between. Then two of the
three heats have new rows, the third has its old one and four racers, and the
target has two again. The closing commits: two of the four move to slots 3 and
4, the other two to slots 7 and 8, as if two others came between. With 51
racers and heats of seven the same commands also put two racers of one heat in
the other order than their bag. It takes a request that is minutes late, so
nothing here says it will happen; but `OvertakeClosing = FALSE` is a hypothesis
of four theorems that no instance small enough to search would have suggested.

The others are shown by an instance above with a constant or a property
changed; each takes TLC seconds.

| divergence | instance |
|---|---|
| Reopening the first of two announced heats leaves slot 2 alone; the next announcement computes slot 2 again and collides (`heat-operations.ts:2962`; WORKFLOWS "Slot numbers are always contiguous") | `RoundOneFinal.cfg`, INVARIANT `SlotsContiguous` |
| A roster replacement inside a reopen makes its DELETE by entry id a no-op: a heat is reopened while the final keeps its winner, even a locked final (`:2920`; "Reopen is blocked once the final roster is locked") | `RoundOneFinal.cfg`, PROPERTY `ReopenOnlyBeforeLock` |
| A duck deleted inside a reactivation leaves an ACTIVE racer without a duck (`participant-operations.ts:1044`) | `RoundOneWalkUps.cfg`, PROPERTY `ActiveHoldsDuck` |
| A withdrawal inside a pairing is undone by it (`staff-api.ts:1168`; "Pairing changes `SUBMITTED` to `ACTIVE`") | `RoundOneWalkUps.cfg`, PROPERTY `PairingOnlyOfSubmitted` |
| A correction's podium depth is checked in its preflight only, so a reactivation inside it publishes a podium a place short (`heat-operations.ts:3085`) | `PodiumLife.cfg` with two clients, PROPERTY `CorrectedInFull` |
| After a podium duck is deleted and a finalist returns, completion asks for a correction that both endpoints refuse (`heat-operations.ts:184`) | `PodiumLife.cfg` with `MayReturn = {f1, f2}`, INVARIANT `RemedyReachable` |
| An announcement's batch checks how many places were recorded, not which: a replaced duck erased inside it takes its row along, a withdrawal lowers the depth, and place 2 is published alone (`:2129`) | `PodiumLife.cfg`, INVARIANT `PodiumInOrder` |
| A reopening overtaken by another one, or by a roster replacement of the same length, adds an empty heat, after which closing registration is refused until somebody is paired into it (`event-operations.ts:1787`, "a split is all-or-nothing"; WORKFLOWS "always produces a layout every heat of which can race") | `Layout.cfg` with `OvertakeReopening = TRUE`: `ClosingMends` fails, and `SlotsContiguous` too |
| A row closed and opened again, by a reminder that is due again or by a staff retry, while its former publication still runs can be QUEUED without a message | `Outbox.cfg` with `MayOverrun = TRUE`, `QueuedIsCarried` |
| A browser whose first registration and My Ducks request cross may keep a cookie that does not resolve to what it registered (`api.ts:709`; REGISTRATION_API "resolves to every registration") | `Collections.cfg`, INVARIANT `CookieResolvesAll` |
| A sticker presented while its station takes over another tag confirms a tag that was never written (`client-scripts.ts:6015`; WORKFLOWS on provisioning, step 3) | `Provisioning.cfg` with `TapDuringTakeover = TRUE`, `StockIsWritten` |
| A sticker presented while the answer of a recovery is outstanding, or while the photo it opened is owed, confirms a tag that was never written: the answer replaces the record whose URL is being written (`client-scripts.ts:4672`, asked without `inFlight` at `:4717` and `:6116`) | `Provisioning.cfg` with `TapDuringRecovery = TRUE`, `StockIsWritten` |
| A request that cannot read whether its photo was associated gives its own key back, and the object of the READY photo is deleted (`duck-operations.ts:1748`, "The candidate's staged cleanup row survives an unavailable D1 read"; a repetition of the request then answers that the photo is saved) | `Photos.cfg`, INVARIANT `ReadyKeepsObject` |
| A retry of a capture whose first try still runs can lose the object of the READY photo (INFRASTRUCTURE on the upload ledger) | `Photos.cfg` with `RetryEarly = TRUE`, `ReadyHasObject` |

Found while reading, and excluded from the properties or outside the modules:

* a grant that loses a race for the same e-mail deletes the identity the winner's
  profile names, a redundant activation's compensation disables the identity of
  an active profile, and a late duplicate of a recorded command runs its Cognito
  part again: those are the people in `muddled`;
* a grant whose batch commits and loses its answer deletes the identity its own
  profile names (`staff-api.ts:196`), and no command mends that: another grant of
  the address is refused because the profile exists, an activation or a
  deactivation because the identity does not; they are in `muddled` too;
* a page whose user gains roles while an edit is unfinished stops refreshing for
  as long as the edit stays, although an edit "abandoned for more than five
  minutes stops deferring" (`CatchesUp` excuses it); My Ducks and the participant
  card have the same effect whenever they are dirty (`client-scripts.ts:1720`,
  `:7203`), and the card can paint a record read before an edit over the answer
  of that edit until the next refresh;
* a close overtaken by another close and a reopening reports bag moves it did not
  make (`event-operations.ts:2131`), and moves whose response is lost are never
  told again.

## 4. Proofs

Each module of section 2 has its type invariant, and every invariant and action
property its runs check, proved for every value of its constants. The only
hypotheses are the module's own ASSUMEs and, in ten theorems, that one constant
or two are FALSE. Those constants switch on an overlap of requests after which
the code does not keep the property:

| constant | theorems | the overlap in section 3 |
|---|---|---|
| `OvertakeReopening`, `OvertakeClosing` | `SlotsContiguousHolds`, `ClosingMendsHolds`, `ReopeningMendsHolds`, `PlacesAreKeptHolds` | the reopening and the closing that others overtake |
| `LeaveDuringPairing` | `RoundIsLockedHolds` | `StrandedHeat` |
| `MayReplaceRoster` | `FinalistsAreWinnersHolds` | the replacement inside a reopen |
| `MayOverrun` | `QueuedIsCarriedHolds` | the row closed and opened under a publication |
| `TapDuringTakeover`, `TapDuringRecovery` | `StockIsWrittenHolds` | the sticker presented during a takeover, or a recovery |
| `RetryEarly` | `ReadyHasObjectHolds`, `NothingOrphanedHolds` | the retry of an unsettled capture |

Everything else proved about these modules holds with the overlap too.

`HeatLayoutProofs`, for every finite set of racers, any number of requests, and
every capacity:

* `TypeCorrect`, with all overtakings on, from `Typed`: a transaction leaves sound
  heats, with an entry only in a heat that exists and no slot twice, whatever its
  plan was read from (`Sound`).
* `RoundIsLockedHolds`, from `Promised`: whoever is being paired waits for a duck,
  or has got one from another desk, and in the running round it is the latter, so
  that the pairing fails.
* `SlotsContiguousHolds`, `ClosingMendsHolds`, `ReopeningMendsHolds` and
  `PlacesAreKeptHolds`, from `Gapless`. A heat without a gap is not inductive by
  itself: what a transaction does to it depends on the layout its plan was read
  from. `Gapless` therefore says of every closing that may still commit
  (`ClosePlan`) and of the one reopening (`ReopenPlan`) that the heats extend that
  layout: they are those it read, with at most some racers paired since behind
  the rosters it read. A pass then either finds the roster it was planned over, or
  aborts (`MergeExact`, `SplitExact`). `MergesIs` and `SplitsIs` say what the
  planning functions compute, `FoldRuns` and `UnfoldRuns` carry the passes through
  the transaction.

A plan may have any number of passes. The induction over them is over a set: the
numbers of passes a fact holds after contain 0 and with each number the next, so
all of them (`Reaches`, from the least element of a set of numbers).

`RoundOneRaceProofs` proves for every number of racers, heats, clients and
every draw (assumptions `RacersAssumption` and `StartReadiness` only):

* `TypeCorrect`, by one lemma per group of actions.
* `OneHeatRunningHolds`, `EveryoneAfloatHolds`, `OneAccountPerHeatHolds`,
  `FinalAfterRoundHolds`: each invariant is inductive together with `TypeOK`.
* `ResultsAreKeptHolds`: the action property from `OneAccountPerHeat` (a heat
  that announces, or is settled, has published nothing yet).
* `LockedFinalRosterHolds`, `WalkUpsKeepAHeatHolds`: from the types alone, since
  every guard involved is repeated in the batch.
* `OnlyEligibleWinnersHolds`: from `RanInHeat`, a recorded winner is on the
  roster of its heat and a roster of Round One never loses a racer.
* `SubmittedHoldsNoDuckHolds`: from `UnpairedHoldNone`, which adds to the
  property that absent racers hold nothing and that a reactivation in flight
  towards SUBMITTED never overlooks a duck. Without it the property is not
  inductive: the reactivation's batch does not look at the assignment.
* `WithinCapacityHolds`: from `Fits`, which adds that a lineup in flight lists no
  more racers than the final holds. The count of heats is kept by the pairing
  that plans one more, the count of finalists by the announcement's batch.
* `FinalistsAreWinnersHolds` (without roster replacement): from `WinnersRan` (a
  published winner raced in that heat and in no other, so two heats never share
  one) and `SeenStands` (what a reopening or a correction saw of the final's entry
  is still so when its batch is let through, since whoever publishes another
  winner retires it).

`FinalPodiumProofs` proves, for every roster, every initial duck assignment and
every number of clients (assumption `FinalAssumption` only: a finite roster,
somebody in it, numbers where numbers are meant):

* `TypeCorrect`, by one lemma per group of actions.
* `OneAccountHolds`, with `AnnouncedUnscanned`: while an announcement is in flight
  nothing is scanned. Without it an announcement of a podium whose rows were all
  erased could end beside a scanned place.
* `SelectionsFollowDucksHolds`, with `PlacesApart` (no two selections share a
  place or a racer). It rests on `OneAccount`: selections exist only while the
  heat waits for its result, when its ducks cannot be deleted.
* `OfferedPlacesAreAcceptedHolds`: the read and the guard hide the same rows;
  with `CompletedIsFinalized`.
* `PodiumCanBeFinishedHolds`: visible selections inject into the places and, if
  nobody were left to scan, would cover all eligible racers, of whom there are
  at least `Depth`.
* `NoPlaceIsTakenAwayHolds`: every batch either leaves a visible row visible
  (`Depth` only grows when racers return) or is one of the listed reasons.
* `PodiumsAreKeptHolds`, `OnlyEligiblePlacesHolds`, `AnnouncedInFullHolds`,
  `RevisionsAreNewHolds`, by the steps that publish and withdraw.

A property with a theorem and no run was model-checked before it was proved;
the theorem covers every instance a run could take.

`NotificationOutboxProofs`, for every set of notifications and addresses and any
number of copies, consumers, publications, faults and changes:

* `TypeCorrect` and `OnlyUnsentIsRetriedHolds`, from `Delivery`: at most one
  invocation holds a claim (`OneHolder`), a row's claim is its holder's
  (`HolderOwns`), and row and invocation know how often the provider accepted
  (`GotFits`, `JobGot`). The last is what makes it inductive: between the
  provider's call and its recording only the invocation knows.
* `AtMostOnceHolds`: the refinement of `OneReminder`, one lemma per group of
  actions that says which step of the promise, or which stutter, each is.
* `NoUnwantedMailHolds`: from `LooksWanted`, which follows an invocation from its
  second reload to the provider.
* `QueuedIsCarriedHolds`: from `Carriage`. Every message is in a slot or held by an
  invocation of its own, a message that will find its row closed is `Doomed`, and
  there is `Room` for another message wherever a row may be opened again. What
  wakes by an earlier delay (`FreedIs`, `RetryLeaves`) stays where it is.

`StaffAccessProofs`, for every finite set of people and any number of requests,
commands and faults:

* `TypeCorrect`, with `OrdersFit`: a request is at a step of the command it carries.
* `AdminRemainsHolds`, with `KnownFits` (only profiles that exist are active): from
  the condition of the trigger, without any serialisation of the requests.
* `StoresAgreeHolds` and `NoSessionLeftHolds`, from `Access`: a request that was
  alone is still alone and has reached what its step says (`AloneFits`,
  `Progress`; of one that goes to delete its identity nothing is known, since its
  batch may have committed), and whoever is undisturbed is in order up to the step their
  request is at (`Settled`). While a request is half way the two stores differ,
  so neither property is inductive by itself.

`BrowserCollectionProofs`, for every set of tabs, browsers, staff, registrations
and collections: all five from `Collected`. `OneBrowser` (a collection is in the
cookie or the request of one browser) and `LinksOwned` carry
`OnlyRegistrantsOwnHolds`; `EditsFit` (while an edit is in flight its row moved on
or still shows what the page saw) carries `EditsAreSeenHolds`.

`DuckProofs`, of provisioning, for every number of stations, stickers, ducks and
takeovers:

* `TypeCorrect` and `OneStartedEachHolds`, from `Provisioned`: a sticker is in one
  hand (`Apart`). A tag that changed hands, even if it came back, is not counted
  as started by its operator.
* `StockIsWrittenHolds`, from `Works` (a write is of the page's record, what is
  confirmed is on the sticker) and `StockIsKept` (a duck in stock has a sticker
  that nobody is about to write on). With both constants FALSE a takeover and a
  recovery find no reading at their station, from the request to the answer or
  the end of the photo (`TakesAlone`, `RecoversAlone`); otherwise an answer could
  replace the record under a write, and `Works` would be lost. `OldestIs` needs the least element of a set
  of numbers, the one use of a well-founded order here.

and of photos, for every number of captures, commands, requests, drains and
faults:

* `PhotoTypeCorrect`, `ReadyHasObjectHolds` and `NothingOrphanedHolds`, the last two
  from `Protocol`, which says for a key at each step of a request or a drain what
  the ledger, the bucket and the row still hold: the lease keeps the drain away
  until the batch, and what is shown has left the ledger and every drain, unless
  it is in `doubted`.

`LiveUpdatesProofs`, for every set of roles and every bound: `TypeCorrect`, and
`NothingComesBackHolds` from `OneCurrent` (at most one read may still paint),
`Ahead` (it was answered with rows no older than those shown) and `StaysClear` (a
cleared page has no such read). `Steps` reduces every action to one of six shapes,
by what it does to rows and reads, and the three are proved of the shapes.

### What proving changed

Where a first attempt failed the model was too narrow or too wide, and now says
what the code does:

* a suppression by the provider marks every invocation that has already looked the
  address up as late, not only the one that reports it, and a staff retry can
  overtake a publication just as a renewed reminder can;
* a repeated lifecycle command that was recorded before does not mend a person
  whose identity at the provider is another one than the profile's, and the
  compensation of a grant does not delete an identity it found;
* a closing, too, must not be overtaken by others that close and reopen: `Gapless`
  could not be proved with `OvertakeClosing`, and the step at which it failed led
  to `MCOvertaken`;
* `HeatLayout` states its plans as functions of the number of passes instead of
  RECURSIVE operators, with the same states in every run;
* `Works` fails if a recovery's answer is a step of its own that a reading may
  overlap, as in the page it may: `TapDuringRecovery` is that overlap;
* what the instances took for granted became assumptions: the queue has a slot,
  the founders have subjects, nobody is both a participant's tab and staff, the
  marks for "nothing" are no member of the sets they are added to.

### Only model-checked

* Liveness (`EverythingSettles`, `ObjectsSettle`, `CatchesUp`,
  `RevokedIsCleared`): fairness is out of the prover's reach.

## 5. Not modelled, and plan

Not modelled: public race status (each page is a function of the rows at one
moment); the duck name filter (text matching without state); creation,
configuration and force deletion of an event (nobody else acts on its rows
then); bulk intake, reservations for another event and inventory edits; the
support inbox; search, rate limits, request validation, cryptography of tokens
and signatures; markup and forms.

Left to do:

* That a locked layout is an initial state of `RoundOneRace`, and a locked final
  roster one of `FinalPodium`, as theorems instead of a sentence in section 2.
