----------------------------- MODULE LiveUpdates -----------------------------
(* One open page of the staff console or the registration desk, the list of  *)
(* participants it shows, and the live-update hub that keeps both current:   *)
(* best-effort signals over a socket, polling, access checks, the refresh    *)
(* queue, and the guard that lets only the latest read paint.                *)
(*                                                                           *)
(* The rows are abstracted to the version of the data they were read at.  A  *)
(* refresh reads the event first and then the rows; each read of the rows is *)
(* answered from one moment of the database and arrives later.  Other pages  *)
(* matter to this one only in that they may take the object's last socket:   *)
(* an attempt to connect may be refused at any time.                         *)
EXTENDS Integers

CONSTANTS
  Roles,         \* the roles a staff member can have
  InitialRoles,  \* those of this page's user when it was first rendered
  MaxVersion,    \* bound: commits that change what the list shows
  MaxAccess,     \* bound: changes of the user's roles
  MaxMoves,      \* bound: the user's hides, edits and filters
  MaxFaults      \* bound: requests that fail

ASSUME LiveAssumption ==
  /\ InitialRoles \subseteq Roles /\ InitialRoles # {}
  /\ {MaxVersion, MaxAccess, MaxMoves, MaxFaults} \subseteq Nat

VARIABLES
  version,   \* the newest committed data
  granted,   \* the user's roles as of now; none: the session is refused
  socket,    \* the page's connection to RaceUpdates
  wire,      \* signals on their way to the page
  page,      \* up, leaving by a reload, cleared before one, or gone
  rendered,  \* the roles the document was rendered for
  shown,     \* the version of the rows in the document
  hidden,    \* document.hidden
  dirty,     \* is there an unsaved edit?
  command,   \* the command in flight, which keeps the page busy
  since,     \* dirtySince: unset, running, or over the deferral limit
  queued,    \* the refresh queue's flag
  work,      \* the refresh that is running: reading the event or the rows
  reads,     \* reads of the rows in flight, by who began them
  reload,    \* pendingAccessReload
  check,     \* the shared access check, and the roles it was answered with
  timer,     \* the poll timer; waiting: its refresh awaits the access check
  spent      \* what is used of the bounds

server   == <<version, granted>>
link     == <<socket, wire>>
document == <<page, rendered, shown>>
user     == <<hidden, dirty, command>>
queue    == <<since, queued, work, reads>>
hub      == <<reload, check, timer>>
vars == <<server, link, document, user, queue, hub, spent>>

-----------------------------------------------------------------------------
(* The data.                                                                 *)

Nothing == -1            \* no rows: cleared, or not loaded yet
Versions == 0..MaxVersion
Signals == {"data", "staff", "all"}   \* by what they make this page do
Readers == {"work", "filter", "command"}

\* A read is asked, then answered with the rows of that moment, unless its
\* token has become stale: then it does not matter any more what it says.
Read(state, rows) == [of |-> state, got |-> rows]
NoRead == Read("none", Nothing)
Asked == Read("asked", Nothing)
Stale == Read("stale", Nothing)
Reads == {NoRead, Asked, Stale} \cup {Read("rows", v) : v \in Versions}

NoCheck == [of |-> "none"]
Checks == {NoCheck, [of |-> "asked"]}
            \cup [of : {"answer"}, roles : SUBSET Roles]

\* Every variable has its type; the timers go with the page's visibility, and
\* who waits for rows has a read of its own in flight.
TypeOK ==
  /\ version \in Versions /\ granted \subseteq Roles
  /\ socket \in {"none", "connecting", "open"}
  /\ wire \subseteq Signals
  /\ page \in {"up", "leaving", "cleared", "gone"} /\ rendered \subseteq Roles
  /\ shown \in Versions \cup {Nothing}
  /\ hidden \in BOOLEAN /\ dirty \in BOOLEAN
  /\ since \in {"unset", "running", "over"}
  /\ command \in {"none", "sent", "loading"} /\ reload \in BOOLEAN
  /\ queued \in BOOLEAN /\ work \in {"none", "event", "rows"}
  /\ reads \in [Readers -> Reads] /\ check \in Checks
  /\ timer \in {"off", "set", "waiting"}
  /\ wire # {} => socket = "open"
  /\ page = "up" => (hidden <=> timer = "off")
  /\ page = "up" => /\ work = "rows" <=> reads["work"] # NoRead
                    /\ command = "loading" <=> reads["command"] # NoRead

-----------------------------------------------------------------------------
(* Tokens: liveCreateLatestRequest and liveInvalidatePage.  Operators on     *)
(* reads take them as an argument, since one step may end one and begin one. *)

\* Mutant: beginning a read leaves the earlier ones current.
Retired_Not(rs) == rs

\* Beginning a read, or invalidating, makes every earlier read stale.
Retired(rs) ==
  [w \in Readers |-> IF rs[w] = NoRead THEN NoRead ELSE Stale]

Begun(w) == [Retired(reads) EXCEPT ![w] = Asked]
Over(w) == [reads EXCEPT ![w] = NoRead]

-----------------------------------------------------------------------------
(* The refresh queue, liveCreateRefreshQueue: at most one refresh runs, and  *)
(* one more is remembered.  A refresh that finds the page hidden, busy or    *)
(* under a young edit is only remembered: the next call starts it.           *)

Busy == command # "none"

\* Mutant: an edit defers refreshes however long it is abandoned.
Deferred_Forever(d, s) == d

\* dirtyDeferred, with the start of the edit as it stands after the question.
Deferred(d, s) == d /\ s # "over"

\* dirtySince after the question, which a hidden or busy page does not ask.
Timed(b, d) == CASE hidden \/ b -> since
                 [] ~hidden /\ ~b /\ ~d -> "unset"
                 [] OTHER -> IF since = "unset" THEN "running" ELSE since
Blocked(b, d) == hidden \/ b \/ Deferred(d, Timed(b, d))

\* refresh(), on a page that is now busy (b) or not, being edited (d) or not;
\* whoever calls it twice leaves one more refresh behind the one that starts.
Refresh(b, d, rs, twice) ==
  /\ since' = Timed(b, d)
  /\ IF work = "none" /\ ~Blocked(b, d)
     THEN queued' = twice /\ work' = "event" /\ reads' = Retired(rs)
     ELSE queued' = TRUE /\ reads' = rs /\ UNCHANGED work
RefreshNow == Refresh(Busy, dirty, reads, FALSE) /\ UNCHANGED document

\* The running refresh is done: the loop goes round again if one is queued.
WorkDone(rs) ==
  IF queued /\ ~Blocked(Busy, dirty)
  THEN /\ queued' = FALSE /\ work' = "event"
       /\ reads' = Retired(rs) /\ since' = Timed(Busy, dirty)
  ELSE /\ work' = "none" /\ reads' = rs /\ UNCHANGED queued
       /\ since' = IF queued THEN Timed(Busy, dirty) ELSE since

-----------------------------------------------------------------------------
(* Leaving the page.                                                         *)

Left == page \in {"leaving", "cleared"}

\* clearPrivatePage and the navigation it announces.  The navigation is all
\* that can still happen, besides responses that were under way.
ClearPage ==
  /\ page' = "cleared" /\ shown' = Nothing /\ reads' = Retired(reads)
  /\ UNCHANGED <<rendered, since, queued, work>>

\* tryPendingAccessReload: a page at rest is reloaded without being cleared.
ReloadPage(rs) == /\ page' = "leaving" /\ reads' = rs
                  /\ UNCHANGED <<since, queued, work>>

\* markClean and endBusy: a pending reload goes first, else the queue.
Release(b, d, rs, twice) ==
  IF reload /\ ~b /\ ~d THEN ReloadPage(rs)
  ELSE Refresh(b, d, rs, twice) /\ UNCHANGED page

\* The document the navigation leads to is rendered for the roles of now.
Navigate ==
  /\ Left
  /\ page' = IF granted = {} THEN "gone" ELSE "up"
  /\ rendered' = granted /\ shown' = Nothing
  /\ dirty' = FALSE /\ command' = "none"
  /\ socket' = (IF hidden THEN "none" ELSE "connecting")
  /\ wire' = {}
  /\ since' = "unset" /\ queued' = hidden
  /\ work' = (IF hidden THEN "none" ELSE "event")
  /\ reads' = [w \in Readers |-> NoRead]
  /\ reload' = FALSE /\ check' = NoCheck
  /\ timer' = (IF hidden THEN "off" ELSE "set")
  /\ UNCHANGED <<server, hidden, spent>>

-----------------------------------------------------------------------------
(* The server: commits, and the signal published after each, best effort.    *)

Spend(bound, limit) == /\ spent[bound] < limit
                       /\ spent' = [spent EXCEPT ![bound] = @ + 1]

\* The signal reaches the page if its socket is open and nothing fails.
Publish(signal) == \E told \in BOOLEAN :
  /\ told => socket = "open" /\ page = "up"
  /\ wire' = IF told THEN wire \cup {signal} ELSE wire
  /\ UNCHANGED socket

\* Someone else's mutation; force deletion is signalled as "all".
Commit == \E signal \in {"data", "all"} :
  /\ version < MaxVersion /\ version' = version + 1
  /\ Publish(signal)
  /\ UNCHANGED <<granted, document, user, queue, hub, spent>>

\* An administrator changes this user's roles, or the session ends.
ChangeRoles == \E roles \in (SUBSET Roles) \ {granted} :
  /\ Spend("access", MaxAccess)
  /\ granted' = roles
  /\ Publish("staff")
  /\ UNCHANGED <<version, document, user, queue, hub>>

-----------------------------------------------------------------------------
(* The hub: socket, polls and access checks.                                 *)

Up == page = "up"

\* schedule(): the poll timer, which a hidden page does not have.
Armed == IF hidden THEN "off" ELSE "set"

\* verifyStaffAccess: one check at a time, shared by all who ask.  Whoever
\* asked queues a refresh when it passes, so it does not matter who did.
Ask == check' = IF check = NoCheck THEN [of |-> "asked"] ELSE check

Opened ==
  /\ Up /\ socket = "connecting" /\ socket' = "open"
  /\ timer' = Armed /\ Ask
  /\ UNCHANGED <<server, wire, document, user, queue, reload, spent>>

\* Refused, at the object's limit or otherwise, or closed.
Closed ==
  /\ Up /\ socket # "none" /\ socket' = "none" /\ wire' = {}
  /\ timer' = Armed
  /\ UNCHANGED <<server, document, user, queue, reload, check, spent>>

\* The reconnect timer is set while a page that is not hidden has no socket.
Reconnect ==
  /\ Up /\ socket = "none" /\ ~hidden /\ socket' = "connecting"
  /\ UNCHANGED <<server, wire, document, user, queue, hub, spent>>

\* emit: a signal only says what to read again.
Hear == \E signal \in wire :
  /\ Up /\ wire' = wire \ {signal}
  /\ CASE signal = "all" -> ClearPage /\ UNCHANGED check
       [] signal = "staff" -> Ask /\ UNCHANGED <<document, queue>>
       [] signal = "data" -> RefreshNow /\ UNCHANGED check
  /\ UNCHANGED <<server, socket, user, reload, timer, spent>>

Poll ==
  /\ Up /\ timer = "set" /\ timer' = "waiting" /\ Ask
  /\ UNCHANGED <<server, link, document, user, queue, reload, spent>>

CheckAnswered ==
  /\ Up /\ check.of = "asked"
  /\ check' = [of |-> "answer", roles |-> granted]
  /\ UNCHANGED <<server, link, document, user, queue, reload, timer, spent>>

\* Mutant: a loss of roles waits for the edit like a gain.
Reduced_AtRest(roles) == ~(rendered \subseteq roles) /\ ~Busy /\ ~dirty

Reduced(roles) == ~(rendered \subseteq roles)

\* The poll that waited for the check, if any, sets the timer again.
CheckDone == /\ check' = NoCheck
             /\ timer' = IF timer = "waiting" THEN "set" ELSE timer

\* Fewer roles clear the page at once; more reload it when it is at rest.
CheckArrives ==
  /\ Up /\ check.of = "answer" /\ CheckDone
  /\ CASE check.roles = rendered -> RefreshNow /\ UNCHANGED reload
       [] Reduced(check.roles) -> ClearPage /\ UNCHANGED reload
       [] OTHER -> /\ reload' = TRUE
                   /\ UNCHANGED <<rendered, shown>>
                   /\ IF Busy \/ dirty THEN UNCHANGED <<page, queue>>
                      ELSE ReloadPage(reads)
  /\ UNCHANGED <<server, link, user, spent>>

\* A check without an answer passes.
CheckFails ==
  /\ Up /\ check # NoCheck /\ Spend("faults", MaxFaults)
  /\ CheckDone /\ RefreshNow
  /\ UNCHANGED <<server, link, user, reload>>

-----------------------------------------------------------------------------
(* Reading: loadEvents and loadEvent, then loadParticipants.                 *)

EventArrives ==
  /\ Up /\ work = "event"
  /\ IF hidden THEN WorkDone(reads)
     ELSE /\ work' = "rows" /\ reads' = Begun("work")
          /\ UNCHANGED <<since, queued>>
  /\ UNCHANGED <<server, link, document, user, hub, spent>>

\* The refresh is abandoned, what is queued behind it with it.
EventFails ==
  /\ Up /\ work = "event" /\ Spend("faults", MaxFaults)
  /\ work' = "none"
  /\ UNCHANGED <<server, link, document, user, since, queued, reads, hub>>

Answered(w) ==
  /\ reads[w] = Asked /\ granted # {}
  /\ reads' = [reads EXCEPT ![w] = Read("rows", version)]
  /\ UNCHANGED <<server, link, document, user, since, queued, work, hub, spent>>

Painted(read) == IF read.of = "rows" /\ ~hidden THEN read.got ELSE shown

\* What follows the read: the refresh loop, the filter's markClean, or the
\* end of the command, which marks its form clean when all of it succeeded,
\* ends the busy state and resumes the subscription.
Then(w, done) ==
  CASE w = "work" -> /\ WorkDone(Over(w))
                     /\ UNCHANGED <<page, dirty, command>>
    [] w = "filter" /\ ~done ->
         /\ reads' = Over(w)
         /\ UNCHANGED <<page, dirty, command, since, queued, work>>
    [] w = "filter" /\ done -> /\ Release(Busy, dirty, Over(w), FALSE)
                               /\ UNCHANGED <<dirty, command>>
    [] w = "command" -> /\ command' = "none" /\ dirty' = (dirty /\ ~done)
                        /\ Release(FALSE, dirty /\ ~done, Over(w), TRUE)

\* The response paints if it still may, and does what comes after it.
ReadArrives(w) ==
  /\ Up /\ reads[w].of \in {"rows", "stale"}
  /\ shown' = Painted(reads[w])
  /\ Then(w, TRUE)
  /\ UNCHANGED <<server, link, rendered, hidden, hub, spent>>

\* It fails, or the session is refused: nothing is painted.
ReadFails(w) ==
  /\ Up /\ reads[w] # NoRead
  /\ IF granted = {} THEN UNCHANGED spent ELSE Spend("faults", MaxFaults)
  /\ Then(w, FALSE)
  /\ UNCHANGED <<server, link, rendered, shown, hidden, hub>>

\* A response that was under way when the page was left.
LateArrival(w) ==
  /\ Left /\ reads[w].of \in {"rows", "stale"}
  /\ shown' = Painted(reads[w]) /\ reads' = Over(w)
  /\ UNCHANGED <<server, link, page, rendered, user, since, queued, work,
                 hub, spent>>

-----------------------------------------------------------------------------
(* The user.                                                                 *)

Edit ==
  /\ Up /\ ~hidden /\ ~dirty /\ dirty' = TRUE /\ Spend("moves", MaxMoves)
  /\ UNCHANGED <<server, link, document, hidden, command, queue, hub>>

\* The edit is taken back, or its form closed.
Discard ==
  /\ Up /\ ~hidden /\ dirty /\ dirty' = FALSE
  /\ Release(Busy, FALSE, reads, FALSE)
  /\ UNCHANGED <<server, link, rendered, shown, hidden, command, hub, spent>>

\* An edit is submitted; one command at a time.
Submit ==
  /\ Up /\ ~hidden /\ dirty /\ ~Busy /\ command' = "sent"
  /\ UNCHANGED <<server, link, document, hidden, dirty, queue, hub, spent>>

\* The server commits it and answers; the list is then read again.
Accepted ==
  /\ Up /\ command = "sent" /\ granted # {}
  /\ version < MaxVersion /\ version' = version + 1 /\ Publish("data")
  /\ command' = "loading" /\ reads' = Begun("command")
  /\ UNCHANGED <<granted, document, hidden, dirty, since, queued, work, hub,
                 spent>>

\* It is refused, or its answer never comes.
Refused ==
  /\ Up /\ command = "sent" /\ command' = "none"
  /\ Release(FALSE, dirty, reads, TRUE)
  /\ UNCHANGED <<server, link, rendered, shown, hidden, dirty, hub, spent>>

\* The list is filtered anew, while other reads of it may be under way.
Filter ==
  /\ Up /\ ~hidden /\ reads["filter"] = NoRead /\ Spend("moves", MaxMoves)
  /\ reads' = Begun("filter")
  /\ UNCHANGED <<server, link, document, user, since, queued, work, hub>>

\* Mutant: a page that is hidden goes on polling.
Hide_KeepTimer ==
  /\ Up /\ ~hidden /\ hidden' = TRUE /\ Spend("moves", MaxMoves)
  /\ UNCHANGED <<server, link, document, dirty, command, queue, hub>>

Hide ==
  /\ Up /\ ~hidden /\ hidden' = TRUE /\ Spend("moves", MaxMoves)
  /\ timer' = "off"
  /\ UNCHANGED <<server, link, document, dirty, command, queue, reload, check>>

Show ==
  /\ Up /\ hidden /\ hidden' = FALSE
  /\ timer' = "set" /\ Ask
  /\ socket' = IF socket = "none" THEN "connecting" ELSE socket
  /\ UNCHANGED <<server, wire, document, dirty, command, queue, reload,
                 spent>>

\* Five minutes have passed since the edit was first found in the way.
Overdue ==
  /\ Up /\ since = "running" /\ since' = "over"
  /\ UNCHANGED <<server, link, document, user, queued, work, reads, hub, spent>>

-----------------------------------------------------------------------------
(* The specification.                                                        *)

\* The page has just been rendered and has subscribed.
Init ==
  /\ version = 0 /\ granted = InitialRoles
  /\ socket = "connecting" /\ wire = {}
  /\ page = "up" /\ rendered = InitialRoles /\ shown = Nothing
  /\ hidden = FALSE /\ dirty = FALSE /\ command = "none"
  /\ since = "unset" /\ queued = FALSE /\ work = "event"
  /\ reads = [w \in Readers |-> NoRead]
  /\ reload = FALSE /\ check = NoCheck /\ timer = "set"
  /\ spent = [b \in {"access", "moves", "faults"} |-> 0]

Server == Commit \/ ChangeRoles
Socket == Opened \/ Closed \/ Reconnect \/ Hear
Checking == CheckAnswered \/ CheckArrives \/ CheckFails
Reading == \/ EventArrives \/ EventFails
           \/ \E w \in Readers :
                Answered(w) \/ ReadArrives(w) \/ ReadFails(w) \/ LateArrival(w)
User == Edit \/ Discard \/ Submit \/ Filter \/ Hide \/ Show

Next == Server \/ Socket \/ Poll \/ Checking \/ Reading \/ User
          \/ Accepted \/ Refused \/ Navigate \/ Overdue

\* Timers fire and requests are answered or fail; signals, sockets and the
\* user promise nothing.
Fairness ==
  /\ WF_vars(Poll) /\ WF_vars(Overdue) /\ WF_vars(Navigate)
  /\ WF_vars(Checking)
  /\ WF_vars(EventArrives \/ EventFails)
  /\ \A w \in Readers : WF_vars(Answered(w) \/ ReadArrives(w) \/ ReadFails(w))
  /\ WF_vars(Accepted \/ Refused)

Spec == Init /\ [][Next]_vars /\ Fairness

-----------------------------------------------------------------------------
(* Properties.                                                               *)

\* What a document shows never goes back to older rows, however the reads of
\* refreshes, filters and commands overlap, and a page that was cleared stays
\* clear: no response that was under way puts rows back.
NothingComesBack ==
  [][/\ page = "up" /\ page' = "up" => shown' >= shown
     /\ page = "cleared" /\ page' = "cleared" => shown' = Nothing]_vars

\* Shown to its user, not up to date, and not held back by an unfinished edit
\* of a user who has gained roles, which the page reload waits for.
Outdated == /\ Up /\ ~hidden /\ shown # version
            /\ ~(reload /\ (dirty \/ Busy))

\* No page stays stale: lost signals, closed sockets, failed requests, hidden
\* tabs and abandoned edits delay the newest rows, polling brings them.
CatchesUp == []<>~Outdated

\* No page keeps showing what its user may no longer see, edit or no edit.
RevokedIsCleared == []<>~(Up /\ ~hidden /\ ~(rendered \subseteq granted))
=============================================================================
