----------------------- MODULE NotificationOutboxProofs -----------------------
(* Proofs about NotificationOutbox, for every set of notifications, channels *)
(* and addresses, and any number of queue copies, consumers, publications,   *)
(* faults and changes.                                                       *)
EXTENDS NotificationOutbox, TLAPS

-----------------------------------------------------------------------------
(* The inductive invariant.                                                  *)

\* What an invocation has to remember at each of its steps.
Addressed == {"local", "provider", "again", "local2", "owner", "submit", "suppress"}
JobFits ==
  \A w \in Workers :
    /\ work[w].at \in Addressed => work[w].dest \in Addresses
    /\ work[w].at = "cancel" => work[w].why \in {"none", "not_next"}

\* A row is marked as unknown only once it is closed, and for good.
Doubtful(n) == status[n] \in {"FAILED", "SUPPRESSED"} /\ mark[n] = "unknown"
MarkFits == \A n \in Notes : mark[n] = "unknown" => Doubtful(n)

\* From its claim on an invocation owns the row; it loses it only to a row that
\* nobody claims again.  So no row is handled by two invocations.
Unsubmitted == {"reload", "local", "provider", "again", "local2", "owner", "submit",
                "cancel", "suppress"}
Holding == Unsubmitted \cup {"record", "fail"}
HolderOwns ==
  \A w \in Workers : work[w].at \in Holding =>
    Owns(w) \/ Doubtful(work[w].note) \/ status[work[w].note] = "GONE"
OneHolder ==
  \A v, w \in Workers :
    work[v].at \in Holding /\ work[w].at \in Holding /\ work[v].note = work[w].note => v = w

\* What each row and each invocation knows of the provider's acceptances.
Untouched(n) == \/ status[n] \in Sendable \cup {"NONE"}
                \/ status[n] \in Closed \ {"SENT"} /\ mark[n] # "unknown"
GotFits == \A n \in Notes : /\ got[n] \in {0, 1}
                            /\ Untouched(n) => got[n] = 0
                            /\ status[n] = "SENT" => got[n] = 1
JobGot ==
  \A w \in Workers :
    /\ work[w].at \in Unsubmitted => got[work[w].note] = 0
    /\ work[w].at = "record" => got[work[w].note] = 1
    /\ work[w].at = "fail" /\ work[w].why # "unknown" => got[work[w].note] = 0

Delivery == JobFits /\ MarkFits /\ HolderOwns /\ OneHolder /\ GotFits /\ JobGot

\* An invocation past its second reload has seen that the message is wanted, or
\* something has changed since.
LooksWanted ==
  \A w \in Workers : work[w].at \in PastReload /\ ~work[w].late =>
    LET n == work[w].note IN
    /\ status[n] # "GONE" /\ Valid(n)
    /\ address[Channel[n]] = work[w].dest
    /\ work[w].at \in PastLookup => <<Channel[n], work[w].dest>> \notin suppressed

\* The queue: an invocation holds a message of its own, and an empty slot has
\* no delay.
Filled(n, k) == mail[n][k].try > 0
MailFits == \A n \in Notes, k \in Copies : mail[n][k] # NoMessage => Filled(n, k)
HoldsMessage == \A w \in Workers : work[w] # Idle => Filled(work[w].note, work[w].copy)
OneEach ==
  \A v, w \in Workers :
    work[v] # Idle /\ work[w] # Idle /\ work[v].note = work[w].note
    /\ work[v].copy = work[w].copy => v = w

\* Messages of invocations that saw a stale claim are acknowledged whatever the
\* row has become; a row that may wait again keeps another one.
Doomed(n, k) ==
  \E w \in Workers : work[w].at = "ambiguous" /\ work[w].note = n /\ work[w].copy = k
Reopenable(n) == status[n] \in Sendable \cup {"NONE", "CANCELLED", "SUPPRESSED", "FAILED"}
                 /\ mark[n] # "unknown"
Room == \A n \in Notes : Reopenable(n) => \E k \in Copies : ~Doomed(n, k)
Carried(n) == n \in dead \/ \E k \in Copies : Filled(n, k) /\ ~Doomed(n, k)
\* A row is carried from the moment its id was sent.
Queued(n) == \/ status[n] = "QUEUED"
             \/ /\ status[n] \in Unpublished
                /\ \E p \in Publishers : pub[p].at = "sent" /\ pub[p].note = n
CarriedOnceSent == \A n \in Notes : Queued(n) => Carried(n)
PublishedExists == \A p \in Publishers : pub[p] # Idle => status[pub[p].note] # "NONE"

Carriage == /\ MailFits /\ HoldsMessage /\ OneEach /\ Room /\ CarriedOnceSent
            /\ PublishedExists

-----------------------------------------------------------------------------
(* Types, variable by variable.                                              *)

Marks == {"none", "not_next", "unknown"}
RowTyped == /\ status \in [Notes -> Status] /\ mark \in [Notes -> Marks]
            /\ claim \in [Notes -> Workers \cup {Nobody}]
            /\ old \in [Notes -> BOOLEAN] /\ deferred \in [Notes -> BOOLEAN]
ContactTyped ==
  /\ fact \in [Notes -> {"holds", "not_next", "void"}]
  /\ allowed \in [Channels -> BOOLEAN] /\ address \in [Channels -> Addresses]
  /\ suppressed \subseteq Channels \X Addresses
  /\ unsub \in Addresses \cup {NoAddress}
QueueTyped == mail \in [Notes -> [Copies -> Message]] /\ dead \subseteq Notes
WorkTyped == work \in [Workers -> Job \cup {Idle}]
PubTyped == pub \in [Publishers -> Publication \cup {Idle}]
CountTyped == /\ got \in [Notes -> Nat] /\ faults \in 0..MaxFaults
              /\ changes \in 0..MaxChanges
Typed == RowTyped /\ ContactTyped /\ QueueTyped /\ WorkTyped /\ PubTyped /\ CountTyped

LEMMA TypedIsTypeOK == Typed <=> TypeOK
BY DEF Typed, RowTyped, ContactTyped, QueueTyped, WorkTyped, PubTyped, CountTyped,
       TypeOK, Marks

\* An invocation is idle or has a job, and its step tells which.
LEMMA JobOf ==
  ASSUME WorkTyped, NEW w \in Workers
  PROVE  /\ work[w] = Idle => work[w].at = "idle"
         /\ work[w] # Idle => work[w] \in Job
         /\ work[w].at # "idle" => work[w] \in Job /\ work[w] # Idle
         /\ work[w] \in Job => /\ work[w].at \in Steps /\ work[w].note \in Notes
                               /\ work[w].copy \in Copies /\ work[w].late \in BOOLEAN
                               /\ work[w].seen \in Workers \cup {Nobody}
                               /\ work[w].why \in Why
                               /\ work[w].dest \in Addresses \cup {NoAddress}
<1>1. work[w] \in Job \cup {Idle}
  BY DEF WorkTyped
<1>2. \A j \in Job : j.at \in Steps /\ j.at # "idle"
  BY DEF Job, Steps
<1>3. Idle.at = "idle"
  BY DEF Idle
<1>4. QED
  BY <1>1, <1>2, <1>3 DEF Job

\* The three ways to go to another step.
Kept(w) == \A v \in Workers : v # w => work'[v] = work[v]
Moved(w, step) == /\ Kept(w) /\ work'[w] \in Job /\ work'[w] # Idle
                  /\ work'[w].at = step
                  /\ work'[w].note = work[w].note /\ work'[w].copy = work[w].copy

LEMMA GotoMoves ==
  ASSUME WorkTyped, NEW w \in Workers, work[w].at # "idle", NEW step \in Steps, Goto(w, step)
  PROVE  /\ WorkTyped' /\ Moved(w, step)
         /\ work'[w].dest = work[w].dest /\ work'[w].why = work[w].why
         /\ work'[w].late = work[w].late
<1>1. work[w] \in Job
  BY JobOf
<1>2. /\ [work[w] EXCEPT !.at = step] \in Job
      /\ [work[w] EXCEPT !.at = step].at = step
      /\ [work[w] EXCEPT !.at = step].note = work[w].note
      /\ [work[w] EXCEPT !.at = step].copy = work[w].copy
      /\ [work[w] EXCEPT !.at = step].dest = work[w].dest
      /\ [work[w] EXCEPT !.at = step].why = work[w].why
      /\ [work[w] EXCEPT !.at = step].late = work[w].late
  BY <1>1 DEF Job
<1>3. work' = [work EXCEPT ![w] = [work[w] EXCEPT !.at = step]]
  BY DEF Goto
<1>4. WorkTyped' /\ Kept(w) /\ work'[w] = [work[w] EXCEPT !.at = step]
  BY <1>2, <1>3 DEF WorkTyped, Kept
<1>5. work'[w] # Idle
  BY <1>2, <1>4 DEF Idle, Job, Steps
<1>6. QED
  BY <1>2, <1>4, <1>5 DEF Moved

LEMMA LeaveMoves ==
  ASSUME WorkTyped, NEW w \in Workers, work[w].at # "idle", NEW step \in Steps,
         Leave(w, step)
  PROVE  WorkTyped' /\ Moved(w, step)
<1> DEFINE j == [[[work[w] EXCEPT !.at = step] EXCEPT !.dest = NoAddress]
                 EXCEPT !.late = FALSE]
<1>1. work[w] \in Job
  BY JobOf
<1>2. j \in Job /\ j.at = step /\ j.note = work[w].note /\ j.copy = work[w].copy
  BY <1>1 DEF Job
<1>3. work' = [work EXCEPT ![w] = j]
  BY DEF Leave, WorkTyped
<1>4. WorkTyped' /\ Kept(w) /\ work'[w] = j
  BY <1>2, <1>3 DEF WorkTyped, Kept
<1>5. work'[w] # Idle
  BY <1>2, <1>4 DEF Idle, Job, Steps
<1>6. QED
  BY <1>2, <1>4, <1>5 DEF Moved

LEMMA GotoWhyMoves ==
  ASSUME WorkTyped, NEW w \in Workers, work[w].at # "idle", NEW step \in Steps,
         NEW why \in Why, GotoWhy(w, step, why)
  PROVE  WorkTyped' /\ Moved(w, step) /\ work'[w].why = why
<1> DEFINE j == [[[[work[w] EXCEPT !.at = step] EXCEPT !.why = why]
                  EXCEPT !.dest = NoAddress] EXCEPT !.late = FALSE]
<1>1. work[w] \in Job
  BY JobOf
<1>2. /\ j \in Job /\ j.at = step /\ j.note = work[w].note /\ j.copy = work[w].copy
      /\ j.why = why
  BY <1>1 DEF Job
<1>3. work' = [work EXCEPT ![w] = j]
  BY DEF GotoWhy, WorkTyped
<1>4. WorkTyped' /\ Kept(w) /\ work'[w] = j
  BY <1>2, <1>3 DEF WorkTyped, Kept
<1>5. work'[w] # Idle
  BY <1>2, <1>4 DEF Idle, Job, Steps
<1>6. QED
  BY <1>2, <1>4, <1>5 DEF Moved

\* Marking invocations as late changes nothing else of them.
Alike(v) == /\ work[v] = Idle <=> work'[v] = Idle
            /\ work'[v].at = work[v].at
            /\ work'[v].note = work[v].note /\ work'[v].copy = work[v].copy
            /\ work'[v].dest = work[v].dest /\ work'[v].why = work[v].why
            /\ work'[v].seen = work[v].seen

LEMMA LateAlike ==
  ASSUME WorkTyped, NEW S, NEW steps
  PROVE  /\ LateAt(S, steps) \in [Workers -> Job \cup {Idle}]
         /\ \A v \in Workers : LET j == LateAt(S, steps)[v] IN
              /\ work[v] = Idle <=> j = Idle
              /\ j.at = work[v].at /\ j.note = work[v].note /\ j.copy = work[v].copy
              /\ j.dest = work[v].dest /\ j.why = work[v].why /\ j.seen = work[v].seen
              /\ work[v].at \in steps /\ work[v] # Idle /\ work[v].note \in S => j.late
              /\ ~j.late => work[v] = j
<1>1. SUFFICES ASSUME NEW v \in Workers
      PROVE  LET j == LateAt(S, steps)[v] IN
              /\ j \in Job \cup {Idle}
              /\ work[v] = Idle <=> j = Idle
              /\ j.at = work[v].at /\ j.note = work[v].note /\ j.copy = work[v].copy
              /\ j.dest = work[v].dest /\ j.why = work[v].why /\ j.seen = work[v].seen
              /\ work[v].at \in steps /\ work[v] # Idle /\ work[v].note \in S => j.late
              /\ ~j.late => work[v] = j
  BY <1>1 DEF LateAt
<1>2. CASE work[v] # Idle /\ work[v].at \in steps /\ work[v].note \in S
  <2>1. work[v] \in Job /\ LateAt(S, steps)[v] = [work[v] EXCEPT !.late = TRUE]
    BY <1>2, JobOf DEF LateAt
  <2>2. [work[v] EXCEPT !.late = TRUE] \in Job
    BY <2>1 DEF Job
  <2>3. [work[v] EXCEPT !.late = TRUE] # Idle
    BY <2>2 DEF Job, Idle, Steps
  <2>4. QED
    BY <1>2, <2>1, <2>2, <2>3 DEF Job
<1>3. CASE ~(work[v] # Idle /\ work[v].at \in steps /\ work[v].note \in S)
  BY <1>3 DEF LateAt, WorkTyped
<1>4. QED
  BY <1>2, <1>3

-----------------------------------------------------------------------------
(* The queue.                                                                *)

LEMMA MessageType == NoMessage \in Message /\ ~(NoMessage.try > 0)
BY OutboxAssumption DEF NoMessage, Message

\* One slot of one row changes.
Slot(n, k, m) == mail' = [mail EXCEPT ![n] = [mail[n] EXCEPT ![k] = m]]
LEMMA SlotChange ==
  ASSUME QueueTyped, NEW n \in Notes, NEW k \in Copies, NEW m \in Message, Slot(n, k, m)
  PROVE  /\ mail' \in [Notes -> [Copies -> Message]]
         /\ mail'[n][k] = m
         /\ \A i \in Notes, j \in Copies : i # n \/ j # k =>
              /\ mail'[i][j].try = mail[i][j].try
              /\ mail[i][j] = NoMessage => mail'[i][j] = NoMessage
BY DEF QueueTyped, Slot

LEMMA AckSlot ==
  ASSUME QueueTyped, NEW n \in Notes, NEW k \in Copies, Ack(n, k)
  PROVE  Slot(n, k, NoMessage) /\ QueueTyped' /\ dead' = dead
<1>1. Slot(n, k, NoMessage)
  BY DEF Ack, Slot, QueueTyped
<1>2. QED
  BY <1>1, SlotChange, MessageType DEF Ack, QueueTyped

\* A delay that may run out leaves its message where it is.
LEMMA FreedIs ==
  ASSUME QueueTyped, NEW n \in Notes
  PROVE  /\ Freed(n) \in [Notes -> [Copies -> Message]]
         /\ \A i \in Notes, j \in Copies :
              /\ Freed(n)[i][j].try = mail[i][j].try
              /\ mail[i][j] = NoMessage => Freed(n)[i][j] = NoMessage
<1> DEFINE m(k) == IF mail[n][k].wait = "behind"
                   THEN [mail[n][k] EXCEPT !.wait = "free"] ELSE mail[n][k]
<1>1. \A k \in Copies : mail[n][k] \in Message
  BY DEF QueueTyped
<1>2. \A k \in Copies : /\ m(k) \in Message /\ m(k).try = mail[n][k].try
                        /\ mail[n][k] = NoMessage => m(k) = NoMessage
  BY <1>1 DEF Message, NoMessage
<1>3. Freed(n) = [mail EXCEPT ![n] = [k \in Copies |-> m(k)]]
  BY DEF Freed
<1> HIDE DEF m
<1>4. QED
  BY <1>2, <1>3 DEF QueueTyped

\* The message is retried, with or without a new deferral of its row.
Retries(n, k) == Retry(mail, n, k) \/ Retry(Freed(n), n, k)

\* A retried message stays in its slot, or its row is given up; the others stay.
LEMMA RetryLeaves ==
  ASSUME QueueTyped, NEW n \in Notes, NEW k \in Copies, Retries(n, k)
  PROVE  /\ QueueTyped' /\ dead \subseteq dead'
         /\ \A i \in Notes, j \in Copies : i # n \/ j # k =>
              /\ mail'[i][j].try = mail[i][j].try
              /\ mail[i][j] = NoMessage => mail'[i][j] = NoMessage
         /\ mail'[n][k] = NoMessage \/ mail'[n][k].try > 0
         /\ mail'[n][k].try > 0 \/ n \in dead'
<1>1. PICK b \in {mail, Freed(n)} : Retry(b, n, k)
  BY DEF Retries
<1>2. /\ b \in [Notes -> [Copies -> Message]]
      /\ \A i \in Notes, j \in Copies : /\ b[i][j].try = mail[i][j].try
                                        /\ mail[i][j] = NoMessage => b[i][j] = NoMessage
  BY FreedIs DEF QueueTyped
<1>3. PICK m \in Message : /\ mail' = [b EXCEPT ![n] = [b[n] EXCEPT ![k] = m]]
                           /\ m = NoMessage \/ m.try > 0
                           /\ m.try > 0 \/ n \in dead'
                           /\ dead' = dead \/ dead' = dead \cup {n}
  <2>1. b[n][k] \in Message /\ b[n][k].try \in 0..MaxDeliveries
    BY <1>2 DEF Message
  <2>2. CASE b[n][k].try < MaxDeliveries
    <3> DEFINE m == [try |-> b[n][k].try + 1, wait |-> "behind"]
    <3>1. m.try \in 0..MaxDeliveries /\ m.try > 0
      BY <2>1, <2>2, OutboxAssumption
    <3>2. m \in Message
      BY <3>1 DEF Message
    <3>3. mail' = [b EXCEPT ![n] = [b[n] EXCEPT ![k] = m]] /\ dead' = dead
      BY <1>1, <1>2, <2>2 DEF Retry
    <3>4. QED
      BY <3>1, <3>2, <3>3
  <2>3. CASE ~(b[n][k].try < MaxDeliveries)
    <3>1. /\ mail' = [b EXCEPT ![n] = [b[n] EXCEPT ![k] = NoMessage]]
          /\ dead' = dead \cup {n}
      BY <1>1, <1>2, <2>3 DEF Retry
    <3>2. QED
      BY <3>1, MessageType
  <2>4. QED
    BY <2>2, <2>3
<1>4. /\ mail' \in [Notes -> [Copies -> Message]] /\ mail'[n][k] = m
      /\ \A i \in Notes, j \in Copies : i # n \/ j # k => mail'[i][j] = b[i][j]
  BY <1>2, <1>3
<1>5. QED
  BY <1>2, <1>3, <1>4 DEF QueueTyped

\* An id that is sent takes an empty slot if there is one.
LEMMA EnqueuedSlot ==
  ASSUME QueueTyped, NEW n \in Notes
  PROVE  /\ Enqueued(n) \in [Notes -> [Copies -> Message]]
         /\ \A i \in Notes, j \in Copies :
              \/ Enqueued(n)[i][j] = mail[i][j]
              \/ i = n /\ mail[i][j] = NoMessage /\ Enqueued(n)[i][j].try = 1
         /\ \/ \E k \in Copies : mail[n][k] = NoMessage /\ Enqueued(n)[n][k].try = 1
            \/ \A k \in Copies : mail[n][k] # NoMessage
<1>1. CASE \E k \in Copies : mail[n][k] = NoMessage
  <2> DEFINE k == CHOOSE k \in Copies : mail[n][k] = NoMessage
             m == [try |-> 1, wait |-> "no"]
  <2>1. k \in Copies /\ mail[n][k] = NoMessage
    BY <1>1
  <2>2. m \in Message
    BY OutboxAssumption DEF Message
  <2>3. Enqueued(n) = [mail EXCEPT ![n] = [mail[n] EXCEPT ![k] = m]]
    BY <1>1 DEF Enqueued
  <2> HIDE DEF k
  <2> HIDE DEF m
  <2>4. Enqueued(n)[n][k] = m /\ m.try = 1
    BY <2>1, <2>3 DEF QueueTyped, m
  <2>5. \A i \in Notes, j \in Copies : i # n \/ j # k => Enqueued(n)[i][j] = mail[i][j]
    BY <2>3 DEF QueueTyped
  <2>6. Enqueued(n) \in [Notes -> [Copies -> Message]]
    BY <2>1, <2>2, <2>3 DEF QueueTyped
  <2>7. QED
    BY <2>1, <2>4, <2>5, <2>6
<1>2. CASE ~\E k \in Copies : mail[n][k] = NoMessage
  <2>1. Enqueued(n) = mail
    BY <1>2, Zenon DEF Enqueued
  <2>2. QED
    BY <1>2, <2>1 DEF QueueTyped
<1>3. QED
  BY <1>1, <1>2

\* Time moves the delays and leaves the messages where they are.
Still == /\ QueueTyped'
         /\ dead' = dead
         /\ \A n \in Notes, k \in Copies :
              /\ mail'[n][k].try = mail[n][k].try
              /\ mail[n][k] = NoMessage => mail'[n][k] = NoMessage
LEMMA FreedStill ==
  ASSUME QueueTyped, NEW n \in Notes, mail' = Freed(n), dead' = dead
  PROVE  Still
BY FreedIs DEF Still, QueueTyped

LEMMA RestStill ==
  ASSUME QueueTyped, UNCHANGED queueVars
  PROVE  Still
BY DEF Still, QueueTyped, queueVars

LEMMA WakeStill ==
  ASSUME QueueTyped, NEW n \in Notes, NEW k \in Copies, Wake(n, k)
  PROVE  Still
<1> DEFINE m == [mail[n][k] EXCEPT !.wait = "no"]
<1>1. mail[n][k] \in Message
  BY DEF QueueTyped
<1>2. m \in Message /\ m.try = mail[n][k].try /\ (mail[n][k] = NoMessage => m = NoMessage)
  BY <1>1 DEF Message, NoMessage
<1>3. Slot(n, k, m) /\ dead' = dead
  BY DEF Wake, Slot, QueueTyped
<1> HIDE DEF m
<1>4. QED
  BY <1>2, <1>3, SlotChange DEF Still, QueueTyped

-----------------------------------------------------------------------------
(* The rows.                                                                 *)

Only(n) == \A i \in Notes : i # n => /\ status'[i] = status[i] /\ mark'[i] = mark[i]
                                     /\ claim'[i] = claim[i]
RowAs(n, s, m) == /\ RowTyped' /\ Only(n)
                  /\ status'[n] = s /\ mark'[n] = m /\ claim'[n] = Nobody
RowsKept == UNCHANGED <<status, mark, claim>>

LEMMA SetRowIs ==
  ASSUME RowTyped, NEW n \in Notes, NEW s \in Status, NEW m \in Marks, NEW d \in BOOLEAN,
         SetRow(n, s, m, d)
  PROVE  RowAs(n, s, m)
BY DEF RowTyped, SetRow, RowAs, Only

LEMMA CloseWaitingIs ==
  ASSUME RowTyped, NEW c, NEW s \in Status, CloseWaiting(c, s)
  PROVE  /\ RowTyped' /\ claim' = claim
         /\ \A n \in Notes :
              IF Channel[n] = c /\ status[n] \in Sendable
              THEN status'[n] = s /\ mark'[n] = "none"
              ELSE status'[n] = status[n] /\ mark'[n] = mark[n]
BY DEF RowTyped, CloseWaiting, Marks

\* The outcome of a delivery, and what became of an abandoned one.
LEMMA FinishIs ==
  ASSUME RowTyped, NEW w \in Workers, work[w].note \in Notes,
         NEW s \in Status, NEW m \in Marks, NEW d \in BOOLEAN, Finish(w, s, m, d)
  PROVE  /\ RowTyped'
         /\ Owns(w) => RowAs(work[w].note, s, m)
         /\ ~Owns(w) => RowsKept
<1>1. CASE Owns(w)
  BY <1>1, SetRowIs DEF Finish, RowAs
<1>2. CASE ~Owns(w)
  BY <1>2 DEF Finish, rowVars, RowTyped, RowsKept
<1>3. QED
  BY <1>1, <1>2

LEMMA FailAmbiguousIs ==
  ASSUME RowTyped, NEW n \in Notes, NEW owner, FailAmbiguous(n, owner)
  PROVE  /\ RowTyped'
         /\ \/ status[n] = "SENDING" /\ RowAs(n, "FAILED", "unknown")
            \/ RowsKept
<1>1. CASE status[n] = "SENDING" /\ claim[n] = owner
  <2>1. SetRow(n, "FAILED", "unknown", FALSE)
    BY <1>1 DEF FailAmbiguous
  <2>2. RowAs(n, "FAILED", "unknown")
    BY <2>1, SetRowIs DEF Status, Closed, Marks
  <2>3. QED
    BY <1>1, <2>2 DEF RowAs
<1>2. CASE ~(status[n] = "SENDING" /\ claim[n] = owner)
  BY <1>2 DEF FailAmbiguous, rowVars, RowTyped, RowsKept
<1>3. QED
  BY <1>1, <1>2

-----------------------------------------------------------------------------
(* What a step may be.                                                       *)

PublisherSteps ==
  \/ \E p \in Publishers : \/ \E n \in Notes : PublishBegin(p, n)
                           \/ QueueSend(p) \/ QueueSendFails(p) \/ PublisherStops(p)
RowSteps ==
  \E n \in Notes : \/ Request(n) \/ FailStale(n)
                   \/ \E s \in {"SUPPRESSED", "CANCELLED"} : StaffClose(n, s)
                   \/ \E p \in Publishers : StaffRetry(p, n)
TimeSteps == \E n \in Notes : Elapse(n) \/ Age(n) \/ \E k \in Copies : Wake(n, k)
ContactSteps ==
  \/ \E c \in Channels : \/ OptOut(c) \/ OptIn(c)
                         \/ \E a \in Addresses : ChangeAddress(c, a)
  \/ UnsubscribeBegin \/ UnsubscribeCommit \/ DeleteRegistration
  \/ \E n \in Notes, f \in {"holds", "not_next", "void"} : FactChanges(n, f)
Looks(w) == \/ Reload(w) \/ LocalCheck(w, "local", "provider")
            \/ LocalCheck(w, "local2", "owner") \/ ProviderCheck(w) \/ ReloadAgain(w)
            \/ (CheckOwner(w) /\ Owns(w)) \/ CallFails(w)
Ends(w) == RecordSent(w) \/ CancelClaimed(w) \/ SuppressClaimed(w) \/ FailClaimed(w)
WalksAway(w) == CheckOwner(w) /\ ~Owns(w)

LEMMA StepCases ==
  ASSUME [Next]_vars
  PROVE  \/ PublisherSteps \/ (\E p \in Publishers : PublishRecord(p))
         \/ RowSteps \/ TimeSteps \/ ContactSteps
         \/ \E n \in Notes, k \in Copies, w \in Workers : Deliver(w, n, k)
         \/ \E w \in Workers : \/ Claim(w) \/ Looks(w) \/ WalksAway(w) \/ Submit(w)
                               \/ Ends(w) \/ GiveUpStale(w) \/ WorkerStops(w)
         \/ UNCHANGED vars
<1>1. CASE Dispatcher
  BY <1>1 DEF Dispatcher, Publish, PublisherSteps, RowSteps
<1>2. CASE Queue
  BY <1>2 DEF Queue, Consume, Looks, Ends, WalksAway
<1>3. CASE Time
  BY <1>3 DEF Time, TimeSteps
<1>4. CASE Participant
  BY <1>4 DEF Participant, ContactSteps
<1>5. QED
  BY <1>1, <1>2, <1>3, <1>4 DEF Next, PublisherSteps, RowSteps, ContactSteps, Looks

-----------------------------------------------------------------------------
(* Every step keeps the types, and does to the rows and the invocations no   *)
(* more than this.                                                           *)

\* The rows of a publication, a command of the race, of staff or of the
\* participant: only rows that were not submitted are closed or opened, one whose
\* delivery is under way is doubted; or all rows are erased.
RowMoves ==
  \A n \in Notes :
    \/ status'[n] = status[n] /\ mark'[n] = mark[n] /\ claim'[n] = claim[n]
    \/ /\ Untouched(n) /\ mark'[n] # "unknown"
       /\ status'[n] \in {"PENDING", "QUEUED", "RETRY_PENDING", "CANCELLED", "SUPPRESSED"}
    \/ /\ status[n] = "SENDING" \/ Doubtful(n)
       /\ status'[n] \in {"FAILED", "SUPPRESSED"} /\ mark'[n] = "unknown"
Erased == \A n \in Notes : status'[n] = "GONE" /\ mark'[n] = "none"
WorkersAlike == \A v \in Workers : Alike(v)

LEMMA FaultCount ==
  ASSUME faults \in 0..MaxFaults, faults' = faults \/ (faults < MaxFaults /\ faults' = faults + 1)
  PROVE  faults' \in 0..MaxFaults
BY OutboxAssumption

LEMMA ChangeCount ==
  ASSUME CountTyped, Change, UNCHANGED <<got, faults>>
  PROVE  CountTyped'
<1>1. changes' \in 0..MaxChanges
  BY OutboxAssumption DEF CountTyped, Change
<1>2. QED
  BY <1>1 DEF CountTyped

LEMMA PublisherTypes ==
  ASSUME Typed, PublisherSteps
  PROVE  Typed' /\ UNCHANGED <<rowVars, contactVars, dead, work, got, changes>>
<1>1. ASSUME NEW p \in Publishers, NEW n \in Notes, PublishBegin(p, n)
      PROVE  Typed' /\ UNCHANGED <<rowVars, contactVars, dead, work, got, changes>>
  <2>1. PubTyped'
    BY <1>1 DEF Typed, PubTyped, PublishBegin, Publication
  <2>2. QED
    BY <1>1, <2>1
    DEF PublishBegin, Typed, RowTyped, ContactTyped, QueueTyped, WorkTyped, CountTyped,
        rowVars, contactVars, queueVars
<1>2. ASSUME NEW p \in Publishers, pub[p] # Idle
      PROVE  /\ pub[p] \in Publication /\ pub[p].note \in Notes
             /\ [pub[p] EXCEPT !.at = "sent"] \in Publication
             /\ [pub[p] EXCEPT !.at = "failed"] \in Publication
  BY <1>2 DEF Typed, PubTyped, Publication
<1>3. ASSUME NEW p \in Publishers, QueueSend(p) \/ QueueSendFails(p)
      PROVE  Typed' /\ UNCHANGED <<rowVars, contactVars, dead, work, got, changes>>
  <2>1. pub[p] # Idle
    BY <1>3 DEF QueueSend, QueueSendFails, Idle
  <2>2. PubTyped'
    BY <1>2, <1>3, <2>1 DEF Typed, PubTyped, QueueSend, QueueSendFails
  <2>3. QueueTyped'
    <3>1. QueueTyped /\ pub[p].note \in Notes
      BY <1>2, <2>1 DEF Typed
    <3>2. Enqueued(pub[p].note) \in [Notes -> [Copies -> Message]]
      BY <3>1, EnqueuedSlot
    <3>3. QED
      BY <1>3, <3>1, <3>2 DEF QueueTyped, QueueSend, QueueSendFails
  <2>4. CountTyped'
    <3>1. faults' \in 0..MaxFaults
      BY <1>3, FaultCount DEF Typed, CountTyped, QueueSend, QueueSendFails
    <3>2. UNCHANGED <<got, changes>>
      BY <1>3 DEF QueueSend, QueueSendFails
    <3>3. QED
      BY <3>1, <3>2 DEF Typed, CountTyped
  <2>5. QED
    BY <1>3, <2>2, <2>3, <2>4
    DEF QueueSend, QueueSendFails, Typed, RowTyped, ContactTyped, WorkTyped, rowVars,
        contactVars
<1>4. ASSUME NEW p \in Publishers, PublisherStops(p)
      PROVE  Typed' /\ UNCHANGED <<rowVars, contactVars, dead, work, got, changes>>
  <2>1. faults' \in 0..MaxFaults /\ UNCHANGED <<got, changes>>
    BY <1>4, FaultCount DEF Typed, CountTyped, PublisherStops
  <2>2. PubTyped' /\ CountTyped'
    BY <1>4, <2>1 DEF Typed, PubTyped, CountTyped, PublisherStops
  <2>3. QED
    BY <1>4, <2>2
    DEF PublisherStops, Typed, RowTyped, ContactTyped, QueueTyped, WorkTyped, rowVars,
        contactVars, queueVars
<1>5. QED
  BY <1>1, <1>3, <1>4 DEF PublisherSteps

LEMMA RecordTypes ==
  ASSUME Typed, MarkFits, NEW p \in Publishers, PublishRecord(p)
  PROVE  /\ Typed' /\ RowMoves /\ Still
         /\ UNCHANGED <<contactVars, work, got, faults, changes>>
<1>1. pub[p] \in Publication /\ pub[p].note \in Notes
  BY DEF Typed, PubTyped, Publication, PublishRecord, Idle
<1>2. \/ RowAs(pub[p].note, "QUEUED", "none") /\ status[pub[p].note] \in Unpublished
      \/ RowAs(pub[p].note, "RETRY_PENDING", "none") /\ status[pub[p].note] \in Unpublished
      \/ UNCHANGED rowVars
  BY <1>1, SetRowIs DEF PublishRecord, Typed, Marks, Status, Open, Sendable, Unpublished
<1>3. RowTyped' /\ RowMoves
  BY <1>1, <1>2
  DEF RowAs, Only, RowMoves, Untouched, Sendable, Unpublished, rowVars, Typed, RowTyped
<1>4. PubTyped'
  BY DEF PublishRecord, Typed, PubTyped
<1>5. Still
  <2>1. QueueTyped /\ dead' = dead /\ (mail' = mail \/ mail' = Freed(pub[p].note))
    BY DEF PublishRecord, Typed
  <2>2. QED
    BY <1>1, <2>1, FreedStill, RestStill DEF queueVars
<1>6. QED
  BY <1>3, <1>4, <1>5
  DEF PublishRecord, Typed, Still, ContactTyped, WorkTyped, CountTyped, contactVars

LEMMA RowStepTypes ==
  ASSUME Typed, MarkFits, RowSteps
  PROVE  Typed' /\ RowMoves /\ UNCHANGED <<contactVars, queueVars, work, got, faults>>
<1> DEFINE rest == UNCHANGED <<contactVars, queueVars, work, got, faults>>
<1>0. RowTyped /\ Marks = {"none", "not_next", "unknown"}
  BY DEF Typed, Marks
<1>1. ASSUME NEW n \in Notes, Request(n)
      PROVE  RowTyped' /\ RowMoves /\ rest /\ PubTyped' /\ CountTyped'
  <2>1. RowAs(n, "PENDING", "none")
    BY <1>0, <1>1, SetRowIs DEF Request, Status, Open, Sendable
  <2>2. Untouched(n)
    BY <1>1 DEF Request, Untouched, Closed
  <2>3. RowMoves
    BY <2>1, <2>2 DEF RowMoves, RowAs, Only
  <2>4. QED
    BY <1>1, <2>1, <2>3
    DEF Request, RowAs, Typed, PubTyped, CountTyped, contactVars, queueVars
<1>2. ASSUME NEW n \in Notes, FailStale(n)
      PROVE  RowTyped' /\ RowMoves /\ rest /\ PubTyped' /\ CountTyped'
  <2>1. /\ RowTyped'
        /\ \/ status[n] = "SENDING" /\ RowAs(n, "FAILED", "unknown")
           \/ RowsKept
    BY <1>0, <1>2, FailAmbiguousIs DEF FailStale
  <2>2. RowMoves
    BY <2>1 DEF RowMoves, RowAs, Only, RowsKept
  <2>3. QED
    BY <1>2, <2>1, <2>2 DEF FailStale, Typed, PubTyped, CountTyped, contactVars, queueVars
<1>3. ASSUME NEW n \in Notes, NEW s \in {"SUPPRESSED", "CANCELLED"}, StaffClose(n, s)
      PROVE  RowTyped' /\ RowMoves /\ rest /\ PubTyped' /\ CountTyped'
  <2>1. RowAs(n, s, mark[n])
    <3>1. s \in Status /\ mark[n] \in Marks
      BY <1>0 DEF RowTyped, Status, Closed
    <3>2. QED
      BY <1>0, <1>3, <3>1, SetRowIs DEF StaffClose
  <2>2. \/ Untouched(n) /\ mark[n] # "unknown"
        \/ Doubtful(n) /\ s = "SUPPRESSED"
    BY <1>3, MarkFits
    DEF StaffClose, MarkFits, Untouched, Doubtful, Sendable, Closed
  <2>3. RowMoves
    BY <2>1, <2>2 DEF RowMoves, RowAs, Only, Doubtful
  <2>4. CountTyped'
    BY <1>3, ChangeCount DEF StaffClose, Typed
  <2>5. QED
    BY <1>3, <2>1, <2>3, <2>4
    DEF StaffClose, RowAs, Typed, PubTyped, contactVars, queueVars
<1>4. ASSUME NEW n \in Notes, NEW p \in Publishers, StaffRetry(p, n)
      PROVE  RowTyped' /\ RowMoves /\ rest /\ PubTyped' /\ CountTyped'
  <2>1. RowAs(n, "PENDING", "none")
    BY <1>0, <1>4, SetRowIs DEF StaffRetry, Status, Open, Sendable
  <2>2. Untouched(n)
    BY <1>4 DEF StaffRetry, Retryable, Untouched, Sendable, Closed
  <2>3. RowMoves
    BY <2>1, <2>2 DEF RowMoves, RowAs, Only
  <2>4. CountTyped'
    BY <1>4, ChangeCount DEF StaffRetry, Typed
  <2>5. [at |-> "send", note |-> n, by |-> "staff"] \in Publication
    BY DEF Publication
  <2>6. PubTyped'
    BY <1>4, <2>5 DEF StaffRetry, Typed, PubTyped
  <2>7. QED
    BY <1>4, <2>1, <2>3, <2>4, <2>6 DEF StaffRetry, RowAs, contactVars, queueVars
<1>5. RowTyped' /\ RowMoves /\ rest /\ PubTyped' /\ CountTyped'
  BY <1>1, <1>2, <1>3, <1>4 DEF RowSteps
<1>6. QED
  BY <1>5 DEF Typed, ContactTyped, QueueTyped, WorkTyped, contactVars, queueVars

LEMMA TimeTypes ==
  ASSUME Typed, TimeSteps
  PROVE  Typed' /\ Still /\ RowsKept /\ UNCHANGED <<contactVars, work, pub, got, faults, changes>>
<1>1. ASSUME NEW n \in Notes, Elapse(n)
      PROVE  RowTyped' /\ Still /\ RowsKept
             /\ UNCHANGED <<contactVars, work, pub, got, faults, changes>>
  <2>1. Still
    BY <1>1, FreedStill DEF Elapse, Typed
  <2>2. QED
    BY <1>1, <2>1 DEF Elapse, Typed, RowTyped, RowsKept, contactVars
<1>2. ASSUME NEW n \in Notes, Age(n)
      PROVE  RowTyped' /\ Still /\ RowsKept
             /\ UNCHANGED <<contactVars, work, pub, got, faults, changes>>
  BY <1>2 DEF Age, Typed, RowTyped, RowsKept, Still, QueueTyped, contactVars, queueVars
<1>3. ASSUME NEW n \in Notes, NEW k \in Copies, Wake(n, k)
      PROVE  RowTyped' /\ Still /\ RowsKept
             /\ UNCHANGED <<contactVars, work, pub, got, faults, changes>>
  <2>1. Still
    BY <1>3, WakeStill DEF Typed
  <2>2. QED
    BY <1>3, <2>1 DEF Wake, Typed, RowTyped, RowsKept, rowVars, contactVars
<1>4. RowTyped' /\ Still /\ RowsKept
      /\ UNCHANGED <<contactVars, work, pub, got, faults, changes>>
  BY <1>1, <1>2, <1>3 DEF TimeSteps
<1>5. QED
  BY <1>4 DEF Typed, Still, ContactTyped, WorkTyped, PubTyped, CountTyped, contactVars

LEMMA ContactTypes ==
  ASSUME Typed, ContactSteps
  PROVE  /\ Typed' /\ (RowMoves \/ Erased) /\ WorkersAlike
         /\ UNCHANGED <<queueVars, pub, got, faults>>
<1> DEFINE goal == /\ RowTyped' /\ ContactTyped' /\ WorkTyped' /\ WorkersAlike
                   /\ RowMoves \/ Erased
                   /\ CountTyped' /\ UNCHANGED <<queueVars, pub, got, faults>>
<1>1. ASSUME NEW S, work' = Late(S) PROVE WorkTyped' /\ WorkersAlike
  BY <1>1, LateAlike DEF Late, Typed, WorkTyped, WorkersAlike, Alike
<1>2. ASSUME UNCHANGED work PROVE WorkTyped' /\ WorkersAlike
  BY <1>2 DEF Typed, WorkTyped, WorkersAlike, Alike
<1>3. ASSUME UNCHANGED rowVars PROVE RowTyped' /\ RowMoves
  BY <1>3 DEF Typed, RowTyped, RowMoves, rowVars
<1>4. ASSUME NEW c, NEW s \in {"CANCELLED", "SUPPRESSED"}, CloseWaiting(c, s)
      PROVE  RowTyped' /\ RowMoves
  <2>1. RowTyped /\ s \in Status
    BY DEF Typed, Status, Closed
  <2>2. /\ RowTyped' /\ claim' = claim
        /\ \A n \in Notes :
             IF Channel[n] = c /\ status[n] \in Sendable
             THEN status'[n] = s /\ mark'[n] = "none"
             ELSE status'[n] = status[n] /\ mark'[n] = mark[n]
    BY <1>4, <2>1, CloseWaitingIs
  <2>3. RowMoves
    BY <2>2 DEF RowMoves, Untouched
  <2>4. QED
    BY <2>2, <2>3
<1>5. ASSUME Change, UNCHANGED <<got, faults>> PROVE CountTyped'
  BY <1>5, ChangeCount DEF Typed
<1>6. ASSUME NEW c \in Channels, OptOut(c) PROVE goal
  <2>1. ContactTyped'
    BY <1>6 DEF OptOut, Typed, ContactTyped
  <2>2. QED
    BY <1>1, <1>4, <1>5, <1>6, <2>1 DEF OptOut
<1>7. ASSUME NEW c \in Channels, OptIn(c) PROVE goal
  <2>1. ContactTyped'
    BY <1>7 DEF OptIn, Typed, ContactTyped
  <2>2. QED
    BY <1>2, <1>3, <1>5, <1>7, <2>1 DEF OptIn
<1>8. ASSUME NEW c \in Channels, NEW a \in Addresses, ChangeAddress(c, a) PROVE goal
  <2>1. ContactTyped'
    BY <1>8 DEF ChangeAddress, Typed, ContactTyped
  <2>2. QED
    BY <1>1, <1>3, <1>5, <1>8, <2>1 DEF ChangeAddress
<1>9. ASSUME UnsubscribeBegin PROVE goal
  <2>1. ContactTyped'
    BY <1>9, OutboxAssumption DEF UnsubscribeBegin, Typed, ContactTyped
  <2>2. QED
    BY <1>2, <1>3, <1>5, <1>9, <2>1 DEF UnsubscribeBegin
<1>10. ASSUME UnsubscribeCommit PROVE goal
  <2>1. ContactTyped'
    <3>1. "EMAIL" \in Channels /\ unsub \in Addresses
      BY <1>10 DEF UnsubscribeCommit, Typed, ContactTyped, Channels
    <3>2. suppressed' \subseteq Channels \X Addresses
      BY <1>10, <3>1 DEF UnsubscribeCommit, Typed, ContactTyped
    <3>3. allowed' \in [Channels -> BOOLEAN]
      <4>1. CASE address["EMAIL"] = unsub
        BY <1>10, <3>1, <4>1 DEF UnsubscribeCommit, Typed, ContactTyped
      <4>2. CASE address["EMAIL"] # unsub
        BY <1>10, <4>2 DEF UnsubscribeCommit, Typed, ContactTyped
      <4>3. QED
        BY <4>1, <4>2
    <3>4. QED
      BY <1>10, <3>2, <3>3 DEF UnsubscribeCommit, Typed, ContactTyped
  <2>2. CountTyped'
    BY <1>10 DEF UnsubscribeCommit, Typed, CountTyped
  <2>3. RowTyped' /\ RowMoves
    BY <1>3, <1>4, <1>10 DEF UnsubscribeCommit
  <2>4. QED
    BY <1>1, <1>10, <2>1, <2>2, <2>3 DEF UnsubscribeCommit
<1>11. ASSUME DeleteRegistration PROVE goal
  <2>1. RowTyped' /\ Erased
    BY <1>11 DEF DeleteRegistration, Typed, RowTyped, Erased, Status, Marks
  <2>2. ContactTyped'
    BY <1>11 DEF DeleteRegistration, contactVars, Typed, ContactTyped
  <2>3. QED
    BY <1>1, <1>5, <1>11, <2>1, <2>2 DEF DeleteRegistration
<1>12. ASSUME NEW n \in Notes, NEW f \in {"holds", "not_next", "void"}, FactChanges(n, f)
       PROVE  goal
  <2>1. ContactTyped'
    BY <1>12 DEF FactChanges, Typed, ContactTyped
  <2>2. QED
    BY <1>1, <1>3, <1>5, <1>12, <2>1 DEF FactChanges
<1>13. goal
  BY <1>6, <1>7, <1>8, <1>9, <1>10, <1>11, <1>12 DEF ContactSteps
<1>14. QED
  BY <1>13 DEF Typed, QueueTyped, PubTyped, queueVars

-----------------------------------------------------------------------------
(* The consumer.                                                             *)

Rests(w) == /\ work'[w] = Idle
            /\ \A v \in Workers : v # w => Alike(v)
Outside == UNCHANGED <<rowVars, contactVars, pub, got, changes>>
Note(w) == work[w].note
Copy(w) == work[w].copy

LEMMA IdleRests ==
  ASSUME WorkTyped, NEW w \in Workers, work' = [work EXCEPT ![w] = Idle]
  PROVE  WorkTyped' /\ Rests(w)
BY DEF WorkTyped, Rests, Alike

\* An invocation begins with a delivery.
Begins(w, n, k) ==
  /\ work[w] = Idle /\ Kept(w) /\ work'[w] \in Job /\ work'[w] # Idle
  /\ work'[w].at \in {"claim", "ambiguous"} /\ work'[w].note = n /\ work'[w].copy = k
  /\ work'[w].at = "ambiguous" => status[n] = "SENDING"
  /\ Filled(n, k)
  /\ \A v \in Workers : work[v] # Idle => work[v].note # n \/ work[v].copy # k
LEMMA DeliverTypes ==
  ASSUME Typed, NEW w \in Workers, NEW n \in Notes, NEW k \in Copies, Deliver(w, n, k)
  PROVE  /\ Typed' /\ Outside /\ UNCHANGED faults
         /\ \/ Begins(w, n, k) /\ UNCHANGED queueVars
            \/ work' = work /\ Retries(n, k)
            \/ work' = work /\ Ack(n, k) /\ status[n] \notin Open
<1> DEFINE job(step) == [at |-> step, note |-> n, copy |-> k, dest |-> NoAddress,
                         why |-> "none", seen |-> claim[n], late |-> FALSE]
<1>1. UNCHANGED <<rowVars, contactVars, pub, got, faults, changes>>
  BY DEF Deliver
<1>2. \A step \in Steps : /\ job(step) \in Job /\ job(step) # Idle /\ job(step).at = step
                          /\ job(step).note = n /\ job(step).copy = k
  BY DEF Typed, RowTyped, Job, Why, Idle
<1>3. \/ work' = [work EXCEPT ![w] = job("claim")] /\ UNCHANGED queueVars
      \/ /\ work' = [work EXCEPT ![w] = job("ambiguous")] /\ UNCHANGED queueVars
         /\ status[n] = "SENDING"
      \/ work' = work /\ Retries(n, k)
      \/ work' = work /\ Ack(n, k) /\ status[n] \notin Open
  BY DEF Deliver, Retries
<1> HIDE DEF job
<1>4. ASSUME NEW step \in {"claim", "ambiguous"}, work' = [work EXCEPT ![w] = job(step)],
             UNCHANGED queueVars, step = "ambiguous" => status[n] = "SENDING"
      PROVE  Begins(w, n, k) /\ WorkTyped' /\ QueueTyped'
  <2>1. step \in Steps
    BY DEF Steps
  <2>2. /\ work[w] = Idle /\ Filled(n, k)
        /\ \A v \in Workers : work[v] # Idle => work[v].note # n \/ work[v].copy # k
    BY DEF Deliver, Filled
  <2>3. WorkTyped' /\ Kept(w) /\ work'[w] = job(step)
    BY <1>2, <1>4, <2>1 DEF Typed, WorkTyped, Kept
  <2>4. QED
    BY <1>2, <1>4, <2>1, <2>2, <2>3 DEF Begins, Typed, QueueTyped, queueVars
<1>5. ASSUME work' = work, Retries(n, k) \/ Ack(n, k) PROVE WorkTyped' /\ QueueTyped'
  BY <1>5, RetryLeaves, AckSlot DEF Typed, WorkTyped
<1>6. WorkTyped' /\ QueueTyped'
  BY <1>3, <1>4, <1>5
<1>7. QED
  BY <1>1, <1>3, <1>4, <1>6
  DEF Outside, Typed, RowTyped, ContactTyped, PubTyped, CountTyped, rowVars, contactVars

\* A claim is won, or the message goes back.
LEMMA ClaimTypes ==
  ASSUME Typed, NEW w \in Workers, Claim(w)
  PROVE  /\ Typed' /\ work[w].at = "claim" /\ Note(w) \in Notes /\ Copy(w) \in Copies
         /\ UNCHANGED <<contactVars, pub, got, faults, changes>>
         /\ \/ /\ status[Note(w)] \in Sendable /\ Moved(w, "reload")
               /\ status' = [status EXCEPT ![Note(w)] = "SENDING"]
               /\ claim' = [claim EXCEPT ![Note(w)] = w]
               /\ UNCHANGED <<mark, queueVars>>
            \/ RowsKept /\ Rests(w) /\ Retries(Note(w), Copy(w))
<1>1. work[w].at = "claim" /\ Note(w) \in Notes /\ Copy(w) \in Copies
  BY JobOf DEF Claim, At, Typed, Note, Copy
<1>2. CASE status[Note(w)] \in Sendable /\ ~deferred[Note(w)]
  <2>1. /\ status' = [status EXCEPT ![Note(w)] = "SENDING"]
        /\ claim' = [claim EXCEPT ![Note(w)] = w]
        /\ old' = [old EXCEPT ![Note(w)] = FALSE]
        /\ Goto(w, "reload") /\ UNCHANGED <<mark, deferred, queueVars>>
    BY <1>2 DEF Claim, Note
  <2>2. WorkTyped' /\ Moved(w, "reload")
    BY <1>1, <2>1, GotoMoves DEF Typed, Steps
  <2>3. RowTyped'
    BY <2>1 DEF Typed, RowTyped, Status, Open
  <2>4. QED
    BY <1>1, <1>2, <2>1, <2>2, <2>3
    DEF Claim, Typed, ContactTyped, QueueTyped, PubTyped, CountTyped, contactVars, queueVars
<1>3. CASE ~(status[Note(w)] \in Sendable /\ ~deferred[Note(w)])
  <2>1. work' = [work EXCEPT ![w] = Idle] /\ Retries(Note(w), Copy(w)) /\ UNCHANGED rowVars
    BY <1>3 DEF Claim, Note, Copy, Retries
  <2>2. WorkTyped' /\ Rests(w) /\ QueueTyped'
    BY <1>1, <2>1, IdleRests, RetryLeaves DEF Typed
  <2>3. QED
    BY <1>1, <2>1, <2>2
    DEF Claim, Typed, RowTyped, ContactTyped, PubTyped, CountTyped, contactVars, rowVars,
        RowsKept
<1>4. QED
  BY <1>2, <1>3

\* One look at the row, the suppressions or the provider.
Walk(w) ==
  /\ work[w].at \in Unsubmitted
  /\ \E step \in Unsubmitted \cup {"fail"} : Moved(w, step)
  /\ work'[w].at \in Addressed => work'[w].dest \in Addresses
  /\ work'[w].at = "cancel" => work'[w].why \in {"none", "not_next"}
LEMMA LooksTypes ==
  ASSUME Typed, JobFits, NEW w \in Workers, Looks(w)
  PROVE  Typed' /\ Walk(w) /\ Outside /\ UNCHANGED queueVars
<1>1. work[w].at \in Unsubmitted /\ work[w] \in Job /\ work[w].at # "idle"
  <2>1. work[w].at \in Unsubmitted
    BY DEF Looks, Reload, LocalCheck, ProviderCheck, ReloadAgain, CheckOwner, CallFails,
           InTry, At, Unsubmitted
  <2>2. QED
    BY <2>1, JobOf DEF Typed, Unsubmitted
<1>2. ASSUME NEW step \in Unsubmitted \cup {"fail"}, Goto(w, step),
             work[w].dest \in Addresses, step # "cancel"
      PROVE  WorkTyped' /\ Walk(w)
  <2>1. step \in Steps
    BY DEF Unsubmitted, Steps
  <2>2. WorkTyped' /\ Moved(w, step) /\ work'[w].dest = work[w].dest
    BY <1>1, <1>2, <2>1, GotoMoves DEF Typed
  <2>3. QED
    BY <1>1, <1>2, <2>2 DEF Walk, Moved
<1>3. ASSUME NEW step \in {"cancel", "fail"}, NEW why \in Why, GotoWhy(w, step, why),
             step = "cancel" => why \in {"none", "not_next"}
      PROVE  WorkTyped' /\ Walk(w)
  <2>1. step \in Steps /\ step \in Unsubmitted \cup {"fail"} /\ step \notin Addressed
    BY DEF Unsubmitted, Steps, Addressed
  <2>2. WorkTyped' /\ Moved(w, step) /\ work'[w].why = why
    BY <1>1, <1>3, <2>1, GotoWhyMoves DEF Typed
  <2>3. QED
    BY <1>1, <1>3, <2>1, <2>2 DEF Walk, Moved
<1>4. \A n \in Notes : Reason(n) \in {"none", "not_next"} /\ Reason(n) \in Why
  BY DEF Reason, Why
<1>5. work[w].at \in Addressed => work[w].dest \in Addresses
  BY DEF JobFits
<1>6. ASSUME Reload(w)
      PROVE  WorkTyped' /\ Walk(w)
  <2>1. CASE Checked(w)
    <3> DEFINE j == [[work[w] EXCEPT !.at = "local"]
                     EXCEPT !.dest = address[Channel[work[w].note]]]
    <3>1. address[Channel[work[w].note]] \in Addresses
      BY <1>1, OutboxAssumption DEF Job, Channels, Typed, ContactTyped
    <3>2. /\ j \in Job /\ j.at = "local" /\ j.note = work[w].note /\ j.copy = work[w].copy
          /\ j.dest \in Addresses
      BY <1>1, <3>1 DEF Job, Steps
    <3>3. work' = [work EXCEPT ![w] = j]
      BY <1>6, <2>1 DEF Reload, Typed, WorkTyped
    <3> HIDE DEF j
    <3>4. j # Idle
      BY <3>2 DEF Idle
    <3>5. WorkTyped' /\ Kept(w) /\ work'[w] = j
      BY <3>2, <3>3 DEF Typed, WorkTyped, Kept
    <3>6. QED
      BY <1>1, <3>2, <3>4, <3>5 DEF Walk, Moved, Unsubmitted
  <2>2. CASE ~Checked(w)
    BY <1>1, <1>3, <1>4, <1>6, <2>2 DEF Reload, Job
  <2>3. QED
    BY <1>6, <2>1, <2>2 DEF Reload, Outside, queueVars
<1>7. ASSUME LocalCheck(w, "local", "provider") \/ LocalCheck(w, "local2", "owner")
      PROVE  WorkTyped' /\ Walk(w)
  BY <1>2, <1>5, <1>7 DEF LocalCheck, At, Addressed, Unsubmitted
<1>8. ASSUME ProviderCheck(w)
      PROVE  WorkTyped' /\ Walk(w)
  BY <1>2, <1>3, <1>5, <1>8 DEF ProviderCheck, At, Addressed, Unsubmitted, Why
<1>9. ASSUME ReloadAgain(w)
      PROVE  WorkTyped' /\ Walk(w)
  BY <1>1, <1>2, <1>3, <1>4, <1>5, <1>9
  DEF ReloadAgain, At, Addressed, Unsubmitted, Job
<1>10. ASSUME CheckOwner(w) /\ Owns(w)
      PROVE  WorkTyped' /\ Walk(w)
  BY <1>2, <1>5, <1>10 DEF CheckOwner, At, Addressed, Unsubmitted
<1>11. ASSUME CallFails(w)
       PROVE  WorkTyped' /\ Walk(w)
  BY <1>3, <1>11 DEF CallFails, Why
<1>12. WorkTyped' /\ Walk(w)
  BY <1>6, <1>7, <1>8, <1>9, <1>10, <1>11 DEF Looks
<1>13. Outside /\ UNCHANGED queueVars
  BY DEF Looks, Reload, LocalCheck, ProviderCheck, ReloadAgain, CheckOwner, CallFails,
         Outside, queueVars
<1>14. CountTyped'
  <2>1. faults' = faults \/ (faults < MaxFaults /\ faults' = faults + 1)
    BY DEF Looks, Reload, LocalCheck, ProviderCheck, ReloadAgain, CheckOwner, CallFails
  <2>2. QED
    BY <1>13, <2>1, FaultCount DEF Outside, Typed, CountTyped
<1>15. QED
  BY <1>12, <1>13, <1>14
  DEF Outside, Typed, RowTyped, ContactTyped, QueueTyped, PubTyped, CountTyped, rowVars,
      contactVars, queueVars

\* The provider answers, or does not.
Submits(w) ==
  LET n == Note(w) IN
  /\ work[w].at = "submit" /\ n \in Notes
  /\ \/ Moved(w, "record") /\ got' = [got EXCEPT ![n] = @ + 1]
     \/ /\ Moved(w, "fail")
        /\ got' = got \/ (work'[w].why = "unknown" /\ got' = [got EXCEPT ![n] = @ + 1])
LEMMA SubmitTypes ==
  ASSUME Typed, NEW w \in Workers, Submit(w)
  PROVE  /\ Typed' /\ Submits(w)
         /\ UNCHANGED <<rowVars, contactVars, queueVars, pub, faults, changes>>
<1>1. work[w].at = "submit" /\ work[w].at # "idle" /\ Note(w) \in Notes
  BY JobOf DEF Submit, At, Typed, Note
<1>2. \/ Leave(w, "record") /\ got' = [got EXCEPT ![Note(w)] = @ + 1]
      \/ \E why \in {"unknown", "temporary", "permanent"} :
           /\ GotoWhy(w, "fail", why)
           /\ \/ got' = got
              \/ why = "unknown" /\ got' = [got EXCEPT ![Note(w)] = @ + 1]
  BY DEF Submit, Note, AnswerLost
<1>3. WorkTyped' /\ Submits(w)
  <2>1. ASSUME Leave(w, "record"), got' = [got EXCEPT ![Note(w)] = @ + 1]
        PROVE  WorkTyped' /\ Submits(w)
    BY <1>1, <2>1, LeaveMoves DEF Typed, Steps, Submits
  <2>2. ASSUME NEW why \in {"unknown", "temporary", "permanent"}, GotoWhy(w, "fail", why),
               got' = got \/ (why = "unknown" /\ got' = [got EXCEPT ![Note(w)] = @ + 1])
        PROVE  WorkTyped' /\ Submits(w)
    <3>1. "fail" \in Steps /\ why \in Why
      BY DEF Steps, Why
    <3>2. WorkTyped' /\ Moved(w, "fail") /\ work'[w].why = why
      BY <1>1, <2>2, <3>1, GotoWhyMoves DEF Typed
    <3>3. QED
      BY <1>1, <2>2, <3>2 DEF Submits
  <2>3. QED
    BY <1>2, <2>1, <2>2
<1>4. UNCHANGED <<rowVars, contactVars, queueVars, pub, faults, changes>>
  BY DEF Submit
<1>5. CountTyped'
  BY <1>1, <1>2, <1>4 DEF Typed, CountTyped
<1>6. QED
  BY <1>3, <1>4, <1>5
  DEF Typed, RowTyped, ContactTyped, QueueTyped, PubTyped, rowVars, contactVars, queueVars

\* An outcome is recorded while the claim stands, and the message goes.
Outcome(w, s, m) ==
  \/ work[w].at = "record" /\ s = "SENT" /\ m = "none"
  \/ work[w].at = "cancel" /\ s = "CANCELLED" /\ m \in {"none", "not_next"}
  \/ work[w].at = "suppress" /\ s = "SUPPRESSED" /\ m = "none"
  \/ work[w].at = "fail" /\ s = "QUEUED" /\ m = "none" /\ work[w].why # "unknown"
  \/ /\ work[w].at = "fail" /\ s = "FAILED"
     /\ m = IF work[w].why = "unknown" THEN "unknown" ELSE "none"
EndsAs(w) ==
  /\ work[w].at \in Holding /\ Note(w) \in Notes /\ Copy(w) \in Copies
  /\ \E s \in Status, m \in Marks :
       /\ Outcome(w, s, m)
       /\ IF Owns(w) THEN RowAs(Note(w), s, m) ELSE RowsKept
       /\ \/ Retries(Note(w), Copy(w))
          \/ s # "QUEUED" /\ Ack(Note(w), Copy(w))
LEMMA EndsTypes ==
  ASSUME Typed, JobFits, NEW w \in Workers, Ends(w)
  PROVE  /\ Typed' /\ EndsAs(w) /\ Rests(w)
         /\ UNCHANGED <<fact, allowed, address, unsub, pub, got, faults, changes>>
<1>1. /\ work[w].at \in Holding /\ Note(w) \in Notes /\ Copy(w) \in Copies
      /\ RowTyped /\ WorkTyped /\ QueueTyped
  <2>1. work[w].at \in Holding
    BY DEF Ends, RecordSent, CancelClaimed, SuppressClaimed, FailClaimed, At, Holding,
           Unsubmitted
  <2>2. QED
    BY <2>1, JobOf DEF Typed, Holding, Unsubmitted, Note, Copy
<1>2. ASSUME NEW s \in Status, NEW m \in Marks, NEW d \in BOOLEAN, Finish(w, s, m, d),
             Outcome(w, s, m),
             \/ Retries(Note(w), Copy(w))
             \/ s # "QUEUED" /\ Ack(Note(w), Copy(w))
      PROVE  RowTyped' /\ QueueTyped' /\ EndsAs(w)
  <2>1. /\ RowTyped'
        /\ Owns(w) => RowAs(work[w].note, s, m)
        /\ ~Owns(w) => RowsKept
    BY <1>1, <1>2, FinishIs DEF Note
  <2>2. QueueTyped'
    BY <1>1, <1>2, RetryLeaves, AckSlot
  <2>3. QED
    BY <1>1, <1>2, <2>1, <2>2 DEF EndsAs, Note
<1>3. /\ {"SENT", "CANCELLED", "SUPPRESSED", "QUEUED", "FAILED"} \subseteq Status
      /\ {"none", "not_next", "unknown"} = Marks
  BY DEF Status, Open, Sendable, Closed, Marks
<1>4. ASSUME RecordSent(w) \/ CancelClaimed(w) \/ SuppressClaimed(w)
      PROVE  RowTyped' /\ QueueTyped' /\ EndsAs(w)
  <2>1. CASE RecordSent(w)
    <3>1. Finish(w, "SENT", "none", FALSE) /\ Ack(Note(w), Copy(w)) /\ work[w].at = "record"
      BY <2>1 DEF RecordSent, Note, Copy, At
    <3>2. QED
      BY <1>2, <1>3, <3>1 DEF Outcome
  <2>2. CASE CancelClaimed(w)
    <3>1. /\ Finish(w, "CANCELLED", work[w].why, FALSE) /\ Ack(Note(w), Copy(w))
          /\ work[w].at = "cancel" /\ work[w].why \in {"none", "not_next"}
      BY <2>2 DEF CancelClaimed, Note, Copy, At, JobFits
    <3>2. QED
      BY <1>2, <1>3, <3>1 DEF Outcome
  <2>3. CASE SuppressClaimed(w)
    <3>1. /\ Finish(w, "SUPPRESSED", "none", FALSE) /\ Ack(Note(w), Copy(w))
          /\ work[w].at = "suppress"
      BY <2>3 DEF SuppressClaimed, Note, Copy, At
    <3>2. QED
      BY <1>2, <1>3, <3>1 DEF Outcome
  <2>4. QED
    BY <1>4, <2>1, <2>2, <2>3
<1>5. ASSUME FailClaimed(w) PROVE RowTyped' /\ QueueTyped' /\ EndsAs(w)
  <2>1. /\ work[w].at = "fail"
        /\ \/ /\ Finish(w, "QUEUED", "none", TRUE) /\ Retries(Note(w), Copy(w))
              /\ work[w].why = "temporary"
           \/ /\ Finish(w, "FAILED", IF work[w].why = "unknown" THEN "unknown" ELSE "none",
                        FALSE)
              /\ Ack(Note(w), Copy(w))
    BY <1>5 DEF FailClaimed, At, Note, Copy, Retries
  <2>2. QED
    BY <1>2, <1>3, <2>1 DEF Outcome
<1>6. ASSUME SuppressClaimed(w)
      PROVE  WorkTyped' /\ Rests(w) /\ ContactTyped'
  <2> DEFINE late == LateAt(InChannel(Channel[work[w].note]), PastLookup)
  <2>1. /\ late \in [Workers -> Job \cup {Idle}]
        /\ \A v \in Workers :
             /\ work[v] = Idle <=> late[v] = Idle
             /\ late[v].at = work[v].at /\ late[v].note = work[v].note
             /\ late[v].copy = work[v].copy /\ late[v].dest = work[v].dest
             /\ late[v].why = work[v].why /\ late[v].seen = work[v].seen
    BY <1>1, LateAlike
  <2>2. work' = [late EXCEPT ![w] = Idle]
    BY <1>6 DEF SuppressClaimed
  <2> HIDE DEF late
  <2>3. WorkTyped' /\ Rests(w)
    BY <2>1, <2>2 DEF WorkTyped, Rests, Alike
  <2>4. /\ Channel[work[w].note] \in Channels /\ work[w].dest \in Addresses
        /\ suppressed' = suppressed \cup {<<Channel[work[w].note], work[w].dest>>}
    BY <1>1, <1>6 DEF SuppressClaimed, At, JobFits, Addressed, Channels, Note
  <2>5. ContactTyped'
    BY <1>6, <2>4 DEF SuppressClaimed, Typed, ContactTyped
  <2>6. QED
    BY <2>3, <2>5
<1>7. ASSUME RecordSent(w) \/ CancelClaimed(w) \/ FailClaimed(w)
      PROVE  WorkTyped' /\ Rests(w) /\ ContactTyped'
  <2>1. work' = [work EXCEPT ![w] = Idle] /\ UNCHANGED contactVars
    BY <1>7 DEF RecordSent, CancelClaimed, FailClaimed
  <2>2. QED
    BY <1>1, <2>1, IdleRests DEF Typed, ContactTyped, contactVars
<1>8. UNCHANGED <<fact, allowed, address, unsub, pub, got, faults, changes>>
  BY DEF Ends, RecordSent, CancelClaimed, SuppressClaimed, FailClaimed, contactVars
<1>9. QED
  BY <1>4, <1>5, <1>6, <1>7, <1>8 DEF Ends, Typed, PubTyped, CountTyped

\* An invocation leaves without an outcome.
LEMMA LeavesTypes ==
  ASSUME Typed, NEW w \in Workers, WalksAway(w) \/ GiveUpStale(w) \/ WorkerStops(w)
  PROVE  /\ Typed' /\ Rests(w) /\ UNCHANGED <<contactVars, pub, got, changes>>
         /\ work[w] # Idle /\ Note(w) \in Notes /\ Copy(w) \in Copies
         /\ \/ /\ work[w].at = "owner" /\ ~Owns(w) /\ RowsKept
               /\ Ack(Note(w), Copy(w))
            \/ /\ work[w].at = "ambiguous" /\ Ack(Note(w), Copy(w))
               /\ \/ status[Note(w)] = "SENDING" /\ RowAs(Note(w), "FAILED", "unknown")
                  \/ RowsKept
            \/ RowsKept /\ Retries(Note(w), Copy(w))
<1>1. work[w] # Idle /\ Note(w) \in Notes /\ Copy(w) \in Copies
  <2>1. work[w] # Idle
    BY DEF WalksAway, CheckOwner, GiveUpStale, WorkerStops, At, Idle
  <2>2. QED
    BY <2>1, JobOf DEF Typed, Note, Copy
<1>2. RowTyped /\ WorkTyped /\ QueueTyped
  BY DEF Typed
<1>3. work' = [work EXCEPT ![w] = Idle]
  BY DEF WalksAway, CheckOwner, GiveUpStale, WorkerStops
<1>4. WorkTyped' /\ Rests(w)
  BY <1>2, <1>3, IdleRests
<1>5. UNCHANGED <<contactVars, pub, got, changes>>
  BY DEF WalksAway, CheckOwner, GiveUpStale, WorkerStops
<1>6. CountTyped'
  <2>1. UNCHANGED <<got, changes>>
    BY <1>5
  <2>2. faults' \in 0..MaxFaults
    BY FaultCount
    DEF WalksAway, CheckOwner, GiveUpStale, WorkerStops, Typed, CountTyped
  <2>3. QED
    BY <2>1, <2>2 DEF Typed, CountTyped
<1>7. ASSUME WalksAway(w)
      PROVE  /\ work[w].at = "owner" /\ ~Owns(w) /\ RowsKept /\ RowTyped'
             /\ Ack(Note(w), Copy(w)) /\ QueueTyped'
  <2>1. work[w].at = "owner" /\ ~Owns(w) /\ UNCHANGED rowVars /\ Ack(Note(w), Copy(w))
    BY <1>7 DEF WalksAway, CheckOwner, At, Note, Copy
  <2>2. QED
    BY <1>1, <1>2, <2>1, AckSlot DEF RowTyped, RowsKept, rowVars
<1>8. ASSUME GiveUpStale(w)
      PROVE  /\ work[w].at = "ambiguous" /\ Ack(Note(w), Copy(w)) /\ QueueTyped'
             /\ RowTyped' /\ \/ status[Note(w)] = "SENDING"
                                /\ RowAs(Note(w), "FAILED", "unknown")
                             \/ RowsKept
  <2>1. /\ work[w].at = "ambiguous" /\ Ack(Note(w), Copy(w))
        /\ FailAmbiguous(Note(w), work[w].seen)
    BY <1>8 DEF GiveUpStale, At, Note, Copy
  <2>2. QED
    BY <1>1, <1>2, <2>1, AckSlot, FailAmbiguousIs
<1>9. ASSUME WorkerStops(w)
      PROVE  RowsKept /\ RowTyped' /\ Retries(Note(w), Copy(w)) /\ QueueTyped'
  <2>1. UNCHANGED rowVars /\ Retries(Note(w), Copy(w))
    BY <1>9 DEF WorkerStops, Note, Copy, Retries
  <2>2. QED
    BY <1>1, <1>2, <2>1, RetryLeaves DEF RowTyped, RowsKept, rowVars
<1>10. QED
  BY <1>1, <1>4, <1>5, <1>6, <1>7, <1>8, <1>9
  DEF Typed, ContactTyped, PubTyped, contactVars

-----------------------------------------------------------------------------
(* Deliveries keep to their rows.                                            *)

LEMMA QuietDelivery ==
  ASSUME Typed, Delivery, RowMoves \/ Erased, WorkersAlike, got' = got
  PROVE  Delivery'
<1>0. \A w \in Workers : work[w].at \in Holding => Note(w) \in Notes
  BY JobOf DEF Typed, Holding, Unsubmitted, Note
<1>1. JobFits' /\ OneHolder' /\ JobGot'
  BY DEF Delivery, JobFits, OneHolder, JobGot, WorkersAlike, Alike
<1>2. MarkFits'
  BY DEF Delivery, MarkFits, RowMoves, Erased, Doubtful
<1>3. HolderOwns'
  <2>1. SUFFICES ASSUME NEW w \in Workers, work'[w].at \in Holding
        PROVE  (Owns(w) \/ Doubtful(work[w].note) \/ status[work[w].note] = "GONE")'
    BY DEF HolderOwns
  <2>2. /\ work[w].at \in Holding /\ work'[w].note = work[w].note /\ work[w].note \in Notes
        /\ Owns(w) \/ Doubtful(work[w].note) \/ status[work[w].note] = "GONE"
    BY <1>0, <2>1 DEF WorkersAlike, Alike, Delivery, HolderOwns, Note
  <2>3. QED
    BY <2>2 DEF RowMoves, Erased, Owns, Doubtful, Untouched, Sendable, Closed
<1>4. GotFits'
  BY DEF Delivery, GotFits, RowMoves, Erased, Doubtful, Untouched, Sendable, Closed
<1>5. QED
  BY <1>1, <1>2, <1>3, <1>4 DEF Delivery

\* Where rows and acceptances stay, it suffices to look at what an invocation
\* newly holds.
LEMMA KeptDelivery ==
  ASSUME Typed, Delivery, RowsKept, got' = got, NEW w \in Workers,
         \A v \in Workers : v # w => Alike(v),
         work'[w].at \in Addressed => work'[w].dest \in Addresses,
         work'[w].at = "cancel" => work'[w].why \in {"none", "not_next"},
         work'[w].at \in Holding =>
           /\ work[w].at \in Unsubmitted /\ work'[w].at # "record"
           /\ work'[w].note = work[w].note
  PROVE  Delivery'
<1>1. JobFits'
  BY DEF Delivery, JobFits, Alike
<1>2. MarkFits' /\ GotFits'
  BY DEF Delivery, MarkFits, GotFits, Doubtful, Untouched, RowsKept
<1>3. OneHolder'
  BY DEF Delivery, OneHolder, Alike, Holding
<1>4. HolderOwns'
  BY DEF Delivery, HolderOwns, Owns, Doubtful, Alike, Holding, RowsKept
<1>5. JobGot'
  BY DEF Delivery, JobGot, Alike, Holding, Unsubmitted
<1>6. QED
  BY <1>1, <1>2, <1>3, <1>4, <1>5 DEF Delivery

LEMMA ClaimDelivery ==
  ASSUME Typed, Delivery, NEW w \in Workers, Claim(w)
  PROVE  Delivery'
<1>1. /\ work[w].at = "claim" /\ Note(w) \in Notes /\ got' = got
      /\ \/ /\ status[Note(w)] \in Sendable /\ Moved(w, "reload")
            /\ status' = [status EXCEPT ![Note(w)] = "SENDING"]
            /\ claim' = [claim EXCEPT ![Note(w)] = w] /\ mark' = mark
         \/ RowsKept /\ Rests(w)
  BY ClaimTypes
<1>2. CASE RowsKept /\ Rests(w)
  BY <1>1, <1>2, KeptDelivery DEF Rests, Idle, Holding, Unsubmitted, Addressed
<1>3. CASE /\ status[Note(w)] \in Sendable /\ Moved(w, "reload")
           /\ status' = [status EXCEPT ![Note(w)] = "SENDING"]
           /\ claim' = [claim EXCEPT ![Note(w)] = w] /\ mark' = mark
  <2>1. \A v \in Workers : work[v].at \in Holding => work[v].note # Note(w)
    BY <1>3 DEF Delivery, HolderOwns, Owns, Doubtful, Sendable, Note
  <2>2. got[Note(w)] = 0
    BY <1>1, <1>3 DEF Delivery, GotFits, Untouched
  <2>3. /\ status'[Note(w)] = "SENDING" /\ claim'[Note(w)] = w
        /\ \A n \in Notes : n # Note(w) => status'[n] = status[n] /\ claim'[n] = claim[n]
    BY <1>1, <1>3 DEF Typed, RowTyped
  <2>4. /\ work'[w].at = "reload" /\ work'[w].note = Note(w)
        /\ \A v \in Workers : v # w => work'[v] = work[v]
    BY <1>3 DEF Moved, Kept, Note
  <2>5. \A v \in Workers : work[v].at \in Holding => work[v].note \in Notes
    BY JobOf DEF Typed, Holding, Unsubmitted
  <2>6. JobFits'
    BY <2>4 DEF Delivery, JobFits, Addressed
  <2>7. MarkFits'
    BY <1>1, <1>3, <2>3 DEF Delivery, MarkFits, Doubtful, Sendable
  <2>8. HolderOwns'
    BY <1>3, <2>1, <2>3, <2>4, <2>5 DEF Delivery, HolderOwns, Owns, Doubtful
  <2>9. OneHolder'
    BY <2>1, <2>4 DEF Delivery, OneHolder
  <2>10. GotFits'
    BY <1>1, <1>3, <2>2, <2>3 DEF Delivery, GotFits, Untouched, Sendable, Closed
  <2>11. JobGot'
    BY <1>1, <2>2, <2>4 DEF Delivery, JobGot
  <2>12. QED
    BY <2>6, <2>7, <2>8, <2>9, <2>10, <2>11 DEF Delivery
<1>4. QED
  BY <1>1, <1>2, <1>3

LEMMA SubmitDelivery ==
  ASSUME Typed, Delivery, NEW w \in Workers, Submit(w)
  PROVE  Delivery'
<1>1. Submits(w) /\ RowsKept
  BY SubmitTypes DEF RowsKept, rowVars
<1>2. work[w].at = "submit" /\ work[w].at \in Holding /\ Note(w) \in Notes /\ got[Note(w)] = 0
  BY <1>1 DEF Submits, Delivery, JobGot, Note, Holding, Unsubmitted
<1>3. /\ Kept(w) /\ work'[w].note = Note(w) /\ work'[w].at \in {"record", "fail"}
      /\ \A n \in Notes : n # Note(w) => got'[n] = got[n]
      /\ got'[Note(w)] \in {0, 1}
      /\ work'[w].at = "record" => got'[Note(w)] = 1
      /\ work'[w].at = "fail" /\ work'[w].why # "unknown" => got'[Note(w)] = 0
  BY <1>1, <1>2 DEF Submits, Moved, Typed, CountTyped, Note
<1>4. \A v \in Workers : v # w /\ work[v].at \in Holding =>
        work[v].note # Note(w) /\ work[v].note \in Notes
  BY <1>2, JobOf DEF Typed, Delivery, OneHolder, Holding, Unsubmitted, Note
<1>5. JobFits' /\ OneHolder' /\ HolderOwns'
  BY <1>1, <1>2, <1>3
  DEF Kept, Delivery, JobFits, OneHolder, HolderOwns, Owns, Doubtful, RowsKept, Addressed,
      Note
<1>6. MarkFits'
  BY <1>1 DEF Delivery, MarkFits, Doubtful, RowsKept
<1>7. ~Untouched(Note(w)) /\ status[Note(w)] # "SENT"
  BY <1>2 DEF Delivery, HolderOwns, Owns, Doubtful, Untouched, Sendable, Closed, Note
<1>8. GotFits'
  BY <1>1, <1>3, <1>7 DEF Delivery, GotFits, Untouched, RowsKept
<1>9. JobGot'
  BY <1>3, <1>4 DEF Kept, Delivery, JobGot, Holding, Unsubmitted
<1>10. QED
  BY <1>5, <1>6, <1>8, <1>9 DEF Delivery

LEMMA EndsDelivery ==
  ASSUME Typed, Delivery, NEW w \in Workers, Ends(w)
  PROVE  Delivery'
<1>1. EndsAs(w) /\ Rests(w) /\ got' = got
  BY EndsTypes DEF Delivery
<1>2. CASE ~Owns(w)
  BY <1>1, <1>2, KeptDelivery DEF EndsAs, Rests, Idle, Holding, Unsubmitted, Addressed
<1>3. CASE Owns(w)
  <2>1. PICK s \in Status, m \in Marks : Outcome(w, s, m) /\ RowAs(Note(w), s, m)
    BY <1>1, <1>3 DEF EndsAs
  <2>2. /\ work[w].at \in Holding /\ Note(w) \in Notes
        /\ \A v \in Workers : v # w /\ work[v].at \in Holding =>
             work[v].note # Note(w) /\ work[v].note \in Notes
    BY <1>1, JobOf DEF EndsAs, Typed, Delivery, OneHolder, Holding, Unsubmitted, Note
  <2>3. /\ m = "unknown" => s = "FAILED"
        /\ s \in Sendable \cup {"NONE"} => got[Note(w)] = 0
        /\ s \in Closed \ {"SENT"} /\ m # "unknown" => got[Note(w)] = 0
        /\ s = "SENT" => got[Note(w)] = 1
    BY <2>1 DEF Outcome, Delivery, JobGot, Unsubmitted, Sendable, Closed, Note
  <2>4. JobFits' /\ OneHolder' /\ JobGot'
    BY <1>1
    DEF Rests, Alike, Idle, Delivery, JobFits, OneHolder, JobGot, Addressed, Holding,
        Unsubmitted
  <2>5. MarkFits'
    BY <2>1, <2>3 DEF RowAs, Only, Delivery, MarkFits, Doubtful
  <2>6. HolderOwns'
    BY <1>1, <2>1, <2>2
    DEF Rests, Alike, Idle, RowAs, Only, Delivery, HolderOwns, Owns, Doubtful, Holding,
        Unsubmitted
  <2>7. GotFits'
    BY <1>1, <2>1, <2>2, <2>3 DEF RowAs, Only, Delivery, GotFits, Untouched
  <2>8. QED
    BY <2>4, <2>5, <2>6, <2>7 DEF Delivery
<1>4. QED
  BY <1>2, <1>3

LEMMA LeavesDelivery ==
  ASSUME Typed, Delivery, NEW w \in Workers, WalksAway(w) \/ GiveUpStale(w) \/ WorkerStops(w)
  PROVE  Delivery'
<1>1. /\ Rests(w) /\ got' = got /\ Note(w) \in Notes
      /\ \/ RowsKept
         \/ status[Note(w)] = "SENDING" /\ RowAs(Note(w), "FAILED", "unknown")
  BY LeavesTypes
<1>2. CASE RowsKept
  BY <1>1, <1>2, KeptDelivery DEF Rests, Idle, Holding, Unsubmitted, Addressed
<1>3. CASE status[Note(w)] = "SENDING" /\ RowAs(Note(w), "FAILED", "unknown")
  <2>1. JobFits' /\ OneHolder' /\ JobGot'
    BY <1>1
    DEF Rests, Alike, Idle, Delivery, JobFits, OneHolder, JobGot, Addressed, Holding,
        Unsubmitted
  <2>2. MarkFits' /\ GotFits'
    BY <1>1, <1>3
    DEF RowAs, Only, Delivery, MarkFits, GotFits, Doubtful, Untouched, Closed, Sendable
  <2>3. \A v \in Workers : work[v].at \in Holding => work[v].note \in Notes
    BY JobOf DEF Typed, Holding, Unsubmitted
  <2>4. HolderOwns'
    BY <1>1, <1>3, <2>3
    DEF Rests, Alike, Idle, RowAs, Only, Delivery, HolderOwns, Owns, Doubtful, Holding,
        Unsubmitted
  <2>5. QED
    BY <2>1, <2>2, <2>4 DEF Delivery
<1>4. QED
  BY <1>1, <1>2, <1>3

LEMMA DeliverDelivery ==
  ASSUME Typed, Delivery, NEW w \in Workers, NEW n \in Notes, NEW k \in Copies,
         Deliver(w, n, k)
  PROVE  Delivery'
<1>1. RowsKept /\ got' = got /\ (Begins(w, n, k) \/ work' = work)
  BY DeliverTypes DEF Outside, RowsKept, rowVars
<1>2. CASE Begins(w, n, k)
  BY <1>1, <1>2, KeptDelivery DEF Begins, Kept, Alike, Holding, Unsubmitted, Addressed
<1>3. CASE work' = work
  BY <1>1, <1>3, QuietDelivery DEF RowMoves, RowsKept, WorkersAlike, Alike
<1>4. QED
  BY <1>1, <1>2, <1>3

LEMMA DeliveryStep ==
  ASSUME Typed, Delivery, [Next]_vars
  PROVE  Typed' /\ Delivery'
<1>0. JobFits /\ MarkFits
  BY DEF Delivery
<1>1. CASE PublisherSteps \/ TimeSteps
  <2>1. Typed' /\ RowsKept /\ UNCHANGED <<work, got>>
    BY <1>1, PublisherTypes, TimeTypes DEF RowsKept, rowVars
  <2>2. QED
    BY <2>1, QuietDelivery DEF RowMoves, RowsKept, WorkersAlike, Alike
<1>2. CASE RowSteps \/ \E p \in Publishers : PublishRecord(p)
  <2>1. Typed' /\ RowMoves /\ UNCHANGED <<work, got>>
    BY <1>0, <1>2, RecordTypes, RowStepTypes
  <2>2. QED
    BY <2>1, QuietDelivery DEF WorkersAlike, Alike
<1>3. CASE ContactSteps
  BY <1>3, ContactTypes, QuietDelivery
<1>4. CASE \E n \in Notes, k \in Copies, w \in Workers : Deliver(w, n, k)
  BY <1>4, DeliverTypes, DeliverDelivery
<1>5. ASSUME NEW w \in Workers, Looks(w) PROVE Typed' /\ Delivery'
  <2>1. Typed' /\ Walk(w) /\ RowsKept /\ got' = got
    BY <1>0, <1>5, LooksTypes DEF Outside, RowsKept, rowVars
  <2>2. QED
    BY <2>1, KeptDelivery DEF Walk, Moved, Kept, Alike, Unsubmitted
<1>6. ASSUME NEW w \in Workers,
             Claim(w) \/ Submit(w) \/ Ends(w) \/ WalksAway(w) \/ GiveUpStale(w)
             \/ WorkerStops(w)
      PROVE  Typed' /\ Delivery'
  BY <1>0, <1>6, ClaimTypes, ClaimDelivery, SubmitTypes, SubmitDelivery, EndsTypes,
     EndsDelivery, LeavesTypes, LeavesDelivery
<1>7. CASE UNCHANGED vars
  <2>1. Typed'
    BY <1>7
    DEF vars, rowVars, contactVars, queueVars, Typed, RowTyped, ContactTyped, QueueTyped,
        WorkTyped, PubTyped, CountTyped
  <2>2. QED
    BY <1>7, <2>1, QuietDelivery DEF vars, rowVars, RowMoves, WorkersAlike, Alike
<1>8. QED
  BY <1>1, <1>2, <1>3, <1>4, <1>5, <1>6, <1>7, StepCases

LEMMA InitDelivery == Init => Typed /\ Delivery
<1> SUFFICES ASSUME Init PROVE Typed /\ Delivery
  OBVIOUS
<1>1. \A w \in Workers : work[w].at = "idle"
  BY DEF Init, Idle
<1>2. RowTyped /\ CountTyped /\ WorkTyped /\ PubTyped
  BY OutboxAssumption
  DEF Init, RowTyped, CountTyped, WorkTyped, PubTyped, Status, Marks
<1>3. ContactTyped
  BY OutboxAssumption DEF Init, ContactTyped
<1>4. QueueTyped
  BY MessageType DEF Init, QueueTyped
<1>5. MarkFits /\ GotFits
  BY DEF Init, MarkFits, GotFits, Closed
<1>6. JobFits /\ HolderOwns /\ OneHolder /\ JobGot
  BY <1>1 DEF JobFits, HolderOwns, OneHolder, JobGot, Addressed, Holding, Unsubmitted
<1>7. QED
  BY <1>2, <1>3, <1>4, <1>5, <1>6 DEF Typed, Delivery

LEMMA DeliveryInvariant == Spec => [](Typed /\ Delivery)
<1>1. Typed /\ Delivery /\ [Next]_vars => (Typed /\ Delivery)'
  BY DeliveryStep
<1>2. QED
  BY <1>1, InitDelivery, PTL DEF Spec

\* The rows, the queue and every invocation have their types: an outcome has a
\* reason of its kind, and a suppression names an address that was looked up.
THEOREM TypeCorrect == Spec => []TypeOK
BY DeliveryInvariant, TypedIsTypeOK, PTL

\* A row that the consumers may still claim, or that staff may ask for again, has
\* not reached its recipient: the provider's acceptance is either recorded or
\* leaves a row that nobody touches again.
THEOREM OnlyUnsentIsRetriedHolds == Spec => []OnlyUnsentIsRetried
<1>1. Typed /\ Delivery => OnlyUnsentIsRetried
  BY DEF Delivery, GotFits, OnlyUnsentIsRetried, Unsent, Untouched, Retryable, Closed
<1>2. QED
  BY <1>1, DeliveryInvariant, PTL

-----------------------------------------------------------------------------
(* Nothing unwanted is handed over.                                          *)

Looked(w) ==
  LET n == work[w].note IN
  /\ status[n] # "GONE" /\ Valid(n)
  /\ address[Channel[n]] = work[w].dest
  /\ work[w].at \in PastLookup => <<Channel[n], work[w].dest>> \notin suppressed

LEMMA WantedFrame ==
  ASSUME Typed, LooksWanted, NEW w \in Workers,
         \A v \in Workers : v # w => work'[v] = work[v],
         UNCHANGED contactVars,
         \A n \in Notes : status[n] # "GONE" => status'[n] # "GONE",
         work'[w].at \in PastReload /\ ~work'[w].late => Looked(w)'
  PROVE  LooksWanted'
<1>1. SUFFICES ASSUME NEW v \in Workers, work'[v].at \in PastReload, ~work'[v].late
      PROVE  Looked(v)'
  BY DEF LooksWanted, Looked
<1>2. CASE v # w
  <2>1. work'[v] = work[v] /\ work[v].note \in Notes
    BY <1>1, <1>2, JobOf DEF Typed, PastReload, PastLookup
  <2>2. QED
    BY <1>1, <2>1 DEF LooksWanted, Looked, contactVars, Valid
<1>3. QED
  BY <1>1, <1>2

\* A change marks every invocation past its last look that it concerns.
LEMMA LateWanted ==
  ASSUME Typed, LooksWanted, NEW S, work' = Late(S),
         \A n \in Notes \ S :
           /\ status[n] # "GONE" => status'[n] # "GONE"
           /\ Valid(n) => Valid(n)'
           /\ address'[Channel[n]] = address[Channel[n]]
           /\ \A a \in Addresses :
                <<Channel[n], a>> \in suppressed' => <<Channel[n], a>> \in suppressed
  PROVE  LooksWanted'
<1>1. SUFFICES ASSUME NEW v \in Workers, work'[v].at \in PastReload, ~work'[v].late
      PROVE  Looked(v)'
  BY DEF LooksWanted, Looked
<1>2. /\ work'[v] = work[v]
      /\ ~(work[v].at \in PastReload /\ work[v] # Idle /\ work[v].note \in S)
  BY <1>1, LateAlike DEF Typed, Late
<1>3. work[v].note \in Notes \ S
  BY <1>1, <1>2, JobOf DEF Typed, PastReload, PastLookup
<1>4. Looked(v) /\ address[Channel[work[v].note]] \in Addresses
  BY <1>1, <1>2, <1>3, OutboxAssumption
  DEF LooksWanted, Looked, Typed, ContactTyped, Channels
<1>5. QED
  BY <1>2, <1>3, <1>4 DEF Looked

LEMMA ContactWanted ==
  ASSUME Typed, LooksWanted, ContactSteps
  PROVE  LooksWanted'
<1>1. ASSUME NEW c \in Channels, OptOut(c) PROVE LooksWanted'
  <2>1. \A n \in Notes \ InChannel(c) :
          /\ status'[n] = status[n] /\ Valid(n)' = Valid(n)
    BY <1>1, OutboxAssumption
    DEF OptOut, CloseWaiting, InChannel, Valid, Typed, ContactTyped, Channels
  <2>2. work' = Late(InChannel(c)) /\ UNCHANGED <<address, suppressed>>
    BY <1>1 DEF OptOut
  <2>3. QED
    BY <2>1, <2>2, LateWanted
<1>2. ASSUME NEW c \in Channels, OptIn(c) PROVE LooksWanted'
  <2>1. UNCHANGED <<status, work, address, suppressed>>
    BY <1>2 DEF OptIn, rowVars
  <2>2. \A n \in Notes : Valid(n) => Valid(n)'
    BY <1>2, OutboxAssumption DEF OptIn, Valid, Typed, ContactTyped, Channels
  <2>3. \A v \in Workers : work[v].at \in PastReload => work[v].note \in Notes
    BY JobOf DEF Typed, PastReload, PastLookup
  <2>4. QED
    BY <2>1, <2>2, <2>3 DEF LooksWanted
<1>3. ASSUME NEW c \in Channels, NEW a \in Addresses, ChangeAddress(c, a) PROVE LooksWanted'
  <2>1. \A n \in Notes \ InChannel(c) : address'[Channel[n]] = address[Channel[n]]
    BY <1>3, OutboxAssumption DEF ChangeAddress, InChannel, Typed, ContactTyped, Channels
  <2>2. work' = Late(InChannel(c)) /\ UNCHANGED <<status, fact, allowed, suppressed>>
    BY <1>3 DEF ChangeAddress, rowVars
  <2>3. QED
    BY <2>1, <2>2, LateWanted DEF Valid
<1>4. ASSUME UnsubscribeBegin PROVE LooksWanted'
  BY <1>4 DEF UnsubscribeBegin, rowVars, LooksWanted, Valid
<1>5. ASSUME UnsubscribeCommit PROVE LooksWanted'
  <2>1. work' = Late(InChannel("EMAIL")) /\ UNCHANGED <<fact, address>>
    BY <1>5 DEF UnsubscribeCommit
  <2>2. \A n \in Notes \ InChannel("EMAIL") :
          /\ status'[n] = status[n] /\ allowed'[Channel[n]] = allowed[Channel[n]]
    <3>1. CASE address["EMAIL"] = unsub
      BY <1>5, <3>1, OutboxAssumption
      DEF UnsubscribeCommit, CloseWaiting, InChannel, Typed, ContactTyped, Channels
    <3>2. CASE address["EMAIL"] # unsub
      BY <1>5, <3>2 DEF UnsubscribeCommit, rowVars
    <3>3. QED
      BY <3>1, <3>2
  <2>3. \A n \in Notes \ InChannel("EMAIL") : \A a \in Addresses :
          <<Channel[n], a>> \in suppressed' => <<Channel[n], a>> \in suppressed
    BY <1>5 DEF UnsubscribeCommit, InChannel
  <2>4. QED
    BY <2>1, <2>2, <2>3, LateWanted DEF Valid
<1>6. ASSUME DeleteRegistration PROVE LooksWanted'
  BY <1>6, LateWanted DEF DeleteRegistration
<1>7. ASSUME NEW n \in Notes, NEW f \in {"holds", "not_next", "void"}, FactChanges(n, f)
      PROVE  LooksWanted'
  <2>1. \A i \in Notes \ {n} : fact'[i] = fact[i]
    BY <1>7 DEF FactChanges, Typed, ContactTyped
  <2>2. work' = Late({n}) /\ UNCHANGED <<status, allowed, address, suppressed>>
    BY <1>7 DEF FactChanges, rowVars
  <2>3. QED
    BY <2>1, <2>2, LateWanted DEF Valid
<1>8. QED
  BY <1>1, <1>2, <1>3, <1>4, <1>5, <1>6, <1>7 DEF ContactSteps

LEMMA LooksStepWanted ==
  ASSUME Typed, Delivery, LooksWanted, NEW w \in Workers, Looks(w)
  PROVE  LooksWanted'
<1> DEFINE goal == work'[w].at \in PastReload /\ ~work'[w].late => Looked(w)'
<1>1. Typed' /\ Walk(w) /\ UNCHANGED <<rowVars, contactVars>>
  BY LooksTypes DEF Delivery, Outside
<1>2. /\ work[w].at # "idle" /\ work[w].note \in Notes
      /\ \A v \in Workers : v # w => work'[v] = work[v]
  BY <1>1, JobOf DEF Walk, Unsubmitted, Moved, Kept, Typed
<1>3. ASSUME NEW step \in Steps, Goto(w, step)
      PROVE  /\ work'[w].at = step /\ work'[w].note = work[w].note
             /\ work'[w].dest = work[w].dest /\ work'[w].late = work[w].late
  BY <1>2, <1>3, GotoMoves DEF Typed, Moved
<1>4. ASSUME NEW why \in Why, NEW step \in {"cancel", "fail"}, GotoWhy(w, step, why)
      PROVE  work'[w].at \notin PastReload
  BY <1>2, <1>4, GotoWhyMoves DEF Typed, Moved, Steps, PastReload, PastLookup
<1>5. \A n \in Notes : Reason(n) \in Why
  BY DEF Reason, Why
<1>6. ASSUME Reload(w) PROVE goal
  <2>1. CASE Checked(w)
    <3>1. work' = [work EXCEPT ![w] = [[work[w] EXCEPT !.at = "local"]
                                      EXCEPT !.dest = address[Channel[work[w].note]]]]
      BY <1>6, <2>1 DEF Reload, Typed, WorkTyped
    <3>2. work[w] \in Job
      BY <1>2, JobOf DEF Typed
    <3>3. work'[w].at = "local"
      BY <3>1, <3>2 DEF Typed, WorkTyped, Job
    <3>4. QED
      BY <3>3 DEF PastReload, PastLookup
  <2>2. CASE ~Checked(w)
    BY <1>2, <1>4, <1>5, <1>6, <2>2 DEF Reload
  <2>3. QED
    BY <2>1, <2>2
<1>7. ASSUME LocalCheck(w, "local", "provider") \/ ProviderCheck(w) PROVE goal
  <2>1. \/ \E step \in {"suppress", "provider", "again"} : Goto(w, step)
        \/ \E why \in {"temporary", "permanent"} : GotoWhy(w, "fail", why)
    BY <1>7 DEF LocalCheck, ProviderCheck
  <2>2. QED
    BY <1>3, <1>4, <2>1 DEF Steps, Why, PastReload, PastLookup
<1>8. ASSUME LocalCheck(w, "local2", "owner") PROVE goal
  <2>1. CASE LocallySuppressed(w)
    BY <1>3, <1>8, <2>1 DEF LocalCheck, Steps, PastReload, PastLookup
  <2>2. CASE ~LocallySuppressed(w)
    <3>1. Goto(w, "owner") /\ work[w].at = "local2"
      BY <1>8, <2>2 DEF LocalCheck, At
    <3>2. work'[w].note = work[w].note /\ work'[w].dest = work[w].dest
          /\ work'[w].late = work[w].late
      BY <1>3, <3>1 DEF Steps
    <3>3. QED
      BY <1>1, <2>2, <3>1, <3>2
      DEF LooksWanted, Looked, LocallySuppressed, rowVars, contactVars, Valid, PastReload
  <2>3. QED
    BY <2>1, <2>2
<1>9. ASSUME ReloadAgain(w) PROVE goal
  <2>1. CASE Checked(w) /\ SameAddress(w, address[Channel[work[w].note]])
    <3>1. Goto(w, "local2")
      BY <1>9, <2>1 DEF ReloadAgain
    <3>2. work'[w].at = "local2" /\ work'[w].note = work[w].note
          /\ work'[w].dest = work[w].dest
      BY <1>3, <3>1 DEF Steps
    <3>3. QED
      BY <1>1, <2>1, <3>2
      DEF Looked, Checked, SameAddress, rowVars, contactVars, Valid, PastLookup
  <2>2. CASE ~(Checked(w) /\ SameAddress(w, address[Channel[work[w].note]]))
    BY <1>2, <1>4, <1>5, <1>9, <2>2 DEF ReloadAgain
  <2>3. QED
    BY <2>1, <2>2
<1>10. ASSUME CheckOwner(w) /\ Owns(w) PROVE goal
  <2>1. Goto(w, "submit") /\ work[w].at = "owner"
    BY <1>10 DEF CheckOwner, At
  <2>2. work'[w].note = work[w].note /\ work'[w].dest = work[w].dest
        /\ work'[w].late = work[w].late
    BY <1>3, <2>1 DEF Steps
  <2>3. QED
    BY <1>1, <2>1, <2>2
    DEF LooksWanted, Looked, rowVars, contactVars, Valid, PastReload, PastLookup
<1>11. ASSUME CallFails(w) PROVE goal
  BY <1>4, <1>11 DEF CallFails, Why
<1>12. goal
  BY <1>6, <1>7, <1>8, <1>9, <1>10, <1>11 DEF Looks
<1>13. UNCHANGED contactVars /\ \A n \in Notes : status[n] # "GONE" => status'[n] # "GONE"
  BY <1>1 DEF rowVars
<1>14. QED
  BY <1>2, <1>12, <1>13, WantedFrame

LEMMA EndsWanted ==
  ASSUME Typed, Delivery, LooksWanted, NEW w \in Workers, Ends(w)
  PROVE  LooksWanted'
<1>1. EndsAs(w) /\ Rests(w)
  BY EndsTypes DEF Delivery
<1>2. \A n \in Notes : status[n] # "GONE" => status'[n] # "GONE"
  BY <1>1 DEF EndsAs, Outcome, RowAs, Only, RowsKept, Note
<1>3. work'[w].at \notin PastReload
  BY <1>1 DEF Rests, Idle, PastReload, PastLookup
<1>4. CASE RecordSent(w) \/ CancelClaimed(w) \/ FailClaimed(w)
  <2>1. work' = [work EXCEPT ![w] = Idle] /\ UNCHANGED contactVars
    BY <1>4 DEF RecordSent, CancelClaimed, FailClaimed
  <2>2. \A v \in Workers : v # w => work'[v] = work[v]
    BY <2>1 DEF Typed, WorkTyped
  <2>3. QED
    BY <1>2, <1>3, <2>1, <2>2, WantedFrame
<1>5. CASE SuppressClaimed(w)
  <2> DEFINE c == Channel[work[w].note]
             late == LateAt(InChannel(c), PastLookup)
  <2>1. work' = [late EXCEPT ![w] = Idle] /\ UNCHANGED <<fact, allowed, address>>
        /\ suppressed' = suppressed \cup {<<c, work[w].dest>>}
    BY <1>5 DEF SuppressClaimed
  <2>2. \A v \in Workers :
          /\ work[v].at \in PastLookup /\ work[v] # Idle /\ work[v].note \in InChannel(c)
             => late[v].late
          /\ ~late[v].late => work[v] = late[v]
    BY LateAlike DEF Typed
  <2>3. late \in [Workers -> Job \cup {Idle}]
    BY LateAlike DEF Typed
  <2> HIDE DEF late
  <2>4. SUFFICES ASSUME NEW v \in Workers, work'[v].at \in PastReload, ~work'[v].late
        PROVE  Looked(v)'
    BY DEF LooksWanted, Looked
  <2>5. v # w /\ work'[v] = late[v]
    BY <1>3, <2>1, <2>3, <2>4
  <2>6. work'[v] = work[v]
    BY <2>2, <2>4, <2>5
  <2>7. work[v].note \in Notes /\ work[v] # Idle
    BY <2>4, <2>6, JobOf DEF Typed, PastReload, PastLookup
  <2>8. work[v].at \in PastLookup => Channel[work[v].note] # c
    BY <2>2, <2>4, <2>5, <2>6, <2>7 DEF InChannel
  <2> HIDE DEF c
  <2>9. QED
    BY <1>2, <2>1, <2>4, <2>6, <2>7, <2>8 DEF LooksWanted, Looked, Valid
<1>6. QED
  BY <1>4, <1>5 DEF Ends

LEMMA WantedStep ==
  ASSUME Typed, Delivery, LooksWanted, [Next]_vars
  PROVE  LooksWanted'
<1>0. JobFits /\ MarkFits
  BY DEF Delivery
<1>1. CASE PublisherSteps \/ TimeSteps \/ RowSteps \/ UNCHANGED vars
           \/ \E p \in Publishers : PublishRecord(p)
  <2>1. UNCHANGED <<contactVars, work>>
    BY <1>0, <1>1, PublisherTypes, TimeTypes, RowStepTypes, RecordTypes DEF vars
  <2>2. \A n \in Notes : status[n] # "GONE" => status'[n] # "GONE"
    BY <1>0, <1>1, PublisherTypes, TimeTypes, RowStepTypes, RecordTypes
    DEF vars, rowVars, RowsKept, RowMoves
  <2>3. \A v \in Workers : work[v].at \in PastReload => work[v].note \in Notes
    BY JobOf DEF Typed, PastReload, PastLookup
  <2>4. QED
    BY <2>1, <2>2, <2>3 DEF LooksWanted, contactVars, Valid
<1>2. CASE ContactSteps
  BY <1>2, ContactWanted
<1>3. ASSUME NEW w \in Workers, Kept(w), work'[w].at \notin PastReload,
             UNCHANGED contactVars,
             \A n \in Notes : status[n] # "GONE" => status'[n] # "GONE"
      PROVE  LooksWanted'
  BY <1>3, WantedFrame DEF Kept
<1>4. ASSUME NEW n \in Notes, NEW k \in Copies, NEW w \in Workers, Deliver(w, n, k)
      PROVE  LooksWanted'
  <2>1. UNCHANGED <<rowVars, contactVars>> /\ (Begins(w, n, k) \/ work' = work)
    BY <1>4, DeliverTypes DEF Outside
  <2>2. CASE Begins(w, n, k)
    BY <1>3, <2>1, <2>2 DEF Begins, rowVars, PastReload, PastLookup
  <2>3. CASE work' = work
    BY <2>1, <2>3 DEF LooksWanted, rowVars, contactVars, Valid
  <2>4. QED
    BY <2>1, <2>2, <2>3
<1>5. ASSUME NEW w \in Workers, Claim(w) PROVE LooksWanted'
  <2>1. UNCHANGED contactVars /\ \A n \in Notes : status[n] # "GONE" => status'[n] # "GONE"
    BY <1>5, ClaimTypes DEF Typed, RowTyped, RowsKept
  <2>2. CASE Moved(w, "reload")
    BY <1>3, <2>1, <2>2 DEF Moved, PastReload, PastLookup
  <2>3. CASE work' = [work EXCEPT ![w] = Idle]
    BY <1>3, <2>1, <2>3 DEF Typed, WorkTyped, Kept, Idle, PastReload, PastLookup
  <2>4. \/ Goto(w, "reload") /\ work[w].at = "claim"
        \/ work' = [work EXCEPT ![w] = Idle]
    BY <1>5 DEF Claim, At
  <2>5. QED
    BY <2>2, <2>3, <2>4, GotoMoves DEF Typed, Steps
<1>6. ASSUME NEW w \in Workers, Submit(w) PROVE LooksWanted'
  BY <1>3, <1>6, SubmitTypes DEF Submits, Moved, rowVars, PastReload, PastLookup
<1>7. ASSUME NEW w \in Workers, WalksAway(w) \/ GiveUpStale(w) \/ WorkerStops(w)
      PROVE  LooksWanted'
  <2>1. work' = [work EXCEPT ![w] = Idle]
    BY <1>7 DEF WalksAway, CheckOwner, GiveUpStale, WorkerStops
  <2>2. UNCHANGED contactVars /\ \A n \in Notes : status[n] # "GONE" => status'[n] # "GONE"
    BY <1>7, LeavesTypes DEF RowsKept, RowAs, Only
  <2>3. QED
    BY <1>3, <2>1, <2>2 DEF Typed, WorkTyped, Kept, Idle, PastReload, PastLookup
<1>8. QED
  BY <1>1, <1>2, <1>4, <1>5, <1>6, <1>7, LooksStepWanted, EndsWanted, StepCases

\* A notification is handed over only while it is wanted, for an address that was
\* checked and is still the participant's, and is still true, unless the change
\* came after the invocation had looked for the last time.
THEOREM NoUnwantedMailHolds == Spec => NoUnwantedMail
<1>1. Init => LooksWanted
  BY DEF Init, LooksWanted, Idle, PastReload, PastLookup
<1>2. Typed /\ Delivery /\ LooksWanted /\ [Next]_vars => LooksWanted'
  BY WantedStep
<1>3. Typed /\ Delivery /\ LooksWanted /\ [Next]_vars =>
       [\A n \in Notes : got'[n] # got[n] =>
          \E w \in Workers : /\ work[w] # Idle /\ At(w, "submit") /\ work[w].note = n
                             /\ Wanted(n, work[w].dest) \/ work[w].late]_vars
  <2> SUFFICES ASSUME Typed, Delivery, LooksWanted, [Next]_vars,
                      NEW n \in Notes, got'[n] # got[n]
               PROVE  \E w \in Workers : /\ work[w] # Idle /\ At(w, "submit")
                                         /\ work[w].note = n
                                         /\ Wanted(n, work[w].dest) \/ work[w].late
    OBVIOUS
  <2>0. JobFits /\ MarkFits
    BY DEF Delivery
  <2>1. PICK w \in Workers : Submit(w)
    <3>1. \A w \in Workers : Looks(w) \/ Ends(w) \/ Claim(w) \/ WalksAway(w)
                             \/ GiveUpStale(w) \/ WorkerStops(w) => got' = got
      BY <2>0, LooksTypes, EndsTypes, ClaimTypes, LeavesTypes DEF Outside
    <3>2. PublisherSteps \/ TimeSteps \/ RowSteps \/ ContactSteps => got' = got
      BY <2>0, PublisherTypes, TimeTypes, RowStepTypes, ContactTypes
    <3>3. (\E p \in Publishers : PublishRecord(p))
          \/ (\E i \in Notes, k \in Copies, w \in Workers : Deliver(w, i, k))
          \/ UNCHANGED vars => got' = got
      BY DEF PublishRecord, Deliver, vars
    <3>4. QED
      BY <3>1, <3>2, <3>3, StepCases
  <2>2. Submits(w) /\ work[w] # Idle
    BY <2>1, SubmitTypes DEF Submits, Idle
  <2>3. work[w].note = n /\ At(w, "submit")
    BY <2>2 DEF Submits, Note, At, Typed, CountTyped
  <2>4. Wanted(n, work[w].dest) \/ work[w].late
    BY <2>3 DEF LooksWanted, Wanted, At, PastReload, PastLookup
  <2>5. QED
    BY <2>2, <2>3, <2>4
<1>4. QED
  BY <1>1, <1>2, <1>3, DeliveryInvariant, PTL DEF Spec, NoUnwantedMail

-----------------------------------------------------------------------------
(* The outbox keeps the promise of OneReminder.                              *)

Record == [n \in Notes |-> Phase(n)]

\* How a row's phase follows from its status and mark.
LEMMA Phases ==
  ASSUME Typed, NEW n \in Notes
  PROVE  /\ Record[n] = Phase(n)
         /\ status[n] = "NONE" => Phase(n) = "none"
         /\ status[n] \in Open => Phase(n) = "open"
         /\ status[n] = "SENT" => Phase(n) = "sent"
         /\ status[n] = "GONE" => Phase(n) = "erased"
         /\ status[n] \in Closed \ {"SENT"} /\ mark[n] = "unknown" => Phase(n) = "unsure"
         /\ status[n] \in Closed \ {"SENT"} /\ mark[n] # "unknown" => Phase(n) = "unsent"
BY DEF Record, Phase, Open, Sendable, Closed

LEMMA NextPhases ==
  ASSUME Typed', NEW n \in Notes
  PROVE  /\ status'[n] = "NONE" => Phase(n)' = "none"
         /\ status'[n] \in Open => Phase(n)' = "open"
         /\ status'[n] = "SENT" => Phase(n)' = "sent"
         /\ status'[n] = "GONE" => Phase(n)' = "erased"
         /\ status'[n] \in Closed \ {"SENT"} /\ mark'[n] = "unknown" => Phase(n)' = "unsure"
         /\ status'[n] \in Closed \ {"SENT"} /\ mark'[n] # "unknown" => Phase(n)' = "unsent"
BY DEF Phase, Open, Sendable, Closed

\* A row that changes alone moves alone.
LEMMA Moves ==
  ASSUME NEW n \in Notes, NEW s, NEW m, RowAs(n, s, m)
  PROVE  Record' = [Record EXCEPT ![n] = Phase(n)']
<1>1. \A i \in Notes : i # n => Phase(i)' = Phase(i)
  BY DEF RowAs, Only, Phase
<1>2. QED
  BY <1>1 DEF Record

LEMMA RecordKept ==
  ASSUME RowsKept
  PROVE  Record' = Record
BY DEF RowsKept, Record, Phase

LEMMA PublishPromise ==
  ASSUME Typed, Delivery, NEW p \in Publishers, PublishRecord(p)
  PROVE  UNCHANGED <<Record, got>>
<1>1. PICK n \in Notes : n = pub[p].note
  BY DEF Typed, PubTyped, Publication, PublishRecord, Idle
<1>2. \/ /\ \E s \in {"QUEUED", "RETRY_PENDING"} : RowAs(n, s, "none")
         /\ status[n] \in Unpublished
      \/ RowsKept
  BY <1>1, SetRowIs
  DEF PublishRecord, Typed, Marks, Status, Open, Sendable, Unpublished, RowsKept, rowVars
<1>3. got' = got /\ Typed'
  BY RecordTypes DEF Delivery
<1>4. ASSUME NEW s \in {"QUEUED", "RETRY_PENDING"}, RowAs(n, s, "none"),
             status[n] \in Unpublished
      PROVE  Record' = Record
  <2>1. Phase(n) = "open" /\ Phase(n)' = "open"
    BY <1>1, <1>3, <1>4, Phases, NextPhases DEF RowAs, Unpublished, Open, Sendable
  <2>2. QED
    BY <1>1, <1>4, <2>1, Moves, Phases DEF Record
<1>5. QED
  BY <1>2, <1>3, <1>4, RecordKept

LEMMA RowPromise ==
  ASSUME Typed, Delivery, RowSteps
  PROVE  [Promise!Next]_<<Record, got>>
<1> USE DEF Promise!Next, Promise!Move
<1>0. Typed' /\ got' = got
  BY RowStepTypes DEF Delivery
<1>1. ASSUME NEW n \in Notes, Request(n) PROVE Promise!Request(n) \/ Promise!Renew(n)
  <2>1. RowAs(n, "PENDING", "none")
    BY <1>1, SetRowIs DEF Request, Typed, Status, Open, Sendable, Marks
  <2>2. /\ Record' = [Record EXCEPT ![n] = "open"]
        /\ Record[n] = "none" \/ (Record[n] = "unsent" /\ got[n] = 0)
    BY <1>0, <1>1, <2>1, Moves, Phases, NextPhases
    DEF Request, RowAs, Open, Sendable, Closed, Delivery, GotFits, Untouched
  <2>3. QED
    BY <1>0, <2>2 DEF Promise!Request, Promise!Renew, Record
<1>2. ASSUME NEW n \in Notes, FailStale(n) PROVE Promise!Doubt(n) \/ Record' = Record
  <2>1. status[n] = "SENDING" /\ (RowAs(n, "FAILED", "unknown") \/ RowsKept)
    BY <1>2, FailAmbiguousIs DEF FailStale, Typed
  <2>2. CASE RowAs(n, "FAILED", "unknown")
    <3>1. Record' = [Record EXCEPT ![n] = "unsure"] /\ Record[n] = "open"
      BY <1>0, <2>1, <2>2, Moves, Phases, NextPhases DEF RowAs, Open, Closed
    <3>2. QED
      BY <1>0, <3>1 DEF Promise!Doubt, Record
  <2>3. QED
    BY <2>1, <2>2, RecordKept
<1>3. ASSUME NEW n \in Notes, NEW s \in {"SUPPRESSED", "CANCELLED"}, StaffClose(n, s)
      PROVE  Promise!Drop(n) \/ Record' = Record
  <2>1. s \in Status /\ mark[n] \in Marks /\ RowTyped
    BY DEF Typed, RowTyped, Status, Closed
  <2>2. RowAs(n, s, mark[n])
    BY <1>3, <2>1, SetRowIs DEF StaffClose
  <2>3. CASE status[n] \in Sendable
    <3>1. mark[n] # "unknown" /\ got[n] = 0
      BY <2>3 DEF Delivery, MarkFits, GotFits, Doubtful, Untouched, Sendable
    <3>2. Record' = [Record EXCEPT ![n] = "unsent"] /\ Record[n] = "open"
      BY <1>0, <2>2, <2>3, <3>1, Moves, Phases, NextPhases DEF RowAs, Open, Closed
    <3>3. QED
      BY <1>0, <3>1, <3>2 DEF Promise!Drop, Record
  <2>4. CASE status[n] = "FAILED"
    <3>1. Phase(n)' = Phase(n)
      BY <1>0, <2>2, <2>4, Phases, NextPhases DEF RowAs, Closed
    <3>2. QED
      BY <2>2, <3>1, Moves, Phases DEF Record
  <2>5. QED
    BY <1>3, <2>3, <2>4 DEF StaffClose
<1>4. ASSUME NEW n \in Notes, NEW p \in Publishers, StaffRetry(p, n)
      PROVE  Promise!Renew(n) \/ Record' = Record
  <2>1. RowAs(n, "PENDING", "none")
    BY <1>4, SetRowIs DEF StaffRetry, Typed, Status, Open, Sendable, Marks
  <2>2. Record' = [Record EXCEPT ![n] = "open"]
    BY <1>0, <2>1, Moves, NextPhases DEF RowAs, Open, Sendable
  <2>3. CASE status[n] = "FAILED"
    <3>1. Record[n] = "unsent" /\ got[n] = 0
      BY <1>4, <2>3, Phases DEF StaffRetry, Retryable, Closed, Delivery, GotFits, Untouched
    <3>2. QED
      BY <1>0, <2>2, <3>1 DEF Promise!Renew, Record
  <2>4. CASE status[n] = "RETRY_PENDING"
    <3>1. Record[n] = "open"
      BY <2>4, Phases DEF Open, Sendable
    <3>2. QED
      BY <2>2, <3>1 DEF Record
  <2>5. QED
    BY <1>4, <2>3, <2>4 DEF StaffRetry, Retryable
<1>5. QED
  BY <1>0, <1>1, <1>2, <1>3, <1>4 DEF RowSteps

\* Whoever closes the waiting rows of a channel closes what nobody has received.
LEMMA ClosePromise ==
  ASSUME Typed, Typed', Delivery, got' = got, NEW c, NEW s \in {"CANCELLED", "SUPPRESSED"},
         CloseWaiting(c, s)
  PROVE  \E S \in SUBSET Notes : Promise!Close(S)
<1> DEFINE S == {n \in Notes : Channel[n] = c /\ status[n] \in Sendable}
<1>1. s \in Status /\ RowTyped
  BY DEF Typed, Status, Closed
<1>2. \A n \in Notes : IF n \in S THEN status'[n] = s /\ mark'[n] = "none"
                                 ELSE status'[n] = status[n] /\ mark'[n] = mark[n]
  BY <1>1, CloseWaitingIs
<1>3. \A n \in S : Record[n] = "open" /\ got[n] = 0
  BY Phases DEF Open, Delivery, GotFits, Untouched
<1>4. \A n \in Notes : Phase(n)' = IF n \in S THEN "unsent" ELSE Record[n]
  <2>1. \A n \in S : Phase(n)' = "unsent"
    BY <1>2, NextPhases DEF Closed
  <2>2. \A n \in Notes \ S : Phase(n)' = Phase(n)
    BY <1>2 DEF Phase
  <2> HIDE DEF S
  <2>3. QED
    BY <2>1, <2>2, Phases
<1> HIDE DEF S
<1>5. Record' = [n \in Notes |-> IF n \in S THEN "unsent" ELSE Record[n]]
  BY <1>4 DEF Record
<1>6. S \in SUBSET Notes
  BY DEF S
<1>7. QED
  BY <1>3, <1>5, <1>6 DEF Promise!Close, Record

LEMMA ContactPromise ==
  ASSUME Typed, Delivery, ContactSteps
  PROVE  [Promise!Next]_<<Record, got>>
<1>0. Typed' /\ got' = got
  BY ContactTypes
<1>1. ASSUME RowsKept PROVE UNCHANGED <<Record, got>>
  BY <1>0, <1>1, RecordKept
<1>2. CASE \E c \in Channels : OptOut(c)
  BY <1>0, <1>2, ClosePromise DEF OptOut, Promise!Next
<1>3. CASE UnsubscribeCommit
  BY <1>0, <1>1, <1>3, ClosePromise DEF UnsubscribeCommit, RowsKept, rowVars, Promise!Next
<1>4. CASE DeleteRegistration
  <2>1. \A n \in Notes : Phase(n)' = "erased"
    BY <1>0, <1>4, NextPhases DEF DeleteRegistration
  <2>2. Record' = [n \in Notes |-> "erased"]
    BY <2>1 DEF Record
  <2>3. QED
    BY <1>0, <2>2 DEF Promise!Next, Promise!Erase, Record
<1>5. CASE RowsKept
  BY <1>1, <1>5
<1>6. QED
  BY <1>2, <1>3, <1>4, <1>5
  DEF ContactSteps, OptIn, ChangeAddress, UnsubscribeBegin, FactChanges, RowsKept, rowVars

LEMMA ConsumerPromise ==
  ASSUME Typed, Delivery, NEW w \in Workers,
         Claim(w) \/ Looks(w) \/ WalksAway(w) \/ Submit(w) \/ Ends(w) \/ GiveUpStale(w)
         \/ WorkerStops(w)
  PROVE  [Promise!Next]_<<Record, got>>
<1> USE DEF Promise!Next, Promise!Move
<1>1. CASE Claim(w)
  <2>0. PICK n \in Notes : n = Note(w)
    BY <1>1, ClaimTypes
  <2>1. /\ Typed' /\ got' = got
        /\ \/ /\ status[n] \in Sendable /\ mark' = mark
              /\ status' = [status EXCEPT ![n] = "SENDING"]
           \/ RowsKept
    BY <1>1, <2>0, ClaimTypes
  <2>2. CASE /\ status[n] \in Sendable /\ mark' = mark
             /\ status' = [status EXCEPT ![n] = "SENDING"]
    <3>1. Phase(n)' = Phase(n)
      BY <2>1, <2>2, Phases, NextPhases DEF Typed, RowTyped, Open
    <3>2. \A i \in Notes : i # n => Phase(i)' = Phase(i)
      BY <2>1, <2>2 DEF Phase, Typed, RowTyped
    <3>3. QED
      BY <2>1, <3>1, <3>2 DEF Record
  <2>3. QED
    BY <2>1, <2>2, RecordKept
<1>2. CASE Looks(w)
  BY <1>2, LooksTypes, RecordKept DEF Delivery, Outside, RowsKept, rowVars
<1>3. CASE Submit(w)
  <2>1. Submits(w) /\ RowsKept
    BY <1>3, SubmitTypes DEF RowsKept, rowVars
  <2>2. /\ got[Note(w)] = 0 /\ Note(w) \in Notes
        /\ got' = got \/ got' = [got EXCEPT ![Note(w)] = 1]
    BY <2>1 DEF Submits, Delivery, JobGot, Unsubmitted, Note, Typed, CountTyped
  <2>3. Record[Note(w)] \in {"open", "unsure", "erased"}
    BY <2>1, <2>2, Phases
    DEF Submits, Delivery, HolderOwns, Owns, Doubtful, Holding, Unsubmitted, Note, Open,
        Closed
  <2>4. QED
    BY <2>1, <2>2, <2>3, RecordKept DEF Promise!Receive, Record
<1>4. CASE Ends(w)
  <2>1. Typed' /\ EndsAs(w) /\ got' = got
    BY <1>4, EndsTypes DEF Delivery
  <2>2. CASE ~Owns(w)
    BY <2>1, <2>2, RecordKept DEF EndsAs
  <2>3. CASE Owns(w)
    <3>0. PICK n \in Notes : n = Note(w)
      BY <2>1 DEF EndsAs
    <3>1. PICK s \in Status, m \in Marks : Outcome(w, s, m) /\ RowAs(n, s, m)
      BY <2>1, <2>3, <3>0 DEF EndsAs
    <3>2. Record[n] = "open" /\ Record' = [Record EXCEPT ![n] = Phase(n)']
      BY <2>1, <2>3, <3>0, <3>1, Moves, Phases DEF EndsAs, Owns, Note, Open
    <3>3. \/ Phase(n)' = "sent" /\ got[n] = 1
          \/ Phase(n)' = "unsent" /\ got[n] = 0
          \/ Phase(n)' \in {"open", "unsure"}
      BY <2>1, <3>0, <3>1, <3>2, NextPhases
      DEF Outcome, RowAs, Delivery, JobGot, Unsubmitted, Note, Open, Sendable, Closed
    <3>4. CASE Phase(n)' = "open"
      BY <2>1, <3>2, <3>4 DEF Record
    <3>5. QED
      BY <2>1, <3>2, <3>3, <3>4 DEF Promise!Confirm, Promise!Drop, Promise!Doubt, Record
  <2>4. QED
    BY <2>2, <2>3
<1>5. CASE WalksAway(w) \/ GiveUpStale(w) \/ WorkerStops(w)
  <2>1. /\ Typed' /\ got' = got /\ Note(w) \in Notes
        /\ \/ RowsKept
           \/ status[Note(w)] = "SENDING" /\ RowAs(Note(w), "FAILED", "unknown")
    BY <1>5, LeavesTypes
  <2>2. CASE status[Note(w)] = "SENDING" /\ RowAs(Note(w), "FAILED", "unknown")
    <3>1. Record' = [Record EXCEPT ![Note(w)] = "unsure"] /\ Record[Note(w)] = "open"
      BY <2>1, <2>2, Moves, Phases, NextPhases DEF RowAs, Open, Closed
    <3>2. QED
      BY <2>1, <3>1 DEF Promise!Doubt, Record
  <2>3. QED
    BY <2>1, <2>2, RecordKept
<1>6. QED
  BY <1>1, <1>2, <1>3, <1>4, <1>5

LEMMA PromiseStep ==
  Typed /\ Delivery /\ [Next]_vars => [Promise!Next]_<<Record, got>>
<1> SUFFICES ASSUME Typed, Delivery, [Next]_vars PROVE [Promise!Next]_<<Record, got>>
  OBVIOUS
<1>1. ASSUME PublisherSteps \/ TimeSteps \/ UNCHANGED vars
             \/ \E n \in Notes, k \in Copies, w \in Workers : Deliver(w, n, k)
      PROVE  UNCHANGED <<Record, got>>
  <2>1. RowsKept /\ got' = got
    BY <1>1, PublisherTypes, TimeTypes, DeliverTypes DEF RowsKept, rowVars, Outside, vars
  <2>2. QED
    BY <2>1, RecordKept
<1>2. QED
  BY <1>1, StepCases, PublishPromise, RowPromise, ContactPromise, ConsumerPromise

\* The outbox implements OneReminder: each notification reaches its recipient at
\* most once, whatever is delivered twice, stops half way, is answered late or
\* closed meanwhile; a recorded success is real, and only what was not sent is
\* opened again.
THEOREM AtMostOnceHolds == Spec => AtMostOnce
<1>1. Init => Promise!Init
  <2> SUFFICES ASSUME Init PROVE Promise!Init
    OBVIOUS
  <2>1. \A n \in Notes : Phase(n) = "none"
    BY InitDelivery, Phases DEF Init
  <2>2. [n \in Notes |-> Phase(n)] = [n \in Notes |-> "none"] /\ got = [n \in Notes |-> 0]
    BY <2>1 DEF Init
  <2>3. QED
    BY <2>2 DEF Promise!Init
<1>2. Typed /\ Delivery /\ [Next]_vars
      => [Promise!Next]_<<[n \in Notes |-> Phase(n)], got>>
  BY PromiseStep DEF Record
<1>3. QED
  BY <1>1, <1>2, DeliveryInvariant, PTL DEF Spec, AtMostOnce, Promise!Spec

-----------------------------------------------------------------------------
(* What waits in the queue is carried.                                       *)

LEMMA DeadLess ==
  ASSUME Typed, NEW n \in Notes, NEW k \in Copies, Retries(n, k) \/ Ack(n, k)
  PROVE  /\ dead \subseteq dead'
         /\ \A i \in Notes, j \in Copies : i # n \/ j # k =>
              /\ mail'[i][j].try = mail[i][j].try
              /\ mail[i][j] = NoMessage => mail'[i][j] = NoMessage
         /\ mail'[n][k] = NoMessage \/ mail'[n][k].try > 0
         /\ Retries(n, k) => n \in dead' \/ mail'[n][k].try > 0
<1>1. QueueTyped
  BY DEF Typed
<1>2. CASE Retries(n, k)
  BY <1>1, <1>2, RetryLeaves
<1>3. CASE Ack(n, k) /\ ~Retries(n, k)
  <2>1. Slot(n, k, NoMessage) /\ dead' = dead
    BY <1>1, <1>3, AckSlot
  <2>2. QED
    BY <1>1, <1>3, <2>1, SlotChange, MessageType
<1>4. QED
  BY <1>2, <1>3

\* Steps that leave the messages and their holders alone.
SameHold(v) == /\ work'[v] = Idle <=> work[v] = Idle
               /\ work'[v].note = work[v].note /\ work'[v].copy = work[v].copy
               /\ work'[v].at = "ambiguous" <=> work[v].at = "ambiguous"
LEMMA StillCarriage ==
  ASSUME Typed, Carriage, Still, \A v \in Workers : SameHold(v),
         \A n \in Notes : Reopenable(n)' => Reopenable(n),
         \A n \in Notes : Queued(n)' => Queued(n),
         PublishedExists'
  PROVE  Carriage'
<1>1. \A v \in Workers : work[v] # Idle => work[v].note \in Notes /\ work[v].copy \in Copies
  BY JobOf DEF Typed
<1>2. HoldsMessage' /\ OneEach'
  BY <1>1 DEF Carriage, HoldsMessage, OneEach, SameHold, Still, Filled
<1>3. \A n \in Notes, k \in Copies : /\ Filled(n, k)' = Filled(n, k)
                                     /\ Doomed(n, k)' = Doomed(n, k)
  BY DEF Still, Filled, Doomed, SameHold
<1>4. MailFits'
  BY <1>3 DEF Carriage, MailFits, Still
<1>5. Room'
  BY <1>3 DEF Carriage, Room
<1>6. CarriedOnceSent'
  BY <1>3 DEF Carriage, CarriedOnceSent, Carried, Still
<1>7. QED
  BY <1>2, <1>4, <1>5, <1>6 DEF Carriage

\* An invocation that ends leaves its slot to nobody.
LEMMA RestCarriage ==
  ASSUME Typed, Carriage, NEW w \in Workers, work[w] # Idle, Rests(w),
         NEW n \in Notes, n = Note(w), NEW k \in Copies, k = Copy(w),
         Retries(n, k) \/ Ack(n, k),
         \A i \in Notes : i # n => status'[i] = status[i] /\ mark'[i] = mark[i],
         Queued(n)' => Retries(n, k) \/ (Queued(n) /\ work[w].at = "ambiguous"),
         status'[n] = "NONE" => status[n] = "NONE",
         pub' = pub
  PROVE  Carriage'
<1>1. /\ dead \subseteq dead'
      /\ \A i \in Notes, j \in Copies : i # n \/ j # k =>
           /\ mail'[i][j].try = mail[i][j].try
           /\ mail[i][j] = NoMessage => mail'[i][j] = NoMessage
      /\ mail'[n][k] = NoMessage \/ mail'[n][k].try > 0
      /\ Retries(n, k) => n \in dead' \/ mail'[n][k].try > 0
  BY DeadLess
<1>2. \A v \in Workers : work[v] # Idle => work[v].note \in Notes /\ work[v].copy \in Copies
  BY JobOf DEF Typed
<1>3. \A v \in Workers : v # w /\ work[v] # Idle => work[v].note # n \/ work[v].copy # k
  BY DEF Carriage, OneEach, Note, Copy
<1>4. MailFits'
  BY <1>1 DEF Carriage, MailFits, Filled
<1>5. HoldsMessage' /\ OneEach'
  BY <1>1, <1>2, <1>3 DEF Carriage, HoldsMessage, OneEach, Filled, Rests, Alike
<1>6. \A v \in Workers : work[v].at = "ambiguous" => work[v] # Idle
  BY DEF Idle
<1>7. ~Doomed(n, k)'
  BY <1>3, <1>6 DEF Doomed, Rests, Alike, Idle
<1>8. \A i \in Notes, j \in Copies : Doomed(i, j)' => Doomed(i, j)
  BY DEF Doomed, Rests, Alike, Idle
<1>9. \A i \in Notes : i # n => /\ Reopenable(i)' => Reopenable(i)
                                /\ Queued(i)' => Queued(i)
  BY DEF Reopenable, Queued
<1>10. Room'
  BY <1>7, <1>8, <1>9 DEF Carriage, Room
<1>11. \A i \in Notes : i # n /\ Queued(i)' => Carried(i)'
  BY <1>1, <1>8, <1>9 DEF Carriage, CarriedOnceSent, Carried, Filled
<1>12. Queued(n)' => Carried(n)'
  <2>1. CASE Retries(n, k)
    BY <1>1, <1>7, <2>1 DEF Carried, Filled
  <2>2. ASSUME Queued(n), work[w].at = "ambiguous" PROVE Carried(n)'
    <3>1. Doomed(n, k)
      BY <2>2 DEF Doomed, Note, Copy
    <3>2. n \in dead \/ \E j \in Copies : j # k /\ Filled(n, j) /\ ~Doomed(n, j)
      BY <2>2, <3>1 DEF Carriage, CarriedOnceSent, Carried
    <3>3. QED
      BY <1>1, <1>8, <3>2 DEF Carried, Filled
  <2>3. QED
    BY <2>1, <2>2
<1>13. CarriedOnceSent'
  BY <1>11, <1>12 DEF CarriedOnceSent
<1>14. PublishedExists'
  <2>1. \A p \in Publishers : pub[p] # Idle => pub[p].note \in Notes
    BY DEF Typed, PubTyped, Publication
  <2>2. QED
    BY <2>1 DEF Carriage, PublishedExists
<1>15. QED
  BY <1>4, <1>5, <1>10, <1>13, <1>14 DEF Carriage

LEMMA DeliverCarriage ==
  ASSUME Typed, Carriage, NEW w \in Workers, NEW n \in Notes, NEW k \in Copies,
         Deliver(w, n, k)
  PROVE  Carriage'
<1>1. /\ UNCHANGED <<status, mark, pub>>
      /\ \/ Begins(w, n, k) /\ UNCHANGED queueVars
         \/ work' = work /\ Retries(n, k)
         \/ work' = work /\ Ack(n, k) /\ status[n] \notin Open
  BY DeliverTypes DEF Outside, rowVars
<1>2. \A i \in Notes : Reopenable(i)' = Reopenable(i) /\ Queued(i)' = Queued(i)
  BY <1>1 DEF Reopenable, Queued
<1>3. PublishedExists'
  BY <1>1 DEF Carriage, PublishedExists
<1>4. \A v \in Workers : work[v] # Idle => work[v].note \in Notes /\ work[v].copy \in Copies
  BY JobOf DEF Typed
<1>5. \A v \in Workers : work[v] # Idle => work[v].note # n \/ work[v].copy # k
  BY DEF Deliver
<1>6. CASE Begins(w, n, k) /\ UNCHANGED queueVars
  <2>1. \A v \in Workers : v # w => work'[v] = work[v]
    BY <1>6 DEF Begins, Kept
  <2>2. /\ work'[w].note = n /\ work'[w].copy = k /\ work'[w] # Idle /\ Filled(n, k)
        /\ work[w] = Idle
    BY <1>6 DEF Begins
  <2>3. MailFits' /\ HoldsMessage' /\ OneEach'
    BY <1>4, <1>5, <1>6, <2>1, <2>2
    DEF Carriage, MailFits, HoldsMessage, OneEach, Filled, queueVars
  <2>4. \A i \in Notes, j \in Copies : Doomed(i, j)' =>
          Doomed(i, j) \/ (i = n /\ status[n] = "SENDING")
    BY <1>6, <2>1 DEF Doomed, Begins
  <2>5. status[n] = "SENDING" => ~Reopenable(n) /\ ~Queued(n)
    BY DEF Reopenable, Queued, Sendable, Unpublished
  <2>6. Room'
    BY <1>2, <2>4, <2>5 DEF Carriage, Room
  <2>7. CarriedOnceSent'
    BY <1>2, <1>6, <2>4, <2>5 DEF Carriage, CarriedOnceSent, Carried, Filled, queueVars
  <2>8. QED
    BY <1>3, <2>3, <2>6, <2>7 DEF Carriage
<1>7. CASE work' = work /\ (Retries(n, k) \/ (Ack(n, k) /\ status[n] \notin Open))
  <2>1. /\ dead \subseteq dead'
        /\ \A i \in Notes, j \in Copies : i # n \/ j # k =>
             /\ mail'[i][j].try = mail[i][j].try
             /\ mail[i][j] = NoMessage => mail'[i][j] = NoMessage
        /\ mail'[n][k] = NoMessage \/ mail'[n][k].try > 0
        /\ Retries(n, k) => n \in dead' \/ mail'[n][k].try > 0
    BY <1>7, DeadLess
  <2>2. MailFits' /\ HoldsMessage' /\ OneEach'
    BY <1>4, <1>5, <1>7, <2>1 DEF Carriage, MailFits, HoldsMessage, OneEach, Filled
  <2>3. \A i \in Notes, j \in Copies : Doomed(i, j)' = Doomed(i, j)
    BY <1>7 DEF Doomed
  <2>4. ~Doomed(n, k)
    BY <1>5 DEF Doomed, Idle
  <2>5. Room'
    BY <1>2, <2>3 DEF Carriage, Room
  <2>6. status[n] \notin Open => ~Queued(n)
    BY DEF Queued, Open, Sendable, Unpublished
  <2>7. Queued(n)' => Carried(n)'
    BY <1>2, <1>7, <2>1, <2>3, <2>4, <2>6 DEF Carried, Filled
  <2>8. \A i \in Notes : i # n /\ Queued(i)' => Carried(i)'
    BY <1>2, <2>1, <2>3 DEF Carriage, CarriedOnceSent, Carried, Filled
  <2>9. CarriedOnceSent'
    BY <2>7, <2>8 DEF CarriedOnceSent
  <2>10. QED
    BY <1>3, <2>2, <2>5, <2>9 DEF Carriage
<1>8. QED
  BY <1>1, <1>6, <1>7

\* Rows that are closed, opened or erased.
LEMMA RowCarriage ==
  ASSUME Typed, MarkFits, Carriage, RowMoves \/ Erased, Still, WorkersAlike,
         \A n \in Notes : Queued(n)' => Queued(n), PublishedExists'
  PROVE  Carriage'
<1>1. \A v \in Workers : SameHold(v)
  BY DEF WorkersAlike, Alike, SameHold
<1>2. \A n \in Notes : Reopenable(n)' => Reopenable(n)
  BY DEF MarkFits, RowMoves, Erased, Reopenable, Untouched, Doubtful, Sendable, Closed
<1>3. QED
  BY <1>1, <1>2, StillCarriage

\* An id that is sent fills a slot, and leaves every message where it is.
LEMMA SentCarriage ==
  ASSUME Typed, Carriage, UNCHANGED <<status, mark, dead, work>>,
         NEW n \in Notes, mail' = mail \/ mail' = Enqueued(n),
         \A i \in Notes : Queued(i)' => Queued(i) \/ Carried(i)', PublishedExists'
  PROVE  Carriage'
<1>1. \A i \in Notes, j \in Copies :
        \/ mail'[i][j] = mail[i][j]
        \/ mail[i][j] = NoMessage /\ mail'[i][j].try = 1
  BY EnqueuedSlot DEF Typed
<1>2. \A i \in Notes, j \in Copies : /\ Filled(i, j) => Filled(i, j)'
                                     /\ Doomed(i, j)' = Doomed(i, j)
  BY <1>1, MessageType DEF Filled, Doomed
<1>3. MailFits'
  BY <1>1 DEF Carriage, MailFits, Filled
<1>4. HoldsMessage' /\ OneEach'
  <2>1. \A v \in Workers : work[v] # Idle => work[v].note \in Notes /\ work[v].copy \in Copies
    BY JobOf DEF Typed
  <2>2. QED
    BY <1>2, <2>1 DEF Carriage, HoldsMessage, OneEach
<1>5. Room'
  BY <1>2 DEF Carriage, Room, Reopenable
<1>6. CarriedOnceSent'
  BY <1>2 DEF Carriage, CarriedOnceSent, Carried
<1>7. QED
  BY <1>3, <1>4, <1>5, <1>6 DEF Carriage

LEMMA QueueSendCarries ==
  ASSUME Typed, MarkFits, Carriage, NEW p \in Publishers, QueueSend(p),
         NEW n \in Notes, n = pub[p].note, status[n] \in Unpublished
  PROVE  Carried(n)'
<1>1. Reopenable(n)
  BY DEF MarkFits, Reopenable, Doubtful, Sendable, Unpublished
<1>2. PICK k \in Copies : ~Doomed(n, k)
  BY <1>1 DEF Carriage, Room
<1>3. mail' = Enqueued(n) /\ UNCHANGED <<dead, work>>
  BY DEF QueueSend
<1>4. \A j \in Copies : Doomed(n, j)' = Doomed(n, j)
  BY <1>3 DEF Doomed
<1>5. ASSUME NEW j \in Copies, mail[n][j] = NoMessage, mail'[n][j].try = 1
      PROVE  Carried(n)'
  <2>1. ~Filled(n, j)
    BY <1>5, MessageType DEF Filled
  <2>2. ~Doomed(n, j)
    <3>1. SUFFICES ASSUME NEW w \in Workers, work[w].at = "ambiguous", work[w].note = n,
                          work[w].copy = j
          PROVE  FALSE
      BY DEF Doomed
    <3>2. work[w] # Idle
      BY <3>1 DEF Idle
    <3>3. QED
      BY <2>1, <3>1, <3>2 DEF Carriage, HoldsMessage
  <2>3. Filled(n, j)'
    BY <1>5 DEF Filled
  <2>4. QED
    BY <1>4, <2>2, <2>3 DEF Carried
<1>6. ASSUME \A j \in Copies : mail[n][j] # NoMessage PROVE Carried(n)'
  <2>1. Filled(n, k)
    BY <1>6 DEF Carriage, MailFits
  <2>2. mail'[n][k] = mail[n][k]
    BY <1>3, <1>6, EnqueuedSlot DEF Typed
  <2>3. Filled(n, k)'
    BY <2>1, <2>2 DEF Filled
  <2>4. QED
    BY <1>2, <1>4, <2>3 DEF Carried
<1>7. QED
  BY <1>3, <1>5, <1>6, EnqueuedSlot DEF Typed

LEMMA PublisherCarriage ==
  ASSUME Typed, MarkFits, Carriage, PublisherSteps
  PROVE  Carriage'
<1>1. Typed' /\ UNCHANGED <<status, mark, dead, work>>
  BY PublisherTypes DEF rowVars
<1>2. \A p \in Publishers : pub[p] # Idle => pub[p].note \in Notes
  BY DEF Typed, PubTyped, Publication
<1>3. ASSUME NEW p \in Publishers, NEW n \in Notes, PublishBegin(p, n) PROVE Carriage'
  <2>1. /\ pub[p] = Idle /\ status[n] \in Unpublished /\ mail' = mail
        /\ pub' = [pub EXCEPT ![p] = [at |-> "send", note |-> n, by |-> "dispatcher"]]
    BY <1>3 DEF PublishBegin, queueVars
  <2>2. pub'[p].at = "send" /\ pub'[p].note = n
        /\ \A q \in Publishers : q # p => pub'[q] = pub[q]
    BY <2>1 DEF Typed, PubTyped
  <2>3. PublishedExists'
    BY <1>1, <2>1, <2>2 DEF Carriage, PublishedExists, Unpublished
  <2>4. \A i \in Notes : Queued(i)' => Queued(i)
    BY <1>1, <2>2 DEF Queued
  <2>5. QED
    BY <1>1, <2>1, <2>3, <2>4, SentCarriage
<1>4. ASSUME NEW p \in Publishers, QueueSend(p) \/ QueueSendFails(p) \/ PublisherStops(p)
      PROVE  Carriage'
  <2>1. pub[p] # Idle /\ \A q \in Publishers : q # p => pub'[q] = pub[q]
    BY <1>4 DEF QueueSend, QueueSendFails, PublisherStops, Idle, Typed, PubTyped
  <2>2. PICK n \in Notes : n = pub[p].note
    BY <1>2, <2>1
  <2>3. mail' = mail \/ mail' = Enqueued(n)
    BY <1>4, <2>2 DEF QueueSend, QueueSendFails, PublisherStops, queueVars
  <2>4. /\ pub'[p] # Idle => pub'[p].note = n
        /\ pub'[p].at = "sent" => pub'[p].note = n /\ QueueSend(p)
    <3>1. pub[p] \in Publication
      BY <2>1 DEF Typed, PubTyped
    <3>2. CASE QueueSend(p)
      BY <2>2, <3>1, <3>2 DEF QueueSend, Typed, PubTyped, Publication
    <3>3. CASE QueueSendFails(p)
      BY <2>2, <3>1, <3>3 DEF QueueSendFails, Typed, PubTyped, Publication
    <3>4. CASE PublisherStops(p)
      BY <3>4 DEF PublisherStops, Typed, PubTyped, Idle
    <3>5. QED
      BY <1>4, <3>2, <3>3, <3>4
  <2>5. PublishedExists'
    BY <1>1, <2>1, <2>2, <2>4 DEF Carriage, PublishedExists
  <2>6. \A i \in Notes : Queued(i)' =>
          Queued(i) \/ (i = n /\ QueueSend(p) /\ status[n] \in Unpublished)
    BY <1>1, <2>1, <2>4 DEF Queued
  <2>7. \A i \in Notes : Queued(i)' => Queued(i) \/ Carried(i)'
    BY <2>2, <2>6, QueueSendCarries
  <2>8. QED
    BY <1>1, <2>3, <2>5, <2>7, SentCarriage
<1>5. QED
  BY <1>3, <1>4 DEF PublisherSteps

LEMMA RecordCarriage ==
  ASSUME Typed, MarkFits, Carriage, NEW p \in Publishers, PublishRecord(p)
  PROVE  Carriage'
<1>1. RowMoves /\ Still /\ work' = work
  BY RecordTypes
<1>2. pub[p] # Idle /\ pub[p].note \in Notes
  BY DEF PublishRecord, Idle, Typed, PubTyped, Publication
<1>3. PICK n \in Notes : n = pub[p].note
  BY <1>2
<1>4. /\ \/ /\ status[n] \in Unpublished /\ pub[p].at = "sent"
            /\ status' = [status EXCEPT ![n] = "QUEUED"]
         \/ /\ status[n] \in Unpublished
            /\ status' = [status EXCEPT ![n] = "RETRY_PENDING"]
         \/ status' = status
      /\ pub'[p] = Idle /\ \A q \in Publishers : q # p => pub'[q] = pub[q]
  BY <1>3 DEF PublishRecord, SetRow, rowVars, Unpublished, Typed, PubTyped
<1>5. \A i \in Notes : Queued(i)' => Queued(i)
  BY <1>3, <1>4 DEF Queued, Idle, Unpublished, Typed, RowTyped
<1>6. PublishedExists'
  BY <1>4 DEF Carriage, PublishedExists, Unpublished, Typed, RowTyped, PubTyped, Publication
<1>7. WorkersAlike
  BY <1>1 DEF WorkersAlike, Alike
<1>8. QED
  BY <1>1, <1>5, <1>6, <1>7, RowCarriage

\* A row is opened again only when its former publication has ended: a message
\* that publication sent may be gone already.
LEMMA RowStepCarriage ==
  ASSUME MayOverrun = FALSE, Typed, MarkFits, Carriage, RowSteps
  PROVE  Carriage'
<1>1. RowMoves /\ Still /\ work' = work
  BY RowStepTypes, RestStill DEF Typed
<1>2. WorkersAlike
  BY <1>1 DEF WorkersAlike, Alike
<1>3. RowTyped /\ PubTyped
  BY DEF Typed
<1>4. ASSUME NEW n \in Notes, Request(n) \/ \E p \in Publishers : StaffRetry(p, n)
      PROVE  PublishedExists' /\ \A i \in Notes : Queued(i)' => Queued(i)
  <2>1. status' = [status EXCEPT ![n] = "PENDING"]
    BY <1>4 DEF Request, StaffRetry, SetRow
  <2>2. \A p \in Publishers : pub[p] # Idle => pub[p].note # n
    BY <1>4 DEF Request, StaffRetry, Publishing, Retryable, Carriage, PublishedExists
  <2>3. \A p \in Publishers :
          pub'[p] = pub[p] \/ (pub'[p].at = "send" /\ pub'[p].note = n)
    <3>1. CASE Request(n)
      BY <3>1 DEF Request
    <3>2. ASSUME NEW q \in Publishers, StaffRetry(q, n), NEW p \in Publishers
          PROVE  pub'[p] = pub[p] \/ (pub'[p].at = "send" /\ pub'[p].note = n)
      BY <1>3, <3>2 DEF StaffRetry, PubTyped
    <3>3. QED
      BY <1>4, <3>1, <3>2
  <2>4. PublishedExists'
    BY <1>3, <2>1, <2>3 DEF Carriage, PublishedExists, RowTyped, PubTyped, Publication
  <2>5. Idle.at # "sent"
    BY DEF Idle
  <2>6. \A i \in Notes : Queued(i)' => Queued(i)
    BY <1>3, <2>1, <2>2, <2>3, <2>5 DEF Queued, RowTyped
  <2>7. QED
    BY <2>4, <2>6
<1>5. ASSUME NEW n \in Notes,
             FailStale(n) \/ \E s \in {"SUPPRESSED", "CANCELLED"} : StaffClose(n, s)
      PROVE  PublishedExists' /\ \A i \in Notes : Queued(i)' => Queued(i)
  <2>1. /\ pub' = pub
        /\ \A i \in Notes :
             status'[i] = status[i] \/ status'[i] \in {"FAILED", "SUPPRESSED", "CANCELLED"}
    BY <1>3, <1>5 DEF FailStale, FailAmbiguous, StaffClose, SetRow, RowTyped, rowVars
  <2>2. PublishedExists'
    BY <1>3, <2>1 DEF Carriage, PublishedExists, PubTyped, Publication
  <2>3. \A i \in Notes : Queued(i)' => Queued(i)
    BY <2>1 DEF Queued, Unpublished
  <2>4. QED
    BY <2>2, <2>3
<1>6. PublishedExists' /\ \A i \in Notes : Queued(i)' => Queued(i)
  BY <1>4, <1>5 DEF RowSteps
<1>7. QED
  BY <1>1, <1>2, <1>6, RowCarriage

LEMMA ContactCarriage ==
  ASSUME Typed, MarkFits, Carriage, ContactSteps
  PROVE  Carriage'
<1>1. (RowMoves \/ Erased) /\ WorkersAlike /\ Still /\ pub' = pub
  BY ContactTypes, RestStill DEF Typed
<1>2. ASSUME NEW c, NEW s \in {"CANCELLED", "SUPPRESSED"}, CloseWaiting(c, s), NEW i \in Notes
      PROVE  status'[i] = status[i] \/ status'[i] = s
  BY <1>2 DEF CloseWaiting
<1>3. \A i \in Notes :
        status'[i] = status[i] \/ status'[i] \in {"CANCELLED", "SUPPRESSED", "GONE"}
  BY <1>2
  DEF ContactSteps, OptOut, OptIn, ChangeAddress, UnsubscribeBegin, UnsubscribeCommit,
      DeleteRegistration, FactChanges, rowVars
<1>4. PublishedExists'
  BY <1>1, <1>3 DEF Carriage, PublishedExists, Typed, PubTyped, Publication
<1>5. \A i \in Notes : Queued(i)' => Queued(i)
  BY <1>1, <1>3 DEF Queued, Unpublished
<1>6. QED
  BY <1>1, <1>4, <1>5, RowCarriage

\* Where the rows and the publications stay, so does what waits.
LEMMA SameQueued ==
  ASSUME RowsKept, pub' = pub
  PROVE  /\ \A n \in Notes : Queued(n)' = Queued(n) /\ Reopenable(n)' = Reopenable(n)
         /\ PublishedExists => PublishedExists'
BY DEF RowsKept, Queued, Reopenable, PublishedExists

LEMMA TimeCarriage ==
  ASSUME Typed, Carriage, TimeSteps
  PROVE  Carriage'
<1>1. Still /\ RowsKept /\ UNCHANGED <<work, pub>>
  BY TimeTypes
<1>2. \A v \in Workers : SameHold(v)
  BY <1>1 DEF SameHold
<1>3. QED
  BY <1>1, <1>2, SameQueued, StillCarriage DEF Carriage

\* An invocation goes on.
LEMMA MovedCarriage ==
  ASSUME Typed, Typed', Carriage, NEW w \in Workers, NEW step, Moved(w, step),
         step # "ambiguous", work[w].at # "idle", work[w].at # "ambiguous",
         UNCHANGED queueVars,
         \A n \in Notes : Reopenable(n)' => Reopenable(n),
         \A n \in Notes : Queued(n)' => Queued(n), PublishedExists'
  PROVE  Carriage'
<1>1. Still
  BY DEF Still, queueVars, Typed
<1>2. \A v \in Workers : SameHold(v)
  BY JobOf DEF SameHold, Moved, Kept, Typed
<1>3. QED
  BY <1>1, <1>2, StillCarriage

LEMMA ClaimCarriage ==
  ASSUME Typed, Carriage, NEW w \in Workers, Claim(w)
  PROVE  Carriage'
<1>1. /\ Typed' /\ work[w].at = "claim" /\ Note(w) \in Notes /\ Copy(w) \in Copies
      /\ pub' = pub
      /\ \/ /\ status[Note(w)] \in Sendable /\ Moved(w, "reload")
            /\ status' = [status EXCEPT ![Note(w)] = "SENDING"]
            /\ claim' = [claim EXCEPT ![Note(w)] = w]
            /\ UNCHANGED <<mark, queueVars>>
         \/ RowsKept /\ Rests(w) /\ Retries(Note(w), Copy(w))
  BY ClaimTypes
<1>2. PICK n \in Notes, k \in Copies : n = Note(w) /\ k = Copy(w)
  BY <1>1
<1>3. CASE /\ Moved(w, "reload") /\ status' = [status EXCEPT ![n] = "SENDING"]
           /\ UNCHANGED <<mark, queueVars>>
  <2>1. \A i \in Notes : status'[i] = status[i] \/ status'[i] = "SENDING"
    BY <1>3 DEF Typed, RowTyped
  <2>2. \A i \in Notes : Reopenable(i)' => Reopenable(i)
    BY <1>3, <2>1 DEF Reopenable, Sendable
  <2>3. \A i \in Notes : Queued(i)' => Queued(i)
    BY <1>1, <2>1 DEF Queued, Unpublished
  <2>4. PublishedExists'
    BY <1>1, <2>1 DEF Carriage, PublishedExists, Typed, PubTyped, Publication
  <2>5. QED
    BY <1>1, <1>3, <2>2, <2>3, <2>4, MovedCarriage
<1>4. CASE RowsKept /\ Rests(w) /\ Retries(n, k)
  <2>1. work[w] # Idle
    BY <1>1 DEF Idle
  <2>2. UNCHANGED <<status, mark>>
    BY <1>4 DEF RowsKept
  <2>3. QED
    BY <1>1, <1>2, <1>4, <2>1, <2>2, RestCarriage
<1>5. QED
  BY <1>1, <1>2, <1>3, <1>4

LEMMA WalkCarriage ==
  ASSUME Typed, JobFits, Carriage, NEW w \in Workers, Looks(w) \/ Submit(w)
  PROVE  Carriage'
<1>1. Typed' /\ RowsKept /\ UNCHANGED <<queueVars, pub>>
  BY LooksTypes, SubmitTypes DEF Outside, RowsKept, rowVars
<1>2. /\ work[w].at # "idle" /\ work[w].at # "ambiguous"
      /\ \E step \in Holding : Moved(w, step)
  BY LooksTypes, SubmitTypes DEF Walk, Submits, Unsubmitted, Holding
<1>3. QED
  BY <1>1, <1>2, SameQueued, MovedCarriage DEF Holding, Unsubmitted, Carriage

LEMMA EndsCarriage ==
  ASSUME Typed, Delivery, Carriage, NEW w \in Workers, Ends(w)
  PROVE  Carriage'
<1>1. EndsAs(w) /\ Rests(w) /\ pub' = pub
  BY EndsTypes DEF Delivery
<1>2. /\ work[w].at \in Holding /\ Note(w) \in Notes /\ Copy(w) \in Copies
  BY <1>1 DEF EndsAs
<1>3. PICK n \in Notes, k \in Copies : n = Note(w) /\ k = Copy(w)
  BY <1>2
<1>4. work[w] # Idle
  BY <1>2 DEF Idle, Holding, Unsubmitted
<1>5. PICK s \in Status, m \in Marks :
        /\ Outcome(w, s, m)
        /\ IF Owns(w) THEN RowAs(n, s, m) ELSE RowsKept
        /\ Retries(n, k) \/ (s # "QUEUED" /\ Ack(n, k))
  BY <1>1, <1>3 DEF EndsAs
<1>6. s \notin Unpublished /\ s # "NONE"
  BY <1>5 DEF Outcome, Unpublished
<1>7. CASE Owns(w)
  <2>1. /\ \A i \in Notes : i # n => status'[i] = status[i] /\ mark'[i] = mark[i]
        /\ status'[n] = s
    BY <1>5, <1>7 DEF RowAs, Only
  <2>2. Queued(n)' => Retries(n, k)
    BY <1>5, <1>6, <2>1 DEF Queued
  <2>3. QED
    BY <1>1, <1>3, <1>4, <1>5, <1>6, <2>1, <2>2, RestCarriage
<1>8. CASE ~Owns(w)
  <2>1. Doubtful(n) \/ status[n] = "GONE"
    BY <1>2, <1>3, <1>8 DEF Delivery, HolderOwns, Note
  <2>2. UNCHANGED <<status, mark>>
    BY <1>5, <1>8 DEF RowsKept
  <2>3. ~Queued(n)'
    BY <2>1, <2>2 DEF Doubtful, Queued, Unpublished
  <2>4. QED
    BY <1>1, <1>3, <1>4, <1>5, <2>2, <2>3, RestCarriage
<1>9. QED
  BY <1>7, <1>8

LEMMA LeavesCarriage ==
  ASSUME Typed, Delivery, Carriage, NEW w \in Workers,
         WalksAway(w) \/ GiveUpStale(w) \/ WorkerStops(w)
  PROVE  Carriage'
<1>1. /\ Rests(w) /\ pub' = pub /\ work[w] # Idle /\ Note(w) \in Notes /\ Copy(w) \in Copies
      /\ \/ /\ work[w].at = "owner" /\ ~Owns(w) /\ RowsKept
            /\ Ack(Note(w), Copy(w))
         \/ /\ work[w].at = "ambiguous" /\ Ack(Note(w), Copy(w))
            /\ \/ status[Note(w)] = "SENDING" /\ RowAs(Note(w), "FAILED", "unknown")
               \/ RowsKept
         \/ RowsKept /\ Retries(Note(w), Copy(w))
  BY LeavesTypes
<1>2. PICK n \in Notes, k \in Copies : n = Note(w) /\ k = Copy(w)
  BY <1>1
<1>3. CASE work[w].at = "owner" /\ ~Owns(w) /\ RowsKept /\ Ack(n, k)
  <2>1. Doubtful(n) \/ status[n] = "GONE"
    BY <1>2, <1>3 DEF Delivery, HolderOwns, Holding, Unsubmitted, Note
  <2>2. UNCHANGED <<status, mark>>
    BY <1>3 DEF RowsKept
  <2>3. ~Queued(n)'
    BY <2>1, <2>2 DEF Doubtful, Queued, Unpublished
  <2>4. QED
    BY <1>1, <1>2, <1>3, <2>2, <2>3, RestCarriage
<1>4. CASE work[w].at = "ambiguous" /\ Ack(n, k) /\ RowAs(n, "FAILED", "unknown")
  <2>1. /\ \A i \in Notes : i # n => status'[i] = status[i] /\ mark'[i] = mark[i]
        /\ status'[n] = "FAILED"
    BY <1>4 DEF RowAs, Only
  <2>2. ~Queued(n)'
    BY <2>1 DEF Queued, Unpublished
  <2>3. QED
    BY <1>1, <1>2, <1>4, <2>1, <2>2, RestCarriage
<1>5. CASE RowsKept /\ (Retries(n, k) \/ (work[w].at = "ambiguous" /\ Ack(n, k)))
  <2>1. UNCHANGED <<status, mark>>
    BY <1>5 DEF RowsKept
  <2>2. Queued(n)' = Queued(n)
    BY <1>1, <1>5, SameQueued
  <2>3. QED
    BY <1>1, <1>2, <1>5, <2>1, <2>2, RestCarriage
<1>6. QED
  BY <1>1, <1>2, <1>3, <1>4, <1>5

LEMMA CarriageStep ==
  ASSUME MayOverrun = FALSE, Typed, Delivery, Carriage, [Next]_vars
  PROVE  Carriage'
<1>1. MarkFits /\ JobFits
  BY DEF Delivery
<1>2. CASE UNCHANGED vars
  <2>1. Still
    BY <1>2 DEF vars, queueVars, Still, Typed, QueueTyped
  <2>2. RowsKept /\ pub' = pub /\ \A v \in Workers : SameHold(v)
    BY <1>2 DEF vars, rowVars, RowsKept, SameHold
  <2>3. QED
    BY <2>1, <2>2, SameQueued, StillCarriage DEF Carriage
<1>3. QED
  BY <1>1, <1>2, StepCases, PublisherCarriage, RecordCarriage, RowStepCarriage,
     TimeCarriage, ContactCarriage, DeliverCarriage, ClaimCarriage, WalkCarriage,
     EndsCarriage, LeavesCarriage

LEMMA InitCarriage == Init => Carriage
<1> SUFFICES ASSUME Init PROVE Carriage
  OBVIOUS
<1>1. /\ \A w \in Workers : work[w] = Idle /\ work[w].at = "idle"
      /\ \A p \in Publishers : pub[p] = Idle /\ pub[p].at = "idle"
  BY DEF Init, Idle
<1>2. MailFits /\ HoldsMessage /\ OneEach /\ PublishedExists
  BY <1>1 DEF Init, MailFits, HoldsMessage, OneEach, PublishedExists
<1>3. Room
  BY <1>1, OutboxAssumption DEF Room, Doomed
<1>4. CarriedOnceSent
  BY <1>1 DEF Init, CarriedOnceSent, Queued
<1>5. QED
  BY <1>2, <1>3, <1>4 DEF Carriage

\* A row that waits in the queue is carried by one of its messages, or was given
\* up to the dead-letter queue: each message that is acknowledged leaves a row
\* that is closed, or another message.
THEOREM QueuedIsCarriedHolds ==
  ASSUME MayOverrun = FALSE
  PROVE  Spec => []QueuedIsCarried
<1>1. Typed /\ Delivery /\ Carriage /\ [Next]_vars => Carriage'
  BY CarriageStep
<1>2. Carriage => QueuedIsCarried
  BY MessageType DEF Carriage, CarriedOnceSent, Queued, Carried, Filled, QueuedIsCarried
<1>3. QED
  BY <1>1, <1>2, InitCarriage, DeliveryInvariant, PTL DEF Spec
=============================================================================
