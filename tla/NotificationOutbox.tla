-------------------------- MODULE NotificationOutbox --------------------------
(* The participant notifications of one registration: durable rows written   *)
(* with the race command they report, a queue that carries only their ids, a *)
(* consumer that claims a row, checks it twice and hands it to the provider, *)
(* and a dispatcher that runs once a minute.                                 *)
(*                                                                           *)
(* The queue delivers at least once and late, an invocation may stop between *)
(* any two of its calls, and the provider's answer may be lost after it has  *)
(* accepted the message.  The provider knows no idempotency key.             *)
EXTENDS Integers, FiniteSets

CONSTANTS
  Notes,         \* rows of email_notifications, one per participant fact
  Upcoming,      \* those of type HEAT_UPCOMING
  Channel,       \* the channel of each row, "EMAIL" or "SMS"
  Addresses,     \* destinations the participant may give
  FirstAddress,  \* the one given at registration
  NoAddress,     \* none of them
  Workers,       \* bound: queue consumer invocations at a time, numbered
  Nobody,        \* none of them
  Publishers,    \* dispatcher and post-commit publications
  Copies,        \* bound: queue messages that carry one id at a time
  FinalAttempt,  \* a temporary failure at this delivery attempt is final (5)
  MaxDeliveries, \* deliveries before the dead-letter queue (1 + max_retries)
  MaxFaults,     \* bound: invocations that stop half way, publications lost
  MaxChanges,    \* bound: changes by participants, staff and the race
  MayOverrun     \* bound: may a closed row be opened again before its former
                 \* publication has ended?

\* The channels in use; the unsubscribe link is an email's.
Channels == {"EMAIL"} \cup {Channel[n] : n \in Notes}

ASSUME OutboxAssumption ==
  /\ Upcoming \subseteq Notes
  /\ Channel \in [Notes -> {"EMAIL", "SMS"}]
  /\ FirstAddress \in Addresses /\ NoAddress \notin Addresses
  /\ Workers \subseteq Nat /\ Nobody \notin Workers /\ Copies # {}
  /\ FinalAttempt \in Nat /\ MaxDeliveries \in Nat /\ MaxFaults \in Nat
  /\ MaxChanges \in Nat
  /\ 0 < FinalAttempt /\ FinalAttempt <= MaxDeliveries
  /\ MayOverrun \in BOOLEAN

VARIABLES
  status,     \* email_notifications.status; "NONE" before, "GONE" after the row
  mark,       \* why it was closed, as far as the code asks: "not_next" is the
              \* reason HEAT_NO_LONGER_NEXT, "unknown" DELIVERY_OUTCOME_UNKNOWN
  claim,      \* delivery_claim_token: the invocation that owns the delivery
  old,        \* did the claim pass two minutes (sending_started_at)?
  deferred,   \* does retry_after lie in the future?
  fact,       \* does what the row reports still hold?
  allowed,    \* consent per channel, with the event's SMS switch
  address,    \* the registration's current contact per channel
  suppressed, \* notification_suppressions: <<channel, destination>>
  unsub,      \* the address of an unsubscribe request in flight
  mail,       \* queue messages per row: deliveries so far, and the retry delay
  dead,       \* rows with a message in the dead-letter queue
  work,       \* what each consumer invocation is doing
  pub,        \* what each publication is doing
  got,        \* provider acceptances of the row
  faults,     \* faults so far
  changes     \* changes so far

rowVars     == <<status, mark, claim, old, deferred>>
contactVars == <<fact, allowed, address, suppressed, unsub>>
queueVars   == <<mail, dead>>
vars == <<rowVars, contactVars, queueVars, work, pub, got, faults, changes>>

-----------------------------------------------------------------------------
\* Statuses a consumer may claim, and those the other commands may close.
Sendable == {"PENDING", "QUEUED", "RETRY_PENDING"}
\* Mutant: the dispatcher forgets the publications that failed.
Unpublished_PendingOnly == {"PENDING"}
Unpublished == {"PENDING", "RETRY_PENDING"}
Open == Sendable \cup {"SENDING"}
Closed == {"SENT", "CANCELLED", "SUPPRESSED", "FAILED"}
Status == Open \cup Closed \cup {"NONE", "GONE"}

NoMessage == [try |-> 0, wait |-> "no"]
Message == [try : 0..MaxDeliveries, wait : {"no", "behind", "free"}]

Idle == [at |-> "idle"]
Steps == {"ambiguous", "claim", "reload", "local", "provider", "again", "local2",
          "owner", "submit", "record", "cancel", "suppress", "fail"}
Why == {"none", "not_next", "unknown", "permanent", "temporary"}
Job == [at : Steps, note : Notes, copy : Copies,
        dest : Addresses \cup {NoAddress}, why : Why,
        seen : Workers \cup {Nobody}, late : BOOLEAN]
Publication == [at : {"send", "sent", "failed"}, note : Notes,
                by : {"dispatcher", "staff"}]

\* validationFailure: consent, and what the row reports (assignment, heat,
\* official result) must still hold.
Valid(n) == fact[n] = "holds" /\ allowed[Channel[n]]
Reason(n) == IF allowed[Channel[n]] /\ fact[n] = "not_next" THEN "not_next"
                                                            ELSE "none"

Owns(w) == /\ status[work[w].note] = "SENDING"
           /\ claim[work[w].note] = w

At(w, step) == work[w].at = step
Goto(w, step) == work' = [work EXCEPT ![w].at = step]
Leave(w, step) == work' = [work EXCEPT ![w].at = step, ![w].dest = NoAddress,
                                       ![w].late = FALSE]
GotoWhy(w, step, why) == work' = [work EXCEPT ![w].at = step, ![w].why = why,
                                     ![w].dest = NoAddress, ![w].late = FALSE]

\* A change of consent, contact or facts reaches some invocations after their
\* last look at the row, a suppression after their last look at those.
PastLookup == {"owner", "submit"}
PastReload == {"local2"} \cup PastLookup
LateAt(S, steps) ==
  [w \in Workers |-> IF work[w] # Idle /\ work[w].at \in steps /\ work[w].note \in S
                     THEN [work[w] EXCEPT !.late = TRUE] ELSE work[w]]
Late(S) == LateAt(S, PastReload)
InChannel(c) == {n \in Notes : Channel[n] = c}

\* The delay of a message outlasts the deferral that it was set behind, and may
\* run out before one that is set, or set anew, later.
Freed(n) ==
  [mail EXCEPT ![n] = [k \in Copies |->
     IF mail[n][k].wait = "behind" THEN [mail[n][k] EXCEPT !.wait = "free"]
     ELSE mail[n][k]]]

\* message.ack and message.retry.  A retry that has used all deliveries goes
\* to the dead-letter queue.
Ack(n, k) == /\ mail' = [mail EXCEPT ![n][k] = NoMessage]
             /\ UNCHANGED dead
\* Mutants: there is no last delivery; the message is not put back.
Retry_Unbounded(m, n, k) ==
  /\ mail' = [m EXCEPT ![n][k] = [try |-> @.try + 1, wait |-> "behind"]]
  /\ UNCHANGED dead
Retry_Dropped(m, n, k) ==
  /\ mail' = [m EXCEPT ![n][k] = NoMessage]
  /\ UNCHANGED dead
Retry(m, n, k) ==
  IF m[n][k].try < MaxDeliveries
  THEN /\ mail' = [m EXCEPT ![n][k] = [try |-> @.try + 1, wait |-> "behind"]]
       /\ UNCHANGED dead
  ELSE /\ mail' = [m EXCEPT ![n][k] = NoMessage]
       /\ dead' = dead \cup {n}

\* The row leaves SENDING (or a waiting status) with its claim cleared.
SetRow(n, s, m, d) ==
  /\ status' = [status EXCEPT ![n] = s]
  /\ mark' = [mark EXCEPT ![n] = m]
  /\ claim' = [claim EXCEPT ![n] = Nobody]
  /\ old' = [old EXCEPT ![n] = FALSE]
  /\ deferred' = [deferred EXCEPT ![n] = d]

-----------------------------------------------------------------------------
Init ==
  /\ status = [n \in Notes |-> "NONE"]
  /\ mark = [n \in Notes |-> "none"]
  /\ claim = [n \in Notes |-> Nobody]
  /\ old = [n \in Notes |-> FALSE]
  /\ deferred = [n \in Notes |-> FALSE]
  /\ fact = [n \in Notes |-> "holds"]
  /\ allowed = [c \in Channels |-> TRUE]
  /\ address = [c \in Channels |-> FirstAddress]
  /\ suppressed = {}
  /\ unsub = NoAddress
  /\ mail = [n \in Notes |-> [k \in Copies |-> NoMessage]]
  /\ dead = {}
  /\ work = [w \in Workers |-> Idle]
  /\ pub = [p \in Publishers |-> Idle]
  /\ got = [n \in Notes |-> 0]
  /\ faults = 0
  /\ changes = 0

-----------------------------------------------------------------------------
(* The race command and the dispatcher.                                      *)

Publishing(n) == \E p \in Publishers : pub[p] # Idle /\ pub[p].note = n

\* participantNotificationStatements: the insert is part of the race command's
\* batch; a repeated request finds the row, and only a reminder cancelled
\* because its heat was not next is opened again.
Request(n) ==
  /\ Valid(n)
  /\ \/ status[n] = "NONE"
     \/ /\ n \in Upcoming /\ status[n] = "CANCELLED" /\ mark[n] = "not_next"
        /\ ~MayOverrun => ~Publishing(n)
  /\ SetRow(n, "PENDING", "none", FALSE)
  /\ UNCHANGED <<contactVars, queueVars, work, pub, got, faults, changes>>

\* publishEmailNotification, in three steps: read the row, send the id, record.
PublishBegin(p, n) ==
  /\ pub[p] = Idle
  /\ status[n] \in Unpublished /\ ~deferred[n]
  /\ pub' = [pub EXCEPT ![p] = [at |-> "send", note |-> n, by |-> "dispatcher"]]
  /\ UNCHANGED <<rowVars, contactVars, queueVars, work, got, faults, changes>>

\* A message enters the queue, if the bound on copies leaves room.
Enqueued(n) ==
  IF \E k \in Copies : mail[n][k] = NoMessage
  THEN LET k == CHOOSE k \in Copies : mail[n][k] = NoMessage
       IN [mail EXCEPT ![n][k] = [try |-> 1, wait |-> "no"]]
  ELSE mail

QueueSend(p) ==
  /\ pub[p].at = "send"
  /\ mail' = Enqueued(pub[p].note)
  /\ pub' = [pub EXCEPT ![p].at = "sent"]
  /\ UNCHANGED <<rowVars, contactVars, dead, work, got, faults, changes>>

\* The send fails or its deadline passes; the message may be in the queue.
QueueSendFails(p) ==
  /\ pub[p].at = "send" /\ faults < MaxFaults
  /\ mail' \in {mail, Enqueued(pub[p].note)}
  /\ pub' = [pub EXCEPT ![p].at = "failed"]
  /\ faults' = faults + 1
  /\ UNCHANGED <<rowVars, contactVars, dead, work, got, changes>>

PublishRecord(p) ==
  /\ pub[p].at \in {"sent", "failed"}
  /\ LET n == pub[p].note
         defers == /\ pub[p].at = "failed" /\ pub[p].by = "dispatcher"
                   /\ status[n] \in Unpublished
     IN
     /\ IF pub[p].at = "sent" /\ status[n] \in Unpublished
        THEN SetRow(n, "QUEUED", "none", FALSE)
        ELSE IF defers THEN SetRow(n, "RETRY_PENDING", "none", TRUE)
        ELSE IF pub[p].at = "failed" /\ pub[p].by = "staff" /\ status[n] = "PENDING"
        THEN SetRow(n, "RETRY_PENDING", "none", FALSE)
        ELSE UNCHANGED rowVars
     /\ mail' = IF defers THEN Freed(n) ELSE mail
  /\ pub' = [pub EXCEPT ![p] = Idle]
  /\ UNCHANGED <<contactVars, dead, work, got, faults, changes>>

PublisherStops(p) ==
  /\ pub[p] # Idle /\ faults < MaxFaults
  /\ pub' = [pub EXCEPT ![p] = Idle]
  /\ faults' = faults + 1
  /\ UNCHANGED <<rowVars, contactVars, queueVars, work, got, changes>>

\* Mutant: a claim that went stale is put back into the queue's care.
FailAmbiguous_Requeue(n, owner) ==
  IF status[n] = "SENDING" /\ claim[n] = owner
  THEN SetRow(n, "RETRY_PENDING", "none", FALSE) ELSE UNCHANGED rowVars
\* failAmbiguousDelivery, for the claim that was seen.
FailAmbiguous(n, owner) ==
  IF status[n] = "SENDING" /\ claim[n] = owner
  THEN SetRow(n, "FAILED", "unknown", FALSE) ELSE UNCHANGED rowVars

\* The dispatcher's first half.
FailStale(n) ==
  /\ status[n] = "SENDING" /\ old[n]
  /\ FailAmbiguous(n, claim[n])
  /\ UNCHANGED <<contactVars, queueVars, work, pub, got, faults, changes>>

-----------------------------------------------------------------------------
(* The consumer, one action per call it waits for.                           *)

\* A message is handed over, and the row's claim columns are read.  The queue
\* waits for the answer to a delivery (or its failure) before the next one;
\* duplicates come from ids that were published more than once.
Deliver(w, n, k) ==
  /\ work[w] = Idle /\ \A v \in Workers : v < w => work[v] # Idle
  /\ mail[n][k].try > 0 /\ mail[n][k].wait = "no"
  /\ \A v \in Workers : work[v] # Idle => work[v].note # n \/ work[v].copy # k
  /\ LET job(step) == [at |-> step, note |-> n, copy |-> k, dest |-> NoAddress,
                       why |-> "none", seen |-> claim[n], late |-> FALSE]
     IN
     \/ /\ status[n] \in Sendable /\ ~deferred[n]
        /\ work' = [work EXCEPT ![w] = job("claim")]
        /\ UNCHANGED queueVars
     \/ /\ status[n] = "SENDING" /\ old[n]
        /\ work' = [work EXCEPT ![w] = job("ambiguous")]
        /\ UNCHANGED queueVars
     \/ /\ \/ status[n] = "SENDING" /\ ~old[n]
           \/ status[n] \in Sendable /\ deferred[n]
        /\ Retry(mail, n, k) /\ UNCHANGED work
     \/ /\ status[n] \notin Open
        /\ Ack(n, k) /\ UNCHANGED work
  /\ UNCHANGED <<rowVars, contactVars, pub, got, faults, changes>>

\* The claim: one batch, guarded by the status and the retry time.
Claim(w) ==
  /\ At(w, "claim")
  /\ LET n == work[w].note IN
     IF status[n] \in Sendable /\ ~deferred[n]
     THEN /\ status' = [status EXCEPT ![n] = "SENDING"]
          /\ claim' = [claim EXCEPT ![n] = w]
          /\ old' = [old EXCEPT ![n] = FALSE]
          /\ Goto(w, "reload")
          /\ UNCHANGED <<mark, deferred, queueVars>>
     ELSE /\ work' = [work EXCEPT ![w] = Idle]
          /\ Retry(mail, n, work[w].copy)
          /\ UNCHANGED rowVars
  /\ UNCHANGED <<contactVars, pub, got, faults, changes>>

\* Mutant: the address is not compared.
SameAddress_Any(w, a) == TRUE
Checked(w) == status[work[w].note] # "GONE" /\ Valid(work[w].note)
SameAddress(w, a) == a = work[w].dest

\* First reload: the destination to check is the current one.
Reload(w) ==
  /\ At(w, "reload")
  /\ LET n == work[w].note IN
     IF Checked(w)
     THEN work' = [work EXCEPT ![w].at = "local",
                               ![w].dest = address[Channel[n]]]
     ELSE GotoWhy(w, "cancel", Reason(n))
  /\ UNCHANGED <<rowVars, contactVars, queueVars, pub, got, faults, changes>>

LocallySuppressed(w) == <<Channel[work[w].note], work[w].dest>> \in suppressed

LocalCheck(w, step, next) ==
  /\ At(w, step)
  /\ Goto(w, IF LocallySuppressed(w) THEN "suppress" ELSE next)
  /\ UNCHANGED <<rowVars, contactVars, queueVars, pub, got, faults, changes>>

\* isEmailSuppressedBySes, isSmsOptedOutByAws: suppressed, clear, or no answer.
ProviderCheck(w) ==
  /\ At(w, "provider")
  /\ \/ Goto(w, "suppress")
     \/ Goto(w, "again")
     \/ \E why \in {"temporary", "permanent"} : GotoWhy(w, "fail", why)
  /\ UNCHANGED <<rowVars, contactVars, queueVars, pub, got, faults, changes>>

\* Second reload: a changed address was not checked, so it is not used.
ReloadAgain(w) ==
  /\ At(w, "again")
  /\ LET n == work[w].note IN
     IF Checked(w) /\ SameAddress(w, address[Channel[n]])
     THEN Goto(w, "local2")
     ELSE GotoWhy(w, "cancel", Reason(n))
  /\ UNCHANGED <<rowVars, contactVars, queueVars, pub, got, faults, changes>>

\* The claim is looked at once more; an invocation that lost it walks away.
CheckOwner(w) ==
  /\ At(w, "owner")
  /\ IF Owns(w)
     THEN Goto(w, "submit") /\ UNCHANGED queueVars
     ELSE /\ work' = [work EXCEPT ![w] = Idle]
          /\ Ack(work[w].note, work[w].copy)
  /\ UNCHANGED <<rowVars, contactVars, pub, got, faults, changes>>

\* Mutant: an answer that was lost counts as a temporary failure.
AnswerLost_Temporary == "temporary"
AnswerLost == "unknown"

\* sendEmailWithSes, sendSmsWithAws.
Submit(w) ==
  /\ At(w, "submit")
  /\ LET n == work[w].note IN
     \/ /\ Leave(w, "record")                             \* accepted
        /\ got' = [got EXCEPT ![n] = @ + 1]
     \/ /\ GotoWhy(w, "fail", AnswerLost)                \* no answer
        /\ got' \in {got, [got EXCEPT ![n] = @ + 1]}
     \/ /\ \E why \in {"temporary", "permanent"} :       \* refused
             GotoWhy(w, "fail", why)
        /\ UNCHANGED got
  /\ UNCHANGED <<rowVars, contactVars, queueVars, pub, faults, changes>>

\* The outcome batch touches the row only while the claim stands.
Finish(w, s, m, d) ==
  IF Owns(w) THEN SetRow(work[w].note, s, m, d) ELSE UNCHANGED rowVars

RecordSent(w) ==
  /\ At(w, "record")
  /\ Finish(w, "SENT", "none", FALSE)
  /\ Ack(work[w].note, work[w].copy)
  /\ work' = [work EXCEPT ![w] = Idle]
  /\ UNCHANGED <<contactVars, pub, got, faults, changes>>

CancelClaimed(w) ==
  /\ At(w, "cancel")
  /\ Finish(w, "CANCELLED", work[w].why, FALSE)
  /\ Ack(work[w].note, work[w].copy)
  /\ work' = [work EXCEPT ![w] = Idle]
  /\ UNCHANGED <<contactVars, pub, got, faults, changes>>

SuppressClaimed(w) ==
  /\ At(w, "suppress")
  /\ Finish(w, "SUPPRESSED", "none", FALSE)
  /\ suppressed' = suppressed \cup {<<Channel[work[w].note], work[w].dest>>}
  /\ Ack(work[w].note, work[w].copy)
  /\ work' = [LateAt(InChannel(Channel[work[w].note]), PastLookup) EXCEPT ![w] = Idle]
  /\ UNCHANGED <<fact, allowed, address, unsub, pub, got, faults, changes>>

IsFinal(try) == try >= FinalAttempt

\* A failure is final, or the row waits a minute for the message's next
\* delivery.
FailClaimed(w) ==
  /\ At(w, "fail")
  /\ LET job == work[w]
         again == job.why = "temporary" /\ ~IsFinal(mail[job.note][job.copy].try)
     IN
     /\ IF again
        THEN /\ Finish(w, "QUEUED", "none", TRUE)
             /\ Retry(IF Owns(w) THEN Freed(job.note) ELSE mail, job.note, job.copy)
        ELSE /\ Finish(w, "FAILED",
                       IF job.why = "unknown" THEN "unknown" ELSE "none", FALSE)
             /\ Ack(job.note, job.copy)
  /\ work' = [work EXCEPT ![w] = Idle]
  /\ UNCHANGED <<contactVars, pub, got, faults, changes>>

GiveUpStale(w) ==
  /\ At(w, "ambiguous")
  /\ FailAmbiguous(work[w].note, work[w].seen)
  /\ Ack(work[w].note, work[w].copy)
  /\ work' = [work EXCEPT ![w] = Idle]
  /\ UNCHANGED <<contactVars, pub, got, faults, changes>>

\* From the provider's suppression list on a failed call to the database is a
\* failure of the delivery, of unknown outcome although nothing was submitted.
InTry == {"provider", "again", "local2", "owner"}
CallFails(w) ==
  /\ work[w].at \in InTry /\ faults < MaxFaults
  /\ GotoWhy(w, "fail", "unknown")
  /\ faults' = faults + 1
  /\ UNCHANGED <<rowVars, contactVars, queueVars, pub, got, changes>>

\* Another call fails or the invocation stops: the queue delivers the message
\* again.
WorkerStops(w) ==
  /\ work[w] # Idle /\ faults < MaxFaults
  /\ Retry(mail, work[w].note, work[w].copy)
  /\ work' = [work EXCEPT ![w] = Idle]
  /\ faults' = faults + 1
  /\ UNCHANGED <<rowVars, contactVars, pub, got, changes>>

-----------------------------------------------------------------------------
(* Time.  A delivery is retried a minute later, and retry_after lies at most *)
(* a minute ahead of the moment it is set at.                                *)

Elapse(n) ==
  /\ deferred[n]
  /\ deferred' = [deferred EXCEPT ![n] = FALSE]
  /\ mail' = Freed(n)
  /\ UNCHANGED <<status, mark, claim, old, contactVars, dead, work, pub, got,
                 faults, changes>>

Wake(n, k) ==
  /\ \/ mail[n][k].wait = "free"
     \/ mail[n][k].wait = "behind" /\ ~deferred[n]
  /\ mail' = [mail EXCEPT ![n][k].wait = "no"]
  /\ UNCHANGED <<rowVars, contactVars, dead, work, pub, got, faults, changes>>

Age(n) ==
  /\ status[n] = "SENDING" /\ ~old[n]
  /\ old' = [old EXCEPT ![n] = TRUE]
  /\ UNCHANGED <<status, mark, claim, deferred, contactVars, queueVars, work,
                 pub, got, faults, changes>>

-----------------------------------------------------------------------------
(* Staff and participants.                                                   *)

\* Only while the registration exists.
Change == /\ \E n \in Notes : status[n] # "GONE"
          /\ changes < MaxChanges /\ changes' = changes + 1

Retryable(n) == status[n] \in {"FAILED", "RETRY_PENDING"} /\ mark[n] # "unknown"

\* RETRY_NOTIFICATION and the publication that follows it.
StaffRetry(p, n) ==
  /\ Change
  /\ pub[p] = Idle
  /\ Retryable(n)
  /\ ~MayOverrun => ~Publishing(n)
  /\ SetRow(n, "PENDING", "none", FALSE)
  /\ pub' = [pub EXCEPT ![p] = [at |-> "send", note |-> n, by |-> "staff"]]
  /\ UNCHANGED <<contactVars, queueVars, work, got, faults>>

\* SUPPRESS_NOTIFICATION and CANCEL_NOTIFICATION.
StaffClose(n, s) ==
  /\ Change
  /\ status[n] \in Sendable \cup (IF s = "SUPPRESSED" THEN {"FAILED"} ELSE {})
  /\ SetRow(n, s, mark[n], FALSE)
  /\ UNCHANGED <<contactVars, queueVars, work, pub, got, faults>>

\* What every command that withdraws consent does to the rows of a channel.
CloseWaiting(c, s) ==
  LET S == {n \in Notes : Channel[n] = c /\ status[n] \in Sendable} IN
  /\ status' = [n \in Notes |-> IF n \in S THEN s ELSE status[n]]
  /\ mark' = [n \in Notes |-> IF n \in S THEN "none" ELSE mark[n]]
  /\ deferred' = [n \in Notes |-> IF n \in S THEN FALSE ELSE deferred[n]]
  /\ UNCHANGED <<claim, old>>

\* The participant or staff switch a channel off (for SMS also the event).
OptOut(c) ==
  /\ Change
  /\ allowed[c]
  /\ allowed' = [allowed EXCEPT ![c] = FALSE]
  /\ CloseWaiting(c, "CANCELLED")
  /\ work' = Late(InChannel(c))
  /\ UNCHANGED <<fact, address, suppressed, unsub, queueVars, pub, got, faults>>

OptIn(c) ==
  /\ Change
  /\ ~allowed[c]
  /\ allowed' = [allowed EXCEPT ![c] = TRUE]
  /\ UNCHANGED <<rowVars, fact, address, suppressed, unsub, queueVars, work,
                 pub, got, faults>>

ChangeAddress(c, a) ==
  /\ Change
  /\ address[c] # a
  /\ address' = [address EXCEPT ![c] = a]
  /\ work' = Late(InChannel(c))
  /\ UNCHANGED <<rowVars, fact, allowed, suppressed, unsub, queueVars, pub,
                 got, faults>>

\* The link of a message names the address it went to, which must still be the
\* registration's when the request is read; an earlier message had gone to
\* FirstAddress.
UnsubscribeBegin ==
  /\ Change
  /\ unsub = NoAddress
  /\ address["EMAIL"] = FirstAddress
  /\ unsub' = FirstAddress
  /\ UNCHANGED <<rowVars, fact, allowed, address, suppressed, queueVars, work,
                 pub, got, faults>>

UnsubscribeCommit ==
  /\ UNCHANGED changes
  /\ unsub # NoAddress
  /\ suppressed' = suppressed \cup {<<"EMAIL", unsub>>}
  /\ unsub' = NoAddress
  /\ IF address["EMAIL"] = unsub
     THEN /\ allowed' = [allowed EXCEPT !["EMAIL"] = FALSE]
          /\ CloseWaiting("EMAIL", "SUPPRESSED")
     ELSE UNCHANGED <<allowed, rowVars>>
  /\ work' = Late(InChannel("EMAIL"))
  /\ UNCHANGED <<fact, address, queueVars, pub, got, faults>>

\* The race moves on: a duck, a heat or a result the row reports changes, the
\* racer withdraws or returns, a heat stops being next and becomes it again.
FactChanges(n, f) ==
  /\ Change
  /\ fact[n] # f
  /\ f = "not_next" => n \in Upcoming
  /\ fact' = [fact EXCEPT ![n] = f]
  /\ work' = Late({n})
  /\ UNCHANGED <<rowVars, allowed, address, suppressed, unsub, queueVars, pub,
                 got, faults>>

\* The registration is deleted with its notifications and their attempts.
DeleteRegistration ==
  /\ Change
  /\ status' = [n \in Notes |-> "GONE"]
  /\ mark' = [n \in Notes |-> "none"]
  /\ claim' = [n \in Notes |-> Nobody]
  /\ old' = [n \in Notes |-> FALSE]
  /\ deferred' = [n \in Notes |-> FALSE]
  /\ work' = Late(Notes)
  /\ UNCHANGED <<contactVars, queueVars, pub, got, faults>>

-----------------------------------------------------------------------------
Consume(w) ==
  \/ Claim(w) \/ Reload(w)
  \/ LocalCheck(w, "local", "provider") \/ LocalCheck(w, "local2", "owner")
  \/ ProviderCheck(w) \/ ReloadAgain(w) \/ CheckOwner(w) \/ Submit(w)
  \/ RecordSent(w) \/ CancelClaimed(w) \/ SuppressClaimed(w) \/ FailClaimed(w)
  \/ GiveUpStale(w)

Publish(p) == QueueSend(p) \/ PublishRecord(p)

Participant ==
  \/ \E c \in Channels : \/ OptOut(c) \/ OptIn(c)
                         \/ \E a \in Addresses : ChangeAddress(c, a)
  \/ UnsubscribeBegin \/ UnsubscribeCommit
  \/ DeleteRegistration

\* What goes on without anybody asking for it: the cron trigger fires every
\* minute, the queue keeps delivering, time passes, an invocation that does not
\* stop goes on.
Dispatcher == \/ \E n \in Notes : \/ FailStale(n)
                                  \/ \E p \in Publishers : PublishBegin(p, n)
              \/ \E p \in Publishers : Publish(p)
Queue == \/ \E n \in Notes, k \in Copies, w \in Workers : Deliver(w, n, k)
         \/ \E w \in Workers : Consume(w)
Time == \E n \in Notes : \/ Elapse(n) \/ Age(n)
                         \/ \E k \in Copies : Wake(n, k)

Next ==
  \/ Dispatcher \/ Queue \/ Time \/ Participant
  \/ \E n \in Notes :
       \/ Request(n)
       \/ \E f \in {"holds", "not_next", "void"} : FactChanges(n, f)
       \/ \E s \in {"SUPPRESSED", "CANCELLED"} : StaffClose(n, s)
       \/ \E p \in Publishers : StaffRetry(p, n)
  \/ \E p \in Publishers : QueueSendFails(p) \/ PublisherStops(p)
  \/ \E w \in Workers : CallFails(w) \/ WorkerStops(w)

\* Nothing else is assumed: no participant, no staff member and no fault has to
\* come to the outbox's help.
Fairness == WF_vars(Dispatcher) /\ WF_vars(Queue) /\ WF_vars(Time)

Spec == Init /\ [][Next]_vars /\ Fairness
-----------------------------------------------------------------------------
(* Properties.                                                               *)

\* Every variable has its type.
TypeOK ==
  /\ status \in [Notes -> Status]
  /\ mark \in [Notes -> {"none", "not_next", "unknown"}]
  /\ claim \in [Notes -> Workers \cup {Nobody}]
  /\ old \in [Notes -> BOOLEAN] /\ deferred \in [Notes -> BOOLEAN]
  /\ fact \in [Notes -> {"holds", "not_next", "void"}]
  /\ allowed \in [Channels -> BOOLEAN] /\ address \in [Channels -> Addresses]
  /\ suppressed \subseteq Channels \X Addresses
  /\ unsub \in Addresses \cup {NoAddress}
  /\ mail \in [Notes -> [Copies -> Message]] /\ dead \subseteq Notes
  /\ work \in [Workers -> Job \cup {Idle}]
  /\ pub \in [Publishers -> Publication \cup {Idle}]
  /\ got \in [Notes -> Nat] /\ faults \in 0..MaxFaults
  /\ changes \in 0..MaxChanges

\* Whatever the code still may hand to the provider, by itself or because staff
\* ask for it, has not reached its recipient; only a delivery under way may have.
Unsent(n) == status[n] \in Sendable \/ (status[n] = "FAILED" /\ Retryable(n))
OnlyUnsentIsRetried == \A n \in Notes : Unsent(n) => got[n] = 0

\* A row that waits in the queue is carried by a message, still queued or given
\* up to the dead-letter queue: nothing else would ever look at it again.
QueuedIsCarried ==
  \A n \in Notes : status[n] = "QUEUED" =>
    n \in dead \/ \E k \in Copies : mail[n][k] # NoMessage

\* Nothing is handed to the provider that the participant no longer wants, for
\* an address nobody checked, or that is no longer true, unless the change came
\* after the invocation's last look at the row.
Wanted(n, a) == /\ status[n] # "GONE" /\ Valid(n)
                /\ address[Channel[n]] = a
                /\ <<Channel[n], a>> \notin suppressed
NoUnwantedMail ==
  [][\A n \in Notes : got'[n] # got[n] =>
       \E w \in Workers : /\ work[w] # Idle /\ At(w, "submit") /\ work[w].note = n
                          /\ Wanted(n, work[w].dest) \/ work[w].late]_vars

\* The outbox keeps the promise of OneReminder: at most one acceptance for each
\* row, no success that is not real, nothing reopened that may have been sent.
Phase(n) == CASE status[n] = "NONE" -> "none"
              [] status[n] \in Open -> "open"
              [] status[n] = "SENT" -> "sent"
              [] status[n] = "GONE" -> "erased"
              [] status[n] \in Closed \ {"SENT"} /\ mark[n] = "unknown" -> "unsure"
              [] OTHER -> "unsent"
Promise == INSTANCE OneReminder WITH phase <- [n \in Notes |-> Phase(n)]
AtMostOnce == Promise!Spec

\* Every notification is settled in the end, or its message was given up.
EverythingSettles ==
  \A n \in Notes : []<>(status[n] \notin Open \/ n \in dead)
=============================================================================
