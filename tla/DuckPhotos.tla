------------------------------ MODULE DuckPhotos ------------------------------
(* The required photo of one duck: bytes in R2, their association in D1, and *)
(* the cleanup ledger that keeps the two together without a transaction.     *)
(* A key is staged in the ledger under a lease before its bytes are put, the *)
(* association removes it, and the drain deletes the object of every key     *)
(* whose lease ran out.  Requests outlive the page that sent them, may stop  *)
(* after any step, and storage and database may refuse a call.  The names    *)
(* stay apart from those of DuckProvisioning, which has the pages.          *)
EXTENDS Integers, FiniteSets

CONSTANTS
  Commands,     \* upload commands, one for each life of the station's page
  Captures,     \* bytes captured by the camera
  Uploads,      \* bound: upload requests at the Worker at once
  Drains,       \* bound: cleanup drains at once
  Nil,
  MaxFaults,    \* bound: calls refused, requests stopped
  RetryEarly    \* may a capture be sent again while its first try is unsettled?

ASSUME PhotoAssumption ==
  /\ Nil \notin Commands \cup Captures \cup Uploads
  /\ Nil \notin Commands \X Captures
  /\ "due" \notin Uploads /\ "none" \notin Uploads
  /\ MaxFaults \in Nat
  /\ RetryEarly \in BOOLEAN

VARIABLES
  photo,      \* the duck_photos row: its state and object key
  saved,      \* race_commands: the capture a SAVE_DUCK_PHOTO command was for
  objects,    \* objects in the bucket
  cleanup,    \* duck_photo_cleanup: no row, leased by a request, or due
  upload,     \* upload requests at the Worker
  drain,      \* the row each drain works on
  controller, \* the page's photo controller: its command and the request it awaits
  faults,
  doubted     \* keys of the READY photo that a request gave back unread (history)

photoVars == <<photo, saved, objects, cleanup, upload, drain, controller, faults, doubted>>

-----------------------------------------------------------------------------
\* The key hashes the row, the command and the bytes.
Keys == Commands \X Captures
Free == [step |-> "free", key |-> Nil]
NewPage == [command |-> Nil, awaits |-> Nil, done |-> FALSE]

PhotoInit ==
  /\ photo = [state |-> "PENDING", key |-> Nil]
  /\ saved = [c \in Commands |-> Nil]
  /\ objects = {}
  /\ cleanup = [k \in Keys |-> "none"]
  /\ upload = [u \in Uploads |-> Free]
  /\ drain = [x \in Drains |-> Free]
  /\ controller = NewPage
  /\ faults = 0
  /\ doubted = {}

Fault == faults < MaxFaults /\ faults' = faults + 1
Key(u) == upload[u].key
Live(k) == \E u \in Uploads : Key(u) = k
Shown(k) == photo.state = "READY" /\ photo.key = k

-----------------------------------------------------------------------------
(* The page.  A retry and a new capture keep the command until the server    *)
(* confirmed a photo; a reload forgets it.                                   *)

Settled(k) == /\ ~Live(k) /\ cleanup[k] = "none"
              /\ \A x \in Drains : drain[x].key # k
Known == {controller.command} \cup {c \in Commands : saved[c] # Nil}
         \cup {k[1] : k \in {j \in Keys : ~Settled(j)}}

Send(u, k) ==
  /\ controller.awaits = Nil /\ ~controller.done
  /\ upload[u] = Free /\ u = CHOOSE v \in Uploads : upload[v] = Free
  /\ IF controller.command = Nil THEN k[1] \notin Known ELSE k[1] = controller.command
  /\ RetryEarly \/ Settled(k)
  /\ upload' = [upload EXCEPT ![u] = [step |-> "read", key |-> k]]
  /\ controller' = [controller EXCEPT !.command = k[1], !.awaits = u]
  /\ UNCHANGED <<photo, saved, objects, cleanup, drain, faults, doubted>>

\* The answer is lost: the request runs on, and the page offers the retry.
Lost ==
  /\ controller.awaits # Nil
  /\ controller' = [controller EXCEPT !.awaits = Nil]
  /\ UNCHANGED <<photo, saved, objects, cleanup, upload, drain, faults, doubted>>

ReloadPage ==
  /\ controller # NewPage
  /\ controller' = NewPage
  /\ UNCHANGED <<photo, saved, objects, cleanup, upload, drain, faults, doubted>>

-----------------------------------------------------------------------------
(* PUT photo: saveDuckPhoto.                                                 *)

Goes(u, step) == upload' = [upload EXCEPT ![u].step = step]
Answer(u, ok) ==
  /\ upload' = [upload EXCEPT ![u] = Free]
  /\ controller' = IF controller.awaits # u THEN controller
             ELSE IF ok THEN [NewPage EXCEPT !.done = TRUE]
             ELSE [controller EXCEPT !.awaits = Nil]

\* The checks before anything is stored: a replayed command is answered with
\* the saved photo, or refused when it was for other bytes.
ReadsRow(u) == LET k == Key(u) IN
  /\ upload[u].step = "read"
  /\ IF photo.state = "PENDING" /\ saved[k[1]] = Nil
     THEN Goes(u, "stage") /\ UNCHANGED controller
     ELSE Answer(u, Shown(k) /\ saved[k[1]] = k[2])
  /\ UNCHANGED <<photo, saved, objects, cleanup, drain, faults, doubted>>

\* stageDuckPhotoCleanup: INSERT OR IGNORE.
Stages(u) == LET k == Key(u) IN
  /\ upload[u].step = "stage"
  /\ cleanup' = [cleanup EXCEPT ![k] = IF @ = "none" THEN u ELSE @]
  /\ Goes(u, "put")
  /\ UNCHANGED <<photo, saved, objects, drain, controller, faults, doubted>>

Puts(u) ==
  /\ upload[u].step = "put"
  /\ objects' = objects \cup {Key(u)}
  /\ Goes(u, "associate")
  /\ UNCHANGED <<photo, saved, cleanup, drain, controller, faults, doubted>>

\* R2 reports a failure, whether or not it kept the bytes.
PutFails(u) ==
  /\ upload[u].step = "put" /\ Fault
  /\ objects' \in {objects, objects \cup {Key(u)}}
  /\ Goes(u, "queue")
  /\ UNCHANGED <<photo, saved, cleanup, drain, controller, doubted>>

\* Mutants: the ledger row stays after the association; the command is not
\* recorded with it.
Associates_KeepRow(u) == LET k == Key(u) IN
  /\ upload[u].step = "associate"
  /\ IF photo.state = "PENDING"
     THEN photo' = [state |-> "READY", key |-> k] /\ saved' = [saved EXCEPT ![k[1]] = k[2]]
     ELSE UNCHANGED <<photo, saved>>
  /\ Goes(u, "check")
  /\ UNCHANGED <<objects, cleanup, drain, controller, faults, doubted>>
Associates_Unrecorded(u) == LET k == Key(u) IN
  /\ upload[u].step = "associate"
  /\ photo' = IF photo.state = "PENDING" THEN [state |-> "READY", key |-> k] ELSE photo
  /\ cleanup' = [cleanup EXCEPT ![k] = IF photo' = [state |-> "READY", key |-> k]
                                       THEN "none" ELSE @]
  /\ Goes(u, "check")
  /\ UNCHANGED <<saved, objects, drain, controller, faults, doubted>>
\* One transaction: the command, the row, the audit, and the ledger row's removal,
\* which an exact retry repeats when its first try was the one associated.
Associates(u) == LET k == Key(u) IN
  /\ upload[u].step = "associate"
  /\ IF photo.state = "PENDING"
     THEN photo' = [state |-> "READY", key |-> k] /\ saved' = [saved EXCEPT ![k[1]] = k[2]]
     ELSE UNCHANGED <<photo, saved>>
  /\ cleanup' = [cleanup EXCEPT ![k] = IF photo' = [state |-> "READY", key |-> k]
                                       THEN "none" ELSE @]
  /\ Goes(u, "check")
  /\ UNCHANGED <<objects, drain, controller, faults, doubted>>

\* The transaction fails; what it would have found is read all the same.
AssociateFails(u) ==
  /\ upload[u].step = "associate" /\ Fault
  /\ Goes(u, "check")
  /\ UNCHANGED <<photo, saved, objects, cleanup, drain, controller, doubted>>

\* Is the photo this request's?  A refused read is swallowed and counts as no,
\* which changes nothing where the answer is no.
Checks(u) == LET k == Key(u) IN
  /\ upload[u].step = "check"
  /\ IF Shown(k) THEN Answer(u, TRUE) ELSE Goes(u, "queue") /\ UNCHANGED controller
  /\ UNCHANGED <<photo, saved, objects, cleanup, drain, faults, doubted>>

\* The read is refused although the photo is this request's: its key is given
\* back to the ledger like that of a candidate which lost.
CheckFails(u) ==
  /\ upload[u].step = "check" /\ Shown(Key(u)) /\ Fault
  /\ Goes(u, "queue")
  /\ doubted' = doubted \cup {Key(u)}
  /\ UNCHANGED <<photo, saved, objects, cleanup, drain, controller>>

\* queueDuckPhotoCleanup: insert the row, or end its lease.
Queues(u) ==
  /\ upload[u].step = "queue"
  /\ cleanup' = [cleanup EXCEPT ![Key(u)] = "due"]
  /\ Answer(u, FALSE)
  /\ UNCHANGED <<photo, saved, objects, drain, faults, doubted>>

\* The Worker stops the request; a database that refuses the read, the staging
\* or the queueing ends it as well.
Stops(u) ==
  /\ upload[u].step # "free" /\ Fault
  /\ Answer(u, FALSE)
  /\ UNCHANGED <<photo, saved, objects, cleanup, drain, doubted>>

-----------------------------------------------------------------------------
(* Deletion of the duck, or of its event, and the drain.                     *)

\* Mutant: no trigger queues the object.
DeletePhoto_NoTrigger ==
  /\ photo.state # "gone"
  /\ photo' = [state |-> "gone", key |-> Nil]
  /\ UNCHANGED <<saved, objects, cleanup, upload, drain, controller, faults, doubted>>
\* The row goes and the trigger queues its object in the same transaction.
DeletePhoto ==
  /\ photo.state # "gone"
  /\ photo' = [state |-> "gone", key |-> Nil]
  /\ cleanup' = [k \in Keys |-> IF Shown(k) /\ cleanup[k] = "none"
                                THEN "due" ELSE cleanup[k]]
  /\ UNCHANGED <<saved, objects, upload, drain, controller, faults, doubted>>

\* A lease is longer than a request: it runs out once its request is over.
Expires(k) ==
  /\ cleanup[k] \in Uploads
  /\ Key(cleanup[k]) # k
  /\ cleanup' = [cleanup EXCEPT ![k] = "due"]
  /\ UNCHANGED <<photo, saved, objects, upload, drain, controller, faults, doubted>>

Picks(x, k) ==
  /\ drain[x] = Free /\ cleanup[k] = "due"
  /\ drain' = [drain EXCEPT ![x] = [step |-> "object", key |-> k]]
  /\ UNCHANGED <<photo, saved, objects, cleanup, upload, controller, faults, doubted>>

\* The object is deleted first, and then its row.
DropsObject(x) ==
  /\ drain[x].step = "object"
  /\ objects' = objects \ {drain[x].key}
  /\ drain' = [drain EXCEPT ![x].step = "row"]
  /\ UNCHANGED <<photo, saved, cleanup, upload, controller, faults, doubted>>

DropsRow(x) ==
  /\ drain[x].step = "row"
  /\ cleanup' = [cleanup EXCEPT ![drain[x].key] = "none"]
  /\ drain' = [drain EXCEPT ![x] = Free]
  /\ UNCHANGED <<photo, saved, objects, upload, controller, faults, doubted>>

\* Mutant: a failed attempt drops the row.
DrainFails_DropRow(x) ==
  /\ drain[x] # Free /\ Fault
  /\ cleanup' = [cleanup EXCEPT ![drain[x].key] = "none"]
  /\ drain' = [drain EXCEPT ![x] = Free]
  /\ UNCHANGED <<photo, saved, objects, upload, controller, doubted>>
\* A failed attempt leaves the row for a later drain.
DrainFails(x) ==
  /\ drain[x] # Free /\ Fault
  /\ drain' = [drain EXCEPT ![x] = Free]
  /\ UNCHANGED <<photo, saved, objects, cleanup, upload, controller, doubted>>

-----------------------------------------------------------------------------
Runs(u) == ReadsRow(u) \/ Stages(u) \/ Puts(u) \/ Associates(u) \/ Checks(u) \/ Queues(u)
Sweeps(x) == (\E k \in Keys : Picks(x, k)) \/ DropsObject(x) \/ DropsRow(x)

PhotoNext ==
  \/ \E u \in Uploads :
       \/ \E k \in Keys : Send(u, k)
       \/ Runs(u) \/ PutFails(u) \/ AssociateFails(u) \/ CheckFails(u) \/ Stops(u)
  \/ \E x \in Drains : Sweeps(x) \/ DrainFails(x)
  \/ \E k \in Keys : Expires(k)
  \/ Lost \/ ReloadPage \/ DeletePhoto

\* The Worker runs each request to an end, leases run out, and the scheduler
\* sweeps every minute.
Fairness ==
  /\ \A u \in Uploads : WF_photoVars(Runs(u))
  /\ \A k \in Keys : WF_photoVars(Expires(k))
  /\ \A x \in Drains : WF_photoVars(DropsObject(x)) /\ WF_photoVars(DropsRow(x))
  /\ \A k \in Keys : WF_photoVars(\E x \in Drains : Picks(x, k))

PhotoSpec == PhotoInit /\ [][PhotoNext]_photoVars /\ Fairness

-----------------------------------------------------------------------------
(* Properties.                                                               *)

\* The variables have their types, and a row is READY exactly with a key whose
\* command was saved for the same bytes.
PhotoTypeOK ==
  /\ photo \in [state : {"PENDING", "READY", "gone"}, key : Keys \cup {Nil}]
  /\ saved \in [Commands -> Captures \cup {Nil}]
  /\ objects \subseteq Keys
  /\ cleanup \in [Keys -> {"none", "due"} \cup Uploads]
  /\ \A u \in Uploads : upload[u] = Free \/ Key(u) \in Keys
  /\ \A x \in Drains : drain[x] = Free \/ drain[x].key \in Keys
  /\ controller.awaits # Nil => Key(controller.awaits)[1] = controller.command
  /\ faults \in 0..MaxFaults
  /\ doubted \subseteq Keys
  /\ (photo.state = "READY") = (photo.key # Nil)
  /\ photo.state = "READY" => saved[photo.key[1]] = photo.key[2]

\* A photo that is READY has its object: no cleanup of another capture, of a lost
\* request or of a conflicting one deletes the bytes that won the association.
\* The exception is a photo whose own request could not read that it had won.
ReadyHasObject == photo.state = "READY" => photo.key \in objects \cup doubted

\* The same without the exception, which one refused read breaks.
ReadyKeepsObject == photo.state = "READY" => photo.key \in objects

\* No object is orphaned: it is the READY photo's, or the ledger has its row.
NothingOrphaned == \A k \in objects : Shown(k) \/ cleanup[k] # "none"

\* Every object that lost its association, or never got one, is deleted at last,
\* whatever requests stop and calls fail on the way.
ObjectsSettle == \A k \in Keys : []<>(k \notin objects \/ Shown(k))

=============================================================================
