---------------------------- MODULE OneReminder ----------------------------
(* What the outbox promises for each notification: the recipient gets it at  *)
(* most once, a success that is recorded is real, and work that is closed as *)
(* unsent was not sent; only such work may be opened again.  A delivery whose *)
(* outcome is unknown is closed for good, and may still reach its recipient. *)
EXTENDS Naturals

CONSTANT Notes

VARIABLES
  phase,  \* how the record describes the notification
  got     \* how often its recipient got it

Phases == {"none", "open", "sent", "unsent", "unsure", "erased"}

Init == /\ phase = [n \in Notes |-> "none"]
        /\ got = [n \in Notes |-> 0]

Move(n, from, to) == /\ phase[n] = from
                     /\ phase' = [phase EXCEPT ![n] = to]
                     /\ UNCHANGED got

Request(n) == Move(n, "none", "open")
Renew(n)   == got[n] = 0 /\ Move(n, "unsent", "open")
Confirm(n) == got[n] = 1 /\ Move(n, "open", "sent")
Drop(n)    == got[n] = 0 /\ Move(n, "open", "unsent")
Doubt(n)   == Move(n, "open", "unsure")

\* A delivery under way ends at the recipient, also after its record was
\* closed as unknown or removed.
Receive(n) == /\ phase[n] \in {"open", "unsure", "erased"}
              /\ got[n] = 0
              /\ got' = [got EXCEPT ![n] = 1]
              /\ UNCHANGED phase

\* One command may close, renew or erase several notifications at once.
Close(S) == /\ \A n \in S : phase[n] = "open" /\ got[n] = 0
            /\ phase' = [n \in Notes |-> IF n \in S THEN "unsent" ELSE phase[n]]
            /\ UNCHANGED got
Erase == /\ phase' = [n \in Notes |-> "erased"]
         /\ UNCHANGED got

Next == \/ \E n \in Notes : \/ Request(n) \/ Renew(n) \/ Confirm(n) \/ Drop(n)
                            \/ Doubt(n) \/ Receive(n)
        \/ \E S \in SUBSET Notes : Close(S)
        \/ Erase

Spec == Init /\ [][Next]_<<phase, got>>
=============================================================================
