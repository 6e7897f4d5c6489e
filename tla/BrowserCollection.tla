-------------------------- MODULE BrowserCollection --------------------------
(* The participant's side of registration: the collection a browser reaches  *)
(* through one opaque cookie, the links it holds (REGISTRATION or FOLLOWED), *)
(* the ownership proof that opens the contact details, and the commands that *)
(* a page sends: register, follow, unfollow, delete, mint a proof, edit the  *)
(* contact details, name the duck, list My Ducks.                            *)
(*                                                                           *)
(* A command reads before it commits (Send), commits in one batch (Commit),  *)
(* and reaches the page with its cookie later (Answer), or never (Lost); the *)
(* tabs of a browser share its cookie jar and storage.  The desk's commands  *)
(* run in between.  What happens to the duck and the heats is RoundOneRace's.*)
EXTENDS Integers, FiniteSets

CONSTANTS
  Browsers, Tabs, Regs, Collections,
  BrowserOf,    \* the browser a tab belongs to
  Author,       \* the browser whose form holds the registration's private token
  Staff,        \* requests of the desk in flight
  None,         \* no collection, SQL's NULL
  MaxRev        \* bound: revisions of a registration

ASSUME CollectionAssumption ==
  /\ BrowserOf \in [Tabs -> Browsers]
  /\ Author \in [Regs -> Browsers]
  /\ Regs # {}
  /\ None \notin Collections \cup Tabs \cup {"form"}
  /\ "form" \notin Tabs /\ "desk" \notin Tabs
  /\ Tabs \cap Staff = {}
  /\ MaxRev \in Nat

VARIABLES
  row,      \* registrations with their race entry, duck assignment and contact
  known,    \* browser_registration_collections
  link,     \* browser_collection_registrations.added_via
  proof,    \* browser_collection_registrations.ownership_proof_hash
  cookie,   \* the __Host-quickducks_browser cookie of each browser
  store,    \* localStorage: the ownership proofs a browser keeps
  req,      \* the request of a tab, or of the desk, in flight
  told      \* registrations a browser's pages were told they made

vars == <<row, known, link, proof, cookie, store, req, told>>

-----------------------------------------------------------------------------
\* A proof is the private token of the form, or one a tab generated.
Proofs == Tabs \cup {"form"}
Idle == [at |-> "idle"]
Writes == {"register", "follow", "unfollow", "delete", "mint", "contact", "name"}
Public == [at : {"commit", "answer"}, op : Writes \cup {"mine"}, r : Regs,
           k : Collections \cup {None}, base : {"form", "desk"} \cup Tabs,
           rev : 0..MaxRev, proof : Proofs \cup {None}]
Desk == [at : {"commit"}, op : {"pair", "edit", "delete", "name"}, r : Regs,
         rev : 0..MaxRev]

Exists(r) == row[r].status \notin {"unsent", "gone"}
\* Mutant: only an open assignment keeps a registration.
Removable_OpenOnly(r) == Exists(r) /\ row[r].duck # "held"
\* unpairedRaceEntrySql, which the RESTRICT foreign keys of duck_assignments
\* and heat_entries repeat: an assignment that ended still counts.
Removable(r) == Exists(r) /\ row[r].duck = "never"
\* nameableRaceEntrySql
Nameable(k, r) == /\ Exists(r) /\ row[r].duck = "held"
                  /\ link[k][r] = "REGISTRATION"
\* getOwnedContact
Owned(k, r, p) == /\ Exists(r) /\ link[k][r] = "REGISTRATION"
                  /\ p # None /\ proof[k][r] = p

Init ==
  /\ row = [r \in Regs |-> [status |-> "unsent", duck |-> "never",
                            named |-> FALSE, rev |-> 0, contact |-> "form"]]
  /\ known = {}
  /\ link = [k \in Collections |-> [r \in Regs |-> "none"]]
  /\ proof = [k \in Collections |-> [r \in Regs |-> None]]
  /\ cookie = [b \in Browsers |-> None]
  /\ store = [b \in Browsers |-> [r \in Regs |-> None]]
  /\ req = [c \in Tabs \cup Staff |-> Idle]
  /\ told = [b \in Browsers |-> {}]

\* A browser that collected a registration before proofs existed.
LegacyInit ==
  \E r \in Regs, k \in Collections :
    /\ row = [q \in Regs |-> [status |-> IF q = r THEN "SUBMITTED" ELSE "unsent",
                duck |-> "never", named |-> FALSE, rev |-> 0, contact |-> "form"]]
    /\ known = {k}
    /\ link = [j \in Collections |-> [q \in Regs |->
                 IF j = k /\ q = r THEN "REGISTRATION" ELSE "none"]]
    /\ proof = [j \in Collections |-> [q \in Regs |-> None]]
    /\ cookie = [b \in Browsers |-> IF b = Author[r] THEN k ELSE None]
    /\ store = [b \in Browsers |-> [q \in Regs |-> None]]
    /\ req = [c \in Tabs \cup Staff |-> Idle]
    /\ told = [b \in Browsers |-> {}]

-----------------------------------------------------------------------------
(* A tab sends a request.  The cookie it carries is the jar's at this moment;*)
(* the handler's reads before its batch happen here as well.                 *)

Jar(t) == cookie[BrowserOf[t]]
\* prepareBrowserCollection: the cookie's collection, or a new random one.
Fresh == Collections \ (known \cup {req[t].k : t \in {u \in Tabs : req[u] # Idle}})
Prepared(t) == IF Jar(t) \in known THEN {Jar(t)} ELSE Fresh

Send(t, op, r, k, p) ==
  req' = [req EXCEPT ![t] =
    [at |-> "commit", op |-> op, r |-> r, k |-> k,
     base |-> IF op = "contact" THEN row[r].contact ELSE "form",
     rev |-> IF op = "contact" THEN row[r].rev ELSE 0, proof |-> p]]

SendRegister(t, r) ==
  /\ Author[r] = BrowserOf[t]
  /\ \E k \in Prepared(t) : Send(t, "register", r, k, "form")

SendFollow(t, r) ==
  /\ row[r].status \in {"SUBMITTED", "ACTIVE"}
  /\ \E k \in Prepared(t) : Send(t, "follow", r, k, None)

SendUnfollow(t, r) ==
  /\ Jar(t) \in known /\ link[Jar(t)][r] = "FOLLOWED"
  /\ Send(t, "unfollow", r, Jar(t), None)

SendDelete(t, r) ==
  /\ Jar(t) \in known /\ link[Jar(t)][r] = "REGISTRATION"
  /\ Removable(r)
  /\ Send(t, "delete", r, Jar(t), None)

\* participantEnsureOwnershipProof mints only where no proof is stored.
SendMint(t, r) ==
  /\ Jar(t) \in known /\ link[Jar(t)][r] = "REGISTRATION"
  /\ store[BrowserOf[t]][r] = None
  /\ Send(t, "mint", r, Jar(t), t)

\* The page edits what a GET of the contact details showed it.
SendContact(t, r) ==
  LET p == store[BrowserOf[t]][r] IN
  /\ Jar(t) \in known /\ Owned(Jar(t), r, p)
  /\ Send(t, "contact", r, Jar(t), p)

SendName(t, r) ==
  /\ Jar(t) \in known /\ Nameable(Jar(t), r)
  /\ Send(t, "name", r, Jar(t), None)

\* GET /registrations/mine and its presence probe: the answer renews the
\* cookie, or clears one that resolves to nothing.
SendMine(t) ==
  req' = [req EXCEPT ![t] =
    [at |-> "answer", op |-> "mine", r |-> CHOOSE r \in Regs : TRUE,
     k |-> IF Jar(t) \in known THEN Jar(t) ELSE None,
     base |-> "form", rev |-> 0, proof |-> None]]

Page(t) ==
  /\ req[t] = Idle
  /\ \/ \E r \in Regs :
          \/ SendRegister(t, r) \/ SendFollow(t, r) \/ SendUnfollow(t, r)
          \/ SendDelete(t, r) \/ SendMint(t, r) \/ SendContact(t, r)
          \/ SendName(t, r)
     \/ SendMine(t)
  /\ UNCHANGED <<row, known, link, proof, cookie, store, told>>

-----------------------------------------------------------------------------
(* The batch.  Its command row is inserted under the conditions the handler  *)
(* read, and every other statement depends on that row; a foreign key that   *)
(* no longer resolves rolls everything back.                                 *)

\* Only some successes change the browser; of the others the page learns
\* nothing that the model keeps.
Succeeds(t) == req' = [req EXCEPT ![t] =
  IF @.op \in {"register", "follow", "mint"} THEN [@ EXCEPT !.at = "answer"] ELSE Idle]
Refused(t) == req' = [req EXCEPT ![t] = Idle] /\ UNCHANGED <<row, known, link, proof>>

\* collectionStatements: registering claims the link, and keeps the proof of a
\* link it replaces only where it brings none.
Claims(k, r, p) ==
  /\ known' = known \cup {k}
  /\ link' = [link EXCEPT ![k][r] = "REGISTRATION"]
  /\ proof' = [proof EXCEPT ![k][r] = p]

\* createRegistration: the command's primary key makes a second commit a replay
\* that only links; a registration deleted since cannot be made again.
CommitRegister(t) ==
  LET r == req[t].r IN
  IF row[r].status = "gone" THEN Refused(t)
  ELSE /\ Claims(req[t].k, r, req[t].proof)
       /\ row' = IF row[r].status = "unsent"
                   THEN [row EXCEPT ![r].status = "SUBMITTED"] ELSE row
       /\ Succeeds(t)

\* Mutants: a follow replaces the link, or claims the registration.
Follows_Replace(k, r) == link' = [link EXCEPT ![k][r] = "FOLLOWED"]
Follows_Claim(k, r) == link' = [link EXCEPT ![k][r] = "REGISTRATION"]
\* followStatements: INSERT OR IGNORE.
Follows(k, r) ==
  link' = [link EXCEPT ![k][r] = IF @ = "none" THEN "FOLLOWED" ELSE @]

CommitFollow(t) ==
  LET k == req[t].k r == req[t].r IN
  IF ~Exists(r) THEN Refused(t)
  ELSE /\ known' = known \cup {k}
       /\ Follows(k, r)
       /\ Succeeds(t) /\ UNCHANGED <<row, proof>>

CommitUnfollow(t) ==
  LET k == req[t].k r == req[t].r IN
  IF link[k][r] # "FOLLOWED" THEN Refused(t)
  ELSE /\ link' = [link EXCEPT ![k][r] = "none"]
       /\ Succeeds(t) /\ UNCHANGED <<row, known, proof>>

\* Mutant: the links of the other collections stay.
Deletes_OwnLinks(r) ==
  /\ row' = [row EXCEPT ![r].status = "gone"]
  /\ link' = [k \in Collections |-> [link[k] EXCEPT ![r] =
                IF @ = "REGISTRATION" THEN "none" ELSE @]]
  /\ proof' = [k \in Collections |-> [proof[k] EXCEPT ![r] = None]]
  /\ UNCHANGED known
\* registrationDeletionStatements: the links of every browser go with the row.
Deletes(r) ==
  /\ row' = [row EXCEPT ![r].status = "gone"]
  /\ link' = [k \in Collections |-> [link[k] EXCEPT ![r] = "none"]]
  /\ proof' = [k \in Collections |-> [proof[k] EXCEPT ![r] = None]]
  /\ UNCHANGED known

CommitDelete(t) ==
  LET r == req[t].r IN
  IF Removable(r) /\ link[req[t].k][r] = "REGISTRATION"
    THEN Deletes(r) /\ Succeeds(t)
    ELSE Refused(t)

\* mintContactProof: only where the proof is NULL; the same command again is
\* accepted while its own proof is the one in force.
CommitMint(t) ==
  LET k == req[t].k r == req[t].r IN
  IF Exists(r) /\ link[k][r] = "REGISTRATION" /\ proof[k][r] \in {None, t}
    THEN /\ proof' = [proof EXCEPT ![k][r] = t]
         /\ Succeeds(t) /\ UNCHANGED <<row, known, link>>
    ELSE Refused(t)

\* Mutant: any revision will do.
ContactStands_AnyRevision(t) == Owned(req[t].k, req[t].r, req[t].proof)
\* updateMyContact: the row is written under the revision the page was shown.
ContactStands(t) ==
  /\ Owned(req[t].k, req[t].r, req[t].proof)
  /\ row[req[t].r].rev = req[t].rev

CommitContact(t) ==
  LET r == req[t].r IN
  IF ContactStands(t)
    THEN /\ row[r].rev < MaxRev
         /\ row' = [row EXCEPT ![r].contact = t, ![r].rev = @ + 1]
         /\ Succeeds(t) /\ UNCHANGED <<known, link, proof>>
    ELSE Refused(t)

\* nameMyDuck: last write wins.
CommitName(t) ==
  LET r == req[t].r IN
  IF Nameable(req[t].k, r)
    THEN /\ row' = [row EXCEPT ![r].named = TRUE]
         /\ Succeeds(t) /\ UNCHANGED <<known, link, proof>>
    ELSE Refused(t)

Commit(t) ==
  /\ req[t].at = "commit"
  /\ CASE req[t].op = "register" -> CommitRegister(t)
       [] req[t].op = "follow"   -> CommitFollow(t)
       [] req[t].op = "unfollow" -> CommitUnfollow(t)
       [] req[t].op = "delete"   -> CommitDelete(t)
       [] req[t].op = "mint"     -> CommitMint(t)
       [] req[t].op = "contact"  -> CommitContact(t)
       [] req[t].op = "name"     -> CommitName(t)
  /\ UNCHANGED <<cookie, store, told>>

-----------------------------------------------------------------------------
(* The answer: Set-Cookie reaches the jar, the page keeps what it was told.  *)

Answer(t) ==
  LET b == BrowserOf[t] r == req[t].r op == req[t].op IN
  /\ req[t].at = "answer"
  /\ cookie' = IF op # "mint" THEN [cookie EXCEPT ![b] = req[t].k] ELSE cookie
  /\ store' = IF op \in {"register", "mint"}
                THEN [store EXCEPT ![b][r] = req[t].proof] ELSE store
  /\ told' = IF op = "register"
               THEN [told EXCEPT ![b] = @ \cup {r}] ELSE told
  /\ req' = [req EXCEPT ![t] = Idle]
  /\ UNCHANGED <<row, known, link, proof>>

\* The network interrupts the request, before or after its batch.
Lost(t) ==
  /\ req[t] # Idle
  /\ req' = [req EXCEPT ![t] = Idle]
  /\ UNCHANGED <<row, known, link, proof, cookie, store, told>>

-----------------------------------------------------------------------------
(* The desk.  Pairing, editing, deleting and naming read first and commit    *)
(* later; the rest is one statement.                                         *)

DeskReads(s, op, r) ==
  /\ req[s] = Idle /\ Exists(r)
  /\ op = "pair" => row[r].status = "SUBMITTED" /\ row[r].duck # "held"
  /\ op = "delete" => Removable(r)
  /\ op = "name" => row[r].duck = "held"
  /\ req' = [req EXCEPT ![s] = [at |-> "commit", op |-> op, r |-> r,
       rev |-> IF op \in {"edit", "delete"} THEN row[r].rev ELSE 0]]
  /\ UNCHANGED <<row, known, link, proof, cookie, store, told>>

Bumped(r) == row[r].rev < MaxRev

\* pairDuck: the assignment names the race entry, which must still be there.
DeskPairs(r) ==
  /\ Exists(r) /\ row[r].duck # "held" /\ Bumped(r)
  /\ row' = [row EXCEPT ![r].status = "ACTIVE", ![r].duck = "held", ![r].rev = @ + 1]
  /\ UNCHANGED <<known, link, proof>>

\* editRegistration, under the expected revision.
DeskEdits(s, r) ==
  /\ Exists(r) /\ row[r].rev = req[s].rev /\ Bumped(r)
  /\ row' = [row EXCEPT ![r].contact = "desk", ![r].rev = @ + 1]
  /\ UNCHANGED <<known, link, proof>>

\* setDuckName
DeskNames(r) ==
  /\ Exists(r) /\ row[r].duck = "held"
  /\ row' = [row EXCEPT ![r].named = TRUE]
  /\ UNCHANGED <<known, link, proof>>

\* deleteRegistration: any browser's, under the expected revision.
DeskDeletes(s, r) ==
  /\ Removable(r) /\ row[r].rev = req[s].rev
  /\ Deletes(r)

DeskCommits(s) ==
  LET r == req[s].r op == req[s].op IN
  /\ req[s] # Idle
  /\ \/ op = "pair" /\ DeskPairs(r)
     \/ op = "edit" /\ DeskEdits(s, r)
     \/ op = "name" /\ DeskNames(r)
     \/ op = "delete" /\ DeskDeletes(s, r)
     \/ UNCHANGED <<row, known, link, proof>>   \* refused, or never arrives
  /\ req' = [req EXCEPT ![s] = Idle]
  /\ UNCHANGED <<cookie, store, told>>

\* clearDuckName never fails.
ClearName(r) ==
  /\ Exists(r) /\ row[r].named
  /\ row' = [row EXCEPT ![r].named = FALSE]
  /\ UNCHANGED <<known, link, proof, cookie, store, req, told>>

\* The duck is taken away, and the registration waits for another; or the
\* participant leaves the race, and the duck stays in its bag.
TakeDuck(r) ==
  /\ row[r].status = "ACTIVE" /\ Bumped(r)
  /\ \E keeps \in {row[r].named, FALSE} :   \* deleting the duck clears its name
       row' = [row EXCEPT ![r].status = "SUBMITTED", ![r].duck = "ended",
                          ![r].named = keeps, ![r].rev = @ + 1]
  /\ UNCHANGED <<known, link, proof, cookie, store, req, told>>

Leave(r) ==
  /\ row[r].status \in {"SUBMITTED", "ACTIVE"} /\ Bumped(r)
  /\ row' = [row EXCEPT ![r].status = "OUT", ![r].rev = @ + 1]
  /\ UNCHANGED <<known, link, proof, cookie, store, req, told>>

Next ==
  \/ \E t \in Tabs : Page(t) \/ Commit(t) \/ Answer(t) \/ Lost(t)
  \/ \E s \in Staff : \/ DeskCommits(s)
                      \/ \E r \in Regs, op \in {"pair", "edit", "delete", "name"} :
                           DeskReads(s, op, r)
  \/ \E r \in Regs : ClearName(r) \/ TakeDuck(r) \/ Leave(r)

Spec == (Init \/ LegacyInit) /\ [][Next]_vars

-----------------------------------------------------------------------------
(* Properties.                                                               *)

\* Every table holds values of its schema, a collection that holds a link has
\* a row of its own, and nothing links a registration that is not there
\* (the foreign keys of browser_collection_registrations).
TypeOK ==
  /\ row \in [Regs -> [status : {"unsent", "SUBMITTED", "ACTIVE", "OUT", "gone"},
                       duck : {"never", "held", "ended"}, named : BOOLEAN,
                       rev : 0..MaxRev, contact : Tabs \cup {"form", "desk"}]]
  /\ known \subseteq Collections
  /\ link \in [Collections -> [Regs -> {"none", "FOLLOWED", "REGISTRATION"}]]
  /\ proof \in [Collections -> [Regs -> Proofs \cup {None}]]
  /\ cookie \in [Browsers -> Collections \cup {None}]
  /\ store \in [Browsers -> [Regs -> Proofs \cup {None}]]
  /\ req \in [Tabs \cup Staff -> Public \cup Desk \cup {Idle}]
  /\ \A t \in Tabs : req[t] \in Public \cup {Idle}
  /\ \A s \in Staff : req[s] \in Desk \cup {Idle}
  /\ told \in [Browsers -> SUBSET Regs]
  /\ \A k \in Collections, r \in Regs :
       link[k][r] # "none" => k \in known /\ Exists(r)

\* The private view of a registration (its lookup code, contact details,
\* deletion, naming) opens only to the browser that registered it, whatever
\* follows, replays and lost answers went before.
OnlyRegistrantsOwn ==
  \A b \in Browsers, r \in Regs :
    cookie[b] \in known /\ link[cookie[b]][r] = "REGISTRATION" => b = Author[r]

\* Once a collection holds a registration as its own, no later follow, unfollow
\* or registration takes it away while the registration exists; and a minted
\* proof that a page was told is in force yields only to the registration's own
\* private token, never to another tab's proof.
CredentialsAreKept ==
  [][\A k \in Collections, r \in Regs :
       link[k][r] = "REGISTRATION" /\ Exists(r)' =>
         /\ link'[k][r] = "REGISTRATION"
         /\ proof[k][r] # None => proof'[k][r] \in {proof[k][r], "form"}]_vars

\* A registration that was ever paired with a duck is never deleted, by its
\* owner or by the desk, even when the pairing commits between the reads and
\* the batch of the deletion or its duck has been taken away since.
RacedAreKept ==
  \A r \in Regs : row[r].status = "gone" => row[r].duck = "never"

\* A participant's edit of the contact details replaces only what the page was
\* shown: an edit by the desk or by another tab between is never overwritten
\* unseen (expectedRevision, bumped by every writer of the row).
EditsAreSeen ==
  [][\A t \in Tabs, r \in Regs :
       row'[r].contact = t /\ row'[r].rev # row[r].rev /\ row'[r].contact # row[r].contact
         => row[r].contact = req[t].base]_vars

\* docs/REGISTRATION_API.md: the cookie resolves to every registration created
\* from that browser.
CookieResolvesAll ==
  \A b \in Browsers : \A r \in told[b] :
    Exists(r) /\ (\A t \in Tabs : req[t] = Idle)
      => cookie[b] \in known /\ link[cookie[b]][r] = "REGISTRATION"
=============================================================================
