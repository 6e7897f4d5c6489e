------------------------ MODULE BrowserCollectionProofs ------------------------
(* Proofs about BrowserCollection, for every set of browsers, tabs, staff,    *)
(* registrations and collections.                                             *)
EXTENDS BrowserCollection, TLAPS

-----------------------------------------------------------------------------
(* The inductive invariants.                                                 *)

\* What a request in flight carries.
Carries ==
  \A t \in Tabs : req[t] # Idle =>
    /\ req[t].at = "commit" => req[t].op \in Writes
    /\ req[t].op \in Writes => req[t].k \in Collections
    /\ req[t].op = "register" => req[t].proof = "form" /\ BrowserOf[t] = Author[req[t].r]
    /\ req[t].at = "answer" => req[t].k \in known \cup {None}

\* A collection has one browser: the one whose cookie names it or whose request
\* is about to make it; and it holds registrations of that browser only.
Uses(b, k) == \/ cookie[b] = k
              \/ \E t \in Tabs : BrowserOf[t] = b /\ req[t] # Idle /\ req[t].k = k
CookiesKnown == \A b \in Browsers : cookie[b] \in known \cup {None}
OneBrowser ==
  \A k \in Collections : \A a, b \in Browsers : Uses(a, k) /\ Uses(b, k) => a = b
LinksOwned ==
  \A k \in Collections, r \in Regs : link[k][r] = "REGISTRATION" =>
    \A b \in Browsers : Uses(b, k) => b = Author[r]

\* An edit in flight: the row has moved on, or still shows what the page saw.
Editing(t) == req[t] # Idle /\ req[t].at = "commit" /\ req[t].op = "contact"
EditsFit ==
  \A t \in Tabs : Editing(t) =>
    LET q == req[t] IN
    /\ q.rev <= row[q.r].rev
    /\ q.rev = row[q.r].rev => row[q.r].contact = q.base

-----------------------------------------------------------------------------
(* Types.                                                                    *)

Row == [status : {"unsent", "SUBMITTED", "ACTIVE", "OUT", "gone"},
        duck : {"never", "held", "ended"}, named : BOOLEAN,
        rev : 0..MaxRev, contact : Tabs \cup {"form", "desk"}]
ReqTypes ==
  /\ req \in [Tabs \cup Staff -> Public \cup Desk \cup {Idle}]
  /\ \A t \in Tabs : req[t] \in Public \cup {Idle}
  /\ \A s \in Staff : req[s] \in Desk \cup {Idle}
LinkTypes ==
  /\ known \subseteq Collections
  /\ link \in [Collections -> [Regs -> {"none", "FOLLOWED", "REGISTRATION"}]]
  /\ proof \in [Collections -> [Regs -> Proofs \cup {None}]]
ForeignKeys == \A k \in Collections, r \in Regs :
                 link[k][r] # "none" => k \in known /\ Exists(r)

LEMMA TypeParts ==
  TypeOK <=> /\ row \in [Regs -> Row] /\ LinkTypes /\ ReqTypes /\ ForeignKeys
             /\ cookie \in [Browsers -> Collections \cup {None}]
             /\ store \in [Browsers -> [Regs -> Proofs \cup {None}]]
             /\ told \in [Browsers -> SUBSET Regs]
  BY DEF TypeOK, Row, LinkTypes, ReqTypes, ForeignKeys

LEMMA TabSet ==
  ASSUME ReqTypes, NEW t \in Tabs, NEW q \in Public \cup {Idle}, req' = [req EXCEPT ![t] = q]
  PROVE  ReqTypes' /\ req'[t] = q /\ \A c \in Tabs \cup Staff : c # t => req'[c] = req[c]
  BY CollectionAssumption DEF ReqTypes

LEMMA StaffSet ==
  ASSUME ReqTypes, NEW s \in Staff, NEW q \in Desk \cup {Idle}, req' = [req EXCEPT ![s] = q]
  PROVE  ReqTypes' /\ req'[s] = q /\ \A c \in Tabs \cup Staff : c # s => req'[c] = req[c]
  BY CollectionAssumption DEF ReqTypes

LEMMA InitTypes == Init \/ LegacyInit => TypeOK
<1> SUFFICES ASSUME Init \/ LegacyInit PROVE TypeOK
  OBVIOUS
<1>1. [status |-> "unsent", duck |-> "never", named |-> FALSE, rev |-> 0, contact |-> "form"] \in Row
  BY CollectionAssumption DEF Row
<1>2. [status |-> "SUBMITTED", duck |-> "never", named |-> FALSE, rev |-> 0, contact |-> "form"] \in Row
  BY CollectionAssumption DEF Row
<1>3. CASE Init
  <2>1. row \in [Regs -> Row]
    BY <1>1, <1>3 DEF Init
  <2>2. LinkTypes /\ ReqTypes /\ ForeignKeys
    BY <1>3 DEF Init, LinkTypes, ReqTypes, ForeignKeys
  <2>3. QED
    BY <1>3, <2>1, <2>2, TypeParts DEF Init
<1>4. CASE LegacyInit
  <2>1. PICK r \in Regs, k \in Collections :
          /\ row = [q \in Regs |-> [status |-> IF q = r THEN "SUBMITTED" ELSE "unsent",
                      duck |-> "never", named |-> FALSE, rev |-> 0, contact |-> "form"]]
          /\ known = {k}
          /\ link = [j \in Collections |-> [q \in Regs |->
                       IF j = k /\ q = r THEN "REGISTRATION" ELSE "none"]]
          /\ proof = [j \in Collections |-> [q \in Regs |-> None]]
          /\ cookie = [b \in Browsers |-> IF b = Author[r] THEN k ELSE None]
          /\ store = [b \in Browsers |-> [q \in Regs |-> None]]
          /\ req = [c \in Tabs \cup Staff |-> Idle]
          /\ told = [b \in Browsers |-> {}]
    BY <1>4 DEF LegacyInit
  <2>2. row \in [Regs -> Row]
    <3> SUFFICES ASSUME NEW q \in Regs PROVE row[q] \in Row
      BY <2>1
    <3>1. CASE q = r
      BY <1>2, <2>1, <3>1
    <3>2. CASE q # r
      BY <1>1, <2>1, <3>2
    <3>3. QED
      BY <3>1, <3>2
  <2>3. LinkTypes /\ ReqTypes
    BY <2>1 DEF LinkTypes, ReqTypes
  <2>4. ForeignKeys
    BY <2>1 DEF ForeignKeys, Exists
  <2>5. cookie \in [Browsers -> Collections \cup {None}]
    BY <2>1
  <2>6. QED
    BY <2>1, <2>2, <2>3, <2>4, <2>5, TypeParts
<1>5. QED
  BY <1>3, <1>4

-----------------------------------------------------------------------------
(* What the steps do.                                                        *)

\* A tab has sent the request q.
Sent(t, q) ==
  /\ req[t] = Idle /\ q \in Public /\ req' = [req EXCEPT ![t] = q]
  /\ \/ q.at = "commit" /\ q.op \in Writes /\ q.k \in Collections
     \/ q.at = "answer" /\ q.op = "mine" /\ q.k \in known \cup {None}
  /\ \/ q.k = None
     \/ q.k = Jar(t)
     \/ q.k \in Fresh
  /\ q.op = "register" => q.proof = "form" /\ BrowserOf[t] = Author[q.r]
  /\ q.op = "contact" => q.rev = row[q.r].rev /\ q.base = row[q.r].contact
  /\ UNCHANGED <<row, known, link, proof, cookie, store, told>>

LEMMA SendIsSent ==
  ASSUME TypeOK, NEW t \in Tabs, req[t] = Idle, NEW op \in Writes, NEW r \in Regs,
         NEW k \in Collections, NEW p \in Proofs \cup {None}, Send(t, op, r, k, p),
         k \in Prepared(t) \/ k = Jar(t),
         op = "register" => p = "form" /\ BrowserOf[t] = Author[r],
         UNCHANGED <<row, known, link, proof, cookie, store, told>>
  PROVE  \E q : Sent(t, q)
<1> DEFINE b == IF op = "contact" THEN row[r].contact ELSE "form"
           n == IF op = "contact" THEN row[r].rev ELSE 0
           q == [at |-> "commit", op |-> op, r |-> r, k |-> k, base |-> b, rev |-> n,
                 proof |-> p]
<1>1. row[r] \in Row
  BY TypeParts
<1>2. b \in {"form", "desk"} \cup Tabs
  BY <1>1 DEF Row
<1>3. n \in 0..MaxRev
  BY <1>1, CollectionAssumption DEF Row
<1>4. op = "contact" => n = row[r].rev /\ b = row[r].contact
  OBVIOUS
<1>5. req' = [req EXCEPT ![t] = q]
  BY DEF Send
<1> HIDE DEF b, n
<1>6. q \in Public
  BY <1>2, <1>3 DEF Public
<1>7. k = Jar(t) \/ k \in Fresh
  BY DEF Prepared
<1>8. /\ q.at = "commit" /\ q.op = op /\ q.k = k /\ q.r = r /\ q.proof = p /\ q.rev = n
      /\ q.base = b
  OBVIOUS
<1> HIDE DEF q
<1>9. QED
  BY <1>4, <1>5, <1>6, <1>7, <1>8 DEF Sent

LEMMA PageSends == ASSUME TypeOK, NEW t \in Tabs, Page(t) PROVE \E q : Sent(t, q)
<1>1. UNCHANGED <<row, known, link, proof, cookie, store, told>> /\ req[t] = Idle
  BY DEF Page
<1>2. Prepared(t) \subseteq Collections
  BY TypeParts DEF Prepared, Fresh, LinkTypes
<1>3. Jar(t) \in known => Jar(t) \in Collections
  BY TypeParts DEF LinkTypes
<1>4. {"register", "follow", "unfollow", "delete", "mint", "contact", "name"} \subseteq Writes
  BY DEF Writes
<1>5. "form" \in Proofs /\ t \in Proofs
  BY DEF Proofs
<1>6. ASSUME NEW r \in Regs, SendRegister(t, r) PROVE \E q : Sent(t, q)
  BY <1>1, <1>2, <1>4, <1>5, <1>6, SendIsSent DEF SendRegister
<1>7. ASSUME NEW r \in Regs, SendFollow(t, r) PROVE \E q : Sent(t, q)
  BY <1>1, <1>2, <1>4, <1>7, SendIsSent DEF SendFollow
<1>8. ASSUME NEW r \in Regs, SendUnfollow(t, r) \/ SendDelete(t, r) \/ SendName(t, r)
      PROVE  \E q : Sent(t, q)
  BY <1>1, <1>3, <1>4, <1>8, SendIsSent DEF SendUnfollow, SendDelete, SendName
<1>9. ASSUME NEW r \in Regs, SendMint(t, r) PROVE \E q : Sent(t, q)
  BY <1>1, <1>3, <1>4, <1>5, <1>9, SendIsSent DEF SendMint
<1>10. ASSUME NEW r \in Regs, SendContact(t, r) PROVE \E q : Sent(t, q)
  <2>1. store[BrowserOf[t]][r] \in Proofs \cup {None}
    BY CollectionAssumption, TypeParts
  <2>2. QED
    BY <1>1, <1>3, <1>4, <1>10, <2>1, SendIsSent DEF SendContact
<1>11. ASSUME SendMine(t) PROVE \E q : Sent(t, q)
  <2> DEFINE r == CHOOSE r \in Regs : TRUE
             k == IF Jar(t) \in known THEN Jar(t) ELSE None
             q == [at |-> "answer", op |-> "mine", r |-> r, k |-> k,
                   base |-> "form", rev |-> 0, proof |-> None]
  <2>1. r \in Regs
    BY CollectionAssumption
  <2>2. k \in known \cup {None} /\ k \in Collections \cup {None} /\ (k = None \/ k = Jar(t))
    BY <1>3
  <2>3. req' = [req EXCEPT ![t] = q]
    BY <1>11 DEF SendMine
  <2> HIDE DEF r, k
  <2>4. q \in Public
    BY <2>1, <2>2, CollectionAssumption DEF Public
  <2>5. q.at = "answer" /\ q.op = "mine" /\ q.k = k
    OBVIOUS
  <2> HIDE DEF q
  <2>6. QED
    BY <1>1, <2>2, <2>3, <2>4, <2>5 DEF Sent
<1>12. QED
  BY <1>6, <1>7, <1>8, <1>9, <1>10, <1>11 DEF Page

\* How a row may change: its revision grows, and with every change of the
\* contact details; it is deleted only while no duck was ever assigned to it,
\* and for good.
RowMay(r, x) ==
  /\ x \in Row
  /\ x.rev >= row[r].rev
  /\ x.rev = row[r].rev => x.contact = row[r].contact
  /\ row[r].status = "gone" => x = row[r]
  /\ x.status = "gone" /\ row[r].status # "gone" => Removable(r) /\ x.duck = row[r].duck
  /\ x.status = "unsent" => row[r].status = "unsent"
RowStep == row' \in [Regs -> Row] /\ \A r \in Regs : RowMay(r, row'[r])

LEMMA RowStays ==
  ASSUME row \in [Regs -> Row], row' = row
  PROVE  RowStep
<1>1. \A r \in Regs : row[r].rev \in Nat
  BY CollectionAssumption DEF Row
<1>2. QED
  BY <1>1 DEF RowStep, RowMay

LEMMA RowSet ==
  ASSUME row \in [Regs -> Row], NEW r \in Regs, NEW x, RowMay(r, x),
         row' = [row EXCEPT ![r] = x]
  PROVE  RowStep /\ row'[r] = x /\ \A q \in Regs : q # r => row'[q] = row[q]
<1>1. \A q \in Regs : row[q].rev \in Nat
  BY CollectionAssumption DEF Row
<1>2. row'[r] = x /\ \A q \in Regs : q # r => row'[q] = row[q]
  OBVIOUS
<1>3. row' \in [Regs -> Row]
  BY DEF RowMay
<1>4. \A q \in Regs : RowMay(q, row'[q])
  BY <1>1, <1>2 DEF RowMay
<1>5. QED
  BY <1>2, <1>3, <1>4 DEF RowStep

\* A row that stays, in some other state and perhaps with a higher revision.
LEMMA Alters ==
  ASSUME NEW r \in Regs, row[r] \in Row, Exists(r), NEW x \in Row,
         x.status \in {"SUBMITTED", "ACTIVE", "OUT"},
         \/ x.rev = row[r].rev + 1
         \/ x.rev = row[r].rev /\ x.contact = row[r].contact
  PROVE  RowMay(r, x)
<1>1. row[r].rev \in Nat
  BY CollectionAssumption DEF Row
<1>2. QED
  BY <1>1 DEF RowMay, Exists

\* A row's fields, and the next revision where there is one.
LEMMA Fields ==
  ASSUME NEW r \in Regs, row[r] \in Row
  PROVE  /\ row[r].rev \in 0..MaxRev
         /\ row[r].rev < MaxRev => row[r].rev + 1 \in 0..MaxRev
         /\ Exists(r) => row[r].status \in {"SUBMITTED", "ACTIVE", "OUT"}
  BY CollectionAssumption DEF Row, Exists

\* What becomes of links and proofs: nothing unlinked but by its owner, and no
\* proof replaced but by the form's.
Kept ==
  \A k \in Collections, r \in Regs :
    link[k][r] = "REGISTRATION" /\ Exists(r)' =>
      /\ link'[k][r] = "REGISTRATION"
      /\ proof[k][r] # None => proof'[k][r] \in {proof[k][r], "form"}
Written == LinkTypes' /\ ForeignKeys' /\ RowStep /\ known \subseteq known' /\ Kept
NoNewLink == \A k \in Collections, r \in Regs :
               link'[k][r] = "REGISTRATION" => link[k][r] = "REGISTRATION"

LEMMA LinksStay ==
  ASSUME TypeOK, RowStep, \A r \in Regs : Exists(r) => Exists(r)',
         UNCHANGED <<known, link, proof>>
  PROVE  Written /\ NoNewLink
<1>1. LinkTypes /\ ForeignKeys
  BY TypeParts
<1>2. LinkTypes' /\ ForeignKeys'
  BY <1>1 DEF LinkTypes, ForeignKeys
<1>3. QED
  BY <1>2 DEF Written, Kept, NoNewLink

LEMMA ClaimsLinks ==
  ASSUME TypeOK, RowStep, \A r \in Regs : Exists(r) => Exists(r)', NEW k \in Collections,
         NEW r \in Regs, Exists(r)', Claims(k, r, "form")
  PROVE  /\ Written /\ k \in known'
         /\ \A j \in Collections, q \in Regs :
              link'[j][q] = "REGISTRATION" => link[j][q] = "REGISTRATION" \/ (j = k /\ q = r)
<1>1. LinkTypes /\ ForeignKeys
  BY TypeParts
<1>2. /\ link'[k][r] = "REGISTRATION" /\ proof'[k][r] = "form"
      /\ \A j \in Collections, q \in Regs : j # k \/ q # r =>
           link'[j][q] = link[j][q] /\ proof'[j][q] = proof[j][q]
  BY <1>1 DEF Claims, LinkTypes
<1>3. LinkTypes'
  BY <1>1 DEF Claims, LinkTypes, Proofs
<1>4. known' = known \cup {k}
  BY DEF Claims
<1>5. ForeignKeys'
  BY <1>1, <1>2, <1>4 DEF ForeignKeys
<1>6. Kept
  BY <1>2 DEF Kept
<1>7. QED
  BY <1>2, <1>3, <1>4, <1>5, <1>6 DEF Written

LEMMA DeletesLinks ==
  ASSUME TypeOK, NEW r \in Regs, Removable(r), Deletes(r)
  PROVE  Written /\ NoNewLink /\ \A q \in Regs : row'[q].contact = row[q].contact
<1>1. LinkTypes /\ ForeignKeys /\ row \in [Regs -> Row] /\ row[r] \in Row
  BY TypeParts
<1> DEFINE x == [row[r] EXCEPT !.status = "gone"]
<1>2. x \in Row /\ x.status = "gone" /\ x.duck = row[r].duck /\ x.rev = row[r].rev
      /\ x.contact = row[r].contact /\ x.rev \in Nat
  BY <1>1, CollectionAssumption DEF Row
<1>3. row' = [row EXCEPT ![r] = x]
  BY <1>1 DEF Deletes
<1> HIDE DEF x
<1>4. RowMay(r, x)
  BY <1>2 DEF RowMay, Removable, Exists
<1>5. RowStep /\ row'[r] = x /\ \A q \in Regs : q # r => row'[q] = row[q]
  BY <1>1, <1>3, <1>4, RowSet
<1>6. \A q \in Regs : row'[q].contact = row[q].contact
  BY <1>2, <1>5
<1>7. /\ \A j \in Collections : link'[j][r] = "none" /\ proof'[j][r] = None
      /\ \A j \in Collections, q \in Regs : q # r =>
           link'[j][q] = link[j][q] /\ proof'[j][q] = proof[j][q]
  BY <1>1 DEF Deletes, LinkTypes
<1>8. LinkTypes' /\ known' = known
  BY <1>1 DEF Deletes, LinkTypes
<1>9. ForeignKeys'
  BY <1>1, <1>5, <1>7, <1>8 DEF ForeignKeys, Exists
<1>10. Kept /\ NoNewLink
  BY <1>2, <1>5, <1>7 DEF Kept, NoNewLink, Exists
<1>11. QED
  BY <1>5, <1>6, <1>8, <1>9, <1>10 DEF Written

\* A tab's batch, committed or refused.
NewLinkOf(t) ==
  \A k \in Collections, r \in Regs : link'[k][r] = "REGISTRATION" =>
    \/ link[k][r] = "REGISTRATION"
    \/ req[t].op = "register" /\ k = req[t].k /\ r = req[t].r
EditOf(t) ==
  \A r \in Regs : row'[r].contact # row[r].contact =>
    /\ r = req[t].r /\ req[t].op = "contact"
    /\ req[t].rev = row[r].rev /\ row'[r].contact = t
ReqOf(t) ==
  \/ req' = [req EXCEPT ![t] = Idle]
  \/ /\ req' = [req EXCEPT ![t] = [req[t] EXCEPT !.at = "answer"]]
     /\ req[t].k \in known'
Committed(t) ==
  /\ req[t] \in Public /\ req[t].at = "commit" /\ req[t].op \in Writes
  /\ req[t].r \in Regs /\ req[t].k \in Collections
  /\ Written /\ NewLinkOf(t) /\ EditOf(t) /\ ReqOf(t)

LEMMA SucceedsReq ==
  ASSUME ReqTypes, NEW t \in Tabs, Succeeds(t),
         req[t].op \in {"register", "follow", "mint"} => req[t].k \in known'
  PROVE  ReqOf(t)
  BY DEF Succeeds, ReqOf, ReqTypes

LEMMA SameRows ==
  ASSUME row \in [Regs -> Row], row' = row
  PROVE  RowStep /\ (\A r \in Regs : Exists(r) => Exists(r)')
         /\ \A r \in Regs : row'[r].contact = row[r].contact
  BY RowStays DEF Exists

LEMMA RefusedCommit ==
  ASSUME TypeOK, NEW t \in Tabs, Refused(t)
  PROVE  Written /\ NewLinkOf(t) /\ EditOf(t) /\ ReqOf(t)
<1>1. row \in [Regs -> Row] /\ row' = row /\ UNCHANGED <<known, link, proof>>
  BY TypeParts DEF Refused
<1>2. Written /\ NoNewLink /\ \A r \in Regs : row'[r].contact = row[r].contact
  BY <1>1, SameRows, LinksStay
<1>3. QED
  BY <1>2 DEF Refused, ReqOf, NewLinkOf, NoNewLink, EditOf

\* A commit that only writes the request's row.
LEMMA RowCommit ==
  ASSUME TypeOK, NEW t \in Tabs, NEW r \in Regs, r = req[t].r, NEW x, RowMay(r, x),
         row' = [row EXCEPT ![r] = x], Exists(r), x.status # "gone",
         x.contact # row[r].contact => /\ req[t].op = "contact" /\ req[t].rev = row[r].rev
                                       /\ x.contact = t,
         UNCHANGED <<known, link, proof>>, Succeeds(t),
         req[t].op \notin {"register", "follow", "mint"}
  PROVE  Written /\ NewLinkOf(t) /\ EditOf(t) /\ ReqOf(t)
<1>1. row \in [Regs -> Row] /\ ReqTypes
  BY TypeParts
<1>2. RowStep /\ row'[r] = x /\ \A q \in Regs : q # r => row'[q] = row[q]
  BY <1>1, RowSet
<1>3. \A q \in Regs : Exists(q) => Exists(q)'
  BY <1>2 DEF Exists, RowMay
<1>4. Written /\ NoNewLink
  BY <1>2, <1>3, LinksStay
<1>5. EditOf(t)
  BY <1>2 DEF EditOf
<1>6. ReqOf(t)
  BY <1>1, SucceedsReq
<1>7. QED
  BY <1>4, <1>5, <1>6 DEF NewLinkOf, NoNewLink

LEMMA CommitIsCommitted ==
  ASSUME TypeOK, Carries, NEW t \in Tabs, Commit(t)
  PROVE  Committed(t) /\ UNCHANGED <<cookie, store, told>>
<1>0. row \in [Regs -> Row] /\ ReqTypes /\ LinkTypes /\ ForeignKeys
  BY TypeParts
<1>1. req[t] \in Public /\ req[t] # Idle
  BY <1>0 DEF Commit, ReqTypes, Idle
<1>13. /\ req[t].at = "commit" /\ req[t].op \in Writes
       /\ req[t].r \in Regs /\ req[t].k \in Collections
  BY <1>1 DEF Commit, Carries, Public
<1>2. PICK k \in Collections, r \in Regs : k = req[t].k /\ r = req[t].r
  BY <1>13
<1>3. row[r] \in Row
  BY <1>0
<1> SUFFICES Written /\ NewLinkOf(t) /\ EditOf(t) /\ ReqOf(t)
  BY <1>1, <1>13 DEF Committed, Commit
<1>4. CASE Refused(t)
  BY <1>4, RefusedCommit
<1>5. CASE req[t].op = "register" /\ ~Refused(t)
  <2>1. /\ row[r].status # "gone" /\ Claims(k, r, req[t].proof)
        /\ row' = IF row[r].status = "unsent"
                    THEN [row EXCEPT ![r].status = "SUBMITTED"] ELSE row
        /\ Succeeds(t)
    BY <1>2, <1>5 DEF Commit, CommitRegister
  <2>2. req[t].proof = "form"
    BY <1>1, <1>5 DEF Carries
  <2>3. /\ RowStep /\ Exists(r)' /\ \A q \in Regs : Exists(q) => Exists(q)'
        /\ \A q \in Regs : row'[q].contact = row[q].contact
    <3>1. CASE row[r].status = "unsent"
      <4> DEFINE x == [row[r] EXCEPT !.status = "SUBMITTED"]
      <4>1. x \in Row /\ x.status = "SUBMITTED" /\ x.rev = row[r].rev
            /\ x.contact = row[r].contact /\ x.rev \in Nat
        BY <1>3, CollectionAssumption DEF Row
      <4>2. row' = [row EXCEPT ![r] = x]
        BY <1>0, <1>2, <2>1, <3>1
      <4> HIDE DEF x
      <4>3. RowMay(r, x)
        BY <3>1, <4>1 DEF RowMay
      <4>4. RowStep /\ row'[r] = x /\ \A q \in Regs : q # r => row'[q] = row[q]
        BY <1>0, <1>2, <4>2, <4>3, RowSet
      <4>5. QED
        BY <4>1, <4>4 DEF Exists
    <3>2. CASE row[r].status # "unsent"
      BY <1>0, <1>2, <2>1, <3>2, SameRows DEF Exists
    <3>3. QED
      BY <3>1, <3>2
  <2>5. /\ Written /\ k \in known'
        /\ \A j \in Collections, q \in Regs :
             link'[j][q] = "REGISTRATION" => link[j][q] = "REGISTRATION" \/ (j = k /\ q = r)
    BY <2>1, <2>2, <2>3, ClaimsLinks
  <2>6. ReqOf(t)
    BY <1>2, <1>0, <2>1, <2>5, SucceedsReq
  <2>7. QED
    BY <1>2, <1>5, <2>3, <2>5, <2>6 DEF NewLinkOf, EditOf
<1>6. CASE req[t].op = "follow" /\ ~Refused(t)
  <2>1. Exists(r) /\ known' = known \cup {k} /\ Follows(k, r) /\ Succeeds(t) /\ UNCHANGED <<row, proof>>
    BY <1>2, <1>6 DEF Commit, CommitFollow
  <2>3. /\ RowStep /\ \A q \in Regs : Exists(q)' <=> Exists(q)
        /\ \A q \in Regs : row'[q].contact = row[q].contact
    BY <1>0, <2>1, SameRows DEF Exists
  <2>4. /\ link'[k][r] = IF link[k][r] = "none" THEN "FOLLOWED" ELSE link[k][r]
        /\ \A j \in Collections, q \in Regs : j # k \/ q # r => link'[j][q] = link[j][q]
    BY <1>0, <2>1 DEF Follows, LinkTypes
  <2>5. LinkTypes'
    BY <1>0, <2>1 DEF Follows, LinkTypes
  <2>6. ForeignKeys'
    BY <1>0, <2>1, <2>3, <2>4 DEF ForeignKeys
  <2>7. Kept /\ NoNewLink
    BY <2>1, <2>4 DEF Kept, NoNewLink
  <2>8. ReqOf(t)
    BY <1>2, <1>0, <2>1, SucceedsReq
  <2>9. QED
    BY <2>1, <2>3, <2>5, <2>6, <2>7, <2>8 DEF Written, NewLinkOf, NoNewLink, EditOf
<1>7. CASE req[t].op = "unfollow" /\ ~Refused(t)
  <2>1. /\ link[k][r] = "FOLLOWED" /\ link' = [link EXCEPT ![k][r] = "none"]
        /\ Succeeds(t) /\ UNCHANGED <<row, known, proof>>
    BY <1>2, <1>7 DEF Commit, CommitUnfollow
  <2>3. /\ RowStep /\ \A q \in Regs : Exists(q)' <=> Exists(q)
        /\ \A q \in Regs : row'[q].contact = row[q].contact
    BY <1>0, <2>1, SameRows DEF Exists
  <2>4. /\ link'[k][r] = "none"
        /\ \A j \in Collections, q \in Regs : j # k \/ q # r => link'[j][q] = link[j][q]
    BY <1>0, <2>1 DEF LinkTypes
  <2>5. LinkTypes'
    BY <1>0, <2>1 DEF LinkTypes
  <2>6. ForeignKeys'
    BY <1>0, <2>1, <2>3, <2>4 DEF ForeignKeys
  <2>7. Kept /\ NoNewLink
    BY <2>1, <2>4 DEF Kept, NoNewLink
  <2>8. ReqOf(t)
    BY <1>0, <1>7, <2>1, SucceedsReq
  <2>9. QED
    BY <2>1, <2>3, <2>5, <2>6, <2>7, <2>8 DEF Written, NewLinkOf, NoNewLink, EditOf
<1>8. CASE req[t].op = "delete" /\ ~Refused(t)
  <2>1. Removable(r) /\ Deletes(r) /\ Succeeds(t)
    BY <1>2, <1>8 DEF Commit, CommitDelete
  <2>2. Written /\ NoNewLink /\ \A q \in Regs : row'[q].contact = row[q].contact
    BY <1>2, <2>1, DeletesLinks
  <2>3. ReqOf(t)
    BY <1>0, <1>8, <2>1, SucceedsReq
  <2>4. QED
    BY <2>2, <2>3 DEF NewLinkOf, NoNewLink, EditOf
<1>9. CASE req[t].op = "mint" /\ ~Refused(t)
  <2>1. /\ Exists(r) /\ link[k][r] = "REGISTRATION" /\ proof[k][r] \in {None, t}
        /\ proof' = [proof EXCEPT ![k][r] = t]
        /\ Succeeds(t) /\ UNCHANGED <<row, known, link>>
    BY <1>2, <1>9 DEF Commit, CommitMint
  <2>3. /\ RowStep /\ \A q \in Regs : Exists(q)' <=> Exists(q)
        /\ \A q \in Regs : row'[q].contact = row[q].contact
    BY <1>0, <2>1, SameRows DEF Exists
  <2>4. /\ proof'[k][r] = t
        /\ \A j \in Collections, q \in Regs : j # k \/ q # r => proof'[j][q] = proof[j][q]
    BY <1>0, <2>1 DEF LinkTypes
  <2>5. LinkTypes'
    BY <1>0, <2>1 DEF LinkTypes, Proofs
  <2>6. ForeignKeys'
    BY <1>0, <2>1, <2>3 DEF ForeignKeys
  <2>7. Kept /\ NoNewLink
    BY <2>1, <2>4 DEF Kept, NoNewLink
  <2>8. k \in known
    BY <1>0, <2>1 DEF ForeignKeys
  <2>9. ReqOf(t)
    BY <1>2, <1>0, <2>1, <2>8, SucceedsReq
  <2>10. QED
    BY <2>1, <2>3, <2>5, <2>6, <2>7, <2>9 DEF Written, NewLinkOf, NoNewLink, EditOf
<1>10. CASE req[t].op = "contact" /\ ~Refused(t)
  <2> DEFINE x == [row[r] EXCEPT !.contact = t, !.rev = row[r].rev + 1]
  <2>1. /\ Exists(r) /\ row[r].rev = req[t].rev /\ row[r].rev < MaxRev
        /\ row' = [row EXCEPT ![r].contact = t, ![r].rev = @ + 1]
        /\ Succeeds(t) /\ UNCHANGED <<known, link, proof>>
    BY <1>2, <1>10 DEF Commit, CommitContact, ContactStands, Owned
  <2>2. row' = [row EXCEPT ![r] = x]
    BY <1>0, <1>2, <2>1
  <2>3. RowMay(r, x) /\ x.status # "gone" /\ x.contact = t
    <3>1. row[r].rev + 1 \in 0..MaxRev /\ row[r].status \in {"SUBMITTED", "ACTIVE", "OUT"}
      BY <1>3, <2>1, Fields
    <3>2. /\ x \in Row /\ x.status = row[r].status /\ x.contact = t
          /\ x.rev = row[r].rev + 1
      BY <1>3, <3>1 DEF Row
    <3> HIDE DEF x
    <3>3. QED
      BY <1>3, <2>1, <3>1, <3>2, Alters
  <2> HIDE DEF x
  <2>4. QED
    BY <1>2, <1>10, <2>1, <2>2, <2>3, RowCommit
<1>11. CASE req[t].op = "name" /\ ~Refused(t)
  <2> DEFINE x == [row[r] EXCEPT !.named = TRUE]
  <2>1. /\ Exists(r) /\ row' = [row EXCEPT ![r].named = TRUE]
        /\ Succeeds(t) /\ UNCHANGED <<known, link, proof>>
    BY <1>2, <1>11 DEF Commit, CommitName, Nameable
  <2>2. row' = [row EXCEPT ![r] = x]
    BY <1>0, <1>2, <2>1
  <2>3. RowMay(r, x) /\ x.status # "gone" /\ x.contact = row[r].contact
    <3>1. row[r].status \in {"SUBMITTED", "ACTIVE", "OUT"}
      BY <1>3, <2>1, Fields
    <3>2. /\ x \in Row /\ x.status = row[r].status /\ x.contact = row[r].contact
          /\ x.rev = row[r].rev
      BY <1>3, <3>1 DEF Row
    <3> HIDE DEF x
    <3>3. QED
      BY <1>3, <2>1, <3>1, <3>2, Alters
  <2> HIDE DEF x
  <2>4. QED
    BY <1>2, <1>11, <2>1, <2>2, <2>3, RowCommit
<1>12. QED
  BY <1>13, <1>4, <1>5, <1>6, <1>7, <1>8, <1>9, <1>10, <1>11 DEF Writes

\* The desk's batches, and what else happens to a row.
EditedByDesk == \A r \in Regs : row'[r].contact # row[r].contact => row'[r].contact = "desk"
ByDesk == Written /\ NoNewLink /\ EditedByDesk

LEMMA RowByDesk ==
  ASSUME TypeOK, NEW r \in Regs, Exists(r), NEW x \in Row,
         x.status \in {"SUBMITTED", "ACTIVE", "OUT"},
         \/ x.rev = row[r].rev + 1
         \/ x.rev = row[r].rev /\ x.contact = row[r].contact,
         x.contact \in {row[r].contact, "desk"},
         row' = [row EXCEPT ![r] = x], UNCHANGED <<known, link, proof>>
  PROVE  ByDesk
<1>1. row \in [Regs -> Row]
  BY TypeParts
<1>2. RowMay(r, x)
  BY <1>1, Alters
<1>3. RowStep /\ row'[r] = x /\ \A q \in Regs : q # r => row'[q] = row[q]
  BY <1>1, <1>2, RowSet
<1>4. \A q \in Regs : Exists(q) => Exists(q)'
  BY <1>3 DEF Exists
<1>5. Written /\ NoNewLink
  BY <1>3, <1>4, LinksStay
<1>6. EditedByDesk
  BY <1>3 DEF EditedByDesk
<1>7. QED
  BY <1>5, <1>6 DEF ByDesk

LEMMA NothingByDesk ==
  ASSUME TypeOK, UNCHANGED <<row, known, link, proof>> PROVE ByDesk
<1>1. row \in [Regs -> Row]
  BY TypeParts
<1>2. Written /\ NoNewLink /\ \A r \in Regs : row'[r].contact = row[r].contact
  BY <1>1, SameRows, LinksStay
<1>3. QED
  BY <1>2 DEF ByDesk, EditedByDesk

LEMMA DeskIsByDesk ==
  ASSUME TypeOK, NEW s \in Staff, DeskCommits(s)
  PROVE  ByDesk /\ req' = [req EXCEPT ![s] = Idle] /\ UNCHANGED <<cookie, store, told>>
<1>1. row \in [Regs -> Row] /\ ReqTypes
  BY TypeParts
<1>2. req[s] \in Desk
  BY <1>1 DEF DeskCommits, ReqTypes
<1>3. PICK r \in Regs : r = req[s].r
  BY <1>2 DEF Desk
<1>4. row[r] \in Row
  BY <1>1
<1>5. CASE DeskPairs(r)
  <2> DEFINE x == [row[r] EXCEPT !.status = "ACTIVE", !.duck = "held", !.rev = row[r].rev + 1]
  <2>1. Exists(r) /\ row[r].rev < MaxRev /\ UNCHANGED <<known, link, proof>>
    BY <1>5 DEF DeskPairs, Bumped
  <2>2. row' = [row EXCEPT ![r] = x]
    BY <1>1, <1>5 DEF DeskPairs
  <2>3. row[r].rev + 1 \in 0..MaxRev
    BY <1>4, <2>1, Fields
  <2>4. /\ x \in Row /\ x.status = "ACTIVE" /\ x.rev = row[r].rev + 1
        /\ x.contact = row[r].contact
    BY <1>4, <2>3 DEF Row
  <2> HIDE DEF x
  <2>5. QED
    BY <2>1, <2>2, <2>4, RowByDesk, <1>2 DEF DeskCommits
<1>6. CASE DeskEdits(s, r)
  <2> DEFINE x == [row[r] EXCEPT !.contact = "desk", !.rev = row[r].rev + 1]
  <2>1. Exists(r) /\ row[r].rev < MaxRev /\ UNCHANGED <<known, link, proof>>
    BY <1>6 DEF DeskEdits, Bumped
  <2>2. row' = [row EXCEPT ![r] = x]
    BY <1>1, <1>6 DEF DeskEdits
  <2>3. row[r].rev + 1 \in 0..MaxRev /\ row[r].status \in {"SUBMITTED", "ACTIVE", "OUT"}
    BY <1>4, <2>1, Fields
  <2>4. /\ x \in Row /\ x.status = row[r].status /\ x.rev = row[r].rev + 1
        /\ x.contact = "desk"
    BY <1>4, <2>3 DEF Row
  <2> HIDE DEF x
  <2>5. QED
    BY <2>1, <2>2, <2>3, <2>4, RowByDesk DEF DeskCommits
<1>7. CASE DeskNames(r)
  <2> DEFINE x == [row[r] EXCEPT !.named = TRUE]
  <2>1. Exists(r) /\ UNCHANGED <<known, link, proof>>
    BY <1>7 DEF DeskNames
  <2>2. row' = [row EXCEPT ![r] = x]
    BY <1>1, <1>7 DEF DeskNames
  <2>3. row[r].status \in {"SUBMITTED", "ACTIVE", "OUT"}
    BY <1>4, <2>1, Fields
  <2>4. /\ x \in Row /\ x.status = row[r].status /\ x.rev = row[r].rev
        /\ x.contact = row[r].contact
    BY <1>4 DEF Row
  <2> HIDE DEF x
  <2>5. QED
    BY <2>1, <2>2, <2>3, <2>4, RowByDesk DEF DeskCommits
<1>8. CASE DeskDeletes(s, r)
  <2>1. Removable(r) /\ Deletes(r)
    BY <1>8 DEF DeskDeletes
  <2>2. QED
    BY <2>1, DeletesLinks DEF ByDesk, EditedByDesk, DeskCommits
<1>9. CASE UNCHANGED <<row, known, link, proof>>
  BY <1>9, NothingByDesk DEF DeskCommits
<1>10. QED
  BY <1>3, <1>5, <1>6, <1>7, <1>8, <1>9 DEF DeskCommits

LEMMA RowIsByDesk ==
  ASSUME TypeOK, NEW r \in Regs, ClearName(r) \/ TakeDuck(r) \/ Leave(r)
  PROVE  ByDesk /\ UNCHANGED <<cookie, store, req, told>>
<1>1. row \in [Regs -> Row]
  BY TypeParts
<1>4. row[r] \in Row
  BY <1>1
<1>5. CASE ClearName(r)
  <2> DEFINE x == [row[r] EXCEPT !.named = FALSE]
  <2>1. Exists(r) /\ UNCHANGED <<known, link, proof>>
    BY <1>5 DEF ClearName
  <2>2. row' = [row EXCEPT ![r] = x]
    BY <1>1, <1>5 DEF ClearName
  <2>3. row[r].status \in {"SUBMITTED", "ACTIVE", "OUT"}
    BY <1>4, <2>1, Fields
  <2>4. /\ x \in Row /\ x.status = row[r].status /\ x.rev = row[r].rev
        /\ x.contact = row[r].contact
    BY <1>4 DEF Row
  <2> HIDE DEF x
  <2>5. QED
    BY <1>5, <2>1, <2>2, <2>3, <2>4, RowByDesk DEF ClearName
<1>6. CASE TakeDuck(r)
  <2>1. Exists(r) /\ row[r].rev < MaxRev /\ UNCHANGED <<known, link, proof>>
    BY <1>6 DEF TakeDuck, Bumped, Exists
  <2>2. PICK keeps \in {row[r].named, FALSE} :
          row' = [row EXCEPT ![r].status = "SUBMITTED", ![r].duck = "ended",
                             ![r].named = keeps, ![r].rev = @ + 1]
    BY <1>6 DEF TakeDuck
  <2> DEFINE x == [row[r] EXCEPT !.status = "SUBMITTED", !.duck = "ended",
                                 !.named = keeps, !.rev = row[r].rev + 1]
  <2>3. row' = [row EXCEPT ![r] = x]
    BY <1>1, <2>2
  <2>4. row[r].rev + 1 \in 0..MaxRev /\ keeps \in BOOLEAN
    BY <1>4, <2>1, Fields DEF Row
  <2>5. /\ x \in Row /\ x.status = "SUBMITTED" /\ x.rev = row[r].rev + 1
        /\ x.contact = row[r].contact
    BY <1>4, <2>4 DEF Row
  <2> HIDE DEF x
  <2>6. QED
    BY <1>6, <2>1, <2>3, <2>5, RowByDesk DEF TakeDuck
<1>7. CASE Leave(r)
  <2> DEFINE x == [row[r] EXCEPT !.status = "OUT", !.rev = row[r].rev + 1]
  <2>1. Exists(r) /\ row[r].rev < MaxRev /\ UNCHANGED <<known, link, proof>>
    BY <1>7 DEF Leave, Bumped, Exists
  <2>2. row' = [row EXCEPT ![r] = x]
    BY <1>1, <1>7 DEF Leave
  <2>3. row[r].rev + 1 \in 0..MaxRev
    BY <1>4, <2>1, Fields
  <2>4. /\ x \in Row /\ x.status = "OUT" /\ x.rev = row[r].rev + 1
        /\ x.contact = row[r].contact
    BY <1>4, <2>3 DEF Row
  <2> HIDE DEF x
  <2>5. QED
    BY <1>7, <2>1, <2>2, <2>4, RowByDesk DEF Leave
<1>8. QED
  BY <1>5, <1>6, <1>7

-----------------------------------------------------------------------------
(* Every step is one of five.                                                *)

\* The desk, or what befalls a row: no tab's request moves.
DeskStep == /\ ByDesk /\ ReqTypes' /\ \A t \in Tabs : req'[t] = req[t]
            /\ UNCHANGED <<cookie, store, told>>
Batch(t) == Committed(t) /\ UNCHANGED <<cookie, store, told>>

LEMMA ReadsAreDeskStep ==
  ASSUME TypeOK, NEW s \in Staff, NEW op \in {"pair", "edit", "delete", "name"},
         NEW r \in Regs, DeskReads(s, op, r)
  PROVE  DeskStep
<1> DEFINE n == IF op \in {"edit", "delete"} THEN row[r].rev ELSE 0
           q == [at |-> "commit", op |-> op, r |-> r, rev |-> n]
<1>1. row \in [Regs -> Row] /\ ReqTypes /\ row[r] \in Row
  BY TypeParts
<1>2. n \in 0..MaxRev
  BY <1>1, Fields, CollectionAssumption
<1>3. req' = [req EXCEPT ![s] = q] /\ UNCHANGED <<row, known, link, proof, cookie, store, told>>
  BY DEF DeskReads
<1> HIDE DEF n
<1>4. q \in Desk
  BY <1>2 DEF Desk
<1> HIDE DEF q
<1>5. ReqTypes' /\ \A c \in Tabs \cup Staff : c # s => req'[c] = req[c]
  BY <1>1, <1>3, <1>4, StaffSet
<1>6. ByDesk
  BY <1>3, NothingByDesk
<1>7. QED
  BY <1>3, <1>5, <1>6, CollectionAssumption DEF DeskStep

LEMMA Steps ==
  ASSUME TypeOK, Carries, [Next]_vars
  PROVE  \/ \E t \in Tabs : \E q : Sent(t, q)
         \/ \E t \in Tabs : Batch(t)
         \/ \E t \in Tabs : Answer(t)
         \/ \E t \in Tabs : Lost(t)
         \/ DeskStep
<1>0. ReqTypes
  BY TypeParts
<1>1. ASSUME NEW t \in Tabs, Page(t) PROVE \E q : Sent(t, q)
  BY <1>1, PageSends
<1>2. ASSUME NEW t \in Tabs, Commit(t) PROVE Batch(t)
  BY <1>2, CommitIsCommitted DEF Batch
<1>3. ASSUME NEW s \in Staff, DeskCommits(s) PROVE DeskStep
  <2>1. ByDesk /\ req' = [req EXCEPT ![s] = Idle] /\ UNCHANGED <<cookie, store, told>>
    BY <1>3, DeskIsByDesk
  <2>2. ReqTypes' /\ \A c \in Tabs \cup Staff : c # s => req'[c] = req[c]
    BY <1>0, <2>1, StaffSet
  <2>3. QED
    BY <2>1, <2>2, CollectionAssumption DEF DeskStep
<1>4. ASSUME NEW s \in Staff, NEW op \in {"pair", "edit", "delete", "name"}, NEW r \in Regs,
             DeskReads(s, op, r)
      PROVE  DeskStep
  BY <1>4, ReadsAreDeskStep
<1>5. ASSUME NEW r \in Regs, ClearName(r) \/ TakeDuck(r) \/ Leave(r) PROVE DeskStep
  <2>1. ByDesk /\ UNCHANGED <<cookie, store, req, told>>
    BY <1>5, RowIsByDesk
  <2>2. ReqTypes'
    BY <1>0, <2>1 DEF ReqTypes
  <2>3. QED
    BY <2>1, <2>2 DEF DeskStep
<1>6. ASSUME UNCHANGED vars PROVE DeskStep
  <2>1. UNCHANGED <<row, known, link, proof, cookie, store, req, told>>
    BY <1>6 DEF vars
  <2>2. ReqTypes'
    BY <1>0, <2>1 DEF ReqTypes
  <2>3. QED
    BY <2>1, <2>2, NothingByDesk DEF DeskStep
<1>7. QED
  BY <1>1, <1>2, <1>3, <1>4, <1>5, <1>6 DEF Next

\* The request of a committed tab afterwards.
LEMMA BatchReq ==
  ASSUME TypeOK, NEW t \in Tabs, Committed(t)
  PROVE  /\ ReqTypes'
         /\ \A c \in Tabs : c # t => req'[c] = req[c]
         /\ \/ req'[t] = Idle
            \/ /\ req'[t] # Idle /\ req'[t].at = "answer" /\ req'[t].op = req[t].op
               /\ req'[t].k = req[t].k /\ req'[t].r = req[t].r
               /\ req'[t].proof = req[t].proof /\ req[t].k \in known'
<1>0. ReqTypes /\ req[t] \in Public
  BY TypeParts DEF Committed
<1>1. CASE req' = [req EXCEPT ![t] = Idle]
  BY <1>0, <1>1, TabSet
<1>2. CASE /\ req' = [req EXCEPT ![t] = [req[t] EXCEPT !.at = "answer"]]
           /\ req[t].k \in known'
  <2> DEFINE q == [req[t] EXCEPT !.at = "answer"]
  <2>1. q \in Public /\ q.at = "answer" /\ q.op = req[t].op /\ q.k = req[t].k
        /\ q.r = req[t].r /\ q.proof = req[t].proof
    BY <1>0 DEF Public
  <2>2. q # Idle
    BY <2>1 DEF Idle
  <2>3. req' = [req EXCEPT ![t] = q]
    BY <1>2
  <2> HIDE DEF q
  <2>4. ReqTypes' /\ req'[t] = q /\ \A c \in Tabs \cup Staff : c # t => req'[c] = req[c]
    BY <1>0, <2>1, <2>3, TabSet
  <2>5. QED
    BY <1>2, <2>1, <2>2, <2>4
<1>3. QED
  BY <1>1, <1>2 DEF Committed, ReqOf

-----------------------------------------------------------------------------
(* Types.                                                                    *)

LEMMA TypesStay == ASSUME TypeOK, Carries, [Next]_vars PROVE TypeOK'
<1>0. /\ row \in [Regs -> Row] /\ LinkTypes /\ ReqTypes /\ ForeignKeys
      /\ cookie \in [Browsers -> Collections \cup {None}]
      /\ store \in [Browsers -> [Regs -> Proofs \cup {None}]]
      /\ told \in [Browsers -> SUBSET Regs]
  BY TypeParts
<1> DEFINE Rest == /\ cookie' \in [Browsers -> Collections \cup {None}]
                   /\ store' \in [Browsers -> [Regs -> Proofs \cup {None}]]
                   /\ told' \in [Browsers -> SUBSET Regs]
<1>p. ASSUME row' \in [Regs -> Row], LinkTypes', ReqTypes', ForeignKeys', Rest
      PROVE  TypeOK'
  BY <1>p DEF TypeOK, Row, LinkTypes, ReqTypes, ForeignKeys, Proofs
<1>u. ASSUME UNCHANGED <<row, known, link, proof>>
      PROVE  row' \in [Regs -> Row] /\ LinkTypes' /\ ForeignKeys'
  BY <1>0, <1>u DEF LinkTypes, ForeignKeys, Exists
<1>1. ASSUME NEW t \in Tabs, NEW q, Sent(t, q) PROVE TypeOK'
  <2>1. q \in Public /\ req' = [req EXCEPT ![t] = q]
        /\ UNCHANGED <<row, known, link, proof, cookie, store, told>>
    BY <1>1 DEF Sent
  <2>2. ReqTypes'
    BY <1>0, <2>1, TabSet
  <2>3. QED
    BY <1>0, <1>p, <1>u, <2>1, <2>2
<1>2. ASSUME NEW t \in Tabs, Batch(t) PROVE TypeOK'
  <2>1. Written /\ UNCHANGED <<cookie, store, told>> /\ Committed(t)
    BY <1>2 DEF Batch, Committed
  <2>2. QED
    BY <1>0, <1>p, <2>1, BatchReq DEF Written, RowStep
<1>3. ASSUME NEW t \in Tabs, Answer(t) PROVE TypeOK'
  <2> DEFINE b == BrowserOf[t]
             r == req[t].r
  <2>1. req[t] \in Public /\ req' = [req EXCEPT ![t] = Idle]
        /\ UNCHANGED <<row, known, link, proof>>
    BY <1>0, <1>3 DEF Answer, ReqTypes, Idle
  <2>2. ReqTypes'
    BY <1>0, <2>1, TabSet
  <2>3. b \in Browsers /\ r \in Regs /\ req[t].k \in Collections \cup {None}
        /\ req[t].proof \in Proofs \cup {None}
    BY <2>1, CollectionAssumption DEF Public
  <2>4. /\ \/ cookie' = cookie
           \/ cookie' = [cookie EXCEPT ![b] = req[t].k]
        /\ \/ store' = store
           \/ store' = [store EXCEPT ![b][r] = req[t].proof]
        /\ \/ told' = told
           \/ told' = [told EXCEPT ![b] = @ \cup {r}]
    BY <1>3 DEF Answer
  <2> HIDE DEF b, r
  <2>5. cookie' \in [Browsers -> Collections \cup {None}]
    BY <1>0, <2>3, <2>4
  <2>6. store' \in [Browsers -> [Regs -> Proofs \cup {None}]]
    BY <1>0, <2>3, <2>4
  <2>7. told' \in [Browsers -> SUBSET Regs]
    BY <1>0, <2>3, <2>4
  <2>8. QED
    BY <1>p, <1>u, <2>1, <2>2, <2>5, <2>6, <2>7
<1>4. ASSUME NEW t \in Tabs, Lost(t) PROVE TypeOK'
  <2>1. req' = [req EXCEPT ![t] = Idle]
        /\ UNCHANGED <<row, known, link, proof, cookie, store, told>>
    BY <1>4 DEF Lost
  <2>2. ReqTypes'
    BY <1>0, <2>1, TabSet
  <2>3. QED
    BY <1>0, <1>p, <1>u, <2>1, <2>2
<1>5. ASSUME DeskStep PROVE TypeOK'
  BY <1>0, <1>p, <1>5 DEF DeskStep, ByDesk, Written, RowStep
<1>6. QED
  BY <1>1, <1>2, <1>3, <1>4, <1>5, Steps

-----------------------------------------------------------------------------
(* What the requests carry.                                                  *)

\* The tabs' requests stay, or end, except for what t is about to do.
Others(t) == \A c \in Tabs : c # t => req'[c] = req[c]

LEMMA AnswerReq ==
  ASSUME TypeOK, NEW t \in Tabs, Answer(t) \/ Lost(t)
  PROVE  req'[t] = Idle /\ Others(t) /\ req[t] # Idle /\ UNCHANGED <<row, known, link, proof>>
<1>1. ReqTypes
  BY TypeParts
<1>2. req' = [req EXCEPT ![t] = Idle] /\ UNCHANGED <<row, known, link, proof>> /\ req[t] # Idle
  BY DEF Answer, Lost, Idle
<1>3. QED
  BY <1>1, <1>2, TabSet DEF Others

LEMMA SentReq ==
  ASSUME TypeOK, NEW t \in Tabs, NEW q, Sent(t, q)
  PROVE  /\ req'[t] = q /\ q # Idle /\ Others(t)
         /\ UNCHANGED <<row, known, link, proof, cookie, store, told>>
<1>1. ReqTypes /\ q \in Public /\ req' = [req EXCEPT ![t] = q]
  BY TypeParts DEF Sent
<1>2. q # Idle
  BY <1>1 DEF Sent, Idle
<1>3. QED
  BY <1>1, <1>2, TabSet DEF Others, Sent

\* A request in flight carries what its commit relies on.
CarriesAt(q, ks) ==
  /\ q.at = "commit" => q.op \in Writes
  /\ q.op \in Writes => q.k \in Collections
  /\ q.op = "register" => q.proof = "form"
  /\ q.at = "answer" => q.k \in ks \cup {None}

LEMMA CarriesStay ==
  ASSUME TypeOK, Carries, [Next]_vars
  PROVE  Carries'
<1>c. ASSUME NEW t \in Tabs, Others(t), known \subseteq known',
             req'[t] # Idle => /\ CarriesAt(req'[t], known')
                               /\ req'[t].op = "register" => BrowserOf[t] = Author[req'[t].r]
      PROVE  Carries'
  BY <1>c DEF Carries, Others, CarriesAt
<1>1. ASSUME NEW t \in Tabs, NEW q, Sent(t, q) PROVE Carries'
  <2>1. req'[t] = q /\ Others(t) /\ known' = known
    BY <1>1, SentReq
  <2>2. q.at = "commit" => q.op \in Writes
    BY <1>1 DEF Sent
  <2>3. q.op \in Writes => q.k \in Collections
    BY <1>1 DEF Sent, Writes
  <2>4. q.at = "answer" => q.k \in known \cup {None}
    BY <1>1 DEF Sent
  <2>5. q.op = "register" => q.proof = "form" /\ BrowserOf[t] = Author[q.r]
    BY <1>1 DEF Sent
  <2>6. QED
    BY <1>c, <2>1, <2>2, <2>3, <2>4, <2>5 DEF CarriesAt
<1>2. ASSUME NEW t \in Tabs, Batch(t) PROVE Carries'
  <2>1. Committed(t) /\ known \subseteq known' /\ req[t] # Idle
    BY <1>2 DEF Batch, Committed, Written, Idle
  <2>2. /\ req[t].op \in Writes => req[t].k \in Collections
        /\ req[t].op = "register" => req[t].proof = "form" /\ BrowserOf[t] = Author[req[t].r]
    BY <2>1 DEF Carries
  <2>3. Others(t)
    BY <2>1, BatchReq DEF Others
  <2>4. \/ req'[t] = Idle
        \/ /\ req'[t] # Idle /\ req'[t].at = "answer" /\ req'[t].op = req[t].op
           /\ req'[t].k = req[t].k /\ req'[t].r = req[t].r
           /\ req'[t].proof = req[t].proof /\ req[t].k \in known'
    BY <2>1, BatchReq
  <2>5. QED
    BY <1>c, <2>1, <2>2, <2>3, <2>4 DEF CarriesAt
<1>3. ASSUME NEW t \in Tabs, Answer(t) \/ Lost(t) PROVE Carries'
  <2>1. req'[t] = Idle /\ Others(t) /\ known' = known
    BY <1>3, AnswerReq
  <2>2. QED
    BY <1>c, <2>1
<1>4. ASSUME DeskStep PROVE Carries'
  BY <1>4 DEF DeskStep, ByDesk, Written, Carries
<1>5. QED
  BY <1>1, <1>2, <1>3, <1>4, Steps

LEMMA CookiesStayKnown ==
  ASSUME TypeOK, Carries, CookiesKnown, [Next]_vars
  PROVE  CookiesKnown'
<1>c. ASSUME cookie' = cookie, known \subseteq known' PROVE CookiesKnown'
  BY <1>c DEF CookiesKnown
<1>1. ASSUME NEW t \in Tabs, NEW q, Sent(t, q) PROVE CookiesKnown'
  BY <1>1, <1>c, SentReq
<1>2. ASSUME NEW t \in Tabs, Batch(t) PROVE CookiesKnown'
  BY <1>2, <1>c DEF Batch, Committed, Written
<1>3. ASSUME NEW t \in Tabs, Answer(t) PROVE CookiesKnown'
  <2>1. known' = known /\ req[t] # Idle
    BY <1>3, AnswerReq
  <2>2. req[t].k \in known \cup {None}
    BY <1>3, <2>1 DEF Answer, Carries
  <2>3. cookie' = cookie \/ cookie' = [cookie EXCEPT ![BrowserOf[t]] = req[t].k]
    BY <1>3 DEF Answer
  <2>4. cookie \in [Browsers -> Collections \cup {None}]
    BY TypeParts
  <2>5. QED
    BY <2>1, <2>2, <2>3, <2>4 DEF CookiesKnown
<1>4. ASSUME NEW t \in Tabs, Lost(t) PROVE CookiesKnown'
  BY <1>4, <1>c DEF Lost
<1>5. ASSUME DeskStep PROVE CookiesKnown'
  BY <1>5, <1>c DEF DeskStep, ByDesk, Written
<1>6. QED
  BY <1>1, <1>2, <1>3, <1>4, <1>5, Steps

-----------------------------------------------------------------------------
(* Whose a collection is.                                                    *)

\* Nobody comes to use a collection but the browser that makes it, and only its
\* browser's own registrations come to be claimed in it.
NoNewUse == \A k \in Collections, b \in Browsers : Uses(b, k)' => Uses(b, k)
NewLinksOwned ==
  \A k \in Collections, r \in Regs : link'[k][r] = "REGISTRATION" =>
    \/ link[k][r] = "REGISTRATION"
    \/ Uses(Author[r], k)

LEMMA OwnersStay ==
  ASSUME OneBrowser, LinksOwned, NoNewUse, NewLinksOwned, Author \in [Regs -> Browsers]
  PROVE  OneBrowser' /\ LinksOwned'
<1>1. OneBrowser'
  <2> SUFFICES ASSUME NEW k \in Collections, NEW a \in Browsers, NEW b \in Browsers,
                      Uses(a, k)', Uses(b, k)'
               PROVE  a = b
    BY DEF OneBrowser
  <2>1. Uses(a, k) /\ Uses(b, k)
    BY DEF NoNewUse
  <2>2. QED
    BY <2>1 DEF OneBrowser
<1>2. LinksOwned'
  <2> SUFFICES ASSUME NEW k \in Collections, NEW r \in Regs, link'[k][r] = "REGISTRATION",
                      NEW b \in Browsers, Uses(b, k)'
               PROVE  b = Author[r]
    BY DEF LinksOwned
  <2>1. Uses(b, k) /\ Author[r] \in Browsers
    BY DEF NoNewUse
  <2>2. QED
    BY <2>1 DEF NewLinksOwned, LinksOwned, OneBrowser
<1>3. QED
  BY <1>1, <1>2

LEMMA OwnersStayInStep ==
  ASSUME TypeOK, Carries, CookiesKnown, OneBrowser, LinksOwned, [Next]_vars
  PROVE  OneBrowser' /\ LinksOwned'
<1>0. LinkTypes /\ ForeignKeys /\ cookie \in [Browsers -> Collections \cup {None}]
      /\ Author \in [Regs -> Browsers] /\ BrowserOf \in [Tabs -> Browsers]
  BY TypeParts, CollectionAssumption
<1>1. ASSUME NEW t \in Tabs, NEW q, Sent(t, q) PROVE OneBrowser' /\ LinksOwned'
  <2>1. /\ req'[t] = q /\ q # Idle /\ Others(t) /\ link' = link /\ cookie' = cookie
        /\ known' = known
    BY <1>1, SentReq
  <2>2. \A b \in Browsers, k \in Collections :
          Uses(b, k)' => Uses(b, k) \/ (k = q.k /\ b = BrowserOf[t])
    BY <2>1 DEF Uses, Others
  <2>3. CASE q.k = None \/ q.k = Jar(t)
    <3>1. NoNewUse
      BY <1>0, <2>2, <2>3, CollectionAssumption DEF NoNewUse, Uses, Jar
    <3>2. NewLinksOwned
      BY <2>1 DEF NewLinksOwned
    <3>3. QED
      BY <1>0, <3>1, <3>2, OwnersStay
  <2>4. CASE q.k \in Fresh
    <3>1. q.k \in Collections /\ q.k \notin known
          /\ \A u \in Tabs : req[u] # Idle => req[u].k # q.k
      BY <2>4 DEF Fresh
    <3>2. \A b \in Browsers : cookie[b] # q.k
      BY <3>1, CollectionAssumption DEF CookiesKnown
    <3>3. \A b \in Browsers : ~Uses(b, q.k)
      BY <3>1, <3>2 DEF Uses
    <3>4. \A r \in Regs : link[q.k][r] # "REGISTRATION"
      BY <1>0, <3>1 DEF ForeignKeys
    <3>5. OneBrowser'
      <4> SUFFICES ASSUME NEW k \in Collections, NEW a \in Browsers, NEW b \in Browsers,
                          Uses(a, k)', Uses(b, k)'
                   PROVE  a = b
        BY DEF OneBrowser
      <4>1. CASE k = q.k
        BY <2>2, <3>3, <4>1
      <4>2. CASE k # q.k
        BY <2>2, <4>2 DEF OneBrowser
      <4>3. QED
        BY <4>1, <4>2
    <3>6. LinksOwned'
      <4> SUFFICES ASSUME NEW k \in Collections, NEW r \in Regs, link'[k][r] = "REGISTRATION",
                          NEW b \in Browsers, Uses(b, k)'
                   PROVE  b = Author[r]
        BY DEF LinksOwned
      <4>1. k # q.k /\ link[k][r] = "REGISTRATION"
        BY <2>1, <3>4
      <4>2. QED
        BY <2>2, <4>1 DEF LinksOwned
    <3>7. QED
      BY <3>5, <3>6
  <2>5. QED
    BY <1>1, <2>3, <2>4 DEF Sent
<1>2. ASSUME NEW t \in Tabs, Batch(t) PROVE OneBrowser' /\ LinksOwned'
  <2>1. Committed(t) /\ NewLinkOf(t) /\ cookie' = cookie /\ req[t] # Idle
    BY <1>2 DEF Batch, Committed, Idle
  <2>2. /\ \A c \in Tabs : c # t => req'[c] = req[c]
        /\ req'[t] # Idle => req'[t].k = req[t].k
    BY <2>1, BatchReq
  <2>3. NoNewUse
    BY <2>1, <2>2 DEF NoNewUse, Uses
  <2>4. NewLinksOwned
    <3> SUFFICES ASSUME NEW k \in Collections, NEW r \in Regs, link'[k][r] = "REGISTRATION",
                        link[k][r] # "REGISTRATION"
                 PROVE  Uses(Author[r], k)
      BY DEF NewLinksOwned
    <3>1. req[t].op = "register" /\ k = req[t].k /\ r = req[t].r
      BY <2>1 DEF NewLinkOf
    <3>2. BrowserOf[t] = Author[r]
      BY <2>1, <3>1 DEF Carries
    <3>3. QED
      BY <2>1, <3>1, <3>2 DEF Uses
  <2>5. QED
    BY <1>0, <2>3, <2>4, OwnersStay
<1>3. ASSUME NEW t \in Tabs, Answer(t) \/ Lost(t) PROVE OneBrowser' /\ LinksOwned'
  <2>1. req'[t] = Idle /\ Others(t) /\ req[t] # Idle /\ link' = link
    BY <1>3, AnswerReq
  <2>2. cookie' = cookie \/ cookie' = [cookie EXCEPT ![BrowserOf[t]] = req[t].k]
    BY <1>3 DEF Answer, Lost
  <2>3. \A b \in Browsers : cookie'[b] = cookie[b] \/ (b = BrowserOf[t] /\ cookie'[b] = req[t].k)
    BY <1>0, <2>2
  <2>4. NoNewUse
    BY <2>1, <2>3 DEF NoNewUse, Uses, Others
  <2>5. NewLinksOwned
    BY <2>1 DEF NewLinksOwned
  <2>6. QED
    BY <1>0, <2>4, <2>5, OwnersStay
<1>4. ASSUME DeskStep PROVE OneBrowser' /\ LinksOwned'
  <2>1. NoNewLink /\ cookie' = cookie /\ \A t \in Tabs : req'[t] = req[t]
    BY <1>4 DEF DeskStep, ByDesk
  <2>2. NoNewUse /\ NewLinksOwned
    BY <2>1 DEF NoNewUse, Uses, NewLinksOwned, NoNewLink
  <2>3. QED
    BY <1>0, <2>2, OwnersStay
<1>5. QED
  BY <1>1, <1>2, <1>3, <1>4, Steps

-----------------------------------------------------------------------------
(* Edits, and ducks.                                                         *)

\* What a step does to the rows, whoever takes it.
LEMMA RowsStep == ASSUME TypeOK, Carries, [Next]_vars PROVE RowStep
<1>0. row \in [Regs -> Row]
  BY TypeParts
<1>1. ASSUME row' = row PROVE RowStep
  BY <1>0, <1>1, RowStays
<1>2. QED
  BY <1>1, Steps, SentReq, AnswerReq DEF Batch, Committed, Written, DeskStep, ByDesk

LEMMA EditsStayFit ==
  ASSUME TypeOK, Carries, EditsFit, [Next]_vars
  PROVE  EditsFit'
<1>0. row \in [Regs -> Row] /\ ReqTypes /\ \A r \in Regs : row[r].rev \in Nat
  BY TypeParts, CollectionAssumption DEF Row
<1>1. RowStep /\ \A r \in Regs : row'[r].rev \in Nat
  BY RowsStep, CollectionAssumption DEF RowStep, Row
<1>2. \A t \in Tabs : req[t] # Idle => req[t].r \in Regs /\ req[t].rev \in Nat
  BY <1>0, CollectionAssumption DEF ReqTypes, Public
<1>o. ASSUME NEW u \in Tabs, Editing(u), req'[u] = req[u]
      PROVE  /\ req'[u].rev <= row'[req'[u].r].rev
             /\ req'[u].rev = row'[req'[u].r].rev => row'[req'[u].r].contact = req'[u].base
  <2>1. PICK r \in Regs, n \in Nat : r = req[u].r /\ n = req[u].rev
    BY <1>2, <1>o DEF Editing
  <2>2. n <= row[r].rev /\ (n = row[r].rev => row[r].contact = req[u].base)
    BY <1>o, <2>1 DEF EditsFit
  <2>3. RowMay(r, row'[r])
    BY <1>1 DEF RowStep
  <2>4. n <= row'[r].rev /\ (n = row'[r].rev => row'[r].contact = req[u].base)
    BY <1>0, <1>1, <2>2, <2>3 DEF RowMay
  <2>5. QED
    BY <1>o, <2>1, <2>4
<1>c. ASSUME NEW t \in Tabs, Others(t),
             Editing(t)' => /\ req'[t].rev <= row'[req'[t].r].rev
                            /\ req'[t].rev = row'[req'[t].r].rev =>
                                 row'[req'[t].r].contact = req'[t].base
      PROVE  EditsFit'
  <2> SUFFICES ASSUME NEW u \in Tabs, Editing(u)'
               PROVE  /\ req'[u].rev <= row'[req'[u].r].rev
                      /\ req'[u].rev = row'[req'[u].r].rev =>
                           row'[req'[u].r].contact = req'[u].base
    BY DEF EditsFit
  <2>1. CASE u = t
    BY <1>c, <2>1
  <2>2. CASE u # t
    <3>1. req'[u] = req[u] /\ Editing(u)
      BY <1>c, <2>2 DEF Others, Editing
    <3>2. QED
      BY <1>o, <3>1
  <2>3. QED
    BY <2>1, <2>2
<1>3. ASSUME NEW t \in Tabs, NEW q, Sent(t, q) PROVE EditsFit'
  <2>1. req'[t] = q /\ Others(t) /\ row' = row /\ q \in Public
    BY <1>3, SentReq DEF Sent
  <2>2. q.op = "contact" => q.rev = row[q.r].rev /\ q.base = row[q.r].contact
    BY <1>3 DEF Sent
  <2>3. q.r \in Regs
    BY <2>1 DEF Public
  <2>4. row[q.r].rev <= row[q.r].rev
    BY <1>0, <2>3
  <2>5. QED
    BY <1>c, <2>1, <2>2, <2>4 DEF Editing
<1>4. ASSUME NEW t \in Tabs, Batch(t) PROVE EditsFit'
  <2>1. Others(t) /\ ~Editing(t)'
    BY <1>4, BatchReq DEF Batch, Others, Editing
  <2>2. QED
    BY <1>c, <2>1
<1>5. ASSUME NEW t \in Tabs, Answer(t) \/ Lost(t) PROVE EditsFit'
  <2>1. Others(t) /\ ~Editing(t)'
    BY <1>5, AnswerReq DEF Editing
  <2>2. QED
    BY <1>c, <2>1
<1>6. ASSUME DeskStep PROVE EditsFit'
  <2> SUFFICES ASSUME NEW u \in Tabs, Editing(u)'
               PROVE  /\ req'[u].rev <= row'[req'[u].r].rev
                      /\ req'[u].rev = row'[req'[u].r].rev =>
                           row'[req'[u].r].contact = req'[u].base
    BY DEF EditsFit
  <2>1. req'[u] = req[u] /\ Editing(u)
    BY <1>6 DEF DeskStep, Editing
  <2>2. QED
    BY <1>o, <2>1
<1>7. QED
  BY <1>3, <1>4, <1>5, <1>6, Steps

LEMMA RacedStayKept ==
  ASSUME TypeOK, Carries, RacedAreKept, [Next]_vars
  PROVE  RacedAreKept'
<1> SUFFICES ASSUME NEW r \in Regs, row'[r].status = "gone" PROVE row'[r].duck = "never"
  BY DEF RacedAreKept
<1>1. RowMay(r, row'[r])
  BY RowsStep DEF RowStep
<1>2. QED
  BY <1>1 DEF RowMay, Removable, RacedAreKept

-----------------------------------------------------------------------------
(* Theorems.                                                                 *)

Collected == /\ TypeOK /\ Carries /\ CookiesKnown /\ OneBrowser /\ LinksOwned
             /\ EditsFit /\ RacedAreKept

LEMMA CollectedAtFirst == Init \/ LegacyInit => Collected
<1> SUFFICES ASSUME Init \/ LegacyInit PROVE Collected
  OBVIOUS
<1>1. TypeOK
  BY InitTypes
<1>2. /\ \A t \in Tabs : req[t] = Idle
      /\ \A r \in Regs : row[r].status # "gone"
  BY DEF Init, LegacyInit
<1>3. Carries /\ EditsFit /\ RacedAreKept
  BY <1>2 DEF Carries, EditsFit, Editing, RacedAreKept
<1>4. CASE Init
  BY <1>1, <1>2, <1>3, <1>4, CollectionAssumption
     DEF Init, Collected, CookiesKnown, OneBrowser, LinksOwned, Uses
<1>5. CASE LegacyInit
  <2>1. PICK r \in Regs, k \in Collections :
          /\ known = {k}
          /\ link = [j \in Collections |-> [q \in Regs |->
                       IF j = k /\ q = r THEN "REGISTRATION" ELSE "none"]]
          /\ cookie = [b \in Browsers |-> IF b = Author[r] THEN k ELSE None]
    BY <1>5 DEF LegacyInit
  <2>2. \A b \in Browsers, j \in Collections : Uses(b, j) => j = k /\ b = Author[r]
    BY <1>2, <2>1, CollectionAssumption DEF Uses
  <2>3. CookiesKnown
    BY <2>1 DEF CookiesKnown
  <2>4. OneBrowser
    BY <2>2 DEF OneBrowser
  <2>5. \A j \in Collections, q \in Regs : link[j][q] = "REGISTRATION" => q = r
    BY <2>1
  <2>6. LinksOwned
    BY <2>2, <2>5 DEF LinksOwned
  <2>7. QED
    BY <1>1, <1>3, <2>3, <2>4, <2>6 DEF Collected
<1>6. QED
  BY <1>4, <1>5

LEMMA CollectedStays == Collected /\ [Next]_vars => Collected'
<1> SUFFICES ASSUME Collected, [Next]_vars PROVE Collected'
  OBVIOUS
<1>1. /\ TypeOK /\ Carries /\ CookiesKnown /\ OneBrowser /\ LinksOwned
      /\ EditsFit /\ RacedAreKept
  BY DEF Collected
<1>2. QED
  BY <1>1, TypesStay, CarriesStay, CookiesStayKnown, OwnersStayInStep, EditsStayFit,
     RacedStayKept DEF Collected

LEMMA CollectedAlways == Spec => []Collected
  BY CollectedAtFirst, CollectedStays, PTL DEF Spec

\* Every table keeps the values of its schema, and no link outlives the row of
\* its collection or of its registration, whatever commits in between.
THEOREM TypeCorrect == Spec => []TypeOK
<1>1. Collected => TypeOK
  BY DEF Collected
<1>2. QED
  BY <1>1, CollectedAlways, PTL

\* The private view of a registration opens to no browser but the one that
\* registered it: a collection is used by one browser, since one is either the
\* cookie's or drawn where no cookie, request or row has it, and only a browser
\* whose form holds the private token registers.
THEOREM OnlyRegistrantsOwnHolds == Spec => []OnlyRegistrantsOwn
<1>1. Collected => OnlyRegistrantsOwn
  <2> SUFFICES ASSUME Collected, NEW b \in Browsers, NEW r \in Regs, cookie[b] \in known,
                      link[cookie[b]][r] = "REGISTRATION"
               PROVE  b = Author[r]
    BY DEF OnlyRegistrantsOwn
  <2>1. cookie[b] \in Collections /\ Uses(b, cookie[b])
    BY TypeParts DEF Collected, LinkTypes, Uses
  <2>2. QED
    BY <2>1 DEF Collected, LinksOwned
<1>2. QED
  BY <1>1, CollectedAlways, PTL

\* No registration that was ever paired with a duck is deleted, by its owner or
\* by the desk.
THEOREM RacedAreKeptHolds == Spec => []RacedAreKept
<1>1. Collected => RacedAreKept
  BY DEF Collected
<1>2. QED
  BY <1>1, CollectedAlways, PTL

\* No step takes from a collection a registration it holds as its own while that
\* exists, nor replaces a proof in force but by the form's private token.
THEOREM CredentialsAreKeptHolds == Spec => CredentialsAreKept
<1>1. Collected /\ [Next]_vars =>
        [\A k \in Collections, r \in Regs :
           link[k][r] = "REGISTRATION" /\ Exists(r)' =>
             /\ link'[k][r] = "REGISTRATION"
             /\ proof[k][r] # None => proof'[k][r] \in {proof[k][r], "form"}]_vars
  <2> SUFFICES ASSUME Collected, [Next]_vars PROVE Kept
    BY DEF Kept
  <2>1. ASSUME UNCHANGED <<link, proof>> PROVE Kept
    BY <2>1 DEF Kept
  <2>2. TypeOK /\ Carries
    BY DEF Collected
  <2>3. QED
    BY <2>1, <2>2, Steps, SentReq, AnswerReq DEF Batch, Committed, Written, DeskStep, ByDesk
<1>2. QED
  BY <1>1, CollectedAlways, PTL DEF Spec, CredentialsAreKept

\* A participant's edit of the contact details replaces only what its page was
\* shown: while it is in flight the row has either moved to a later revision,
\* and the edit is refused, or shows what the page saw.
THEOREM EditsAreSeenHolds == Spec => EditsAreSeen
<1>1. Collected /\ [Next]_vars =>
        [\A t \in Tabs, r \in Regs :
           row'[r].contact = t /\ row'[r].rev # row[r].rev /\ row'[r].contact # row[r].contact
             => row[r].contact = req[t].base]_vars
  <2> SUFFICES ASSUME Collected, [Next]_vars, NEW t \in Tabs, NEW r \in Regs,
                      row'[r].contact = t, row'[r].contact # row[r].contact
               PROVE  row[r].contact = req[t].base
    OBVIOUS
  <2>1. TypeOK /\ Carries /\ EditsFit
    BY DEF Collected
  <2>2. ASSUME NEW u \in Tabs, Batch(u) PROVE row[r].contact = req[t].base
    <3>1. /\ Committed(u) /\ req[u].op = "contact" /\ req[u].at = "commit"
          /\ r = req[u].r /\ req[u].rev = row[r].rev /\ u = t
      BY <2>2 DEF Batch, Committed, EditOf
    <3>2. Editing(t)
      BY <3>1 DEF Editing, Idle
    <3>3. QED
      BY <2>1, <3>1, <3>2 DEF EditsFit
  <2>3. ASSUME DeskStep PROVE FALSE
    BY <2>3, CollectionAssumption DEF DeskStep, ByDesk, EditedByDesk
  <2>4. QED
    BY <2>1, <2>2, <2>3, Steps, SentReq, AnswerReq
<1>2. QED
  BY <1>1, CollectedAlways, PTL DEF Spec, EditsAreSeen
=============================================================================
