--------------------------- MODULE StaffAccessProofs ---------------------------
(* Proofs about StaffAccess, for every set of people, roles and commands, and *)
(* any number of requests, identities and faults.                             *)
EXTENDS StaffAccess, FunctionTheorems, FiniteSetTheorems, TLAPS

-----------------------------------------------------------------------------
(* The inductive invariant.                                                  *)

Busy(c) == req[c] # Idle
Sent(c) == order[req[c].id]

\* A request is at a step of the command it carries.
Adding == {"create", "save", "unmake"}
Leaving == {"disable", "signout"}
OrderFits(c) ==
  /\ Sent(c) \in Order
  /\ req[c].at \in Adding <=> Sent(c).type = "add"
  /\ req[c].at = "role" <=> Sent(c).type = "role"
  /\ req[c].at = "enable" => Sent(c).type = "on"
  /\ req[c].at \in Leaving => Sent(c).type = "off"
OrdersFit == \A c \in Clients : Busy(c) => OrderFits(c)

\* Only profiles that exist are active, and all commands but the grant of an
\* account are about one.
KnownFits ==
  /\ \A p \in People : profile[p].active => profile[p].known
  /\ \A c \in Clients : Busy(c) /\ Sent(c).type # "add" => profile[Target(c)].known

\* A request that is alone: no other one is about the person, its command is
\* not recorded, and the profile is as it was read; but the batch of a request
\* that goes to delete its identity may have committed.
Alone(c) == Busy(c) /\ req[c].alone
AloneFits ==
  \A c \in Clients : Alone(c) =>
    /\ \A d \in Clients : Busy(d) /\ Target(d) = Target(c) => d = c
    /\ req[c].at # "unmake" => /\ req[c].id \notin done
                               /\ req[c].seen = profile[Target(c)].active

\* How far it is.
Reached(c) ==
  LET p == Target(c) IN
  /\ req[c].at \in {"create", "save"} => ~profile[p].known
  /\ req[c].at = "save" => user[p].sub = req[c].sub /\ user[p].enabled
  /\ req[c].at = "signout" => ~user[p].enabled /\ user[p].sub # 0
  /\ req[c].at \in {"persist", "undo"} => user[p].enabled = (Sent(c).type = "on")
                                          /\ user[p].sub # 0
  /\ req[c].at = "persist" /\ Sent(c).type = "off" => browser[p].refresh # "good"
Progress == \A c \in Clients : Alone(c) => Reached(c)

\* What is true of a person who is not muddled, and will not be when the
\* requests in flight end: the stores name the same identity, somebody inactive
\* has no session, and outside a request's two changes the profile is active
\* exactly if the identity is enabled.
Before == {"role", "enable", "disable"} \cup Adding
Undisturbed(p) ==
  p \notin muddled /\ \A c \in Clients : Busy(c) /\ Target(c) = p =>
                        req[c].alone \/ req[c].at = "role"
NoneBetween(p) == \A c \in Clients : Busy(c) /\ Target(c) = p => req[c].at \in Before
Sorted(p) ==
  /\ profile[p].known => SameIdentity(p)
  /\ profile[p].known /\ ~profile[p].active => browser[p].refresh # "good"
  /\ NoneBetween(p) => (profile[p].active <=> profile[p].known /\ user[p].enabled)
Settled == \A p \in People : Undisturbed(p) => Sorted(p)

Access == TypeOK /\ OrdersFit /\ KnownFits /\ AloneFits /\ Progress /\ Settled

-----------------------------------------------------------------------------
(* Types.                                                                    *)

\* Distinct founders can be given distinct subjects.
LEMMA SubType == Sub \in [Founders -> 1..Cardinality(Founders)]
<1>1. IsFiniteSet(Founders)
  BY StaffAssumption, FS_Subset
<1> DEFINE S == 1..Cardinality(Founders)
<1>2. ExistsBijection(S, Founders)
  BY <1>1, FS_CardinalityType
<1>3. ExistsBijection(Founders, S)
  BY <1>2, Fun_ExistsBijSymmetric
<1>4. \E f \in [Founders -> S] : \A p, q \in Founders : p # q => f[p] # f[q]
  BY <1>3 DEF ExistsBijection, Bijection, Injection, IsInjective
<1>5. QED
  BY <1>4 DEF Sub

LEMMA FoundersCount == Cardinality(Founders) \in 1..MaxSub
<1>1. IsFiniteSet(Founders)
  BY StaffAssumption, FS_Subset
<1>2. Cardinality(Founders) \in Nat /\ Cardinality(Founders) # 0
  BY <1>1, StaffAssumption, FS_CardinalityType, FS_EmptySet
<1>3. QED
  BY <1>2, StaffAssumption

Profile == [known : BOOLEAN, admin : BOOLEAN, active : BOOLEAN,
            roles : SUBSET Roles, rev : Nat, sub : 0..MaxSub]
User == [sub : 0..MaxSub, enabled : BOOLEAN]
Browser == [access : 0..MaxSub, refresh : {"none", "good", "dead"}]

LEMMA InitTypes == Init => TypeOK
<1> SUFFICES ASSUME Init PROVE TypeOK
  OBVIOUS
<1>1. \A p \in Founders : Sub[p] \in 0..MaxSub
  BY SubType, FoundersCount, StaffAssumption
<1>2. profile \in [People -> Profile]
  <2> SUFFICES ASSUME NEW p \in People PROVE profile[p] \in Profile
    BY DEF Init
  <2>1. NoProfile \in Profile
    BY StaffAssumption DEF NoProfile, Profile
  <2>2. CASE p \in Founders
    BY <1>1, <2>2 DEF Init, Profile
  <2>3. QED
    BY <2>1, <2>2 DEF Init
<1>3. user \in [People -> User]
  BY <1>1, StaffAssumption DEF Init, User, NoUser
<1>4. browser \in [People -> Browser]
  BY StaffAssumption DEF Init, Browser, Cleared
<1>5. subs \in 0..MaxSub /\ faults \in 0..MaxFaults
  BY FoundersCount, StaffAssumption DEF Init
<1>6. QED
  BY <1>2, <1>3, <1>4, <1>5 DEF Init, TypeOK, Profile, User, Browser, Idle

\* A busy request has its type, and a person and a command.
LEMMA BusyFits ==
  ASSUME TypeOK, OrdersFit, NEW c \in Clients, Busy(c)
  PROVE  /\ req[c] \in Request /\ req[c].id \in Ids
         /\ Sent(c) \in Order /\ Target(c) \in People
<1>1. req[c] \in Request
  BY DEF TypeOK, Busy
<1>2. Sent(c) \in Order
  BY DEF OrdersFit, OrderFits
<1>3. QED
  BY <1>1, <1>2 DEF Request, Order, Target, Sent

LEMMA StepIsBusy ==
  ASSUME NEW c \in Clients, req[c].at \in Steps PROVE Busy(c)
  BY DEF Busy, Idle, Steps

\* The shapes the requests' changes come in.
LEMMA GotoTypes ==
  ASSUME TypeOK, NEW c \in Clients, req[c] \in Request, NEW s \in Steps, Goto(c, s)
  PROVE  /\ req' \in [Clients -> Request \cup {Idle}] /\ muddled' \subseteq People
         /\ req'[c] \in Request /\ req'[c] = [req[c] EXCEPT !.at = s]
         /\ \A d \in Clients : d # c => req'[d] = req[d]
<1>1. [req[c] EXCEPT !.at = s] \in Request
  BY DEF Request
<1>2. QED
  BY <1>1 DEF Goto, TypeOK

LEMMA FinishTypes ==
  ASSUME TypeOK, NEW c \in Clients, Target(c) \in People, NEW how, Finish(c, how)
  PROVE  /\ req' \in [Clients -> Request \cup {Idle}] /\ muddled' \subseteq People
         /\ req'[c] = Idle /\ \A d \in Clients : d # c => req'[d] = req[d]
  BY DEF Finish, TypeOK

LEMMA FaultTypes == TypeOK /\ Fault => faults' \in 0..MaxFaults
  BY StaffAssumption DEF TypeOK, Fault

LEMMA UserTypes ==
  ASSUME TypeOK, NEW c \in Clients, Target(c) \in People, NEW b \in BOOLEAN
  PROVE  SetEnabled(c, b) \in [People -> User]
<1>1. [user[Target(c)] EXCEPT !.enabled = b] \in User
  BY DEF TypeOK, User
<1>2. QED
  BY <1>1 DEF SetEnabled, TypeOK, User

LEMMA BrowserTypes ==
  ASSUME TypeOK, NEW c \in Clients, Target(c) \in People
  PROVE  SignedOut(c) \in [People -> Browser]
<1> DEFINE b == browser[Target(c)]
           x == IF b.refresh = "good" THEN "dead" ELSE b.refresh
<1>1. b \in Browser
  BY DEF TypeOK, Browser
<1>2. [b EXCEPT !.refresh = x] \in Browser
  BY <1>1 DEF Browser
<1>3. QED
  BY <1>2 DEF SignedOut, TypeOK, Browser

LEMMA ResultTypes ==
  ASSUME TypeOK, OrdersFit, NEW c \in Clients, Busy(c)
  PROVE  done \cup {req[c].id} \subseteq {i \in Ids : order[i] # NoOrder}
<1>1. req[c].id \in Ids /\ order[req[c].id] # NoOrder
  BY BusyFits DEF Sent, Order, NoOrder
<1>2. QED
  BY <1>1 DEF TypeOK

\* A step of a request, and what all of them have in common.
ClientStep(c) ==
  \/ Enable(c) \/ Disable(c) \/ SignOut(c) \/ Persist(c) \/ Undo(c)
  \/ ChangeRole(c) \/ Create(c) \/ Save(c) \/ Unmake(c) \/ Stop(c)

Goes(c) == /\ req'[c] \in Request
           /\ req'[c].id = req[c].id /\ req'[c].seen = req[c].seen
           /\ req'[c].alone = req[c].alone
           /\ req'[c].at = "unmake" \/ UNCHANGED <<profile, done>>
           /\ UNCHANGED muddled
Shape(c) ==
  /\ Busy(c)
  /\ order' = order /\ \A d \in Clients : d # c => req'[d] = req[d]
  /\ req'[c] = Idle \/ Goes(c)
  /\ done' \subseteq done \cup {req[c].id}
  /\ \A q \in People : q # Target(c) =>
       /\ profile'[q] = profile[q] /\ user'[q] = user[q] /\ browser'[q] = browser[q]
       /\ q \in muddled' <=> q \in muddled

LEMMA FinishShape ==
  ASSUME NEW c \in Clients, NEW how, Finish(c, how)
  PROVE  \A q \in People : q # Target(c) => (q \in muddled' <=> q \in muddled)
  BY DEF Finish

LEMMA ProfileSet ==
  ASSUME TypeOK, NEW p \in People, NEW x \in Profile,
         profile' = [profile EXCEPT ![p] = x] \/ profile' = profile
  PROVE  /\ profile' \in [People -> Profile]
         /\ \A q \in People : q # p => profile'[q] = profile[q]
  BY DEF TypeOK, Profile

LEMMA ChangeTypes ==
  ASSUME TypeOK, OrdersFit, NEW c \in Clients, Persist(c) \/ ChangeRole(c) \/ Save(c)
  PROVE  /\ profile' \in [People -> Profile]
         /\ \A q \in People : q # Target(c) => profile'[q] = profile[q]
         /\ done' \subseteq done \cup {req[c].id}
<1> DEFINE p == Target(c)
           o == Sent(c)
<1>1. Busy(c)
  BY StepIsBusy DEF Persist, ChangeRole, Save, Steps
<1>2. p \in People /\ o \in Order /\ req[c] \in Request
  BY <1>1, BusyFits
<1>3. profile[p] \in Profile
  BY <1>2 DEF TypeOK, Profile
<1>4. o.account.admin \in BOOLEAN /\ o.account.roles \in SUBSET Roles
  BY <1>2 DEF Order, Accounts
<1>5. CASE Persist(c)
  <2> DEFINE x == [profile[p] EXCEPT !.active = (o.type = "on")]
  <2>1. x \in Profile
    BY <1>3 DEF Profile
  <2>2. profile' = [profile EXCEPT ![p] = x] \/ profile' = profile
    BY <1>5 DEF Persist, Sent
  <2>3. done' \subseteq done \cup {req[c].id}
    BY <1>5 DEF Persist
  <2>4. QED
    BY <1>2, <2>1, <2>2, <2>3, ProfileSet
<1>6. CASE ChangeRole(c)
  <2> DEFINE x == [profile[p] EXCEPT !.admin = o.account.admin, !.roles = o.account.roles,
                                     !.rev = @ + 1]
  <2>1. x \in Profile
    <3>1. \A r \in Profile, a \in BOOLEAN, b \in SUBSET Roles, n \in Nat :
            [r EXCEPT !.admin = a, !.roles = b, !.rev = n] \in Profile
      BY DEF Profile
    <3>2. profile[p].rev + 1 \in Nat
      BY <1>3 DEF Profile
    <3>3. x = [profile[p] EXCEPT !.admin = o.account.admin, !.roles = o.account.roles,
                                 !.rev = profile[p].rev + 1]
      BY <1>3 DEF Profile
    <3>4. QED
      BY <1>3, <1>4, <3>1, <3>2, <3>3
  <2>2. \/ profile' = [profile EXCEPT ![p].admin = o.account.admin,
                                      ![p].roles = o.account.roles,
                                      ![p].rev = @ + 1]
        \/ profile' = profile
    BY <1>6 DEF ChangeRole, Sent, Target
  <2>5. profile' = [profile EXCEPT ![p] = x] \/ profile' = profile
    BY <1>2, <2>2 DEF TypeOK
  <2>3. done' \subseteq done \cup {req[c].id}
    BY <1>6 DEF ChangeRole
  <2>4. QED
    BY <1>2, <2>1, <2>5, <2>3, ProfileSet
<1>7. CASE Save(c)
  <2> DEFINE x == [known |-> TRUE, admin |-> o.account.admin, active |-> TRUE,
                   roles |-> o.account.roles, rev |-> 0, sub |-> req[c].sub]
  <2>1. x \in Profile
    BY <1>2, <1>4 DEF Profile, Request
  <2>2. profile' = [profile EXCEPT ![p] = x] \/ profile' = profile
    BY <1>7 DEF Save, Sent
  <2>3. done' \subseteq done \cup {req[c].id}
    BY <1>7 DEF Save
  <2>4. QED
    BY <1>2, <2>1, <2>2, <2>3, ProfileSet
<1>8. QED
  BY <1>5, <1>6, <1>7

\* A step's types and shape from those of its parts.
Moved(c) ==
  /\ req' \in [Clients -> Request \cup {Idle}] /\ muddled' \subseteq People
  /\ \A d \in Clients : d # c => req'[d] = req[d]
  /\ \A q \in People : q # Target(c) => (q \in muddled' <=> q \in muddled)
  /\ \/ req'[c] = Idle
     \/ /\ req'[c] \in Request
        /\ req'[c].id = req[c].id /\ req'[c].seen = req[c].seen
        /\ req'[c].alone = req[c].alone
        /\ req'[c].at = "unmake" \/ UNCHANGED <<profile, done>>
        /\ UNCHANGED muddled

UserAt(c) == user' \in [People -> User]
             /\ \A q \in People : q # Target(c) => user'[q] = user[q]
BrowserAt(c) == browser' \in [People -> Browser]
                /\ \A q \in People : q # Target(c) => browser'[q] = browser[q]
ProfileAt(c) == /\ profile' \in [People -> Profile]
                /\ \A q \in People : q # Target(c) => profile'[q] = profile[q]
                /\ done' \subseteq done \cup {req[c].id}

LEMMA Together ==
  ASSUME TypeOK, OrdersFit, NEW c \in Clients, Busy(c), Moved(c),
         UserAt(c), BrowserAt(c), ProfileAt(c),
         order' = order, subs' \in 0..MaxSub, faults' = faults \/ Fault
  PROVE  TypeOK' /\ Shape(c)
<1>1. faults' \in 0..MaxFaults
  BY FaultTypes DEF TypeOK
<1>2. done' \subseteq {i \in Ids : order'[i] # NoOrder}
  BY ResultTypes DEF ProfileAt
<1>3. order' \in [Ids -> Order \cup {NoOrder}]
  BY DEF TypeOK
<1>4. TypeOK'
  BY <1>1, <1>2, <1>3 DEF TypeOK, Moved, UserAt, BrowserAt, ProfileAt, Profile, User, Browser
<1>5. Shape(c)
  BY DEF Shape, Moved, Goes, UserAt, BrowserAt, ProfileAt
<1>6. QED
  BY <1>4, <1>5

LEMMA GotoMoved ==
  ASSUME TypeOK, OrdersFit, NEW c \in Clients, Busy(c), NEW s \in Steps, Goto(c, s),
         s = "unmake" \/ UNCHANGED <<profile, done>>
  PROVE  Moved(c)
<1>1. req[c] \in Request
  BY BusyFits
<1>2. [req[c] EXCEPT !.at = s] \in Request /\ req'[c] = [req[c] EXCEPT !.at = s]
  BY <1>1, GotoTypes
<1>3. req'[c].id = req[c].id /\ req'[c].seen = req[c].seen /\ req'[c].alone = req[c].alone
  BY <1>1, <1>2 DEF Request
<1>4. UNCHANGED muddled /\ (req'[c].at = "unmake" \/ UNCHANGED <<profile, done>>)
  BY <1>1, <1>2 DEF Goto, Request
<1>5. QED
  BY <1>1, <1>2, <1>3, <1>4, GotoTypes DEF Moved

LEMMA FinishMoved ==
  ASSUME TypeOK, OrdersFit, NEW c \in Clients, Busy(c), NEW how, Finish(c, how)
  PROVE  Moved(c)
<1>1. Target(c) \in People
  BY BusyFits
<1>2. QED
  BY <1>1, FinishTypes, FinishShape DEF Moved

LEMMA SameParts ==
  ASSUME TypeOK, NEW c \in Clients
  PROVE  /\ UNCHANGED user => UserAt(c)
         /\ UNCHANGED browser => BrowserAt(c)
         /\ UNCHANGED <<profile, done>> => ProfileAt(c)
         /\ UNCHANGED subs => subs' \in 0..MaxSub
  BY DEF TypeOK, UserAt, BrowserAt, ProfileAt, User, Browser, Profile

LEMMA SetUserAt ==
  ASSUME TypeOK, NEW c \in Clients, Target(c) \in People, NEW b \in BOOLEAN,
         user' \in {user, SetEnabled(c, b)}
  PROVE  UserAt(c)
<1>1. SetEnabled(c, b) \in [People -> User] /\ user \in [People -> User]
  BY UserTypes DEF TypeOK, User
<1>2. \A q \in People : q # Target(c) => SetEnabled(c, b)[q] = user[q]
  BY DEF SetEnabled, TypeOK
<1>3. QED
  BY <1>1, <1>2 DEF UserAt

LEMMA SetBrowserAt ==
  ASSUME TypeOK, NEW c \in Clients, Target(c) \in People, browser' \in {browser, SignedOut(c)}
  PROVE  BrowserAt(c)
<1>1. SignedOut(c) \in [People -> Browser] /\ browser \in [People -> Browser]
  BY BrowserTypes DEF TypeOK, Browser
<1>2. \A q \in People : q # Target(c) => SignedOut(c)[q] = browser[q]
  BY DEF SignedOut, TypeOK
<1>3. QED
  BY <1>1, <1>2 DEF BrowserAt

\* The step that creates an identity, or finds one.
LEMMA CreateParts ==
  ASSUME TypeOK, OrdersFit, NEW c \in Clients, Busy(c), Create(c)
  PROVE  Moved(c) /\ UserAt(c) /\ subs' \in 0..MaxSub
<1> DEFINE p == Target(c)
<1>1. req[c] \in Request /\ p \in People
  BY BusyFits
<1>2. user[p] \in User /\ subs \in 0..MaxSub /\ MaxSub \in Nat
  BY <1>1, StaffAssumption DEF TypeOK, User
<1>3. UNCHANGED <<profile, done>>
  BY DEF Create
<1>4. ASSUME NEW x \in 0..MaxSub, NEW b \in BOOLEAN, NEW r, UNCHANGED muddled,
             r = [req[c] EXCEPT !.at = "save", !.made = b, !.sub = x],
             req' = [req EXCEPT ![c] = r]
      PROVE  Moved(c)
  <2>1. r \in Request /\ r.id = req[c].id /\ r.seen = req[c].seen /\ r.alone = req[c].alone
    BY <1>1, <1>4 DEF Request, Steps
  <2>2. req'[c] = r /\ \A d \in Clients : d # c => req'[d] = req[d]
    BY <1>4 DEF TypeOK
  <2>3. req' \in [Clients -> Request \cup {Idle}] /\ muddled' \subseteq People
    BY <1>4, <2>1 DEF TypeOK
  <2>4. QED
    BY <1>3, <1>4, <2>1, <2>2, <2>3 DEF Moved
<1>5. CASE /\ subs < MaxSub
           /\ user' = [user EXCEPT ![p] = [sub |-> subs + 1, enabled |-> TRUE]]
           /\ subs' = subs + 1
           /\ \/ /\ req' = [req EXCEPT ![c].at = "save", ![c].made = TRUE,
                                       ![c].sub = subs + 1]
                 /\ UNCHANGED muddled
              \/ Finish(c, "refused")
  <2> DEFINE u == [sub |-> subs + 1, enabled |-> TRUE]
             r == [req[c] EXCEPT !.at = "save", !.made = TRUE, !.sub = subs + 1]
  <2>1. subs + 1 \in 0..MaxSub /\ u \in User
    BY <1>2, <1>5 DEF User
  <2>2. UserAt(c)
    BY <1>1, <1>5, <2>1 DEF UserAt, TypeOK, User
  <2>3. CASE Finish(c, "refused")
    BY <1>5, <2>1, <2>2, <2>3, FinishMoved
  <2>4. CASE /\ req' = [req EXCEPT ![c].at = "save", ![c].made = TRUE, ![c].sub = subs + 1]
             /\ UNCHANGED muddled
    <3>1. req' = [req EXCEPT ![c] = r]
      BY <2>4 DEF TypeOK
    <3>2. Moved(c)
      BY <1>4, <2>1, <2>4, <3>1
    <3>3. QED
      BY <1>5, <2>1, <2>2, <3>2
  <2>5. QED
    BY <1>5, <2>3, <2>4
<1>6. CASE /\ req' = [req EXCEPT ![c].at = "save", ![c].sub = user[p].sub]
           /\ UNCHANGED <<user, subs, muddled>>
  <2> DEFINE r == [req[c] EXCEPT !.at = "save", !.made = req[c].made, !.sub = user[p].sub]
  <2>1. user[p].sub \in 0..MaxSub /\ req[c].made \in BOOLEAN
    BY <1>1, <1>2 DEF User, Request
  <2>2. req' = [req EXCEPT ![c] = r]
    BY <1>1, <1>6 DEF TypeOK, Request
  <2>3. Moved(c)
    BY <1>4, <1>6, <2>1, <2>2
  <2>4. QED
    BY <1>6, <2>3, SameParts
<1>7. CASE Finish(c, "refused") /\ UNCHANGED <<user, subs>>
  BY <1>7, FinishMoved, SameParts
<1>8. QED
  BY <1>5, <1>6, <1>7 DEF Create

LEMMA ClientTypes ==
  ASSUME TypeOK, OrdersFit, NEW c \in Clients, ClientStep(c)
  PROVE  TypeOK' /\ Shape(c)
<1>1. Busy(c)
  BY StepIsBusy DEF ClientStep, Enable, Disable, SignOut, Persist, Undo, ChangeRole, Create,
                    Save, Unmake, Stop, Steps, Busy
<1>2. Target(c) \in People /\ req[c] \in Request
  BY <1>1, BusyFits
<1>3. CASE Enable(c)
  <2>1. (\E s \in Steps : Goto(c, s)) \/ (\E how \in {"refused", "torn"} : Finish(c, how))
    BY <1>3 DEF Enable, Steps
  <2>2. UNCHANGED <<profile, browser, subs, order, done>> /\ user' \in {user, SetEnabled(c, TRUE)}
    BY <1>3 DEF Enable, accountVars
  <2>3. faults' = faults \/ Fault
    BY <1>3 DEF Enable
  <2>4. Moved(c)
    BY <1>1, <2>1, <2>2, GotoMoved, FinishMoved
  <2>5. UserAt(c)
    BY <1>2, <2>2, SetUserAt
  <2>6. QED
    BY <1>1, <2>2, <2>3, <2>4, <2>5, SameParts, Together
<1>4. CASE Disable(c)
  <2>1. (\E s \in Steps : Goto(c, s)) \/ (\E how \in {"refused", "torn"} : Finish(c, how))
    BY <1>4 DEF Disable, Steps
  <2>2. UNCHANGED <<profile, browser, subs, order, done>> /\ user' \in {user, SetEnabled(c, FALSE)}
    BY <1>4 DEF Disable, accountVars
  <2>3. faults' = faults \/ Fault
    BY <1>4 DEF Disable
  <2>4. Moved(c)
    BY <1>1, <2>1, <2>2, GotoMoved, FinishMoved
  <2>5. UserAt(c)
    BY <1>2, <2>2, SetUserAt
  <2>6. QED
    BY <1>1, <2>2, <2>3, <2>4, <2>5, SameParts, Together
<1>5. CASE SignOut(c)
  <2>1. \E s \in Steps : Goto(c, s)
    BY <1>5 DEF SignOut, Steps
  <2>2. UNCHANGED <<profile, user, subs, order, done>> /\ browser' \in {browser, SignedOut(c)}
    BY <1>5 DEF SignOut, accountVars
  <2>3. faults' = faults \/ Fault
    BY <1>5 DEF SignOut
  <2>4. Moved(c)
    BY <1>1, <2>1, <2>2, GotoMoved
  <2>5. BrowserAt(c)
    BY <1>2, <2>2, SetBrowserAt
  <2>6. QED
    BY <1>1, <2>2, <2>3, <2>4, <2>5, SameParts, Together
<1>6. CASE Persist(c)
  <2>1. \/ \E s \in Steps : Goto(c, s) /\ UNCHANGED <<profile, done>>
        \/ \E how \in {"refused", "kept", "recorded"} : Finish(c, how)
    BY <1>6 DEF Persist, Steps
  <2>2. UNCHANGED <<user, browser, subs, order>>
    BY <1>6 DEF Persist, accountVars
  <2>3. faults' = faults \/ Fault
    BY <1>6 DEF Persist
  <2>4. Moved(c)
    BY <1>1, <2>1, GotoMoved, FinishMoved
  <2>5. ProfileAt(c)
    BY <1>6, ChangeTypes DEF ProfileAt
  <2>6. QED
    BY <1>1, <2>2, <2>3, <2>4, <2>5, SameParts, Together
<1>7. CASE Undo(c)
  <2> DEFINE on == order[req[c].id].type = "on"
  <2>1. \E how \in {"refused", "torn"} : Finish(c, how)
    BY <1>7 DEF Undo
  <2>2. UNCHANGED <<profile, browser, subs, order, done>> /\ user' \in {user, SetEnabled(c, ~on)}
    BY <1>7 DEF Undo, accountVars
  <2>3. faults' = faults \/ Fault
    BY <1>7 DEF Undo
  <2>4. Moved(c)
    BY <1>1, <2>1, FinishMoved
  <2>5. UserAt(c)
    BY <1>2, <2>2, SetUserAt
  <2>6. QED
    BY <1>1, <2>2, <2>3, <2>4, <2>5, SameParts, Together
<1>8. CASE ChangeRole(c)
  <2>1. req' = [req EXCEPT ![c] = Idle] /\ UNCHANGED <<user, browser, subs, order, muddled, faults>>
    BY <1>8 DEF ChangeRole, accountVars
  <2>4. Moved(c)
    BY <2>1 DEF Moved, TypeOK
  <2>5. ProfileAt(c)
    BY <1>8, ChangeTypes DEF ProfileAt
  <2>6. QED
    BY <1>1, <2>1, <2>4, <2>5, SameParts, Together
<1>9. CASE Create(c)
  <2>1. UNCHANGED <<profile, browser, order, done>>
    BY <1>9 DEF Create
  <2>2. faults' = faults \/ Fault
    BY <1>9 DEF Create
  <2>3. QED
    BY <1>1, <1>9, <2>1, <2>2, CreateParts, SameParts, Together
<1>10. CASE Save(c)
  <2>1. \/ Goto(c, "unmake")
        \/ \E how \in {"refused", "kept"} : Finish(c, how)
    BY <1>10 DEF Save
  <2>2. UNCHANGED <<user, browser, subs, order>>
    BY <1>10 DEF Save, accountVars
  <2>3. faults' = faults \/ Fault
    BY <1>10 DEF Save
  <2>4. Moved(c)
    BY <1>1, <2>1, GotoMoved, FinishMoved DEF Steps
  <2>5. ProfileAt(c)
    BY <1>10, ChangeTypes DEF ProfileAt
  <2>6. QED
    BY <1>1, <2>2, <2>3, <2>4, <2>5, SameParts, Together
<1>11. CASE Unmake(c)
  <2>1. /\ \E how \in {"refused", "torn"} : Finish(c, how)
        /\ UNCHANGED <<profile, browser, subs, order, done>>
    BY <1>11 DEF Unmake, accountVars
  <2>2. faults' = faults \/ Fault
    BY <1>11 DEF Unmake
  <2>3. user' = [user EXCEPT ![Target(c)] = NoUser] \/ user' = user
    BY <1>11 DEF Unmake
  <2>4. NoUser \in User
    BY StaffAssumption DEF NoUser, User
  <2>5. UserAt(c)
    BY <1>2, <2>3, <2>4 DEF UserAt, TypeOK, User
  <2>6. Moved(c)
    BY <1>1, <2>1, FinishMoved
  <2>7. QED
    BY <1>1, <2>1, <2>2, <2>5, <2>6, SameParts, Together
<1>12. CASE Stop(c)
  <2>1. \E how \in {"refused", "torn"} : Finish(c, how)
    BY <1>12 DEF Stop
  <2>2. UNCHANGED <<profile, user, browser, subs, order, done>> /\ Fault
    BY <1>12 DEF Stop, accountVars
  <2>3. Moved(c)
    BY <1>1, <2>1, FinishMoved
  <2>4. QED
    BY <1>1, <2>2, <2>3, SameParts, Together
<1>13. QED
  BY <1>3, <1>4, <1>5, <1>6, <1>7, <1>8, <1>9, <1>10, <1>11, <1>12 DEF ClientStep

\* The sessions' steps: only the browser of the person concerned.
Session(p) == SignIn(p) \/ Expire(p) \/ Refresh(p) \/ SignOff(p)

LEMMA SessionTypes ==
  ASSUME TypeOK, NEW p \in People, Session(p)
  PROVE  /\ TypeOK' /\ UNCHANGED <<staffVars, user, subs>>
         /\ \A q \in People : q # p => browser'[q] = browser[q]
<1>1. user[p].sub \in 0..MaxSub /\ browser[p] \in Browser /\ 0 \in 0..MaxSub
  BY StaffAssumption DEF TypeOK, Browser
<1>2. Open(p) \in Browser /\ Cleared \in Browser
  BY <1>1 DEF Open, Cleared, Browser
<1>3. [browser[p] EXCEPT !.access = 0] \in Browser
  BY <1>1 DEF Browser
<1>4. \E b \in Browser : browser' = [browser EXCEPT ![p] = b]
  <2>1. CASE SignIn(p)
    BY <1>2, <2>1 DEF SignIn
  <2>2. CASE Expire(p)
    BY <1>3, <2>2 DEF Expire
  <2>3. CASE Refresh(p)
    BY <1>2, <2>3 DEF Refresh
  <2>4. CASE SignOff(p)
    BY <1>2, <2>4 DEF SignOff
  <2>5. QED
    BY <2>1, <2>2, <2>3, <2>4 DEF Session
<1>5. UNCHANGED <<staffVars, user, subs>>
  BY DEF Session, SignIn, Expire, Refresh, SignOff
<1>6. PICK b \in Browser : browser' = [browser EXCEPT ![p] = b]
  BY <1>4
<1>7. browser' \in [People -> Browser]
  BY <1>6 DEF TypeOK, Browser
<1>8. QED
  BY <1>5, <1>6, <1>7 DEF TypeOK, staffVars, Browser

LEMMA SendTypes ==
  ASSUME TypeOK, NEW i \in Ids, Send(i)
  PROVE  /\ TypeOK' /\ UNCHANGED <<profile, user, subs, browser, done, req, muddled, faults>>
         /\ order[i] = NoOrder /\ \A j \in Ids : j # i => order'[j] = order[j]
<1>1. PICK o \in [type : {"add", "role", "on", "off"}, by : People,
                  target : People, account : Accounts, rev : {0}] :
        order' = [order EXCEPT ![i] = [o EXCEPT !.rev = profile[o.target].rev]]
  BY DEF Send
<1>2. profile[o.target].rev \in Nat
  BY DEF TypeOK
<1>3. [o EXCEPT !.rev = profile[o.target].rev] \in Order
  BY <1>2 DEF Order
<1>4. order' \in [Ids -> Order \cup {NoOrder}] /\ order'[i] # NoOrder
  BY <1>1, <1>3 DEF TypeOK, Order, NoOrder
<1>5. \A j \in Ids : j # i => order'[j] = order[j]
  BY <1>1 DEF TypeOK
<1>6. QED
  BY <1>4, <1>5 DEF Send, TypeOK

\* What a request starts with.
Started(c, i) ==
  /\ req[c] = Idle /\ order[i] \in Order /\ Admissible(order[i]) /\ i \notin done
  /\ req'[c] \in Request /\ req'[c].id = i /\ req'[c].at = FirstStep[order[i].type]
  /\ req'[c].seen = profile[order[i].target].active
  /\ req'[c].alone = (About(order[i].target) = {})
  /\ \A d \in Clients : d # c =>
       IF d \in About(order[i].target)
       THEN /\ req'[d] \in Request /\ req'[d].id = req[d].id /\ req'[d].at = req[d].at
            /\ ~req'[d].alone
       ELSE req'[d] = req[d]
  /\ UNCHANGED <<profile, user, browser, subs, order, done, muddled, faults>>

LEMMA BeginTypes ==
  ASSUME TypeOK, OrdersFit, NEW c \in Clients, NEW i \in Ids, Begin(c, i)
  PROVE  TypeOK' /\ Started(c, i)
<1> DEFINE o == order[i]
           r == [at |-> FirstStep[o.type], id |-> i, seen |-> profile[o.target].active,
                 made |-> FALSE, sub |-> 0, alone |-> About(o.target) = {}]
<1>1. o \in Order /\ o.target \in People
  BY DEF Begin, TypeOK, Order
<1>2. FirstStep[o.type] \in Steps
  BY <1>1 DEF Order, FirstStep, Steps
<1>3. profile[o.target].active \in BOOLEAN
  BY <1>1 DEF TypeOK
<1>4. r \in Request
  BY <1>2, <1>3, StaffAssumption DEF Request
<1>5. /\ req'[c] = r
      /\ \A d \in Clients : d # c =>
           req'[d] = IF d \in About(o.target) THEN [req[d] EXCEPT !.alone = FALSE] ELSE req[d]
      /\ \E f : req' = [d \in Clients |-> f[d]]
  <2> DEFINE f == [d \in Clients |->
                     IF d = c THEN r
                     ELSE IF d \in About(o.target) THEN [req[d] EXCEPT !.alone = FALSE]
                     ELSE req[d]]
  <2>1. req' = f
    BY DEF Begin
  <2>2. f = [d \in Clients |-> f[d]]
    OBVIOUS
  <2>3. QED
    BY <2>1, <2>2
<1>6. ASSUME NEW d \in Clients, d # c, d \in About(o.target)
      PROVE  /\ req'[d] \in Request /\ req'[d].id = req[d].id /\ req'[d].at = req[d].at
             /\ ~req'[d].alone
  <2>1. req[d] \in Request
    BY <1>6 DEF About, TypeOK
  <2>2. req'[d] = [req[d] EXCEPT !.alone = FALSE]
    BY <1>5, <1>6
  <2>3. QED
    BY <2>1, <2>2 DEF Request
<1>7. \A d \in Clients : d # c /\ d \notin About(o.target) => req'[d] = req[d]
  BY <1>5
<1>8. \A d \in Clients : req'[d] \in Request \cup {Idle}
  BY <1>4, <1>5, <1>6, <1>7 DEF TypeOK
<1>9. UNCHANGED <<profile, user, browser, subs, order, done, muddled, faults>>
  BY DEF Begin, accountVars
<1>10. TypeOK'
  BY <1>5, <1>8, <1>9 DEF TypeOK
<1> HIDE DEF r
<1>11. /\ r.at = FirstStep[o.type] /\ r.id = i /\ r.seen = profile[o.target].active
       /\ r.alone = (About(o.target) = {})
  BY DEF r
<1>12. req[c] = Idle /\ Admissible(o) /\ i \notin done
  BY DEF Begin
<1>13. QED
  BY <1>1, <1>4, <1>5, <1>6, <1>7, <1>9, <1>10, <1>11, <1>12 DEF Started

\* Where a step of a request leads.
After(c) ==
  \/ req'[c] = Idle
  \/ req[c].at = "enable" /\ req'[c].at = "persist"
  \/ req[c].at = "disable" /\ req'[c].at = "signout"
  \/ req[c].at = "signout" /\ req'[c].at \in {"persist", "undo"}
  \/ req[c].at = "persist" /\ req'[c].at = "undo"
  \/ req[c].at = "create" /\ req'[c].at = "save"
  \/ req[c].at = "save" /\ req'[c].at = "unmake"

LEMMA GotoAt ==
  ASSUME TypeOK, NEW c \in Clients, req[c] \in Request, NEW s \in Steps, Goto(c, s)
  PROVE  req'[c].at = s
  BY GotoTypes DEF Request

LEMMA FinishIdle ==
  ASSUME TypeOK, NEW c \in Clients, NEW how, Finish(c, how)
  PROVE  req'[c] = Idle
  BY DEF Finish, TypeOK

LEMMA CreateAt ==
  ASSUME TypeOK, NEW c \in Clients, req[c] \in Request, Create(c)
  PROVE  Finish(c, "refused") \/ req'[c].at = "save"
<1> DEFINE r1 == [req[c] EXCEPT !.at = "save", !.made = TRUE, !.sub = subs + 1]
           r2 == [req[c] EXCEPT !.at = "save", !.sub = user[Target(c)].sub]
<1>1. req' = [req EXCEPT ![c] = r1] => req'[c] = r1
  BY DEF TypeOK
<1>2. req' = [req EXCEPT ![c] = r2] => req'[c] = r2
  BY DEF TypeOK
<1>3. r1.at = "save" /\ r2.at = "save"
  BY DEF Request
<1>4. \/ Finish(c, "refused")
      \/ req' = [req EXCEPT ![c] = r1]
      \/ req' = [req EXCEPT ![c] = r2]
  BY DEF Create, TypeOK
<1>5. QED
  BY <1>1, <1>2, <1>3, <1>4

LEMMA ClientAfter ==
  ASSUME TypeOK, OrdersFit, NEW c \in Clients, ClientStep(c)
  PROVE  After(c)
<1>1. Shape(c)
  BY ClientTypes
<1>2. Busy(c)
  BY <1>1 DEF Shape
<1>3. req[c] \in Request
  BY <1>2, BusyFits
<1>4. \A s \in Steps : Goto(c, s) => req'[c].at = s
  BY <1>3, GotoAt
<1>5. \A how : Finish(c, how) => req'[c] = Idle
  BY FinishIdle
<1>6. CASE Enable(c)
  BY <1>4, <1>5, <1>6 DEF Enable, After, Steps
<1>7. CASE Disable(c)
  BY <1>4, <1>5, <1>7 DEF Disable, After, Steps
<1>8. CASE SignOut(c)
  BY <1>4, <1>5, <1>8 DEF SignOut, After, Steps
<1>9. CASE Persist(c)
  BY <1>4, <1>5, <1>9 DEF Persist, After, Steps
<1>10. CASE Undo(c)
  BY <1>5, <1>10 DEF Undo, After
<1>11. CASE ChangeRole(c)
  BY <1>11 DEF ChangeRole, After, TypeOK
<1>12. CASE Create(c)
  BY <1>3, <1>5, <1>12, CreateAt DEF Create, After
<1>13. CASE Save(c)
  BY <1>4, <1>5, <1>13 DEF Save, After, Steps
<1>14. CASE Unmake(c)
  BY <1>5, <1>14 DEF Unmake, After
<1>15. CASE Stop(c)
  BY <1>5, <1>15 DEF Stop, After
<1>16. QED
  BY <1>6, <1>7, <1>8, <1>9, <1>10, <1>11, <1>12, <1>13, <1>14, <1>15 DEF ClientStep

LEMMA NextSteps ==
  ASSUME Next
  PROVE  \/ \E p \in People : Session(p)
         \/ \E i \in Ids : Send(i) \/ \E c \in Clients : Begin(c, i)
         \/ \E c \in Clients : ClientStep(c)
  BY DEF Next, Session, ClientStep

\* Commands and requests keep fitting each other.
LEMMA OrdersFitStep == TypeOK /\ OrdersFit /\ [Next]_vars => TypeOK' /\ OrdersFit'
<1> SUFFICES ASSUME TypeOK, OrdersFit, [Next]_vars PROVE TypeOK' /\ OrdersFit'
  OBVIOUS
<1>1. ASSUME NEW p \in People, Session(p) PROVE TypeOK' /\ OrdersFit'
  <2>1. TypeOK' /\ UNCHANGED <<req, order>>
    BY <1>1, SessionTypes DEF staffVars
  <2>2. QED
    BY <2>1 DEF OrdersFit, OrderFits, Busy, Sent
<1>2. ASSUME NEW i \in Ids, Send(i) PROVE TypeOK' /\ OrdersFit'
  <2>1. /\ TypeOK' /\ req' = req
        /\ order[i] = NoOrder /\ \A j \in Ids : j # i => order'[j] = order[j]
    BY <1>2, SendTypes
  <2>2. ASSUME NEW c \in Clients, Busy(c) PROVE order'[req[c].id] = order[req[c].id]
    BY <2>1, <2>2, BusyFits DEF Sent, Order, NoOrder
  <2>3. QED
    BY <2>1, <2>2 DEF OrdersFit, OrderFits, Busy, Sent
<1>3. ASSUME NEW c \in Clients, NEW i \in Ids, Begin(c, i) PROVE TypeOK' /\ OrdersFit'
  <2>1. TypeOK' /\ Started(c, i)
    BY <1>3, BeginTypes
  <2>2. OrderFits(c)'
    BY <2>1 DEF Started, OrderFits, Sent, Order, FirstStep, Adding, Leaving
  <2>3. ASSUME NEW d \in Clients, d # c, Busy(d)' PROVE OrderFits(d)'
    <3>1. Busy(d) /\ req'[d].id = req[d].id /\ req'[d].at = req[d].at /\ order' = order
      BY <2>1, <2>3 DEF Started, Busy, About
    <3>2. QED
      BY <3>1 DEF OrdersFit, OrderFits, Sent
  <2>4. QED
    BY <2>1, <2>2, <2>3 DEF OrdersFit
<1>4. ASSUME NEW c \in Clients, ClientStep(c) PROVE TypeOK' /\ OrdersFit'
  <2>1. TypeOK' /\ Shape(c) /\ After(c)
    BY <1>4, ClientTypes, ClientAfter
  <2>2. Busy(c)' => OrderFits(c)'
    <3>1. OrderFits(c) /\ order' = order
      BY <2>1 DEF Shape, OrdersFit
    <3>2. Busy(c)' => req'[c].id = req[c].id
      BY <2>1 DEF Shape, Goes, Busy
    <3> SUFFICES ASSUME Busy(c)' PROVE OrderFits(c)'
      OBVIOUS
    <3>3. Sent(c)' = Sent(c)
      BY <3>1, <3>2 DEF Sent
    <3>4. Sent(c).type \in {"add", "role", "on", "off"}
      BY <3>1 DEF OrderFits, Order
    <3>5. After(c) /\ req'[c] # Idle
      BY <2>1 DEF Busy
    <3>6. QED
      BY <3>1, <3>3, <3>4, <3>5 DEF After, OrderFits, Adding, Leaving
  <2>3. ASSUME NEW d \in Clients, d # c, Busy(d)' PROVE OrderFits(d)'
    BY <2>1, <2>3 DEF Shape, Busy, OrdersFit, OrderFits, Sent
  <2>4. QED
    BY <2>1, <2>2, <2>3 DEF OrdersFit
<1>5. CASE UNCHANGED vars
  BY <1>5 DEF vars, TypeOK, OrdersFit, OrderFits, Busy, Sent
<1>6. QED
  BY <1>1, <1>2, <1>3, <1>4, <1>5, NextSteps

\* Every variable always has its type, however requests, sessions and faults
\* interleave.
THEOREM TypeCorrect == Spec => []TypeOK
<1>1. Init => TypeOK /\ OrdersFit
  BY InitTypes DEF Init, OrdersFit, Busy
<1>2. QED
  BY <1>1, OrdersFitStep, PTL DEF Spec

-----------------------------------------------------------------------------
(* The last administrator.                                                   *)

\* A role change keeps everything but the role.
LEMMA RoleEffect ==
  ASSUME TypeOK, OrdersFit, NEW c \in Clients, ChangeRole(c), NEW p \in People, p = Target(c)
  PROVE  /\ profile'[p].known = profile[p].known
         /\ profile'[p].active = profile[p].active
         /\ profile'[p].sub = profile[p].sub
         /\ profile'[p].admin \/ Trigger(p) \/ profile' = profile
<1> DEFINE o == Sent(c)
<1>1. profile[p] \in Profile
  BY DEF TypeOK, Profile
<1>2. \/ /\ profile' = [profile EXCEPT ![p].admin = o.account.admin,
                                       ![p].roles = o.account.roles,
                                       ![p].rev = @ + 1]
         /\ ~o.account.admin => Trigger(p)
      \/ profile' = profile
  BY DEF ChangeRole, Sent, Target
<1> DEFINE a == o.account.admin
           b == o.account.roles
           n == profile[p].rev + 1
<1>3. a \in BOOLEAN
  BY StepIsBusy, BusyFits DEF ChangeRole, Steps, Order, Accounts
<1>4. \/ /\ profile' = [profile EXCEPT ![p].admin = a, ![p].roles = b, ![p].rev = n]
         /\ ~a => Trigger(p)
      \/ profile' = profile
  BY <1>2 DEF TypeOK
<1> HIDE DEF a, b, n
<1>5. QED
  BY <1>1, <1>3, <1>4 DEF TypeOK, Profile

LEMMA KnownFitsStep == TypeOK /\ OrdersFit /\ KnownFits /\ [Next]_vars => KnownFits'
<1> SUFFICES ASSUME TypeOK, OrdersFit, KnownFits, [Next]_vars PROVE KnownFits'
  OBVIOUS
<1>1. ASSUME NEW p \in People, Session(p) PROVE KnownFits'
  <2>1. UNCHANGED <<profile, req, order>>
    BY <1>1, SessionTypes DEF staffVars
  <2>2. QED
    BY <2>1 DEF KnownFits, Busy, Sent, Target
<1>2. ASSUME NEW i \in Ids, Send(i) PROVE KnownFits'
  <2>1. /\ UNCHANGED <<profile, req>>
        /\ order[i] = NoOrder /\ \A j \in Ids : j # i => order'[j] = order[j]
    BY <1>2, SendTypes
  <2>2. ASSUME NEW c \in Clients, Busy(c) PROVE order'[req[c].id] = order[req[c].id]
    BY <2>1, <2>2, BusyFits DEF Sent, Order, NoOrder
  <2>3. QED
    BY <2>1, <2>2 DEF KnownFits, Busy, Sent, Target
<1>3. ASSUME NEW c \in Clients, NEW i \in Ids, Begin(c, i) PROVE KnownFits'
  <2>1. Started(c, i)
    BY <1>3, BeginTypes
  <2>2. \A d \in Clients : d # c /\ Busy(d)' =>
          Busy(d) /\ req'[d].id = req[d].id
    BY <2>1 DEF Started, Busy, About
  <2>3. UNCHANGED <<profile, order>> /\ req'[c].id = i
    BY <2>1 DEF Started
  <2>4. order[i].type # "add" => profile[order[i].target].known
    BY <2>1 DEF Started, Admissible
  <2>5. QED
    BY <2>2, <2>3, <2>4 DEF KnownFits, Sent, Target
<1>4. ASSUME NEW c \in Clients, ClientStep(c) PROVE KnownFits'
  <2>1. Shape(c) /\ TypeOK'
    BY <1>4, ClientTypes
  <2>2. PICK p \in People : p = Target(c)
    BY <2>1, BusyFits DEF Shape
  <2>3. /\ profile[p].known => profile'[p].known
        /\ profile'[p].active => profile'[p].known
    <3>1. profile[p] \in Profile
      BY DEF TypeOK, Profile
    <3>2. CASE Persist(c)
      <4>1. Sent(c).type # "add" /\ Busy(c)
        BY <2>1, <3>2 DEF Persist, Shape, OrdersFit, OrderFits, Adding
      <4>2. profile[p].known
        BY <2>2, <4>1 DEF KnownFits
      <4>3. \E b \in BOOLEAN : profile' = [profile EXCEPT ![p].active = b] \/ profile' = profile
        BY <2>2, <3>2 DEF Persist
      <4>4. profile'[p].known
        BY <3>1, <4>2, <4>3 DEF TypeOK, Profile
      <4>5. QED
        BY <4>4
    <3>3. CASE ChangeRole(c)
      <4>1. /\ profile'[p].known = profile[p].known
            /\ profile'[p].active = profile[p].active
        BY <2>2, <3>3, RoleEffect
      <4>2. QED
        BY <4>1 DEF KnownFits
    <3>4. CASE Save(c)
      BY <2>2, <3>4 DEF Save, TypeOK, KnownFits
    <3>5. CASE UNCHANGED profile
      BY <3>5 DEF KnownFits
    <3>6. QED
      BY <1>4, <3>2, <3>3, <3>4, <3>5
         DEF ClientStep, Enable, Disable, SignOut, Undo, Create, Unmake, Stop
  <2>4. \A q \in People : profile[q].known => profile'[q].known
    BY <2>1, <2>2, <2>3 DEF Shape
  <2>5. \A q \in People : profile'[q].active => profile'[q].known
    BY <2>1, <2>2, <2>3 DEF Shape, KnownFits
  <2>6. ASSUME NEW d \in Clients, Busy(d)', Sent(d)'.type # "add"
        PROVE  profile'[Target(d)'].known
    <3>1. Busy(d) /\ req'[d].id = req[d].id /\ order' = order
      BY <2>1, <2>6 DEF Shape, Goes, Busy
    <3>2. Sent(d)' = Sent(d) /\ Target(d)' = Target(d)
      BY <3>1 DEF Sent, Target
    <3>3. QED
      BY <2>4, <2>6, <3>1, <3>2, BusyFits DEF KnownFits
  <2>7. QED
    BY <2>5, <2>6 DEF KnownFits, Sent, Target
<1>5. CASE UNCHANGED vars
  BY <1>5 DEF vars, KnownFits, Busy, Sent, Target
<1>6. QED
  BY <1>1, <1>2, <1>3, <1>4, <1>5, NextSteps

LEMMA AdminRemainsStep ==
  TypeOK /\ OrdersFit /\ KnownFits /\ AdminRemains /\ [Next]_vars => AdminRemains'
<1> SUFFICES ASSUME TypeOK, OrdersFit, KnownFits, AdminRemains, [Next]_vars
             PROVE  AdminRemains'
  OBVIOUS
<1>1. ASSUME NEW c \in Clients, ClientStep(c) PROVE AdminRemains'
  <2>1. Shape(c)
    BY <1>1, ClientTypes
  <2>2. PICK p \in People : p = Target(c)
    BY <2>1, BusyFits DEF Shape
  <2>3. \A q \in People : q # p => (ActiveAdmin(q)' <=> ActiveAdmin(q))
    BY <2>1, <2>2 DEF Shape, ActiveAdmin
  <2>4. (ActiveAdmin(p) => ActiveAdmin(p)') \/ Trigger(p)
    <3>1. profile[p] \in Profile
      BY DEF TypeOK, Profile
    <3>2. CASE Persist(c)
      <4>1. \/ profile' = [profile EXCEPT ![p].active = TRUE]
            \/ Trigger(p)
            \/ profile' = profile
        BY <2>2, <3>2 DEF Persist
      <4>2. QED
        BY <3>1, <4>1 DEF ActiveAdmin, TypeOK, Profile
    <3>3. CASE ChangeRole(c)
      BY <2>2, <3>3, RoleEffect DEF ActiveAdmin
    <3>4. CASE Save(c)
      <4>1. ~profile[p].known \/ profile' = profile
        BY <2>2, <3>4 DEF Save
      <4>2. QED
        BY <4>1 DEF KnownFits, ActiveAdmin
    <3>5. CASE UNCHANGED profile
      BY <3>5 DEF ActiveAdmin
    <3>6. QED
      BY <1>1, <3>2, <3>3, <3>4, <3>5
         DEF ClientStep, Enable, Disable, SignOut, Undo, Create, Unmake, Stop
  <2>5. QED
    BY <2>3, <2>4 DEF AdminRemains, Trigger, AnotherAdmin
<1>2. CASE UNCHANGED profile
  BY <1>2 DEF AdminRemains, ActiveAdmin
<1>3. QED
  BY <1>1, <1>2, NextSteps, SessionTypes, SendTypes DEF Begin, vars, staffVars

\* However demotions, deactivations, grants and their repetitions overlap, and
\* wherever they stop, an active administrator remains.
THEOREM AdminRemainsHolds == Spec => []AdminRemains
<1>1. Init => TypeOK /\ OrdersFit
  BY InitTypes DEF Init, OrdersFit, Busy
<1>2. Init => KnownFits /\ AdminRemains
  <2> SUFFICES ASSUME Init PROVE KnownFits /\ AdminRemains
    OBVIOUS
  <2>1. KnownFits
    BY DEF Init, KnownFits, NoProfile, Busy
  <2>2. PICK p \in Founders : TRUE
    BY StaffAssumption
  <2>3. ActiveAdmin(p) /\ p \in People
    BY StaffAssumption DEF Init, ActiveAdmin
  <2>4. QED
    BY <2>1, <2>3 DEF AdminRemains
<1>3. QED
  BY <1>1, <1>2, OrdersFitStep, KnownFitsStep, AdminRemainsStep, PTL DEF Spec

-----------------------------------------------------------------------------
(* The two stores.                                                           *)

\* A request in flight keeps its command and its person.
Same(d) == /\ Busy(d) /\ req'[d].id = req[d].id
           /\ Sent(d)' = Sent(d) /\ Target(d)' = Target(d) /\ Target(d) \in People

LEMMA SendKeeps ==
  ASSUME TypeOK, OrdersFit, NEW i \in Ids, Send(i), NEW d \in Clients, Busy(d)'
  PROVE  Same(d) /\ req'[d] = req[d]
<1>1. /\ req' = req
      /\ order[i] = NoOrder /\ \A j \in Ids : j # i => order'[j] = order[j]
  BY SendTypes
<1>2. Busy(d) /\ req[d].id \in Ids /\ Sent(d) \in Order /\ Target(d) \in People
  BY <1>1, BusyFits DEF Busy
<1>3. order'[req[d].id] = order[req[d].id]
  BY <1>1, <1>2 DEF Sent, Order, NoOrder
<1>4. QED
  BY <1>1, <1>2, <1>3 DEF Same, Sent, Target

LEMMA SessionKeeps ==
  ASSUME TypeOK, OrdersFit, NEW p \in People, Session(p), NEW d \in Clients, Busy(d)'
  PROVE  Same(d) /\ req'[d] = req[d]
<1>1. req' = req /\ order' = order
  BY SessionTypes DEF staffVars
<1>2. QED
  BY <1>1, BusyFits DEF Same, Sent, Target, Busy

LEMMA ClientKeeps ==
  ASSUME TypeOK, OrdersFit, NEW c \in Clients, ClientStep(c), NEW d \in Clients, Busy(d)'
  PROVE  Same(d) /\ req'[d].seen = req[d].seen /\ req'[d].alone = req[d].alone
<1>1. Shape(c)
  BY ClientTypes
<1>2. /\ Busy(d) /\ req'[d].id = req[d].id /\ order' = order
      /\ req'[d].seen = req[d].seen /\ req'[d].alone = req[d].alone
  BY <1>1 DEF Shape, Goes, Busy
<1>3. QED
  BY <1>2, BusyFits DEF Same, Sent, Target

LEMMA BeginKeeps ==
  ASSUME TypeOK, OrdersFit, NEW c \in Clients, NEW i \in Ids, Started(c, i),
         NEW d \in Clients, d # c, Busy(d)'
  PROVE  /\ Same(d) /\ req'[d].at = req[d].at
         /\ req'[d].alone => req'[d] = req[d] /\ Target(d) # order[i].target
<1>1. Busy(d) /\ req'[d].id = req[d].id /\ req'[d].at = req[d].at /\ order' = order
  BY DEF Started, Busy, About
<1>2. req'[d].alone => req'[d] = req[d] /\ d \notin About(order[i].target)
  BY DEF Started
<1>3. QED
  BY <1>1, <1>2, BusyFits DEF Same, Sent, Target, About, Busy

LEMMA NewRequest ==
  ASSUME TypeOK, OrdersFit, NEW c \in Clients, NEW i \in Ids, Started(c, i)
  PROVE  /\ Busy(c)' /\ Sent(c)' = order[i] /\ Target(c)' = order[i].target
         /\ order[i].target \in People /\ ~Busy(c)
  BY DEF Started, Busy, Sent, Target, Order, Request, Idle, Steps

LEMMA AloneFitsStep == Access /\ [Next]_vars => AloneFits'
<1> SUFFICES ASSUME TypeOK, OrdersFit, AloneFits, [Next]_vars,
                    NEW c \in Clients, Alone(c)'
             PROVE  /\ \A d \in Clients : Busy(d)' /\ Target(d)' = Target(c)' => d = c
                    /\ req'[c].at # "unmake" =>
                         req'[c].id \notin done' /\ req'[c].seen = profile'[Target(c)'].active
  BY DEF Access, AloneFits
<1>1. ASSUME NEW p \in People, Session(p)
      PROVE  /\ \A d \in Clients : Busy(d)' /\ Target(d)' = Target(c)' => d = c
             /\ req'[c].at # "unmake" =>
                  req'[c].id \notin done' /\ req'[c].seen = profile'[Target(c)'].active
  <2>1. \A d \in Clients : Busy(d)' => Same(d) /\ req'[d] = req[d]
    BY <1>1, SessionKeeps
  <2>2. done' = done /\ profile' = profile
    BY <1>1, SessionTypes DEF staffVars
  <2>3. QED
    BY <2>1, <2>2 DEF AloneFits, Alone, Same
<1>2. ASSUME NEW i \in Ids, Send(i)
      PROVE  /\ \A d \in Clients : Busy(d)' /\ Target(d)' = Target(c)' => d = c
             /\ req'[c].at # "unmake" =>
                  req'[c].id \notin done' /\ req'[c].seen = profile'[Target(c)'].active
  <2>1. \A d \in Clients : Busy(d)' => Same(d) /\ req'[d] = req[d]
    BY <1>2, SendKeeps
  <2>2. done' = done /\ profile' = profile
    BY <1>2, SendTypes
  <2>3. QED
    BY <2>1, <2>2 DEF AloneFits, Alone, Same
<1>3. ASSUME NEW b \in Clients, NEW i \in Ids, Begin(b, i)
      PROVE  /\ \A d \in Clients : Busy(d)' /\ Target(d)' = Target(c)' => d = c
             /\ req'[c].at # "unmake" =>
                  req'[c].id \notin done' /\ req'[c].seen = profile'[Target(c)'].active
  <2> DEFINE p == order[i].target
  <2>1. Started(b, i)
    BY <1>3, BeginTypes
  <2>2. \A d \in Clients : d # b /\ Busy(d)' =>
          /\ Same(d)
          /\ req'[d].alone => req'[d] = req[d] /\ Target(d) # p
    BY <2>1, BeginKeeps
  <2>3. /\ Busy(b)' /\ Target(b)' = p /\ p \in People
    BY <2>1, NewRequest
  <2>4. done' = done /\ profile' = profile /\ i \notin done
    BY <2>1 DEF Started
  <2>5. CASE c = b
    <3>1. About(p) = {} /\ req'[c].id = i /\ req'[c].seen = profile[p].active
      BY <2>1, <2>5 DEF Started, Alone
    <3>2. \A d \in Clients : Busy(d)' /\ Target(d)' = Target(c)' => d = c
      BY <2>2, <2>3, <2>5, <3>1 DEF About, Same, Busy
    <3>3. QED
      BY <2>3, <2>4, <2>5, <3>1, <3>2
  <2>6. CASE c # b
    <3>1. Same(c) /\ req'[c] = req[c] /\ Target(c) # p /\ Alone(c)
      BY <2>2, <2>6 DEF Alone, Same
    <3>2. QED
      BY <2>2, <2>3, <2>4, <3>1 DEF AloneFits, Same
  <2>7. QED
    BY <2>5, <2>6
<1>4. ASSUME NEW b \in Clients, ClientStep(b)
      PROVE  /\ \A d \in Clients : Busy(d)' /\ Target(d)' = Target(c)' => d = c
             /\ req'[c].at # "unmake" =>
                  req'[c].id \notin done' /\ req'[c].seen = profile'[Target(c)'].active
  <2>1. \A d \in Clients : Busy(d)' =>
          Same(d) /\ req'[d].seen = req[d].seen /\ req'[d].alone = req[d].alone
    BY <1>4, ClientKeeps
  <2>2. Shape(b) /\ Alone(c) /\ Same(c)
    BY <1>4, <2>1, ClientTypes DEF Alone, Same
  <2>3. \A d \in Clients : Busy(d)' /\ Target(d)' = Target(c)' => d = c
    BY <2>1, <2>2 DEF AloneFits, Same
  <2>4. CASE c = b
    <3>1. req[c].at # "unmake"
      BY <1>4, <2>4, ClientAfter DEF After, Alone, Busy
    <3>2. req'[c].at # "unmake" => UNCHANGED <<profile, done>>
      BY <2>2, <2>4 DEF Shape, Goes, Alone, Busy
    <3>3. QED
      BY <2>1, <2>2, <2>3, <3>1, <3>2 DEF AloneFits, Alone, Same
  <2>5. CASE c # b
    <3>1. Target(b) # Target(c) /\ req[b].id # req[c].id
      BY <2>2, <2>5 DEF AloneFits, Shape, Target
    <3>2. /\ profile'[Target(c)] = profile[Target(c)] /\ done' \subseteq done \cup {req[b].id}
          /\ req'[c] = req[c]
      BY <2>2, <2>5, <3>1 DEF Shape, Same
    <3>3. QED
      BY <2>1, <2>2, <2>3, <3>1, <3>2 DEF AloneFits, Same, Alone
  <2>6. QED
    BY <2>4, <2>5
<1>5. CASE UNCHANGED vars
  BY <1>5 DEF vars, AloneFits, Alone, Busy, Sent, Target
<1>6. QED
  BY <1>1, <1>2, <1>3, <1>4, <1>5, NextSteps

\* What a request that is alone can rely on.
LEMMA AloneFacts ==
  ASSUME Access, NEW c \in Clients, Alone(c), NEW p \in People, p = Target(c)
  PROVE  /\ profile[p] \in Profile /\ user[p] \in User /\ browser[p] \in Browser
         /\ req[c] \in Request /\ Sent(c).type \in {"add", "role", "on", "off"}
         /\ OrderFits(c) /\ Reached(c)
         /\ req[c].at # "unmake" => req[c].id \notin done /\ req[c].seen = profile[p].active
         /\ Sent(c).type # "add" => profile[p].known
         /\ profile[p].active => profile[p].known
         /\ p \notin muddled => Sorted(p)
         /\ req[c].at \in Before => NoneBetween(p)
<1>1. Busy(c)
  BY DEF Alone
<1>2. req[c] \in Request /\ Sent(c) \in Order
  BY <1>1, BusyFits DEF Access
<1>3. profile[p] \in Profile /\ user[p] \in User /\ browser[p] \in Browser
  BY DEF Access, TypeOK, Profile, User, Browser
<1>4. \A d \in Clients : Busy(d) /\ Target(d) = p => d = c
  BY DEF Access, AloneFits
<1>5. p \notin muddled => Sorted(p)
  BY <1>4 DEF Access, Settled, Undisturbed, Alone
<1>6. req[c].at \in Before => NoneBetween(p)
  BY <1>4 DEF NoneBetween
<1>7. OrderFits(c) /\ Reached(c)
  BY <1>1 DEF Access, OrdersFit, Progress
<1>8. req[c].at # "unmake" => req[c].id \notin done /\ req[c].seen = profile[p].active
  BY DEF Access, AloneFits
<1>9. /\ Sent(c).type # "add" => profile[p].known
      /\ profile[p].active => profile[p].known
  BY <1>1 DEF Access, KnownFits
<1>10. QED
  BY <1>2, <1>3, <1>5, <1>6, <1>7, <1>8, <1>9 DEF Order

\* What its step has to bring about.
Good(c, p) == (Busy(c)' => Reached(c)') /\ (p \notin muddled' => Sorted(p)')

\* A step to a next one leaves the person's state to be checked, without the
\* part that holds only before the first change.
LEMMA GoesGood ==
  ASSUME Access, NEW c \in Clients, Alone(c), NEW p \in People, p = Target(c), ClientStep(c),
         Busy(c)', req'[c].at \notin Before, muddled' = muddled,
         profile'[p] = profile[p], user'[p].sub = user[p].sub,
         browser'[p].refresh = "good" => browser[p].refresh = "good"
  PROVE  p \notin muddled' => Sorted(p)'
<1>1. Same(c)
  BY ClientKeeps DEF Access
<1>2. ~NoneBetween(p)'
  BY <1>1 DEF Same, NoneBetween
<1>3. p \notin muddled => Sorted(p)
  BY AloneFacts
<1>4. QED
  BY <1>2, <1>3 DEF Sorted, SameIdentity

\* A step that changes nothing before the first change ends well.
LEMMA RefusedGood ==
  ASSUME Access, NEW c \in Clients, Alone(c), NEW p \in People, p = Target(c),
         req[c].at \in Before, Finish(c, "refused"),
         profile'[p] = profile[p], user'[p] = user[p], browser'[p] = browser[p]
  PROVE  Good(c, p)
<1>1. ~Busy(c)'
  BY FinishIdle DEF Busy, Access
<1>2. p \notin muddled => Sorted(p) /\ NoneBetween(p)
  BY AloneFacts
<1>3. muddled' = muddled
  BY DEF Finish, Alone
<1>4. QED
  BY <1>1, <1>2, <1>3 DEF Good, Sorted, SameIdentity

LEMMA TornGood ==
  ASSUME Access, NEW c \in Clients, Alone(c), NEW p \in People, p = Target(c), Finish(c, "torn")
  PROVE  Good(c, p)
<1>1. ~Busy(c)'
  BY FinishIdle DEF Busy, Access
<1>2. p \in muddled'
  BY DEF Finish
<1>3. QED
  BY <1>1, <1>2 DEF Good

\* Nothing is at stake for a person without a profile.
LEMMA UnknownGood ==
  ASSUME NEW p \in People, ~profile'[p].known, profile'[p].active => profile'[p].known,
         profile'[p].active \in BOOLEAN
  PROVE  Sorted(p)'
  BY DEF Sorted

LEMMA SetEnabledAt ==
  ASSUME TypeOK, NEW c \in Clients, NEW p \in People, p = Target(c), NEW b \in BOOLEAN
  PROVE  SetEnabled(c, b)[p].sub = user[p].sub /\ SetEnabled(c, b)[p].enabled = b
<1>1. user[p] \in User
  BY DEF TypeOK, User
<1>2. QED
  BY <1>1 DEF SetEnabled, TypeOK, User

LEMMA SignedOutAt ==
  ASSUME TypeOK, NEW c \in Clients, NEW p \in People, p = Target(c)
  PROVE  SignedOut(c)[p].refresh # "good"
<1>1. browser[p] \in Browser
  BY DEF TypeOK, Browser
<1>2. QED
  BY <1>1 DEF SignedOut, TypeOK, Browser

LEMMA EnableGood ==
  ASSUME Access, NEW c \in Clients, Alone(c), NEW p \in People, p = Target(c), Enable(c)
  PROVE  Good(c, p)
<1> USE DEF Access
<1>0. ClientStep(c) /\ req[c].at = "enable" /\ UNCHANGED <<profile, browser>>
  BY DEF ClientStep, Enable
<1>1. req[c] \in Request /\ Sent(c).type = "on"
  BY <1>0, AloneFacts DEF OrderFits
<1>2. CASE Exists(c) /\ user' = SetEnabled(c, TRUE) /\ Goto(c, "persist")
  <2>1. user'[p].sub = user[p].sub /\ user'[p].enabled = TRUE /\ user[p].sub # 0
    BY <1>2, SetEnabledAt DEF Exists
  <2>2. req'[c].at = "persist" /\ muddled' = muddled
    BY <1>1, <1>2, GotoAt DEF Goto, Steps
  <2>3. Busy(c)'
    BY <2>2 DEF Busy, Idle
  <2>4. Target(c)' = p /\ Sent(c)' = Sent(c)
    BY <1>0, <2>3, ClientKeeps DEF Same
  <2>5. Reached(c)'
    BY <1>1, <2>1, <2>2, <2>4 DEF Reached, Adding
  <2>6. p \notin muddled' => Sorted(p)'
    BY <1>0, <2>1, <2>2, <2>3, GoesGood DEF Before, Adding
  <2>7. QED
    BY <2>5, <2>6 DEF Good
<1>3. CASE user' = user /\ Finish(c, "refused")
  BY <1>0, <1>3, RefusedGood DEF Before
<1>4. CASE Finish(c, "torn")
  BY <1>4, TornGood
<1>5. QED
  BY <1>2, <1>3, <1>4 DEF Enable

LEMMA DisableGood ==
  ASSUME Access, NEW c \in Clients, Alone(c), NEW p \in People, p = Target(c), Disable(c)
  PROVE  Good(c, p)
<1> USE DEF Access
<1>0. ClientStep(c) /\ req[c].at = "disable" /\ UNCHANGED <<profile, browser>>
  BY DEF ClientStep, Disable
<1>1. req[c] \in Request /\ Sent(c).type = "off"
  BY <1>0, AloneFacts DEF OrderFits, Leaving
<1>2. CASE Exists(c) /\ user' = SetEnabled(c, FALSE) /\ Goto(c, "signout")
  <2>1. user'[p].sub = user[p].sub /\ user'[p].enabled = FALSE /\ user[p].sub # 0
    BY <1>2, SetEnabledAt DEF Exists
  <2>2. req'[c].at = "signout" /\ muddled' = muddled
    BY <1>1, <1>2, GotoAt DEF Goto, Steps
  <2>3. Busy(c)'
    BY <2>2 DEF Busy, Idle
  <2>4. Target(c)' = p /\ Sent(c)' = Sent(c)
    BY <1>0, <2>3, ClientKeeps DEF Same
  <2>5. Reached(c)'
    BY <1>1, <2>1, <2>2, <2>4 DEF Reached, Adding
  <2>6. p \notin muddled' => Sorted(p)'
    BY <1>0, <2>1, <2>2, <2>3, GoesGood DEF Before, Adding
  <2>7. QED
    BY <2>5, <2>6 DEF Good
<1>3. CASE user' = user /\ Finish(c, "refused")
  BY <1>0, <1>3, RefusedGood DEF Before
<1>4. CASE Finish(c, "torn")
  BY <1>4, TornGood
<1>5. QED
  BY <1>2, <1>3, <1>4 DEF Disable

LEMMA SignOutGood ==
  ASSUME Access, NEW c \in Clients, Alone(c), NEW p \in People, p = Target(c), SignOut(c)
  PROVE  Good(c, p)
<1> USE DEF Access
<1>0. ClientStep(c) /\ req[c].at = "signout" /\ UNCHANGED <<profile, user>>
  BY DEF ClientStep, SignOut
<1>1. req[c] \in Request /\ Sent(c).type = "off" /\ ~user[p].enabled /\ user[p].sub # 0
  BY <1>0, AloneFacts DEF OrderFits, Leaving, Reached
<1>2. ASSUME NEW s \in {"persist", "undo"}, Goto(c, s), browser' \in {browser, SignedOut(c)},
             s = "persist" => browser' = SignedOut(c)
      PROVE  Good(c, p)
  <2>1. browser'[p].refresh = "good" => browser[p].refresh = "good" /\ s # "persist"
    BY <1>2, SignedOutAt
  <2>2. req'[c].at = s /\ muddled' = muddled
    BY <1>1, <1>2, GotoAt DEF Goto, Steps
  <2>3. Busy(c)'
    BY <1>2, <2>2 DEF Busy, Idle
  <2>4. Target(c)' = p /\ Sent(c)' = Sent(c)
    BY <1>0, <2>3, ClientKeeps DEF Same
  <2>5. user'[p].enabled = FALSE
    BY <1>0, <1>1, AloneFacts DEF User
  <2>6. Reached(c)'
    BY <1>0, <1>1, <1>2, <2>1, <2>2, <2>4, <2>5 DEF Reached, Adding
  <2>7. p \notin muddled' => Sorted(p)'
    BY <1>0, <1>2, <2>1, <2>2, <2>3, GoesGood DEF Before, Adding
  <2>8. QED
    BY <2>6, <2>7 DEF Good
<1>3. QED
  BY <1>1, <1>2 DEF SignOut, Exists

LEMMA PersistGood ==
  ASSUME Access, NEW c \in Clients, Alone(c), NEW p \in People, p = Target(c), Persist(c)
  PROVE  Good(c, p)
<1> USE DEF Access
<1> DEFINE on == Sent(c).type = "on"
<1>0. ClientStep(c) /\ req[c].at = "persist" /\ UNCHANGED <<user, browser>>
  BY DEF ClientStep, Persist
<1>1. /\ req[c] \in Request /\ req[c].id \notin done
      /\ Sent(c).type \in {"on", "off"} /\ profile[p].known
      /\ user[p].enabled = on /\ user[p].sub # 0
      /\ Sent(c).type = "off" => browser[p].refresh # "good"
      /\ profile[p] \in Profile
  BY <1>0, AloneFacts DEF OrderFits, Adding, Reached
<1>2. CASE Goto(c, "undo") /\ UNCHANGED profile
  <2>2. req'[c].at = "undo" /\ muddled' = muddled
    BY <1>1, <1>2, GotoAt DEF Goto, Steps
  <2>3. Busy(c)'
    BY <2>2 DEF Busy, Idle
  <2>4. Target(c)' = p /\ Sent(c)' = Sent(c)
    BY <1>0, <2>3, ClientKeeps DEF Same
  <2>5. Reached(c)'
    BY <1>0, <1>1, <2>2, <2>4 DEF Reached, Adding
  <2>6. p \notin muddled' => Sorted(p)'
    BY <1>0, <1>2, <2>2, <2>3, GoesGood DEF Before, Adding
  <2>7. QED
    BY <2>5, <2>6 DEF Good
<1>3. CASE /\ profile' = [profile EXCEPT ![p].active = on]
           /\ Finish(c, IF SameIdentity(p) THEN "kept" ELSE "recorded")
  <2>1. ~Busy(c)'
    BY <1>3, FinishIdle DEF Busy
  <2>2. /\ profile'[p].active = on /\ profile'[p].known = profile[p].known
        /\ profile'[p].sub = profile[p].sub
    BY <1>1, <1>3 DEF TypeOK, Profile
  <2>3. p \notin muddled' => SameIdentity(p)
    BY <1>1, <1>3, AloneFacts DEF Finish, Sorted
  <2>4. p \notin muddled' => Sorted(p)'
    BY <1>0, <1>1, <2>2, <2>3 DEF Sorted, SameIdentity
  <2>5. QED
    BY <2>1, <2>4 DEF Good
<1>4. QED
  BY <1>1, <1>2, <1>3 DEF Persist, Sent

LEMMA UndoGood ==
  ASSUME Access, NEW c \in Clients, Alone(c), NEW p \in People, p = Target(c), Undo(c)
  PROVE  Good(c, p)
<1> USE DEF Access
<1> DEFINE on == Sent(c).type = "on"
<1>0. ClientStep(c) /\ req[c].at = "undo" /\ UNCHANGED <<profile, browser>>
  BY DEF ClientStep, Undo
<1>1. /\ req[c] \in Request /\ Sent(c).type \in {"on", "off"} /\ profile[p].known
      /\ req[c].seen = profile[p].active /\ profile[p] \in Profile
  BY <1>0, AloneFacts DEF OrderFits, Adding
<1>2. CASE user' = SetEnabled(c, ~on) /\ req[c].seen # on /\ Finish(c, "refused")
  <2>1. ~Busy(c)' /\ muddled' = muddled
    BY <1>2, FinishIdle DEF Busy, Finish, Alone
  <2>2. user'[p].sub = user[p].sub /\ user'[p].enabled = ~on
    BY <1>2, SetEnabledAt
  <2>3. profile[p].active = ~on
    BY <1>1, <1>2 DEF Profile
  <2>4. p \notin muddled => Sorted(p)
    BY AloneFacts
  <2>5. p \notin muddled' => Sorted(p)'
    BY <1>0, <1>1, <2>1, <2>2, <2>3, <2>4 DEF Sorted, SameIdentity
  <2>6. QED
    BY <2>1, <2>5 DEF Good
<1>3. CASE Finish(c, "torn")
  BY <1>3, TornGood
<1>4. QED
  BY <1>2, <1>3 DEF Undo, Sent

LEMMA ChangeRoleGood ==
  ASSUME Access, NEW c \in Clients, Alone(c), NEW p \in People, p = Target(c), ChangeRole(c)
  PROVE  Good(c, p)
<1> USE DEF Access
<1>1. req[c].at = "role" /\ UNCHANGED <<user, browser, muddled>> /\ req'[c] = Idle
  BY DEF ChangeRole, TypeOK
<1>2. /\ profile'[p].known = profile[p].known /\ profile'[p].active = profile[p].active
      /\ profile'[p].sub = profile[p].sub
  BY RoleEffect
<1>3. p \notin muddled => Sorted(p) /\ NoneBetween(p)
  BY <1>1, AloneFacts DEF Before
<1>4. p \notin muddled' => Sorted(p)'
  BY <1>1, <1>2, <1>3 DEF Sorted, SameIdentity
<1>5. QED
  BY <1>1, <1>4 DEF Good, Busy

LEMMA CreateGood ==
  ASSUME Access, NEW c \in Clients, Alone(c), NEW p \in People, p = Target(c), Create(c)
  PROVE  Good(c, p)
<1> USE DEF Access
<1>0. ClientStep(c) /\ req[c].at = "create" /\ UNCHANGED profile
  BY DEF ClientStep, Create
<1>1. /\ req[c] \in Request /\ ~profile[p].known /\ ~profile[p].active
      /\ Sent(c).type = "add" /\ profile[p] \in Profile
  BY <1>0, AloneFacts DEF Reached, Adding, OrderFits, Profile
<1>2. Sorted(p)'
  BY <1>0, <1>1, UnknownGood DEF Profile
<1>3. ASSUME Busy(c)' PROVE Reached(c)'
  <2>1. Target(c)' = p
    BY <1>0, <1>3, ClientKeeps DEF Same
  <2>2. ~Finish(c, "refused")
    BY <1>3, FinishIdle DEF Busy
  <2>3. CASE /\ req' = [req EXCEPT ![c].at = "save", ![c].made = TRUE, ![c].sub = subs + 1]
             /\ user' = [user EXCEPT ![p] = [sub |-> subs + 1, enabled |-> TRUE]]
    <3>1. user'[p].sub = subs + 1 /\ user'[p].enabled = TRUE
      BY <2>3 DEF TypeOK
    <3>2. req'[c].at = "save" /\ req'[c].sub = subs + 1
      <4> DEFINE r == [req[c] EXCEPT !.at = "save", !.made = TRUE, !.sub = subs + 1]
      <4>1. req'[c] = r
        BY <2>3 DEF TypeOK
      <4>2. r.at = "save" /\ r.sub = subs + 1
        BY <1>1 DEF Request
      <4>3. QED
        BY <4>1, <4>2
    <3>3. QED
      BY <1>0, <1>1, <2>1, <3>1, <3>2 DEF Reached, Adding
  <2>4. CASE /\ req' = [req EXCEPT ![c].at = "save", ![c].sub = user[p].sub]
             /\ user' = user /\ user[p].enabled
    <3>1. req'[c].at = "save" /\ req'[c].sub = user[p].sub
      <4> DEFINE r == [req[c] EXCEPT !.at = "save", !.sub = user[p].sub]
      <4>1. req'[c] = r
        BY <2>4 DEF TypeOK
      <4>2. r.at = "save" /\ r.sub = user[p].sub
        BY <1>1 DEF Request
      <4>3. QED
        BY <4>1, <4>2
    <3>2. QED
      BY <1>0, <1>1, <2>1, <2>4, <3>1 DEF Reached, Adding
  <2>5. QED
    BY <2>2, <2>3, <2>4 DEF Create
<1>4. QED
  BY <1>2, <1>3 DEF Good

LEMMA SaveGood ==
  ASSUME Access, NEW c \in Clients, Alone(c), NEW p \in People, p = Target(c), Save(c)
  PROVE  Good(c, p)
<1> USE DEF Access
<1>0. ClientStep(c) /\ req[c].at = "save" /\ UNCHANGED <<user, browser>>
  BY DEF ClientStep, Save
<1>1. /\ req[c] \in Request /\ ~profile[p].known /\ ~profile[p].active
      /\ user[p].sub = req[c].sub /\ user[p].enabled /\ Sent(c).type = "add"
      /\ user[p] \in User /\ profile[p] \in Profile
  BY <1>0, AloneFacts DEF Reached, Adding, OrderFits, Profile
<1> DEFINE Saved == \E a, r : profile' = [profile EXCEPT ![p] =
                      [known |-> TRUE, admin |-> a, active |-> TRUE,
                       roles |-> r, rev |-> 0, sub |-> req[c].sub]]
<1>2. profile' = profile \/ Saved => Sorted(p)'
  <2>1. CASE profile' = profile
    BY <1>1, <2>1, UnknownGood DEF Profile
  <2>2. CASE Saved
    <3>1. /\ profile'[p].active = TRUE /\ profile'[p].known = TRUE
          /\ profile'[p].sub = req[c].sub
      BY <2>2 DEF TypeOK
    <3>2. QED
      BY <1>0, <1>1, <3>1 DEF Sorted, SameIdentity, User
  <2>3. QED
    BY <2>1, <2>2
<1>3. CASE Goto(c, "unmake") /\ (profile' = profile \/ Saved)
  <2>1. req'[c].at = "unmake"
    BY <1>1, <1>3, GotoAt DEF Steps
  <2>2. Reached(c)'
    BY <2>1 DEF Reached
  <2>3. QED
    BY <1>2, <1>3, <2>2 DEF Good
<1>4. CASE Finish(c, "refused") /\ UNCHANGED profile
  BY <1>0, <1>4, RefusedGood DEF Before, Adding
<1>5. CASE Finish(c, "kept") /\ Saved
  <2>1. ~Busy(c)'
    BY <1>5, FinishIdle DEF Busy
  <2>2. QED
    BY <1>2, <1>5, <2>1 DEF Good
<1>6. QED
  BY <1>3, <1>4, <1>5 DEF Save

LEMMA UnmakeGood ==
  ASSUME Access, NEW c \in Clients, Alone(c), NEW p \in People, p = Target(c), Unmake(c)
  PROVE  Good(c, p)
<1> USE DEF Access
<1>0. req[c].at = "unmake" /\ UNCHANGED <<profile, browser>>
  BY DEF Unmake
<1>1. CASE UNCHANGED user /\ Finish(c, "refused")
  BY <1>0, <1>1, RefusedGood DEF Before, Adding
<1>2. CASE Named(c) /\ Finish(c, "torn")
  BY <1>2, TornGood
<1>3. CASE user[p].sub = req[c].sub /\ ~Named(c) /\ Finish(c, "refused")
  <2>1. ~Busy(c)' /\ muddled' = muddled
    BY <1>3, FinishIdle DEF Busy, Finish, Alone
  <2>2. /\ p \notin muddled => Sorted(p)
        /\ profile[p].active => profile[p].known
        /\ profile[p] \in Profile
    BY AloneFacts
  <2>3. p \notin muddled => ~profile[p].known
    BY <1>3, <2>2 DEF Named, Sorted, SameIdentity
  <2>4. p \notin muddled' => Sorted(p)'
    BY <1>0, <2>1, <2>2, <2>3, UnknownGood DEF Profile
  <2>5. QED
    BY <2>1, <2>4 DEF Good
<1>4. QED
  BY <1>1, <1>2, <1>3 DEF Unmake

LEMMA StopGood ==
  ASSUME Access, NEW c \in Clients, Alone(c), NEW p \in People, p = Target(c), Stop(c)
  PROVE  Good(c, p)
<1>1. CASE Finish(c, "refused") /\ req[c].at \in Before
  BY <1>1, RefusedGood DEF Stop
<1>2. CASE Finish(c, "torn")
  BY <1>2, TornGood
<1>3. QED
  BY <1>1, <1>2 DEF Stop, Before, Adding

LEMMA AloneGood ==
  ASSUME Access, NEW c \in Clients, Alone(c), NEW p \in People, p = Target(c), ClientStep(c)
  PROVE  Good(c, p)
  BY EnableGood, DisableGood, SignOutGood, PersistGood, UndoGood, ChangeRoleGood,
     CreateGood, SaveGood, UnmakeGood, StopGood DEF ClientStep

\* A request that is not alone muddles its person when it ends, unless it only
\* changed a role, which touches nothing that the stores share.
LEMMA CrowdedStep ==
  ASSUME Access, NEW c \in Clients, Busy(c), ~req[c].alone, NEW p \in People, p = Target(c),
         ClientStep(c), Undisturbed(p)'
  PROVE  Undisturbed(p) /\ Sorted(p)'
<1> USE DEF Access
<1>1. Shape(c) /\ After(c)
  BY ClientTypes, ClientAfter
<1>2. req'[c] = Idle
  <2>1. Busy(c)' => Same(c) /\ req'[c].alone = req[c].alone
    BY ClientKeeps
  <2>2. Busy(c)' => req'[c].at # "role"
    BY <1>1 DEF After, Busy
  <2>3. QED
    BY <2>1, <2>2 DEF Undisturbed, Same, Busy
<1>3. p \notin muddled'
  BY DEF Undisturbed
<1>4. \A how : ~Finish(c, how)
  BY <1>3 DEF Finish
<1>5. CASE ChangeRole(c)
  <2>1. req[c].at = "role" /\ UNCHANGED <<user, browser, muddled>>
    BY <1>5 DEF ChangeRole
  <2>2. \A d \in Clients : d # c /\ Busy(d) /\ Target(d) = p =>
          Busy(d)' /\ Target(d)' = p /\ req'[d] = req[d]
    BY <1>1 DEF Shape, Busy, Target
  <2>3. Undisturbed(p)
    BY <2>1, <2>2 DEF Undisturbed
  <2>4. NoneBetween(p)' => NoneBetween(p)
    BY <2>1, <2>2 DEF NoneBetween, Before
  <2>5. /\ profile'[p].known = profile[p].known /\ profile'[p].active = profile[p].active
        /\ profile'[p].sub = profile[p].sub
    BY <1>5, RoleEffect
  <2>6. Sorted(p)
    BY <2>3 DEF Settled
  <2>7. Sorted(p)'
    BY <2>1, <2>4, <2>5, <2>6 DEF Sorted, SameIdentity
  <2>8. QED
    BY <2>3, <2>7
<1>6. CASE ~ChangeRole(c)
  <2>1. Busy(c)'
    <3>1. req[c] \in Request
      BY BusyFits
    <3>2. \A s \in Steps : Goto(c, s) => Busy(c)'
      BY <3>1, GotoAt DEF Busy, Idle, Steps
    <3>3. \/ \E s \in Steps : Goto(c, s)
          \/ Create(c)
      BY <1>4, <1>6 DEF ClientStep, Enable, Disable, SignOut, Persist, Undo, Save, Unmake, Stop, Steps
    <3>4. CASE Create(c)
      BY <1>4, <3>1, <3>4, CreateAt DEF Busy, Idle
    <3>5. QED
      BY <3>2, <3>3, <3>4
  <2>2. QED
    BY <1>2, <2>1 DEF Busy
<1>7. QED
  BY <1>5, <1>6

\* What a step about somebody else leaves of a person.
LEMMA ElsewhereSorted ==
  ASSUME Access, NEW q \in People,
         profile'[q] = profile[q], user'[q] = user[q], browser'[q] = browser[q],
         q \in muddled' <=> q \in muddled,
         \A d \in Clients : Busy(d) /\ Target(d) = q => Busy(d)' /\ Target(d)' = q /\ req'[d] = req[d]
  PROVE  Undisturbed(q)' => Sorted(q)'
<1> SUFFICES ASSUME Undisturbed(q)' PROVE Sorted(q)'
  OBVIOUS
<1>1. Undisturbed(q)
  BY DEF Undisturbed
<1>2. NoneBetween(q)' => NoneBetween(q)
  BY DEF NoneBetween
<1>3. QED
  BY <1>1, <1>2 DEF Access, Settled, Sorted, SameIdentity

LEMMA ElsewhereReached ==
  ASSUME NEW d \in Clients, Same(d), req'[d] = req[d], Reached(d),
         profile'[Target(d)] = profile[Target(d)], user'[Target(d)] = user[Target(d)],
         browser'[Target(d)] = browser[Target(d)]
  PROVE  Reached(d)'
  BY DEF Same, Reached

LEMMA ClientAccess ==
  ASSUME Access, NEW c \in Clients, ClientStep(c)
  PROVE  Progress' /\ Settled'
<1> USE DEF Access
<1>1. Shape(c) /\ Busy(c)
  BY ClientTypes DEF Shape
<1>2. PICK p \in People : p = Target(c)
  BY <1>1, BusyFits
<1>3. ASSUME NEW d \in Clients, Alone(d)' PROVE Reached(d)'
  <2>1. Same(d) /\ Alone(d)
    BY <1>3, ClientKeeps DEF Alone, Same
  <2>2. CASE d = c
    BY <1>2, <1>3, <2>1, <2>2, AloneGood DEF Good, Alone
  <2>3. CASE d # c
    <3>1. Target(d) # p
      BY <1>1, <1>2, <2>1, <2>3 DEF AloneFits
    <3>2. QED
      BY <1>1, <1>2, <2>1, <2>3, <3>1, ElsewhereReached DEF Shape, Same, Progress
  <2>4. QED
    BY <2>2, <2>3
<1>4. ASSUME NEW q \in People, Undisturbed(q)' PROVE Sorted(q)'
  <2>1. CASE q # p
    <3>1. \A d \in Clients : Busy(d) /\ Target(d) = q =>
            Busy(d)' /\ Target(d)' = q /\ req'[d] = req[d]
      BY <1>1, <1>2, <2>1 DEF Shape, Busy, Target
    <3>2. QED
      BY <1>1, <1>2, <1>4, <2>1, <3>1, ElsewhereSorted DEF Shape
  <2>2. CASE q = p /\ Alone(c)
    BY <1>2, <1>4, <2>2, AloneGood DEF Good, Undisturbed
  <2>3. CASE q = p /\ ~Alone(c)
    BY <1>1, <1>2, <1>4, <2>3, CrowdedStep DEF Alone
  <2>4. QED
    BY <2>1, <2>2, <2>3
<1>5. QED
  BY <1>3, <1>4 DEF Progress, Settled

LEMMA BeginAccess ==
  ASSUME Access, NEW c \in Clients, NEW i \in Ids, Begin(c, i)
  PROVE  Progress' /\ Settled'
<1> USE DEF Access
<1> DEFINE p == order[i].target
<1>1. Started(c, i) /\ order[i] \in Order /\ Admissible(order[i])
  BY BeginTypes DEF Started
<1>2. Busy(c)' /\ Target(c)' = p /\ p \in People /\ ~Busy(c) /\ Sent(c)' = order[i]
  BY <1>1, NewRequest
<1>3. UNCHANGED <<profile, user, browser, muddled>>
  BY <1>1 DEF Started
<1>4. \A d \in Clients : d # c /\ Busy(d)' =>
        /\ Same(d) /\ req'[d].at = req[d].at
        /\ req'[d].alone => req'[d] = req[d] /\ Target(d) # p
  BY <1>1, BeginKeeps
<1>5. /\ req'[c].at = FirstStep[order[i].type] /\ req'[c].alone = (About(p) = {})
      /\ order[i].type \in {"add", "role", "on", "off"}
      /\ order[i].type = "add" => ~profile[p].known
  BY <1>1 DEF Started, Order, Admissible
<1>6. req'[c].at \in {"create", "role", "enable", "disable"}
      /\ (req'[c].at = "create" => ~profile[p].known)
  BY <1>5 DEF FirstStep
<1>7. \A d \in Clients : d # c /\ Busy(d) => Busy(d)'
  BY <1>1 DEF Started, Busy, Idle, Request, Steps
<1>8. ASSUME NEW d \in Clients, Alone(d)' PROVE Reached(d)'
  <2>1. CASE d = c
    BY <1>2, <1>3, <1>6, <2>1 DEF Reached, Adding
  <2>2. CASE d # c
    BY <1>3, <1>4, <1>8, <2>2, ElsewhereReached DEF Alone, Same, Progress
  <2>3. QED
    BY <2>1, <2>2
<1>9. ASSUME NEW q \in People, Undisturbed(q)' PROVE Sorted(q)'
  <2>1. Undisturbed(q)
    <3> SUFFICES ASSUME NEW d \in Clients, Busy(d), Target(d) = q
                 PROVE  req[d].alone \/ req[d].at = "role"
      BY <1>3, <1>9 DEF Undisturbed
    <3>1. d # c /\ Busy(d)'
      BY <1>2, <1>7
    <3>2. Target(d)' = q /\ req'[d].at = req[d].at /\ (req'[d].alone => req'[d] = req[d])
      BY <1>4, <3>1 DEF Same
    <3>3. QED
      BY <1>9, <3>1, <3>2 DEF Undisturbed
  <2>2. NoneBetween(q)' => NoneBetween(q)
    <3> SUFFICES ASSUME NEW d \in Clients, Busy(d), Target(d) = q, NoneBetween(q)'
                 PROVE  req[d].at \in Before
      BY DEF NoneBetween
    <3>1. d # c /\ Busy(d)'
      BY <1>2, <1>7
    <3>2. Target(d)' = q /\ req'[d].at = req[d].at
      BY <1>4, <3>1 DEF Same
    <3>3. QED
      BY <3>1, <3>2 DEF NoneBetween
  <2>3. QED
    BY <1>3, <2>1, <2>2 DEF Settled, Sorted, SameIdentity
<1>10. QED
  BY <1>8, <1>9 DEF Progress, Settled

\* Sessions begin only for somebody active with an enabled identity.
LEMMA SessionAccess ==
  ASSUME Access, NEW p \in People, Session(p)
  PROVE  Progress' /\ Settled'
<1> USE DEF Access
<1>1. UNCHANGED <<staffVars, user, subs>> /\ \A q \in People : q # p => browser'[q] = browser[q]
  BY SessionTypes
<1>2. browser'[p].refresh = "good" =>
        \/ browser[p].refresh = "good"
        \/ profile[p].active /\ user[p].enabled
  <2>1. browser[p] \in Browser
    BY DEF TypeOK, Browser
  <2>2. CASE SignIn(p)
    BY <2>2 DEF SignIn
  <2>3. CASE Expire(p)
    BY <2>1, <2>3 DEF Expire, TypeOK, Browser
  <2>4. CASE Refresh(p)
    BY <2>1, <2>4 DEF Refresh, Cleared, TypeOK
  <2>5. CASE SignOff(p)
    BY <2>5 DEF SignOff, Cleared, TypeOK
  <2>6. QED
    BY <2>2, <2>3, <2>4, <2>5 DEF Session
<1>3. ASSUME NEW d \in Clients, Alone(d)' PROVE Reached(d)'
  <2>1. Same(d) /\ req'[d] = req[d] /\ Alone(d)
    BY <1>3, SessionKeeps DEF Alone, Same
  <2>2. Reached(d)
    BY <2>1 DEF Progress
  <2>3. PICK q \in People : q = Target(d)
    BY <2>1 DEF Same
  <2>4. req[d].at = "persist" /\ Sent(d).type = "off" => ~user[q].enabled
    BY <2>2, <2>3, AloneFacts, <2>1 DEF Reached, User
  <2>5. req[d].at = "persist" /\ Sent(d).type = "off" => browser'[q].refresh # "good"
    BY <1>1, <1>2, <2>2, <2>3, <2>4 DEF Reached
  <2>6. QED
    <3>1. /\ Sent(d)' = Sent(d) /\ Target(d)' = q /\ req'[d] = req[d]
          /\ profile' = profile /\ user' = user
      BY <1>1, <2>1, <2>3 DEF Same, staffVars
    <3>2. QED
      BY <2>2, <2>3, <2>5, <3>1 DEF Reached
<1>4. ASSUME NEW q \in People, Undisturbed(q)' PROVE Sorted(q)'
  <2>1. Undisturbed(q) /\ (NoneBetween(q)' <=> NoneBetween(q))
    BY <1>1, <1>4 DEF Undisturbed, NoneBetween, Busy, Target, staffVars
  <2>2. Sorted(q)
    BY <2>1 DEF Settled
  <2>3. profile'[q] = profile[q] /\ user'[q] = user[q]
    BY <1>1 DEF staffVars
  <2>4. ~profile[q].active /\ browser'[q].refresh = "good" => browser[q].refresh = "good"
    BY <1>1, <1>2
  <2>5. QED
    BY <2>1, <2>2, <2>3, <2>4 DEF Sorted, SameIdentity
<1>5. QED
  BY <1>3, <1>4 DEF Progress, Settled

LEMMA SendAccess ==
  ASSUME Access, NEW i \in Ids, Send(i)
  PROVE  Progress' /\ Settled'
<1> USE DEF Access
<1>1. UNCHANGED <<profile, user, browser, req, muddled>>
  BY SendTypes
<1>2. \A d \in Clients : Busy(d)' => Same(d) /\ req'[d] = req[d]
  BY SendKeeps
<1>3. \A d \in Clients : Busy(d)' <=> Busy(d)
  BY <1>1 DEF Busy
<1>4. ASSUME NEW d \in Clients, Alone(d)' PROVE Reached(d)'
  BY <1>1, <1>2, <1>4, ElsewhereReached DEF Alone, Same, Progress
<1>5. ASSUME NEW q \in People, Undisturbed(q)' PROVE Sorted(q)'
  BY <1>1, <1>2, <1>3, <1>5, ElsewhereSorted DEF Same
<1>6. QED
  BY <1>4, <1>5 DEF Progress, Settled

LEMMA AccessStep == Access /\ [Next]_vars => Progress' /\ Settled'
<1> SUFFICES ASSUME Access, [Next]_vars PROVE Progress' /\ Settled'
  OBVIOUS
<1>1. CASE UNCHANGED vars
  BY <1>1 DEF Access, vars, Progress, Settled, Alone, Busy, Reached, Sorted, SameIdentity,
              Undisturbed, NoneBetween, Sent, Target
<1>2. QED
  BY <1>1, NextSteps, ClientAccess, BeginAccess, SessionAccess, SendAccess

LEMMA InitAccess == Init => Access
<1> SUFFICES ASSUME Init PROVE Access
  OBVIOUS
<1>1. TypeOK
  BY InitTypes
<1>2. \A c \in Clients : ~Busy(c)
  BY DEF Init, Busy
<1>3. KnownFits
  BY <1>2 DEF Init, KnownFits, NoProfile
<1>4. \A p \in People : Sorted(p)
  <2> SUFFICES ASSUME NEW p \in People PROVE Sorted(p)
    OBVIOUS
  <2>1. CASE p \in Founders
    BY <2>1 DEF Init, Sorted, SameIdentity, Cleared
  <2>2. CASE p \notin Founders
    BY <2>2 DEF Init, Sorted, SameIdentity, NoProfile, NoUser
  <2>3. QED
    BY <2>1, <2>2
<1>5. QED
  BY <1>1, <1>2, <1>3, <1>4 DEF Access, OrdersFit, AloneFits, Progress, Settled, Alone

LEMMA AccessHolds == Spec => []Access
<1>1. Access /\ [Next]_vars => Access'
  BY OrdersFitStep, KnownFitsStep, AloneFitsStep, AccessStep DEF Access
<1>2. QED
  BY <1>1, InitAccess, PTL DEF Spec

\* Where nobody is at work the two stores agree about a person, except one whose
\* commands overlapped or were torn since a command last set both.
THEOREM StoresAgreeHolds == Spec => []StoresAgree
<1>1. Access => StoresAgree
  BY DEF Access, Settled, Sorted, Undisturbed, NoneBetween, StoresAgree, Agree, About, Busy
<1>2. QED
  BY <1>1, AccessHolds, PTL

\* Under the same condition a deactivated person has no session left that a
\* reactivation would bring back.
THEOREM NoSessionLeftHolds == Spec => []NoSessionLeft
<1>1. Access => NoSessionLeft
  BY DEF Access, Settled, Sorted, Undisturbed, NoSessionLeft, About, Busy
<1>2. QED
  BY <1>1, AccessHolds, PTL
=============================================================================
