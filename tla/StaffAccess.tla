----------------------------- MODULE StaffAccess -----------------------------
(* Who may operate the race: the staff profiles of the database, the         *)
(* identities of the provider (Cognito) and the browser sessions between     *)
(* them.  A lifecycle command changes both stores one after the other,       *)
(* without a transaction, and undoes the first change when the second fails. *)
(*                                                                           *)
(* A call may fail, or take effect and lose its answer; a request may stop   *)
(* between two calls; an administrator may repeat a command under its        *)
(* identifier; two administrators may work on the same person.               *)
EXTENDS Integers, FiniteSets

CONSTANTS
  People,       \* the accounts, each with one e-mail address and one browser
  Founders,     \* those with a profile and an identity at the start: administrators
  Roles,        \* operational roles
  Ids,          \* command identifiers
  Clients,      \* bound: lifecycle requests in flight
  MaxSub,       \* bound: identities ever created
  MaxFaults     \* bound: calls that fail, requests that stop

ASSUME StaffAssumption ==
  /\ Founders \subseteq People /\ Founders # {}
  /\ IsFiniteSet(People)
  /\ MaxSub \in Nat /\ MaxFaults \in Nat
  /\ Cardinality(Founders) <= MaxSub

VARIABLES
  profile,  \* staff_profiles with the current staff_role_assignments
  user,     \* Cognito: subject of the identity (0: none), is it enabled?
  subs,     \* subjects handed out so far
  browser,  \* subject of the access cookie (0: none or expired), and the refresh
            \* cookie: none, good, or dead at the provider
  order,    \* what each command identifier was sent for
  done,     \* the recorded commands
  req,      \* the requests in flight
  muddled,  \* people whose two stores nobody has reconciled: see Finish
  faults    \* faults so far

vars == <<profile, user, subs, browser, order, done, req, muddled, faults>>

-----------------------------------------------------------------------------
NoProfile == [known |-> FALSE, admin |-> FALSE, active |-> FALSE,
              roles |-> {}, rev |-> 0, sub |-> 0]
NoUser == [sub |-> 0, enabled |-> FALSE]
Cleared == [access |-> 0, refresh |-> "none"]
NoOrder == [type |-> "none"]
Idle == [at |-> "idle"]

\* An account is an administrator without roles or a member of staff with some.
Accounts == {x \in [admin : BOOLEAN, roles : SUBSET Roles] : x.admin <=> x.roles = {}}
Order == [type : {"add", "role", "on", "off"}, by : People, target : People,
          account : Accounts, rev : Nat]
Steps == {"create", "save", "unmake", "role", "enable", "disable", "signout",
          "persist", "undo"}
Request == [at : Steps, id : Ids, seen : BOOLEAN, made : BOOLEAN,
            sub : 0..MaxSub, alone : BOOLEAN]

Target(c) == order[req[c].id].target
About(p) == {c \in Clients : req[c] # Idle /\ Target(c) = p}
ActiveAdmin(p) == profile[p].active /\ profile[p].admin
\* hasAnotherActiveAdmin, and the condition of the trigger that repeats it.
AnotherAdmin(p) == \E q \in People \ {p} : ActiveAdmin(q)

\* The identity the provider has under the person's address is the profile's.
SameIdentity(p) == user[p].sub = profile[p].sub

\* authenticateStaff: the token's subject belongs to an active profile.
Authenticated(p) == /\ browser[p].access # 0
                    /\ profile[p].active
                    /\ browser[p].access = profile[p].sub

-----------------------------------------------------------------------------
Sub == CHOOSE f \in [Founders -> 1..Cardinality(Founders)] :
         \A p, q \in Founders : p # q => f[p] # f[q]

Init ==
  /\ profile = [p \in People |-> IF p \in Founders
                  THEN [known |-> TRUE, admin |-> TRUE, active |-> TRUE,
                        roles |-> {}, rev |-> 0, sub |-> Sub[p]]
                  ELSE NoProfile]
  /\ user = [p \in People |-> IF p \in Founders
               THEN [sub |-> Sub[p], enabled |-> TRUE]
               ELSE NoUser]
  /\ subs = Cardinality(Founders)
  /\ browser = [p \in People |-> Cleared]
  /\ order = [i \in Ids |-> NoOrder]
  /\ done = {}
  /\ req = [c \in Clients |-> Idle]
  /\ muddled = {}
  /\ faults = 0

-----------------------------------------------------------------------------
(* Sessions.                                                                 *)

staffVars == <<profile, order, done, req, muddled, faults>>

\* Mutant: a token response without a refresh token is accepted.
Open_NoRefresh(p) == [access |-> user[p].sub, refresh |-> "undefined"]
\* The cookies of a token response.
Open(p) == [access |-> user[p].sub, refresh |-> "good"]

\* completeStaffLogin: the provider grants tokens to an enabled identity, but
\* they are kept only if they authenticate somebody.
SignIn(p) ==
  /\ user[p].sub # 0 /\ user[p].enabled
  /\ profile[p].active /\ profile[p].sub = user[p].sub
  /\ browser' = [browser EXCEPT ![p] = Open(p)]
  /\ UNCHANGED <<staffVars, user, subs>>

\* An access token lasts at most fifteen minutes.
Expire(p) ==
  /\ browser[p].access # 0
  /\ browser' = [browser EXCEPT ![p].access = 0]
  /\ UNCHANGED <<staffVars, user, subs>>

\* authenticateStaffSession: a request without a valid access token uses the
\* refresh cookie.  Tokens that authenticate nobody, and a refusal, clear the
\* cookies.
Refresh(p) ==
  /\ ~Authenticated(p) /\ browser[p].refresh # "none"
  /\ browser' = [browser EXCEPT ![p] =
       IF browser[p].refresh = "good" /\ user[p].enabled
          /\ profile[p].active /\ profile[p].sub = user[p].sub
       THEN Open(p) ELSE Cleared]
  /\ UNCHANGED <<staffVars, user, subs>>

\* staffLogoutResponse: the cookies go, whether or not the revocation arrives.
SignOff(p) ==
  /\ browser[p] # Cleared
  /\ browser' = [browser EXCEPT ![p] = Cleared]
  /\ UNCHANGED <<staffVars, user, subs>>

-----------------------------------------------------------------------------
(* A lifecycle request.                                                      *)

accountVars == <<subs, order>>

\* An administrator fills in the form and sends it, once or again.
Send(i) ==
  /\ order[i] = NoOrder
  /\ \E o \in [type : {"add", "role", "on", "off"}, by : People,
               target : People, account : Accounts, rev : {0}] :
       /\ Authenticated(o.by) /\ profile[o.by].admin
       /\ o.type \in {"on", "off"} => o.account = [admin |-> TRUE, roles |-> {}]
       /\ order' = [order EXCEPT ![i] = [o EXCEPT !.rev = profile[o.target].rev]]
  /\ UNCHANGED <<profile, user, subs, browser, done, req, muddled, faults>>

FirstStep == [add |-> "create", role |-> "role", on |-> "enable", off |-> "disable"]

\* What a request checks before it changes anything.
Admissible(o) ==
  LET t == profile[o.target]
      \* the account would no longer be an active administrator
      steps_down == o.type = "off" \/ (o.type = "role" /\ ~o.account.admin)
  IN
  /\ t.known <=> o.type # "add"
  /\ o.type = "role" => t.rev = o.rev
  /\ steps_down => /\ o.by = o.target => (o.type = "role" /\ ~t.admin)
                   /\ ActiveAdmin(o.target) => AnotherAdmin(o.target)

\* The actor is authenticated, a recorded command is answered from its record,
\* the target is read.
Begin(c, i) ==
  /\ req[c] = Idle
  /\ order[i] # NoOrder /\ i \notin done
  /\ LET o == order[i] IN
     /\ Authenticated(o.by) /\ profile[o.by].admin
     /\ Admissible(o)
     /\ req' = [d \in Clients |->
          IF d = c
          THEN [at |-> FirstStep[o.type], id |-> i, seen |-> profile[o.target].active,
                made |-> FALSE, sub |-> 0, alone |-> About(o.target) = {}]
          ELSE IF d \in About(o.target) THEN [req[d] EXCEPT !.alone = FALSE]
          ELSE req[d]]
  /\ UNCHANGED <<profile, user, browser, accountVars, done, muddled, faults>>

Goto(c, step) == /\ req' = [req EXCEPT ![c].at = step]
                 /\ UNCHANGED muddled

\* The request ends.  Its target counts as muddled when the request was not
\* alone or could not bring its own changes to an end ("torn"); a command that
\* was alone and is recorded ("kept") sets both stores, and clears that, unless
\* they name different identities.
Finish(c, how) ==
  /\ req' = [req EXCEPT ![c] = Idle]
  /\ muddled' = IF ~req[c].alone \/ how = "torn" THEN muddled \cup {Target(c)}
                ELSE IF how = "kept" THEN muddled \ {Target(c)}
                ELSE muddled

Fault == faults < MaxFaults /\ faults' = faults + 1

SetEnabled(c, b) == [user EXCEPT ![Target(c)].enabled = b]
Exists(c) == user[Target(c)].sub # 0
SignedOut(c) == [browser EXCEPT ![Target(c)].refresh = IF @ = "good" THEN "dead" ELSE @]

\* identity.enable.  A call for an identity that is gone fails.
Enable(c) ==
  /\ req[c].at = "enable"
  /\ \/ /\ Exists(c)
        /\ user' = SetEnabled(c, TRUE)
        /\ Goto(c, "persist")
        /\ UNCHANGED faults
     \/ /\ ~Exists(c) /\ Finish(c, "refused") /\ UNCHANGED <<user, faults>>
     \/ /\ Fault
        /\ Exists(c) /\ user' \in {user, SetEnabled(c, TRUE)}
        /\ Finish(c, IF user' = user THEN "refused" ELSE "torn")
  /\ UNCHANGED <<profile, browser, accountVars, done>>

\* Mutant: the sessions are left alone.
Disable_KeepSessions(c) ==
  /\ req[c].at = "disable"
  /\ IF Exists(c) THEN user' = SetEnabled(c, FALSE) /\ Goto(c, "persist")
                  ELSE Finish(c, "refused") /\ UNCHANGED user
  /\ UNCHANGED <<profile, browser, accountVars, done, faults>>
\* identity.disable.
Disable(c) ==
  /\ req[c].at = "disable"
  /\ \/ /\ Exists(c)
        /\ user' = SetEnabled(c, FALSE)
        /\ Goto(c, "signout")
        /\ UNCHANGED faults
     \/ /\ ~Exists(c) /\ Finish(c, "refused") /\ UNCHANGED <<user, faults>>
     \/ /\ Fault
        /\ Exists(c) /\ user' \in {user, SetEnabled(c, FALSE)}
        /\ Finish(c, IF user' = user THEN "refused" ELSE "torn")
  /\ UNCHANGED <<profile, browser, accountVars, done>>

\* identity.globalSignOut, undone by enabling the identity again.
SignOut(c) ==
  /\ req[c].at = "signout"
  /\ \/ /\ Exists(c) /\ browser' = SignedOut(c) /\ Goto(c, "persist")
        /\ UNCHANGED faults
     \/ /\ ~Exists(c) /\ Goto(c, "undo") /\ UNCHANGED <<browser, faults>>
     \/ /\ Fault /\ browser' \in {browser, SignedOut(c)} /\ Goto(c, "undo")
  /\ UNCHANGED <<profile, user, accountVars, done>>

\* Mutant: the database does not refuse to lose its last administrator.
Trigger_None(p) == TRUE
\* The trigger: the update would leave no active administrator.
Trigger(p) == ActiveAdmin(p) => AnotherAdmin(p)

\* persistLifecycle: the row, the command's record and the audit row.  A command
\* recorded meanwhile is answered from its record; a failure is undone.  The
\* provider was called by the e-mail address: that the identity is still the
\* profile's, nobody looked.
Persist(c) ==
  /\ req[c].at = "persist"
  /\ LET i == req[c].id
         on == order[i].type = "on"
         fits == i \notin done /\ (on \/ Trigger(Target(c)))
     IN
     \/ /\ fits
        /\ profile' = [profile EXCEPT ![Target(c)].active = on]
        /\ done' = done \cup {i}
        /\ Finish(c, IF SameIdentity(Target(c)) THEN "kept" ELSE "recorded")
        /\ UNCHANGED faults
     \/ /\ i \in done /\ Finish(c, "refused")
        /\ UNCHANGED <<profile, done, faults>>
     \/ /\ i \notin done /\ Goto(c, "undo")
        /\ IF fits THEN Fault ELSE UNCHANGED faults
        /\ UNCHANGED <<profile, done>>
  /\ UNCHANGED <<user, browser, accountVars>>

\* Mutant: nothing is undone.
Undo_Nothing(c) ==
  /\ req[c].at = "undo"
  /\ Finish(c, "refused")
  /\ UNCHANGED <<profile, user, browser, accountVars, done, faults>>
\* compensate.  It restores what the profile said only if the command would have
\* changed that; a repeated deactivation or reactivation is undone to the
\* opposite of what the profile says.
Undo(c) ==
  /\ req[c].at = "undo"
  /\ LET on == order[req[c].id].type = "on"
         undone == SetEnabled(c, ~on)
     IN
     \/ /\ Exists(c) /\ user' = undone
        /\ Finish(c, IF req[c].seen = on THEN "torn" ELSE "refused")
        /\ UNCHANGED faults
     \/ /\ ~Exists(c) /\ Finish(c, "torn") /\ UNCHANGED <<user, faults>>
     \/ /\ Fault /\ Exists(c) /\ user' \in {user, undone} /\ Finish(c, "torn")
  /\ UNCHANGED <<profile, browser, accountVars, done>>

\* roleChange: one batch, guarded by the revision and by the trigger.
ChangeRole(c) ==
  /\ req[c].at = "role"
  /\ LET o == order[req[c].id]
         p == o.target
     IN
     \/ /\ req[c].id \notin done /\ profile[p].rev = o.rev
        /\ ~o.account.admin => Trigger(p)
        /\ profile' = [profile EXCEPT ![p].admin = o.account.admin,
                                      ![p].roles = o.account.roles,
                                      ![p].rev = @ + 1]
        /\ done' = done \cup {req[c].id}
     \/ UNCHANGED <<profile, done>>
  \* it touches one store only
  /\ req' = [req EXCEPT ![c] = Idle]
  /\ UNCHANGED <<user, browser, accountVars, muddled, faults>>

\* provisioner.create: a new identity, or the enabled one that exists.
Create(c) ==
  /\ req[c].at = "create"
  /\ LET p == Target(c)
         new == [user EXCEPT ![p] = [sub |-> subs + 1, enabled |-> TRUE]]
     IN
     \/ /\ ~Exists(c) /\ subs < MaxSub
        /\ user' = new /\ subs' = subs + 1
        /\ \/ /\ req' = [req EXCEPT ![c].at = "save", ![c].made = TRUE,
                                    ![c].sub = subs + 1]
              /\ UNCHANGED <<muddled, faults>>
           \/ Fault /\ Finish(c, "refused")       \* created, no answer
     \/ /\ Exists(c) /\ user[p].enabled
        /\ req' = [req EXCEPT ![c].at = "save", ![c].sub = user[p].sub]
        /\ UNCHANGED <<user, subs, muddled, faults>>
     \/ /\ \/ Exists(c) /\ ~user[p].enabled /\ UNCHANGED faults
           \/ Fault
        /\ Finish(c, "refused")
        /\ UNCHANGED <<user, subs>>
  /\ UNCHANGED <<profile, browser, order, done>>

\* The profile with its roles, the command's record and the audit row.  Any
\* exception, also that of a batch that took effect and lost its answer, leads
\* to the deletion of an identity this request made; nobody asks which it was.
Save(c) ==
  /\ req[c].at = "save"
  /\ LET p == Target(c)
         a == order[req[c].id].account
         fits == ~profile[p].known /\ req[c].id \notin done
         saved == [known |-> TRUE, admin |-> a.admin, active |-> TRUE,
                   roles |-> a.roles, rev |-> 0, sub |-> req[c].sub]
     IN
     \/ /\ fits
        /\ profile' = [profile EXCEPT ![p] = saved]
        /\ done' = done \cup {req[c].id}
        /\ \/ Finish(c, "kept") /\ UNCHANGED faults
           \/ /\ Fault
              /\ IF req[c].made THEN Goto(c, "unmake") ELSE Finish(c, "kept")
     \/ /\ IF req[c].made THEN Goto(c, "unmake") ELSE Finish(c, "refused")
        /\ IF fits THEN Fault ELSE UNCHANGED faults
        /\ UNCHANGED <<profile, done>>
  /\ UNCHANGED <<user, browser, accountVars>>

\* The profile names the identity this request made: its batch committed, or that
\* of another grant, which found the identity.
Named(c) == profile[Target(c)].known /\ profile[Target(c)].sub = req[c].sub

\* provisioner.delete, by the user name the provider gave the new identity; it
\* leaves alone another one that has the address since.  The identity of a
\* profile may go with it: then a command that is refused has left the two
\* stores apart, and a grant of the same address is refused as known from then
\* on, a reactivation because there is no identity.
Unmake(c) ==
  /\ req[c].at = "unmake"
  /\ LET mine == user[Target(c)].sub = req[c].sub
     IN  \/ /\ mine /\ user' = [user EXCEPT ![Target(c)] = NoUser]
            /\ Finish(c, IF Named(c) THEN "torn" ELSE "refused")
            /\ UNCHANGED faults
         \/ ~mine /\ Finish(c, "refused") /\ UNCHANGED <<user, faults>>
         \/ Fault /\ Finish(c, "refused") /\ UNCHANGED user
  /\ UNCHANGED <<profile, browser, accountVars, done>>

\* The Worker stops between two calls.
Stop(c) ==
  /\ req[c] # Idle /\ Fault
  /\ Finish(c, IF req[c].at \in {"create", "save", "unmake", "role", "enable", "disable"}
               THEN "refused" ELSE "torn")
  /\ UNCHANGED <<profile, user, browser, accountVars, done>>

Next ==
  \/ \E p \in People : SignIn(p) \/ Expire(p) \/ Refresh(p) \/ SignOff(p)
  \/ \E i \in Ids : Send(i) \/ \E c \in Clients : Begin(c, i)
  \/ \E c \in Clients :
       \/ Enable(c) \/ Disable(c) \/ SignOut(c) \/ Persist(c) \/ Undo(c)
       \/ ChangeRole(c) \/ Create(c) \/ Save(c) \/ Unmake(c) \/ Stop(c)

Spec == Init /\ [][Next]_vars
-----------------------------------------------------------------------------
(* Properties.                                                               *)

\* Every variable has its type.
TypeOK ==
  /\ profile \in [People -> [known : BOOLEAN, admin : BOOLEAN, active : BOOLEAN,
                             roles : SUBSET Roles, rev : Nat, sub : 0..MaxSub]]
  /\ user \in [People -> [sub : 0..MaxSub, enabled : BOOLEAN]]
  /\ subs \in 0..MaxSub
  /\ browser \in [People -> [access : 0..MaxSub, refresh : {"none", "good", "dead"}]]
  /\ order \in [Ids -> Order \cup {NoOrder}]
  /\ done \subseteq {i \in Ids : order[i] # NoOrder}
  /\ req \in [Clients -> Request \cup {Idle}]
  /\ muddled \subseteq People /\ faults \in 0..MaxFaults

\* However demotions, deactivations and their repetitions overlap, an active
\* administrator remains.
AdminRemains == \E p \in People : ActiveAdmin(p)

\* When no command about a person is in flight, the profile and the identity
\* agree, except where commands about that person overlapped, or one of them
\* was torn and no command has set both stores since.
Agree(p) == /\ profile[p].active <=> profile[p].known /\ user[p].enabled
            /\ profile[p].known => SameIdentity(p)
StoresAgree == \A p \in People \ muddled : About(p) = {} => Agree(p)

\* A deactivated person has no session that a reactivation would bring back.
NoSessionLeft ==
  \A p \in People \ muddled :
    About(p) = {} /\ profile[p].known /\ ~profile[p].active
      => browser[p].refresh # "good"
=============================================================================
