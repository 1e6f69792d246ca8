-------------------------------- MODULE Accounts --------------------------------
(***************************************************************************)
(* Who may do what: registration, the team page, passwords and devices.    *)
(*   register, change_password, register_fcm_token, get_current_user,      *)
(*   require_role                                   in app/api/auth.py     *)
(*   invite_member, update_member, reset_member_password                   *)
(*                                                  in app/api/team.py     *)
(*                                                                         *)
(* A request passes get_current_user first, a dependency that runs in the  *)
(* thread pool, and its body later, on the event loop: other requests run  *)
(* in between, and the body goes on with the caller's row as the           *)
(* dependency loaded it.  A body does not await, so one process runs it    *)
(* without interruption; the two that insert under a unique key also       *)
(* provide for other processes, so that their look-up and their commit are *)
(* two steps here.                                                         *)
(***************************************************************************)
EXTENDS Naturals

CONSTANTS
  Users,        \* account ids
  Emails,       \* lower-cased e-mail addresses, unique over all accounts
  Orgs,         \* organisations
  Devices,      \* FCM tokens
  Slots,        \* requests that may be in flight together
  None,         \* NULL
  Boss,         \* the founder there is from the beginning
  MaxRequests   \* bound: requests let in

Roles == {"founder", "admin", "telecaller"}

ASSUME AccountsAssumption ==
  /\ Boss \in Users
  /\ Emails # {} /\ Orgs # {}
  /\ None \notin Roles \cup Orgs \cup Emails \cup Devices
  /\ MaxRequests \in Nat

VARIABLES
  role,      \* [Users -> User.role, or None when there is no such account]
  org,       \* [Users -> User.org_id]
  email,     \* [Users -> User.email]
  active,    \* [Users -> User.is_active]
  issued,    \* [Users -> is the password one somebody else has set?]
  device,    \* [Users -> User.fcm_token]
  request,   \* [Slots -> the request in flight]
  made,      \* [Emails -> how many requests were answered 201]
  served     \* requests let in so far

account  == <<role, org, email, active, issued, device>>
accounts == <<account, request, made, served>>

Idle == [step |-> "idle"]
In   == [step : {"in"}, actor : Users, as : Roles]
New  == [step : {"invite", "register"}, user : Users, email : Emails, org : Orgs, role : Roles]

AccountTypeOK ==
  /\ role \in [Users -> Roles \cup {None}]
  /\ org \in [Users -> Orgs \cup {None}]
  /\ email \in [Users -> Emails \cup {None}]
  /\ active \in [Users -> BOOLEAN]
  /\ issued \in [Users -> BOOLEAN]
  /\ device \in [Users -> Devices \cup {None}]
  /\ made \in [Emails -> Nat]
  /\ served \in 0 .. MaxRequests

AccountsInit ==
  /\ role = [u \in Users |-> IF u = Boss THEN "founder" ELSE None]
  /\ \E o \in Orgs : org = [u \in Users |-> IF u = Boss THEN o ELSE None]
  /\ \E e \in Emails : email = [u \in Users |-> IF u = Boss THEN e ELSE None]
  /\ active = [u \in Users |-> u = Boss]
  /\ issued = [u \in Users |-> FALSE]
  /\ device = [u \in Users |-> None]
  /\ request = [s \in Slots |-> Idle]
  /\ made = [e \in Emails |-> 0]
  /\ served = 0

-----------------------------------------------------------------------------
Exists(u)   == role[u] # None
Taken(e)    == \E u \in Users : email[u] = e
Pending(u)  == \E s \in Slots : request[s].step \in {"invite", "register"} /\ request[s].user = u
Fresh(u)    == ~Exists(u) /\ ~Pending(u)       \* uuid4
Manager(r)  == r \in {"founder", "admin"}      \* require_role("founder", "admin")
Hold(s, r)  == request' = [request EXCEPT ![s] = r]
Finish(s)   == Hold(s, Idle) /\ UNCHANGED served
Admit(s)    == /\ served < MaxRequests /\ served' = served + 1
               /\ request[s] = Idle

\* get_current_user: an active account gets in; the body will see its row as it
\* is now.
Authorize(s, u) ==
  /\ Exists(u) /\ active[u]
  /\ Admit(s)
  /\ Hold(s, [step |-> "in", actor |-> u, as |-> role[u]])
  /\ UNCHANGED <<account, made>>

\* A body run for the request in slot s, by somebody with one of the roles.
Serving(s)        == request[s].step = "in"
ServingManager(s) == Serving(s) /\ Manager(request[s].as)

-----------------------------------------------------------------------------
(* New accounts *)

\* register: anybody; a new organisation comes with its founder.
RegisterRead(s, u, e, o) ==
  /\ Fresh(u) /\ ~Taken(e)
  /\ \A v \in Users : org[v] # o
  /\ Admit(s)
  /\ Hold(s, [step |-> "register", user |-> u, email |-> e, org |-> o, role |-> "founder"])
  /\ UNCHANGED <<account, made>>

\* invite_member: only a founder invites a founder.
InviteRead(s, u, e, r) ==
  LET by == request[s].actor
  IN  /\ ServingManager(s)
      /\ r = "founder" => request[s].as = "founder"
      /\ Fresh(u) /\ ~Taken(e)
      /\ Hold(s, [step |-> "invite", user |-> u, email |-> e, org |-> org[by], role |-> r])
      /\ UNCHANGED <<account, made, served>>

\* The commit goes through: organisation and founder together, or the member
\* with a password somebody else knows.
CommitNew(s) ==
  LET r == request[s]
  IN  /\ r.step \in {"invite", "register"} /\ ~Taken(r.email)
      /\ r.step = "register" => \A v \in Users : org[v] # r.org
      /\ role' = [role EXCEPT ![r.user] = r.role]
      /\ org' = [org EXCEPT ![r.user] = r.org]
      /\ email' = [email EXCEPT ![r.user] = r.email]
      /\ active' = [active EXCEPT ![r.user] = TRUE]
      /\ issued' = [issued EXCEPT ![r.user] = r.step = "invite"]
      /\ made' = [made EXCEPT ![r.email] = @ + 1]
      /\ Finish(s)
      /\ UNCHANGED device

\* Mutation: the loser of the race is answered like the winner.
LoseSilently(s) ==
  LET r == request[s]
  IN  /\ r.step \in {"invite", "register"}
      /\ Taken(r.email) \/ (r.step = "register" /\ \E v \in Users : org[v] = r.org)
      /\ made' = [made EXCEPT ![r.email] = @ + 1]
      /\ Finish(s)
      /\ UNCHANGED account

\* IntegrityError on the e-mail: 409.  (On the slug of a new organisation it is
\* raised by the flush before the try: 500.)  Nothing is stored.
LoseNew(s) ==
  LET r == request[s]
  IN  /\ r.step \in {"invite", "register"}
      /\ Taken(r.email) \/ (r.step = "register" /\ \E v \in Users : org[v] = r.org)
      /\ Finish(s)
      /\ UNCHANGED <<account, made>>

-----------------------------------------------------------------------------
(* The team page *)

\* The member's role as the body sees it: the caller's own row is the one the
\* dependency loaded, any other is read now.
SeenRole(s, v) == IF v = request[s].actor THEN request[s].as ELSE role[v]

Colleague(s, v) == Exists(v) /\ org[v] = org[request[s].actor]

\* Mutation: the founder's account is protected from role changes only, not from
\* deactivation.
UpdateGuardingRole(s, v, r, on) ==
  LET by == request[s].actor
      mayTouch == SeenRole(s, v) # "founder" \/ request[s].as = "founder"
  IN  /\ ServingManager(s) /\ Colleague(s, v)
      /\ r # None => mayTouch
      /\ r = "founder" => request[s].as = "founder"
      /\ v = by => on # "off"
      /\ role' = [role EXCEPT ![v] = IF r \in {None, SeenRole(s, v)} THEN @ ELSE r]
      /\ active' = [active EXCEPT ![v] = IF on = "same" \/ v = by THEN @ ELSE on = "on"]
      /\ Finish(s)
      /\ UNCHANGED <<org, email, issued, device, made>>

\* update_member: r is the new role or None, on is "same", "on" or "off".  A
\* founder's account is for founders; nobody switches himself off.  A column is
\* written when it differs from what was loaded.
UpdateMember(s, v, r, on) ==
  LET by == request[s].actor
  IN  /\ ServingManager(s) /\ Colleague(s, v)
      /\ (SeenRole(s, v) = "founder" /\ (r # None \/ on # "same")) => request[s].as = "founder"
      /\ r = "founder" => request[s].as = "founder"
      /\ v = by => on # "off"
      /\ role' = [role EXCEPT ![v] = IF r \in {None, SeenRole(s, v)} THEN @ ELSE r]
      /\ active' = [active EXCEPT ![v] = IF on = "same" \/ v = by THEN @ ELSE on = "on"]
      /\ Finish(s)
      /\ UNCHANGED <<org, email, issued, device, made>>

\* reset_member_password: a password its owner has to confirm.
ResetPassword(s, v) ==
  /\ ServingManager(s) /\ Colleague(s, v)
  /\ SeenRole(s, v) = "founder" => request[s].as = "founder"
  /\ issued' = [issued EXCEPT ![v] = TRUE]
  /\ Finish(s)
  /\ UNCHANGED <<role, org, email, active, device, made>>

\* change_password: the current password is checked against the row as loaded.
ChangePassword(s) ==
  /\ Serving(s)
  /\ issued' = [issued EXCEPT ![request[s].actor] = FALSE]
  /\ Finish(s)
  /\ UNCHANGED <<role, org, email, active, device, made>>

\* register_fcm_token: the last device a user signed in on; it may still be
\* another user's too.
RegisterDevice(s, d) ==
  /\ Serving(s)
  /\ device' = [device EXCEPT ![request[s].actor] = d]
  /\ Finish(s)
  /\ UNCHANGED <<role, org, email, active, issued, made>>

\* Any refusal, and every handler that only reads.
Answer(s) ==
  /\ Serving(s)
  /\ Finish(s)
  /\ UNCHANGED <<account, made>>

AccountsNext ==
  \E s \in Slots :
    \/ \E u \in Users : Authorize(s, u)
    \/ \E u \in Users, e \in Emails : \/ \E o \in Orgs : RegisterRead(s, u, e, o)
                                      \/ \E r \in Roles : InviteRead(s, u, e, r)
    \/ CommitNew(s) \/ LoseNew(s)
    \/ \E v \in Users : \/ ResetPassword(s, v)
                        \/ \E r \in Roles \cup {None}, on \in {"same", "on", "off"} :
                             UpdateMember(s, v, r, on)
    \/ ChangePassword(s) \/ Answer(s)
    \/ \E d \in Devices : RegisterDevice(s, d)

-----------------------------------------------------------------------------
(* Safety *)

\* The request served by a step.
Served(s) == request[s] # Idle /\ request'[s] = Idle

\* Founders answer to founders only: whenever somebody stops being a founder, is
\* switched off as one, gets a password issued as one, or becomes one, the
\* request was let in as a founder's - or it is a new account's, or his own.
FoundersByFounders ==
  [][\A v \in Users :
       \/ role[v] = "founder" /\ (role'[v] # "founder" \/ (active[v] /\ ~active'[v])
                                    \/ (issued'[v] /\ ~issued[v]))
       \/ Exists(v) /\ role[v] # "founder" /\ role'[v] = "founder"
       => \E s \in Slots : /\ Served(s) /\ request[s].step = "in"
                           /\ request[s].as = "founder" \/ request[s].actor = v
    ]_accounts

=============================================================================
