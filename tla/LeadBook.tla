------------------------------- MODULE LeadBook -------------------------------
(***************************************************************************)
(* The leads of one organisation: who creates a Lead row, whom it is       *)
(* assigned to, how it moves over the kanban board, and what is logged.    *)
(*   create_lead, upload_recording (its upsert of the Lead row),           *)
(*   _pick_telecaller_for_assignment   in app/api/calls.py                 *)
(*   update_lead_stage(_by_contact), update_lead_details                   *)
(*                                     in app/api/dashboard.py             *)
(*   update_member (is_active)         in app/api/team.py                  *)
(*                                                                         *)
(* Every handler reads rows, decides, and commits.  Its body does not      *)
(* await in between, so one uvicorn process never interleaves two of them; *)
(* the code nevertheless provides for it (IntegrityError after a passed    *)
(* existence check), and so does this module: Processes run one handler    *)
(* each, and reading and committing are two steps.  The auxiliary variable *)
(* overlapped remembers whether two handlers were ever in flight at once;  *)
(* what the code promises to a single process is stated under ~overlapped. *)
(*                                                                         *)
(* A commit writes the columns the handler changed (SQLAlchemy's UPDATE),  *)
(* not the whole row it had read.                                          *)
(***************************************************************************)
EXTENDS Naturals, Sequences, FiniteSets

CONSTANTS
  Processes,     \* server processes
  Telecallers,   \* users with role telecaller
  Managers,      \* users with role founder or admin
  Phones,        \* normalised phone numbers; each is a contact key
  Names,         \* name slugs; each is a contact key
  None,          \* NULL
  Absent,        \* "no such row"
  NumStages,     \* KANBAN_STAGES, by position; the first is New
  Won,           \* the position of Closed Won
  MaxRequests    \* bound: requests served

Users  == Telecallers \cup Managers
Keys   == Phones \cup Names
Stages == 1 .. NumStages
New    == 1

ASSUME LeadAssumption ==
  /\ NumStages \in Nat \ {0}
  /\ Won \in 2 .. NumStages
  /\ MaxRequests \in Nat
  /\ Telecallers \cap Managers = {}
  /\ Phones \cap Names = {}
  /\ None \notin Users \cup Keys /\ Absent \notin Users \cup Keys /\ None # Absent

VARIABLES
  active,      \* the telecallers whose account is active
  owner,       \* [Keys -> Lead.assigned_to, or Absent when there is no row]
  stage,       \* [Keys -> Lead.pipeline_stage]
  closed,      \* [Keys -> is Lead.closed_at set?]
  trail,       \* [Keys -> the LeadStageChange rows, oldest first]
  handler,     \* [Processes -> the request between its reads and its commit]
  created,     \* [Keys -> how many requests were answered created: true]
  told,        \* [Keys -> who was pushed "New lead assigned"]
  requests,    \* requests begun, for the bound   (auxiliary)
  overlapped   \* were two requests ever in flight together?   (auxiliary)

vars == <<active, owner, stage, closed, trail, handler, created, told, requests, overlapped>>

lead  == <<owner, stage, closed, trail>>
sent  == <<created, told>>

Idle == [op |-> "idle"]

Insert == [op : {"insert"}, by : {"create", "upload"}, key : Keys,
           owner : Telecallers \cup {None}, tell : Telecallers \cup {None}]
Fill   == [op : {"fill"}, key : Keys, owner : Telecallers \cup {None}]
Move   == [op : {"move"}, key : Keys, from : Stages, to : Stages, wasClosed : BOOLEAN]
Edit   == [op : {"edit"}, key : Keys, was : Telecallers \cup {None},
           owner : Telecallers \cup {None}]
Change == [from : Stages, to : Stages]

TypeOK ==
  /\ active \subseteq Telecallers
  /\ owner \in [Keys -> Telecallers \cup {None, Absent}]
  /\ stage \in [Keys -> Stages]
  /\ closed \in [Keys -> BOOLEAN]
  /\ trail \in [Keys -> Seq(Change)]
  /\ handler \in [Processes -> {Idle} \cup Insert \cup Fill \cup Move \cup Edit]
  /\ created \in [Keys -> Nat]
  /\ told \in [Keys -> SUBSET Telecallers]
  /\ requests \in 0 .. MaxRequests
  /\ overlapped \in BOOLEAN

Init ==
  /\ active \in SUBSET Telecallers
  /\ owner = [k \in Keys |-> Absent]
  /\ stage = [k \in Keys |-> New]
  /\ closed = [k \in Keys |-> FALSE]
  /\ trail = [k \in Keys |-> <<>>]
  /\ handler = [p \in Processes |-> Idle]
  /\ created = [k \in Keys |-> 0]
  /\ told = [k \in Keys |-> {}]
  /\ requests = 0
  /\ overlapped = FALSE

-----------------------------------------------------------------------------
(* Helpers *)

Row(k) == owner[k] # Absent

\* get_current_user: only an active account gets past the dependency.
MayCall(u) == u \in Managers \cup active

\* Leads currently assigned to t, closed ones included.
Load(t) == Cardinality({k \in Keys : owner[k] = t})

\* _pick_telecaller_for_assignment: a least-loaded active telecaller (ids, which
\* break ties, are arbitrary), or NULL when there is none.
Pick == IF active = {} THEN {None}
        ELSE {t \in active : \A s \in active : Load(t) <= Load(s)}

\* Mutation: whoever brings a lead in owns it, managers too.
AssigneeAnyone(u) == {u}

\* A telecaller keeps what he brings in; anybody else's leads are dealt out.
Assignee(u) == IF u \in Telecallers THEN {u} ELSE Pick

Arrive == requests < MaxRequests /\ requests' = requests + 1

\* Process p has read what it needs and holds request r until its commit.
Hold(p, r) ==
  /\ Arrive
  /\ handler[p] = Idle
  /\ handler' = [handler EXCEPT ![p] = r]
  /\ overlapped' = (overlapped \/ \E q \in Processes : handler[q] # Idle)

Done(p) == handler' = [handler EXCEPT ![p] = Idle] /\ UNCHANGED <<requests, overlapped>>

\* assigned_to of k becomes o.
Assign(k, o) == owner' = [owner EXCEPT ![k] = o]

Push(k, o) == told' = [told EXCEPT ![k] = @ \cup ({o} \ {None})]

-----------------------------------------------------------------------------
(* Reading: the first half of each handler *)

\* create_lead: the key is the phone when one is given; an older row under the
\* name is reused.  An existing row only gets its light fields, nothing here.
CreateRead(p, u, name, phone) ==
  LET key == IF phone = None THEN name ELSE phone
  IN  /\ MayCall(u)
      /\ ~Row(key) /\ ~Row(name)
      /\ \E o \in Assignee(u) :
           Hold(p, [op |-> "insert", by |-> "create", key |-> key, owner |-> o,
                   tell |-> IF o = u THEN None ELSE o])
      /\ UNCHANGED <<active, lead, sent>>

\* The key an upload ends up with: the client's override, unless no lead has it
\* and the phone leads to one; else the phone; else the name.
UploadKey(override, phone, name) ==
  IF override # None /\ ~(~Row(override) /\ phone # None /\ Row(phone)) THEN override
  ELSE IF phone # None THEN phone ELSE name

\* Mutation: the uploader is made the owner of whatever lead the call is for.
UploadTaking(p, u, override, phone, name) ==
  LET key == UploadKey(override, phone, name)
  IN  /\ MayCall(u)
      /\ \E o \in Assignee(u) :
           Hold(p, IF Row(key)
                   THEN [op |-> "fill", key |-> key, owner |-> o]
                   ELSE [op |-> "insert", by |-> "upload", key |-> key, owner |-> o,
                         tell |-> None])
      /\ UNCHANGED <<active, lead, sent>>

\* upload_recording: a missing lead is inserted, an unassigned one is given an
\* owner, an assigned one keeps his.
UploadRead(p, u, override, phone, name) ==
  LET key == UploadKey(override, phone, name)
  IN  /\ MayCall(u)
      /\ owner[key] \in {None, Absent}
      /\ \E o \in Assignee(u) :
           Hold(p, IF Row(key)
                   THEN [op |-> "fill", key |-> key, owner |-> o]
                   ELSE [op |-> "insert", by |-> "upload", key |-> key, owner |-> o,
                         tell |-> None])
      /\ UNCHANGED <<active, lead, sent>>

\* _apply_stage_update: forward moves are free, a backward one needs a note.
MoveRead(p, u, k, to, noted) ==
  /\ MayCall(u) /\ Row(k)
  /\ to < stage[k] => noted
  /\ Hold(p, [op |-> "move", key |-> k, from |-> stage[k], to |-> to,
              wasClosed |-> closed[k]])
  /\ UNCHANGED <<active, lead, sent>>

\* update_lead_details, as far as assigned_to goes: founders and admins only, and
\* only to a telecaller of the organisation (who need not be active).
EditRead(p, u, k, o) ==
  /\ u \in Managers /\ Row(k)
  /\ Hold(p, [op |-> "edit", key |-> k, was |-> owner[k], owner |-> o])
  /\ UNCHANGED <<active, lead, sent>>

-----------------------------------------------------------------------------
(* Committing: the second half *)

\* The insert goes through: created, and the owner is told unless he did it.
CommitInsert(p) ==
  LET r == handler[p]
  IN  /\ r.op = "insert" /\ ~Row(r.key)
      /\ Assign(r.key, r.owner)
      /\ IF r.by = "create"
         THEN /\ created' = [created EXCEPT ![r.key] = @ + 1]
              /\ Push(r.key, r.tell)
         ELSE UNCHANGED sent
      /\ Done(p)
      /\ UNCHANGED <<active, stage, closed, trail>>

\* Mutation: the push is sent whether or not the insert went through.
LosePushing(p) ==
  LET r == handler[p]
  IN  /\ r.op = "insert" /\ Row(r.key)
      /\ Push(r.key, r.tell)
      /\ Done(p)
      /\ UNCHANGED <<active, lead, created>>

\* Mutation: the loser of the race answers as if it had created the lead.
LoseClaiming(p) ==
  LET r == handler[p]
  IN  /\ r.op = "insert" /\ Row(r.key)
      /\ created' = [created EXCEPT ![r.key] = @ + 1]
      /\ Done(p)
      /\ UNCHANGED <<active, lead, told>>

\* IntegrityError: somebody else inserted the key since it was looked up; the
\* winner's row is answered (created: false) or used, and nothing is written.
LoseInsert(p) ==
  /\ handler[p].op = "insert" /\ Row(handler[p].key)
  /\ Done(p)
  /\ UNCHANGED <<active, lead, sent>>

\* The UPDATE names assigned_to only if the handler changed it.
CommitFill(p) ==
  LET r == handler[p]
  IN  /\ r.op = "fill"
      /\ IF r.owner = None THEN UNCHANGED owner ELSE Assign(r.key, r.owner)
      /\ Done(p)
      /\ UNCHANGED <<active, stage, closed, trail, sent>>

\* Mutation: closed_at is left alone when the lead is reopened.
MoveKeepingStamp(p) ==
  LET r == handler[p]
  IN  /\ r.op = "move"
      /\ stage' = [stage EXCEPT ![r.key] = IF r.to = r.from THEN @ ELSE r.to]
      /\ closed' = [closed EXCEPT ![r.key] = @ \/ r.to = Won]
      /\ trail' = [trail EXCEPT ![r.key] =
                     IF r.to = r.from THEN @
                     ELSE Append(@, [from |-> r.from, to |-> r.to])]
      /\ Done(p)
      /\ UNCHANGED <<active, owner, sent>>

\* Mutation: only the backward moves are logged.
MoveLoggingBack(p) ==
  LET r == handler[p]
  IN  /\ r.op = "move"
      /\ stage' = [stage EXCEPT ![r.key] = IF r.to = r.from THEN @ ELSE r.to]
      /\ closed' = [closed EXCEPT ![r.key] =
                      IF r.to = Won THEN TRUE ELSE @ /\ ~r.wasClosed]
      /\ trail' = [trail EXCEPT ![r.key] =
                     IF r.to >= r.from THEN @
                     ELSE Append(@, [from |-> r.from, to |-> r.to])]
      /\ Done(p)
      /\ UNCHANGED <<active, owner, sent>>

\* Stage, closed_at and the log row go in one commit.  Closed Won always stamps;
\* any other stage clears a stamp the handler has seen.
CommitMove(p) ==
  LET r == handler[p]
  IN  /\ r.op = "move"
      /\ stage' = [stage EXCEPT ![r.key] = IF r.to = r.from THEN @ ELSE r.to]
      /\ closed' = [closed EXCEPT ![r.key] =
                      IF r.to = Won THEN TRUE ELSE @ /\ ~r.wasClosed]
      /\ trail' = [trail EXCEPT ![r.key] =
                     IF r.to = r.from THEN @
                     ELSE Append(@, [from |-> r.from, to |-> r.to])]
      /\ Done(p)
      /\ UNCHANGED <<active, owner, sent>>

\* A reassignment is pushed to the new owner.
CommitEdit(p) ==
  LET r == handler[p]
  IN  /\ r.op = "edit"
      /\ IF r.owner = r.was
         THEN UNCHANGED <<owner, told>>
         ELSE Assign(r.key, r.owner) /\ Push(r.key, r.owner)
      /\ Done(p)
      /\ UNCHANGED <<active, stage, closed, trail, created>>

\* update_member: a manager switches a telecaller's account on or off.  His
\* leads stay his.
SetActive(t) ==
  /\ Arrive
  /\ active' = IF t \in active THEN active \ {t} ELSE active \cup {t}
  /\ UNCHANGED <<lead, handler, sent, overlapped>>

-----------------------------------------------------------------------------
MaybePhone == Phones \cup {None}

Next ==
  \/ \E p \in Processes :
       \/ \E u \in Users, name \in Names, phone \in MaybePhone :
            \/ CreateRead(p, u, name, phone)
            \/ \E override \in Keys \cup {None} : UploadRead(p, u, override, phone, name)
       \/ \E u \in Users, k \in Keys :
            \/ \E to \in Stages, noted \in BOOLEAN : MoveRead(p, u, k, to, noted)
            \/ \E o \in Telecallers \cup {None} : EditRead(p, u, k, o)
       \/ CommitInsert(p) \/ LoseInsert(p) \/ CommitFill(p) \/ CommitMove(p) \/ CommitEdit(p)
  \/ Managers # {} /\ \E t \in Telecallers : SetActive(t)

Spec == Init /\ [][Next]_vars

-----------------------------------------------------------------------------
(* Safety *)

\* However many Save-Lead requests and uploads race for a new contact, at most
\* one of them is answered "created".
CreatedOnce == \A k \in Keys : created[k] <= 1

\* Only a telecaller who really got the lead is ever told that it is his: the
\* loser of a race, whose pick was never stored, pushes nothing.
ToldOnlyOwners ==
  [][\A k \in Keys : told'[k] \ told[k] \subseteq {owner'[k]}]_vars

\* "Assignment is sticky": an owner, once set, is only replaced by an explicit
\* edit, as long as requests do not overlap.
OwnersStick ==
  [][\A k \in Keys : owner[k] \in Telecallers /\ owner'[k] # owner[k] =>
       overlapped \/ \E p \in Processes : handler[p].op = "edit" /\ handler[p].key = k]_vars

\* What the revenue chart adds up (stage Closed Won and a closed_at) is what the
\* board shows as won: nothing won goes uncounted, and nothing reopened keeps
\* its stamp.
RevenueIsBoard ==
  ~overlapped => \A k \in Keys : closed[k] <=> stage[k] = Won

\* "Every move is auditable": the log of a lead leads from New to where it is
\* now without a gap.
TrailTellsStage ==
  ~overlapped =>
    \A k \in Keys :
      LET n == Len(trail[k])
      IN  /\ stage[k] = IF n = 0 THEN New ELSE trail[k][n].to
          /\ \A i \in 1 .. n :
               trail[k][i].from = IF i = 1 THEN New ELSE trail[k][i - 1].to

=============================================================================
