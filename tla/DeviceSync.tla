------------------------------- MODULE DeviceSync -------------------------------
(***************************************************************************)
(* What the telecaller's phone sends and the founder's feed shows:         *)
(*   sync_call_log                             in app/api/call_log.py      *)
(*   create_, update_, delete_follow_up        in app/api/follow_ups.py    *)
(*   add_notification                          in app/utils/notifications  *)
(*                                                                         *)
(* The phone repeats what it gets no answer to, so every request may come  *)
(* again, whole or with calls added.  A sync inserts under a unique key and *)
(* is two steps, look-up and commit; another process's sync may come in     *)
(* between.  The other handlers look nothing up under a key, do not await   *)
(* and are one step.  A notification is committed with the event it is      *)
(* about; the feed is kept as counts.                                       *)
(***************************************************************************)
EXTENDS Integers, FiniteSets

CONSTANTS
  Telecallers,  \* accounts of one organisation
  Calls,        \* ids of the phone's call log, counted per telecaller
  Leads,        \* leads of the organisation
  Stranger,     \* a lead of another organisation
  Number,       \* [Calls -> the lead that has the call's number, or None]
  FollowUps,    \* follow-up ids
  Dues,         \* due dates
  Slots,        \* syncs that may be in flight together
  None,         \* NULL, or no such row
  Gone,         \* a row deleted
  Window,       \* how long a follow-up counts as a retry (30 seconds)
  Horizon,      \* bound: the last instant
  MaxRequests   \* bound: requests served

ASSUME SyncAssumption ==
  /\ Number \in [Calls -> Leads \cup {None}]
  /\ Stranger \notin Leads /\ None \notin Leads \cup {Stranger, Gone} /\ Gone \notin Leads
  /\ IsFiniteSet(Calls)
  /\ Window \in Nat /\ Horizon \in Nat /\ MaxRequests \in Nat

VARIABLES
  clock,      \* now
  known,      \* the leads there are
  log,        \* [Telecallers -> [Calls -> the row's lead_id, or Gone when no row]]
  announced,  \* [Telecallers -> new calls his notifications have told of]
  sync,       \* [Slots -> the sync in flight]
  followUp,   \* [FollowUps -> the row]
  told,       \* [FollowUps -> [Kinds -> notifications about it]]
  served      \* requests served so far

vars == <<clock, known, log, announced, sync, followUp, told, served>>

Kinds   == {"scheduled", "completed", "reopened", "deleted"}
Time    == 0 .. Horizon
Row     == [by : Telecallers, lead : Leads \cup {None}, due : Dues, made : Time,
            done : BOOLEAN, moved : BOOLEAN]

\* A row is neither "no row yet" nor "deleted".
ASSUME NullAssumption == {None, Gone} \cap Row = {}

Claims  == Leads \cup {Stranger, None}
Idle    == [step |-> "idle"]
Syncing == [step : {"sync"}, by : Telecallers, calls : SUBSET Calls, twice : Calls \cup {None},
            claim : Claims, rows : SUBSET Calls, leads : SUBSET Leads]

TypeOK ==
  /\ clock \in Time
  /\ known \subseteq Leads
  /\ log \in [Telecallers -> [Calls -> Leads \cup {None, Gone}]]
  /\ announced \in [Telecallers -> Nat]
  /\ sync \in [Slots -> {Idle} \cup Syncing]
  /\ followUp \in [FollowUps -> Row \cup {None, Gone}]
  /\ told \in [FollowUps -> [Kinds -> Nat]]
  /\ served \in 0 .. MaxRequests

Init ==
  /\ clock = 0
  /\ known = {}
  /\ log = [t \in Telecallers |-> [c \in Calls |-> Gone]]
  /\ announced = [t \in Telecallers |-> 0]
  /\ sync = [s \in Slots |-> Idle]
  /\ followUp = [f \in FollowUps |-> None]
  /\ told = [f \in FollowUps |-> [k \in Kinds |-> 0]]
  /\ served = 0

Serve     == served < MaxRequests /\ served' = served + 1
Logged(t) == {c \in Calls : log[t][c] # Gone}
Live(f)   == followUp[f] \notin {None, Gone}

Tick == \E t \in (clock + 1) .. Horizon :
          /\ clock' = t
          /\ UNCHANGED <<known, log, announced, sync, followUp, told, served>>

\* create_lead, elsewhere.
NewLead(l) ==
  /\ l \notin known
  /\ known' = known \cup {l}
  /\ UNCHANGED <<clock, log, announced, sync, followUp, told, served>>

-----------------------------------------------------------------------------
(* The call log *)

\* Mutation: the client's lead_id is stored unchecked.
LinkTrusting(r, c) ==
  IF r.claim # None THEN r.claim
  ELSE IF Number[c] \in r.leads THEN Number[c] ELSE None

\* The entry's own lead_id when it names a lead of the organisation, else the
\* lead with the number.
Link(r, c) ==
  IF r.claim \in r.leads THEN r.claim
  ELSE IF Number[c] \in r.leads THEN Number[c] ELSE None

\* A batch of entries, one of which may be listed twice; the rows it has to
\* update and the leads it may link are looked up.
SyncRead(s, t, cs, twice, claim) ==
  /\ sync[s] = Idle /\ cs # {} /\ twice \in cs \cup {None}
  /\ Serve
  /\ sync' = [sync EXCEPT ![s] = [step |-> "sync", by |-> t, calls |-> cs, twice |-> twice,
                                  claim |-> claim, rows |-> Logged(t) \cap cs, leads |-> known]]
  /\ UNCHANGED <<clock, known, log, announced, followUp, told>>

\* Does an insert of this sync break the key (telecaller_id, device_call_id)?
Clashes(r) ==
  \/ (r.calls \ r.rows) \cap Logged(r.by) # {}
  \/ r.twice \in r.calls \ r.rows

\* Mutation: a repeated sync tells of every entry it carries.
SyncCommitCounting(s) ==
  LET r == sync[s]
  IN  /\ r.step = "sync" /\ ~Clashes(r)
      /\ log' = [log EXCEPT ![r.by] = [c \in Calls |-> IF c \in r.calls THEN Link(r, c) ELSE @[c]]]
      /\ announced' = [announced EXCEPT ![r.by] = @ + Cardinality(r.calls)]
      /\ sync' = [sync EXCEPT ![s] = Idle]
      /\ UNCHANGED <<clock, known, followUp, told, served>>

\* All rows, and one notification when some are new, in one commit.
SyncCommit(s) ==
  LET r   == sync[s]
      new == r.calls \ r.rows
  IN  /\ r.step = "sync" /\ ~Clashes(r)
      /\ log' = [log EXCEPT ![r.by] = [c \in Calls |-> IF c \in r.calls THEN Link(r, c) ELSE @[c]]]
      /\ announced' = [announced EXCEPT ![r.by] = @ + Cardinality(new)]
      /\ sync' = [sync EXCEPT ![s] = Idle]
      /\ UNCHANGED <<clock, known, followUp, told, served>>

\* The IntegrityError is not caught: 500, and nothing of the batch is stored.
SyncLost(s) ==
  /\ sync[s].step = "sync" /\ Clashes(sync[s])
  /\ sync' = [sync EXCEPT ![s] = Idle]
  /\ UNCHANGED <<clock, known, log, announced, followUp, told, served>>

-----------------------------------------------------------------------------
(* Follow-ups *)

\* add_notification, committed with the follow-up it is about.
Tell(f, k) == told' = [told EXCEPT ![f][k] = @ + 1]

Others == <<clock, known, log, announced, sync>>

\* Mutation: the end of the window is cut off.
RecentStrictly(f, t, l, d) ==
  /\ Live(f)
  /\ followUp[f].by = t /\ followUp[f].lead = l /\ followUp[f].due = d
  /\ followUp[f].made > clock - Window

\* The same telecaller, lead and due date a moment ago: taken for a retry.
Recent(f, t, l, d) ==
  /\ Live(f)
  /\ followUp[f].by = t /\ followUp[f].lead = l /\ followUp[f].due = d
  /\ followUp[f].made >= clock - Window

\* create_follow_up: a new row.  (For a retry the old row is returned and
\* nothing changes, as for a lead that does not exist.)
CreateFollowUp(f, t, l, d) ==
  /\ l \in known \cup {None}
  /\ followUp[f] = None
  /\ \A g \in FollowUps : ~Recent(g, t, l, d)
  /\ Serve
  /\ followUp' = [followUp EXCEPT ![f] = [by |-> t, lead |-> l, due |-> d, made |-> clock,
                                          done |-> FALSE, moved |-> FALSE]]
  /\ Tell(f, "scheduled")
  /\ UNCHANGED Others

KindOf(done) == IF done THEN "completed" ELSE "reopened"

\* Mutation: the answer the phone missed is told again when it repeats it.
UpdateTellingAgain(f, d, done) ==
  /\ Live(f)
  /\ Serve
  /\ followUp' = [followUp EXCEPT ![f].due = IF d = None THEN @ ELSE d,
                                  ![f].moved = @ \/ d \notin {None, followUp[f].due},
                                  ![f].done = IF done = None THEN @ ELSE done = "yes"]
  /\ IF done # None THEN Tell(f, KindOf(done = "yes")) ELSE UNCHANGED told
  /\ UNCHANGED Others

\* update_follow_up, by its owner: another due date, completed or reopened.
UpdateFollowUp(f, d, done) ==
  /\ Live(f)
  /\ Serve
  /\ followUp' = [followUp EXCEPT ![f].due = IF d = None THEN @ ELSE d,
                                  ![f].moved = @ \/ d \notin {None, followUp[f].due},
                                  ![f].done = IF done = None THEN @ ELSE done = "yes"]
  /\ IF done # None /\ (done = "yes") # followUp[f].done
       THEN Tell(f, KindOf(done = "yes"))
       ELSE UNCHANGED told
  /\ UNCHANGED Others

\* delete_follow_up, by its owner.
DeleteFollowUp(f) ==
  /\ Live(f)
  /\ Serve
  /\ followUp' = [followUp EXCEPT ![f] = Gone]
  /\ Tell(f, "deleted")
  /\ UNCHANGED Others

-----------------------------------------------------------------------------
Next ==
  \/ Tick
  \/ \E l \in Leads : NewLead(l)
  \/ \E s \in Slots :
       \/ \E t \in Telecallers, cs \in SUBSET Calls, twice \in Calls \cup {None}, claim \in Claims :
            SyncRead(s, t, cs, twice, claim)
       \/ SyncCommit(s) \/ SyncLost(s)
  \/ \E f \in FollowUps :
       \/ \E t \in Telecallers, l \in Leads \cup {None}, d \in Dues : CreateFollowUp(f, t, l, d)
       \/ \E d \in Dues \cup {None}, done \in {None, "yes", "no"} : UpdateFollowUp(f, d, done)
       \/ DeleteFollowUp(f)

Spec == Init /\ [][Next]_vars

-----------------------------------------------------------------------------
(* Safety *)

\* However often the phone repeats a request, the founder hears of every logged
\* call exactly once, and no follow-up is there twice: two alike, neither of
\* which was ever moved, were made further apart than a retry.
SentOnce ==
  /\ \A t \in Telecallers : announced[t] = Cardinality(Logged(t))
  /\ \A f, g \in FollowUps :
       LET x == followUp[f]
           y == followUp[g]
       IN  /\ f # g /\ Live(f) /\ Live(g)
           /\ x.by = y.by /\ x.lead = y.lead /\ x.due = y.due
           /\ ~x.moved /\ ~y.moved
           /\ x.made <= y.made
           => y.made - x.made > Window

\* The feed adds up to the follow-ups as they are: each one there was announced
\* once, and completed once more often than reopened just when it is done; each
\* one removed was announced and its removal told once; of no other a word.
FeedTellsState ==
  \A f \in FollowUps :
    LET n == told[f]
    IN  /\ n["scheduled"] = IF followUp[f] = None THEN 0 ELSE 1
        /\ n["deleted"] = IF followUp[f] = Gone THEN 1 ELSE 0
        /\ n["completed"] - n["reopened"] \in {0, 1}
        /\ Live(f) => (followUp[f].done <=> n["completed"] > n["reopened"])

=============================================================================
