----------------------------- MODULE ContactMemory -----------------------------
(***************************************************************************)
(* The memory of one contact (app/api/calls.py and                         *)
(* app/utils/memory_bubble.py): the MemoryBubble row, which is rebuilt     *)
(* from the contact's analysed calls by the upload workers, by the manual  *)
(* re-run of an analysis and by the rebuild routes, and the pre-call brief *)
(* cached in the same row by the lead screen.                              *)
(*                                                                         *)
(* A rebuild is a read (the gathering), a call of the language model, a    *)
(* look-up of the row and a commit.  The workers' rebuilds are threads:    *)
(* they interleave with everything between those four.  The handlers'      *)
(* rebuilds run on the event loop, which they leave only while the model   *)
(* answers (await asyncio.to_thread); the brief calls the model on the     *)
(* loop, so no other handler runs meanwhile, but the threads do.           *)
(*                                                                         *)
(* Calls are numbered by AudioCall.timestamp.  What the model writes is    *)
(* abstracted to the calls it was shown.                                   *)
(***************************************************************************)
EXTENDS Integers, FiniteSets, FiniteSetsExt

CONSTANTS
  NumCalls,     \* how many calls the contact has
  Requests,     \* slots for the re-run and rebuild requests of users
  Window,       \* _MAX_MEMORY_CALLS
  ModelFails,   \* may the language model fail (its retries included)?
  Deletable,    \* the calls a user may delete
  Rerunnable    \* the calls a user may re-analyse

\* The calls in the order of their timestamps.
Calls == 1 .. NumCalls

ASSUME MemoryAssumption ==
  /\ NumCalls \in Nat
  /\ Requests \cap Calls = {}
  /\ Window \in Nat \ {0}
  /\ ModelFails \in BOOLEAN
  /\ Deletable \subseteq Calls
  /\ Rerunnable \subseteq Calls

VARIABLES
  status,    \* [Calls -> where the call's analysis is]
  rebuild,   \* [Calls \cup Requests -> the rebuild of that worker or request]
  bubble,    \* the MemoryBubble row: whether there is one and what it counts
  facts,     \* the calls its facts, verdict and headline stem from
  brief,     \* its pre_call_brief columns
  screen     \* the handler that generates a brief

vars == <<status, rebuild, bubble, facts, brief, screen>>

Rebuilders == Calls \cup Requests

NoBubble == [exists |-> FALSE, total |-> 0, last |-> 0]
Bubble == [exists : BOOLEAN,
           total  : 0 .. NumCalls,   \* total_calls
           last   : 0 .. NumCalls]   \* last_call_id, last_call_at

NoBrief == [kept |-> FALSE, total |-> 0, memory |-> NoBubble]
Brief == [kept   : BOOLEAN,
          total  : 0 .. NumCalls,   \* pre_call_brief_total_calls
          memory : Bubble]          \* the bubble the brief was written from

Idle == [phase |-> "idle", seen |-> {}, row |-> NoBubble]
Rebuild == [phase : {"waiting", "idle", "due", "asking", "storing"},
            seen  : SUBSET Calls,             \* the gathered calls
            row   : Bubble]                   \* the row as it was looked up

TypeOK ==
  /\ status \in [Calls -> {"unanalysed", "reopened", "analysed", "gone"}]
  /\ rebuild \in [Rebuilders -> Rebuild]
  /\ bubble \in Bubble
  /\ facts \subseteq Calls
  /\ brief \in Brief
  /\ screen \in [phase : {"idle", "reading", "asking"}, row : Bubble]

Init ==
  /\ status = [c \in Calls |-> "unanalysed"]
  /\ rebuild = [k \in Rebuilders |->
                 IF k \in Calls THEN [Idle EXCEPT !.phase = "waiting"] ELSE Idle]
  /\ bubble = NoBubble
  /\ facts = {}
  /\ brief = NoBrief
  /\ screen = [phase |-> "idle", row |-> NoBubble]

-----------------------------------------------------------------------------
(* Helpers *)

\* _gather_contact_calls: the analysed calls of the contact, oldest first.
Gathered == {c \in Calls : status[c] = "analysed"}

\* calls[-_MAX_MEMORY_CALLS:]
Recent(S) == {c \in S : Cardinality({d \in S : d > c}) < Window}

\* Mutation: the calls are counted from two on.
DraftOffByOne(S) ==
  [exists |-> TRUE, total |-> Cardinality(S) + 1, last |-> Max(S)]

\* build: the bubble the model's answer about the calls S becomes.
Draft(S) ==
  [exists |-> TRUE, total |-> Cardinality(S), last |-> Max(S)]

\* A handler occupies the event loop between two awaits.
LoopFree ==
  /\ screen.phase = "idle"
  /\ \A q \in Requests : rebuild[q].phase \notin {"due", "storing"}

Scheduled(k) == k \in Requests => LoopFree

\* The column-wise UPDATE of the session: a column is written only when its
\* new value differs from the one looked up.  (The model's texts always do.)
Updated(row, new) ==
  [exists |-> TRUE,
   total  |-> IF new.total = row.total THEN bubble.total ELSE new.total,
   last   |-> IF new.last = row.last THEN bubble.last ELSE new.last]

-----------------------------------------------------------------------------
(* The analyses the memory is built from *)

\* The upload worker commits its analysis, or gives up without one; a call
\* deleted under it ends it.
Analyse(c) ==
  /\ rebuild[c].phase = "waiting"
  /\ \/ /\ status[c] # "gone"
        /\ status' = [status EXCEPT ![c] = "analysed"]
        /\ rebuild' = [rebuild EXCEPT ![c].phase = "due"]
     \/ /\ status' = [status EXCEPT ![c] = IF @ = "gone" THEN @ ELSE "unanalysed"]
        /\ rebuild' = [rebuild EXCEPT ![c].phase = "idle"]
  /\ UNCHANGED <<bubble, facts, brief, screen>>

\* run_lead_analysis reopens the analysis of a call and waits for the model.
Reopen(c) ==
  /\ LoopFree
  /\ c \in Rerunnable
  /\ status[c] \in {"unanalysed", "analysed"}
  /\ status' = [status EXCEPT ![c] = "reopened"]
  /\ UNCHANGED <<rebuild, bubble, facts, brief, screen>>

\* It commits the new verdict and rebuilds the memory, or the analysis failed.
Reanalyse(q, c) ==
  /\ LoopFree
  /\ rebuild[q].phase = "idle"
  /\ status[c] = "reopened"
  /\ \/ /\ status' = [status EXCEPT ![c] = "analysed"]
        /\ rebuild' = [rebuild EXCEPT ![q].phase = "due"]
     \/ /\ status' = [status EXCEPT ![c] = "unanalysed"]
        /\ UNCHANGED rebuild
  /\ UNCHANGED <<bubble, facts, brief, screen>>

\* delete_call: the call goes, the bubble is not rebuilt.
Delete(c) ==
  /\ LoopFree
  /\ c \in Deletable
  /\ status[c] # "gone"
  /\ status' = [status EXCEPT ![c] = "gone"]
  /\ UNCHANGED <<rebuild, bubble, facts, brief, screen>>

-----------------------------------------------------------------------------
(* A rebuild *)

\* POST /memory/{contact_key}/rebuild and POST /{call_id}/memory/rebuild.
RequestRebuild(q) ==
  /\ LoopFree
  /\ rebuild[q].phase = "idle"
  /\ rebuild' = [rebuild EXCEPT ![q].phase = "due"]
  /\ UNCHANGED <<status, bubble, facts, brief, screen>>

\* The calls are gathered.  Without any there is nothing to build; a worker
\* whose own call was deleted cannot even read its organisation.
Gather(k) ==
  /\ rebuild[k].phase = "due"
  /\ rebuild' = [rebuild EXCEPT ![k] =
       IF Gathered = {} \/ (k \in Calls /\ status[k] = "gone")
         THEN Idle
         ELSE [phase |-> "asking", seen |-> Gathered, row |-> NoBubble]]
  /\ UNCHANGED <<status, bubble, facts, brief, screen>>

\* Mutation: a minimal bubble is stored when the model fails.
StoreEmptyBubble(k) ==
  /\ ModelFails
  /\ rebuild[k].phase = "asking"
  /\ Scheduled(k)
  /\ rebuild' = [rebuild EXCEPT ![k] = Idle]
  /\ bubble' = [NoBubble EXCEPT !.exists = TRUE]
  /\ facts' = {}
  /\ UNCHANGED <<status, brief, screen>>

\* The model fails for good: nothing is stored.
Unanswered(k) ==
  /\ ModelFails
  /\ rebuild[k].phase = "asking"
  /\ Scheduled(k)
  /\ rebuild' = [rebuild EXCEPT ![k] = Idle]
  /\ UNCHANGED <<status, bubble, facts, brief, screen>>

\* The model answered and the contact's row is looked up.
LookUp(k) ==
  /\ rebuild[k].phase = "asking"
  /\ Scheduled(k)
  /\ rebuild' = [rebuild EXCEPT ![k].phase = "storing", ![k].row = bubble]
  /\ UNCHANGED <<status, bubble, facts, brief, screen>>

\* The commit: the row is inserted if there was none -- the unique key refuses
\* a second one -- and updated otherwise.
Store(k) ==
  LET job == rebuild[k] IN
  /\ job.phase = "storing"
  /\ \/ /\ job.row.exists
        /\ bubble' = Updated(job.row, Draft(job.seen))
        /\ facts' = Recent(job.seen)
     \/ /\ ~job.row.exists /\ ~bubble.exists
        /\ bubble' = Draft(job.seen)
        /\ facts' = Recent(job.seen)
     \/ /\ ~job.row.exists /\ bubble.exists
        /\ UNCHANGED <<bubble, facts>>
  /\ rebuild' = [rebuild EXCEPT ![k] = Idle]
  /\ UNCHANGED <<status, brief, screen>>

-----------------------------------------------------------------------------
(* The pre-call brief *)

\* The cache test of _get_or_build_precall_brief.
Servable == bubble.exists /\ brief.kept /\ brief.total = bubble.total

\* get_lead_detail_for_telecaller reads the bubble; without a servable brief
\* one is asked for.  (With one nothing changes.)
OpenLead ==
  /\ LoopFree
  /\ ~Servable
  /\ screen' = [phase |-> "asking", row |-> bubble]
  /\ UNCHANGED <<status, rebuild, bubble, facts, brief>>

\* rebuild_precall_brief drops the cached brief first and commits that.
InvalidateBrief ==
  /\ LoopFree
  /\ bubble.exists
  /\ brief' = [brief EXCEPT !.kept = FALSE]
  /\ screen' = [screen EXCEPT !.phase = "reading"]
  /\ UNCHANGED <<status, rebuild, bubble, facts>>

\* Then it reads the row again and asks.
ReadBubble ==
  /\ screen.phase = "reading"
  /\ screen' = [phase |-> "asking", row |-> bubble]
  /\ UNCHANGED <<status, rebuild, bubble, facts, brief>>

BriefUnanswered ==
  /\ ModelFails
  /\ screen.phase = "asking"
  /\ screen' = [phase |-> "idle", row |-> NoBubble]
  /\ UNCHANGED <<status, rebuild, bubble, facts, brief>>

\* Mutation: the brief is stamped with the count at the time of its commit.
StampLate ==
  /\ screen.phase = "asking"
  /\ bubble' = [bubble EXCEPT !.exists = TRUE]
  /\ brief' = [kept |-> TRUE, total |-> bubble.total, memory |-> screen.row]
  /\ screen' = [phase |-> "idle", row |-> NoBubble]
  /\ UNCHANGED <<status, rebuild, facts>>

\* The brief is committed with the count it was generated for, in a new empty
\* row when there was none -- unless a worker has inserted one meanwhile.
WriteBrief ==
  /\ screen.phase = "asking"
  /\ \/ /\ screen.row.exists \/ ~bubble.exists
        /\ bubble' = [bubble EXCEPT !.exists = TRUE]
        /\ brief' = [kept |-> TRUE, total |-> screen.row.total, memory |-> screen.row]
     \/ /\ ~screen.row.exists /\ bubble.exists
        /\ UNCHANGED <<bubble, brief>>
  /\ screen' = [phase |-> "idle", row |-> NoBubble]
  /\ UNCHANGED <<status, rebuild, facts>>

-----------------------------------------------------------------------------
Next ==
  \/ \E k \in Rebuilders : Gather(k) \/ Unanswered(k) \/ LookUp(k) \/ Store(k)
  \/ \E c \in Calls : Analyse(c) \/ Reopen(c) \/ Delete(c)
  \/ \E q \in Requests : RequestRebuild(q) \/ \E c \in Calls : Reanalyse(q, c)
  \/ OpenLead \/ InvalidateBrief \/ ReadBubble \/ BriefUnanswered \/ WriteBrief

Spec == Init /\ [][Next]_vars

-----------------------------------------------------------------------------
(* Properties *)

\* "Silent data loss on the product's own stated moat": once a contact has a
\* memory of calls, no failure of the model, no race of rebuilds and no brief
\* bootstrapping its row puts it back to "no history yet".
MemoryNeverEmptied == [][bubble.total > 0 => bubble'.total > 0]_vars

\* A brief served from the cache was generated from a bubble that counted as
\* many calls as the bubble now does, whatever landed while it was generated.
BriefMatchesMemory == Servable => brief.memory.total = bubble.total

\* "Older facts aren't lost": a rebuild over more calls still knows what the
\* earlier builds had learned of the calls that still exist.
OlderFactsKept ==
  [][bubble'.total > bubble.total =>
       \A c \in facts : status'[c] # "gone" => c \in facts']_vars

\* "Each new call's lead_analysis is merged into the bubble": the memory does
\* not forget a later call it already knew.
LaterCallsKept ==
  [][LET c == bubble.last IN
     c # 0 /\ status[c] = "analysed" => bubble'.last >= c]_vars
=============================================================================
