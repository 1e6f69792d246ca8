------------------------------ MODULE KeyRotation ------------------------------
(***************************************************************************)
(* The rotation of provider keys shared by all worker threads:             *)
(* _run_with_rotation of app/utils/sarvam.py and the same loop inside      *)
(* gemini_extract of app/utils/gemini.py.  The current key is a module     *)
(* global, _key_idx; a lock protects each read and each advance of it, but *)
(* not the provider call between them, so a thread may come back with a    *)
(* refusal of a key the others have left long ago.                         *)
(*                                                                         *)
(* The provider is external: it answers, refuses a key (quota, rate limit) *)
(* or breaks, as it likes, except that the keys of Healthy are never       *)
(* refused.  The properties say what the rotation does with such a key.    *)
(***************************************************************************)
EXTENDS Naturals

CONSTANTS
  Threads,   \* the worker threads and handlers that call the provider
  NumKeys,   \* len(keys)
  Healthy,   \* the keys that always have quota
  Retries    \* is a broken call tried again (gemini.py) or raised (sarvam.py)?

Keys == 0 .. NumKeys - 1

ASSUME RotationAssumption ==
  /\ NumKeys \in Nat \ {0}
  /\ Healthy \subseteq Keys
  /\ Retries \in BOOLEAN

VARIABLES
  keyIdx,   \* _key_idx, shared
  pc,       \* [Threads -> where the thread is in the loop]
  tries,    \* [Threads -> iterations of the loop begun before this one]
  idx,      \* [Threads -> the local idx, the key it is using]
  broken    \* [Threads -> has an iteration of this call ended in a network error?]

vars == <<keyIdx, pc, tries, idx, broken>>

Places == {"idle", "choose", "calling", "refused", "gaveUp", "raised"}

TypeOK ==
  /\ keyIdx \in Keys
  /\ pc \in [Threads -> Places]
  /\ tries \in [Threads -> 0 .. NumKeys]
  /\ idx \in [Threads -> Keys]
  /\ broken \in [Threads -> BOOLEAN]

Init ==
  /\ keyIdx = 0
  /\ pc = [t \in Threads |-> "idle"]
  /\ tries = [t \in Threads |-> 0]
  /\ idx = [t \in Threads |-> 0]
  /\ broken = [t \in Threads |-> FALSE]

Goto(t, place) == pc' = [pc EXCEPT ![t] = place]

\* A thread calls the provider: the loop starts.
Begin(t) ==
  /\ pc[t] \in {"idle", "gaveUp", "raised"}
  /\ Goto(t, "choose")
  /\ tries' = [tries EXCEPT ![t] = 0]
  /\ broken' = [broken EXCEPT ![t] = FALSE]
  /\ UNCHANGED <<keyIdx, idx>>

\* Mutation: the loop has no end.
ChooseForever(t) ==
  /\ pc[t] = "choose"
  /\ idx' = [idx EXCEPT ![t] = keyIdx]
  /\ Goto(t, "calling")
  /\ UNCHANGED <<keyIdx, tries, broken>>

\* The current key is read under the lock.
Choose(t) ==
  /\ pc[t] = "choose" /\ tries[t] < NumKeys
  /\ idx' = [idx EXCEPT ![t] = keyIdx]
  /\ Goto(t, "calling")
  /\ UNCHANGED <<keyIdx, tries, broken>>

Answer(t) ==
  /\ pc[t] = "calling"
  /\ Goto(t, "idle")
  /\ UNCHANGED <<keyIdx, tries, idx, broken>>

\* 403 or 429 (sarvam.py), 429 or 503 (gemini.py).  After a 429 the thread
\* sleeps before it asks for the lock.
Refuse(t) ==
  /\ pc[t] = "calling"
  /\ idx[t] \notin Healthy
  /\ Goto(t, "refused")
  /\ UNCHANGED <<keyIdx, tries, idx, broken>>

\* Mutation: every failing thread pushes the index, whichever key failed.
AdvanceAlways(t) ==
  /\ pc[t] = "refused"
  /\ keyIdx' = (keyIdx + 1) % NumKeys
  /\ tries' = [tries EXCEPT ![t] = @ + 1]
  /\ Goto(t, "choose")
  /\ UNCHANGED <<idx, broken>>

\* Mutation: whoever failed sets the index, the comparison is forgotten.
AdvanceUnchecked(t) ==
  /\ pc[t] = "refused"
  /\ keyIdx' = (idx[t] + 1) % NumKeys
  /\ tries' = [tries EXCEPT ![t] = @ + 1]
  /\ Goto(t, "choose")
  /\ UNCHANGED <<idx, broken>>

\* Under the lock: move on only if the key that refused is still the current one.
Advance(t) ==
  /\ pc[t] = "refused"
  /\ keyIdx' = IF keyIdx = idx[t] THEN (idx[t] + 1) % NumKeys ELSE keyIdx
  /\ tries' = [tries EXCEPT ![t] = @ + 1]
  /\ Goto(t, "choose")
  /\ UNCHANGED <<idx, broken>>

\* A network or parse error, retried with whatever key is current then.
Break(t) ==
  /\ Retries
  /\ pc[t] = "calling"
  /\ broken' = [broken EXCEPT ![t] = TRUE]
  /\ tries' = [tries EXCEPT ![t] = @ + 1]
  /\ Goto(t, "choose")
  /\ UNCHANGED <<keyIdx, idx>>

\* Any other error is the caller's.
Raise(t) ==
  /\ pc[t] = "calling"
  /\ Goto(t, "raised")
  /\ UNCHANGED <<keyIdx, tries, idx, broken>>

\* "All keys exhausted/limited": the loop ran out.
GiveUp(t) ==
  /\ pc[t] = "choose" /\ tries[t] >= NumKeys
  /\ Goto(t, "gaveUp")
  /\ UNCHANGED <<keyIdx, tries, idx, broken>>

Step(t) ==
  \/ Begin(t) \/ Choose(t) \/ Answer(t) \/ Refuse(t)
  \/ Advance(t) \/ Break(t) \/ Raise(t) \/ GiveUp(t)

Next == \E t \in Threads : Step(t)

Spec == Init /\ [][Next]_vars

-----------------------------------------------------------------------------
\* "Only advance once per exhaustion": however many threads fail on a key
\* together, and however late they notice, the rotation never moves past a key
\* that has quota.
HealthyKeyKept == \A k \in Healthy : keyIdx <= k

\* "When all keys are exhausted we raise": a call that only met refusals gives
\* up only if no key had quota; as long as one has, the loop reaches it in time,
\* whatever the other threads do to the shared index meanwhile.
HealthyKeyFound ==
  \A t \in Threads : pc[t] = "gaveUp" /\ ~broken[t] => Healthy = {}

-----------------------------------------------------------------------------
(* The inductive invariant: what makes HealthyKeyFound survive every step *)

\* A thread never holds a key ahead of the rotation, and holds a refusal of it
\* only if it has no quota.
NotAhead ==
  \A t \in Threads :
    /\ pc[t] \in {"calling", "refused"} => tries[t] < NumKeys
    /\ pc[t] = "refused" => idx[t] \notin Healthy
    /\ Healthy # {} /\ pc[t] \in {"calling", "refused"} => idx[t] <= keyIdx

\* Each refusal of a call has pushed the rotation at least one key further.
Progressing ==
  \A t \in Threads : Healthy # {} /\ ~broken[t] =>
    /\ pc[t] = "choose" => tries[t] <= keyIdx
    /\ pc[t] \in {"calling", "refused"} => tries[t] <= idx[t]

IInv == TypeOK /\ HealthyKeyKept /\ HealthyKeyFound /\ NotAhead /\ Progressing

=============================================================================
