--------------------------- MODULE KeyRotationProofs ---------------------------
(***************************************************************************)
(* Proofs about KeyRotation, for any number of threads and keys: a key     *)
(* that has quota is never rotated past, and a call that gives up without  *)
(* a network error proves that no key had any.                             *)
(***************************************************************************)
EXTENDS KeyRotation, TLAPS

\* The arithmetic of one advance: from a key that is refused and at or behind
\* a key with quota, the rotation moves one key on and does not wrap.
LEMMA AdvanceDoesNotWrap ==
  ASSUME NEW i \in Keys, NEW k \in Healthy, i <= k, i \notin Healthy
  PROVE  (i + 1) % NumKeys = i + 1 /\ i + 1 <= k
<1>1. i < k
  BY RotationAssumption, SMT DEF Keys
<1>2. i + 1 \in 0 .. NumKeys - 1
  BY <1>1, RotationAssumption DEF Keys
<1> QED
  BY <1>1, <1>2, RotationAssumption, SMT DEF Keys

\* Wherever it moves, the rotation stays on a key.
LEMMA AdvanceStaysOnKeys ==
  ASSUME NEW i \in Keys
  PROVE  (i + 1) % NumKeys \in Keys
BY RotationAssumption, SMT DEF Keys

\* The initial state satisfies the inductive invariant.
LEMMA InitIInv == Init => IInv
<1> SUFFICES ASSUME Init PROVE IInv
  OBVIOUS
<1>1. TypeOK
  BY RotationAssumption DEF Init, TypeOK, Keys, Places
<1>2. HealthyKeyKept
  BY RotationAssumption, SMT DEF Init, HealthyKeyKept, Keys
<1>3. HealthyKeyFound /\ NotAhead /\ Progressing
  BY DEF Init, HealthyKeyFound, NotAhead, Progressing
<1> QED
  BY <1>1, <1>2, <1>3 DEF IInv

\* Every step keeps the types.
LEMMA StepTypeOK ==
  ASSUME TypeOK, NotAhead, NEW t \in Threads, Step(t)
  PROVE  TypeOK'
<1> USE RotationAssumption DEF TypeOK, Goto, Places
<1>1. CASE Begin(t)
  BY <1>1 DEF Begin
<1>2. CASE Choose(t)
  BY <1>2 DEF Choose
<1>3. CASE Answer(t) \/ Refuse(t) \/ Raise(t) \/ GiveUp(t)
  BY <1>3 DEF Answer, Refuse, Raise, GiveUp
<1>4. CASE Advance(t)
  <2>1. keyIdx' \in Keys
    BY <1>4, AdvanceStaysOnKeys DEF Advance
  <2>2. tries[t] < NumKeys
    BY <1>4 DEF Advance, NotAhead
  <2>3. tries[t] + 1 \in 0 .. NumKeys
    BY <2>2
  <2> QED
    BY <1>4, <2>1, <2>3 DEF Advance
<1>5. CASE Break(t)
  <2>1. tries[t] + 1 \in 0 .. NumKeys
    BY <1>5 DEF Break, NotAhead
  <2> QED
    BY <1>5, <2>1 DEF Break
<1> QED
  BY <1>1, <1>2, <1>3, <1>4, <1>5 DEF Step

\* The rotation only ever moves off a refused key, so it keeps every key that
\* has quota.
LEMMA StepKept ==
  ASSUME IInv, NEW t \in Threads, Step(t)
  PROVE  HealthyKeyKept'
<1> USE DEF IInv
<1>1. CASE keyIdx' = keyIdx
  BY <1>1 DEF HealthyKeyKept
<1>2. CASE Advance(t) /\ keyIdx = idx[t]
  <2> SUFFICES ASSUME NEW k \in Healthy PROVE keyIdx' <= k
    BY DEF HealthyKeyKept
  <2>1. idx[t] \in Keys /\ idx[t] <= k /\ idx[t] \notin Healthy
    BY <1>2 DEF Advance, HealthyKeyKept, NotAhead, TypeOK
  <2> QED
    BY <1>2, <2>1, AdvanceDoesNotWrap DEF Advance
<1> QED
  BY <1>1, <1>2 DEF Step, Begin, Choose, Answer, Refuse, Advance, Break, Raise, GiveUp

\* While a key has quota, the rotation never goes back.
LEMMA NeverBack ==
  ASSUME IInv, NEW t \in Threads, Step(t), Healthy # {}
  PROVE  keyIdx <= keyIdx' /\ (Advance(t) => idx[t] + 1 <= keyIdx')
<1> USE DEF IInv
<1>0. keyIdx \in Nat /\ idx[t] \in Nat
  BY RotationAssumption DEF TypeOK, Keys
<1>1. CASE Advance(t) /\ keyIdx = idx[t]
  <2>1. PICK k \in Healthy : TRUE
    OBVIOUS
  <2>2. idx[t] \in Keys /\ idx[t] <= k /\ idx[t] \notin Healthy
    BY <1>1 DEF Advance, HealthyKeyKept, NotAhead, TypeOK
  <2>3. keyIdx' = idx[t] + 1
    BY <1>1, <2>2, AdvanceDoesNotWrap DEF Advance
  <2> QED
    BY <1>0, <1>1, <2>3
<1>2. CASE Advance(t) /\ keyIdx # idx[t]
  <2>1. keyIdx' = keyIdx /\ idx[t] <= keyIdx
    BY <1>2 DEF Advance, NotAhead
  <2> QED
    BY <1>0, <1>2, <2>1
<1>3. CASE ~Advance(t)
  BY <1>0, <1>3 DEF Step, Begin, Choose, Answer, Refuse, Break, Raise, GiveUp
<1> QED
  BY <1>1, <1>2, <1>3

\* No thread gets ahead of the rotation.
LEMMA StepNotAhead ==
  ASSUME IInv, NEW t \in Threads, Step(t)
  PROVE  NotAhead'
<1> USE DEF IInv
<1> SUFFICES ASSUME NEW u \in Threads
             PROVE  /\ pc'[u] \in {"calling", "refused"} => tries'[u] < NumKeys
                    /\ pc'[u] = "refused" => idx'[u] \notin Healthy
                    /\ Healthy # {} /\ pc'[u] \in {"calling", "refused"} => idx'[u] <= keyIdx'
  BY DEF NotAhead
<1>0. keyIdx \in Nat /\ keyIdx' \in Nat /\ idx[u] \in Nat
  <2>1. TypeOK'
    BY StepTypeOK
  <2> QED
    BY <2>1, RotationAssumption DEF TypeOK, Keys
<1>1. CASE u # t
  <2>1. pc'[u] = pc[u] /\ tries'[u] = tries[u] /\ idx'[u] = idx[u]
    BY <1>1 DEF Step, Begin, Choose, Answer, Refuse, Advance, Break, Raise, GiveUp, Goto, TypeOK
  <2>2. Healthy # {} => keyIdx <= keyIdx'
    BY NeverBack
  <2> QED
    BY <1>0, <2>1, <2>2 DEF NotAhead
<1>2. CASE u = t /\ Choose(t)
  BY <1>0, <1>2 DEF Choose, Goto, TypeOK
<1>3. CASE u = t /\ Refuse(t)
  BY <1>3 DEF Refuse, Goto, TypeOK, NotAhead
<1>4. CASE u = t /\ ~Choose(t) /\ ~Refuse(t)
  <2>1. pc'[t] \notin {"calling", "refused"}
    BY <1>4 DEF Step, Begin, Answer, Advance, Break, Raise, GiveUp, Goto, TypeOK
  <2> QED
    BY <1>4, <2>1
<1> QED
  BY <1>1, <1>2, <1>3, <1>4

\* Refusals and keys passed go together.
LEMMA StepProgressing ==
  ASSUME IInv, NEW t \in Threads, Step(t)
  PROVE  Progressing'
<1> USE DEF IInv
<1> SUFFICES ASSUME NEW u \in Threads, Healthy # {}, ~broken'[u]
             PROVE  /\ pc'[u] = "choose" => tries'[u] <= keyIdx'
                    /\ pc'[u] \in {"calling", "refused"} => tries'[u] <= idx'[u]
  BY DEF Progressing
<1>0. keyIdx \in Nat /\ keyIdx' \in Nat /\ idx[u] \in Nat /\ tries[u] \in Nat
  <2>1. TypeOK'
    BY StepTypeOK
  <2> QED
    BY <2>1, RotationAssumption DEF TypeOK, Keys
<1>1. keyIdx <= keyIdx'
  BY NeverBack
<1>2. CASE u # t
  <2>1. pc'[u] = pc[u] /\ tries'[u] = tries[u] /\ idx'[u] = idx[u] /\ broken'[u] = broken[u]
    BY <1>2 DEF Step, Begin, Choose, Answer, Refuse, Advance, Break, Raise, GiveUp, Goto, TypeOK
  <2> QED
    BY <1>0, <1>1, <2>1 DEF Progressing
<1>3. CASE u = t /\ Begin(t)
  BY <1>0, <1>3 DEF Begin, Goto, TypeOK
<1>4. CASE u = t /\ Choose(t)
  BY <1>0, <1>4 DEF Choose, Goto, TypeOK, Progressing
<1>5. CASE u = t /\ Refuse(t)
  BY <1>0, <1>5 DEF Refuse, Goto, TypeOK, Progressing
<1>6. CASE u = t /\ Advance(t)
  <2>1. idx[t] + 1 <= keyIdx'
    BY <1>6, NeverBack
  <2>2. tries[t] <= idx[t]
    BY <1>6 DEF Advance, Progressing
  <2>3. pc'[t] = "choose" /\ tries'[t] = tries[t] + 1
    BY <1>6 DEF Advance, Goto, TypeOK
  <2> QED
    BY <1>0, <1>6, <2>1, <2>2, <2>3
<1>7. CASE u = t /\ (Answer(t) \/ Raise(t) \/ GiveUp(t))
  BY <1>7 DEF Answer, Raise, GiveUp, Goto, TypeOK
<1>8. CASE u = t /\ Break(t)
  BY <1>8 DEF Break, TypeOK
<1> QED
  BY <1>2, <1>3, <1>4, <1>5, <1>6, <1>7, <1>8 DEF Step

\* A call that runs out of tries has passed every key.
LEMMA StepFound ==
  ASSUME IInv, NEW t \in Threads, Step(t)
  PROVE  HealthyKeyFound'
<1> USE DEF IInv
<1> SUFFICES ASSUME NEW u \in Threads, pc'[u] = "gaveUp", ~broken'[u]
             PROVE  Healthy = {}
  BY DEF HealthyKeyFound
<1>1. CASE u = t /\ GiveUp(t)
  <2>1. tries[t] >= NumKeys /\ pc[t] = "choose" /\ ~broken[t]
    BY <1>1 DEF GiveUp
  <2>2. Healthy # {} => tries[t] <= keyIdx
    BY <2>1 DEF Progressing
  <2>3. keyIdx \in 0 .. NumKeys - 1 /\ tries[t] \in Nat
    BY RotationAssumption DEF TypeOK, Keys
  <2> QED
    BY <2>1, <2>2, <2>3, RotationAssumption
<1>2. CASE u # t
  <2>1. pc'[u] = pc[u] /\ broken'[u] = broken[u]
    BY <1>2 DEF Step, Begin, Choose, Answer, Refuse, Advance, Break, Raise, GiveUp, Goto, TypeOK
  <2> QED
    BY <2>1 DEF HealthyKeyFound
<1>3. CASE u = t /\ ~GiveUp(t)
  <2>1. pc'[t] # "gaveUp"
    BY <1>3 DEF Step, Begin, Choose, Answer, Refuse, Advance, Break, Raise, Goto, TypeOK
  <2> QED
    BY <1>3, <2>1
<1> QED
  BY <1>1, <1>2, <1>3

\* The invariant is inductive.
LEMMA NextIInv == IInv /\ [Next]_vars => IInv'
<1> SUFFICES ASSUME IInv, [Next]_vars PROVE IInv'
  OBVIOUS
<1>1. ASSUME NEW t \in Threads, Step(t) PROVE IInv'
  <2>1. TypeOK'
    BY <1>1, StepTypeOK DEF IInv
  <2> QED
    BY <1>1, <2>1, StepKept, StepNotAhead, StepProgressing, StepFound DEF IInv
<1>2. CASE UNCHANGED vars
  BY <1>2 DEF vars, IInv, TypeOK, HealthyKeyKept, HealthyKeyFound, NotAhead, Progressing
<1> QED
  BY <1>1, <1>2 DEF Next

\* The inductive invariant holds throughout.
THEOREM RotationInvariant == Spec => []IInv
BY InitIInv, NextIInv, PTL DEF Spec

\* Every variable of the loop keeps its type: the shared index always names a
\* key, and no call makes more tries than there are keys.
THEOREM RotationTypeCorrect == Spec => []TypeOK
<1>1. IInv => TypeOK
  BY DEF IInv
<1> QED
  BY RotationInvariant, <1>1, PTL

\* "Only advance once per exhaustion": the rotation never moves past a key that
\* has quota, however many threads fail together.
THEOREM KeyIsKept == Spec => []HealthyKeyKept
<1>1. IInv => HealthyKeyKept
  BY DEF IInv
<1> QED
  BY RotationInvariant, <1>1, PTL

\* "When all keys are exhausted we raise": as long as a key has quota, every
\* call that only meets refusals reaches it before its tries run out.
THEOREM KeyIsFound == Spec => []HealthyKeyFound
<1>1. IInv => HealthyKeyFound
  BY DEF IInv
<1> QED
  BY RotationInvariant, <1>1, PTL

=============================================================================
