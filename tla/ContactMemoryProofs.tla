-------------------------- MODULE ContactMemoryProofs --------------------------
(***************************************************************************)
(* Proofs about ContactMemory, for any number of calls and requests, any   *)
(* window and any failures of the language model.                          *)
(***************************************************************************)
EXTENDS ContactMemory, FiniteSetTheorems, WellFoundedInduction, TLAPS

-----------------------------------------------------------------------------
(* What a rebuild makes of the calls it gathered *)

\* A contact's non-empty set of calls has a latest one, and Max picks it.
LEMMA LatestCall ==
  ASSUME NEW S \in SUBSET Calls, S # {}
  PROVE  Max(S) \in S
<1> DEFINE T == {NumCalls - c : c \in S}
<1>1. T \subseteq Nat /\ T # {}
  <2>1. \A c \in S : c \in 1 .. NumCalls /\ NumCalls - c \in Nat
    BY MemoryAssumption DEF Calls
  <2>2. QED
    BY <2>1
<1>2. PICK x \in T : \A y \in T : <<y, x>> \notin OpToRel(<, Nat)
  <2> HIDE DEF T
  <2>1. QED
    BY <1>1, WFMin, NatLessThanWellFounded
<1>3. \A y \in T : ~(y < x)
  <2> HIDE DEF T
  <2>1. QED
    BY <1>1, <1>2 DEF OpToRel
<1>4. PICK m \in S : x = NumCalls - m
  OBVIOUS
<1>5. \A d \in S : m >= d
  <2>1. SUFFICES ASSUME NEW d \in S PROVE m >= d
    OBVIOUS
  <2>2. ~(NumCalls - d < NumCalls - m)
    BY <1>3, <1>4
  <2>3. QED
    BY <2>2, MemoryAssumption DEF Calls
<1>6. QED
  BY <1>5 DEF Max

\* A set of calls counts at most NumCalls, and nothing only when empty.
LEMMA CallCount ==
  ASSUME NEW S \in SUBSET Calls
  PROVE  /\ Cardinality(S) \in 0 .. NumCalls
         /\ S # {} => Cardinality(S) > 0
<1>1. IsFiniteSet(Calls) /\ Cardinality(Calls) = NumCalls
  <2>1. /\ IsFiniteSet(1 .. NumCalls)
        /\ Cardinality(1 .. NumCalls) = IF 1 > NumCalls THEN 0 ELSE NumCalls - 1 + 1
    BY FS_Interval, MemoryAssumption
  <2>2. QED
    BY <2>1, MemoryAssumption DEF Calls
<1>2. IsFiniteSet(S) /\ Cardinality(S) <= NumCalls
  BY <1>1, FS_Subset
<1>3. Cardinality(S) \in Nat
  BY <1>2, FS_CardinalityType
<1>4. S # {} => Cardinality(S) # 0
  BY <1>2, FS_EmptySet
<1>5. QED
  BY <1>2, <1>3, <1>4, MemoryAssumption

\* The bubble built from gathered calls is well typed and not empty.
LEMMA DraftType ==
  ASSUME NEW S \in SUBSET Calls, S # {}
  PROVE  Draft(S) \in Bubble /\ Draft(S).total > 0 /\ Draft(S).exists
<1>1. Max(S) \in 0 .. NumCalls
  <2>1. Max(S) \in Calls
    BY LatestCall
  <2>2. QED
    BY <2>1, MemoryAssumption DEF Calls
<1>2. QED
  BY <1>1, CallCount DEF Draft, Bubble

\* The column-wise update of a typed row stays typed.
LEMMA UpdatedType ==
  ASSUME bubble \in Bubble, NEW row \in Bubble, NEW new \in Bubble
  PROVE  Updated(row, new) \in Bubble
BY DEF Updated, Bubble

-----------------------------------------------------------------------------
(* Typing and the inductive invariant *)

\* A rebuild that asks or stores has gathered calls, and a cached brief is
\* stamped with the count of the bubble it was written from.
GatheredSome ==
  \A k \in Rebuilders : rebuild[k].phase \in {"asking", "storing"} => rebuild[k].seen # {}

Stamped == brief.kept => brief.total = brief.memory.total

IInv == TypeOK /\ GatheredSome /\ Stamped

LEMMA InitIInv == Init => IInv
<1> SUFFICES ASSUME Init PROVE IInv
  OBVIOUS
<1>1. NoBubble \in Bubble /\ NoBrief \in Brief
  BY MemoryAssumption DEF NoBubble, Bubble, NoBrief, Brief
<1>2. \A k \in Rebuilders : /\ rebuild[k] \in Rebuild
                            /\ rebuild[k].phase \in {"waiting", "idle"}
  BY <1>1 DEF Init, Idle, Rebuild
<1>3. rebuild \in [Rebuilders -> Rebuild]
  BY <1>2 DEF Init
<1>4. TypeOK
  BY <1>1, <1>3 DEF Init, TypeOK
<1>5. QED
  BY <1>2, <1>4 DEF Init, IInv, GatheredSome, Stamped, NoBrief

\* The users and the analyses only make rebuilds due.
LEMMA UserStep ==
  ASSUME IInv,
         \/ \E c \in Calls : Analyse(c) \/ Reopen(c) \/ Delete(c)
         \/ \E q \in Requests : RequestRebuild(q) \/ \E c \in Calls : Reanalyse(q, c)
  PROVE  IInv' /\ bubble' = bubble
<1> USE DEF IInv, TypeOK, GatheredSome, Stamped, Rebuild, Rebuilders
<1>1. ASSUME NEW c \in Calls, Analyse(c) PROVE IInv' /\ bubble' = bubble
  BY <1>1 DEF Analyse
<1>2. ASSUME NEW c \in Calls, Reopen(c) \/ Delete(c) PROVE IInv' /\ bubble' = bubble
  BY <1>2 DEF Reopen, Delete
<1>3. ASSUME NEW q \in Requests, RequestRebuild(q) PROVE IInv' /\ bubble' = bubble
  BY <1>3 DEF RequestRebuild
<1>4. ASSUME NEW q \in Requests, NEW c \in Calls, Reanalyse(q, c)
      PROVE  IInv' /\ bubble' = bubble
  BY <1>4 DEF Reanalyse
<1>5. QED
  BY <1>1, <1>2, <1>3, <1>4

\* A rebuild stores only what it gathered.
LEMMA RebuildStep ==
  ASSUME IInv, NEW k \in Rebuilders,
         Gather(k) \/ Unanswered(k) \/ LookUp(k) \/ Store(k)
  PROVE  IInv' /\ (bubble.total > 0 => bubble'.total > 0)
<1>1. Idle \in Rebuild
  BY MemoryAssumption DEF Idle, Rebuild, NoBubble, Bubble
<1>2. CASE Gather(k)
  <2>1. Gathered \subseteq Calls
    BY DEF Gathered
  <2>2. [phase |-> "asking", seen |-> Gathered, row |-> NoBubble] \in Rebuild
    BY <2>1, MemoryAssumption DEF Rebuild, NoBubble, Bubble
  <2>3. TypeOK'
    BY <1>1, <1>2, <2>2 DEF IInv, TypeOK, Gather
  <2>4. GatheredSome'
    BY <1>2 DEF IInv, TypeOK, GatheredSome, Gather, Idle
  <2>5. QED
    BY <1>2, <2>3, <2>4 DEF IInv, Stamped, Gather
<1>3. CASE Unanswered(k)
  <2>1. TypeOK'
    BY <1>1, <1>3 DEF IInv, TypeOK, Unanswered
  <2>2. QED
    BY <1>3, <2>1 DEF IInv, TypeOK, GatheredSome, Stamped, Unanswered, Idle
<1>4. CASE LookUp(k)
  BY <1>4 DEF IInv, TypeOK, GatheredSome, Stamped, LookUp, Rebuild
<1>5. CASE Store(k)
  <2> DEFINE job == rebuild[k]
  <2>1. job \in Rebuild /\ job.seen \in SUBSET Calls /\ job.row \in Bubble /\ job.seen # {}
    BY <1>5 DEF IInv, TypeOK, GatheredSome, Store, Rebuild
  <2>2. /\ Draft(job.seen) \in Bubble
        /\ Draft(job.seen).total > 0
    BY <2>1, DraftType
  <2>3. Updated(job.row, Draft(job.seen)) \in Bubble
    BY <2>1, <2>2, UpdatedType DEF IInv, TypeOK
  <2>4. bubble.total > 0 => Updated(job.row, Draft(job.seen)).total > 0
    BY <2>2 DEF Updated
  <2>5. Recent(job.seen) \subseteq Calls
    BY <2>1 DEF Recent
  <2>6. bubble' \in Bubble /\ facts' \subseteq Calls /\ (bubble.total > 0 => bubble'.total > 0)
    BY <1>5, <2>2, <2>3, <2>4, <2>5 DEF IInv, TypeOK, Store
  <2>7. TypeOK'
    BY <1>1, <1>5, <2>6 DEF IInv, TypeOK, Store
  <2>8. QED
    BY <1>5, <2>6, <2>7 DEF IInv, TypeOK, GatheredSome, Stamped, Store, Idle
<1>6. QED
  BY <1>2, <1>3, <1>4, <1>5

\* The brief adds a row that counts no call, or leaves the counts alone.
LEMMA BriefStep ==
  ASSUME IInv,
         OpenLead \/ InvalidateBrief \/ ReadBubble \/ BriefUnanswered \/ WriteBrief
  PROVE  IInv' /\ bubble'.total = bubble.total
<1> USE DEF IInv, TypeOK, GatheredSome, Stamped, Bubble, Brief
<1>1. NoBubble \in Bubble
  BY MemoryAssumption DEF NoBubble
<1>2. CASE OpenLead
  BY <1>2 DEF OpenLead
<1>3. CASE InvalidateBrief
  BY <1>3 DEF InvalidateBrief
<1>4. CASE ReadBubble
  BY <1>4 DEF ReadBubble
<1>5. CASE BriefUnanswered
  BY <1>1, <1>5 DEF BriefUnanswered
<1>6. CASE WriteBrief
  <2>1. /\ screen' \in [phase : {"idle", "reading", "asking"}, row : Bubble]
        /\ UNCHANGED <<status, rebuild, facts>>
    BY <1>1, <1>6 DEF WriteBrief
  <2>2. CASE UNCHANGED <<bubble, brief>>
    BY <2>1, <2>2
  <2>3. CASE /\ bubble' = [bubble EXCEPT !.exists = TRUE]
             /\ brief' = [kept |-> TRUE, total |-> screen.row.total,
                          memory |-> screen.row]
    <3>1. bubble' \in Bubble /\ bubble'.total = bubble.total
      BY <2>3
    <3>2. brief' \in Brief /\ brief'.total = brief'.memory.total
      BY <2>3
    <3>3. QED
      BY <2>1, <3>1, <3>2
  <2>4. QED
    BY <1>6, <2>2, <2>3 DEF WriteBrief
<1>7. QED
  BY <1>2, <1>3, <1>4, <1>5, <1>6

LEMMA Step ==
  ASSUME IInv, [Next]_vars
  PROVE  IInv' /\ (bubble.total > 0 => bubble'.total > 0)
<1>1. CASE UNCHANGED vars
  BY <1>1 DEF IInv, TypeOK, GatheredSome, Stamped, vars
<1>2. CASE Next
  BY <1>2, UserStep, RebuildStep, BriefStep DEF Next
<1>3. QED
  BY <1>1, <1>2

LEMMA Inductive == Spec => []IInv
<1>1. IInv /\ [Next]_vars => IInv'
  BY Step
<1>2. QED
  BY <1>1, InitIInv, PTL DEF Spec

-----------------------------------------------------------------------------
(* The theorems *)

\* Every row and every rebuild keeps its type.
THEOREM MemoryTypeCorrect == Spec => []TypeOK
<1>1. IInv => TypeOK
  BY DEF IInv
<1>2. QED
  BY <1>1, Inductive, PTL

\* No failure of the language model and no race of rebuilds and briefs puts a
\* contact with a memory of calls back to "no history yet".
THEOREM MemoryStays == Spec => MemoryNeverEmptied
<1>1. IInv /\ [Next]_vars => [bubble.total > 0 => bubble'.total > 0]_vars
  BY Step
<1>2. QED
  BY <1>1, Inductive, PTL DEF Spec, MemoryNeverEmptied

\* A brief served from the cache was generated from a bubble that counted as
\* many calls as the bubble now does.
THEOREM BriefMatches == Spec => []BriefMatchesMemory
<1>1. IInv => BriefMatchesMemory
  BY DEF IInv, Stamped, BriefMatchesMemory, Servable
<1>2. QED
  BY <1>1, Inductive, PTL
=============================================================================
