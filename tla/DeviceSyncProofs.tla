--------------------------- MODULE DeviceSyncProofs ---------------------------
(***************************************************************************)
(* Proofs about DeviceSync, for any number of accounts, calls, leads,      *)
(* follow-ups and overlapping syncs, and any length of the retry window.   *)
(***************************************************************************)
EXTENDS DeviceSync, FiniteSetTheorems, TLAPS

-----------------------------------------------------------------------------
(* Typing *)

LEMMA InitType == Init => TypeOK
BY SyncAssumption DEF Init, TypeOK, Time, Kinds, Idle, Row

\* A lead id that is looked up is a lead's or none.
LEMMA LinkType ==
  ASSUME NEW r \in Syncing, NEW c \in Calls
  PROVE  Link(r, c) \in Leads \cup {None}
BY DEF Link, Syncing

LEMMA TellType ==
  ASSUME TypeOK, NEW f \in FollowUps, NEW k \in Kinds, Tell(f, k)
  PROVE  told' \in [FollowUps -> [Kinds -> Nat]]
BY DEF TypeOK, Tell

\* A sync that is under way is a Syncing record.
LEMMA UnderWay ==
  ASSUME TypeOK, NEW s \in Slots, sync[s].step = "sync"
  PROVE  sync[s] \in Syncing
BY DEF TypeOK, Idle

\* A follow-up that is there has a row.
LEMMA LiveRow ==
  ASSUME TypeOK, NEW f \in FollowUps, Live(f)
  PROVE  followUp[f] \in Row
BY DEF TypeOK, Live

\* The due date, and the mark that it moved, which an update leaves.
NewDue(x, d)     == IF d = None THEN x.due ELSE d
NewMoved(x, d)   == x.moved \/ d \notin {None, x.due}
NewDone(x, done) == IF done = None THEN x.done ELSE done = "yes"

LEMMA UpdatedRow ==
  ASSUME TypeOK, NEW f \in FollowUps, NEW d \in Dues \cup {None},
         NEW done \in {None, "yes", "no"}, UpdateFollowUp(f, d, done)
  PROVE  \E y \in Row :
           /\ y.by = followUp[f].by /\ y.lead = followUp[f].lead /\ y.made = followUp[f].made
           /\ y.due = NewDue(followUp[f], d) /\ y.moved = NewMoved(followUp[f], d)
           /\ y.done = NewDone(followUp[f], done)
           /\ followUp' = [followUp EXCEPT ![f] = y]
<1> DEFINE x == followUp[f]
<1>1. x \in Row
  BY LiveRow DEF UpdateFollowUp
<1>2. PICK u \in Dues : u = NewDue(x, d)
  BY <1>1 DEF NewDue, Row
<1>3. PICK m \in BOOLEAN : m = NewMoved(x, d)
  BY Zenon DEF NewMoved
<1>4. PICK n \in BOOLEAN : n = NewDone(x, done)
  BY <1>1 DEF NewDone, Row
<1> DEFINE y == [x EXCEPT !.due = u, !.moved = m, !.done = n]
<1>5. followUp' = [followUp EXCEPT ![f] = y]
  BY <1>2, <1>3, <1>4 DEF UpdateFollowUp, TypeOK, NewDue, NewMoved, NewDone
<1>6. /\ y \in Row
      /\ y.by = x.by /\ y.lead = x.lead /\ y.made = x.made
      /\ y.due = u /\ y.moved = m /\ y.done = n
  BY <1>1 DEF Row
<1>7. QED
  BY <1>2, <1>3, <1>4, <1>5, <1>6, Zenon

\* Every step keeps the types.
LEMMA NextType == TypeOK /\ [Next]_vars => TypeOK'
<1> SUFFICES ASSUME TypeOK, [Next]_vars PROVE TypeOK'
  OBVIOUS
<1> USE SyncAssumption
<1>1. CASE Tick
  BY <1>1 DEF Tick, TypeOK, Time
<1>2. ASSUME NEW l \in Leads, NewLead(l) PROVE TypeOK'
  BY <1>2 DEF NewLead, TypeOK
<1>3. ASSUME NEW s \in Slots, NEW t \in Telecallers, NEW cs \in SUBSET Calls,
             NEW twice \in Calls \cup {None}, NEW claim \in Claims,
             SyncRead(s, t, cs, twice, claim)
      PROVE TypeOK'
  <2>1. [step |-> "sync", by |-> t, calls |-> cs, twice |-> twice, claim |-> claim,
         rows |-> Logged(t) \cap cs, leads |-> known] \in Syncing
    BY <1>3 DEF Syncing, TypeOK
  <2>2. QED
    BY <1>3, <2>1 DEF SyncRead, TypeOK, Serve
<1>4. ASSUME NEW s \in Slots, SyncCommit(s) PROVE TypeOK'
  <2> DEFINE r == sync[s]
  <2>1. r \in Syncing
    BY <1>4, UnderWay DEF SyncCommit
  <2>2. \A c \in Calls : Link(r, c) \in Leads \cup {None}
    BY <2>1, LinkType
  <2>3. log' \in [Telecallers -> [Calls -> Leads \cup {None, Gone}]]
    BY <1>4, <2>1, <2>2 DEF SyncCommit, TypeOK, Syncing
  <2>4. Cardinality(r.calls \ r.rows) \in Nat
    BY <2>1, FS_Subset, FS_CardinalityType DEF Syncing
  <2>5. announced' \in [Telecallers -> Nat]
    BY <1>4, <2>1, <2>4 DEF SyncCommit, TypeOK, Syncing
  <2>6. QED
    BY <1>4, <2>3, <2>5 DEF SyncCommit, TypeOK
<1>5. ASSUME NEW s \in Slots, SyncLost(s) PROVE TypeOK'
  BY <1>5 DEF SyncLost, TypeOK
<1>6. ASSUME NEW f \in FollowUps, NEW t \in Telecallers, NEW l \in Leads \cup {None},
             NEW d \in Dues, CreateFollowUp(f, t, l, d)
      PROVE TypeOK'
  <2>1. [by |-> t, lead |-> l, due |-> d, made |-> clock, done |-> FALSE, moved |-> FALSE] \in Row
    BY DEF Row, TypeOK
  <2>2. told' \in [FollowUps -> [Kinds -> Nat]]
    BY <1>6, TellType DEF CreateFollowUp, Kinds
  <2>3. followUp' \in [FollowUps -> Row \cup {None, Gone}]
    BY <1>6, <2>1 DEF CreateFollowUp, TypeOK
  <2>4. QED
    BY <1>6, <2>2, <2>3 DEF CreateFollowUp, TypeOK, Serve, Others
<1>7. ASSUME NEW f \in FollowUps, NEW d \in Dues \cup {None}, NEW done \in {None, "yes", "no"},
             UpdateFollowUp(f, d, done)
      PROVE TypeOK'
  <2>1. followUp' \in [FollowUps -> Row \cup {None, Gone}]
    <3>1. PICK y \in Row : followUp' = [followUp EXCEPT ![f] = y]
      BY <1>7, UpdatedRow
    <3>2. QED
      BY <3>1 DEF TypeOK
  <2>2. told' \in [FollowUps -> [Kinds -> Nat]]
    BY <1>7, TellType DEF UpdateFollowUp, KindOf, Kinds, TypeOK
  <2>3. QED
    BY <1>7, <2>1, <2>2 DEF UpdateFollowUp, TypeOK, Serve, Others
<1>8. ASSUME NEW f \in FollowUps, DeleteFollowUp(f) PROVE TypeOK'
  <2>1. told' \in [FollowUps -> [Kinds -> Nat]]
    BY <1>8, TellType DEF DeleteFollowUp, Kinds
  <2>2. followUp' \in [FollowUps -> Row \cup {None, Gone}]
    BY <1>8 DEF DeleteFollowUp, TypeOK
  <2>3. QED
    BY <1>8, <2>1, <2>2 DEF DeleteFollowUp, TypeOK, Serve, Others
<1>9. CASE UNCHANGED vars
  BY <1>9 DEF vars, TypeOK
<1>10. QED
  BY <1>1, <1>2, <1>3, <1>4, <1>5, <1>6, <1>7, <1>8, <1>9 DEF Next

\* The state is always well typed.
THEOREM TypeCorrect == Spec => []TypeOK
BY InitType, NextType, PTL DEF Spec

-----------------------------------------------------------------------------
(* The founder's feed *)

\* A follow-up nobody made yet was neither completed nor reopened.
Untold == \A f \in FollowUps : followUp[f] = None => told[f]["completed"] = told[f]["reopened"]

FeedInv == FeedTellsState /\ Untold

\* What the feed says of one follow-up, and what is stored of it.
FeedOf(row, n) ==
  /\ n["scheduled"] = IF row = None THEN 0 ELSE 1
  /\ n["deleted"] = IF row = Gone THEN 1 ELSE 0
  /\ n["completed"] - n["reopened"] \in {0, 1}
  /\ row \notin {None, Gone} => (row.done <=> n["completed"] > n["reopened"])
  /\ row = None => n["completed"] = n["reopened"]

LEMMA FeedByRow == FeedInv <=> \A f \in FollowUps : FeedOf(followUp[f], told[f])
BY DEF FeedInv, FeedTellsState, Untold, FeedOf, Live

\* The notification told is the only one, and of one follow-up.
LEMMA ToldAt ==
  ASSUME TypeOK, NEW f \in FollowUps, NEW k \in Kinds, Tell(f, k)
  PROVE  /\ \A g \in FollowUps : g # f => told'[g] = told[g]
         /\ told'[f] = [told[f] EXCEPT ![k] = told[f][k] + 1]
         /\ \A j \in Kinds : told[f][j] \in Nat
BY DEF TypeOK, Tell

LEMMA FeedNext == TypeOK /\ FeedInv /\ [Next]_vars => FeedInv'
<1> SUFFICES ASSUME TypeOK, FeedInv, [Next]_vars,
                    \A f \in FollowUps : FeedOf(followUp[f], told[f]),
                    NEW g \in FollowUps
             PROVE  FeedOf(followUp'[g], told'[g])
  BY FeedByRow DEF FeedInv, FeedTellsState, Untold, FeedOf, Live
<1>0. None # Gone /\ None \notin Row /\ Gone \notin Row
  BY SyncAssumption, NullAssumption
<1>1. CASE UNCHANGED <<followUp, told>>
  BY <1>1
<1>2. ASSUME NEW f \in FollowUps, NEW t \in Telecallers, NEW l \in Leads \cup {None},
             NEW d \in Dues, CreateFollowUp(f, t, l, d)
      PROVE FeedOf(followUp'[g], told'[g])
  <2> DEFINE new == [by |-> t, lead |-> l, due |-> d, made |-> clock, done |-> FALSE, moved |-> FALSE]
  <2>1. new \in Row
    BY DEF Row, TypeOK
  <2>2. followUp[f] = None /\ followUp' = [followUp EXCEPT ![f] = new]
    BY <1>2 DEF CreateFollowUp
  <2>3. CASE g # f
    BY <1>2, <2>2, <2>3, ToldAt DEF CreateFollowUp, TypeOK, Kinds
  <2>4. CASE g = f
    <3>1. followUp'[g] = new /\ ~new.done /\ new \notin {None, Gone}
      BY <1>0, <2>1, <2>2, <2>4 DEF TypeOK
    <3>2. told'[g] = [told[g] EXCEPT !["scheduled"] = told[g]["scheduled"] + 1]
          /\ told[g] \in [Kinds -> Nat]
      BY <1>2, <2>4, ToldAt DEF CreateFollowUp, Kinds, TypeOK
    <3>3. FeedOf(None, told[g])
      BY <2>2, <2>4
    <3> HIDE DEF new
    <3>4. QED
      BY <1>0, <3>1, <3>2, <3>3 DEF FeedOf, Kinds
  <2>5. QED
    BY <2>3, <2>4
<1>3. ASSUME NEW f \in FollowUps, NEW d \in Dues \cup {None}, NEW done \in {None, "yes", "no"},
             UpdateFollowUp(f, d, done)
      PROVE FeedOf(followUp'[g], told'[g])
  <2>1. PICK y \in Row : /\ y.done = NewDone(followUp[f], done)
                         /\ followUp' = [followUp EXCEPT ![f] = y]
    BY <1>3, UpdatedRow
  <2>2. followUp[f] \in Row
    BY <1>3, LiveRow DEF UpdateFollowUp
  <2>3. CASE g # f
    <3>1. told'[g] = told[g]
      BY <1>3, <2>3, ToldAt DEF UpdateFollowUp, KindOf, Kinds
    <3>2. QED
      BY <2>1, <2>3, <3>1 DEF TypeOK
  <2>4. CASE g = f
    <3>1. followUp'[g] = y
      BY <2>1, <2>4 DEF TypeOK
    <3>2. FeedOf(followUp[g], told[g]) /\ told[g] \in [Kinds -> Nat]
      BY DEF TypeOK
    <3>3. y.done \in BOOLEAN /\ followUp[g].done \in BOOLEAN
      BY <2>2, <2>4 DEF Row
    <3>4. CASE done # None /\ (done = "yes") # followUp[f].done
      <4>1. Tell(f, KindOf(done = "yes")) /\ y.done = (done = "yes")
        BY <1>3, <2>1, <3>4 DEF UpdateFollowUp, NewDone
      <4>2. told'[g] = [told[g] EXCEPT ![KindOf(done = "yes")] = @ + 1]
        BY <2>4, <4>1, ToldAt DEF KindOf, Kinds, TypeOK
      <4>3. CASE done = "yes"
        <5>1. ~followUp[g].done /\ y.done /\ KindOf(done = "yes") = "completed"
          BY <2>4, <3>3, <3>4, <4>1, <4>3 DEF KindOf
        <5>2. told'[g] = [told[g] EXCEPT !["completed"] = @ + 1]
          BY <4>2, <5>1
        <5>3. QED
          BY <1>0, <2>2, <2>4, <3>1, <3>2, <5>1, <5>2 DEF FeedOf, Kinds
      <4>4. CASE done # "yes"
        <5>1. followUp[g].done /\ ~y.done /\ KindOf(done = "yes") = "reopened"
          BY <2>4, <3>3, <3>4, <4>1, <4>4 DEF KindOf
        <5>2. told'[g] = [told[g] EXCEPT !["reopened"] = @ + 1]
          BY <4>2, <5>1
        <5>3. QED
          BY <1>0, <2>2, <2>4, <3>1, <3>2, <5>1, <5>2 DEF FeedOf, Kinds
      <4>5. QED
        BY <4>3, <4>4
    <3>5. CASE ~(done # None /\ (done = "yes") # followUp[f].done)
      <4>1. told' = told
        BY <1>3, <3>5 DEF UpdateFollowUp
      <4>2. y.done = followUp[g].done
        BY <2>1, <2>4, <3>5 DEF NewDone
      <4>3. QED
        BY <1>0, <2>2, <2>4, <3>1, <3>2, <4>1, <4>2 DEF FeedOf
    <3>6. QED
      BY <3>4, <3>5
  <2>5. QED
    BY <2>3, <2>4
<1>4. ASSUME NEW f \in FollowUps, DeleteFollowUp(f) PROVE FeedOf(followUp'[g], told'[g])
  <2>1. followUp[f] \in Row /\ followUp' = [followUp EXCEPT ![f] = Gone]
    BY <1>4, LiveRow DEF DeleteFollowUp
  <2>2. CASE g # f
    BY <1>4, <2>1, <2>2, ToldAt DEF DeleteFollowUp, TypeOK, Kinds
  <2>3. CASE g = f
    <3>1. told'[g] = [told[g] EXCEPT !["deleted"] = told[g]["deleted"] + 1]
          /\ told[g] \in [Kinds -> Nat]
      BY <1>4, <2>3, ToldAt DEF DeleteFollowUp, Kinds, TypeOK
    <3>2. FeedOf(followUp[g], told[g]) /\ followUp'[g] = Gone
      BY <2>1, <2>3 DEF TypeOK
    <3>3. QED
      BY <1>0, <2>1, <2>3, <3>1, <3>2 DEF FeedOf, Kinds
  <2>4. QED
    BY <2>2, <2>3
<1>5. QED
  BY <1>1, <1>2, <1>3, <1>4
  DEF Next, Tick, NewLead, SyncRead, SyncCommit, SyncLost, vars

LEMMA FeedInit == Init => FeedInv
BY SyncAssumption DEF Init, FeedInv, FeedTellsState, Untold, Live, Kinds

\* The feed adds up to the follow-ups as they are, whatever is repeated.
THEOREM FeedCorrect == Spec => []FeedTellsState
<1>1. Init => TypeOK /\ FeedInv
  BY InitType, FeedInit
<1>2. TypeOK /\ FeedInv /\ [Next]_vars => (TypeOK /\ FeedInv)'
  BY NextType, FeedNext
<1>3. FeedInv => FeedTellsState
  BY DEF FeedInv
<1>4. QED
  BY <1>1, <1>2, <1>3, PTL DEF Spec

-----------------------------------------------------------------------------
(* Sent once *)

\* What a sync found stored stays stored, and no follow-up is from the future.
RowsStay   == \A s \in Slots, t \in Telecallers :
                sync[s] # Idle /\ sync[s].by = t => sync[s].rows \subseteq Logged(t)
MadeBefore == \A f \in FollowUps : Live(f) => followUp[f].made <= clock

\* The two halves of SentOnce.
CallsOnce == \A t \in Telecallers : announced[t] = Cardinality(Logged(t))
Alike(f, g) ==
  /\ f # g /\ Live(f) /\ Live(g)
  /\ followUp[f].by = followUp[g].by /\ followUp[f].lead = followUp[g].lead
  /\ followUp[f].due = followUp[g].due
  /\ ~followUp[f].moved /\ ~followUp[g].moved
  /\ followUp[f].made <= followUp[g].made
FollowUpsOnce ==
  \A f, g \in FollowUps : Alike(f, g) => followUp[g].made - followUp[f].made > Window

SentInv == RowsStay /\ CallsOnce /\ MadeBefore /\ FollowUpsOnce

LEMMA SentIsHalves == SentOnce <=> CallsOnce /\ FollowUpsOnce
BY DEF SentOnce, CallsOnce, FollowUpsOnce, Alike

\* The calls of telecaller t that the sync in s adds.
Added(s, t) == IF t = sync[s].by THEN sync[s].calls \ sync[s].rows ELSE {}

\* A commit logs exactly these, none of which was there.
LEMMA CommitLogs ==
  ASSUME TypeOK, RowsStay, NEW s \in Slots, SyncCommit(s), NEW t \in Telecallers
  PROVE  /\ Logged(t)' = Logged(t) \cup Added(s, t)
         /\ Logged(t) \cap Added(s, t) = {}
         /\ announced'[t] = announced[t] + Cardinality(Added(s, t))
         /\ Added(s, t) \subseteq Calls
<1> DEFINE r == sync[s]
           new == r.calls \ r.rows
<1>1. r \in Syncing
  BY UnderWay DEF SyncCommit
<1>2. r.by \in Telecallers /\ r.calls \subseteq Calls
  BY <1>1 DEF Syncing
<1>3. r.rows \subseteq Logged(r.by)
  BY <1>1 DEF RowsStay, Idle, Syncing
<1>4. \A c \in Calls : Link(r, c) # Gone
  BY <1>1, LinkType, SyncAssumption
<1>5. log' = [log EXCEPT ![r.by] = [c \in Calls |-> IF c \in r.calls THEN Link(r, c) ELSE log[r.by][c]]]
  BY DEF SyncCommit, TypeOK
<1>6. t # r.by => Logged(t)' = Logged(t)
  BY <1>5 DEF Logged, TypeOK
<1>7. t = r.by => Logged(t)' = Logged(t) \cup new
  <2>1. SUFFICES ASSUME t = r.by PROVE Logged(t)' = Logged(t) \cup new
    OBVIOUS
  <2>2. \A c \in Calls : log'[t][c] = IF c \in r.calls THEN Link(r, c) ELSE log[t][c]
    BY <1>2, <1>5, <2>1 DEF TypeOK
  <2>3. QED
    BY <1>2, <1>3, <1>4, <2>1, <2>2 DEF Logged
<1>8. t = r.by => Logged(t) \cap new = {}
  BY DEF SyncCommit, Clashes
<1>9. announced'[t] = IF t = r.by THEN announced[t] + Cardinality(new) ELSE announced[t]
  BY <1>2 DEF SyncCommit, TypeOK
<1>10. Cardinality({}) = 0 /\ announced[t] \in Nat
  BY FS_EmptySet DEF TypeOK
<1>11. QED
  BY <1>2, <1>6, <1>7, <1>8, <1>9, <1>10 DEF Added

LEMMA CallsOnceNext == TypeOK /\ RowsStay /\ CallsOnce /\ [Next]_vars => (RowsStay /\ CallsOnce)'
<1> SUFFICES ASSUME TypeOK, RowsStay, CallsOnce, [Next]_vars PROVE (RowsStay /\ CallsOnce)'
  OBVIOUS
<1>1. ASSUME NEW s \in Slots, NEW t \in Telecallers, NEW cs \in SUBSET Calls,
             NEW twice \in Calls \cup {None}, NEW claim \in Claims,
             SyncRead(s, t, cs, twice, claim)
      PROVE (RowsStay /\ CallsOnce)'
  BY <1>1 DEF SyncRead, RowsStay, CallsOnce, Logged, TypeOK, Idle
<1>2. ASSUME NEW s \in Slots, SyncCommit(s) PROVE (RowsStay /\ CallsOnce)'
  <2>1. \A t \in Telecallers : Logged(t) \subseteq Logged(t)'
    BY <1>2, CommitLogs
  <2>2. RowsStay'
    <3>1. SUFFICES ASSUME NEW q \in Slots, NEW t \in Telecallers, sync'[q] # Idle, sync'[q].by = t
                   PROVE  sync'[q].rows \subseteq Logged(t)'
      BY DEF RowsStay
    <3>2. sync'[q] = sync[q]
      BY <1>2, <3>1 DEF SyncCommit, TypeOK
    <3>3. sync[q].rows \subseteq Logged(t)
      BY <3>1, <3>2 DEF RowsStay
    <3>4. QED
      BY <2>1, <3>2, <3>3
  <2>3. ASSUME NEW t \in Telecallers PROVE announced'[t] = Cardinality(Logged(t)')
    <3> DEFINE new == Added(s, t)
    <3>1. /\ Logged(t)' = Logged(t) \cup new /\ Logged(t) \cap new = {}
          /\ announced'[t] = announced[t] + Cardinality(new) /\ new \subseteq Calls
      BY <1>2, CommitLogs
    <3>2. IsFiniteSet(Logged(t)) /\ IsFiniteSet(new)
      BY <3>1, FS_Subset, SyncAssumption DEF Logged
    <3>3. Cardinality(Logged(t) \cup new)
            = Cardinality(Logged(t)) + Cardinality(new) - Cardinality(Logged(t) \cap new)
      BY <3>2, FS_Union
    <3>4. Cardinality(Logged(t)) \in Nat /\ Cardinality(new) \in Nat /\ Cardinality({}) = 0
      BY <3>2, FS_CardinalityType, FS_EmptySet
    <3>5. announced[t] = Cardinality(Logged(t))
      BY DEF CallsOnce
    <3> HIDE DEF new
    <3>6. Cardinality(Logged(t)') = Cardinality(Logged(t) \cup new)
      BY <3>1, Zenon
    <3>7. Cardinality(Logged(t) \cup new) = Cardinality(Logged(t)) + Cardinality(new)
      <4>1. Cardinality(Logged(t) \cap new) = 0
        BY <3>1, <3>4, Zenon
      <4>2. QED
        BY <3>3, <3>4, <4>1
    <3>8. QED
      BY <3>1, <3>5, <3>6, <3>7, Zenon
  <2>4. QED
    BY <2>2, <2>3 DEF CallsOnce
<1>3. ASSUME NEW s \in Slots, SyncLost(s) PROVE (RowsStay /\ CallsOnce)'
  BY <1>3 DEF SyncLost, RowsStay, CallsOnce, Logged, TypeOK
<1>4. CASE UNCHANGED <<log, announced, sync>>
  BY <1>4 DEF RowsStay, CallsOnce, Logged
<1>5. QED
  BY <1>1, <1>2, <1>3, <1>4
  DEF Next, Tick, NewLead, CreateFollowUp, UpdateFollowUp, DeleteFollowUp, Others, vars

\* A follow-up keeps who made it, for what, when, and when it is due unless it
\* is marked as moved.
Kept(x, y) ==
  /\ y.by = x.by /\ y.lead = x.lead /\ y.made = x.made
  /\ x.moved => y.moved
  /\ ~y.moved => y.due = x.due

LEMMA RowKept ==
  ASSUME TypeOK, [Next]_vars, NEW f \in FollowUps, Live(f)'
  PROVE  \/ Live(f) /\ Kept(followUp[f], followUp'[f])
         \/ \E t \in Telecallers, l \in Leads \cup {None}, d \in Dues : CreateFollowUp(f, t, l, d)
<1>0. None # Gone /\ None \notin Row /\ Gone \notin Row
  BY SyncAssumption, NullAssumption
<1>1. CASE UNCHANGED followUp
  BY <1>1 DEF Live, Kept
<1>2. ASSUME NEW g \in FollowUps, NEW t \in Telecallers, NEW l \in Leads \cup {None},
             NEW d \in Dues, CreateFollowUp(g, t, l, d), g # f
      PROVE Live(f) /\ Kept(followUp[f], followUp'[f])
  BY <1>2 DEF CreateFollowUp, TypeOK, Live, Kept
<1>3. ASSUME NEW g \in FollowUps, NEW d \in Dues \cup {None}, NEW done \in {None, "yes", "no"},
             UpdateFollowUp(g, d, done)
      PROVE Live(f) /\ Kept(followUp[f], followUp'[f])
  <2>1. PICK y \in Row :
           /\ y.by = followUp[g].by /\ y.lead = followUp[g].lead /\ y.made = followUp[g].made
           /\ y.due = NewDue(followUp[g], d) /\ y.moved = NewMoved(followUp[g], d)
           /\ followUp' = [followUp EXCEPT ![g] = y]
    BY <1>3, UpdatedRow
  <2>2. CASE g # f
    BY <2>1, <2>2 DEF TypeOK, Live, Kept
  <2>3. CASE g = f
    <3>1. followUp'[f] = y /\ Live(f)
      BY <1>3, <2>1, <2>3 DEF TypeOK, UpdateFollowUp
    <3>2. followUp[f] \in Row
      BY <3>1, LiveRow
    <3>3. followUp[f].moved => y.moved
      BY <2>1, <2>3 DEF NewMoved
    <3>4. ~y.moved => y.due = followUp[f].due
      BY <2>1, <2>3 DEF NewMoved, NewDue
    <3>5. QED
      BY <2>1, <2>3, <3>1, <3>3, <3>4 DEF Kept
  <2>4. QED
    BY <2>2, <2>3
<1>4. ASSUME NEW g \in FollowUps, DeleteFollowUp(g)
      PROVE Live(f) /\ Kept(followUp[f], followUp'[f])
  <2>1. g # f
    BY <1>4 DEF DeleteFollowUp, Live, TypeOK
  <2>2. QED
    BY <1>4, <2>1 DEF DeleteFollowUp, Live, TypeOK, Kept
<1>5. QED
  BY <1>1, <1>2, <1>3, <1>4
  DEF Next, Tick, NewLead, SyncRead, SyncCommit, SyncLost, vars

LEMMA FollowUpsOnceNext ==
  TypeOK /\ MadeBefore /\ FollowUpsOnce /\ [Next]_vars => (MadeBefore /\ FollowUpsOnce)'
<1> SUFFICES ASSUME TypeOK, MadeBefore, FollowUpsOnce, [Next]_vars
             PROVE  (MadeBefore /\ FollowUpsOnce)'
  OBVIOUS
<1>1. clock \in Int /\ clock' \in Int /\ clock' >= clock /\ Window \in Nat
  <2>1. clock \in Int /\ Window \in Nat
    BY SyncAssumption DEF TypeOK, Time
  <2>2. CASE Tick
    BY <2>1, <2>2, SyncAssumption DEF Tick, Time
  <2>3. CASE ~Tick
    <3>1. clock' = clock
      BY <2>3
      DEF Next, NewLead, SyncRead, SyncCommit, SyncLost, CreateFollowUp, UpdateFollowUp,
          DeleteFollowUp, Others, vars
    <3>2. QED
      BY <2>1, <3>1
  <2>4. QED
    BY <2>1, <2>2, <2>3
<1>2. \A f \in FollowUps : Live(f) => followUp[f].made \in Int
  BY LiveRow DEF Row, Time
<1>3. ASSUME NEW f \in FollowUps, NEW t \in Telecallers, NEW l \in Leads \cup {None},
             NEW d \in Dues, CreateFollowUp(f, t, l, d)
      PROVE (MadeBefore /\ FollowUpsOnce)'
  <2> DEFINE new == [by |-> t, lead |-> l, due |-> d, made |-> clock, done |-> FALSE, moved |-> FALSE]
  <2>1. followUp[f] = None /\ followUp' = [followUp EXCEPT ![f] = new] /\ clock' = clock
    BY <1>3 DEF CreateFollowUp, Others
  <2>2. followUp'[f] = new /\ \A g \in FollowUps : g # f => followUp'[g] = followUp[g]
    BY <2>1 DEF TypeOK
  <2>3. new.by = t /\ new.lead = l /\ new.due = d /\ new.made = clock
    OBVIOUS
  <2>4. \A g \in FollowUps : ~Recent(g, t, l, d)
    BY <1>3 DEF CreateFollowUp
  <2> HIDE DEF new
  <2>5. \A g \in FollowUps : g # f => (Live(g)' <=> Live(g))
    BY <2>2 DEF Live
  <2>6. MadeBefore'
    BY <1>1, <2>1, <2>2, <2>3, <2>5 DEF MadeBefore
  <2>7. ASSUME NEW x \in FollowUps, NEW y \in FollowUps, Alike(x, y)'
        PROVE  followUp'[y].made - followUp'[x].made > Window
    <3>1. CASE x # f /\ y # f
      BY <2>2, <2>5, <2>7, <3>1 DEF Alike, FollowUpsOnce
    <3>2. CASE y = f
      <4>1. x # f /\ Live(x) /\ followUp[x].by = t /\ followUp[x].lead = l /\ followUp[x].due = d
        BY <2>2, <2>3, <2>5, <2>7, <3>2 DEF Alike
      <4>2. ~(followUp[x].made >= clock - Window)
        BY <2>4, <4>1 DEF Recent
      <4>3. QED
        BY <1>1, <1>2, <2>2, <2>3, <3>2, <4>1, <4>2
    <3>3. CASE x = f
      <4>1. y # f /\ Live(y) /\ followUp[y].by = t /\ followUp[y].lead = l /\ followUp[y].due = d
        BY <2>2, <2>3, <2>5, <2>7, <3>3 DEF Alike
      <4>2. ~(followUp[y].made >= clock - Window)
        BY <2>4, <4>1 DEF Recent
      <4>3. clock <= followUp[y].made
        BY <2>2, <2>3, <2>7, <3>3, <4>1 DEF Alike
      <4>4. QED
        BY <1>1, <1>2, <4>1, <4>2, <4>3
    <3>4. QED
      BY <3>1, <3>2, <3>3
  <2>8. QED
    BY <2>6, <2>7 DEF FollowUpsOnce
<1>4. CASE ~\E f \in FollowUps, t \in Telecallers, l \in Leads \cup {None}, d \in Dues :
              CreateFollowUp(f, t, l, d)
  <2>1. \A f \in FollowUps : Live(f)' => Live(f) /\ Kept(followUp[f], followUp'[f])
    BY <1>4, RowKept
  <2>2. MadeBefore'
    <3>1. SUFFICES ASSUME NEW f \in FollowUps, Live(f)' PROVE followUp'[f].made <= clock'
      BY DEF MadeBefore
    <3>2. Live(f) /\ followUp'[f].made = followUp[f].made
      BY <2>1, <3>1 DEF Kept
    <3>3. QED
      BY <1>1, <1>2, <3>2 DEF MadeBefore
  <2>3. ASSUME NEW x \in FollowUps, NEW y \in FollowUps, Alike(x, y)'
        PROVE  followUp'[y].made - followUp'[x].made > Window
    <3>1. Kept(followUp[x], followUp'[x]) /\ Kept(followUp[y], followUp'[y])
      BY <2>1, <2>3 DEF Alike
    <3>2. Alike(x, y)
      BY <2>1, <2>3, <3>1 DEF Alike, Kept
    <3>3. QED
      BY <3>1, <3>2 DEF FollowUpsOnce, Kept
  <2>4. QED
    BY <2>2, <2>3 DEF FollowUpsOnce
<1>5. QED
  BY <1>3, <1>4

LEMMA SentInit == Init => SentInv
<1> SUFFICES ASSUME Init PROVE SentInv
  OBVIOUS
<1>1. \A t \in Telecallers : Logged(t) = {}
  BY DEF Init, Logged
<1>2. CallsOnce
  BY <1>1, FS_EmptySet DEF Init, CallsOnce
<1>3. RowsStay /\ MadeBefore /\ FollowUpsOnce
  BY DEF Init, RowsStay, MadeBefore, FollowUpsOnce, Alike, Live
<1>4. QED
  BY <1>2, <1>3 DEF SentInv

\* However often the phone repeats itself, the founder hears of every logged call
\* exactly once, and no follow-up is there twice.
THEOREM SentOnceCorrect == Spec => []SentOnce
<1>1. Init => TypeOK /\ SentInv
  BY InitType, SentInit
<1>2. TypeOK /\ SentInv /\ [Next]_vars => (TypeOK /\ SentInv)'
  BY NextType, CallsOnceNext, FollowUpsOnceNext DEF SentInv
<1>3. SentInv => SentOnce
  BY SentIsHalves DEF SentInv
<1>4. QED
  BY <1>1, <1>2, <1>3, PTL DEF Spec

===============================================================================
