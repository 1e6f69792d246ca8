--------------------------- MODULE LeadBookProofs ---------------------------
(***************************************************************************)
(* Proofs about LeadBook, for any number of server processes, accounts,    *)
(* contact keys, stages and requests.                                      *)
(***************************************************************************)
EXTENDS LeadBook, TLAPS

-----------------------------------------------------------------------------
(* Typing *)

Requests == Insert \cup Fill \cup Move \cup Edit

LEMMA InitType == Init => TypeOK
<1> SUFFICES ASSUME Init PROVE TypeOK
  OBVIOUS
<1>1. New \in Stages /\ 0 \in 0 .. MaxRequests
  BY LeadAssumption DEF New, Stages
<1>2. stage \in [Keys -> Stages] /\ requests \in 0 .. MaxRequests
  BY <1>1 DEF Init
<1>3. trail \in [Keys -> Seq(Change)]
  BY DEF Init
<1>4. owner \in [Keys -> Telecallers \cup {None, Absent}] /\ closed \in [Keys -> BOOLEAN]
  BY DEF Init
<1>5. QED
  BY <1>2, <1>3, <1>4 DEF Init, TypeOK

\* Whoever a lead is dealt to is a telecaller, or nobody.
LEMMA AssigneeType ==
  ASSUME TypeOK, NEW u \in Users
  PROVE  Assignee(u) \subseteq Telecallers \cup {None}
BY DEF TypeOK, Assignee, Pick, Users

\* The request a process holds is the one its kind says.
LEMMA HeldType ==
  ASSUME TypeOK, NEW p \in Processes
  PROVE  /\ handler[p] # Idle => handler[p] \in Requests
         /\ handler[p].op = "insert" => handler[p] \in Insert
         /\ handler[p].op = "fill" => handler[p] \in Fill
         /\ handler[p].op = "move" => handler[p] \in Move
         /\ handler[p].op = "edit" => handler[p] \in Edit
BY DEF TypeOK, Requests, Idle, Insert, Fill, Move, Edit

\* Reading: a request is held and nothing else of the organisation changes.
LEMMA HoldType ==
  ASSUME TypeOK, NEW p \in Processes, NEW r \in Requests, Hold(p, r),
         UNCHANGED <<active, lead, sent>>
  PROVE  TypeOK'
<1>1. handler' \in [Processes -> {Idle} \cup Requests]
  BY DEF TypeOK, Hold, Requests
<1>2. requests' \in 0 .. MaxRequests /\ overlapped' \in BOOLEAN
  BY LeadAssumption DEF TypeOK, Hold, Arrive
<1>3. QED
  BY <1>1, <1>2 DEF TypeOK, Requests, lead, sent

LEMMA DoneType ==
  ASSUME TypeOK, NEW p \in Processes, Done(p)
  PROVE  /\ handler' \in [Processes -> {Idle} \cup Insert \cup Fill \cup Move \cup Edit]
         /\ requests' \in 0 .. MaxRequests /\ overlapped' \in BOOLEAN
BY DEF TypeOK, Done

LEMMA AssignType ==
  ASSUME TypeOK, NEW k \in Keys, NEW o \in Telecallers \cup {None}, Assign(k, o)
  PROVE  owner' \in [Keys -> Telecallers \cup {None, Absent}]
BY DEF TypeOK, Assign

LEMMA PushType ==
  ASSUME TypeOK, NEW k \in Keys, NEW o \in Telecallers \cup {None}, Push(k, o)
  PROVE  told' \in [Keys -> SUBSET Telecallers]
BY DEF TypeOK, Push

\* What each handler holds.
LEMMA CreateHolds ==
  ASSUME TypeOK, NEW p \in Processes, NEW u \in Users, NEW name \in Names,
         NEW phone \in MaybePhone, CreateRead(p, u, name, phone)
  PROVE  \E r \in Insert : /\ Hold(p, r) /\ r.tell \in {None, r.owner}
                           /\ UNCHANGED <<active, lead, sent>>
<1> DEFINE key == IF phone = None THEN name ELSE phone
           req(o) == [op |-> "insert", by |-> "create", key |-> key, owner |-> o,
                      tell |-> IF o = u THEN None ELSE o]
<1>1. PICK o \in Assignee(u) : Hold(p, req(o))
  BY DEF CreateRead
<1>2. key \in Keys
  BY DEF Keys, MaybePhone
<1>3. req(o) \in Insert
  BY <1>2, AssigneeType DEF Insert
<1>4. req(o).tell \in {None, req(o).owner}
  OBVIOUS
<1>5. QED
  BY <1>1, <1>3, <1>4 DEF CreateRead

LEMMA UploadHolds ==
  ASSUME TypeOK, NEW p \in Processes, NEW u \in Users, NEW name \in Names,
         NEW phone \in MaybePhone, NEW override \in Keys \cup {None},
         UploadRead(p, u, override, phone, name)
  PROVE  \E r \in Insert \cup Fill :
           /\ Hold(p, r)
           /\ r.op = "insert" => r.tell = None
           /\ r.op = "fill" => owner[r.key] = None
           /\ UNCHANGED <<active, lead, sent>>
<1> DEFINE key == UploadKey(override, phone, name)
           req(o) == IF Row(key)
                     THEN [op |-> "fill", key |-> key, owner |-> o]
                     ELSE [op |-> "insert", by |-> "upload", key |-> key, owner |-> o, tell |-> None]
<1>1. PICK o \in Assignee(u) : Hold(p, req(o))
  BY DEF UploadRead
<1>2. key \in Keys
  BY DEF Keys, MaybePhone, UploadKey
<1>3. o \in Telecallers \cup {None}
  BY AssigneeType
<1>4. owner[key] \in {None, Absent}
  BY DEF UploadRead
<1>5. CASE Row(key)
  <2>1. req(o) = [op |-> "fill", key |-> key, owner |-> o]
    BY <1>5
  <2>2. req(o) \in Fill /\ req(o).op = "fill" /\ req(o).key = key
    BY <1>2, <1>3, <2>1 DEF Fill
  <2>3. owner[key] = None
    BY <1>4, <1>5 DEF Row
  <2> HIDE DEF req
  <2>4. QED
    BY <1>1, <2>2, <2>3 DEF UploadRead
<1>6. CASE ~Row(key)
  <2>1. req(o) = [op |-> "insert", by |-> "upload", key |-> key, owner |-> o, tell |-> None]
    BY <1>6
  <2>2. req(o) \in Insert /\ req(o).op = "insert" /\ req(o).tell = None
    BY <1>2, <1>3, <2>1 DEF Insert
  <2> HIDE DEF req
  <2>3. QED
    BY <1>1, <2>2 DEF UploadRead
<1>7. QED
  BY <1>5, <1>6

LEMMA MoveHolds ==
  ASSUME TypeOK, NEW p \in Processes, NEW u \in Users, NEW k \in Keys, NEW to \in Stages,
         NEW noted \in BOOLEAN, MoveRead(p, u, k, to, noted)
  PROVE  \E r \in Move : /\ Hold(p, r) /\ r.from = stage[r.key] /\ r.wasClosed = closed[r.key]
                         /\ UNCHANGED <<active, lead, sent>>
<1> DEFINE r == [op |-> "move", key |-> k, from |-> stage[k], to |-> to, wasClosed |-> closed[k]]
<1>1. r \in Move
  BY DEF Move, TypeOK
<1>2. Hold(p, r) /\ UNCHANGED <<active, lead, sent>>
  BY DEF MoveRead
<1>3. r.from = stage[r.key] /\ r.wasClosed = closed[r.key]
  OBVIOUS
<1> HIDE DEF r
<1>4. QED
  BY <1>1, <1>2, <1>3

LEMMA EditHolds ==
  ASSUME TypeOK, NEW p \in Processes, NEW u \in Users, NEW k \in Keys,
         NEW o \in Telecallers \cup {None}, EditRead(p, u, k, o)
  PROVE  \E r \in Edit : Hold(p, r) /\ UNCHANGED <<active, lead, sent>>
<1> DEFINE r == [op |-> "edit", key |-> k, was |-> owner[k], owner |-> o]
<1>1. owner[k] \in Telecallers \cup {None}
  BY DEF EditRead, Row, TypeOK
<1>2. r \in Edit
  BY <1>1 DEF Edit
<1>3. QED
  BY <1>2 DEF EditRead

\* What a request that was just read says of the organisation.
Fresh(r) ==
  /\ r.op = "insert" => r.tell \in {None, r.owner}
  /\ r.op = "fill" => owner[r.key] = None
  /\ r.op = "move" => r.from = stage[r.key] /\ r.wasClosed = closed[r.key]

Reading ==
  \E p \in Processes, r \in Requests : Hold(p, r) /\ Fresh(r) /\ UNCHANGED <<active, lead, sent>>

Commit(p) == CommitInsert(p) \/ LoseInsert(p) \/ CommitFill(p) \/ CommitMove(p) \/ CommitEdit(p)

\* Every step reads, commits, or switches an account.
LEMMA Steps ==
  ASSUME TypeOK, Next
  PROVE  Reading \/ (\E p \in Processes : Commit(p)) \/ (\E t \in Telecallers : SetActive(t))
<1>1. ASSUME NEW p \in Processes, NEW u \in Users, NEW name \in Names, NEW phone \in MaybePhone,
             CreateRead(p, u, name, phone)
      PROVE Reading
  <2>1. PICK r \in Insert : Hold(p, r) /\ r.tell \in {None, r.owner} /\ UNCHANGED <<active, lead, sent>>
    BY <1>1, CreateHolds
  <2>2. Fresh(r) /\ r \in Requests
    BY <2>1 DEF Fresh, Insert, Requests
  <2>3. QED
    BY <2>1, <2>2 DEF Reading
<1>2. ASSUME NEW p \in Processes, NEW u \in Users, NEW name \in Names, NEW phone \in MaybePhone,
             NEW override \in Keys \cup {None}, UploadRead(p, u, override, phone, name)
      PROVE Reading
  <2>1. PICK r \in Insert \cup Fill :
           /\ Hold(p, r)
           /\ r.op = "insert" => r.tell = None
           /\ r.op = "fill" => owner[r.key] = None
           /\ UNCHANGED <<active, lead, sent>>
    BY <1>2, UploadHolds
  <2>2. Fresh(r) /\ r \in Requests
    BY <2>1 DEF Fresh, Insert, Fill, Requests
  <2>3. QED
    BY <2>1, <2>2 DEF Reading
<1>3. ASSUME NEW p \in Processes, NEW u \in Users, NEW k \in Keys, NEW to \in Stages,
             NEW noted \in BOOLEAN, MoveRead(p, u, k, to, noted)
      PROVE Reading
  <2>1. PICK r \in Move : /\ Hold(p, r) /\ r.from = stage[r.key] /\ r.wasClosed = closed[r.key]
                          /\ UNCHANGED <<active, lead, sent>>
    BY <1>3, MoveHolds
  <2>2. Fresh(r) /\ r \in Requests
    BY <2>1 DEF Fresh, Move, Requests
  <2>3. QED
    BY <2>1, <2>2 DEF Reading
<1>4. ASSUME NEW p \in Processes, NEW u \in Users, NEW k \in Keys,
             NEW o \in Telecallers \cup {None}, EditRead(p, u, k, o)
      PROVE Reading
  <2>1. PICK r \in Edit : Hold(p, r) /\ UNCHANGED <<active, lead, sent>>
    BY <1>4, EditHolds
  <2>2. Fresh(r) /\ r \in Requests
    BY <2>1 DEF Fresh, Edit, Requests
  <2>3. QED
    BY <2>1, <2>2 DEF Reading
<1>5. QED
  BY <1>1, <1>2, <1>3, <1>4 DEF Next, Commit

LEMMA CommitType ==
  ASSUME TypeOK, NEW p \in Processes, Commit(p)
  PROVE  TypeOK'
<1> DEFINE r == handler[p]
<1>1. CASE CommitInsert(p)
  <2>1. r \in Insert /\ r.key \in Keys /\ r.owner \in Telecallers \cup {None}
        /\ r.tell \in Telecallers \cup {None}
    BY <1>1, HeldType DEF CommitInsert, Insert
  <2>2. owner' \in [Keys -> Telecallers \cup {None, Absent}]
    BY <1>1, <2>1, AssignType DEF CommitInsert
  <2>3. created' \in [Keys -> Nat] /\ told' \in [Keys -> SUBSET Telecallers]
    <3>1. CASE r.by = "create"
      BY <1>1, <2>1, <3>1, PushType DEF CommitInsert, TypeOK
    <3>2. CASE r.by # "create"
      BY <1>1, <3>2 DEF CommitInsert, TypeOK, sent
    <3>3. QED
      BY <3>1, <3>2
  <2>4. QED
    BY <1>1, <2>2, <2>3, DoneType DEF CommitInsert, TypeOK
<1>2. CASE LoseInsert(p)
  BY <1>2, DoneType DEF LoseInsert, TypeOK, lead, sent
<1>3. CASE CommitFill(p)
  <2>1. r.key \in Keys /\ r.owner \in Telecallers \cup {None}
    BY <1>3, HeldType DEF CommitFill, Fill
  <2>2. owner' \in [Keys -> Telecallers \cup {None, Absent}]
    BY <1>3, <2>1, AssignType DEF CommitFill, TypeOK
  <2>3. QED
    BY <1>3, <2>2, DoneType DEF CommitFill, TypeOK, sent
<1>4. CASE CommitMove(p)
  <2>1. r \in Move /\ r.key \in Keys /\ r.from \in Stages /\ r.to \in Stages
    BY <1>4, HeldType DEF CommitMove, Move
  <2>2. stage' \in [Keys -> Stages]
    BY <1>4, <2>1 DEF CommitMove, TypeOK
  <2>3. closed' \in [Keys -> BOOLEAN]
    BY <1>4, <2>1 DEF CommitMove, TypeOK
  <2>4. trail' \in [Keys -> Seq(Change)]
    <3>1. [from |-> r.from, to |-> r.to] \in Change
      BY <2>1 DEF Change
    <3>2. QED
      BY <1>4, <2>1, <3>1 DEF CommitMove, TypeOK
  <2>5. QED
    BY <1>4, <2>2, <2>3, <2>4, DoneType DEF CommitMove, TypeOK, sent
<1>5. CASE CommitEdit(p)
  <2>1. r.key \in Keys /\ r.owner \in Telecallers \cup {None}
    BY <1>5, HeldType DEF CommitEdit, Edit
  <2>2. owner' \in [Keys -> Telecallers \cup {None, Absent}] /\ told' \in [Keys -> SUBSET Telecallers]
    BY <1>5, <2>1, AssignType, PushType DEF CommitEdit, TypeOK
  <2>3. QED
    BY <1>5, <2>2, DoneType DEF CommitEdit, TypeOK
<1>6. QED
  BY <1>1, <1>2, <1>3, <1>4, <1>5 DEF Commit

LEMMA NextType == TypeOK /\ [Next]_vars => TypeOK'
<1> SUFFICES ASSUME TypeOK, [Next]_vars PROVE TypeOK'
  OBVIOUS
<1>1. CASE Reading
  BY <1>1, HoldType DEF Reading
<1>2. CASE \E p \in Processes : Commit(p)
  BY <1>2, CommitType
<1>3. ASSUME NEW t \in Telecallers, SetActive(t) PROVE TypeOK'
  BY <1>3, LeadAssumption DEF SetActive, Arrive, TypeOK, lead, sent
<1>4. CASE UNCHANGED vars
  BY <1>4 DEF vars, TypeOK, lead, sent
<1>5. QED
  BY <1>1, <1>2, <1>3, <1>4, Steps

\* The state is always well typed.
THEOREM LeadTypeCorrect == Spec => []TypeOK
BY InitType, NextType, PTL DEF Spec

-----------------------------------------------------------------------------
(* Created once *)

\* Nobody was answered "created" for a lead that is not there.
CreatedInv == \A k \in Keys : created[k] <= 1 /\ (owner[k] = Absent => created[k] = 0)

\* A row that is there is never taken away.
LEMMA RowsStay ==
  ASSUME TypeOK, NEW p \in Processes, Commit(p), NEW k \in Keys, Row(k)
  PROVE  Row(k)'
<1>1. CASE CommitInsert(p)
  BY <1>1, HeldType, LeadAssumption DEF CommitInsert, Insert, Assign, Row, TypeOK, Users
<1>2. CASE LoseInsert(p)
  BY <1>2 DEF LoseInsert, lead, Row
<1>3. CASE CommitFill(p)
  BY <1>3, HeldType, LeadAssumption DEF CommitFill, Fill, Assign, Row, TypeOK, Users
<1>4. CASE CommitMove(p)
  BY <1>4 DEF CommitMove, Row
<1>5. CASE CommitEdit(p)
  BY <1>5, HeldType, LeadAssumption DEF CommitEdit, Edit, Assign, Row, TypeOK, Users
<1>6. QED
  BY <1>1, <1>2, <1>3, <1>4, <1>5 DEF Commit

LEMMA CreatedNext == TypeOK /\ CreatedInv /\ [Next]_vars => CreatedInv'
<1> SUFFICES ASSUME TypeOK, CreatedInv, [Next]_vars PROVE CreatedInv'
  OBVIOUS
<1>1. CASE UNCHANGED <<owner, created>>
  BY <1>1 DEF CreatedInv
<1>2. ASSUME NEW p \in Processes, Commit(p), UNCHANGED created PROVE CreatedInv'
  BY <1>2, RowsStay DEF CreatedInv, Row
<1>3. ASSUME NEW p \in Processes, CommitInsert(p), handler[p].by = "create" PROVE CreatedInv'
  <2> DEFINE key == handler[p].key
  <2>1. key \in Keys /\ owner[key] = Absent /\ created' = [created EXCEPT ![key] = created[key] + 1]
    BY <1>3, HeldType DEF CommitInsert, Insert, Row
  <2>2. owner' = [owner EXCEPT ![key] = handler[p].owner] /\ handler[p].owner # Absent
    BY <1>3, HeldType, LeadAssumption DEF CommitInsert, Insert, Assign, Users
  <2>3. \A k \in Keys : created[k] \in Nat
    BY DEF TypeOK
  <2>4. created[key] = 0
    BY <2>1 DEF CreatedInv
  <2>5. ASSUME NEW k \in Keys PROVE created'[k] <= 1 /\ (owner'[k] = Absent => created'[k] = 0)
    <3>1. CASE k = key
      BY <2>1, <2>2, <2>4, <3>1 DEF TypeOK
    <3>2. CASE k # key
      BY <2>1, <2>2, <3>2 DEF TypeOK, CreatedInv
    <3>3. QED
      BY <3>1, <3>2
  <2>6. QED
    BY <2>5 DEF CreatedInv
<1>4. QED
  BY <1>1, <1>2, <1>3, Steps
  DEF Reading, SetActive, Commit, CommitInsert, LoseInsert, CommitFill, CommitMove, CommitEdit,
      sent, lead, vars

\* At most one of the requests that race for a contact is answered "created".
THEOREM CreatedOnceCorrect == Spec => []CreatedOnce
<1>1. Init => TypeOK /\ CreatedInv
  BY InitType DEF Init, CreatedInv
<1>2. TypeOK /\ CreatedInv /\ [Next]_vars => (TypeOK /\ CreatedInv)'
  BY NextType, CreatedNext
<1>3. CreatedInv => CreatedOnce
  BY DEF CreatedInv, CreatedOnce
<1>4. QED
  BY <1>1, <1>2, <1>3, PTL DEF Spec

-----------------------------------------------------------------------------
(* One request at a time *)

\* As long as no two requests overlap, one process at most holds one, and what it
\* read still holds.
Alone == \A p, q \in Processes : handler[p] # Idle /\ handler[q] # Idle => p = q

Seen ==
  \A p \in Processes :
    /\ handler[p].op = "fill" => owner[handler[p].key] = None
    /\ handler[p].op = "move" => /\ handler[p].from = stage[handler[p].key]
                                 /\ handler[p].wasClosed = closed[handler[p].key]

AloneInv == ~overlapped => Alone /\ Seen

LEMMA AloneNext == TypeOK /\ AloneInv /\ [Next]_vars => AloneInv'
<1> SUFFICES ASSUME TypeOK, AloneInv, [Next]_vars, ~overlapped' PROVE (Alone /\ Seen)'
  BY DEF AloneInv
<1>0. Idle.op = "idle"
  BY DEF Idle
<1>1. ASSUME NEW p \in Processes, NEW r \in Requests, Hold(p, r), Fresh(r),
             UNCHANGED <<active, lead, sent>>
      PROVE (Alone /\ Seen)'
  <2>1. \A q \in Processes : handler[q] = Idle
    BY <1>1 DEF Hold
  <2>2. \A q \in Processes : handler'[q] = IF q = p THEN r ELSE Idle
    BY <1>1, <2>1 DEF Hold, TypeOK
  <2>3. owner' = owner /\ stage' = stage /\ closed' = closed
    BY <1>1 DEF lead
  <2>4. Alone'
    BY <2>2 DEF Alone
  <2>5. Seen'
    BY <1>0, <1>1, <2>2, <2>3 DEF Seen, Fresh
  <2>6. QED
    BY <2>4, <2>5
<1>2. ASSUME NEW p \in Processes, Commit(p) PROVE (Alone /\ Seen)'
  <2>1. handler[p] # Idle /\ Done(p)
    BY <1>0, <1>2 DEF Commit, CommitInsert, LoseInsert, CommitFill, CommitMove, CommitEdit
  <2>2. Alone
    BY <2>1 DEF Done, AloneInv
  <2>3. \A q \in Processes : handler'[q] = Idle
    BY <2>1, <2>2 DEF Done, TypeOK, Alone
  <2>4. QED
    BY <1>0, <2>3 DEF Alone, Seen
<1>3. CASE UNCHANGED <<owner, stage, closed, handler, overlapped>>
  BY <1>3 DEF AloneInv, Alone, Seen
<1>4. QED
  BY <1>1, <1>2, <1>3, Steps DEF Reading, SetActive, lead, vars

LEMMA AloneInit == Init => AloneInv
<1>1. Idle.op = "idle"
  BY DEF Idle
<1>2. Init => \A p \in Processes : handler[p] = Idle
  BY DEF Init
<1>3. QED
  BY <1>1, <1>2 DEF AloneInv, Alone, Seen

\* Overlap is remembered.
LEMMA OverlapStays == TypeOK /\ [Next]_vars /\ overlapped => overlapped'
BY Steps DEF Reading, Hold, SetActive, Commit, CommitInsert, LoseInsert, CommitFill, CommitMove,
   CommitEdit, Done, vars

\* A move that was read and committed by itself.
LEMMA MoveAlone ==
  ASSUME TypeOK, AloneInv, NEW p \in Processes, CommitMove(p), ~overlapped
  PROVE  LET r == handler[p]
         IN /\ r.key \in Keys /\ r.from \in Stages /\ r.to \in Stages /\ stage[r.key] = r.from
            /\ stage' = [stage EXCEPT ![r.key] = r.to]
            /\ closed' = [closed EXCEPT ![r.key] = (r.to = Won)]
            /\ trail' = [trail EXCEPT ![r.key] = IF r.to = r.from THEN trail[r.key]
                           ELSE Append(trail[r.key], [from |-> r.from, to |-> r.to])]
<1> DEFINE r == handler[p]
<1>1. r \in Move
  BY HeldType DEF CommitMove
<1>2. r.key \in Keys /\ r.from \in Stages /\ r.to \in Stages
  BY <1>1 DEF Move
<1>3. stage[r.key] = r.from /\ r.wasClosed = closed[r.key]
  BY DEF AloneInv, Seen, CommitMove
<1>4. stage' = [stage EXCEPT ![r.key] = r.to]
  BY <1>2, <1>3 DEF CommitMove, TypeOK
<1>5. closed[r.key] \in BOOLEAN
  BY <1>2 DEF TypeOK
<1>6. (IF r.to = Won THEN TRUE ELSE closed[r.key] /\ ~r.wasClosed) = (r.to = Won)
  BY <1>3, <1>5
<1>7. closed' = [closed EXCEPT ![r.key] = IF r.to = Won THEN TRUE ELSE closed[r.key] /\ ~r.wasClosed]
  BY DEF CommitMove
<1>8. trail' = [trail EXCEPT ![r.key] = IF r.to = r.from THEN trail[r.key]
                  ELSE Append(trail[r.key], [from |-> r.from, to |-> r.to])]
  BY DEF CommitMove
<1>9. QED
  BY <1>2, <1>3, <1>4, <1>6, <1>7, <1>8

-----------------------------------------------------------------------------
(* What the board, the revenue and the log say of a lead *)

\* A step that moves no lead.
Unmoved == UNCHANGED <<stage, closed, trail>>

LEMMA MoveOrNot ==
  ASSUME TypeOK, [Next]_vars
  PROVE  Unmoved \/ \E p \in Processes : CommitMove(p)
BY Steps DEF Unmoved, Reading, SetActive, lead, vars, Commit, CommitInsert, LoseInsert, CommitFill,
   CommitEdit

LEMMA RevenueNext == TypeOK /\ AloneInv /\ RevenueIsBoard /\ [Next]_vars => RevenueIsBoard'
<1> SUFFICES ASSUME TypeOK, AloneInv, RevenueIsBoard, [Next]_vars, ~overlapped',
                    NEW k \in Keys
             PROVE  closed'[k] <=> stage'[k] = Won
  BY DEF RevenueIsBoard
<1>1. ~overlapped /\ (closed[k] <=> stage[k] = Won)
  BY OverlapStays DEF RevenueIsBoard
<1>2. CASE Unmoved
  BY <1>1, <1>2 DEF Unmoved
<1>3. ASSUME NEW p \in Processes, CommitMove(p) PROVE closed'[k] <=> stage'[k] = Won
  <2> DEFINE r == handler[p]
  <2>1. /\ r.key \in Keys
        /\ stage' = [stage EXCEPT ![r.key] = r.to]
        /\ closed' = [closed EXCEPT ![r.key] = (r.to = Won)]
    BY <1>1, <1>3, MoveAlone
  <2>2. CASE k = r.key
    BY <2>1, <2>2 DEF TypeOK
  <2>3. CASE k # r.key
    BY <1>1, <2>1, <2>3 DEF TypeOK
  <2>4. QED
    BY <2>2, <2>3
<1>4. QED
  BY <1>2, <1>3, MoveOrNot

\* As long as requests do not overlap, what the revenue adds up is what the board
\* shows as won.
THEOREM RevenueCorrect == Spec => []RevenueIsBoard
<1>1. Init => TypeOK /\ AloneInv /\ RevenueIsBoard
  BY InitType, AloneInit, LeadAssumption DEF Init, RevenueIsBoard, New
<1>2. TypeOK /\ AloneInv /\ RevenueIsBoard /\ [Next]_vars
        => (TypeOK /\ AloneInv /\ RevenueIsBoard)'
  BY NextType, AloneNext, RevenueNext
<1>3. QED
  BY <1>1, <1>2, PTL DEF Spec

\* The log s leads from New to stage x without a gap.
Leads(s, x) ==
  /\ x = IF Len(s) = 0 THEN New ELSE s[Len(s)].to
  /\ \A i \in 1 .. Len(s) : s[i].from = IF i = 1 THEN New ELSE s[i - 1].to

\* One more move, from where the log ends.
LEMMA OneMoveMore ==
  ASSUME NEW s \in Seq(Change), NEW x \in Stages, NEW y \in Stages, Leads(s, x)
  PROVE  Leads(Append(s, [from |-> x, to |-> y]), y)
<1> DEFINE e == [from |-> x, to |-> y]
           z == Append(s, e)
<1>1. e \in Change /\ e.from = x /\ e.to = y
  BY DEF Change
<1> HIDE DEF e
<1>2. Len(z) = Len(s) + 1 /\ z[Len(s) + 1] = e /\ Len(s) \in Nat
  BY <1>1
<1>3. \A i \in 1 .. Len(s) : z[i] = s[i]
  BY <1>1
<1>4. y = z[Len(z)].to /\ Len(z) # 0
  BY <1>1, <1>2
<1>5. ASSUME NEW i \in 1 .. Len(z) PROVE z[i].from = IF i = 1 THEN New ELSE z[i - 1].to
  <2>1. CASE i \in 1 .. Len(s)
    <3>1. z[i] = s[i] /\ (i # 1 => z[i - 1] = s[i - 1])
      BY <1>2, <1>3, <2>1
    <3>2. s[i].from = IF i = 1 THEN New ELSE s[i - 1].to
      BY <2>1 DEF Leads
    <3>3. QED
      BY <3>1, <3>2
  <2>2. CASE i = Len(s) + 1
    <3>1. z[i].from = x
      BY <1>1, <1>2, <2>2
    <3>2. CASE Len(s) = 0
      BY <2>2, <3>1, <3>2 DEF Leads
    <3>3. CASE Len(s) # 0
      <4>1. i # 1 /\ i - 1 = Len(s) /\ z[i - 1] = s[Len(s)]
        BY <1>2, <1>3, <2>2, <3>3
      <4>2. x = s[Len(s)].to
        BY <3>3 DEF Leads
      <4>3. QED
        BY <3>1, <4>1, <4>2
    <3>4. QED
      BY <3>2, <3>3
  <2>3. QED
    BY <1>2, <2>1, <2>2
<1> HIDE DEF z
<1>6. Leads(z, y)
  BY <1>4, <1>5 DEF Leads
<1>7. QED
  BY <1>6 DEF z, e

LEMMA TrailByLead == TrailTellsStage <=> (~overlapped => \A k \in Keys : Leads(trail[k], stage[k]))
BY DEF TrailTellsStage, Leads

LEMMA TrailNext == TypeOK /\ AloneInv /\ TrailTellsStage /\ [Next]_vars => TrailTellsStage'
<1> SUFFICES ASSUME TypeOK, AloneInv, TrailTellsStage, [Next]_vars, ~overlapped',
                    NEW k \in Keys
             PROVE  Leads(trail'[k], stage'[k])
  BY DEF TrailTellsStage, Leads
<1>1. ~overlapped /\ Leads(trail[k], stage[k])
  BY OverlapStays, TrailByLead
<1>2. CASE Unmoved
  BY <1>1, <1>2 DEF Unmoved
<1>3. ASSUME NEW p \in Processes, CommitMove(p) PROVE Leads(trail'[k], stage'[k])
  <2> DEFINE r == handler[p]
  <2>1. /\ r.key \in Keys /\ r.from \in Stages /\ r.to \in Stages /\ stage[r.key] = r.from
        /\ stage' = [stage EXCEPT ![r.key] = r.to]
        /\ trail' = [trail EXCEPT ![r.key] = IF r.to = r.from THEN trail[r.key]
                       ELSE Append(trail[r.key], [from |-> r.from, to |-> r.to])]
    BY <1>1, <1>3, MoveAlone
  <2>2. CASE k # r.key
    BY <1>1, <2>1, <2>2 DEF TypeOK
  <2>3. CASE k = r.key /\ r.to = r.from
    BY <1>1, <2>1, <2>3 DEF TypeOK
  <2>4. CASE k = r.key /\ r.to # r.from
    <3>1. stage'[k] = r.to /\ trail'[k] = Append(trail[k], [from |-> stage[k], to |-> r.to])
      BY <2>1, <2>4 DEF TypeOK
    <3>2. trail[k] \in Seq(Change) /\ stage[k] \in Stages
      BY DEF TypeOK
    <3>3. QED
      BY <1>1, <2>1, <3>1, <3>2, OneMoveMore
  <2>5. QED
    BY <2>2, <2>3, <2>4
<1>4. QED
  BY <1>2, <1>3, MoveOrNot

\* As long as requests do not overlap, the log of a lead leads from New to where
\* it is now.
THEOREM TrailCorrect == Spec => []TrailTellsStage
<1>1. Init => TypeOK /\ AloneInv /\ TrailTellsStage
  <2>1. Init => \A k \in Keys : Leads(trail[k], stage[k])
    BY DEF Init, Leads
  <2>2. QED
    BY <2>1, InitType, AloneInit, TrailByLead
<1>2. TypeOK /\ AloneInv /\ TrailTellsStage /\ [Next]_vars
        => (TypeOK /\ AloneInv /\ TrailTellsStage)'
  BY NextType, AloneNext, TrailNext
<1>3. QED
  BY <1>1, <1>2, PTL DEF Spec

-----------------------------------------------------------------------------
(* Owners *)

LEMMA OwnersNext ==
  ASSUME TypeOK, AloneInv, [Next]_vars, NEW k \in Keys,
         owner[k] \in Telecallers, owner'[k] # owner[k], ~overlapped
  PROVE  \E p \in Processes : handler[p].op = "edit" /\ handler[p].key = k
<1>0. None \notin Telecallers /\ Absent \notin Telecallers
  BY LeadAssumption DEF Users
<1>1. owner' # owner
  OBVIOUS
<1>2. PICK p \in Processes : CommitInsert(p) \/ CommitFill(p) \/ CommitEdit(p)
  BY <1>1, Steps DEF Reading, SetActive, lead, vars, Commit, LoseInsert, CommitMove
<1> DEFINE r == handler[p]
<1>3. CASE CommitInsert(p)
  <2>1. r.key \in Keys /\ owner[r.key] = Absent /\ owner' = [owner EXCEPT ![r.key] = r.owner]
    BY <1>3, HeldType DEF CommitInsert, Insert, Row, Assign
  <2>2. QED
    BY <1>0, <2>1 DEF TypeOK
<1>4. CASE CommitFill(p)
  <2>1. r.key \in Keys /\ owner[r.key] = None
    BY <1>4, HeldType DEF CommitFill, Fill, AloneInv, Seen
  <2>2. owner' = [owner EXCEPT ![r.key] = r.owner]
    BY <1>1, <1>4 DEF CommitFill, Assign
  <2>3. QED
    BY <1>0, <2>1, <2>2 DEF TypeOK
<1>5. CASE CommitEdit(p)
  <2>1. r.op = "edit" /\ owner' = [owner EXCEPT ![r.key] = r.owner]
    BY <1>1, <1>5 DEF CommitEdit, Assign
  <2>2. r.key = k
    BY <2>1 DEF TypeOK
  <2>3. QED
    BY <2>1, <2>2
<1>6. QED
  BY <1>2, <1>3, <1>4, <1>5

\* Assignment is sticky: only an explicit edit takes a lead from its owner.
THEOREM OwnersCorrect == Spec => OwnersStick
<1>1. Init => TypeOK /\ AloneInv
  BY InitType, AloneInit
<1>2. TypeOK /\ AloneInv /\ [Next]_vars => (TypeOK /\ AloneInv)'
  BY NextType, AloneNext
<1>3. TypeOK /\ AloneInv /\ [Next]_vars
        => [\A k \in Keys : owner[k] \in Telecallers /\ owner'[k] # owner[k] =>
              overlapped \/ \E p \in Processes : handler[p].op = "edit" /\ handler[p].key = k]_vars
  BY OwnersNext
<1>4. QED
  BY <1>1, <1>2, <1>3, PTL DEF Spec, OwnersStick

-----------------------------------------------------------------------------
(* Who is told *)

\* Who is to be told of an insert is who it will give the lead to.
TellsOwner == \A p \in Processes : handler[p].op = "insert" => handler[p].tell \in {None, handler[p].owner}

LEMMA TellsOwnerNext == TypeOK /\ TellsOwner /\ [Next]_vars => TellsOwner'
<1> SUFFICES ASSUME TypeOK, TellsOwner, [Next]_vars PROVE TellsOwner'
  OBVIOUS
<1>1. ASSUME NEW p \in Processes, NEW r \in Requests, Hold(p, r), Fresh(r) PROVE TellsOwner'
  BY <1>1 DEF Hold, Fresh, TellsOwner, TypeOK
<1>2. ASSUME NEW p \in Processes, Done(p) PROVE TellsOwner'
  BY <1>2 DEF Done, TellsOwner, TypeOK, Idle
<1>3. CASE UNCHANGED handler
  BY <1>3 DEF TellsOwner
<1>4. QED
  BY <1>1, <1>2, <1>3, Steps
     DEF Reading, Commit, CommitInsert, LoseInsert, CommitFill, CommitMove, CommitEdit, SetActive, vars

LEMMA ToldNext ==
  ASSUME TypeOK, TellsOwner, [Next]_vars, NEW k \in Keys
  PROVE  told'[k] \ told[k] \subseteq {owner'[k]}
<1> SUFFICES ASSUME told' # told PROVE told'[k] \ told[k] \subseteq {owner'[k]}
  OBVIOUS
<1>1. PICK p \in Processes : CommitInsert(p) \/ CommitEdit(p)
  BY Steps DEF Reading, SetActive, sent, vars, Commit, LoseInsert, CommitFill, CommitMove
<1> DEFINE r == handler[p]
<1>2. CASE CommitInsert(p)
  <2>1. r \in Insert /\ r.key \in Keys /\ r.tell \in {None, r.owner}
    BY <1>2, HeldType DEF CommitInsert, Insert, TellsOwner
  <2>2. Push(r.key, r.tell) /\ Assign(r.key, r.owner)
    BY <1>2 DEF CommitInsert, sent
  <2>3. QED
    BY <2>1, <2>2 DEF Push, Assign, TypeOK
<1>3. CASE CommitEdit(p)
  <2>1. r.key \in Keys
    BY <1>3, HeldType DEF CommitEdit, Edit
  <2>2. Push(r.key, r.owner) /\ Assign(r.key, r.owner)
    BY <1>3 DEF CommitEdit
  <2>3. QED
    BY <2>1, <2>2 DEF Push, Assign, TypeOK
<1>4. QED
  BY <1>1, <1>2, <1>3

\* Nobody is told of a lead that did not become his: the loser of an insert race
\* pushes nothing.
THEOREM ToldCorrect == Spec => ToldOnlyOwners
<1>1. Init => TypeOK /\ TellsOwner
  <2>1. Init => TellsOwner
    BY DEF Init, TellsOwner, Idle
  <2>2. QED
    BY <2>1, InitType
<1>2. TypeOK /\ TellsOwner /\ [Next]_vars => (TypeOK /\ TellsOwner)'
  BY NextType, TellsOwnerNext
<1>3. TypeOK /\ TellsOwner /\ [Next]_vars
        => [\A k \in Keys : told'[k] \ told[k] \subseteq {owner'[k]}]_vars
  BY ToldNext
<1>4. QED
  BY <1>1, <1>2, <1>3, PTL DEF Spec, ToldOnlyOwners

=============================================================================
