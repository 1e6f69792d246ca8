--------------------------- MODULE AttendanceProofs ---------------------------
(***************************************************************************)
(* Proofs about Accounts and Attendance together, for any number of        *)
(* accounts, addresses, organisations, devices and requests in flight, any *)
(* length of a day and of the longest shift.                               *)
(***************************************************************************)
EXTENDS Attendance, TLAPS

-----------------------------------------------------------------------------
(* Days *)

\* A later instant is on the same day or a later one.
LEMMA DayMonotone ==
  ASSUME NEW a \in Nat, NEW b \in Nat, a <= b
  PROVE  DayOf(a) \in Nat /\ DayOf(b) \in Nat /\ DayOf(a) <= DayOf(b)
<1> DEFINE k == DayLength
<1>0. k \in Nat /\ k > 0
  BY AttendanceAssumption
<1> HIDE DEF k
<1>1. PICK q \in Nat, r \in Nat : a = k * q + r /\ r < k /\ q = a \div k
  BY <1>0
<1>2. PICK p \in Nat, t \in Nat : b = k * p + t /\ t < k /\ p = b \div k
  BY <1>0
<1>3. q <= p
  <2> SUFFICES ASSUME q >= p + 1 PROVE FALSE
    OBVIOUS
  <2>1. k * q >= k * (p + 1)
    BY <1>0
  <2>2. k * (p + 1) = k * p + k
    BY <1>0
  <2> QED
    BY <1>0, <1>1, <1>2, <2>1, <2>2
<1> QED
  BY <1>1, <1>2, <1>3 DEF DayOf, k

LEMMA TodayIsDay ==
  ASSUME TypeOK
  PROVE  Today \in Days
<1>1. clock \in Nat /\ Horizon \in Nat /\ clock <= Horizon
  BY AttendanceAssumption DEF TypeOK, Time
<1>2. DayOf(clock) \in Nat /\ DayOf(Horizon) \in Nat /\ DayOf(clock) <= DayOf(Horizon)
  BY <1>1, DayMonotone
<1> HIDE DEF DayOf
<1> QED
  BY <1>2 DEF Today, Days

-----------------------------------------------------------------------------
(* Typing *)

Request == {Idle} \cup In \cup New \cup Looked
Shift   == [in : Time \cup {None}, out : Time \cup {None}]

\* A request in flight is the one its step says.
LEMMA RequestType ==
  ASSUME TypeOK, NEW s \in Slots
  PROVE  /\ request[s].step = "in" => request[s] \in In
         /\ request[s].step \in {"invite", "register"} => request[s] \in New
         /\ request[s].step = "check in" => request[s] \in Looked
<1>0. request[s] \in {Idle} \cup In \cup New \cup Looked
  BY DEF TypeOK
<1>1. request[s] = Idle => request[s].step = "idle"
  BY DEF Idle
<1>2. request[s] \in In => request[s].step = "in"
  BY DEF In
<1>3. request[s] \in New => request[s].step \in {"invite", "register"}
  BY DEF New
<1>4. request[s] \in Looked => request[s].step = "check in"
  BY DEF Looked
<1> HIDE DEF TypeOK
<1> QED
  BY <1>0, <1>1, <1>2, <1>3, <1>4, Zenon

LEMMA HoldType ==
  ASSUME TypeOK, NEW s \in Slots, NEW x \in Request, Hold(s, x)
  PROVE  request' \in [Slots -> Request]
BY DEF TypeOK, Hold, Request

LEMMA FinishType ==
  ASSUME TypeOK, NEW s \in Slots, Finish(s)
  PROVE  request' \in [Slots -> Request] /\ served' \in 0 .. MaxRequests
BY DEF TypeOK, AccountTypeOK, Finish, Hold, Request

LEMMA AdmitType ==
  ASSUME TypeOK, NEW s \in Slots, Admit(s)
  PROVE  served' \in 0 .. MaxRequests
<1>1. MaxRequests \in Nat
  BY AccountsAssumption
<1> QED
  BY <1>1 DEF TypeOK, AccountTypeOK, Admit

\* One row's check-out is written, and no other row.
LEMMA OutType ==
  ASSUME TypeOK, NEW u \in Users, NEW d \in Days, NEW t \in Time, Out(u, d, t)
  PROVE  /\ shift' \in [Users -> [Days -> Shift]]
         /\ \A v \in Users, e \in Days :
              shift'[v][e] = IF v = u /\ e = d THEN [in |-> shift[u][d].in, out |-> t]
                             ELSE shift[v][e]
<1>1. shift \in [Users -> [Days -> Shift]]
  BY DEF TypeOK, Shift
<1>2. shift[u] \in [Days -> Shift] /\ shift[u][d] \in Shift
  BY <1>1
<1>3. PICK x : x = [shift[u][d] EXCEPT !.out = t]
  OBVIOUS
<1>4. x = [in |-> shift[u][d].in, out |-> t]
  BY <1>2, <1>3 DEF Shift
<1>5. x \in Shift
  BY <1>2, <1>4 DEF Shift
<1>6. PICK f : f = [shift[u] EXCEPT ![d] = x]
  OBVIOUS
<1>7. f \in [Days -> Shift] /\ \A e \in Days : f[e] = IF e = d THEN x ELSE shift[u][e]
  BY <1>2, <1>5, <1>6
<1>8. shift' = [shift EXCEPT ![u] = f]
  BY <1>3, <1>6, Zenon DEF Out
<1> QED
  BY <1>1, <1>4, <1>7, <1>8

LEMMA InitType == Init => TypeOK
<1> SUFFICES ASSUME Init PROVE TypeOK
  OBVIOUS
<1>1. AccountTypeOK
  <2>1. MaxRequests \in Nat
    BY AccountsAssumption
  <2>2. role \in [Users -> Roles \cup {None}]
    BY DEF Init, AccountsInit, Roles
  <2>3. org \in [Users -> Orgs \cup {None}] /\ email \in [Users -> Emails \cup {None}]
    BY DEF Init, AccountsInit
  <2>4. active \in [Users -> BOOLEAN] /\ issued \in [Users -> BOOLEAN]
    BY DEF Init, AccountsInit
  <2> QED
    BY <2>1, <2>2, <2>3, <2>4 DEF Init, AccountsInit, AccountTypeOK
<1>2. clock \in Time
  BY AttendanceAssumption DEF Init, Time
<1>3. shift \in [Users -> [Days -> Shift]]
  BY DEF Init, NoRow, Shift
<1> QED
  BY <1>1, <1>2, <1>3 DEF Init, AccountsInit, TypeOK, Shift

-----------------------------------------------------------------------------
(* What is true of the accounts *)

Making(s) == request[s].step \in {"invite", "register"}

\* A caller has an account and an account has an organisation; an account being
\* made does not exist yet and is being made by one request; an address that
\* was answered is some account's.
AccountInv ==
  /\ \A u \in Users : Exists(u) => org[u] \in Orgs
  /\ \A u \in Users : ~Exists(u) => email[u] = None
  /\ \A s \in Slots : Serving(s) => Exists(request[s].actor)
  /\ \A s \in Slots : Making(s) => ~Exists(request[s].user)
  /\ \A s, t \in Slots : Making(s) /\ Making(t) /\ request[s].user = request[t].user => s = t
  /\ \A e \in Emails : made[e] <= 1 /\ (~Taken(e) => made[e] = 0)

\* The fields of a request in flight.
LEMMA FieldTypes ==
  ASSUME TypeOK, NEW s \in Slots
  PROVE  /\ Serving(s) => request[s].actor \in Users /\ request[s].as \in Roles
         /\ Making(s) => /\ request[s].user \in Users /\ request[s].email \in Emails
                         /\ request[s].org \in Orgs /\ request[s].role \in Roles
         /\ request[s].step = "check in" =>
              request[s].actor \in Users /\ request[s].day \in Days /\ request[s].at \in Time
<1>1. /\ Serving(s) => request[s] \in In
      /\ Making(s) => request[s] \in New
      /\ request[s].step = "check in" => request[s] \in Looked
  BY RequestType, Zenon DEF Serving, Making
<1>2. request[s] \in In => request[s].actor \in Users /\ request[s].as \in Roles
  BY DEF In
<1>3. request[s] \in New => /\ request[s].user \in Users /\ request[s].email \in Emails
                            /\ request[s].org \in Orgs /\ request[s].role \in Roles
  BY DEF New
<1>4. request[s] \in Looked =>
        request[s].actor \in Users /\ request[s].day \in Days /\ request[s].at \in Time
  BY DEF Looked
<1> QED
  BY <1>1, <1>2, <1>3, <1>4, Zenon

LEMMA HoldAt ==
  ASSUME TypeOK, NEW s \in Slots, NEW x, Hold(s, x)
  PROVE  \A t \in Slots : request'[t] = IF t = s THEN x ELSE request[t]
BY DEF TypeOK, Hold

\* A step that makes no account and holds none back keeps it all.
LEMMA AccountsKept ==
  ASSUME TypeOK, AccountInv, NEW s \in Slots, NEW x, Hold(s, x),
         x.step \notin {"invite", "register"},
         x.step = "in" => x.actor \in Users /\ Exists(x.actor),
         email' = email, made' = made, org' = org,
         \A u \in Users : Exists(u)' <=> Exists(u)
  PROVE  AccountInv'
<1>0. \A t \in Slots : request'[t] = IF t = s THEN x ELSE request[t]
  BY HoldAt
<1>f. \A t \in Slots : /\ Serving(t) => request[t].actor \in Users
                       /\ Making(t) => request[t].user \in Users
  BY FieldTypes
<1>1. \A u \in Users : Exists(u)' => org'[u] \in Orgs
  BY DEF AccountInv
<1>2. \A u \in Users : ~Exists(u)' => email'[u] = None
  BY DEF AccountInv
<1>3. \A t \in Slots : Serving(t)' => Exists(request[t].actor)'
  <2> SUFFICES ASSUME NEW t \in Slots, request'[t].step = "in" PROVE Exists(request[t].actor)'
    BY DEF Serving
  <2>1. CASE t = s
    <3>1. request'[t] = x
      BY <1>0, <2>1
    <3>2. x.actor \in Users /\ Exists(x.actor)
      BY <3>1
    <3>3. Exists(x.actor)'
      BY <3>2
    <3> QED
      BY <3>1, <3>3 DEF Exists
  <2>2. CASE t # s
    <3>1. request'[t] = request[t]
      BY <1>0, <2>2
    <3>2. Serving(t)
      BY <3>1 DEF Serving
    <3>u. request[t].actor \in Users
      BY <3>2, <1>f, Zenon
    <3>3. PICK a \in Users : a = request[t].actor
      BY <3>u, Zenon
    <3>4. Exists(a)'
      BY <3>2, <3>3 DEF AccountInv
    <3> QED
      BY <3>1, <3>3, <3>4 DEF Exists
  <2> QED
    BY <2>1, <2>2
<1>4. \A t \in Slots : Making(t)' => Making(t) /\ request'[t] = request[t]
  BY <1>0 DEF Making
<1>5. \A t \in Slots : Making(t)' => ~Exists(request[t].user)'
  <2> SUFFICES ASSUME NEW t \in Slots, Making(t)' PROVE ~Exists(request[t].user)'
    OBVIOUS
  <2>1. Making(t) /\ request'[t] = request[t]
    BY <1>4
  <2>u. request[t].user \in Users
    BY <2>1, <1>f, Zenon
  <2>2. PICK a \in Users : a = request[t].user
    BY <2>u, Zenon
  <2>3. ~Exists(a)'
    BY <2>1, <2>2 DEF AccountInv
  <2> QED
    BY <2>1, <2>2, <2>3 DEF Exists
<1>6. \A t, r \in Slots : Making(t)' /\ Making(r)' /\ request'[t].user = request'[r].user => t = r
  BY <1>4 DEF AccountInv
<1>7. \A e \in Emails : made'[e] <= 1 /\ (~Taken(e)' => made'[e] = 0)
  BY DEF AccountInv, Taken
<1> QED
  BY <1>1, <1>2, <1>3, <1>5, <1>6, <1>7 DEF AccountInv

LEMMA AccountTypeKept ==
  ASSUME TypeOK, UNCHANGED account, made' = made, served' \in 0 .. MaxRequests
  PROVE  AccountTypeOK'
BY DEF TypeOK, AccountTypeOK, account

LEMMA AuthorizeStep ==
  ASSUME TypeOK, AccountInv, NEW s \in Slots, NEW u \in Users, Authorize(s, u)
  PROVE  AccountTypeOK' /\ request' \in [Slots -> Request] /\ AccountInv'
<1>1. PICK x : x = [step |-> "in", actor |-> u, as |-> role[u]]
  OBVIOUS
<1>2. Hold(s, x) /\ Admit(s) /\ Exists(u) /\ UNCHANGED account /\ made' = made
  BY <1>1, Zenon DEF Authorize
<1>3. role[u] \in Roles
  BY <1>2 DEF TypeOK, AccountTypeOK, Exists
<1>4. x \in In /\ x.step = "in" /\ x.actor = u
  BY <1>1, <1>3 DEF In
<1>5. AccountTypeOK'
  BY <1>2, AdmitType, AccountTypeKept
<1>6. request' \in [Slots -> Request]
  BY <1>2, <1>4, HoldType DEF Request
<1>7. AccountInv'
  <2>1. email' = email /\ org' = org /\ role' = role
    BY <1>2 DEF account
  <2>2. \A v \in Users : Exists(v)' <=> Exists(v)
    BY <2>1 DEF Exists
  <2> QED
    BY <1>2, <1>4, <2>1, <2>2, AccountsKept
<1> QED
  BY <1>5, <1>6, <1>7

\* A refusal, and every step of a shift, leaves the accounts as they are.
LEMMA FinishStep ==
  ASSUME TypeOK, AccountInv, NEW s \in Slots, Finish(s), UNCHANGED account, made' = made
  PROVE  AccountTypeOK' /\ request' \in [Slots -> Request] /\ AccountInv'
<1>1. request' \in [Slots -> Request] /\ served' \in 0 .. MaxRequests
  BY FinishType
<1>2. Hold(s, Idle) /\ Idle.step = "idle"
  BY DEF Finish, Idle
<1>3. email' = email /\ org' = org /\ role' = role
  BY DEF account
<1>4. \A v \in Users : Exists(v)' <=> Exists(v)
  BY <1>3 DEF Exists
<1> QED
  BY <1>1, <1>2, <1>3, <1>4, AccountsKept, AccountTypeKept

LEMMA BoolAt ==
  ASSUME NEW f \in [Users -> BOOLEAN], NEW v \in Users, NEW b \in BOOLEAN
  PROVE  [f EXCEPT ![v] = b] \in [Users -> BOOLEAN]
OBVIOUS

\* A step that writes one member's row and neither makes nor removes one.
LEMMA MemberStep ==
  ASSUME TypeOK, AccountInv, NEW s \in Slots, Finish(s),
         role' \in [Users -> Roles \cup {None}], \A u \in Users : Exists(u)' <=> Exists(u),
         active' \in [Users -> BOOLEAN], issued' \in [Users -> BOOLEAN],
         device' \in [Users -> Devices \cup {None}],
         org' = org, email' = email, made' = made
  PROVE  AccountTypeOK' /\ request' \in [Slots -> Request] /\ AccountInv'
<1>1. request' \in [Slots -> Request] /\ served' \in 0 .. MaxRequests
  BY FinishType
<1>2. Hold(s, Idle) /\ Idle.step = "idle"
  BY DEF Finish, Idle
<1>3. AccountInv'
  BY <1>2, AccountsKept
<1>4. AccountTypeOK'
  BY <1>1 DEF TypeOK, AccountTypeOK
<1> QED
  BY <1>1, <1>3, <1>4

LEMMA ResetStep ==
  ASSUME TypeOK, AccountInv, NEW s \in Slots, NEW v \in Users, ResetPassword(s, v)
  PROVE  AccountTypeOK' /\ request' \in [Slots -> Request] /\ AccountInv'
<1>1. issued' = [issued EXCEPT ![v] = TRUE] /\ Finish(s) /\ UNCHANGED <<role, org, email, active, device, made>>
  BY Zenon DEF ResetPassword
<1>2. issued' \in [Users -> BOOLEAN]
  BY <1>1, BoolAt DEF TypeOK, AccountTypeOK
<1>3. \A u \in Users : Exists(u)' <=> Exists(u)
  BY <1>1 DEF Exists
<1>4. /\ role' \in [Users -> Roles \cup {None}] /\ active' \in [Users -> BOOLEAN]
      /\ device' \in [Users -> Devices \cup {None}]
  BY <1>1 DEF TypeOK, AccountTypeOK
<1> QED
  BY <1>1, <1>2, <1>3, <1>4, MemberStep

LEMMA ChangeStep ==
  ASSUME TypeOK, AccountInv, NEW s \in Slots, ChangePassword(s)
  PROVE  AccountTypeOK' /\ request' \in [Slots -> Request] /\ AccountInv'
<1>1. /\ issued' = [issued EXCEPT ![request[s].actor] = FALSE] /\ Finish(s)
      /\ UNCHANGED <<role, org, email, active, device, made>>
  BY Zenon DEF ChangePassword
<1>0. request[s].actor \in Users
  BY FieldTypes, Zenon DEF ChangePassword
<1>2. issued' \in [Users -> BOOLEAN]
  BY <1>0, <1>1, BoolAt DEF TypeOK, AccountTypeOK
<1>3. \A u \in Users : Exists(u)' <=> Exists(u)
  BY <1>1 DEF Exists
<1>4. /\ role' \in [Users -> Roles \cup {None}] /\ active' \in [Users -> BOOLEAN]
      /\ device' \in [Users -> Devices \cup {None}]
  BY <1>1 DEF TypeOK, AccountTypeOK
<1> QED
  BY <1>1, <1>2, <1>3, <1>4, MemberStep

LEMMA DeviceStep ==
  ASSUME TypeOK, AccountInv, NEW s \in Slots, NEW d \in Devices, RegisterDevice(s, d)
  PROVE  AccountTypeOK' /\ request' \in [Slots -> Request] /\ AccountInv'
<1>1. /\ device' = [device EXCEPT ![request[s].actor] = d] /\ Finish(s)
      /\ UNCHANGED <<role, org, email, active, issued, made>>
  BY Zenon DEF RegisterDevice
<1>0. request[s].actor \in Users
  BY FieldTypes, Zenon DEF RegisterDevice
<1>3. \A u \in Users : Exists(u)' <=> Exists(u)
  BY <1>1 DEF Exists
<1>4. /\ role' \in [Users -> Roles \cup {None}] /\ active' \in [Users -> BOOLEAN]
      /\ issued' \in [Users -> BOOLEAN] /\ device' \in [Users -> Devices \cup {None}]
  BY <1>0, <1>1 DEF TypeOK, AccountTypeOK
<1> QED
  BY <1>1, <1>3, <1>4, MemberStep

LEMMA UpdateStep ==
  ASSUME TypeOK, AccountInv, NEW s \in Slots, NEW v \in Users, NEW r \in Roles \cup {None},
         NEW on \in {"same", "on", "off"}, UpdateMember(s, v, r, on)
  PROVE  AccountTypeOK' /\ request' \in [Slots -> Request] /\ AccountInv'
<1>1. PICK x : x = IF r \in {None, SeenRole(s, v)} THEN role[v] ELSE r
  OBVIOUS
<1>2. PICK b : b = IF on = "same" \/ v = request[s].actor THEN active[v] ELSE on = "on"
  OBVIOUS
<1>3. /\ role' = [role EXCEPT ![v] = x] /\ active' = [active EXCEPT ![v] = b]
      /\ Finish(s) /\ Colleague(s, v) /\ UNCHANGED <<org, email, issued, device, made>>
  BY <1>1, <1>2, Zenon DEF UpdateMember
<1>4. role[v] \in Roles /\ None \notin Roles
  BY <1>3, AccountsAssumption DEF TypeOK, AccountTypeOK, Colleague, Exists
<1>5. x \in Roles /\ x # None
  BY <1>1, <1>4, Zenon
<1>6. b \in BOOLEAN
  <2>1. active[v] \in BOOLEAN
    BY DEF TypeOK, AccountTypeOK
  <2>2. (on = "on") \in BOOLEAN
    OBVIOUS
  <2> QED
    BY <1>2, <2>1, <2>2, Zenon
<1>7. active' \in [Users -> BOOLEAN]
  BY <1>3, <1>6, BoolAt DEF TypeOK, AccountTypeOK
<1>8. role' \in [Users -> Roles \cup {None}] /\ \A u \in Users : Exists(u)' <=> Exists(u)
  BY <1>3, <1>4, <1>5 DEF TypeOK, AccountTypeOK, Exists
<1>9. issued' \in [Users -> BOOLEAN] /\ device' \in [Users -> Devices \cup {None}]
  BY <1>3 DEF TypeOK, AccountTypeOK
<1> QED
  BY <1>3, <1>7, <1>8, <1>9, MemberStep

\* A new account is held back for one request that makes it.
LEMMA PendingStep ==
  ASSUME TypeOK, AccountInv, NEW s \in Slots, NEW x \in New, Hold(s, x), Fresh(x.user),
         UNCHANGED account, made' = made, served' \in 0 .. MaxRequests
  PROVE  AccountTypeOK' /\ request' \in [Slots -> Request] /\ AccountInv'
<1>0. /\ \A t \in Slots : request'[t] = IF t = s THEN x ELSE request[t]
      /\ x.step \in {"invite", "register"} /\ x.user \in Users
  BY HoldAt DEF New
<1>1. request' \in [Slots -> Request] /\ AccountTypeOK'
  BY HoldType, AccountTypeKept DEF Request
<1>2. role' = role /\ org' = org /\ email' = email
  BY DEF account
<1>3. \A u \in Users : /\ Exists(u)' => org'[u] \in Orgs
                       /\ ~Exists(u)' => email'[u] = None
  BY <1>2 DEF AccountInv, Exists
<1>4. \A t \in Slots : Serving(t)' => Exists(request[t].actor)'
  <2> SUFFICES ASSUME NEW t \in Slots, request'[t].step = "in" PROVE Exists(request[t].actor)'
    BY DEF Serving
  <2>1. request'[t] = request[t]
    BY <1>0
  <2>2. Exists(request[t].actor)
    BY <2>1 DEF AccountInv, Serving
  <2> QED
    BY <1>2, <2>1, <2>2 DEF Exists
<1>5. \A t \in Slots : t # s /\ Making(t) => ~Exists(request[t].user) /\ request[t].user # x.user
  BY DEF AccountInv, Fresh, Pending, Making
<1>6. \A t \in Slots : /\ t # s => (Making(t)' <=> Making(t)) /\ request'[t] = request[t]
                       /\ t = s => Making(t)' /\ request'[t] = x
  BY <1>0 DEF Making
<1>7. \A t \in Slots : Making(t)' => ~Exists(request[t].user)'
  <2> SUFFICES ASSUME NEW t \in Slots, Making(t)' PROVE role'[request'[t].user] = None
    BY DEF Exists
  <2>1. CASE t = s
    BY <1>2, <1>6, <2>1 DEF Fresh, Exists
  <2>2. CASE t # s
    BY <1>2, <1>5, <1>6, <2>2 DEF Exists
  <2> QED
    BY <2>1, <2>2
<1>8. \A t, r \in Slots : Making(t)' /\ Making(r)' /\ request'[t].user = request'[r].user => t = r
  <2> SUFFICES ASSUME NEW t \in Slots, NEW r \in Slots, Making(t)', Making(r)',
                      request'[t].user = request'[r].user
               PROVE  t = r
    OBVIOUS
  <2>1. CASE t # s /\ r # s
    BY <1>6, <2>1 DEF AccountInv
  <2>2. CASE t = s \/ r = s
    BY <1>5, <1>6, <2>2
  <2> QED
    BY <2>1, <2>2
<1>9. \A e \in Emails : made'[e] <= 1 /\ (~Taken(e)' => made'[e] = 0)
  BY <1>2 DEF AccountInv, Taken
<1> QED
  BY <1>1, <1>3, <1>4, <1>7, <1>8, <1>9 DEF AccountInv

LEMMA RegisterStep ==
  ASSUME TypeOK, AccountInv, NEW s \in Slots, NEW u \in Users, NEW e \in Emails, NEW o \in Orgs,
         RegisterRead(s, u, e, o)
  PROVE  AccountTypeOK' /\ request' \in [Slots -> Request] /\ AccountInv'
<1>1. PICK x : x = [step |-> "register", user |-> u, email |-> e, org |-> o, role |-> "founder"]
  OBVIOUS
<1>2. x \in New /\ x.user = u
  BY <1>1 DEF New, Roles
<1>3. Hold(s, x) /\ Fresh(u) /\ Admit(s) /\ UNCHANGED account /\ made' = made
  BY <1>1, Zenon DEF RegisterRead
<1> QED
  BY <1>2, <1>3, AdmitType, PendingStep

LEMMA InviteStep ==
  ASSUME TypeOK, AccountInv, NEW s \in Slots, NEW u \in Users, NEW e \in Emails, NEW r \in Roles,
         InviteRead(s, u, e, r)
  PROVE  AccountTypeOK' /\ request' \in [Slots -> Request] /\ AccountInv'
<1>0. PICK o : o = org[request[s].actor]
  OBVIOUS
<1>1. PICK x : x = [step |-> "invite", user |-> u, email |-> e, org |-> o, role |-> r]
  OBVIOUS
<1>3. /\ Hold(s, x) /\ Fresh(u) /\ Serving(s) /\ UNCHANGED account
      /\ made' = made /\ served' = served
  BY <1>0, <1>1, Zenon DEF InviteRead, ServingManager
<1>4. o \in Orgs
  <2>1. request[s].actor \in Users
    BY <1>3, FieldTypes, Zenon
  <2> QED
    BY <1>0, <1>3, <2>1, Zenon DEF AccountInv
<1>2. x \in New /\ x.user = u
  BY <1>1, <1>4 DEF New
<1>5. served' \in 0 .. MaxRequests
  BY <1>3 DEF TypeOK, AccountTypeOK
<1> QED
  BY <1>2, <1>3, <1>5, PendingStep

LEMMA CommitStep ==
  ASSUME TypeOK, AccountInv, NEW s \in Slots, CommitNew(s)
  PROVE  AccountTypeOK' /\ request' \in [Slots -> Request] /\ AccountInv'
<1>1. PICK x : x = request[s]
  OBVIOUS
<1>2. PICK b : b = (x.step = "invite")
  OBVIOUS
<1>3. /\ x.step \in {"invite", "register"} /\ ~Taken(x.email)
      /\ role' = [role EXCEPT ![x.user] = x.role]
      /\ org' = [org EXCEPT ![x.user] = x.org]
      /\ email' = [email EXCEPT ![x.user] = x.email]
      /\ active' = [active EXCEPT ![x.user] = TRUE]
      /\ issued' = [issued EXCEPT ![x.user] = b]
      /\ Finish(s) /\ device' = device
  BY <1>1, <1>2, Zenon DEF CommitNew
<1>4. made' = [made EXCEPT ![x.email] = made[x.email] + 1]
  BY <1>1, Zenon DEF CommitNew
<1>5. /\ x.user \in Users /\ x.email \in Emails /\ x.org \in Orgs /\ x.role \in Roles
      /\ Making(s)
  BY <1>1, <1>3, FieldTypes, Zenon DEF Making
<1>6. b \in BOOLEAN
  BY <1>2
<1>7. /\ made \in [Emails -> Nat] /\ made[x.email] = 0 /\ None \notin Roles \cup Emails
      /\ role \in [Users -> Roles \cup {None}] /\ org \in [Users -> Orgs \cup {None}]
      /\ email \in [Users -> Emails \cup {None}]
  BY <1>3, <1>5, AccountsAssumption DEF TypeOK, AccountTypeOK, AccountInv
<1>8. request' \in [Slots -> Request] /\ served' \in 0 .. MaxRequests
  BY <1>3, FinishType
<1>9. AccountTypeOK'
  <2>1. active' \in [Users -> BOOLEAN] /\ issued' \in [Users -> BOOLEAN]
    BY <1>3, <1>5, <1>6, BoolAt DEF TypeOK, AccountTypeOK
  <2>2. /\ role' \in [Users -> Roles \cup {None}] /\ org' \in [Users -> Orgs \cup {None}]
        /\ email' \in [Users -> Emails \cup {None}] /\ made' \in [Emails -> Nat]
    BY <1>3, <1>4, <1>5, <1>7
  <2> QED
    BY <1>3, <1>8, <2>1, <2>2 DEF TypeOK, AccountTypeOK
<1>10. \A t \in Slots : request'[t] = IF t = s THEN Idle ELSE request[t]
  BY <1>3, HoldAt DEF Finish
<1>11. /\ \A u \in Users : /\ role'[u] = IF u = x.user THEN x.role ELSE role[u]
                           /\ org'[u] = IF u = x.user THEN x.org ELSE org[u]
                           /\ email'[u] = IF u = x.user THEN x.email ELSE email[u]
       /\ \A e \in Emails : made'[e] = IF e = x.email THEN 1 ELSE made[e]
  BY <1>3, <1>4, <1>5, <1>7
<1>12. ~Exists(x.user) /\ email[x.user] = None
  BY <1>1, <1>5 DEF AccountInv
<1>13. \A u \in Users : /\ Exists(u)' => org'[u] \in Orgs
                        /\ ~Exists(u)' => email'[u] = None
  BY <1>5, <1>7, <1>11 DEF AccountInv, Exists
<1>14. \A t \in Slots : Serving(t)' => Exists(request[t].actor)'
  <2> SUFFICES ASSUME NEW t \in Slots, Serving(t)' PROVE role'[request'[t].actor] # None
    BY DEF Exists
  <2>1. t # s /\ request'[t] = request[t] /\ Serving(t)
    BY <1>10 DEF Serving, Idle
  <2>2. request[t].actor \in Users /\ Exists(request[t].actor)
    BY <2>1, FieldTypes, Zenon DEF AccountInv
  <2> QED
    BY <1>5, <1>7, <1>11, <2>1, <2>2 DEF Exists
<1>15. \A t \in Slots : Making(t)' => t # s /\ Making(t) /\ request'[t] = request[t]
  BY <1>10 DEF Making, Idle
<1>16. \A t \in Slots : Making(t)' => ~Exists(request[t].user)'
  <2> SUFFICES ASSUME NEW t \in Slots, Making(t)' PROVE role'[request'[t].user] = None
    BY DEF Exists
  <2>1. t # s /\ Making(t) /\ request'[t] = request[t]
    BY <1>15
  <2>2. request[t].user \in Users
    BY <2>1, FieldTypes, Zenon
  <2>3. request[t].user # x.user /\ role[request[t].user] = None
    BY <1>1, <1>5, <2>1 DEF AccountInv, Exists
  <2> QED
    BY <1>11, <2>1, <2>2, <2>3
<1>17. \A t, r \in Slots : Making(t)' /\ Making(r)' /\ request'[t].user = request'[r].user => t = r
  BY <1>15 DEF AccountInv
<1>18. \A e \in Emails : made'[e] <= 1 /\ (~Taken(e)' => made'[e] = 0)
  <2> SUFFICES ASSUME NEW e \in Emails
               PROVE  made'[e] <= 1 /\ (~Taken(e)' => made'[e] = 0)
    OBVIOUS
  <2>1. CASE e = x.email
    BY <1>5, <1>11, <2>1 DEF Taken
  <2>2. CASE e # x.email
    <3>1. Taken(e) => Taken(e)'
      BY <1>7, <1>11, <1>12, <2>2 DEF Taken
    <3> QED
      BY <1>11, <2>2, <3>1 DEF AccountInv
  <2> QED
    BY <2>1, <2>2
<1> QED
  BY <1>8, <1>9, <1>13, <1>14, <1>16, <1>17, <1>18 DEF AccountInv

LEMMA AccountsStep ==
  ASSUME TypeOK, AccountInv, AccountsNext
  PROVE  AccountTypeOK' /\ request' \in [Slots -> Request] /\ AccountInv'
<1> DEFINE Goal == AccountTypeOK' /\ request' \in [Slots -> Request] /\ AccountInv'
<1>1. ASSUME NEW s \in Slots, NEW u \in Users, Authorize(s, u) PROVE Goal
  BY <1>1, AuthorizeStep
<1>2. ASSUME NEW s \in Slots, NEW u \in Users, NEW e \in Emails, NEW o \in Orgs,
             RegisterRead(s, u, e, o) PROVE Goal
  BY <1>2, RegisterStep
<1>3. ASSUME NEW s \in Slots, NEW u \in Users, NEW e \in Emails, NEW r \in Roles,
             InviteRead(s, u, e, r) PROVE Goal
  BY <1>3, InviteStep
<1>4. ASSUME NEW s \in Slots, CommitNew(s) PROVE Goal
  BY <1>4, CommitStep
<1>5. ASSUME NEW s \in Slots, LoseNew(s) PROVE Goal
  <2>1. Finish(s) /\ UNCHANGED account /\ made' = made
    BY <1>5, Zenon DEF LoseNew
  <2> QED
    BY <2>1, FinishStep
<1>6. ASSUME NEW s \in Slots, NEW v \in Users, ResetPassword(s, v) PROVE Goal
  BY <1>6, ResetStep
<1>7. ASSUME NEW s \in Slots, NEW v \in Users, NEW r \in Roles \cup {None},
             NEW on \in {"same", "on", "off"}, UpdateMember(s, v, r, on) PROVE Goal
  BY <1>7, UpdateStep
<1>8. ASSUME NEW s \in Slots, ChangePassword(s) PROVE Goal
  BY <1>8, ChangeStep
<1>9. ASSUME NEW s \in Slots, Answer(s) PROVE Goal
  <2>1. Finish(s) /\ UNCHANGED account /\ made' = made
    BY <1>9, Zenon DEF Answer
  <2> QED
    BY <2>1, FinishStep
<1>10. ASSUME NEW s \in Slots, NEW d \in Devices, RegisterDevice(s, d) PROVE Goal
  BY <1>10, DeviceStep
<1> HIDE DEF Goal
<1>11. Goal
  BY <1>1, <1>2, <1>3, <1>4, <1>5, <1>6, <1>7, <1>8, <1>9, <1>10, Zenon DEF AccountsNext
<1> QED
  BY <1>11 DEF Goal

-----------------------------------------------------------------------------
(* What is true of the shifts *)

\* A row is begun by one check-in and never in the future; it is ended and
\* corrected only once it is begun; what nobody corrected is honest.
RowOK(u, d) ==
  /\ begun[u][d] <= 1
  /\ ~Row(u, d) => begun[u][d] = 0 /\ shift[u][d].out = None
  /\ Row(u, d) => shift[u][d].in <= clock
  /\ fixed[u][d] => shift[u][d].out # None
  /\ shift[u][d].out # None /\ ~fixed[u][d] =>
       /\ shift[u][d].in <= shift[u][d].out
       /\ shift[u][d].out - shift[u][d].in <= MaxShift \/ DayOf(shift[u][d].out) = d

RowsOK == \A u \in Users, d \in Days : RowOK(u, d)

\* A check-in under way looked at the clock before now.
LookedInv == \A s \in Slots : request[s].step = "check in" => request[s].at <= clock

ShiftType ==
  /\ clock \in Time
  /\ shift \in [Users -> [Days -> Shift]]
  /\ fixed \in [Users -> [Days -> BOOLEAN]]
  /\ begun \in [Users -> [Days -> Nat]]

LEMMA TypeParts ==
  TypeOK <=> AccountTypeOK /\ request \in [Slots -> Request] /\ ShiftType
BY Zenon DEF TypeOK, ShiftType, Shift, Request

\* The fields of one row.
LEMMA RowTypes ==
  ASSUME ShiftType, NEW u \in Users, NEW d \in Days
  PROVE  /\ shift[u][d].in \in Nat \cup {None} /\ shift[u][d].out \in Nat \cup {None}
         /\ shift[u][d] = [in |-> shift[u][d].in, out |-> shift[u][d].out]
         /\ shift[u][d] \in Shift /\ begun[u][d] \in Nat /\ clock \in Nat
         /\ None \notin Nat /\ MaxShift \in Nat /\ fixed[u][d] \in BOOLEAN
<1>1. shift[u][d] \in Shift /\ clock \in Time /\ begun[u][d] \in Nat /\ fixed[u][d] \in BOOLEAN
  BY DEF ShiftType
<1>2. Horizon \in Nat /\ None \notin Nat /\ MaxShift \in Nat
  BY AttendanceAssumption
<1> QED
  BY <1>1, <1>2 DEF Shift, Time

\* Time passing leaves every row honest.
LEMMA LaterRows ==
  ASSUME ShiftType, RowsOK, shift' = shift, fixed' = fixed, begun' = begun,
         clock' \in Nat, clock <= clock'
  PROVE  RowsOK'
<1> SUFFICES ASSUME NEW u \in Users, NEW d \in Days PROVE RowOK(u, d)'
  BY DEF RowsOK
<1>1. RowOK(u, d)
  BY DEF RowsOK
<1>2. /\ shift[u][d].in \in Nat \cup {None} /\ clock \in Nat /\ None \notin Nat
  BY RowTypes
<1>3. Row(u, d) => shift[u][d].in <= clock'
  BY <1>1, <1>2 DEF RowOK, Row
<1> HIDE DEF DayOf
<1> QED
  BY <1>1, <1>3 DEF RowOK, Row

\* A step that writes one row leaves the others.
LEMMA OtherRows ==
  ASSUME ShiftType, RowsOK, NEW u \in Users, NEW d \in Days, clock' = clock, RowOK(u, d)',
         \A v \in Users, e \in Days : ~(v = u /\ e = d) =>
           /\ shift'[v][e] = shift[v][e] /\ fixed'[v][e] = fixed[v][e]
           /\ begun'[v][e] = begun[v][e]
  PROVE  RowsOK'
<1> SUFFICES ASSUME NEW v \in Users, NEW e \in Days, ~(v = u /\ e = d) PROVE RowOK(v, e)'
  BY DEF RowsOK
<1>1. RowOK(v, e)
  BY DEF RowsOK
<1>2. shift'[v][e] = shift[v][e] /\ fixed'[v][e] = fixed[v][e] /\ begun'[v][e] = begun[v][e]
  OBVIOUS
<1> HIDE DEF DayOf
<1> QED
  BY <1>1, <1>2 DEF RowOK, Row

LEMMA TimeIsNat == \A a \in Time : a \in Nat
BY AttendanceAssumption DEF Time

LEMMA Later == \A a, b, c \in Nat : a <= b /\ b <= c => a <= c
OBVIOUS

LEMMA LookedKept ==
  ASSUME TypeOK, LookedInv, NEW s \in Slots, NEW x, Hold(s, x),
         clock' \in Nat, clock <= clock',
         x.step = "check in" => x.at \in Nat /\ x.at <= clock'
  PROVE  LookedInv'
<1> SUFFICES ASSUME NEW t \in Slots, request'[t].step = "check in" PROVE request'[t].at <= clock'
  BY DEF LookedInv
<1>1. request'[t] = IF t = s THEN x ELSE request[t]
  BY HoldAt
<1>2. CASE t = s
  BY <1>1, <1>2
<1>3. CASE t # s
  <2>1. request'[t] = request[t] /\ request[t].step = "check in"
    BY <1>1, <1>3
  <2>2. PICK a : a = request'[t].at
    OBVIOUS
  <2>3. a \in Time /\ clock \in Time /\ a <= clock
    BY <2>1, <2>2, FieldTypes, Zenon DEF LookedInv, TypeOK
  <2>4. a \in Nat /\ clock \in Nat
    BY <2>3, TimeIsNat, Zenon
  <2>5. a <= clock'
    BY <2>3, <2>4, Later, Zenon
  <2> QED
    BY <2>2, <2>5, Zenon
<1> QED
  BY <1>2, <1>3

\* The accounts' own steps look at no clock.
LEMMA AccountsHold ==
  ASSUME AccountsNext
  PROVE  \E s \in Slots : \E x : Hold(s, x) /\ x.step # "check in"
<1> DEFINE Goal == \E s \in Slots : \E x : Hold(s, x) /\ x.step # "check in"
<1>0. ASSUME NEW s \in Slots, NEW x, Hold(s, x), x.step # "check in" PROVE Goal
  BY <1>0
<1>f. ASSUME NEW s \in Slots, Finish(s) PROVE Goal
  <2>1. Hold(s, Idle) /\ Idle.step # "check in"
    BY <1>f DEF Finish, Idle
  <2> QED
    BY <2>1
<1>1. ASSUME NEW s \in Slots, NEW u \in Users, Authorize(s, u) PROVE Goal
  <2>1. PICK x : x = [step |-> "in", actor |-> u, as |-> role[u]]
    OBVIOUS
  <2>2. Hold(s, x)
    BY <1>1, <2>1, Zenon DEF Authorize
  <2>3. x.step # "check in"
    BY <2>1
  <2> QED
    BY <1>0, <2>2, <2>3
<1>2. ASSUME NEW s \in Slots, NEW u \in Users, NEW e \in Emails, NEW o \in Orgs,
             RegisterRead(s, u, e, o) PROVE Goal
  <2>1. PICK x : x = [step |-> "register", user |-> u, email |-> e, org |-> o, role |-> "founder"]
    OBVIOUS
  <2>2. Hold(s, x)
    BY <1>2, <2>1, Zenon DEF RegisterRead
  <2>3. x.step # "check in"
    BY <2>1
  <2> QED
    BY <1>0, <2>2, <2>3
<1>3. ASSUME NEW s \in Slots, NEW u \in Users, NEW e \in Emails, NEW r \in Roles,
             InviteRead(s, u, e, r) PROVE Goal
  <2>1. PICK x : x = [step |-> "invite", user |-> u, email |-> e,
                      org |-> org[request[s].actor], role |-> r]
    OBVIOUS
  <2>2. Hold(s, x)
    BY <1>3, <2>1, Zenon DEF InviteRead
  <2>3. x.step # "check in"
    BY <2>1
  <2> QED
    BY <1>0, <2>2, <2>3
<1>4. ASSUME NEW s \in Slots, CommitNew(s) PROVE Goal
  BY <1>4, <1>f, Zenon DEF CommitNew
<1>5. ASSUME NEW s \in Slots, LoseNew(s) PROVE Goal
  BY <1>5, <1>f, Zenon DEF LoseNew
<1>6. ASSUME NEW s \in Slots, NEW v \in Users, ResetPassword(s, v) PROVE Goal
  BY <1>6, <1>f, Zenon DEF ResetPassword
<1>7. ASSUME NEW s \in Slots, NEW v \in Users, NEW r \in Roles \cup {None},
             NEW on \in {"same", "on", "off"}, UpdateMember(s, v, r, on) PROVE Goal
  BY <1>7, <1>f, Zenon DEF UpdateMember
<1>8. ASSUME NEW s \in Slots, ChangePassword(s) PROVE Goal
  BY <1>8, <1>f, Zenon DEF ChangePassword
<1>9. ASSUME NEW s \in Slots, Answer(s) PROVE Goal
  BY <1>9, <1>f, Zenon DEF Answer
<1>10. ASSUME NEW s \in Slots, NEW d \in Devices, RegisterDevice(s, d) PROVE Goal
  BY <1>10, <1>f, Zenon DEF RegisterDevice
<1> HIDE DEF Goal
<1>11. Goal
  BY <1>1, <1>2, <1>3, <1>4, <1>5, <1>6, <1>7, <1>8, <1>9, <1>10, Zenon DEF AccountsNext
<1> QED
  BY <1>11 DEF Goal

\* A check-out of a row that is open, not before it began and not in the future.
LEMMA OutStep ==
  ASSUME TypeOK, ShiftType, RowsOK, LookedInv, NEW s \in Slots, NEW u \in Users, NEW d \in Days,
         NEW t \in Nat, t <= clock, Row(u, d), Out(u, d, t), Finish(s), clock' = clock,
         begun' = begun, fixed' \in [Users -> [Days -> BOOLEAN]],
         \A v \in Users, e \in Days : ~(v = u /\ e = d) => fixed'[v][e] = fixed[v][e],
         ~fixed'[u][d] => /\ shift[u][d].in <= t
                          /\ t - shift[u][d].in <= MaxShift \/ DayOf(t) = d
  PROVE  ShiftType' /\ RowsOK' /\ LookedInv'
<1>0. /\ clock \in Time /\ clock \in Nat /\ Horizon \in Nat /\ None \notin Nat
      /\ shift[u][d].in \in Nat /\ begun[u][d] \in Nat
  BY RowTypes, AttendanceAssumption DEF ShiftType, Row
<1>1. t \in Time
  BY <1>0 DEF Time
<1>2. /\ shift' \in [Users -> [Days -> Shift]]
      /\ shift'[u][d] = [in |-> shift[u][d].in, out |-> t]
      /\ \A v \in Users, e \in Days : ~(v = u /\ e = d) => shift'[v][e] = shift[v][e]
  BY <1>1, OutType
<1>3. ShiftType'
  BY <1>2 DEF ShiftType
<1>4. shift'[u][d].in = shift[u][d].in /\ shift'[u][d].out = t
  BY <1>2
<1>5. RowOK(u, d)
  BY DEF RowsOK
<1> HIDE DEF DayOf
<1>6. RowOK(u, d)'
  <2>1. begun'[u][d] <= 1
    BY <1>5 DEF RowOK
  <2>2. Row(u, d)' /\ shift'[u][d].in <= clock' /\ shift'[u][d].out # None
    BY <1>0, <1>4, <1>5 DEF RowOK, Row
  <2>3. ~fixed'[u][d] =>
          /\ shift'[u][d].in <= shift'[u][d].out
          /\ shift'[u][d].out - shift'[u][d].in <= MaxShift \/ DayOf(shift'[u][d].out) = d
    BY <1>4
  <2> QED
    BY <2>1, <2>2, <2>3 DEF RowOK
<1>7. RowsOK'
  BY <1>2, <1>6, OtherRows
<1>8. LookedInv'
  <2>1. Hold(s, Idle) /\ Idle.step # "check in"
    BY DEF Finish, Idle
  <2>2. clock' \in Nat /\ clock <= clock'
    BY <1>0
  <2> QED
    BY <2>1, <2>2, LookedKept, Zenon
<1> QED
  BY <1>3, <1>7, <1>8

LEMMA ClockKept ==
  ASSUME ShiftType, clock' = clock
  PROVE  clock' \in Nat /\ clock <= clock'
<1>1. clock \in Nat
  BY TimeIsNat DEF ShiftType
<1> QED
  BY <1>1

LEMMA LookStep ==
  ASSUME TypeOK, ShiftType, RowsOK, LookedInv, NEW s \in Slots, CheckInRead(s)
  PROVE  /\ request' \in [Slots -> Request] /\ served' = served
         /\ ShiftType' /\ RowsOK' /\ LookedInv' /\ UNCHANGED account /\ made' = made
         /\ \E x : Hold(s, x) /\ x.step = "check in"
<1>1. PICK x : x = [step |-> "check in", actor |-> request[s].actor, day |-> Today, at |-> clock]
  OBVIOUS
<1>2. Hold(s, x) /\ Serving(s) /\ UNCHANGED <<account, made, served, attendance>>
  BY <1>1, Zenon DEF CheckInRead
<1>3. request[s].actor \in Users /\ Today \in Days /\ clock \in Time
  BY <1>2, FieldTypes, TodayIsDay, Zenon DEF ShiftType
<1>4. x \in Looked /\ x.step = "check in" /\ x.at = clock
  BY <1>1, <1>3 DEF Looked
<1>5. request' \in [Slots -> Request]
  BY <1>2, <1>4, HoldType DEF Request
<1>6. clock' = clock /\ shift' = shift /\ fixed' = fixed /\ begun' = begun
  BY <1>2 DEF attendance
<1>7. clock \in Nat
  BY <1>3, TimeIsNat
<1>8. clock <= clock' /\ clock' \in Nat
  BY <1>6, <1>7
<1>9. RowsOK'
  BY <1>6, <1>8, LaterRows, Zenon
<1>10. x.step = "check in" => x.at \in Nat /\ x.at <= clock'
  BY <1>4, <1>7, <1>8
<1>11. LookedInv'
  BY <1>2, <1>8, <1>10, LookedKept, Zenon
<1>12. ShiftType'
  BY <1>6 DEF ShiftType
<1> QED
  BY <1>2, <1>4, <1>5, <1>9, <1>11, <1>12

LEMMA BeginStep ==
  ASSUME TypeOK, ShiftType, RowsOK, LookedInv, NEW s \in Slots, CheckInCommit(s)
  PROVE  ShiftType' /\ RowsOK' /\ LookedInv'
<1>1. PICK u, d, t : u = request[s].actor /\ d = request[s].day /\ t = request[s].at
  OBVIOUS
<1>2. /\ request[s].step = "check in" /\ ~Row(u, d) /\ Finish(s)
      /\ shift' = [shift EXCEPT ![u][d].in = t]
      /\ begun' = [begun EXCEPT ![u][d] = @ + 1]
      /\ clock' = clock /\ fixed' = fixed
  BY <1>1, Zenon DEF CheckInCommit
<1>3. u \in Users /\ d \in Days /\ t \in Time /\ t <= clock
  BY <1>1, <1>2, FieldTypes, Zenon DEF LookedInv
<1>4. PICK x, f : x = [shift[u][d] EXCEPT !.in = t] /\ f = [shift[u] EXCEPT ![d] = x]
  OBVIOUS
<1>5. PICK g : g = [begun[u] EXCEPT ![d] = begun[u][d] + 1]
  OBVIOUS
<1>6. shift' = [shift EXCEPT ![u] = f] /\ begun' = [begun EXCEPT ![u] = g]
  BY <1>2, <1>4, <1>5, Zenon
<1>7. /\ shift \in [Users -> [Days -> Shift]] /\ begun \in [Users -> [Days -> Nat]]
      /\ shift[u] \in [Days -> Shift] /\ begun[u] \in [Days -> Nat]
      /\ shift[u][d] \in Shift
  BY <1>3 DEF ShiftType
<1>8. x \in Shift /\ x.in = t /\ x.out = shift[u][d].out
  BY <1>3, <1>4, <1>7 DEF Shift
<1>9. /\ f \in [Days -> Shift] /\ \A e \in Days : f[e] = IF e = d THEN x ELSE shift[u][e]
      /\ g \in [Days -> Nat] /\ \A e \in Days : g[e] = IF e = d THEN begun[u][d] + 1 ELSE begun[u][e]
  BY <1>3, <1>4, <1>5, <1>7, <1>8
<1>10. /\ shift' \in [Users -> [Days -> Shift]] /\ begun' \in [Users -> [Days -> Nat]]
       /\ shift'[u][d] = x /\ begun'[u][d] = begun[u][d] + 1
       /\ \A v \in Users, e \in Days : ~(v = u /\ e = d) =>
            shift'[v][e] = shift[v][e] /\ begun'[v][e] = begun[v][e]
  BY <1>3, <1>6, <1>7, <1>9
<1>11. ShiftType'
  BY <1>2, <1>10 DEF ShiftType
<1>12. RowOK(u, d)
  BY <1>3 DEF RowsOK
<1>13. t \in Nat /\ None \notin Nat /\ begun[u][d] \in Nat /\ fixed[u][d] \in BOOLEAN
  BY <1>3, TimeIsNat, RowTypes
<1>14. begun[u][d] = 0 /\ shift[u][d].out = None /\ ~fixed[u][d]
  BY <1>2, <1>12 DEF RowOK
<1>15. RowOK(u, d)'
  <2>1. begun'[u][d] <= 1
    BY <1>10, <1>14
  <2>2. shift'[u][d].in # None /\ shift'[u][d].in <= clock' /\ shift'[u][d].out = None
    BY <1>2, <1>3, <1>8, <1>10, <1>13, <1>14
  <2>3. ~fixed'[u][d]
    BY <1>2, <1>14
  <2> QED
    BY <2>1, <2>2, <2>3, Zenon DEF RowOK, Row
<1>16. RowsOK'
  <2>1. \A v \in Users, e \in Days : ~(v = u /\ e = d) =>
          /\ shift'[v][e] = shift[v][e] /\ fixed'[v][e] = fixed[v][e]
          /\ begun'[v][e] = begun[v][e]
    BY <1>2, <1>10, Zenon
  <2> QED
    BY <1>2, <1>3, <1>15, <2>1, OtherRows, Zenon
<1>17. LookedInv'
  <2>1. Hold(s, Idle) /\ Idle.step # "check in"
    BY <1>2 DEF Finish, Idle
  <2>2. clock' \in Nat /\ clock <= clock'
    BY <1>2, ClockKept
  <2> QED
    BY <2>1, <2>2, LookedKept, Zenon
<1> QED
  BY <1>11, <1>16, <1>17

LEMMA CheckOutStep ==
  ASSUME TypeOK, ShiftType, RowsOK, LookedInv, NEW s \in Slots, CheckOut(s)
  PROVE  ShiftType' /\ RowsOK' /\ LookedInv'
<1>1. PICK u, d : u = request[s].actor /\ d = Today
  OBVIOUS
<1>2. /\ Serving(s) /\ Row(u, d) /\ Out(u, d, clock) /\ Finish(s)
      /\ clock' = clock /\ begun' = begun /\ fixed' = fixed
  BY <1>1, Zenon DEF CheckOut, Open, Others
<1>3. u \in Users /\ d \in Days
  BY <1>1, <1>2, FieldTypes, TodayIsDay, Zenon
<1>4. RowOK(u, d) /\ clock \in Nat
  BY <1>3, RowTypes DEF RowsOK
<1>5. shift[u][d].in <= clock /\ DayOf(clock) = d
  BY <1>1, <1>2, <1>4, Zenon DEF RowOK, Today
<1>6. clock <= clock /\ fixed' \in [Users -> [Days -> BOOLEAN]]
  BY <1>2, <1>4 DEF ShiftType
<1>7. /\ \A v \in Users, e \in Days : ~(v = u /\ e = d) => fixed'[v][e] = fixed[v][e]
      /\ ~fixed'[u][d] => /\ shift[u][d].in <= clock
                          /\ clock - shift[u][d].in <= MaxShift \/ DayOf(clock) = d
  BY <1>2, <1>5, Zenon
<1> QED
  BY <1>2, <1>3, <1>4, <1>6, <1>7, OutStep, Zenon

LEMMA CloseStep ==
  ASSUME TypeOK, ShiftType, RowsOK, LookedInv, NEW s \in Slots, NEW d \in Days, CloseOwn(s, d)
  PROVE  ShiftType' /\ RowsOK' /\ LookedInv'
<1>1. PICK u : u = request[s].actor
  OBVIOUS
<1>2. PICK t : t = Earlier(clock, shift[u][d].in + MaxShift)
  OBVIOUS
<1>3. /\ Serving(s) /\ Row(u, d) /\ Out(u, d, t) /\ Finish(s)
      /\ clock' = clock /\ begun' = begun /\ fixed' = fixed
  BY <1>1, <1>2, Zenon DEF CloseOwn, Open, Others
<1>4. u \in Users
  BY <1>1, <1>3, FieldTypes, Zenon
<1>5. /\ RowOK(u, d) /\ clock \in Nat /\ shift[u][d].in \in Nat \cup {None} /\ MaxShift \in Nat
  BY <1>4, RowTypes DEF RowsOK
<1>6. shift[u][d].in \in Nat /\ shift[u][d].in <= clock
  BY <1>3, <1>5 DEF RowOK, Row
<1>7. t \in Nat /\ t <= clock /\ shift[u][d].in <= t /\ t - shift[u][d].in <= MaxShift
  BY <1>2, <1>5, <1>6 DEF Earlier
<1>8. fixed' \in [Users -> [Days -> BOOLEAN]]
  BY <1>3 DEF ShiftType
<1>9. /\ \A v \in Users, e \in Days : ~(v = u /\ e = d) => fixed'[v][e] = fixed[v][e]
      /\ ~fixed'[u][d] => /\ shift[u][d].in <= t
                          /\ t - shift[u][d].in <= MaxShift \/ DayOf(t) = d
  BY <1>3, <1>7, Zenon
<1> QED
  BY <1>3, <1>4, <1>7, <1>8, <1>9, OutStep, Zenon

LEMMA CorrectStep ==
  ASSUME TypeOK, ShiftType, RowsOK, LookedInv, NEW s \in Slots, NEW u \in Users, NEW d \in Days,
         NEW t \in Time, Correct(s, u, d, t)
  PROVE  ShiftType' /\ RowsOK' /\ LookedInv'
<1>1. /\ Row(u, d) /\ Out(u, d, t) /\ Finish(s) /\ t \in (shift[u][d].in + 1) .. clock
      /\ fixed' = [fixed EXCEPT ![u][d] = TRUE]
      /\ clock' = clock /\ begun' = begun
  BY Zenon DEF Correct, Others
<1>2. PICK f : f = [fixed[u] EXCEPT ![d] = TRUE]
  OBVIOUS
<1>3. fixed' = [fixed EXCEPT ![u] = f]
  BY <1>1, <1>2, Zenon
<1>4. /\ fixed \in [Users -> [Days -> BOOLEAN]] /\ fixed[u] \in [Days -> BOOLEAN]
  BY DEF ShiftType
<1>5. f \in [Days -> BOOLEAN] /\ f[d] = TRUE /\ \A e \in Days : e # d => f[e] = fixed[u][e]
  BY <1>2, <1>4
<1>6. /\ fixed' \in [Users -> [Days -> BOOLEAN]] /\ fixed'[u][d] = TRUE
      /\ \A v \in Users, e \in Days : ~(v = u /\ e = d) => fixed'[v][e] = fixed[v][e]
  BY <1>3, <1>4, <1>5
<1>7. t \in Nat /\ clock \in Nat
  BY TimeIsNat DEF ShiftType
<1>8. t <= clock
  <2>1. shift[u][d].in \in Nat
    BY <1>1, RowTypes DEF Row
  <2> QED
    BY <1>1, <1>7, <2>1
<1>9. ~fixed'[u][d] => /\ shift[u][d].in <= t
                       /\ t - shift[u][d].in <= MaxShift \/ DayOf(t) = d
  BY <1>6, Zenon
<1>10. /\ Row(u, d) /\ Out(u, d, t) /\ Finish(s) /\ clock' = clock /\ begun' = begun
       /\ fixed' \in [Users -> [Days -> BOOLEAN]] /\ t \in Nat
       /\ \A v \in Users, e \in Days : ~(v = u /\ e = d) => fixed'[v][e] = fixed[v][e]
  BY <1>1, <1>6, <1>7
<1> QED
  BY <1>8, <1>9, <1>10, OutStep, Zenon

-----------------------------------------------------------------------------
(* The inductive invariant *)

IInv == TypeOK /\ AccountInv /\ RowsOK /\ LookedInv

LEMMA InitInv == Init => IInv
<1> SUFFICES ASSUME Init PROVE IInv
  OBVIOUS
<1>1. TypeOK
  BY InitType
<1>2. \A s \in Slots : request[s] = Idle /\ Idle.step = "idle"
  BY DEF Init, AccountsInit, Idle
<1>3. AccountInv
  <2>1. \A u \in Users : /\ Exists(u) => org[u] \in Orgs
                         /\ ~Exists(u) => email[u] = None
    BY AccountsAssumption DEF Init, AccountsInit, Exists, Roles
  <2>2. \A s \in Slots : ~Serving(s) /\ ~Making(s)
    BY <1>2 DEF Serving, Making
  <2>3. \A e \in Emails : made[e] <= 1 /\ made[e] = 0
    BY DEF Init, AccountsInit
  <2> QED
    BY <2>1, <2>2, <2>3 DEF AccountInv
<1>4. RowsOK
  <2> SUFFICES ASSUME NEW u \in Users, NEW d \in Days PROVE RowOK(u, d)
    BY DEF RowsOK
  <2>1. /\ shift[u][d].in = None /\ shift[u][d].out = None
        /\ ~fixed[u][d] /\ begun[u][d] = 0
    BY DEF Init, NoRow
  <2> HIDE DEF DayOf
  <2> QED
    BY <2>1 DEF RowOK, Row
<1>5. LookedInv
  BY <1>2 DEF LookedInv
<1> QED
  BY <1>1, <1>3, <1>4, <1>5 DEF IInv

\* A step of the accounts.
LEMMA AccountsInvStep ==
  ASSUME IInv, AccountsNext, UNCHANGED attendance
  PROVE  IInv'
<1>0. TypeOK /\ AccountInv /\ RowsOK /\ LookedInv /\ ShiftType
  BY TypeParts DEF IInv
<1>1. AccountTypeOK' /\ request' \in [Slots -> Request] /\ AccountInv'
  BY <1>0, AccountsStep
<1>2. clock' = clock /\ shift' = shift /\ fixed' = fixed /\ begun' = begun
  BY DEF attendance
<1>3. clock' \in Nat /\ clock <= clock'
  BY <1>0, <1>2, ClockKept
<1>4. RowsOK'
  BY <1>0, <1>2, <1>3, LaterRows, Zenon
<1>5. LookedInv'
  <2>1. PICK s \in Slots : \E x : Hold(s, x) /\ x.step # "check in"
    BY AccountsHold
  <2>2. PICK x : Hold(s, x) /\ x.step # "check in"
    BY <2>1
  <2> QED
    BY <1>0, <1>3, <2>2, LookedKept, Zenon
<1>6. ShiftType'
  BY <1>0, <1>2 DEF ShiftType
<1>7. TypeOK'
  BY <1>1, <1>6, Zenon DEF TypeOK, ShiftType, Shift, Request
<1> QED
  BY <1>1, <1>4, <1>5, <1>7 DEF IInv

LEMMA TickStep ==
  ASSUME IInv, Tick
  PROVE  IInv'
<1>0. TypeOK /\ AccountInv /\ RowsOK /\ LookedInv /\ ShiftType
  BY TypeParts DEF IInv
<1>1. PICK t \in (clock + 1) .. Horizon : clock' = t /\ UNCHANGED <<accounts, shift, fixed, begun>>
  BY DEF Tick
<1>2. clock \in Nat /\ Horizon \in Nat
  BY <1>0, TimeIsNat, AttendanceAssumption DEF ShiftType
<1>3. clock' \in Time /\ clock' \in Nat /\ clock <= clock'
  BY <1>1, <1>2 DEF Time
<1>4. /\ UNCHANGED <<account, request, made, served>>
      /\ shift' = shift /\ fixed' = fixed /\ begun' = begun
  BY <1>1 DEF accounts
<1>5. RowsOK'
  BY <1>0, <1>3, <1>4, LaterRows, Zenon
<1>6. LookedInv'
  <2> SUFFICES ASSUME NEW s \in Slots, request[s].step = "check in" PROVE request[s].at <= clock'
    BY <1>4 DEF LookedInv
  <2>1. PICK a : a = request[s].at
    OBVIOUS
  <2>2. a \in Nat /\ a <= clock
    BY <1>0, <2>1, FieldTypes, TimeIsNat, Zenon DEF LookedInv
  <2>3. a <= clock'
    BY <1>2, <1>3, <2>2, Later, Zenon
  <2> QED
    BY <2>1, <2>3, Zenon
<1>7. ShiftType'
  BY <1>0, <1>3, <1>4 DEF ShiftType
<1>8. AccountTypeOK' /\ request' \in [Slots -> Request]
  BY <1>0, <1>4, TypeParts DEF account, AccountTypeOK
<1>9. AccountInv'
  BY <1>0, <1>4 DEF account, AccountInv, Exists, Serving, Making, Taken
<1>10. TypeOK'
  BY <1>7, <1>8, Zenon DEF TypeOK, ShiftType, Shift, Request
<1> QED
  BY <1>5, <1>6, <1>9, <1>10 DEF IInv

\* A step of somebody's shift that ends his request.
LEMMA ShiftInvStep ==
  ASSUME IInv, NEW s \in Slots, Finish(s), UNCHANGED account, made' = made,
         ShiftType', RowsOK', LookedInv'
  PROVE  IInv'
<1>1. AccountTypeOK' /\ request' \in [Slots -> Request] /\ AccountInv'
  BY FinishStep DEF IInv
<1>2. TypeOK'
  BY <1>1, Zenon DEF TypeOK, ShiftType, Shift, Request
<1> QED
  BY <1>1, <1>2 DEF IInv

LEMMA NextInv == IInv /\ [Next]_vars => IInv'
<1> SUFFICES ASSUME IInv, [Next]_vars PROVE IInv'
  OBVIOUS
<1>0. TypeOK /\ AccountInv /\ RowsOK /\ LookedInv /\ ShiftType
  BY TypeParts DEF IInv
<1> DEFINE Goal == IInv'
<1>1. ASSUME AccountsNext, UNCHANGED attendance PROVE Goal
  BY <1>1, AccountsInvStep
<1>2. ASSUME Tick PROVE Goal
  BY <1>2, TickStep
<1>3. ASSUME NEW s \in Slots, CheckInRead(s) PROVE Goal
  <2>1. /\ request' \in [Slots -> Request] /\ served' = served
        /\ ShiftType' /\ RowsOK' /\ LookedInv' /\ UNCHANGED account /\ made' = made
        /\ \E x : Hold(s, x) /\ x.step = "check in"
    BY <1>0, <1>3, LookStep
  <2>2. PICK x : Hold(s, x) /\ x.step = "check in"
    BY <2>1
  <2>3. email' = email /\ org' = org /\ \A u \in Users : Exists(u)' <=> Exists(u)
    BY <2>1 DEF account, Exists
  <2>4. AccountInv'
    BY <1>0, <2>1, <2>2, <2>3, AccountsKept
  <2>5. served' \in 0 .. MaxRequests
    BY <1>0, <2>1 DEF TypeOK, AccountTypeOK
  <2>6. AccountTypeOK'
    BY <1>0, <2>1, <2>5, AccountTypeKept
  <2>7. TypeOK'
    BY <2>1, <2>6, Zenon DEF TypeOK, ShiftType, Shift, Request
  <2> QED
    BY <2>1, <2>4, <2>7 DEF IInv
<1>4. ASSUME NEW s \in Slots, CheckInCommit(s) PROVE Goal
  <2>1. Finish(s) /\ UNCHANGED account /\ made' = made
    BY <1>4, Zenon DEF CheckInCommit
  <2> QED
    BY <1>0, <1>4, <2>1, BeginStep, ShiftInvStep
<1>5. ASSUME NEW s \in Slots, CheckInLost(s) PROVE Goal
  <2>1. Finish(s) /\ UNCHANGED <<account, made, attendance>>
    BY <1>5, Zenon DEF CheckInLost
  <2>2. clock' = clock /\ shift' = shift /\ fixed' = fixed /\ begun' = begun
    BY <2>1 DEF attendance
  <2>3. clock' \in Nat /\ clock <= clock'
    BY <1>0, <2>2, ClockKept
  <2>4. RowsOK' /\ ShiftType'
    <3>1. RowsOK'
      BY <1>0, <2>2, <2>3, LaterRows, Zenon
    <3>2. ShiftType'
      BY <1>0, <2>2 DEF ShiftType
    <3> QED
      BY <3>1, <3>2
  <2>5. LookedInv'
    <3>1. Hold(s, Idle) /\ Idle.step # "check in"
      BY <2>1 DEF Finish, Idle
    <3> QED
      BY <1>0, <2>3, <3>1, LookedKept, Zenon
  <2> QED
    BY <2>1, <2>4, <2>5, ShiftInvStep
<1>6. ASSUME NEW s \in Slots, CheckOut(s) PROVE Goal
  <2>1. Finish(s) /\ UNCHANGED account /\ made' = made
    BY <1>6, Zenon DEF CheckOut, Others
  <2> QED
    BY <1>0, <1>6, <2>1, CheckOutStep, ShiftInvStep
<1>7. ASSUME NEW s \in Slots, NEW d \in Days, CloseOwn(s, d) PROVE Goal
  <2>1. Finish(s) /\ UNCHANGED account /\ made' = made
    BY <1>7, Zenon DEF CloseOwn, Others
  <2> QED
    BY <1>0, <1>7, <2>1, CloseStep, ShiftInvStep
<1>8. ASSUME NEW s \in Slots, NEW d \in Days, NEW u \in Users, NEW t \in Time,
             Correct(s, u, d, t) PROVE Goal
  <2>1. Finish(s) /\ UNCHANGED account /\ made' = made
    BY <1>8, Zenon DEF Correct, Others
  <2> QED
    BY <1>0, <1>8, <2>1, CorrectStep, ShiftInvStep
<1>9. ASSUME UNCHANGED vars PROVE Goal
  <2>1. /\ UNCHANGED <<account, request, made, served>>
        /\ clock' = clock /\ shift' = shift /\ fixed' = fixed /\ begun' = begun
    BY <1>9 DEF vars, accounts, attendance
  <2> HIDE DEF DayOf
  <2>2. TypeOK' /\ AccountInv' /\ LookedInv'
    BY <1>0, <2>1 DEF account, TypeOK, AccountTypeOK, AccountInv, LookedInv, Exists, Serving,
                      Making, Taken
  <2>3. clock' \in Nat /\ clock <= clock'
    BY <1>0, <2>1, ClockKept
  <2>4. RowsOK'
    BY <1>0, <2>1, <2>3, LaterRows, Zenon
  <2> QED
    BY <2>2, <2>4 DEF IInv
<1> HIDE DEF Goal
<1>10. Goal
  BY <1>1, <1>2, <1>3, <1>4, <1>5, <1>6, <1>7, <1>8, <1>9, Zenon DEF Next
<1> QED
  BY <1>10 DEF Goal

\* Type correctness: accounts, requests in flight and shifts are what they are
\* declared to be, a member's organisation included.
THEOREM WorkTypeCorrect == Spec => []TypeOK
<1>1. IInv => TypeOK
  BY DEF IInv
<1> QED
  BY <1>1, InitInv, NextInv, PTL DEF Spec

LEMMA InvCorrect == Spec => []IInv
BY InitInv, NextInv, PTL DEF Spec

\* However many invitations, registrations and check-ins race, an address is
\* answered 201 once and a day is begun once.
THEOREM AnswersCorrect == Spec => []AnsweredOnce
<1>1. IInv => AnsweredOnce
  BY DEF IInv, AccountInv, RowsOK, RowOK, AnsweredOnce
<1> QED
  BY <1>1, InvCorrect, PTL

\* Hours nobody corrected are neither negative nor, unless the shift was ended
\* on its own day, above the cap.
THEOREM HoursCorrect == Spec => []HoursHonest
<1>1. IInv => HoursHonest
  <2> SUFFICES ASSUME IInv, NEW u \in Users, NEW d \in Days, Reported(u, d), ~fixed[u][d]
               PROVE  /\ Hours(u, d) >= 0
                      /\ Hours(u, d) <= MaxShift \/ DayOf(shift[u][d].out) = d
    BY DEF HoursHonest
  <2>1. RowOK(u, d) /\ ShiftType
    BY TypeParts DEF IInv, RowsOK
  <2>2. /\ shift[u][d].in \in Nat \cup {None} /\ shift[u][d].out \in Nat \cup {None}
        /\ MaxShift \in Nat /\ None \notin Nat
    BY <2>1, RowTypes
  <2> HIDE DEF DayOf
  <2>3. CASE ~Row(u, d)
    BY <2>1, <2>3 DEF Reported, Effective, Open, RowOK
  <2>4. CASE Row(u, d) /\ shift[u][d].out # None
    <3>1. Hours(u, d) = shift[u][d].out - shift[u][d].in
      BY <2>4 DEF Hours, Effective, Open
    <3>2. /\ shift[u][d].in \in Nat /\ shift[u][d].out \in Nat
          /\ shift[u][d].in <= shift[u][d].out
          /\ shift[u][d].out - shift[u][d].in <= MaxShift \/ DayOf(shift[u][d].out) = d
      BY <2>1, <2>2, <2>4 DEF RowOK, Row
    <3> QED
      BY <3>1, <3>2
  <2>5. CASE Row(u, d) /\ shift[u][d].out = None
    <3>1. Effective(u, d) = shift[u][d].in + MaxShift
      BY <2>5 DEF Reported, Effective, Open
    <3>2. Hours(u, d) = MaxShift
      BY <2>2, <2>5, <3>1 DEF Hours, Row
    <3> QED
      BY <2>2, <3>2
  <2> QED
    BY <2>3, <2>4, <2>5
<1> QED
  BY <1>1, InvCorrect, PTL

-----------------------------------------------------------------------------
(* Corrections *)

\* A step that writes one check-out of a row that is not corrected.
LEMMA OutSticks ==
  ASSUME TypeOK, NEW u \in Users, NEW d \in Days, NEW t \in Time, Out(u, d, t), ~fixed[u][d],
         NEW v \in Users, NEW e \in Days, fixed[v][e]
  PROVE  shift'[v][e] = shift[v][e]
<1>1. ~(v = u /\ e = d)
  OBVIOUS
<1>2. \A w \in Users, g \in Days :
        shift'[w][g] = IF w = u /\ g = d THEN [in |-> shift[u][d].in, out |-> t] ELSE shift[w][g]
  BY OutType
<1>3. shift'[v][e] = IF v = u /\ e = d THEN [in |-> shift[u][d].in, out |-> t] ELSE shift[v][e]
  BY <1>2, Zenon
<1> QED
  BY <1>1, <1>3, Zenon

LEMMA OpenIsUncorrected ==
  ASSUME IInv, NEW u \in Users, NEW d \in Days, Open(u, d)
  PROVE  ~fixed[u][d]
BY Zenon DEF IInv, RowsOK, RowOK, Open

LEMMA CorrectionStep ==
  ASSUME IInv, [Next]_vars, NEW v \in Users, NEW e \in Days, fixed[v][e],
         shift'[v][e] # shift[v][e]
  PROVE  \E s \in Slots : Served(s) /\ Manager(request[s].as)
<1> DEFINE Goal == \E s \in Slots : Served(s) /\ Manager(request[s].as)
<1>0. TypeOK /\ ShiftType /\ RowsOK
  BY TypeParts DEF IInv
<1>1. ASSUME UNCHANGED attendance PROVE Goal
  BY <1>1 DEF attendance
<1>2. ASSUME Tick PROVE Goal
  BY <1>2 DEF Tick
<1>3. ASSUME NEW s \in Slots, CheckInRead(s) PROVE Goal
  BY <1>3, <1>1, Zenon DEF CheckInRead
<1>4. ASSUME NEW s \in Slots, CheckInCommit(s) PROVE Goal
  <2>1. PICK u, d, t : u = request[s].actor /\ d = request[s].day /\ t = request[s].at
    OBVIOUS
  <2>2. /\ request[s].step = "check in" /\ ~Row(u, d)
        /\ shift' = [shift EXCEPT ![u][d].in = t]
    BY <1>4, <2>1, Zenon DEF CheckInCommit
  <2>3. u \in Users /\ d \in Days
    BY <1>0, <2>1, <2>2, FieldTypes, Zenon
  <2>4. ~fixed[u][d]
    BY <1>0, <2>2, <2>3, Zenon DEF RowsOK, RowOK
  <2>5. ~(v = u /\ e = d)
    BY <2>4
  <2>6. PICK f : f = [shift[u] EXCEPT ![d] = [shift[u][d] EXCEPT !.in = t]]
    OBVIOUS
  <2>7. shift' = [shift EXCEPT ![u] = f]
    BY <2>2, <2>6, Zenon
  <2>8. shift \in [Users -> [Days -> Shift]]
    BY <1>0 DEF ShiftType
  <2>9. PICK x : f = [shift[u] EXCEPT ![d] = x]
    BY <2>6, Zenon
  <2>10. shift'[v][e] = shift[v][e]
    BY <2>3, <2>5, <2>7, <2>8, <2>9
  <2> QED
    BY <2>10
<1>5. ASSUME NEW s \in Slots, CheckInLost(s) PROVE Goal
  BY <1>5, <1>1, Zenon DEF CheckInLost
<1>6. ASSUME NEW s \in Slots, CheckOut(s) PROVE Goal
  <2>1. PICK u, d : u = request[s].actor /\ d = Today
    OBVIOUS
  <2>2. Serving(s) /\ Open(u, d) /\ Out(u, d, clock)
    BY <1>6, <2>1, Zenon DEF CheckOut
  <2>3. u \in Users /\ d \in Days /\ clock \in Time
    BY <1>0, <2>1, <2>2, FieldTypes, TodayIsDay, Zenon DEF ShiftType
  <2> QED
    BY <1>0, <2>2, <2>3, OpenIsUncorrected, OutSticks, Zenon
<1>7. ASSUME NEW s \in Slots, NEW d \in Days, CloseOwn(s, d) PROVE Goal
  <2>1. PICK u : u = request[s].actor
    OBVIOUS
  <2>2. PICK t : t = Earlier(clock, shift[u][d].in + MaxShift)
    OBVIOUS
  <2>3. Serving(s) /\ Open(u, d) /\ Out(u, d, t)
    BY <1>7, <2>1, <2>2, Zenon DEF CloseOwn
  <2>4. u \in Users
    BY <1>0, <2>1, <2>3, FieldTypes, Zenon
  <2>5. ~fixed[u][d]
    BY <2>3, <2>4, OpenIsUncorrected
  <2>6. t \in Time
    <3>1. shift[u][d].in \in Nat /\ clock \in Nat /\ MaxShift \in Nat
      BY <1>0, <2>3, <2>4, RowTypes DEF Open, Row
    <3>2. clock \in 0 .. Horizon /\ Horizon \in Nat
      BY <1>0, AttendanceAssumption DEF ShiftType, Time
    <3>3. t \in Nat /\ t <= clock
      BY <2>2, <3>1 DEF Earlier
    <3> QED
      BY <3>2, <3>3 DEF Time
  <2> QED
    BY <1>0, <2>3, <2>4, <2>5, <2>6, OutSticks, Zenon
<1>8. ASSUME NEW s \in Slots, NEW d \in Days, NEW u \in Users, NEW t \in Time,
             Correct(s, u, d, t) PROVE Goal
  <2>1. ServingManager(s) /\ Finish(s)
    BY <1>8, Zenon DEF Correct
  <2>2. request'[s] = Idle
    BY <1>0, <2>1, HoldAt DEF Finish
  <2>3. request[s] # Idle
    BY <2>1 DEF ServingManager, Serving, Idle
  <2> QED
    BY <2>1, <2>2, <2>3 DEF ServingManager, Served
<1>9. ASSUME UNCHANGED vars PROVE Goal
  BY <1>9, <1>1, Zenon DEF vars
<1> HIDE DEF Goal
<1>10. Goal
  BY <1>1, <1>2, <1>3, <1>4, <1>5, <1>6, <1>7, <1>8, <1>9, Zenon DEF Next
<1> QED
  BY <1>10 DEF Goal

\* What a manager corrected is replaced by a manager's request only.
THEOREM CorrectionCorrect == Spec => CorrectionSticks
<1>1. IInv /\ [Next]_vars =>
        [\A u \in Users, d \in Days :
           fixed[u][d] /\ shift'[u][d] # shift[u][d] =>
             \E s \in Slots : Served(s) /\ Manager(request[s].as)]_vars
  BY CorrectionStep
<1> QED
  BY <1>1, InvCorrect, PTL DEF Spec, CorrectionSticks

-----------------------------------------------------------------------------
(* Founders *)

\* What FoundersByFounders asks of a step, for one member.
Touched(v) ==
  \/ role[v] = "founder" /\ (role'[v] # "founder" \/ (active[v] /\ ~active'[v])
                               \/ (issued'[v] /\ ~issued[v]))
  \/ Exists(v) /\ role[v] # "founder" /\ role'[v] = "founder"

ByFounder(v) ==
  \E s \in Slots : /\ Served(s) /\ request[s].step = "in"
                   /\ request[s].as = "founder" \/ request[s].actor = v

LEMMA ServedBy ==
  ASSUME TypeOK, NEW s \in Slots, Serving(s), Finish(s)
  PROVE  Served(s)
<1>1. request'[s] = Idle
  BY HoldAt DEF Finish
<1>2. request[s] # Idle
  BY DEF Serving, Idle
<1> QED
  BY <1>1, <1>2 DEF Served

LEMMA FounderStep ==
  ASSUME IInv, [Next]_vars, NEW v \in Users, Touched(v)
  PROVE  ByFounder(v)
<1> DEFINE Goal == ByFounder(v)
<1>0. TypeOK /\ AccountInv
  BY DEF IInv
<1>u. ASSUME UNCHANGED account PROVE Goal
  BY <1>u DEF account, Touched
<1>w. ASSUME role' = role, active' = active, issued' = issued PROVE Goal
  BY <1>w DEF Touched
<1>1. ASSUME NEW s \in Slots, NEW u \in Users, Authorize(s, u) PROVE Goal
  BY <1>1, <1>u, Zenon DEF Authorize
<1>2. ASSUME NEW s \in Slots, NEW u \in Users, NEW e \in Emails, NEW o \in Orgs,
             RegisterRead(s, u, e, o) PROVE Goal
  BY <1>2, <1>u, Zenon DEF RegisterRead
<1>3. ASSUME NEW s \in Slots, NEW u \in Users, NEW e \in Emails, NEW r \in Roles,
             InviteRead(s, u, e, r) PROVE Goal
  BY <1>3, <1>u, Zenon DEF InviteRead
<1>4. ASSUME NEW s \in Slots, CommitNew(s) PROVE Goal
  <2>1. PICK x, b : x = request[s] /\ b = (x.step = "invite")
    OBVIOUS
  <2>2. /\ x.step \in {"invite", "register"}
        /\ role' = [role EXCEPT ![x.user] = x.role]
        /\ active' = [active EXCEPT ![x.user] = TRUE]
        /\ issued' = [issued EXCEPT ![x.user] = b]
    BY <1>4, <2>1, Zenon DEF CommitNew
  <2>3. x.user \in Users /\ ~Exists(x.user)
    BY <1>0, <2>1, <2>2, FieldTypes, Zenon DEF AccountInv, Making
  <2>4. None # "founder"
    BY AccountsAssumption DEF Roles
  <2>5. v # x.user
    BY <2>3, <2>4 DEF Touched, Exists
  <2>6. role'[v] = role[v] /\ (active'[v] <=> active[v]) /\ (issued'[v] <=> issued[v])
    BY <1>0, <2>2, <2>5 DEF TypeOK, AccountTypeOK
  <2> QED
    BY <2>6, Zenon DEF Touched
<1>5. ASSUME NEW s \in Slots, LoseNew(s) PROVE Goal
  BY <1>5, <1>u, Zenon DEF LoseNew
<1>6. ASSUME NEW s \in Slots, NEW w \in Users, ResetPassword(s, w) PROVE Goal
  <2>1. /\ Serving(s) /\ Finish(s)
        /\ SeenRole(s, w) = "founder" => request[s].as = "founder"
        /\ issued' = [issued EXCEPT ![w] = TRUE] /\ role' = role /\ active' = active
    BY <1>6, Zenon DEF ResetPassword, ServingManager
  <2>2. Served(s)
    BY <1>0, <2>1, ServedBy
  <2>3. CASE v = w
    <3>1. role[v] = "founder"
      BY <2>1 DEF Touched
    <3>2. request[s].as = "founder" \/ request[s].actor = v
      BY <2>1, <2>3, <3>1 DEF SeenRole
    <3> QED
      BY <2>1, <2>2, <3>2 DEF ByFounder, Serving
  <2>4. CASE v # w
    <3>1. issued'[v] <=> issued[v]
      BY <1>0, <2>1, <2>4 DEF TypeOK, AccountTypeOK
    <3> QED
      BY <2>1, <3>1, Zenon DEF Touched
  <2> QED
    BY <2>3, <2>4
<1>7. ASSUME NEW s \in Slots, NEW w \in Users, NEW r \in Roles \cup {None},
             NEW on \in {"same", "on", "off"}, UpdateMember(s, w, r, on) PROVE Goal
  <2>1. PICK x : x = IF r \in {None, SeenRole(s, w)} THEN role[w] ELSE r
    OBVIOUS
  <2>2. PICK b : b = IF on = "same" \/ w = request[s].actor THEN active[w] ELSE on = "on"
    OBVIOUS
  <2>3. /\ Serving(s) /\ Finish(s) /\ Colleague(s, w)
        /\ (SeenRole(s, w) = "founder" /\ (r # None \/ on # "same")) => request[s].as = "founder"
        /\ r = "founder" => request[s].as = "founder"
        /\ role' = [role EXCEPT ![w] = x] /\ active' = [active EXCEPT ![w] = b]
        /\ issued' = issued
    BY <1>7, <2>1, <2>2, Zenon DEF UpdateMember, ServingManager
  <2>4. Served(s)
    BY <1>0, <2>3, ServedBy
  <2>5. CASE v # w
    <3>1. role'[v] = role[v] /\ (active'[v] <=> active[v])
      BY <1>0, <2>3, <2>5 DEF TypeOK, AccountTypeOK
    <3> QED
      BY <2>3, <3>1, Zenon DEF Touched
  <2>6. CASE v = w /\ request[s].actor = v
    BY <2>3, <2>4, <2>6 DEF ByFounder, Serving
  <2>7. CASE v = w /\ request[s].actor # v
    <3>1. SeenRole(s, w) = role[v]
      BY <2>7 DEF SeenRole
    <3>2. role'[v] = x /\ active'[v] = b
      BY <1>0, <2>3, <2>7 DEF TypeOK, AccountTypeOK
    <3>3. r = None => x = role[v]
      BY <2>1, <2>7, Zenon
    <3>4. on = "same" => b = active[v]
      BY <2>2, <2>7, Zenon
    <3>5. r # "founder" => x = role[v] \/ x # "founder"
      BY <2>1, <2>7, Zenon
    <3>6. request[s].as = "founder"
      <4>1. CASE role[v] = "founder" /\ (r # None \/ on # "same")
        BY <2>3, <3>1, <4>1
      <4>2. CASE r = None /\ on = "same"
        BY <2>3, <3>2, <3>3, <3>4, <4>2, Zenon DEF Touched
      <4>3. CASE role[v] # "founder" /\ (r # None \/ on # "same")
        <5>1. role'[v] = "founder"
          BY <4>3 DEF Touched
        <5>2. r = "founder"
          BY <3>2, <3>5, <4>3, <5>1
        <5> QED
          BY <2>3, <5>2
      <4> QED
        BY <4>1, <4>2, <4>3
    <3> QED
      BY <2>3, <2>4, <3>6 DEF ByFounder, Serving
  <2> QED
    BY <2>5, <2>6, <2>7
<1>8. ASSUME NEW s \in Slots, ChangePassword(s) PROVE Goal
  <2>1. PICK w : w = request[s].actor
    OBVIOUS
  <2>2. Serving(s) /\ issued' = [issued EXCEPT ![w] = FALSE] /\ role' = role /\ active' = active
    BY <1>8, <2>1, Zenon DEF ChangePassword
  <2>3. issued'[v] => issued[v]
    BY <1>0, <2>2 DEF TypeOK, AccountTypeOK
  <2> QED
    BY <2>2, <2>3, Zenon DEF Touched
<1>9. ASSUME NEW s \in Slots, Answer(s) PROVE Goal
  BY <1>9, <1>u, Zenon DEF Answer
<1>10. ASSUME NEW s \in Slots, NEW d \in Devices, RegisterDevice(s, d) PROVE Goal
  <2>1. UNCHANGED <<role, org, email, active, issued, made>>
    BY <1>10, Zenon DEF RegisterDevice
  <2> QED
    BY <1>w, <2>1
<1>11. ASSUME Tick PROVE Goal
  <2>1. UNCHANGED accounts
    BY <1>11 DEF Tick
  <2> QED
    BY <1>u, <2>1 DEF accounts
<1>12. ASSUME NEW s \in Slots,
              CheckInRead(s) \/ CheckInCommit(s) \/ CheckInLost(s) \/ CheckOut(s) PROVE Goal
  <2>1. UNCHANGED account
    BY <1>12, Zenon DEF CheckInRead, CheckInCommit, CheckInLost, CheckOut, Others
  <2> QED
    BY <1>u, <2>1
<1>13. ASSUME NEW s \in Slots, NEW d \in Days, CloseOwn(s, d) PROVE Goal
  BY <1>13, <1>u, Zenon DEF CloseOwn, Others
<1>14. ASSUME NEW s \in Slots, NEW d \in Days, NEW u \in Users, NEW t \in Time,
              Correct(s, u, d, t) PROVE Goal
  BY <1>14, <1>u, Zenon DEF Correct, Others
<1>15. ASSUME UNCHANGED vars PROVE Goal
  BY <1>15, <1>u DEF vars, accounts
<1> HIDE DEF Goal
<1>16. ASSUME AccountsNext PROVE Goal
  BY <1>1, <1>2, <1>3, <1>4, <1>5, <1>6, <1>7, <1>8, <1>9, <1>10, <1>16, Zenon DEF AccountsNext
<1>17. Goal
  BY <1>11, <1>12, <1>13, <1>14, <1>15, <1>16, Zenon DEF Next
<1> QED
  BY <1>17 DEF Goal

\* Whoever stops being a founder, is switched off as one, has a password issued
\* as one, or becomes one, does so by a founder's request or his own.
THEOREM FoundersCorrect == Spec => FoundersByFounders
<1>1. IInv /\ [Next]_vars => [\A v \in Users : Touched(v) => ByFounder(v)]_accounts
  BY FounderStep
<1>2. Spec => [][\A v \in Users : Touched(v) => ByFounder(v)]_accounts
  BY <1>1, InvCorrect, PTL DEF Spec
<1> QED
  BY <1>2, PTL DEF FoundersByFounders, Touched, ByFounder
=============================================================================
