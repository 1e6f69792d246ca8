------------------------------- MODULE Attendance -------------------------------
(***************************************************************************)
(* Shifts: app/api/attendance.py, on top of the accounts of Accounts.      *)
(*   check_in, check_out, close_own_shift, correct_attendance,             *)
(*   _effective_checkout, _hours_worked                                    *)
(*                                                                         *)
(* There is one Attendance row per person and local (IST) day, the day of  *)
(* its check-in.  Time is counted in units of a fraction of a day and      *)
(* jumps forward; a request may take any time between the dependency that  *)
(* admits it and its body.                                                 *)
(***************************************************************************)
EXTENDS Accounts

CONSTANTS
  DayLength,   \* units of time in a local day
  MaxShift,    \* MAX_SHIFT_HOURS, in the same units
  Horizon      \* bound: the last instant

ASSUME AttendanceAssumption ==
  /\ DayLength \in Nat \ {0}
  /\ MaxShift \in 1 .. DayLength
  /\ Horizon \in Nat
  /\ None \notin Nat

VARIABLES
  clock,      \* now
  shift,      \* [Users -> [Days -> the Attendance row]]
  fixed,      \* [Users -> [Days -> has a manager set this row's check-out?]]
  begun       \* [Users -> [Days -> check-ins that were answered 200]]

attendance == <<clock, shift, fixed, begun>>
vars       == <<accounts, attendance>>

DayOf(t) == t \div DayLength        \* _today_ist
Today    == DayOf(clock)
Days     == 0 .. DayOf(Horizon)
Time     == 0 .. Horizon
NoRow    == [in |-> None, out |-> None]
Looked   == [step : {"check in"}, actor : Users, day : Days, at : Time]

TypeOK ==
  /\ AccountTypeOK
  /\ request \in [Slots -> {Idle} \cup In \cup New \cup Looked]
  /\ clock \in Time
  /\ shift \in [Users -> [Days -> [in : Time \cup {None}, out : Time \cup {None}]]]
  /\ fixed \in [Users -> [Days -> BOOLEAN]]
  /\ begun \in [Users -> [Days -> Nat]]

Init ==
  /\ AccountsInit
  /\ clock = 0
  /\ shift = [u \in Users |-> [d \in Days |-> NoRow]]
  /\ fixed = [u \in Users |-> [d \in Days |-> FALSE]]
  /\ begun = [u \in Users |-> [d \in Days |-> 0]]

Tick == \E t \in (clock + 1) .. Horizon :
          clock' = t /\ UNCHANGED <<accounts, shift, fixed, begun>>

Row(u, d)  == shift[u][d].in # None
Open(u, d) == Row(u, d) /\ shift[u][d].out = None
Out(u, d, t) == shift' = [shift EXCEPT ![u][d].out = t]
Others     == <<account, made, clock, begun>>

-----------------------------------------------------------------------------
\* check_in finds no row for today.  (A row without a check-in is never stored,
\* and an existing one means 409.)
CheckInRead(s) ==
  LET u == request[s].actor
  IN  /\ Serving(s) /\ ~Row(u, Today)
      /\ Hold(s, [step |-> "check in", actor |-> u, day |-> Today, at |-> clock])
      /\ UNCHANGED <<account, made, served, attendance>>

\* The row and its notification are committed.
CheckInCommit(s) ==
  LET r == request[s]
  IN  /\ r.step = "check in" /\ ~Row(r.actor, r.day)
      /\ shift' = [shift EXCEPT ![r.actor][r.day].in = r.at]
      /\ begun' = [begun EXCEPT ![r.actor][r.day] = @ + 1]
      /\ Finish(s)
      /\ UNCHANGED <<account, made, clock, fixed>>

\* Mutation: the loser of the race overwrites the row and is answered 200.
CheckInAgain(s) ==
  LET r == request[s]
  IN  /\ r.step = "check in" /\ Row(r.actor, r.day)
      /\ shift' = [shift EXCEPT ![r.actor][r.day].in = r.at]
      /\ begun' = [begun EXCEPT ![r.actor][r.day] = @ + 1]
      /\ Finish(s)
      /\ UNCHANGED <<account, made, clock, fixed>>

\* IntegrityError on (user, date): 409, and no notification either.
CheckInLost(s) ==
  LET r == request[s]
  IN  /\ r.step = "check in" /\ Row(r.actor, r.day)
      /\ Finish(s)
      /\ UNCHANGED <<account, made, attendance>>

\* Mutation: an earlier check-out of today is replaced.
CheckOutAgain(s) ==
  LET u == request[s].actor
  IN  /\ Serving(s) /\ Row(u, Today)
      /\ Out(u, Today, clock)
      /\ Finish(s)
      /\ UNCHANGED <<Others, fixed>>

\* check_out: today's row only, and only once.  Not capped.
CheckOut(s) ==
  LET u == request[s].actor
  IN  /\ Serving(s) /\ Open(u, Today)
      /\ Out(u, Today, clock)
      /\ Finish(s)
      /\ UNCHANGED <<Others, fixed>>

Earlier(t, x) == IF t < x THEN t ELSE x

\* Mutation: a shift of an earlier day is closed at the present time.
CloseNow(s, d) ==
  LET u == request[s].actor
  IN  /\ Serving(s) /\ Open(u, d)
      /\ Out(u, d, clock)
      /\ Finish(s)
      /\ UNCHANGED <<Others, fixed>>

\* Mutation: every close lands on the cap, past or future.
CloseAtCap(s, d) ==
  LET u == request[s].actor
  IN  /\ Serving(s) /\ Open(u, d)
      /\ Out(u, d, shift[u][d].in + MaxShift)
      /\ Finish(s)
      /\ UNCHANGED <<Others, fixed>>

\* close_own_shift: any open row of the caller's, at the present time or at the
\* cap, whichever comes first.
CloseOwn(s, d) ==
  LET u == request[s].actor
  IN  /\ Serving(s) /\ Open(u, d)
      /\ Out(u, d, Earlier(clock, shift[u][d].in + MaxShift))
      /\ Finish(s)
      /\ UNCHANGED <<Others, fixed>>

\* correct_attendance: a manager sets a check-out after the check-in and not in
\* the future, whatever there was.
Correct(s, u, d, t) ==
  /\ ServingManager(s) /\ Colleague(s, u) /\ Row(u, d)
  /\ t \in (shift[u][d].in + 1) .. clock
  /\ Out(u, d, t)
  /\ fixed' = [fixed EXCEPT ![u][d] = TRUE]
  /\ Finish(s)
  /\ UNCHANGED Others

Next ==
  \/ AccountsNext /\ UNCHANGED attendance
  \/ Tick
  \/ \E s \in Slots :
       \/ CheckInRead(s) \/ CheckInCommit(s) \/ CheckInLost(s) \/ CheckOut(s)
       \/ \E d \in Days : \/ CloseOwn(s, d)
                          \/ \E u \in Users, t \in Time : Correct(s, u, d, t)

Spec == Init /\ [][Next]_vars

-----------------------------------------------------------------------------
(* What is reported *)

\* _effective_checkout: the real check-out, or the cap once it has passed.
Effective(u, d) ==
  CASE ~Open(u, d)                                         -> shift[u][d].out
    [] Open(u, d) /\ clock - shift[u][d].in >= MaxShift    -> shift[u][d].in + MaxShift
    [] OTHER                                               -> None

\* _hours_worked
Hours(u, d) == Effective(u, d) - shift[u][d].in

Reported(u, d) == Effective(u, d) # None

-----------------------------------------------------------------------------
(* Safety *)

\* However many invitations and registrations race for an e-mail address one is
\* answered 201, and however often the app taps, retries or races a day is begun
\* once.
AnsweredOnce ==
  /\ \A e \in Emails : made[e] <= 1
  /\ \A u \in Users, d \in Days : begun[u][d] <= 1

\* Hours nobody has corrected are never negative and never above the cap,
\* except for a shift its owner ended on the very day he began it.
HoursHonest ==
  \A u \in Users, d \in Days :
    Reported(u, d) /\ ~fixed[u][d] =>
      /\ Hours(u, d) >= 0
      /\ Hours(u, d) <= MaxShift \/ DayOf(shift[u][d].out) = d

\* What a manager has corrected stays as he left it until a manager corrects it
\* again: no late check-out or close of the telecaller's app replaces it.
CorrectionSticks ==
  [][\A u \in Users, d \in Days :
       fixed[u][d] /\ shift'[u][d] # shift[u][d] =>
         \E s \in Slots : Served(s) /\ Manager(request[s].as)]_vars

=============================================================================
