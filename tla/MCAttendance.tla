----------------------------- MODULE MCAttendance -----------------------------
(* A small instance of Attendance, and with it of Accounts, for TLC: what may *)
(* be exchanged for each other without a difference.                          *)
EXTENDS Attendance, TLC

\* Nothing tells the accounts apart but the first founder's, nor the slots, the
\* addresses and the organisations.
Alike == Permutations(Users \ {Boss}) \cup Permutations(Slots)
           \cup Permutations(Emails) \cup Permutations(Orgs)
===============================================================================
