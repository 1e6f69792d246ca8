------------------------------ MODULE DurableQueue ------------------------------
(***************************************************************************)
(* What the processing_jobs table promises of the upload pipeline,         *)
(* whatever crashes and re-dispatches happen below it (the docstrings of   *)
(* ProcessingJob and recover_stuck_jobs, app/models.py and                 *)
(* app/api/calls.py): a queued call is attempted at most MaxAttempts       *)
(* times, "done" is final, a failure is not (until the attempts are used   *)
(* up), and no call stays pending for ever.                                *)
(***************************************************************************)
EXTENDS Naturals

CONSTANTS Calls, MaxAttempts

VARIABLES
  phase,   \* [Calls -> where the call is in the promise]
  tries    \* [Calls -> attempts started]

qvars == <<phase, tries>>

QTypeOK ==
  /\ phase \in [Calls -> {"absent", "pending", "done", "failed", "gone"}]
  /\ tries \in [Calls -> 0 .. MaxAttempts]

QInit ==
  /\ phase = [c \in Calls |-> "absent"]
  /\ tries = [c \in Calls |-> 0]

Enqueue(c) ==
  /\ phase[c] = "absent"
  /\ phase' = [phase EXCEPT ![c] = "pending"]
  /\ UNCHANGED tries

\* A first or a further attempt.
Attempt(c) ==
  /\ phase[c] \in {"pending", "failed"}
  /\ tries[c] < MaxAttempts
  /\ phase' = [phase EXCEPT ![c] = "pending"]
  /\ tries' = [tries EXCEPT ![c] = @ + 1]

Complete(c) ==
  /\ phase[c] = "pending"
  /\ tries[c] > 0
  /\ phase' = [phase EXCEPT ![c] = "done"]
  /\ UNCHANGED tries

Fail(c) ==
  /\ phase[c] = "pending"
  /\ phase' = [phase EXCEPT ![c] = "failed"]
  /\ UNCHANGED tries

\* Start-up recovery fails several exhausted calls in one commit.
FailExhaustedCalls(S) ==
  /\ \A c \in S : phase[c] = "pending" /\ tries[c] = MaxAttempts
  /\ phase' = [c \in Calls |-> IF c \in S THEN "failed" ELSE phase[c]]
  /\ UNCHANGED tries

\* The call itself is deleted by a user.
Forget(c) ==
  /\ phase[c] # "gone"
  /\ phase' = [phase EXCEPT ![c] = "gone"]
  /\ UNCHANGED tries

\* What still runs for a forgotten call may go on counting its attempts.
AttemptForgotten(c) ==
  /\ phase[c] = "gone"
  /\ tries[c] < MaxAttempts
  /\ tries' = [tries EXCEPT ![c] = @ + 1]
  /\ UNCHANGED phase

QNext ==
  \/ \E c \in Calls : \/ Enqueue(c) \/ Attempt(c) \/ Complete(c) \/ Fail(c)
                      \/ Forget(c) \/ AttemptForgotten(c)
  \/ \E S \in SUBSET Calls : FailExhaustedCalls(S)

\* A pending call is eventually completed, failed or deleted.
QSettles == \A c \in Calls : phase[c] = "pending" ~> phase[c] # "pending"

QSpec == QInit /\ [][QNext]_qvars /\ QSettles
=============================================================================
