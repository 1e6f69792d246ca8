--------------------------- MODULE CallPipelineProofs ---------------------------
(***************************************************************************)
(* Proofs about CallPipeline, for any number of calls, recordings,         *)
(* incarnations, attempts and database failures.                           *)
(***************************************************************************)
EXTENDS CallPipeline, TLAPS

-----------------------------------------------------------------------------
(* Typing *)

\* The three helpers that write a job or count a failure keep their types.
LEMMA SetJobType ==
  ASSUME TypeOK, NEW c \in Calls, NEW status \in {"queued", "running", "done", "failed"},
         NEW inc \in Nat, NEW path \in BOOLEAN, SetJob(c, status, inc, path)
  PROVE  job' \in [Calls -> Job] /\ blips' \in 0 .. MaxBlips /\ lost' \in [Calls -> Nat]
<1>1. job[c].attempts + inc \in Nat
  BY DEF TypeOK, Job
<1>2. (job[c].path \/ path) \in BOOLEAN
  OBVIOUS
<1>3. [status |-> status, attempts |-> job[c].attempts + inc,
       path |-> job[c].path \/ path] \in Job
  BY <1>1, <1>2 DEF Job
<1>4. CASE job' = [job EXCEPT ![c] = [status |-> status,
                                      attempts |-> job[c].attempts + inc,
                                      path |-> job[c].path \/ path]]
           /\ UNCHANGED <<blips, lost>>
  BY <1>3, <1>4 DEF TypeOK
<1>5. CASE Blip /\ lost' = [lost EXCEPT ![c] = @ + 1] /\ UNCHANGED job
  BY <1>5, PipelineAssumption DEF TypeOK, Blip
<1>6. QED
  BY <1>4, <1>5 DEF SetJob

\* A counted failure stays within its bound.
LEMMA BlipType == TypeOK /\ Blip => blips' \in 0 .. MaxBlips
BY PipelineAssumption DEF TypeOK, Blip

\* A stage change keeps the type of the workers.
LEMMA GotoType ==
  ASSUME TypeOK, NEW p \in Servers, NEW c \in Calls, NEW s \in Stage, Goto(p, c, s)
  PROVE  worker' \in [Servers -> [Calls -> Stage]]
BY DEF TypeOK, Goto

\* The initial state is well typed.
LEMMA InitType == Init => TypeOK
BY PipelineAssumption
DEF Init, TypeOK, NoUpload, NoJob, Resting, Upload, Job, Stage, RerunStage,
    Transcript, Analysis, Servers

\* The process and the upload handler.
LEMMA ProcessType ==
  ASSUME TypeOK, NEW p \in Servers,
         Process(p) \/ SkipRecovery(p) \/ Crash(p)
  PROVE  TypeOK'
<1>1. CASE Start(p)
  BY <1>1 DEF TypeOK, Start, rows
<1>2. CASE FailExhausted(p)
  <2>1. job' \in [Calls -> Job]
    BY <1>2 DEF TypeOK, FailExhausted, Job
  <2>2. QED
    BY <1>2, <2>1 DEF TypeOK, FailExhausted
<1>3. CASE Dispatch(p)
  BY <1>3 DEF TypeOK, Dispatch, rows, Stage
<1>4. CASE SkipRecovery(p)
  BY <1>4, BlipType DEF TypeOK, SkipRecovery, rows
<1>5. CASE Crash(p)
  BY <1>5 DEF TypeOK, Crash, rows, Resting, Stage, RerunStage, NoUpload, Upload
<1>6. QED
  BY <1>1, <1>2, <1>3, <1>4, <1>5 DEF Process

\* The upload handler; its call and item are known once it has begun.
LEMMA UploadType ==
  ASSUME TypeOK, NEW p \in Servers,
         \/ UploadStep(p) \/ UploadFails(p)
         \/ \E r \in Recordings : UploadDuplicate(p, r)
         \/ \E c \in Calls, r \in Recordings : UploadBegin(p, c, r)
  PROVE  TypeOK'
<1>1. ASSUME NEW c \in Calls, NEW r \in Recordings, UploadBegin(p, c, r)
      PROVE  TypeOK'
  BY <1>1 DEF TypeOK, UploadBegin, Upload, Servers
<1>2. ASSUME NEW r \in Recordings, UploadDuplicate(p, r)
      PROVE  TypeOK'
  BY <1>2 DEF TypeOK, UploadDuplicate, threads
<1>3. CASE UploadStore(p)
  <2>1. upload[p].call \in Calls /\ upload[p].item \in Recordings
    BY <1>3 DEF TypeOK, UploadStore, Upload, NoUpload
  <2>2. upload[p] \in [phase : {"checked", "stored"}, call : Calls, item : Recordings]
    BY <1>3 DEF TypeOK, UploadStore, Upload, NoUpload
  <2>3. [upload[p] EXCEPT !.phase = "stored"] \in Upload
    BY <2>2 DEF Upload
  <2>4. upload' \in [Servers -> Upload]
    BY <1>3, <2>3 DEF TypeOK, UploadStore
  <2>5. QED
    BY <1>3, <2>1, <2>4 DEF TypeOK, UploadStore
<1>4. CASE UploadQueue(p)
  <2>1. upload[p].call \in Calls /\ upload[p].item \in Recordings
    BY <1>4 DEF TypeOK, UploadQueue, Upload, NoUpload
  <2>2. job' \in [Calls -> Job] /\ blips' \in 0 .. MaxBlips /\ lost' \in [Calls -> Nat]
    BY <1>4, <2>1, SetJobType DEF UploadQueue
  <2>3. QED
    BY <1>4, <2>1, <2>2 DEF TypeOK, UploadQueue, Upload, NoUpload, Stage
<1>5. CASE UploadFails(p)
  BY <1>5 DEF TypeOK, UploadFails, rows, Upload, NoUpload
<1>6. QED
  BY <1>1, <1>2, <1>3, <1>4, <1>5 DEF UploadStep

-----------------------------------------------------------------------------
\* The worker: every action moves one stage and writes at most one row.
LEMMA WorkerType ==
  ASSUME TypeOK, NEW p \in Servers, NEW c \in Calls,
         WorkerStep(p, c) \/ WorkerBreaks(p, c)
  PROVE  TypeOK'
<1> USE DEF TypeOK
<1>1. CASE Guard(p, c)
  <2>1. job' \in [Calls -> Job] /\ blips' \in 0 .. MaxBlips /\ lost' \in [Calls -> Nat]
    BY <1>1, SetJobType DEF Guard
  <2>2. worker' \in [Servers -> [Calls -> Stage]]
    BY <1>1, GotoType DEF Guard, Stage
  <2>3. QED
    BY <1>1, <2>1, <2>2 DEF Guard
<1>2. CASE ResolveFails(p, c)
  <2>1. job' \in [Calls -> Job] /\ blips' \in 0 .. MaxBlips /\ lost' \in [Calls -> Nat]
    BY <1>2, SetJobType DEF ResolveFails
  <2>2. worker' \in [Servers -> [Calls -> Stage]]
    BY <1>2, GotoType DEF ResolveFails, Stage
  <2>3. QED
    BY <1>2, <2>1, <2>2 DEF ResolveFails
<1>3. CASE BeginTranscribe(p, c)
  <2>1. job' \in [Calls -> Job] /\ blips' \in 0 .. MaxBlips /\ lost' \in [Calls -> Nat]
    BY <1>3, SetJobType DEF BeginTranscribe
  <2>2. worker' \in [Servers -> [Calls -> Stage]]
    BY <1>3, GotoType DEF BeginTranscribe, Stage
  <2>3. starts' \in [Calls -> Nat]
    BY <1>3 DEF BeginTranscribe
  <2>4. QED
    BY <1>3, <2>1, <2>2, <2>3 DEF BeginTranscribe
<1>4. CASE SaveTranscript(p, c)
  <2>1. worker' \in [Servers -> [Calls -> Stage]]
    BY <1>4, GotoType DEF SaveTranscript, Stage
  <2>2. transcript' \in [Calls -> Transcript]
    BY <1>4, PipelineAssumption DEF SaveTranscript, SttAnswers, Transcript
  <2>3. QED
    BY <1>4, <2>1, <2>2 DEF SaveTranscript
<1>5. CASE MarkFailed(p, c)
  <2>1. job' \in [Calls -> Job] /\ blips' \in 0 .. MaxBlips /\ lost' \in [Calls -> Nat]
    BY <1>5, SetJobType DEF MarkFailed
  <2>2. worker' \in [Servers -> [Calls -> Stage]]
    BY <1>5, GotoType DEF MarkFailed, Stage
  <2>3. QED
    BY <1>5, <2>1, <2>2 DEF MarkFailed
<1>6. CASE ClaimAnalysis(p, c)
  <2>1. worker' \in [Servers -> [Calls -> Stage]]
    BY <1>6, GotoType DEF ClaimAnalysis, Stage
  <2>2. QED
    BY <1>6, <2>1 DEF ClaimAnalysis, Analysis
<1>7. CASE BeginAnalyse(p, c)
  <2>1. job' \in [Calls -> Job] /\ blips' \in 0 .. MaxBlips /\ lost' \in [Calls -> Nat]
    BY <1>7, SetJobType DEF BeginAnalyse
  <2>2. worker' \in [Servers -> [Calls -> Stage]]
    BY <1>7, GotoType DEF BeginAnalyse, Stage
  <2>3. QED
    BY <1>7, <2>1, <2>2 DEF BeginAnalyse
<1>8. CASE RecordAnalysis(p, c)
  <2>1. worker' \in [Servers -> [Calls -> Stage]]
    BY <1>8, GotoType DEF RecordAnalysis, Stage
  <2>2. analysis' \in [Calls -> Analysis]
    BY <1>8, PipelineAssumption DEF RecordAnalysis, Analysis
  <2>3. QED
    BY <1>8, <2>1, <2>2 DEF RecordAnalysis
<1>9. CASE CallVanished(p, c)
  <2>1. worker' \in [Servers -> [Calls -> Stage]]
    BY <1>9, GotoType DEF CallVanished, Stage
  <2>2. QED
    BY <1>9, <2>1 DEF CallVanished, rows
<1>10. CASE BeginMemory(p, c)
  <2>1. job' \in [Calls -> Job] /\ blips' \in 0 .. MaxBlips /\ lost' \in [Calls -> Nat]
    BY <1>10, SetJobType DEF BeginMemory
  <2>2. worker' \in [Servers -> [Calls -> Stage]]
    BY <1>10, GotoType DEF BeginMemory, Stage
  <2>3. QED
    BY <1>10, <2>1, <2>2 DEF BeginMemory
<1>11. CASE BuildMemory(p, c)
  <2>1. worker' \in [Servers -> [Calls -> Stage]]
    BY <1>11, GotoType DEF BuildMemory, Stage
  <2>2. QED
    BY <1>11, <2>1 DEF BuildMemory, rows
<1>12. CASE Finish(p, c)
  <2>1. job' \in [Calls -> Job] /\ blips' \in 0 .. MaxBlips /\ lost' \in [Calls -> Nat]
    BY <1>12, SetJobType DEF Finish
  <2>2. worker' \in [Servers -> [Calls -> Stage]]
    BY <1>12, GotoType DEF Finish, Stage
  <2>3. QED
    BY <1>12, <2>1, <2>2 DEF Finish
<1>13. CASE WorkerBreaks(p, c)
  <2>1. worker' \in [Servers -> [Calls -> Stage]]
    BY <1>13, GotoType DEF WorkerBreaks, Stage
  <2>2. QED
    BY <1>13, <2>1, BlipType DEF WorkerBreaks, rows
<1>14. CASE StoreMemory(p, c)
  <2>1. worker' \in [Servers -> [Calls -> Stage]]
    BY <1>14, GotoType DEF StoreMemory, Stage
  <2>2. QED
    BY <1>14, <2>1 DEF StoreMemory
<1>15. QED
  BY <1>1, <1>2, <1>3, <1>4, <1>5, <1>6, <1>7, <1>8, <1>9, <1>10, <1>11, <1>12,
     <1>13, <1>14 DEF WorkerStep

\* Opening a lead only touches the bubble row.
LEMMA OpenLeadType ==
  ASSUME TypeOK, NEW p \in Servers, OpenLead(p)
  PROVE  TypeOK'
BY DEF TypeOK, OpenLead, threads

\* The manual re-run and the deletion of a call.
LEMMA HandlerType ==
  ASSUME TypeOK, NEW p \in Servers, NEW c \in Calls,
         RerunBegin(p, c) \/ RerunStep(p, c) \/ Delete(p, c)
  PROVE  TypeOK'
<1> USE DEF TypeOK
<1>1. CASE RerunBegin(p, c)
  BY <1>1 DEF RerunBegin, RerunStage, Analysis
<1>2. CASE RerunRecord(p, c)
  <2>1. analysis' \in [Calls -> Analysis]
    BY <1>2, PipelineAssumption DEF RerunRecord, Analysis
  <2>2. rerun' \in [Servers -> [Calls -> RerunStage]]
    <3>1. \E stage \in RerunStage : rerun' = [rerun EXCEPT ![p][c] = stage]
      BY <1>2, Zenon DEF RerunRecord, RerunStage
    <3>2. QED
      BY <3>1
  <2>3. QED
    BY <1>2, <2>1, <2>2 DEF RerunRecord
<1>3. CASE RerunRemember(p, c)
  BY <1>3 DEF RerunRemember, RerunStage
<1>4. CASE Delete(p, c)
  BY <1>4 DEF Delete, threads, Transcript, Analysis
<1>5. QED
  BY <1>1, <1>2, <1>3, <1>4 DEF RerunStep

\* Every step preserves the types.
LEMMA NextType == TypeOK /\ [Next]_vars => TypeOK'
<1> SUFFICES ASSUME TypeOK, [Next]_vars PROVE TypeOK'
  OBVIOUS
<1>1. CASE UNCHANGED vars
  BY <1>1 DEF TypeOK, vars
<1>2. ASSUME NEW p \in Servers,
             Process(p) \/ UploadStep(p) \/ Trouble(p) \/ Users(p)
      PROVE  TypeOK'
  <2>1. CASE Process(p)
    BY <2>1, ProcessType
  <2>2. CASE UploadStep(p)
    BY <2>2, UploadType
  <2>3. CASE Trouble(p)
    BY <2>3, ProcessType, UploadType, WorkerType DEF Trouble
  <2>4. CASE Users(p)
    BY <2>4, UploadType, HandlerType, OpenLeadType DEF Users
  <2>5. QED
    BY <1>2, <2>1, <2>2, <2>3, <2>4
<1>3. ASSUME NEW p \in Servers, NEW c \in Calls, WorkerStep(p, c) \/ RerunStep(p, c)
      PROVE  TypeOK'
  BY <1>3, WorkerType, HandlerType
<1>4. QED
  BY <1>1, <1>2, <1>3 DEF Next

\* Every row, every thread and every handler of the pipeline keeps its shape
\* under all interleavings, crashes and database failures.
THEOREM TypeCorrect == Spec => []TypeOK
BY InitType, NextType, PTL DEF Spec

-----------------------------------------------------------------------------
(* The inductive invariant of the pipeline *)

\* Only the newest incarnation is not dead.
NewestOnly ==
  \A p, q \in Servers : p < q /\ server[q] # "unborn" => server[p] = "dead"

\* Handlers and workers belong to a server that takes requests.
OnlyUpWorks ==
  \A p \in Servers :
    server[p] # "up" => upload[p].phase = "idle" /\ worker[p] = Resting

\* Nobody has touched the job of a call id that was not issued yet, or whose
\* upload has not reached its job row.
Untouched(c) == job[c] = NoJob /\ \A q \in Servers : worker[q][c] = "idle"

FreshUntouched == \A c \in Calls \ issued : Untouched(c)

UploadsUntouched ==
  \A p \in Servers : upload[p].phase # "idle" =>
    upload[p].call \in issued /\ Untouched(upload[p].call)

\* The cap, with the attempt a worker is about to count already reserved.
Reserved ==
  \A c \in Calls :
    /\ job[c].attempts <= MaxAttempts
    /\ \A p \in Servers :
         worker[p][c] \in {"guard", "resolve"} => job[c].attempts < MaxAttempts

IInv == TypeOK /\ NewestOnly /\ OnlyUpWorks /\ FreshUntouched /\ UploadsUntouched /\ Reserved

\* A worker past its guard processes a call that is not analysed, unless
\* somebody re-runs its analysis by hand.
PastGuard ==
  /\ \A p \in Servers, c \in Unaided :
       worker[p][c] \in {"resolve", "transcribe", "saved", "claimed", "analyse"}
         => analysis[c] # "completed"
  /\ \A p \in Servers, c \in Calls : rerun[p][c] # "idle" => c \in Rerunnable

\* Initially nothing has started and no job exists.
LEMMA InitIInv == Init => IInv
<1> SUFFICES ASSUME Init PROVE IInv
  OBVIOUS
<1>1. TypeOK
  BY InitType
<1>2. \A c \in Calls : Untouched(c)
  BY DEF Init, Untouched, Resting
<1>3. NewestOnly /\ OnlyUpWorks /\ UploadsUntouched
  BY PipelineAssumption
  DEF Init, NewestOnly, OnlyUpWorks, UploadsUntouched, NoUpload, Servers
<1>4. Reserved
  <2>1. \A c \in Calls : job[c].attempts = 0
    BY DEF Init, NoJob
  <2>2. 0 <= MaxAttempts /\ 0 < MaxAttempts
    BY PipelineAssumption
  <2>3. QED
    BY <2>1, <2>2 DEF Reserved
<1>5. QED
  BY <1>1, <1>2, <1>3, <1>4 DEF IInv, FreshUntouched

\* Two servers that both take requests are the same one.
LEMMA OneUp ==
  ASSUME TypeOK, NewestOnly, NEW p \in Servers, NEW q \in Servers,
         server[p] = "up", server[q] = "up"
  PROVE  p = q
<1>1. p \in Nat /\ q \in Nat
  BY PipelineAssumption DEF Servers
<1>2. ~(p < q) /\ ~(q < p)
  BY DEF NewestOnly
<1>3. QED
  BY <1>1, <1>2

\* No other call's job row changes.
OthersKept(c) == \A d \in Calls \ {c} : job'[d] = job[d]

\* Writing a job touches one row and adds at most inc to its attempts.
LEMMA SetJobEffect ==
  ASSUME TypeOK, NEW c \in Calls, NEW status, NEW inc \in Nat, NEW path,
         SetJob(c, status, inc, path)
  PROVE  /\ OthersKept(c)
         /\ job'[c].attempts \in {job[c].attempts, job[c].attempts + inc}
BY DEF SetJob, TypeOK, Job, OthersKept

\* Every job write but the one of BeginTranscribe leaves the attempts alone.
LEMMA SetJobKeepsAttempts ==
  ASSUME TypeOK, NEW c \in Calls, NEW status, NEW path, SetJob(c, status, 0, path)
  PROVE  OthersKept(c) /\ job'[c].attempts = job[c].attempts
<1>1. job[c].attempts + 0 = job[c].attempts
  BY DEF TypeOK, Job
<1>2. QED
  BY <1>1, SetJobEffect

\* A worker acts on its own stage and its own job only; its one step that
\* counts an attempt leaves "resolve", and no step of it leads to "guard".
Moves(p, c) ==
  /\ worker[p][c] # "idle"
  /\ UNCHANGED <<server, upload, rerun, issued>>
  /\ \E s \in Stage \ {"guard"} :
       /\ Goto(p, c, s)
       /\ s = "resolve" => worker[p][c] = "guard" /\ UNCHANGED job
  /\ OthersKept(c)
  /\ \/ job'[c].attempts = job[c].attempts
     \/ worker[p][c] = "resolve" /\ job'[c].attempts = job[c].attempts + 1

LEMMA WorkerMoves ==
  ASSUME TypeOK, NEW p \in Servers, NEW c \in Calls,
         WorkerStep(p, c) \/ WorkerBreaks(p, c)
  PROVE  Moves(p, c)
<1>1. CASE Guard(p, c)
  <2>1. CASE analysis[c] = "completed"
    <3>1. SetJob(c, "done", 0, FALSE)
      BY <1>1, <2>1 DEF Guard
    <3>2. OthersKept(c) /\ job'[c].attempts = job[c].attempts
      BY <3>1, SetJobKeepsAttempts
    <3>3. QED
      BY <1>1, <2>1, <3>2 DEF Guard, Moves, Stage
  <2>2. CASE analysis[c] # "completed"
    BY <1>1, <2>2 DEF Guard, Moves, Stage, OthersKept
  <2>3. QED
    BY <2>1, <2>2
<1>2. CASE ResolveFails(p, c)
  <2>1. SetJob(c, "failed", 0, FALSE)
    BY <1>2 DEF ResolveFails
  <2>2. OthersKept(c) /\ job'[c].attempts = job[c].attempts
    BY <2>1, SetJobKeepsAttempts
  <2>3. QED
    BY <1>2, <2>2 DEF ResolveFails, Moves, Stage
<1>3. CASE BeginTranscribe(p, c)
  <2>1. SetJob(c, "running", 1, FALSE)
    BY <1>3 DEF BeginTranscribe
  <2>2. OthersKept(c) /\ job'[c].attempts \in {job[c].attempts, job[c].attempts + 1}
    BY <2>1, SetJobEffect
  <2>3. QED
    BY <1>3, <2>2 DEF BeginTranscribe, Moves, Stage
<1>4. CASE SaveTranscript(p, c)
  BY <1>4 DEF SaveTranscript, Moves, Stage, OthersKept
<1>5. CASE MarkFailed(p, c)
  <2>1. SetJob(c, "failed", 0, FALSE)
    BY <1>5 DEF MarkFailed
  <2>2. OthersKept(c) /\ job'[c].attempts = job[c].attempts
    BY <2>1, SetJobKeepsAttempts
  <2>3. QED
    BY <1>5, <2>2 DEF MarkFailed, Moves, Stage
<1>6. CASE ClaimAnalysis(p, c)
  BY <1>6 DEF ClaimAnalysis, Moves, Stage, OthersKept
<1>7. CASE BeginAnalyse(p, c)
  <2>1. SetJob(c, "running", 0, FALSE)
    BY <1>7 DEF BeginAnalyse
  <2>2. OthersKept(c) /\ job'[c].attempts = job[c].attempts
    BY <2>1, SetJobKeepsAttempts
  <2>3. QED
    BY <1>7, <2>2 DEF BeginAnalyse, Moves, Stage
<1>8. CASE RecordAnalysis(p, c)
  BY <1>8 DEF RecordAnalysis, Moves, Stage, OthersKept
<1>9. CASE CallVanished(p, c)
  BY <1>9 DEF CallVanished, Moves, Stage, OthersKept, rows
<1>10. CASE BeginMemory(p, c)
  <2>1. SetJob(c, "running", 0, FALSE)
    BY <1>10 DEF BeginMemory
  <2>2. OthersKept(c) /\ job'[c].attempts = job[c].attempts
    BY <2>1, SetJobKeepsAttempts
  <2>3. QED
    BY <1>10, <2>2 DEF BeginMemory, Moves, Stage
<1>11. CASE BuildMemory(p, c)
  BY <1>11 DEF BuildMemory, Moves, Stage, OthersKept, rows
<1>12. CASE Finish(p, c)
  <2>1. SetJob(c, "done", 0, FALSE)
    BY <1>12 DEF Finish
  <2>2. OthersKept(c) /\ job'[c].attempts = job[c].attempts
    BY <2>1, SetJobKeepsAttempts
  <2>3. QED
    BY <1>12, <2>2 DEF Finish, Moves, Stage
<1>13. CASE WorkerBreaks(p, c)
  BY <1>13 DEF WorkerBreaks, Moves, Stage, OthersKept, rows
<1>14. CASE StoreMemory(p, c)
  BY <1>14 DEF StoreMemory, Moves, Stage, OthersKept
<1>15. QED
  BY <1>1, <1>2, <1>3, <1>4, <1>5, <1>6, <1>7, <1>8, <1>9, <1>10, <1>11, <1>12,
     <1>13, <1>14 DEF WorkerStep

\* The worker keeps the invariant: no other worker is on its call, so the
\* attempt it counts is the one its guard reserved.
LEMMA WorkerIInv ==
  ASSUME IInv, NEW p \in Servers, NEW c \in Calls,
         WorkerStep(p, c) \/ WorkerBreaks(p, c)
  PROVE  IInv'
<1>1. TypeOK /\ TypeOK'
  BY WorkerType DEF IInv
<1>2. Moves(p, c)
  BY <1>1, WorkerMoves
<1>3. PICK s \in Stage \ {"guard"} :
        Goto(p, c, s) /\ (s = "resolve" => worker[p][c] = "guard" /\ UNCHANGED job)
  BY <1>2 DEF Moves
<1>4. \A q \in Servers, d \in Calls :
        worker'[q][d] = IF q = p /\ d = c THEN s ELSE worker[q][d]
  BY <1>1, <1>3 DEF Goto, TypeOK
<1>5. server[p] = "up" /\ c \in issued
  BY <1>2 DEF Moves, IInv, OnlyUpWorks, FreshUntouched, Untouched, Resting
<1>6. \A q \in Servers : q # p => worker[q][c] = "idle"
  BY <1>1, <1>5, OneUp DEF IInv, OnlyUpWorks, Resting
<1>7. NewestOnly'
  BY <1>2 DEF IInv, NewestOnly, Moves
<1>8. OnlyUpWorks'
  BY <1>1, <1>2, <1>3, <1>5 DEF IInv, OnlyUpWorks, Moves, Goto, TypeOK
<1>9. ASSUME NEW d \in Calls, Untouched(d)
      PROVE  Untouched(d)'
  <2>1. d # c
    BY <1>2, <1>9 DEF Moves, Untouched
  <2>2. QED
    BY <1>2, <1>4, <1>9, <2>1 DEF Moves, Untouched, OthersKept
<1>10. FreshUntouched'
  BY <1>2, <1>9 DEF IInv, FreshUntouched, Moves
<1>11. UploadsUntouched'
  <2>1. ASSUME NEW q \in Servers, upload[q].phase # "idle",
               NEW d \in Calls, d = upload[q].call
        PROVE  d \in issued /\ Untouched(d)'
    BY <1>9, <2>1 DEF IInv, UploadsUntouched
  <2>2. \A q \in Servers : upload[q].phase # "idle" => upload[q].call \in Calls
    BY <1>1 DEF TypeOK, Upload, NoUpload
  <2>3. QED
    BY <1>2, <2>1, <2>2 DEF Moves, UploadsUntouched, Untouched
<1>12. Reserved'
  <2>1. SUFFICES ASSUME NEW d \in Calls
                 PROVE  /\ job'[d].attempts <= MaxAttempts
                        /\ \A q \in Servers : worker'[q][d] \in {"guard", "resolve"} =>
                             job'[d].attempts < MaxAttempts
    BY DEF Reserved
  <2>2. CASE d # c
    BY <1>2, <1>4, <2>2 DEF Moves, OthersKept, IInv, Reserved
  <2>3. CASE d = c /\ worker[p][c] \in {"guard", "resolve"}
    <3>1. job[c].attempts \in Nat /\ job[c].attempts < MaxAttempts /\ MaxAttempts \in Nat
      BY <1>1, <2>3, PipelineAssumption DEF IInv, Reserved, TypeOK, Job
    <3>2. job'[c].attempts <= MaxAttempts
      BY <1>2, <3>1 DEF Moves
    <3>3. ASSUME NEW q \in Servers, worker'[q][c] \in {"guard", "resolve"}
          PROVE  job'[c].attempts < MaxAttempts
      <4>1. q = p /\ s = "resolve"
        BY <1>3, <1>4, <1>6, <3>3
      <4>2. QED
        BY <1>3, <3>1, <4>1
    <3>4. QED
      BY <2>3, <3>2, <3>3
  <2>4. CASE d = c /\ worker[p][c] \notin {"guard", "resolve"}
    <3>1. job'[c].attempts = job[c].attempts
      BY <1>2, <2>4 DEF Moves
    <3>2. \A q \in Servers : worker'[q][c] \notin {"guard", "resolve"}
      BY <1>3, <1>4, <1>6, <2>4
    <3>3. QED
      BY <2>4, <3>1, <3>2 DEF IInv, Reserved
  <2>5. QED
    BY <2>2, <2>3, <2>4
<1>13. QED
  BY <1>1, <1>7, <1>8, <1>10, <1>11, <1>12 DEF IInv

\* Start-up, recovery and crash.  Recovery is where a call gets its next
\* worker: the incarnation is the only one, and the query checks the cap.
LEMMA ProcessIInv ==
  ASSUME IInv, NEW p \in Servers,
         Process(p) \/ SkipRecovery(p) \/ Crash(p)
  PROVE  IInv'
<1>1. TypeOK /\ TypeOK'
  BY ProcessType DEF IInv
<1>2. CASE Start(p)
  <2>1. NewestOnly'
    <3>1. SUFFICES ASSUME NEW a \in Servers, NEW b \in Servers, a < b,
                          server'[b] # "unborn"
                   PROVE  server'[a] = "dead"
      BY DEF NewestOnly
    <3>2. a # p => server'[a] = server[a]
      BY <1>1, <1>2 DEF Start, TypeOK
    <3>3. CASE b = p
      <4>1. a # p
        BY <3>1, <3>3, PipelineAssumption DEF Servers
      <4>2. QED
        BY <1>2, <3>1, <3>2, <3>3, <4>1 DEF Start
    <3>4. CASE b # p
      <4>1. server[b] # "unborn"
        BY <1>1, <1>2, <3>1, <3>4 DEF Start, TypeOK
      <4>2. server[a] = "dead"
        BY <3>1, <4>1 DEF IInv, NewestOnly
      <4>3. QED
        BY <1>2, <3>2, <4>2 DEF Start
    <3>5. QED
      BY <3>3, <3>4
  <2>2. OnlyUpWorks'
    BY <1>1, <1>2 DEF IInv, OnlyUpWorks, Start, TypeOK
  <2>3. FreshUntouched' /\ UploadsUntouched' /\ Reserved'
    BY <1>2 DEF IInv, FreshUntouched, UploadsUntouched, Reserved, Untouched, Start, rows
  <2>4. QED
    BY <1>1, <2>1, <2>2, <2>3 DEF IInv
<1>3. CASE FailExhausted(p)
  <2>1. \A c \in Calls : /\ job'[c].attempts = job[c].attempts
                         /\ job[c] = NoJob => job'[c] = NoJob
    <3>1. SUFFICES ASSUME NEW c \in Calls
                   PROVE  /\ job'[c].attempts = job[c].attempts
                          /\ job[c] = NoJob => job'[c] = NoJob
      OBVIOUS
    <3>2. job[c] \in Job
      BY <1>1 DEF TypeOK
    <3>3. job'[c] = IF /\ job[c].status \in {"queued", "running"}
                       /\ job[c].attempts >= MaxAttempts
                      THEN [job[c] EXCEPT !.status = "failed"]
                      ELSE job[c]
      BY <1>3 DEF FailExhausted
    <3>4. QED
      BY <3>2, <3>3 DEF Job, NoJob
  <2>2. NewestOnly' /\ OnlyUpWorks'
    BY <1>1, <1>3 DEF IInv, NewestOnly, OnlyUpWorks, FailExhausted, TypeOK
  <2>3. FreshUntouched'
    BY <1>3, <2>1 DEF IInv, FreshUntouched, Untouched, FailExhausted
  <2>4. UploadsUntouched'
    <3>1. \A q \in Servers : upload[q].phase # "idle" => upload[q].call \in Calls
      BY <1>1 DEF TypeOK, Upload, NoUpload
    <3>2. QED
      BY <1>3, <2>1, <3>1 DEF IInv, UploadsUntouched, Untouched, FailExhausted
  <2>5. Reserved'
    BY <1>3, <2>1 DEF IInv, Reserved, FailExhausted
  <2>6. QED
    BY <1>1, <2>2, <2>3, <2>4, <2>5 DEF IInv
<1>4. CASE Dispatch(p)
  <2>1. \A q \in Servers : server[q] # "up" \/ q = p
    <3>1. SUFFICES ASSUME NEW q \in Servers, server[q] = "up", q # p PROVE FALSE
      OBVIOUS
    <3>2. q \in Nat /\ p \in Nat
      BY PipelineAssumption DEF Servers
    <3>3. server[p] = "recovering"
      BY <1>4 DEF Dispatch
    <3>4. QED
      BY <3>1, <3>2, <3>3 DEF IInv, NewestOnly
  <2>2. \A q \in Servers : upload[q].phase = "idle" /\ worker[q] = Resting
    BY <1>4, <2>1 DEF Dispatch, IInv, OnlyUpWorks
  <2>3. \A q \in Servers, c \in Calls :
          worker'[q][c] = IF q = p /\ Stuck(c) THEN "guard" ELSE "idle"
    BY <1>1, <1>4, <2>2 DEF Dispatch, TypeOK, Resting
  <2>4. NewestOnly' /\ OnlyUpWorks'
    BY <1>1, <1>4 DEF IInv, NewestOnly, OnlyUpWorks, Dispatch, TypeOK
  <2>5. \A c \in Calls : job[c] = NoJob => ~Stuck(c)
    BY DEF Stuck, NoJob
  <2>6. FreshUntouched' /\ UploadsUntouched'
    BY <1>4, <2>2, <2>3, <2>5
    DEF IInv, FreshUntouched, UploadsUntouched, Untouched, Dispatch, rows
  <2>7. Reserved'
    BY <1>4, <2>3 DEF IInv, Reserved, Stuck, Dispatch, rows
  <2>8. QED
    BY <1>1, <2>4, <2>6, <2>7 DEF IInv
<1>5. CASE SkipRecovery(p)
  <2>1. NewestOnly' /\ OnlyUpWorks'
    BY <1>1, <1>5 DEF IInv, NewestOnly, OnlyUpWorks, SkipRecovery, TypeOK
  <2>2. FreshUntouched' /\ UploadsUntouched' /\ Reserved'
    BY <1>5
    DEF IInv, FreshUntouched, UploadsUntouched, Reserved, Untouched, SkipRecovery, rows
  <2>3. QED
    BY <1>1, <2>1, <2>2 DEF IInv
<1>6. CASE Crash(p)
  <2>1. NewestOnly' /\ OnlyUpWorks'
    BY <1>1, <1>6
    DEF IInv, NewestOnly, OnlyUpWorks, Crash, Alive, TypeOK, NoUpload, Resting
  <2>2. \A q \in Servers, c \in Calls : worker'[q][c] \in {worker[q][c], "idle"}
    BY <1>1, <1>6 DEF Crash, TypeOK, Resting
  <2>3. \A q \in Servers : upload'[q].phase # "idle" => upload'[q] = upload[q]
    BY <1>1, <1>6 DEF Crash, TypeOK, NoUpload
  <2>4. FreshUntouched'
    BY <1>6, <2>2 DEF IInv, FreshUntouched, Untouched, Crash, rows
  <2>5. UploadsUntouched'
    <3>1. \A q \in Servers : upload[q].phase # "idle" => upload[q].call \in Calls
      BY <1>1 DEF TypeOK, Upload, NoUpload
    <3>2. QED
      BY <1>6, <2>2, <2>3, <3>1 DEF IInv, UploadsUntouched, Untouched, Crash, rows
  <2>6. Reserved'
    BY <1>6, <2>2 DEF IInv, Reserved, Crash, rows
  <2>7. QED
    BY <1>1, <2>1, <2>4, <2>5, <2>6 DEF IInv
<1>7. QED
  BY <1>2, <1>3, <1>4, <1>5, <1>6 DEF Process

\* The upload: the id it issues is fresh, and the job row it writes gets its
\* worker in the same step.
LEMMA UploadIInv ==
  ASSUME IInv, NEW p \in Servers,
         \/ UploadStep(p) \/ UploadFails(p)
         \/ \E r \in Recordings : UploadDuplicate(p, r)
         \/ \E c \in Calls, r \in Recordings : UploadBegin(p, c, r)
  PROVE  IInv'
<1>1. TypeOK /\ TypeOK'
  BY UploadType DEF IInv
<1>2. \A q \in Servers : upload[q].phase # "idle" => upload[q].call \in Calls
  BY <1>1 DEF TypeOK, Upload, NoUpload
<1>3. ASSUME NEW c \in Calls, NEW r \in Recordings, UploadBegin(p, c, r)
      PROVE  IInv'
  <2>1. NewestOnly' /\ OnlyUpWorks'
    BY <1>1, <1>3 DEF IInv, NewestOnly, OnlyUpWorks, UploadBegin, TypeOK
  <2>2. FreshUntouched'
    BY <1>3 DEF IInv, FreshUntouched, Untouched, UploadBegin
  <2>3. \A q \in Servers : upload'[q] =
          IF q = p THEN [phase |-> "checked", call |-> c, item |-> r] ELSE upload[q]
    BY <1>1, <1>3 DEF UploadBegin, TypeOK
  <2>4. Untouched(c)
    BY <1>3 DEF IInv, FreshUntouched, UploadBegin
  <2>5. UploadsUntouched'
    BY <1>2, <1>3, <2>3, <2>4 DEF IInv, UploadsUntouched, Untouched, UploadBegin
  <2>6. Reserved'
    BY <1>3 DEF IInv, Reserved, UploadBegin
  <2>7. QED
    BY <1>1, <2>1, <2>2, <2>5, <2>6 DEF IInv
<1>4. ASSUME NEW r \in Recordings, UploadDuplicate(p, r)
      PROVE  IInv'
  BY <1>1, <1>4
  DEF IInv, NewestOnly, OnlyUpWorks, FreshUntouched, UploadsUntouched, Untouched,
      Reserved, UploadDuplicate, threads
<1>5. CASE UploadStore(p)
  <2>1. \A q \in Servers : /\ upload'[q].phase # "idle" => upload[q].phase # "idle"
                           /\ upload'[q].call = upload[q].call
    <3>1. SUFFICES ASSUME NEW q \in Servers
                   PROVE  /\ upload'[q].phase # "idle" => upload[q].phase # "idle"
                          /\ upload'[q].call = upload[q].call
      OBVIOUS
    <3>2. CASE q = p
      <4>1. upload[p] \in [phase : {"checked", "stored"}, call : Calls, item : Recordings]
        BY <1>1, <1>5 DEF TypeOK, UploadStore, Upload, NoUpload
      <4>2. upload'[p] = [upload[p] EXCEPT !.phase = "stored"]
        BY <1>1, <1>5 DEF TypeOK, UploadStore
      <4>3. QED
        BY <1>5, <3>2, <4>1, <4>2 DEF UploadStore
    <3>3. CASE q # p
      BY <1>1, <1>5, <3>3 DEF TypeOK, UploadStore
    <3>4. QED
      BY <3>2, <3>3
  <2>2. server[p] = "up"
    BY <1>5 DEF IInv, OnlyUpWorks, UploadStore
  <2>3. NewestOnly' /\ OnlyUpWorks'
    BY <1>1, <1>5, <2>1 DEF IInv, NewestOnly, OnlyUpWorks, UploadStore
  <2>4. FreshUntouched' /\ Reserved'
    BY <1>5 DEF IInv, FreshUntouched, Untouched, Reserved, UploadStore
  <2>5. UploadsUntouched'
    BY <1>5, <2>1 DEF IInv, UploadsUntouched, Untouched, UploadStore
  <2>6. QED
    BY <1>1, <2>3, <2>4, <2>5 DEF IInv
<1>6. CASE UploadQueue(p)
  <2> DEFINE c == upload[p].call
  <2>1. c \in Calls /\ c \in issued /\ Untouched(c) /\ server[p] = "up"
    BY <1>2, <1>6 DEF IInv, UploadsUntouched, OnlyUpWorks, UploadQueue
  <2>2. OthersKept(c) /\ job'[c].attempts = job[c].attempts
    <3>1. SetJob(c, "queued", 0, TRUE)
      BY <1>6 DEF UploadQueue
    <3>2. QED
      BY <1>1, <2>1, <3>1, SetJobKeepsAttempts
  <2>3. \A q \in Servers, d \in Calls :
          worker'[q][d] = IF q = p /\ d = c THEN "guard" ELSE worker[q][d]
    BY <1>1, <1>6, <2>1 DEF UploadQueue, TypeOK
  <2>4. \A q \in Servers : upload'[q].phase = "idle"
    <3>1. \A q \in Servers : upload'[q] = IF q = p THEN NoUpload ELSE upload[q]
      BY <1>1, <1>6 DEF UploadQueue, TypeOK
    <3>2. \A q \in Servers : q # p => upload[q].phase = "idle"
      BY <1>1, <2>1, OneUp DEF IInv, OnlyUpWorks
    <3>3. QED
      BY <3>1, <3>2 DEF NoUpload
  <2>5. NewestOnly' /\ UploadsUntouched'
    BY <1>6, <2>4 DEF IInv, NewestOnly, UploadsUntouched, UploadQueue
  <2>6. OnlyUpWorks'
    BY <1>1, <1>6, <2>1, <2>4 DEF IInv, OnlyUpWorks, UploadQueue, TypeOK
  <2>7. FreshUntouched'
    BY <1>6, <2>1, <2>2, <2>3 DEF IInv, FreshUntouched, Untouched, OthersKept, UploadQueue
  <2>8. job'[c].attempts = 0 /\ 0 < MaxAttempts /\ 0 <= MaxAttempts
    <3>1. 0 < MaxAttempts /\ 0 <= MaxAttempts
      BY PipelineAssumption
    <3>2. QED
      BY <2>1, <2>2, <3>1 DEF Untouched, NoJob
  <2>9. Reserved'
    <3> HIDE DEF c
    <3>1. ASSUME NEW d \in Calls, d # c
          PROVE  /\ job'[d].attempts <= MaxAttempts
                 /\ \A q \in Servers : worker'[q][d] \in {"guard", "resolve"} =>
                      job'[d].attempts < MaxAttempts
      BY <2>2, <2>3, <3>1 DEF IInv, Reserved, OthersKept
    <3>2. QED
      BY <2>8, <3>1 DEF Reserved
  <2>10. QED
    BY <1>1, <2>5, <2>6, <2>7, <2>9 DEF IInv
<1>7. CASE UploadFails(p)
  <2>1. \A q \in Servers : upload'[q].phase # "idle" => upload'[q] = upload[q]
    BY <1>1, <1>7 DEF TypeOK, UploadFails, NoUpload
  <2>2. NewestOnly' /\ OnlyUpWorks'
    BY <1>1, <1>7, <2>1 DEF IInv, NewestOnly, OnlyUpWorks, UploadFails
  <2>3. FreshUntouched' /\ Reserved'
    BY <1>7 DEF IInv, FreshUntouched, Untouched, Reserved, UploadFails, rows
  <2>4. UploadsUntouched'
    BY <1>7, <2>1 DEF IInv, UploadsUntouched, Untouched, UploadFails, rows
  <2>5. QED
    BY <1>1, <2>2, <2>3, <2>4 DEF IInv
<1>8. QED
  BY <1>3, <1>4, <1>5, <1>6, <1>7 DEF UploadStep

\* Re-runs, deletions and opened leads touch none of the state the invariant speaks of.
LEMMA HandlerIInv ==
  ASSUME IInv, NEW p \in Servers,
         \/ OpenLead(p)
         \/ \E c \in Calls : RerunBegin(p, c) \/ RerunStep(p, c) \/ Delete(p, c)
  PROVE  IInv'
<1>1. TypeOK'
  BY HandlerType, OpenLeadType DEF IInv
<1>2. UNCHANGED <<server, upload, worker, issued, job>>
  BY DEF RerunStep, RerunBegin, RerunRecord, RerunRemember, Delete, OpenLead, threads
<1>3. QED
  BY <1>1, <1>2
  DEF IInv, NewestOnly, OnlyUpWorks, FreshUntouched, UploadsUntouched, Untouched, Reserved

\* Every step preserves the invariant.
LEMMA NextIInv == IInv /\ [Next]_vars => IInv'
<1> SUFFICES ASSUME IInv, [Next]_vars PROVE IInv'
  OBVIOUS
<1>1. CASE UNCHANGED vars
  BY <1>1
  DEF IInv, TypeOK, NewestOnly, OnlyUpWorks, FreshUntouched, UploadsUntouched, Untouched,
      Reserved, vars
<1>2. ASSUME NEW p \in Servers,
             Process(p) \/ UploadStep(p) \/ Trouble(p) \/ Users(p)
      PROVE  IInv'
  <2>1. CASE Process(p)
    BY <2>1, ProcessIInv
  <2>2. CASE UploadStep(p)
    BY <2>2, UploadIInv
  <2>3. CASE Trouble(p)
    BY <2>3, ProcessIInv, UploadIInv, WorkerIInv DEF Trouble
  <2>4. CASE Users(p)
    BY <2>4, UploadIInv, HandlerIInv DEF Users
  <2>5. QED
    BY <1>2, <2>1, <2>2, <2>3, <2>4
<1>3. ASSUME NEW p \in Servers, NEW c \in Calls, WorkerStep(p, c) \/ RerunStep(p, c)
      PROVE  IInv'
  BY <1>3, WorkerIInv, HandlerIInv
<1>4. QED
  BY <1>1, <1>2, <1>3 DEF Next

\* Hence it holds for ever.
LEMMA Inductive == Spec => []IInv
BY InitIInv, NextIInv, PTL DEF Spec

-----------------------------------------------------------------------------
(* What the job row remembers *)

\* A step forgets nothing of a call's job: the attempts it counts and the writes
\* it lost grow together by at least n, it keeps its path, and a row that has a
\* path has a status.
Tallied(c, n) ==
  /\ job'[c].attempts + lost'[c] >= job[c].attempts + lost[c] + n
  /\ lost[c] > 0 => lost'[c] > 0
  /\ job[c].path => job'[c].path
  /\ job'[c].status = "none" => job[c].status = "none"
  /\ job'[c].path => job[c].path \/ job'[c].status # "none"

\* A write of the job is counted in the row or among the lost ones.
LEMMA SetJobTallies ==
  ASSUME TypeOK, NEW c \in Calls, NEW status \in {"queued", "running", "done", "failed"},
         NEW inc \in {0, 1}, NEW path \in BOOLEAN, SetJob(c, status, inc, path)
  PROVE  /\ Tallied(c, inc)
         /\ path => job'[c].path \/ lost'[c] > 0
         /\ \A d \in Calls \ {c} : job'[d] = job[d] /\ lost'[d] = lost[d]
<1>1. job[c].attempts \in Nat /\ job[c].path \in BOOLEAN /\ lost[c] \in Nat
  BY DEF TypeOK, Job
<1>2. CASE /\ job' = [job EXCEPT ![c] = [status   |-> status,
                                         attempts |-> job[c].attempts + inc,
                                         path     |-> job[c].path \/ path]]
           /\ UNCHANGED <<blips, lost>>
  <2>1. /\ job'[c].status = status /\ job'[c].attempts = job[c].attempts + inc
        /\ job'[c].path = (job[c].path \/ path) /\ lost'[c] = lost[c]
    BY <1>2 DEF TypeOK
  <2>2. \A d \in Calls \ {c} : job'[d] = job[d] /\ lost'[d] = lost[d]
    BY <1>2 DEF TypeOK
  <2>3. job'[c].attempts + lost'[c] >= job[c].attempts + lost[c] + inc
    BY <1>1, <2>1
  <2> QED
    BY <1>1, <2>1, <2>2, <2>3 DEF Tallied
<1>3. CASE Blip /\ lost' = [lost EXCEPT ![c] = @ + 1] /\ UNCHANGED job
  <2>1. lost'[c] = lost[c] + 1 /\ \A d \in Calls \ {c} : lost'[d] = lost[d]
    BY <1>3 DEF TypeOK
  <2> QED
    BY <1>1, <1>3, <2>1 DEF Tallied
<1> QED
  BY <1>2, <1>3 DEF SetJob

\* A transcription begins only in a step that counts it or loses a write.
LEMMA StepTallies ==
  ASSUME TypeOK, [Next]_vars
  PROVE  \A c \in Calls : \E n \in {0, 1} : starts'[c] = starts[c] + n /\ Tallied(c, n)
<1> DEFINE Goal == \A c \in Calls : \E n \in {0, 1} :
                     starts'[c] = starts[c] + n /\ Tallied(c, n)
<1>1. \A c \in Calls : job[c].attempts \in Nat /\ lost[c] \in Nat /\ starts[c] \in Nat
  BY DEF TypeOK, Job
<1>2. ASSUME NEW c \in Calls, job'[c] = job[c], lost'[c] = lost[c] PROVE Tallied(c, 0)
  BY <1>1, <1>2 DEF Tallied
<1>3. ASSUME UNCHANGED <<job, lost, starts>> PROVE Goal
  BY <1>1, <1>2, <1>3
<1>4. ASSUME NEW d \in Calls, NEW status \in {"queued", "running", "done", "failed"},
             NEW inc \in {0, 1}, NEW path \in BOOLEAN, SetJob(d, status, inc, path),
             \A c \in Calls : starts'[c] = starts[c] + (IF c = d THEN inc ELSE 0)
      PROVE  Goal
  <2>1. /\ Tallied(d, inc)
        /\ \A c \in Calls \ {d} : job'[c] = job[c] /\ lost'[c] = lost[c]
    BY <1>4, SetJobTallies
  <2>2. ASSUME NEW c \in Calls
        PROVE  \E n \in {0, 1} : starts'[c] = starts[c] + n /\ Tallied(c, n)
    <3>1. CASE c = d
      BY <1>4, <2>1, <3>1
    <3>2. CASE c # d
      BY <1>2, <1>4, <2>1, <3>2
    <3> QED
      BY <3>1, <3>2
  <2> QED
    BY <2>2
<1>5. ASSUME NEW d \in Calls, NEW status \in {"queued", "running", "done", "failed"},
             NEW path \in BOOLEAN, SetJob(d, status, 0, path), UNCHANGED starts
      PROVE  Goal
  <2>1. \A c \in Calls : starts'[c] = starts[c] + (IF c = d THEN 0 ELSE 0)
    BY <1>1, <1>5
  <2> HIDE DEF Goal
  <2> QED
    BY <1>4, <1>5, <2>1
<1>6. ASSUME NEW p \in Servers, FailExhausted(p) PROVE Goal
  <2>1. UNCHANGED <<lost, starts>>
    BY <1>6 DEF FailExhausted
  <2>2. ASSUME NEW c \in Calls PROVE Tallied(c, 0)
    <3>1. job[c] \in Job
      BY DEF TypeOK
    <3>2. job'[c] = IF /\ job[c].status \in {"queued", "running"}
                       /\ job[c].attempts >= MaxAttempts
                      THEN [job[c] EXCEPT !.status = "failed"]
                      ELSE job[c]
      BY <1>6 DEF FailExhausted
    <3>3. /\ job'[c].attempts = job[c].attempts /\ job'[c].path = job[c].path
          /\ job'[c].status \in {job[c].status, "failed"}
      BY <3>1, <3>2 DEF Job
    <3> QED
      BY <1>1, <2>1, <3>3 DEF Tallied
  <2> QED
    BY <1>1, <2>1, <2>2
<1>7. ASSUME NEW p \in Servers, UploadQueue(p) PROVE Goal
  <2>1. upload[p].call \in Calls
    BY <1>7 DEF UploadQueue, TypeOK, Upload, NoUpload
  <2>2. SetJob(upload[p].call, "queued", 0, TRUE) /\ UNCHANGED starts
    BY <1>7 DEF UploadQueue
  <2> HIDE DEF Goal
  <2> QED
    BY <1>5, <2>1, <2>2
<1>8. ASSUME NEW p \in Servers, NEW c \in Calls, BeginTranscribe(p, c) PROVE Goal
  <2>1. SetJob(c, "running", 1, FALSE) /\ starts' = [starts EXCEPT ![c] = @ + 1]
    BY <1>8 DEF BeginTranscribe
  <2>2. \A d \in Calls : starts'[d] = starts[d] + (IF d = c THEN 1 ELSE 0)
    BY <1>1, <2>1 DEF TypeOK
  <2> HIDE DEF Goal
  <2> QED
    BY <1>4, <2>1, <2>2
<1>9. ASSUME NEW p \in Servers, NEW c \in Calls,
             \/ Guard(p, c) \/ ResolveFails(p, c) \/ MarkFailed(p, c)
             \/ BeginAnalyse(p, c) \/ BeginMemory(p, c) \/ Finish(p, c)
      PROVE  Goal
  <2>1. /\ UNCHANGED starts
        /\ \/ UNCHANGED <<job, lost>>
           \/ \E s \in {"queued", "running", "done", "failed"} : SetJob(c, s, 0, FALSE)
    BY <1>9 DEF Guard, ResolveFails, MarkFailed, BeginAnalyse, BeginMemory, Finish
  <2> HIDE DEF Goal
  <2> QED
    BY <1>3, <1>5, <2>1
<1>10. ASSUME NEW p \in Servers, NEW c \in Calls,
              \/ SaveTranscript(p, c) \/ ClaimAnalysis(p, c) \/ RecordAnalysis(p, c)
              \/ CallVanished(p, c) \/ BuildMemory(p, c) \/ StoreMemory(p, c)
              \/ WorkerBreaks(p, c) \/ RerunBegin(p, c) \/ RerunStep(p, c) \/ Delete(p, c)
       PROVE  UNCHANGED <<job, lost, starts>>
  BY <1>10 DEF SaveTranscript, ClaimAnalysis, RecordAnalysis, CallVanished, BuildMemory,
               StoreMemory, WorkerBreaks, RerunBegin, RerunStep, RerunRecord, RerunRemember,
               Delete, rows, threads
<1>11. ASSUME NEW p \in Servers,
              \/ Start(p) \/ Dispatch(p) \/ SkipRecovery(p) \/ Crash(p) \/ UploadFails(p)
              \/ OpenLead(p) \/ UploadStore(p)
              \/ \E r \in Recordings : UploadDuplicate(p, r)
              \/ \E c \in Calls, r \in Recordings : UploadBegin(p, c, r)
       PROVE  UNCHANGED <<job, lost, starts>>
  BY <1>11 DEF Start, Dispatch, SkipRecovery, Crash, UploadFails, OpenLead, UploadStore,
               UploadDuplicate, UploadBegin, rows, threads
<1>12. ASSUME UNCHANGED vars PROVE Goal
  BY <1>3, <1>12 DEF vars
<1> HIDE DEF Goal
<1>13. ASSUME NEW p \in Servers, NEW c \in Calls, WorkerStep(p, c) \/ RerunStep(p, c)
       PROVE  Goal
  BY <1>3, <1>8, <1>9, <1>10, <1>13 DEF WorkerStep
<1>14. ASSUME NEW p \in Servers, Process(p) \/ UploadStep(p) \/ Trouble(p) \/ Users(p)
       PROVE  Goal
  <2>1. ASSUME UNCHANGED <<job, lost, starts>> PROVE Goal
    BY <1>3, <2>1
  <2>2. CASE Process(p) \/ UploadStep(p)
    BY <1>6, <1>7, <1>11, <2>1, <2>2 DEF Process, UploadStep
  <2>3. CASE Trouble(p) \/ Users(p)
    BY <1>10, <1>11, <2>1, <2>3 DEF Trouble, Users
  <2> QED
    BY <1>14, <2>2, <2>3
<1>15. Goal
  BY <1>12, <1>13, <1>14, Zenon DEF Next
<1> QED
  BY <1>15 DEF Goal

\* Every transcription that ever began is counted, or its count was lost.
Counted == \A c \in Calls : starts[c] <= job[c].attempts + lost[c]

LEMMA CountedInductive == Spec => [](IInv /\ Counted)
<1>1. Init => Counted
  <2>1. SUFFICES ASSUME Init, NEW c \in Calls PROVE starts[c] <= job[c].attempts + lost[c]
    BY DEF Counted
  <2>2. starts[c] = 0 /\ job[c].attempts = 0 /\ lost[c] = 0
    BY <2>1 DEF Init, NoJob
  <2> QED
    BY <2>2
<1>2. ASSUME IInv, Counted, [Next]_vars PROVE Counted'
  <2>1. SUFFICES ASSUME NEW c \in Calls PROVE starts'[c] <= job'[c].attempts + lost'[c]
    BY DEF Counted
  <2>2. TypeOK /\ TypeOK'
    BY <1>2, NextType DEF IInv
  <2>3. /\ starts[c] \in Nat /\ job[c].attempts \in Nat /\ lost[c] \in Nat
        /\ starts'[c] \in Nat /\ job'[c].attempts \in Nat /\ lost'[c] \in Nat
    BY <2>2 DEF TypeOK, Job
  <2>4. PICK n \in {0, 1} : starts'[c] = starts[c] + n /\ Tallied(c, n)
    BY <1>2, <2>2, StepTallies
  <2>5. job'[c].attempts + lost'[c] >= job[c].attempts + lost[c] + n
    BY <2>4 DEF Tallied
  <2>6. starts[c] <= job[c].attempts + lost[c]
    BY <1>2 DEF Counted
  <2> QED
    BY <2>3, <2>4, <2>5, <2>6
<1>3. QED
  BY <1>1, <1>2, Inductive, PTL DEF Spec

-----------------------------------------------------------------------------
(* The theorems *)

\* However often the process crashes or re-dispatches a call, whoever deletes it,
\* _process_uploaded_recording begins the paid transcription of one job at most
\* max_attempts times, and once more for each write of that job which the
\* database lost.
THEOREM AttemptsStayCapped == Spec => []AttemptsCapped
<1>1. IInv /\ Counted => AttemptsCapped
  <2> SUFFICES ASSUME IInv, Counted, NEW c \in Calls
               PROVE  job[c].attempts <= MaxAttempts /\ starts[c] <= MaxAttempts + lost[c]
    BY DEF AttemptsCapped
  <2>1. /\ job[c].attempts \in Nat /\ lost[c] \in Nat /\ starts[c] \in Nat
        /\ MaxAttempts \in Nat
    BY PipelineAssumption DEF IInv, TypeOK, Job
  <2>2. job[c].attempts <= MaxAttempts /\ starts[c] <= job[c].attempts + lost[c]
    BY DEF IInv, Reserved, Counted
  <2> QED
    BY <2>1, <2>2
<1>2. QED
  BY <1>1, CountedInductive, PTL

\* Start-up, recovery and crash put a worker at its guard or to rest, and end
\* re-runs.
LEMMA ProcessThreads ==
  ASSUME TypeOK, NEW p \in Servers, Process(p) \/ SkipRecovery(p) \/ Crash(p)
  PROVE  /\ UNCHANGED <<recording, transcript, analysis>>
         /\ \A q \in Servers, c \in Calls :
              /\ worker'[q][c] \in {worker[q][c], "guard", "idle"}
              /\ rerun'[q][c] \in {rerun[q][c], "idle"}
<1>1. CASE Start(p) \/ FailExhausted(p) \/ SkipRecovery(p)
  BY <1>1 DEF Start, FailExhausted, SkipRecovery, rows
<1>2. CASE Dispatch(p)
  <2>1. UNCHANGED <<recording, transcript, analysis, rerun>>
    BY <1>2 DEF Dispatch, rows
  <2>2. \A q \in Servers, c \in Calls : worker'[q][c] \in {worker[q][c], "guard", "idle"}
    BY <1>2 DEF Dispatch, TypeOK
  <2> QED
    BY <2>1, <2>2
<1>3. CASE Crash(p)
  <2>1. UNCHANGED <<recording, transcript, analysis>>
    BY <1>3 DEF Crash, rows
  <2>2. \A q \in Servers, c \in Calls : worker'[q][c] \in {worker[q][c], "idle"}
    BY <1>3 DEF Crash, TypeOK, Resting
  <2>3. \A q \in Servers, c \in Calls : rerun'[q][c] \in {rerun[q][c], "idle"}
    BY <1>3 DEF Crash, TypeOK, Resting
  <2> QED
    BY <2>1, <2>2, <2>3
<1> QED
  BY <1>1, <1>2, <1>3 DEF Process

\* One worker's step, seen from the analysis row: only the two steps that
\* write it change it, and they find a call the guard let through.
LEMMA WorkerWrites ==
  ASSUME IInv, PastGuard, NEW p \in Servers, NEW c \in Calls,
         WorkerStep(p, c) \/ WorkerBreaks(p, c)
  PROVE  /\ PastGuard'
         /\ \A d \in Unaided : analysis[d] = "completed" => analysis'[d] = "completed"
<1>1. TypeOK
  BY DEF IInv
<1>2. Moves(p, c)
  BY <1>1, WorkerMoves
<1>3. \A q \in Servers : q # p => worker[q][c] = "idle"
  <2>1. server[p] = "up"
    BY <1>2 DEF Moves, IInv, OnlyUpWorks, Resting
  <2>2. QED
    BY <1>1, <2>1, OneUp DEF IInv, OnlyUpWorks, Resting
<1> DEFINE Open == {"resolve", "transcribe", "saved", "claimed", "analyse"}
<1>4. \A d \in Calls : d # c => analysis'[d] = analysis[d]
  BY <1>1
  DEF WorkerStep, TypeOK, Guard, ResolveFails, BeginTranscribe, SaveTranscript, MarkFailed,
      ClaimAnalysis, BeginAnalyse, RecordAnalysis, CallVanished, BeginMemory, BuildMemory,
      StoreMemory, Finish, WorkerBreaks, rows
<1>5. \A q \in Servers, d \in Calls :
        q # p \/ d # c => worker'[q][d] = worker[q][d]
  BY <1>1, <1>2 DEF Moves, Goto, TypeOK
<1>6. ASSUME c \in Unaided
      PROVE  /\ analysis[c] = "completed" => analysis'[c] = "completed"
             /\ worker'[p][c] \in Open => analysis'[c] # "completed"
  <2>1. analysis[c] = "completed" => worker[p][c] \notin Open
    BY <1>6 DEF PastGuard
  <2>2. CASE Guard(p, c)
    <3>1. analysis' = analysis
      BY <2>2 DEF Guard
    <3>2. analysis[c] = "completed" => worker'[p][c] = "idle"
      BY <1>1, <2>2 DEF Guard, Goto, TypeOK
    <3>3. QED
      BY <3>1, <3>2
  <2>3. CASE ResolveFails(p, c) \/ BeginTranscribe(p, c)
    BY <1>1, <2>1, <2>3 DEF ResolveFails, BeginTranscribe, Goto, TypeOK
  <2>4. CASE SaveTranscript(p, c)
    <3>1. analysis' = analysis /\ worker[p][c] = "transcribe"
      BY <2>4 DEF SaveTranscript
    <3>2. QED
      BY <2>1, <3>1
  <2>5. CASE MarkFailed(p, c)
    BY <1>1, <2>1, <2>5 DEF MarkFailed, Goto, TypeOK
  <2>6. CASE ClaimAnalysis(p, c) \/ BeginAnalyse(p, c)
    BY <1>1, <2>1, <2>6 DEF ClaimAnalysis, BeginAnalyse, Goto, TypeOK
  <2>7. CASE RecordAnalysis(p, c)
    BY <1>1, <2>1, <2>7 DEF RecordAnalysis, Goto, TypeOK
  <2>8. CASE CallVanished(p, c) \/ WorkerBreaks(p, c)
    BY <1>1, <2>1, <2>8 DEF CallVanished, WorkerBreaks, Goto, TypeOK, rows
  <2>9. CASE BeginMemory(p, c)
    BY <1>1, <2>1, <2>9 DEF BeginMemory, Goto, TypeOK
  <2>10. CASE BuildMemory(p, c) \/ StoreMemory(p, c) \/ Finish(p, c)
    <3>1. analysis' = analysis
      BY <2>10 DEF BuildMemory, StoreMemory, Finish, rows
    <3>2. Goto(p, c, "insert") \/ Goto(p, c, "finish") \/ Goto(p, c, "idle")
      BY <2>10 DEF BuildMemory, StoreMemory, Finish
    <3>3. worker'[p][c] \in {"insert", "finish", "idle"}
      BY <1>1, <3>2 DEF Goto, TypeOK
    <3>4. QED
      BY <3>1, <3>3
  <2>11. QED
    BY <2>2, <2>3, <2>4, <2>5, <2>6, <2>7, <2>8, <2>9, <2>10, ZenonT(40) DEF WorkerStep
<1>7. \A q \in Servers, d \in Unaided : worker'[q][d] \in Open => analysis'[d] # "completed"
  <2>1. SUFFICES ASSUME NEW q \in Servers, NEW d \in Unaided, worker'[q][d] \in Open
                 PROVE  analysis'[d] # "completed"
    OBVIOUS
  <2>2. CASE d # c
    BY <1>4, <1>5, <2>1, <2>2 DEF PastGuard, Unaided
  <2>3. CASE d = c
    <3>1. q = p
      BY <1>3, <1>5, <2>1, <2>3
    <3>2. QED
      BY <1>6, <2>1, <2>3, <3>1
  <2>4. QED
    BY <2>2, <2>3
<1>8. QED
  BY <1>2, <1>4, <1>6, <1>7 DEF PastGuard, Moves, Unaided

\* A re-run by hand writes the analysis of its own call and nothing the
\* pipeline keeps of another.
LEMMA RerunFrame ==
  ASSUME TypeOK, PastGuard, NEW p \in Servers, NEW c \in Calls,
         RerunBegin(p, c) \/ RerunStep(p, c)
  PROVE  /\ UNCHANGED <<worker, recording, transcript, job, blips>>
         /\ \A d \in Unaided : analysis'[d] = analysis[d]
         /\ \A q \in Servers, d \in Calls : rerun'[q][d] # "idle" => d \in Rerunnable
<1>1. c \in Rerunnable
  BY DEF RerunBegin, RerunStep, RerunRecord, RerunRemember, PastGuard
<1>2. UNCHANGED <<worker, recording, transcript, job, blips>>
  BY DEF RerunBegin, RerunStep, RerunRecord, RerunRemember
<1>3. \A d \in Calls : d # c => analysis'[d] = analysis[d]
  BY DEF RerunBegin, RerunStep, RerunRecord, RerunRemember, TypeOK
<1>4. \A q \in Servers, d \in Calls : d # c => rerun'[q][d] = rerun[q][d]
  <2>1. CASE RerunBegin(p, c)
    BY <2>1 DEF RerunBegin, TypeOK
  <2>2. CASE RerunRecord(p, c)
    <3>1. \/ rerun' = [rerun EXCEPT ![p][c] = "idle"]
          \/ \E verdict \in {"completed"} \cup AnalysisOutcomes :
               rerun' = [rerun EXCEPT ![p][c] = IF verdict = "failed" THEN "idle"
                                                                     ELSE "remembering"]
      BY <2>2, Zenon DEF RerunRecord
    <3> QED
      BY <3>1 DEF TypeOK
  <2>3. CASE RerunRemember(p, c)
    BY <2>3 DEF RerunRemember, TypeOK
  <2> QED
    BY <2>1, <2>2, <2>3 DEF RerunStep
<1> QED
  BY <1>1, <1>2, <1>3, <1>4 DEF PastGuard, Unaided

\* The only step that reopens or drops a completed analysis that nobody re-runs
\* by hand is the deletion of its call.
LEMMA StepKeepsCompleted ==
  ASSUME IInv, PastGuard, [Next]_vars
  PROVE  /\ PastGuard'
         /\ \A c \in Unaided : analysis[c] = "completed" /\ Exists(c)' =>
              analysis'[c] = "completed"
<1>1. TypeOK
  BY DEF IInv
<1>2. ASSUME UNCHANGED <<worker, rerun, analysis>>
      PROVE  /\ PastGuard'
             /\ \A c \in Unaided : analysis[c] = "completed" => analysis'[c] = "completed"
  BY <1>2 DEF PastGuard
<1>3. CASE UNCHANGED vars
  BY <1>2, <1>3 DEF vars
<1>4. ASSUME NEW p \in Servers, Process(p) \/ SkipRecovery(p) \/ Crash(p)
      PROVE  /\ PastGuard'
             /\ \A c \in Unaided : analysis[c] = "completed" => analysis'[c] = "completed"
  <2>1. /\ analysis' = analysis
        /\ \A q \in Servers, c \in Calls :
             /\ worker'[q][c] \in {worker[q][c], "guard", "idle"}
             /\ rerun'[q][c] \in {rerun[q][c], "idle"}
    BY <1>1, <1>4, ProcessThreads
  <2>2. QED
    BY <2>1 DEF PastGuard, Unaided
<1>5. ASSUME NEW p \in Servers,
             \/ UploadStep(p) \/ UploadFails(p)
             \/ \E r \in Recordings : UploadDuplicate(p, r)
             \/ \E c \in Calls, r \in Recordings : UploadBegin(p, c, r)
             \/ OpenLead(p)
      PROVE  /\ PastGuard'
             /\ \A c \in Unaided : analysis[c] = "completed" => analysis'[c] = "completed"
  <2>1. CASE UploadQueue(p)
    <3>1. analysis' = analysis /\ rerun' = rerun
      BY <2>1 DEF UploadQueue
    <3>2. \A q \in Servers, c \in Calls : worker'[q][c] \in {worker[q][c], "guard"}
      BY <1>1, <2>1 DEF UploadQueue, TypeOK
    <3>3. QED
      BY <3>1, <3>2 DEF PastGuard, Unaided
  <2>2. CASE ~UploadQueue(p)
    BY <1>2, <1>5, <2>2
    DEF UploadStep, UploadStore, UploadFails, UploadDuplicate, UploadBegin, OpenLead, rows, threads
  <2>3. QED
    BY <2>1, <2>2
<1>6. ASSUME NEW p \in Servers, NEW c \in Calls, RerunBegin(p, c) \/ RerunStep(p, c)
      PROVE  /\ PastGuard'
             /\ \A d \in Unaided : analysis[d] = "completed" => analysis'[d] = "completed"
  BY <1>1, <1>6, RerunFrame DEF PastGuard
<1>7. ASSUME NEW p \in Servers, NEW c \in Calls, Delete(p, c)
      PROVE  /\ PastGuard'
             /\ \A d \in Unaided : analysis[d] = "completed" /\ Exists(d)' =>
                  analysis'[d] = "completed"
  BY <1>1, <1>7 DEF Delete, PastGuard, Exists, TypeOK, threads, Unaided
<1>8. ASSUME NEW p \in Servers, NEW c \in Calls, WorkerStep(p, c) \/ WorkerBreaks(p, c)
      PROVE  /\ PastGuard'
             /\ \A d \in Unaided : analysis[d] = "completed" => analysis'[d] = "completed"
  BY <1>8, WorkerWrites
<1>9. QED
  BY <1>3, <1>4, <1>5, <1>6, <1>7, <1>8 DEF Next, Trouble, Users

\* "Completed work is never redone": no schedule of crashes, re-dispatches,
\* lost job writes and deletions lets the pipeline reopen or overwrite the
\* analysis of a completed call nobody asks to re-run.
THEOREM CompletedStays == Spec => CompletedIsFinal
<1>1. Init => PastGuard
  BY DEF Init, PastGuard, Resting, Unaided
<1>2. IInv /\ PastGuard /\ [Next]_vars => PastGuard'
  BY StepKeepsCompleted
<1>3. IInv /\ PastGuard /\ [Next]_vars =>
        [\A c \in Unaided : analysis[c] = "completed" /\ Exists(c)' =>
           analysis'[c] = "completed"]_vars
  BY StepKeepsCompleted
<1>4. QED
  BY <1>1, <1>2, <1>3, Inductive, PTL DEF Spec, CompletedIsFinal

-----------------------------------------------------------------------------
(* One call per recording *)

\* While an upload has checked its recording but not stored it, no call holds
\* that recording: the check cannot have become stale.
CheckedIsFresh ==
  \A p \in Servers : upload[p].phase = "checked" =>
    \A c \in Calls : recording[c] # upload[p].item

\* The row an upload commits is the only one with its recording, because its
\* server is the only one that takes requests; nothing else adds a row.
LEMMA UploadIsFirst ==
  ASSUME IInv, CheckedIsFresh, OneCallPerRecording, [Next]_vars
  PROVE  CheckedIsFresh' /\ OneCallPerRecording'
<1>1. TypeOK
  BY DEF IInv
<1>2. ASSUME UNCHANGED recording,
             \A q \in Servers : upload'[q].phase = "checked" => upload'[q] = upload[q]
      PROVE  CheckedIsFresh' /\ OneCallPerRecording'
  BY <1>2 DEF CheckedIsFresh, OneCallPerRecording, Exists
<1>3. ASSUME UNCHANGED <<recording, upload>>
      PROVE  CheckedIsFresh' /\ OneCallPerRecording'
  BY <1>2, <1>3
<1>4. ASSUME NEW p \in Servers, UploadStore(p)
      PROVE  CheckedIsFresh' /\ OneCallPerRecording'
  <2> DEFINE d == upload[p].call
             r == upload[p].item
  <2>1. d \in Calls /\ r \in Recordings /\ upload[p].phase = "checked"
    BY <1>1, <1>4 DEF UploadStore, TypeOK, Upload, NoUpload
  <2>2. \A c \in Calls : recording[c] # r
    BY <2>1 DEF CheckedIsFresh
  <2>3. \A c \in Calls : recording'[c] = IF c = d THEN r ELSE recording[c]
    BY <1>1, <1>4 DEF UploadStore, TypeOK
  <2>4. r # None
    BY <2>1, PipelineAssumption
  <2>5. OneCallPerRecording'
    <3> HIDE DEF d, r
    <3> QED
      BY <2>1, <2>2, <2>3, <2>4 DEF OneCallPerRecording, Exists
  <2>6. \A q \in Servers : upload'[q].phase # "checked"
    <3>1. ASSUME NEW q \in Servers, q # p PROVE upload'[q].phase = "idle"
      <4>1. upload'[q] = upload[q]
        BY <1>1, <1>4, <3>1 DEF UploadStore, TypeOK
      <4>2. server[q] # "up"
        BY <1>1, <2>1, <3>1, OneUp DEF IInv, OnlyUpWorks
      <4> QED
        BY <4>1, <4>2 DEF IInv, OnlyUpWorks
    <3>2. upload[p] \in [phase : {"checked", "stored"}, call : Calls, item : Recordings]
      BY <1>1, <2>1 DEF TypeOK, Upload, NoUpload
    <3>3. upload'[p].phase = "stored"
      BY <1>1, <1>4, <3>2 DEF UploadStore, TypeOK
    <3> QED
      BY <3>1, <3>3
  <2> QED
    BY <2>5, <2>6 DEF CheckedIsFresh
<1>5. ASSUME NEW p \in Servers, UploadQueue(p) \/ UploadFails(p) \/ Crash(p)
      PROVE  CheckedIsFresh' /\ OneCallPerRecording'
  <2>1. recording' = recording /\ upload' = [upload EXCEPT ![p] = NoUpload]
    BY <1>5 DEF UploadQueue, UploadFails, Crash, rows
  <2> QED
    BY <1>1, <1>2, <2>1 DEF TypeOK, NoUpload
<1>6. ASSUME NEW p \in Servers, NEW c \in Calls, NEW r \in Recordings, UploadBegin(p, c, r)
      PROVE  CheckedIsFresh' /\ OneCallPerRecording'
  <2>1. /\ recording' = recording
        /\ \A q \in Servers : upload'[q] = IF q = p
             THEN [phase |-> "checked", call |-> c, item |-> r] ELSE upload[q]
        /\ \A d \in Calls : recording[d] # r
    BY <1>1, <1>6 DEF UploadBegin, TypeOK
  <2> QED
    BY <2>1 DEF CheckedIsFresh, OneCallPerRecording, Exists
<1>7. ASSUME NEW p \in Servers, NEW c \in Calls, Delete(p, c)
      PROVE  CheckedIsFresh' /\ OneCallPerRecording'
  <2>1. upload' = upload /\ \A d \in Calls : recording'[d] = IF d = c THEN None ELSE recording[d]
    BY <1>1, <1>7 DEF Delete, threads, TypeOK
  <2>2. \A q \in Servers : upload[q].phase = "checked" => upload[q].item # None
    BY <1>1, PipelineAssumption DEF TypeOK, Upload, NoUpload
  <2> QED
    BY <2>1, <2>2 DEF CheckedIsFresh, OneCallPerRecording, Exists
<1>8. ASSUME NEW p \in Servers,
             \/ Process(p) \/ SkipRecovery(p) \/ OpenLead(p)
             \/ \E r \in Recordings : UploadDuplicate(p, r)
      PROVE  UNCHANGED <<recording, upload>>
  BY <1>8 DEF Process, Start, FailExhausted, Dispatch, SkipRecovery, OpenLead,
              UploadDuplicate, rows, threads
<1>9. ASSUME NEW p \in Servers, NEW c \in Calls,
             WorkerStep(p, c) \/ WorkerBreaks(p, c) \/ RerunBegin(p, c) \/ RerunStep(p, c)
      PROVE  UNCHANGED <<recording, upload>>
  BY <1>9
  DEF WorkerStep, Guard, ResolveFails, BeginTranscribe, SaveTranscript, MarkFailed,
      ClaimAnalysis, BeginAnalyse, RecordAnalysis, CallVanished, BeginMemory, BuildMemory,
      StoreMemory, Finish, WorkerBreaks, RerunStep, RerunBegin, RerunRecord,
      RerunRemember, rows
<1>10. CASE UNCHANGED vars
  BY <1>3, <1>10 DEF vars
<1>11. QED
  BY <1>3, <1>4, <1>5, <1>6, <1>7, <1>8, <1>9, <1>10 DEF Next, UploadStep, Trouble, Users

\* The same recording uploaded again -- double tap, outbox retry, any crash in
\* between -- never yields a second AudioCall row.
THEOREM RecordingsStaySingle == Spec => []OneCallPerRecording
<1>1. Init => CheckedIsFresh /\ OneCallPerRecording
  BY DEF Init, CheckedIsFresh, OneCallPerRecording, Exists, NoUpload
<1>2. IInv /\ (CheckedIsFresh /\ OneCallPerRecording) /\ [Next]_vars =>
        (CheckedIsFresh /\ OneCallPerRecording)'
  BY UploadIsFirst
<1>3. QED
  BY <1>1, <1>2, Inductive, PTL DEF Spec

-----------------------------------------------------------------------------
(* Nothing fake completes *)

\* What a worker is about to analyse was transcribed into turns.
AnalysesTurns ==
  \A p \in Servers, c \in Calls :
    worker[p][c] \in {"saved", "claimed", "analyse"} /\ Exists(c) => transcript[c] = "turns"

\* A worker keeps both: it is alone on its call, and it overwrites the
\* transcript only of a call its guard found without a completed analysis.
LEMMA WorkerJudgesTurns ==
  ASSUME IInv, PastGuard, AnalysesTurns, NeverFakeCompletes, NEW p \in Servers, NEW c \in Calls,
         WorkerStep(p, c) \/ WorkerBreaks(p, c)
  PROVE  AnalysesTurns' /\ NeverFakeCompletes'
<1>1. TypeOK
  BY DEF IInv
<1>2. Moves(p, c)
  BY <1>1, WorkerMoves
<1>3. \A q \in Servers : q # p => worker[q][c] = "idle"
  <2>1. server[p] = "up"
    BY <1>2 DEF Moves, IInv, OnlyUpWorks, Resting
  <2>2. QED
    BY <1>1, <2>1, OneUp DEF IInv, OnlyUpWorks, Resting
<1>4. /\ recording' = recording
      /\ \A d \in Calls \ {c} : analysis'[d] = analysis[d] /\ transcript'[d] = transcript[d]
  BY <1>1
  DEF WorkerStep, TypeOK, Guard, ResolveFails, BeginTranscribe, SaveTranscript, MarkFailed,
      ClaimAnalysis, BeginAnalyse, RecordAnalysis, CallVanished, BeginMemory, BuildMemory,
      StoreMemory, Finish, WorkerBreaks, rows
<1>5. \A q \in Servers, d \in Calls :
        q # p \/ d # c => worker'[q][d] = worker[q][d]
  BY <1>1, <1>2 DEF Moves, Goto, TypeOK
<1> DEFINE Judging == {"saved", "claimed", "analyse"}
           Sound == /\ worker'[p][c] \in Judging /\ Exists(c) => transcript'[c] = "turns"
                    /\ c \in Unaided /\ analysis'[c] = "completed" => transcript'[c] = "turns"
<1>6. Sound
  <2>1. ASSUME UNCHANGED <<transcript, analysis>>, worker'[p][c] \notin Judging
        PROVE  Sound
    BY <2>1 DEF NeverFakeCompletes
  <2>2. CASE Guard(p, c) \/ ResolveFails(p, c) \/ BeginTranscribe(p, c) \/ MarkFailed(p, c)
    <3>1. UNCHANGED <<transcript, analysis>>
      BY <2>2 DEF Guard, ResolveFails, BeginTranscribe, MarkFailed
    <3>2. Goto(p, c, "idle") \/ Goto(p, c, "resolve") \/ Goto(p, c, "transcribe")
      BY <2>2 DEF Guard, ResolveFails, BeginTranscribe, MarkFailed
    <3>3. worker'[p][c] \notin Judging
      BY <1>1, <3>2 DEF Goto, TypeOK
    <3> QED
      BY <2>1, <3>1, <3>3
  <2>3. CASE SaveTranscript(p, c)
    <3>1. (c \in Unaided => analysis[c] # "completed") /\ analysis' = analysis
      BY <2>3 DEF SaveTranscript, PastGuard
    <3>2. worker'[p][c] \in Judging /\ Exists(c) => transcript'[c] = "turns"
      BY <1>1, <2>3 DEF SaveTranscript, Goto, TypeOK
    <3> QED
      BY <3>1, <3>2
  <2>4. CASE ClaimAnalysis(p, c)
    BY <1>1, <2>4 DEF ClaimAnalysis, TypeOK, AnalysesTurns
  <2>5. CASE BeginAnalyse(p, c)
    BY <1>1, <2>5 DEF BeginAnalyse, TypeOK, AnalysesTurns, NeverFakeCompletes
  <2>6. CASE RecordAnalysis(p, c)
    BY <1>1, <2>6 DEF RecordAnalysis, TypeOK, AnalysesTurns
  <2>7. CASE \/ CallVanished(p, c) \/ BeginMemory(p, c) \/ BuildMemory(p, c)
             \/ StoreMemory(p, c) \/ Finish(p, c) \/ WorkerBreaks(p, c)
    <3>1. UNCHANGED <<transcript, analysis>>
      BY <2>7 DEF CallVanished, BeginMemory, BuildMemory, StoreMemory, Finish, WorkerBreaks, rows
    <3>2. \E s \in {"idle", "error", "memory", "insert", "finish"} : Goto(p, c, s)
      BY <2>7, Zenon DEF CallVanished, BeginMemory, BuildMemory, StoreMemory, Finish, WorkerBreaks
    <3>3. worker'[p][c] \notin Judging
      BY <1>1, <3>2 DEF Goto, TypeOK
    <3> QED
      BY <2>1, <3>1, <3>3
  <2> HIDE DEF Sound
  <2> QED
    BY <2>2, <2>3, <2>4, <2>5, <2>6, <2>7, Zenon DEF WorkerStep
<1>7. NeverFakeCompletes'
  BY <1>4, <1>6 DEF NeverFakeCompletes, Unaided
<1>8. ASSUME NEW q \in Servers, NEW d \in Calls, worker'[q][d] \in Judging, Exists(d)'
      PROVE  transcript'[d] = "turns"
  <2>1. Exists(d)
    BY <1>4, <1>8 DEF Exists
  <2>2. CASE d # c
    BY <1>4, <1>5, <1>8, <2>1, <2>2 DEF AnalysesTurns
  <2>3. CASE d = c
    BY <1>3, <1>5, <1>6, <1>8, <2>1, <2>3
  <2> QED
    BY <2>2, <2>3
<1> QED
  BY <1>7, <1>8 DEF AnalysesTurns

\* Every other step leaves the transcripts and verdicts alone, except a
\* deletion, which clears both.
LEMMA StepJudgesTurns ==
  ASSUME IInv, PastGuard, AnalysesTurns, NeverFakeCompletes, [Next]_vars
  PROVE  AnalysesTurns' /\ NeverFakeCompletes'
<1>1. TypeOK
  BY DEF IInv
<1>2. ASSUME UNCHANGED <<recording, transcript, analysis>>,
             \A q \in Servers, c \in Calls : worker'[q][c] \in {worker[q][c], "guard", "idle"}
      PROVE  AnalysesTurns' /\ NeverFakeCompletes'
  BY <1>2 DEF AnalysesTurns, NeverFakeCompletes, Exists
<1>3. CASE UNCHANGED vars
  BY <1>2, <1>3 DEF vars
<1>4. ASSUME NEW p \in Servers,
             \/ Process(p) \/ SkipRecovery(p) \/ Crash(p) \/ UploadFails(p) \/ OpenLead(p)
             \/ \E r \in Recordings : UploadDuplicate(p, r)
             \/ \E c \in Calls, r \in Recordings : UploadBegin(p, c, r)
      PROVE  AnalysesTurns' /\ NeverFakeCompletes'
  <2>1. UNCHANGED <<recording, transcript, analysis>>
    BY <1>1, <1>4, ProcessThreads DEF UploadFails, OpenLead, UploadDuplicate, UploadBegin, rows
  <2>2. \A q \in Servers, c \in Calls : worker'[q][c] \in {worker[q][c], "guard", "idle"}
    <3>1. CASE Process(p) \/ SkipRecovery(p) \/ Crash(p)
      BY <1>1, <3>1, ProcessThreads
    <3>2. CASE ~(Process(p) \/ SkipRecovery(p) \/ Crash(p))
      BY <1>4, <3>2 DEF UploadFails, OpenLead, UploadDuplicate, UploadBegin, threads
    <3> QED
      BY <3>1, <3>2
  <2> QED
    BY <1>2, <2>1, <2>2
<1>5. ASSUME NEW p \in Servers, UploadQueue(p)
      PROVE  AnalysesTurns' /\ NeverFakeCompletes'
  <2>1. UNCHANGED <<recording, transcript, analysis>>
    BY <1>5 DEF UploadQueue
  <2>2. \A q \in Servers, c \in Calls : worker'[q][c] \in {worker[q][c], "guard", "idle"}
    BY <1>1, <1>5 DEF UploadQueue, TypeOK
  <2> QED
    BY <1>2, <2>1, <2>2
<1>6. ASSUME NEW p \in Servers, UploadStore(p)
      PROVE  AnalysesTurns' /\ NeverFakeCompletes'
  <2> DEFINE d == upload[p].call
  <2>1. d \in Calls /\ \A q \in Servers : worker[q][d] = "idle"
    BY <1>1, <1>6 DEF UploadStore, TypeOK, Upload, NoUpload, IInv, UploadsUntouched, Untouched
  <2>2. \A c \in Calls : c # d => recording'[c] = recording[c]
    BY <1>1, <1>6 DEF UploadStore, TypeOK
  <2>3. UNCHANGED <<worker, transcript, analysis>>
    BY <1>6 DEF UploadStore
  <2> HIDE DEF d
  <2> QED
    BY <2>1, <2>2, <2>3 DEF AnalysesTurns, NeverFakeCompletes, Exists
<1>7. ASSUME NEW p \in Servers, NEW c \in Calls, RerunBegin(p, c) \/ RerunStep(p, c)
      PROVE  AnalysesTurns' /\ NeverFakeCompletes'
  BY <1>1, <1>7, RerunFrame DEF AnalysesTurns, NeverFakeCompletes, Exists
<1>8. ASSUME NEW p \in Servers, NEW c \in Calls, Delete(p, c)
      PROVE  AnalysesTurns' /\ NeverFakeCompletes'
  BY <1>1, <1>8 DEF Delete, AnalysesTurns, NeverFakeCompletes, Exists, TypeOK, threads, Unaided
<1>9. ASSUME NEW p \in Servers, NEW c \in Calls, WorkerStep(p, c) \/ WorkerBreaks(p, c)
      PROVE  AnalysesTurns' /\ NeverFakeCompletes'
  BY <1>9, WorkerJudgesTurns
<1>10. QED
  BY <1>3, <1>4, <1>5, <1>6, <1>7, <1>8, <1>9 DEF Next, UploadStep, Trouble, Users

\* An empty or failed transcription never fake-completes: a completed analysis
\* nobody asks to re-run was judged from turns.
THEOREM CompletedIsJudged == Spec => []NeverFakeCompletes
<1>1. Init => PastGuard /\ AnalysesTurns /\ NeverFakeCompletes
  BY DEF Init, PastGuard, AnalysesTurns, NeverFakeCompletes, Resting, Unaided
<1>2. IInv /\ (PastGuard /\ AnalysesTurns /\ NeverFakeCompletes) /\ [Next]_vars =>
        (PastGuard /\ AnalysesTurns /\ NeverFakeCompletes)'
  BY StepKeepsCompleted, StepJudgesTurns
<1>3. QED
  BY <1>1, <1>2, Inductive, PTL DEF Spec

-----------------------------------------------------------------------------
(* What a worker leaves alone *)

\* A worker is alone on its call and writes the rows of that call only.
Frame(p, c) ==
  /\ UNCHANGED <<recording, server>>
  /\ \A q \in Servers : q # p => worker[q][c] = "idle" /\ worker'[q][c] = "idle"
  /\ \A d \in Calls : d # c =>
       /\ analysis'[d] = analysis[d] /\ transcript'[d] = transcript[d] /\ job'[d] = job[d]
       /\ \A q \in Servers : worker'[q][d] = worker[q][d]

LEMMA WorkerFrame ==
  ASSUME IInv, NEW p \in Servers, NEW c \in Calls,
         WorkerStep(p, c) \/ WorkerBreaks(p, c)
  PROVE  Frame(p, c)
<1>1. TypeOK
  BY DEF IInv
<1>2. Moves(p, c)
  BY <1>1, WorkerMoves
<1>3. \A q \in Servers, d \in Calls :
        q # p \/ d # c => worker'[q][d] = worker[q][d]
  BY <1>1, <1>2 DEF Moves, Goto, TypeOK
<1>4. \A q \in Servers : q # p => worker[q][c] = "idle"
  <2>1. server[p] = "up"
    BY <1>2 DEF Moves, IInv, OnlyUpWorks, Resting
  <2>2. QED
    BY <1>1, <2>1, OneUp DEF IInv, OnlyUpWorks, Resting
<1>5. /\ recording' = recording
      /\ \A d \in Calls : d # c =>
           analysis'[d] = analysis[d] /\ transcript'[d] = transcript[d]
  BY <1>1
  DEF WorkerStep, TypeOK, Guard, ResolveFails, BeginTranscribe, SaveTranscript, MarkFailed,
      ClaimAnalysis, BeginAnalyse, RecordAnalysis, CallVanished, BeginMemory, BuildMemory,
      StoreMemory, Finish, WorkerBreaks, rows
<1> QED
  BY <1>2, <1>3, <1>4, <1>5 DEF Frame, Moves, OthersKept

\* The whole stage change of a worker.
LEMMA GotoEffect ==
  ASSUME TypeOK, NEW p \in Servers, NEW c \in Calls, NEW s, Goto(p, c, s)
  PROVE  worker'[p][c] = s
BY DEF Goto, TypeOK

\* A job write either happens or, when the database fails, does not.
LEMMA SetJobStatus ==
  ASSUME TypeOK, NEW c \in Calls, NEW status, NEW inc \in Nat, NEW path,
         SetJob(c, status, inc, path)
  PROVE  job'[c].status \in {job[c].status, status}
BY DEF SetJob, TypeOK, Job

-----------------------------------------------------------------------------
(* Done is shown done *)

Judged(c) == Analysed(c) /\ transcript[c] = "turns"

\* No worker is left on a done call, and what is done, or past its analysis,
\* has a verdict on turns.
DoneAt(c) ==
  /\ job[c].status = "done" =>
       (\A p \in Servers : worker[p][c] = "idle") /\ (Exists(c) => Judged(c))
  /\ \A p \in Servers :
       worker[p][c] \in {"recorded", "memory", "insert", "finish"} /\ Exists(c) => Judged(c)

DoneInv == PastGuard /\ AnalysesTurns /\ NeverFakeCompletes /\ \A c \in Unaided : DoneAt(c)

LEMMA WorkerDone ==
  ASSUME IInv, DoneInv, NEW p \in Servers, NEW c \in Calls,
         WorkerStep(p, c) \/ WorkerBreaks(p, c)
  PROVE  \A d \in Unaided : DoneAt(d)'
<1>1. TypeOK /\ Moves(p, c) /\ Frame(p, c)
  BY WorkerFrame, WorkerMoves DEF IInv
<1>2. ASSUME NEW d \in Unaided, d # c PROVE DoneAt(d)'
  BY <1>1, <1>2 DEF DoneInv, DoneAt, Frame, Exists, Judged, Analysed, Unaided
<1> SUFFICES ASSUME c \in Unaided PROVE DoneAt(c)'
  BY <1>2
<1>3. job[c].status # "done"
  BY <1>1 DEF Moves, DoneInv, DoneAt
<1> DEFINE After == {"recorded", "memory", "insert", "finish"}
<1>4. ASSUME job'[c].status = "done" => worker'[p][c] = "idle" /\ (Exists(c) => Judged(c)'),
             worker'[p][c] \in After /\ Exists(c) => Judged(c)'
      PROVE  DoneAt(c)'
  <2>1. \A q \in Servers : q # p => worker'[q][c] = "idle"
    BY <1>1 DEF Frame
  <2>2. Exists(c)' = Exists(c)
    BY <1>1 DEF Frame, Exists
  <2> QED
    BY <1>4, <2>1, <2>2 DEF DoneAt
<1>5. worker[p][c] \in After /\ Exists(c) => Judged(c)
  BY DEF DoneInv, DoneAt
<1>6. DoneAt(c)'
  <2>1. CASE Guard(p, c) /\ analysis[c] = "completed"
    <3>1. worker'[p][c] = "idle"
      BY <1>1, <2>1, GotoEffect DEF Guard
    <3>2. Judged(c)'
      BY <2>1 DEF Guard, Judged, Analysed, DoneInv, NeverFakeCompletes
    <3> QED
      BY <1>4, <3>1, <3>2
  <2>2. CASE \/ Guard(p, c) /\ analysis[c] # "completed"
             \/ CallVanished(p, c) \/ SaveTranscript(p, c) \/ ClaimAnalysis(p, c)
    <3>1. job' = job
      BY <2>2 DEF Guard, CallVanished, SaveTranscript, ClaimAnalysis, rows
    <3>2. \E s \in {"resolve", "error", "idle", "saved", "silent", "claimed"} : Goto(p, c, s)
      BY <2>2, Zenon DEF Guard, CallVanished, SaveTranscript, ClaimAnalysis
    <3>3. worker'[p][c] \notin After
      BY <1>1, <3>2, GotoEffect
    <3> QED
      BY <1>3, <1>4, <3>1, <3>3
  <2>3. CASE ResolveFails(p, c) \/ BeginTranscribe(p, c) \/ MarkFailed(p, c) \/ BeginAnalyse(p, c)
    <3>1. \E s \in {"failed", "running"}, i \in {0, 1} : SetJob(c, s, i, FALSE)
      BY <2>3 DEF ResolveFails, BeginTranscribe, MarkFailed, BeginAnalyse
    <3>2. job'[c].status # "done"
      BY <1>1, <1>3, <3>1, SetJobStatus
    <3>3. \E s \in {"idle", "transcribe", "analyse"} : Goto(p, c, s)
      BY <2>3, Zenon DEF ResolveFails, BeginTranscribe, MarkFailed, BeginAnalyse
    <3>4. worker'[p][c] \notin After
      BY <1>1, <3>3, GotoEffect
    <3> QED
      BY <1>4, <3>2, <3>4
  <2>4. CASE RecordAnalysis(p, c)
    <3>1. job' = job /\ transcript' = transcript /\ worker[p][c] = "analyse" /\ Exists(c)
      BY <2>4 DEF RecordAnalysis
    <3>2. transcript'[c] = "turns"
      BY <3>1 DEF DoneInv, AnalysesTurns
    <3>3. PICK verdict \in AnalysisOutcomes :
            /\ analysis' = [analysis EXCEPT ![c] = verdict]
            /\ Goto(p, c, IF verdict = "failed" THEN "unanalysed" ELSE "recorded")
      BY <2>4 DEF RecordAnalysis
    <3>4. verdict \in {"completed", "not_relevant", "failed"}
      BY PipelineAssumption
    <3>5. analysis'[c] = verdict
          /\ worker'[p][c] = IF verdict = "failed" THEN "unanalysed" ELSE "recorded"
      BY <1>1, <3>3, GotoEffect DEF TypeOK
    <3> QED
      BY <1>3, <1>4, <3>1, <3>2, <3>4, <3>5 DEF Judged, Analysed
  <2>5. CASE BeginMemory(p, c)
    <3>1. job'[c].status # "done"
      <4>1. SetJob(c, "running", 0, FALSE)
        BY <2>5 DEF BeginMemory
      <4>2. job'[c].status \in {job[c].status, "running"}
        BY <1>1, <4>1, SetJobStatus
      <4> QED
        BY <1>3, <4>2
    <3>2. UNCHANGED <<analysis, transcript>> /\ worker[p][c] = "recorded"
      BY <2>5 DEF BeginMemory
    <3> QED
      BY <1>4, <1>5, <3>1, <3>2 DEF Judged, Analysed
  <2>6. CASE BuildMemory(p, c) \/ StoreMemory(p, c)
    <3>1. UNCHANGED <<analysis, transcript, job>> /\ worker[p][c] \in After
      BY <2>6 DEF BuildMemory, StoreMemory, rows
    <3> QED
      BY <1>3, <1>4, <1>5, <3>1 DEF Judged, Analysed
  <2>7. CASE Finish(p, c)
    <3>1. UNCHANGED <<analysis, transcript>> /\ worker[p][c] = "finish"
      BY <2>7 DEF Finish
    <3>2. worker'[p][c] = "idle"
      BY <1>1, <2>7, GotoEffect DEF Finish
    <3> QED
      BY <1>4, <1>5, <3>1, <3>2 DEF Judged, Analysed
  <2>8. CASE WorkerBreaks(p, c)
    <3>1. job' = job
      BY <2>8 DEF WorkerBreaks, rows
    <3>2. worker'[p][c] \in {"error", "idle"}
      BY <1>1, <2>8, GotoEffect DEF WorkerBreaks
    <3> QED
      BY <1>3, <1>4, <3>1, <3>2
  <2> HIDE DEF After
  <2> QED
    BY <2>1, <2>2, <2>3, <2>4, <2>5, <2>6, <2>7, <2>8 DEF WorkerStep
<1> QED
  BY <1>6

\* Outside the workers: recovery fails and dispatches unfinished jobs only, an
\* upload stores a call whose job is still untouched, a deletion takes the call.
LEMMA StepDone ==
  ASSUME IInv, DoneInv, [Next]_vars
  PROVE  \A c \in Unaided : DoneAt(c)'
<1>1. TypeOK
  BY DEF IInv
<1>2. ASSUME UNCHANGED <<recording, transcript, analysis>>,
             \A c \in Calls : job'[c].status = "done" => job[c].status = "done",
             \A q \in Servers, c \in Calls :
               \/ worker'[q][c] \in {worker[q][c], "idle"}
               \/ worker'[q][c] = "guard" /\ job'[c].status # "done"
      PROVE  \A c \in Unaided : DoneAt(c)'
  BY <1>2 DEF DoneInv, DoneAt, Exists, Judged, Analysed, Unaided
<1>3. ASSUME UNCHANGED <<recording, transcript, analysis, job, worker>>
      PROVE  \A c \in Unaided : DoneAt(c)'
  BY <1>2, <1>3
<1>4. ASSUME NEW p \in Servers, FailExhausted(p) PROVE \A c \in Unaided : DoneAt(c)'
  <2>1. UNCHANGED <<recording, transcript, analysis, worker>>
    BY <1>4 DEF FailExhausted
  <2>2. ASSUME NEW c \in Calls, job[c].status # "done" PROVE job'[c].status # "done"
    <3>1. job[c] \in Job
      BY <1>1 DEF TypeOK
    <3>2. job'[c] = IF /\ job[c].status \in {"queued", "running"}
                       /\ job[c].attempts >= MaxAttempts
                      THEN [job[c] EXCEPT !.status = "failed"]
                      ELSE job[c]
      BY <1>4 DEF FailExhausted
    <3> QED
      BY <2>2, <3>1, <3>2 DEF Job
  <2> QED
    BY <1>2, <2>1, <2>2
<1>5. ASSUME NEW p \in Servers, Dispatch(p) PROVE \A c \in Unaided : DoneAt(c)'
  <2>1. UNCHANGED <<recording, transcript, analysis, job>>
    BY <1>5 DEF Dispatch, rows
  <2>2. ASSUME NEW q \in Servers, NEW c \in Calls
        PROVE  \/ worker'[q][c] \in {worker[q][c], "idle"}
               \/ worker'[q][c] = "guard" /\ job'[c].status # "done"
    <3>1. CASE q # p
      BY <1>1, <1>5, <3>1 DEF Dispatch, TypeOK
    <3>2. CASE q = p
      <4>1. worker'[q][c] = IF Stuck(c) THEN "guard" ELSE "idle"
        BY <1>1, <1>5, <3>2 DEF Dispatch, TypeOK
      <4>2. Stuck(c) => job'[c].status # "done"
        BY <2>1 DEF Stuck
      <4> QED
        BY <4>1, <4>2
    <3> QED
      BY <3>1, <3>2
  <2> QED
    BY <1>2, <2>1, <2>2
<1>6. ASSUME NEW p \in Servers, Crash(p) PROVE \A c \in Unaided : DoneAt(c)'
  <2>1. UNCHANGED <<recording, transcript, analysis, job>>
    BY <1>6 DEF Crash, rows
  <2>2. \A q \in Servers, c \in Calls : worker'[q][c] \in {worker[q][c], "idle"}
    BY <1>1, <1>6 DEF Crash, TypeOK, Resting
  <2> QED
    BY <1>2, <2>1, <2>2
<1>7. ASSUME NEW p \in Servers, UploadQueue(p) PROVE \A c \in Unaided : DoneAt(c)'
  <2> DEFINE d == upload[p].call
  <2>1. d \in Calls /\ job[d] = NoJob
    BY <1>1, <1>7 DEF UploadQueue, TypeOK, Upload, NoUpload, IInv, UploadsUntouched, Untouched
  <2>2. UNCHANGED <<recording, transcript, analysis>>
    BY <1>7 DEF UploadQueue
  <2>3. job'[d].status # "done" /\ \A c \in Calls : c # d => job'[c] = job[c]
    <3>1. SetJob(d, "queued", 0, TRUE)
      BY <1>7 DEF UploadQueue
    <3>2. job'[d].status \in {job[d].status, "queued"} /\ OthersKept(d)
      BY <1>1, <2>1, <3>1, SetJobStatus, SetJobKeepsAttempts
    <3> QED
      BY <2>1, <3>2 DEF NoJob, OthersKept
  <2>4. \A q \in Servers, c \in Calls :
          worker'[q][c] = IF q = p /\ c = d THEN "guard" ELSE worker[q][c]
    BY <1>1, <1>7, <2>1 DEF UploadQueue, TypeOK
  <2> HIDE DEF d
  <2> QED
    BY <1>2, <2>1, <2>2, <2>3, <2>4
<1>8. ASSUME NEW p \in Servers, UploadStore(p) PROVE \A c \in Unaided : DoneAt(c)'
  <2>0. PICK d \in Calls : d = upload[p].call
    BY <1>1, <1>8 DEF UploadStore, TypeOK, Upload, NoUpload
  <2>1. job[d] = NoJob /\ \A q \in Servers : worker[q][d] = "idle"
    BY <1>8, <2>0 DEF UploadStore, IInv, UploadsUntouched, Untouched
  <2>2. \A c \in Calls : c # d => recording'[c] = recording[c]
    BY <1>1, <1>8, <2>0 DEF UploadStore, TypeOK
  <2>3. UNCHANGED <<worker, transcript, analysis, job>>
    BY <1>8 DEF UploadStore
  <2>4. DoneAt(d)'
    BY <2>1, <2>3 DEF DoneAt, NoJob
  <2>5. ASSUME NEW c \in Unaided, c # d PROVE DoneAt(c)'
    BY <2>2, <2>3, <2>5 DEF DoneInv, DoneAt, Exists, Judged, Analysed, Unaided
  <2> QED
    BY <2>4, <2>5
<1>9. ASSUME NEW p \in Servers,
             \/ Start(p) \/ SkipRecovery(p) \/ UploadFails(p) \/ OpenLead(p)
             \/ \E r \in Recordings : UploadDuplicate(p, r)
             \/ \E c \in Calls, r \in Recordings : UploadBegin(p, c, r)
      PROVE  UNCHANGED <<recording, transcript, analysis, job, worker>>
  BY <1>9 DEF Start, SkipRecovery, UploadFails, OpenLead, UploadDuplicate, UploadBegin,
              rows, threads
<1>10. ASSUME NEW p \in Servers, NEW c \in Calls, RerunBegin(p, c) \/ RerunStep(p, c)
       PROVE  \A d \in Unaided : DoneAt(d)'
  <2>1. /\ UNCHANGED <<worker, recording, transcript, job>>
        /\ \A d \in Unaided : analysis'[d] = analysis[d]
    BY <1>1, <1>10, RerunFrame DEF DoneInv
  <2> QED
    BY <2>1 DEF DoneInv, DoneAt, Exists, Judged, Analysed
<1>11. ASSUME NEW p \in Servers, NEW c \in Calls, Delete(p, c)
       PROVE  \A d \in Unaided : DoneAt(d)'
  <2>1. /\ job' = job /\ worker' = worker /\ ~Exists(c)'
        /\ \A d \in Calls : d # c =>
             /\ recording'[d] = recording[d] /\ transcript'[d] = transcript[d]
             /\ analysis'[d] = analysis[d]
    BY <1>1, <1>11 DEF Delete, Exists, TypeOK, threads
  <2> QED
    BY <2>1 DEF DoneInv, DoneAt, Exists, Judged, Analysed, Unaided
<1>12. CASE UNCHANGED vars
  BY <1>3, <1>12 DEF vars
<1>13. ASSUME NEW p \in Servers, NEW c \in Calls, WorkerStep(p, c) \/ WorkerBreaks(p, c)
       PROVE  \A d \in Unaided : DoneAt(d)'
  BY <1>13, WorkerDone
<1>14. QED
  BY <1>3, <1>4, <1>5, <1>6, <1>7, <1>8, <1>9, <1>10, <1>11, <1>12, <1>13
  DEF Next, Process, UploadStep, Trouble, Users

LEMMA DoneInductive == Spec => [](IInv /\ DoneInv)
<1>1. Init => DoneInv
  BY DEF Init, DoneInv, DoneAt, NoJob, PastGuard, AnalysesTurns, NeverFakeCompletes, Resting,
         Unaided
<1>2. IInv /\ DoneInv /\ [Next]_vars => DoneInv'
  BY StepKeepsCompleted, StepJudgesTurns, StepDone DEF DoneInv
<1>3. QED
  BY <1>1, <1>2, Inductive, PTL DEF Spec

\* "done" is shown as done: the stepper of a call nobody asks to re-run whose job
\* is done says done and not failed, whatever crashed, was re-dispatched, was
\* lost by the database or was deleted on the way.
THEOREM DoneShowsDone == Spec => []DoneIsShownDone
<1>1. DoneInv => DoneIsShownDone
  BY DEF DoneInv, DoneAt, DoneIsShownDone, Judged, Analysed, StepperDone, StepperFailed,
         TranscribeFailed, AnalyseFailed
<1>2. QED
  BY <1>1, DoneInductive, PTL

-----------------------------------------------------------------------------
(* What a lost job write can hide *)

\* A call that has a worker, or an analysis, has a job with the path of its
\* audio, unless the database lost a write of that job; and what is being
\* analysed exists.
TrackAt(c) ==
  /\ analysis[c] = "processing" => Exists(c)
  /\ job[c].path => job[c].status # "none"
  /\ analysis[c] # "none" \/ (\E p \in Servers : worker[p][c] # "idle") =>
       job[c].path \/ lost[c] > 0

TrackInv == \A c \in Unaided : TrackAt(c)

\* A step keeps track of a call as long as it hands the call to no new worker
\* and begins no analysis of it, but where the job has a path or lost a write.
LEMMA StillTracked ==
  ASSUME NEW c \in Calls, NEW n, TrackAt(c), Tallied(c, n),
         analysis'[c] = "processing" => Exists(c)',
         \/ job'[c].path \/ lost'[c] > 0
         \/ analysis[c] # "none" \/ \E p \in Servers : worker[p][c] # "idle"
         \/ analysis'[c] = "none" /\ \A p \in Servers : worker'[p][c] = "idle"
  PROVE  TrackAt(c)'
BY DEF TrackAt, Tallied

\* A worker is tracked from the start, so what it writes is.
LEMMA WorkerTracks ==
  ASSUME IInv, TrackInv, NEW p \in Servers, NEW c \in Calls,
         WorkerStep(p, c) \/ WorkerBreaks(p, c)
  PROVE  \A d \in Unaided : analysis'[d] = "processing" => Exists(d)'
<1>1. TypeOK /\ Frame(p, c)
  BY WorkerFrame DEF IInv
<1>2. \A d \in Calls : Exists(d)' = Exists(d) /\ (d # c => analysis'[d] = analysis[d])
  BY <1>1 DEF Frame, Exists
<1>3. analysis'[c] = "processing" => Exists(c) \/ analysis[c] = "processing"
  <2>1. CASE ClaimAnalysis(p, c) \/ RecordAnalysis(p, c)
    BY <2>1 DEF ClaimAnalysis, RecordAnalysis
  <2>2. CASE ~ClaimAnalysis(p, c) /\ ~RecordAnalysis(p, c)
    BY <2>2 DEF WorkerStep, Guard, ResolveFails, BeginTranscribe, SaveTranscript, MarkFailed,
                BeginAnalyse, CallVanished, BeginMemory, BuildMemory, StoreMemory, Finish,
                WorkerBreaks, rows
  <2> QED
    BY <2>1, <2>2
<1> QED
  BY <1>2, <1>3 DEF TrackInv, TrackAt, Unaided

\* Every step keeps track: an upload gives its worker a path or loses the write,
\* recovery dispatches only jobs that have one, and no job forgets its path.
LEMMA StepTracks ==
  ASSUME IInv, TrackInv, PastGuard, [Next]_vars
  PROVE  TrackInv'
<1>1. TypeOK
  BY DEF IInv
<1>2. \A c \in Calls : \E n \in {0, 1} : Tallied(c, n)
  BY <1>1, StepTallies
<1>3. ASSUME \A c \in Unaided :
               /\ analysis'[c] = "processing" => Exists(c)'
               /\ \/ job'[c].path \/ lost'[c] > 0
                  \/ analysis[c] # "none" \/ \E p \in Servers : worker[p][c] # "idle"
                  \/ analysis'[c] = "none" /\ \A p \in Servers : worker'[p][c] = "idle"
      PROVE  TrackInv'
  <2> SUFFICES ASSUME NEW c \in Unaided PROVE TrackAt(c)'
    BY DEF TrackInv
  <2>1. c \in Calls /\ TrackAt(c)
    BY DEF Unaided, TrackInv
  <2>2. PICK n \in {0, 1} : Tallied(c, n)
    BY <1>2, <2>1
  <2> QED
    BY <1>3, <2>1, <2>2, StillTracked
<1>4. ASSUME \A c \in Unaided : analysis'[c] \in {analysis[c], "none"},
             \A c \in Unaided : analysis'[c] = "processing" => recording'[c] = recording[c],
             \A c \in Unaided, q \in Servers : worker'[q][c] \in {worker[q][c], "idle"}
      PROVE  TrackInv'
  <2>1. ASSUME NEW c \in Unaided, analysis'[c] = "processing" PROVE Exists(c)'
    BY <1>4, <2>1 DEF TrackInv, TrackAt, Exists
  <2>2. ASSUME NEW c \in Unaided, analysis[c] = "none",
               \A p \in Servers : worker[p][c] = "idle"
        PROVE  analysis'[c] = "none" /\ \A p \in Servers : worker'[p][c] = "idle"
    BY <1>4, <2>2
  <2> QED
    BY <1>3, <2>1, <2>2
<1>5. ASSUME NEW p \in Servers, Dispatch(p) PROVE TrackInv'
  <2>1. UNCHANGED <<recording, analysis, job>>
    BY <1>5 DEF Dispatch, rows
  <2>2. ASSUME NEW c \in Unaided, analysis[c] = "none", ~job[c].path,
               \A q \in Servers : worker[q][c] = "idle"
        PROVE  \A q \in Servers : worker'[q][c] = "idle"
    BY <1>1, <1>5, <2>2 DEF Dispatch, TypeOK, Stuck, Unaided
  <2> QED
    BY <1>3, <2>1, <2>2 DEF TrackInv, TrackAt, Exists
<1>6. ASSUME NEW p \in Servers, UploadQueue(p) PROVE TrackInv'
  <2>1. PICK d \in Calls : d = upload[p].call
    BY <1>1, <1>6 DEF UploadQueue, TypeOK, Upload, NoUpload
  <2>2. /\ UNCHANGED <<recording, analysis>> /\ SetJob(d, "queued", 0, TRUE)
        /\ worker' = [worker EXCEPT ![p][d] = "guard"]
    BY <1>6, <2>1 DEF UploadQueue
  <2>3. job'[d].path \/ lost'[d] > 0
    BY <1>1, <2>2, SetJobTallies
  <2>4. \A q \in Servers, c \in Calls : c # d => worker'[q][c] = worker[q][c]
    BY <1>1, <2>2 DEF TypeOK
  <2> QED
    BY <1>3, <2>2, <2>3, <2>4 DEF TrackInv, TrackAt, Exists, Unaided
<1>7. ASSUME NEW p \in Servers, UploadStore(p) PROVE TrackInv'
  <2>1. PICK d \in Calls : d = upload[p].call
    BY <1>1, <1>7 DEF UploadStore, TypeOK, Upload, NoUpload
  <2>2. upload[p].item # None
    BY <1>1, <1>7, PipelineAssumption DEF UploadStore, TypeOK, Upload, NoUpload
  <2>3. \A c \in Calls : Exists(c) => Exists(c)'
    BY <1>1, <1>7, <2>1, <2>2 DEF UploadStore, TypeOK, Exists
  <2>4. UNCHANGED <<worker, analysis, job>>
    BY <1>7 DEF UploadStore
  <2> QED
    BY <1>3, <2>3, <2>4 DEF TrackInv, TrackAt, Unaided
<1>8. ASSUME UNCHANGED <<recording, analysis, worker>> PROVE TrackInv'
  BY <1>4, <1>8
<1>9. ASSUME NEW p \in Servers,
             \/ Start(p) \/ FailExhausted(p) \/ SkipRecovery(p) \/ UploadFails(p)
             \/ OpenLead(p)
             \/ \E r \in Recordings : UploadDuplicate(p, r)
             \/ \E c \in Calls, r \in Recordings : UploadBegin(p, c, r)
      PROVE  UNCHANGED <<recording, analysis, worker>>
  BY <1>9 DEF Start, FailExhausted, SkipRecovery, UploadFails, OpenLead, UploadDuplicate,
              UploadBegin, rows, threads
<1>10. ASSUME NEW p \in Servers, Crash(p) PROVE TrackInv'
  <2>1. UNCHANGED <<recording, analysis>>
    BY <1>10 DEF Crash, rows
  <2>2. \A q \in Servers, c \in Calls : worker'[q][c] \in {worker[q][c], "idle"}
    BY <1>1, <1>10 DEF Crash, TypeOK, Resting
  <2> QED
    BY <1>4, <2>1, <2>2 DEF Unaided
<1>11. ASSUME NEW p \in Servers, NEW c \in Calls, RerunBegin(p, c) \/ RerunStep(p, c)
       PROVE  TrackInv'
  <2>1. UNCHANGED <<worker, recording>> /\ \A d \in Unaided : analysis'[d] = analysis[d]
    BY <1>1, <1>11, RerunFrame
  <2> QED
    BY <1>4, <2>1
<1>12. ASSUME NEW p \in Servers, NEW c \in Calls, Delete(p, c) PROVE TrackInv'
  <2>1. /\ UNCHANGED worker /\ analysis'[c] = "none"
        /\ \A d \in Calls : d # c => recording'[d] = recording[d] /\ analysis'[d] = analysis[d]
    BY <1>1, <1>12 DEF Delete, TypeOK, threads
  <2> QED
    BY <1>4, <2>1 DEF Unaided
<1>13. ASSUME NEW p \in Servers, NEW c \in Calls, WorkerStep(p, c) \/ WorkerBreaks(p, c)
       PROVE  TrackInv'
  <2>1. worker[p][c] # "idle" /\ Frame(p, c)
    BY <1>1, <1>13, WorkerMoves, WorkerFrame DEF Moves
  <2>2. \A d \in Unaided : analysis'[d] = "processing" => Exists(d)'
    BY <1>13, WorkerTracks
  <2>3. ASSUME NEW d \in Unaided, d # c, analysis[d] = "none",
               \A q \in Servers : worker[q][d] = "idle"
        PROVE  analysis'[d] = "none" /\ \A q \in Servers : worker'[q][d] = "idle"
    BY <2>1, <2>3 DEF Frame, Unaided
  <2> QED
    BY <1>3, <2>1, <2>2, <2>3
<1>14. CASE UNCHANGED vars
  BY <1>8, <1>14 DEF vars
<1>15. QED
  BY <1>5, <1>6, <1>7, <1>8, <1>9, <1>10, <1>11, <1>12, <1>13, <1>14
  DEF Next, Process, UploadStep, Trouble, Users

\* An analysis nobody re-runs by hand that says "processing" is found again:
\* whatever crashed, was lost or was deleted, the next start-up has its job, with
\* the path of the audio and a status it looks for -- but for a call whose job
\* write the database lost, and which has no path since.
THEOREM ProcessingStaysOwned == Spec => []ProcessingIsOwned
<1>1. Init => TrackInv
  <2> SUFFICES ASSUME Init, NEW c \in Unaided PROVE TrackAt(c)
    BY DEF TrackInv
  <2>1. analysis[c] = "none" /\ ~job[c].path /\ \A p \in Servers : worker[p][c] = "idle"
    BY DEF Init, NoJob, Resting, Unaided
  <2> QED
    BY <2>1 DEF TrackAt
<1>2. IInv /\ DoneInv /\ TrackInv /\ [Next]_vars => TrackInv'
  BY StepTracks DEF DoneInv
<1>3. IInv /\ DoneInv /\ TrackInv => ProcessingIsOwned
  <2> SUFFICES ASSUME IInv, DoneInv, TrackInv, NEW c \in Unaided, analysis[c] = "processing"
               PROVE  IF job[c].path THEN job[c].status \in {"queued", "running", "failed"}
                                     ELSE lost[c] > 0
    BY DEF ProcessingIsOwned
  <2>1. job[c] \in Job
    BY DEF IInv, TypeOK, Unaided
  <2>2. /\ Exists(c) /\ (job[c].path \/ lost[c] > 0)
        /\ job[c].path => job[c].status # "none"
    BY DEF TrackInv, TrackAt
  <2>3. job[c].status # "done"
    BY <2>2 DEF DoneInv, DoneAt, Judged, Analysed, TrackInv, TrackAt
  <2> QED
    BY <2>1, <2>2, <2>3 DEF Job
<1>4. QED
  BY <1>1, <1>2, <1>3, DoneInductive, PTL DEF Spec

-----------------------------------------------------------------------------
(* The durable queue *)

\* The phase of a call, before and after a step, read off its rows.
LEMMA Phases ==
  ASSUME NEW c \in Unaided
  PROVE  /\ JobTries[c] = job[c].attempts /\ JobTries'[c] = job'[c].attempts
         /\ job[c].path /\ ~Exists(c) => JobPhase[c] = "gone"
         /\ (job[c].path => Exists(c)) =>
              /\ job[c].status \in {"queued", "running"} => JobPhase[c] = "pending"
              /\ job[c].status = "none" => JobPhase[c] = "absent"
              /\ job[c].status \in {"done", "failed"} => JobPhase[c] = job[c].status
         /\ job'[c].path /\ ~Exists(c)' => JobPhase'[c] = "gone"
         /\ (job'[c].path => Exists(c)') =>
              /\ job'[c].status \in {"queued", "running"} => JobPhase'[c] = "pending"
              /\ job'[c].status = "none" => JobPhase'[c] = "absent"
              /\ job'[c].status \in {"done", "failed"} => JobPhase'[c] = job'[c].status
BY DEF JobPhase, JobTries

\* A step of the pipeline that changes the row of one call, as the queue sees it.
LEMMA OneCallMoves ==
  ASSUME NEW c \in Unaided,
         \A d \in Unaided : d # c => job'[d] = job[d] /\ recording'[d] = recording[d]
  PROVE  /\ JobPhase' = [JobPhase EXCEPT ![c] = JobPhase'[c]]
         /\ JobTries' = [JobTries EXCEPT ![c] = JobTries'[c]]
         /\ JobPhase'[c] = JobPhase[c] => UNCHANGED JobPhase
         /\ JobTries'[c] = JobTries[c] => UNCHANGED JobTries
<1>1. \A d \in Unaided : d # c => JobPhase'[d] = JobPhase[d] /\ JobTries'[d] = JobTries[d]
  BY DEF JobPhase, JobTries, Exists
<1>2. /\ JobPhase = [d \in Unaided |-> JobPhase[d]] /\ JobPhase' = [d \in Unaided |-> JobPhase'[d]]
      /\ JobTries = [d \in Unaided |-> JobTries[d]] /\ JobTries' = [d \in Unaided |-> JobTries'[d]]
  BY DEF JobPhase, JobTries
<1> QED
  BY <1>1, <1>2, Zenon

\* What one commit of a worker does to its job row: nothing the queue sees, an
\* attempt, a failure or a completion.
QMove(c) ==
  /\ job'[c].path = job[c].path
  /\ \/ job'[c].status = job[c].status /\ job'[c].attempts = job[c].attempts
     \/ /\ job[c].status \in {"queued", "running", "failed"} /\ job'[c].status = "running"
        /\ job[c].attempts < MaxAttempts /\ job'[c].attempts = job[c].attempts + 1
     \/ /\ job[c].status \in {"queued", "running"} /\ job'[c].status = "failed"
        /\ job'[c].attempts = job[c].attempts
     \/ /\ job[c].status = "running" /\ job[c].attempts > 0 /\ job'[c].status = "done"
        /\ job'[c].attempts = job[c].attempts

LEMMA QMoveRefines ==
  ASSUME TypeOK, NEW c \in Unaided, UNCHANGED recording, OthersKept(c), QMove(c)
  PROVE  [Queue!QNext]_(Queue!qvars)
<1>1. /\ JobPhase' = [JobPhase EXCEPT ![c] = JobPhase'[c]]
      /\ JobTries' = [JobTries EXCEPT ![c] = JobTries'[c]]
      /\ JobPhase'[c] = JobPhase[c] => UNCHANGED JobPhase
      /\ JobTries'[c] = JobTries[c] => UNCHANGED JobTries
  BY OneCallMoves DEF OthersKept, Unaided
<1>2. job[c] \in Job /\ Exists(c)' = Exists(c) /\ job'[c].path = job[c].path
  BY DEF TypeOK, Exists, QMove, Unaided
<1>3. JobTries[c] = job[c].attempts /\ JobTries'[c] = job'[c].attempts
  BY Phases
<1>0. job[c].path /\ ~Exists(c) => JobPhase[c] = "gone" /\ UNCHANGED JobPhase
  <2>1. SUFFICES ASSUME job[c].path, ~Exists(c)
                 PROVE  JobPhase[c] = "gone" /\ UNCHANGED JobPhase
    OBVIOUS
  <2>2. job'[c].path /\ ~Exists(c)'
    BY <1>2, <2>1
  <2>3. JobPhase[c] = "gone" /\ JobPhase'[c] = "gone"
    BY <2>1, <2>2, Phases
  <2> QED
    BY <1>1, <2>3
<1>4. CASE job'[c].status = job[c].status /\ job'[c].attempts = job[c].attempts
  <2>1. JobPhase'[c] = JobPhase[c]
    BY <1>2, <1>4 DEF JobPhase
  <2> QED
    BY <1>1, <1>3, <1>4, <2>1 DEF Queue!qvars
<1>5. CASE /\ job[c].status \in {"queued", "running", "failed"} /\ job'[c].status = "running"
           /\ job[c].attempts < MaxAttempts /\ job'[c].attempts = job[c].attempts + 1
  <2>1. JobTries[c] < MaxAttempts /\ JobTries' = [JobTries EXCEPT ![c] = @ + 1]
    BY <1>1, <1>3, <1>5
  <2>2. CASE job[c].path /\ ~Exists(c)
    <3>1. JobPhase[c] = "gone" /\ UNCHANGED JobPhase
      BY <1>0, <2>2
    <3> QED
      BY <2>1, <3>1 DEF Queue!QNext, Queue!AttemptForgotten
  <2>3. CASE job[c].path => Exists(c)
    <3>1. JobPhase[c] \in {"pending", "failed"} /\ JobPhase'[c] = "pending"
      BY <1>2, <1>5, <2>3, Phases
    <3> QED
      BY <1>1, <2>1, <3>1 DEF Queue!QNext, Queue!Attempt
  <2> QED
    BY <2>2, <2>3
<1>6. CASE /\ job[c].status \in {"queued", "running"} /\ job'[c].status = "failed"
           /\ job'[c].attempts = job[c].attempts
  <2>1. UNCHANGED JobTries
    BY <1>1, <1>3, <1>6
  <2>2. CASE job[c].path /\ ~Exists(c)
    <3>1. UNCHANGED JobPhase
      BY <1>0, <2>2
    <3> QED
      BY <2>1, <3>1 DEF Queue!qvars
  <2>3. CASE job[c].path => Exists(c)
    <3>1. JobPhase[c] = "pending" /\ JobPhase'[c] = "failed"
      BY <1>2, <1>6, <2>3, Phases
    <3> QED
      BY <1>1, <2>1, <3>1 DEF Queue!QNext, Queue!Fail
  <2> QED
    BY <2>2, <2>3
<1>7. CASE /\ job[c].status = "running" /\ job[c].attempts > 0 /\ job'[c].status = "done"
           /\ job'[c].attempts = job[c].attempts
  <2>1. UNCHANGED JobTries /\ JobTries[c] > 0
    BY <1>1, <1>3, <1>7
  <2>2. CASE job[c].path /\ ~Exists(c)
    <3>1. UNCHANGED JobPhase
      BY <1>0, <2>2
    <3> QED
      BY <2>1, <3>1 DEF Queue!qvars
  <2>3. CASE job[c].path => Exists(c)
    <3>1. JobPhase[c] = "pending" /\ JobPhase'[c] = "done"
      BY <1>2, <1>7, <2>3, Phases
    <3> QED
      BY <1>1, <2>1, <3>1 DEF Queue!QNext, Queue!Complete
  <2> QED
    BY <2>2, <2>3
<1> QED
  BY <1>4, <1>5, <1>6, <1>7 DEF QMove

\* How a job, its worker and its analysis go together when no write is lost.
JobAt(c) ==
  /\ \A p \in Servers :
       /\ worker[p][c] \in {"guard", "resolve"} =>
            job[c].status \in {"queued", "running", "failed"}
       /\ worker[p][c] \notin {"idle", "guard", "resolve"} =>
            job[c].status = "running" /\ job[c].attempts > 0
       /\ worker[p][c] \in {"silent", "unanalysed", "error"} => analysis[c] # "completed"
       /\ worker[p][c] \in {"recorded", "memory", "insert", "finish"} =>
            analysis[c] # "processing"
  /\ analysis[c] = "completed" =>
       /\ job[c].attempts > 0
       /\ \/ job[c].status \in {"running", "done"}
          \/ job[c].status = "failed" /\ job[c].attempts >= MaxAttempts
  /\ analysis[c] = "processing" => job[c].status \in {"running", "failed"}

JobInv == PastGuard /\ \A c \in Unaided : JobAt(c)

\* Without database failures every job write happens.
LEMMA SetJobWrites ==
  ASSUME TypeOK, MaxBlips = 0, NEW c \in Calls, NEW status, NEW inc \in Nat,
         NEW path \in BOOLEAN, SetJob(c, status, inc, path)
  PROVE  /\ OthersKept(c) /\ job'[c].status = status
         /\ job'[c].attempts = job[c].attempts + inc
         /\ job'[c].path = (job[c].path \/ path)
<1>1. ~Blip
  BY DEF Blip, TypeOK
<1> QED
  BY <1>1 DEF SetJob, OthersKept, TypeOK

\* A worker's commit is a move of the queue, and keeps job, worker and analysis
\* together.
LEMMA WorkerQueue ==
  ASSUME IInv, JobInv, MaxBlips = 0, NEW p \in Servers, NEW c \in Calls,
         WorkerStep(p, c) \/ WorkerBreaks(p, c)
  PROVE  /\ \A d \in Unaided : JobAt(d)'
         /\ c \in Unaided => QMove(c)
         /\ OthersKept(c) /\ UNCHANGED recording
<1>1. TypeOK /\ Moves(p, c) /\ Frame(p, c)
  BY WorkerFrame, WorkerMoves DEF IInv
<1>2. ASSUME NEW d \in Unaided, d # c PROVE JobAt(d)'
  BY <1>1, <1>2 DEF JobInv, JobAt, Frame, Unaided
<1> SUFFICES ASSUME c \in Unaided PROVE JobAt(c)' /\ QMove(c)
  BY <1>1, <1>2 DEF Frame, Moves
<1>0. JobAt(c)
  BY DEF JobInv
<1>3. job[c].attempts \in Nat /\ job[c].path \in BOOLEAN /\ MaxAttempts \in Nat \ {0}
  BY <1>1, PipelineAssumption DEF TypeOK, Job
<1> DEFINE Kept == /\ job'[c].status = job[c].status /\ job'[c].attempts = job[c].attempts
                   /\ job'[c].path = job[c].path
           At(s) == /\ s \in {"guard", "resolve"} =>
                         job'[c].status \in {"queued", "running", "failed"}
                    /\ s \notin {"idle", "guard", "resolve"} =>
                         job'[c].status = "running" /\ job'[c].attempts > 0
                    /\ s \in {"silent", "unanalysed", "error"} => analysis'[c] # "completed"
                    /\ s \in {"recorded", "memory", "insert", "finish"} =>
                         analysis'[c] # "processing"
                    /\ analysis'[c] = "completed" =>
                         /\ job'[c].attempts > 0
                         /\ \/ job'[c].status \in {"running", "done"}
                            \/ job'[c].status = "failed" /\ job'[c].attempts >= MaxAttempts
                    /\ analysis'[c] = "processing" => job'[c].status \in {"running", "failed"}
<1>4. ASSUME NEW s, Goto(p, c, s), At(s) PROVE JobAt(c)'
  <2>1. worker'[p][c] = s /\ \A q \in Servers : q # p => worker'[q][c] = "idle"
    BY <1>1, <1>4, GotoEffect DEF Frame
  <2> QED
    BY <1>4, <2>1 DEF JobAt
<1>5. Kept => QMove(c)
  BY DEF QMove
<1>6. /\ worker[p][c] \in {"resolve", "transcribe", "saved", "claimed", "analyse"} =>
           analysis[c] # "completed"
      /\ worker[p][c] \in {"guard", "resolve"} => job[c].attempts < MaxAttempts
  BY DEF JobInv, PastGuard, Unaided, IInv, Reserved
<1>7. JobAt(c)' /\ QMove(c)
  <2>1. CASE Guard(p, c)
    <3>1. worker[p][c] = "guard" /\ analysis' = analysis
      BY <2>1 DEF Guard
    <3>2. CASE analysis[c] = "completed"
      <4>1. SetJob(c, "done", 0, FALSE) /\ Goto(p, c, "idle")
        BY <2>1, <3>2 DEF Guard
      <4>2. job'[c].status = "done" /\ job'[c].attempts = job[c].attempts + 0
            /\ job'[c].path = job[c].path
        BY <1>1, <1>3, <4>1, SetJobWrites
      <4>3. job[c].status = "running" /\ job[c].attempts > 0
        BY <1>0, <1>1, <1>3, <1>6, <3>1, <3>2 DEF JobAt
      <4> QED
        BY <1>3, <1>4, <3>1, <3>2, <4>1, <4>2, <4>3 DEF QMove
    <3>3. CASE analysis[c] # "completed"
      <4>1. job' = job /\ Goto(p, c, "resolve")
        BY <2>1, <3>3 DEF Guard
      <4> QED
        BY <1>0, <1>1, <1>4, <1>5, <3>1, <3>3, <4>1 DEF JobAt
    <3> QED
      BY <3>2, <3>3
  <2>2. CASE ResolveFails(p, c)
    <3>1. /\ worker[p][c] = "resolve" /\ analysis' = analysis
          /\ SetJob(c, "failed", 0, FALSE) /\ Goto(p, c, "idle")
      BY <2>2 DEF ResolveFails
    <3>2. job'[c].status = "failed" /\ job'[c].attempts = job[c].attempts + 0
          /\ job'[c].path = job[c].path
      BY <1>1, <1>3, <3>1, SetJobWrites
    <3>3. QMove(c)
      BY <1>0, <1>1, <1>3, <3>1, <3>2 DEF QMove, JobAt
    <3> QED
      BY <1>4, <1>6, <3>1, <3>2, <3>3
  <2>3. CASE BeginTranscribe(p, c)
    <3>1. /\ worker[p][c] = "resolve" /\ analysis' = analysis
          /\ SetJob(c, "running", 1, FALSE) /\ Goto(p, c, "transcribe")
      BY <2>3 DEF BeginTranscribe
    <3>2. job'[c].status = "running" /\ job'[c].attempts = job[c].attempts + 1
          /\ job'[c].path = job[c].path
      BY <1>1, <1>3, <3>1, SetJobWrites
    <3>3. QMove(c)
      BY <1>0, <1>1, <1>6, <3>1, <3>2 DEF QMove, JobAt
    <3> QED
      BY <1>3, <1>4, <1>6, <3>1, <3>2, <3>3
  <2>4. CASE SaveTranscript(p, c) \/ CallVanished(p, c)
    <3>1. /\ worker[p][c] \in {"transcribe", "saved", "analyse"}
          /\ analysis' = analysis /\ job' = job
      BY <2>4 DEF SaveTranscript, CallVanished, rows
    <3>2. PICK s \in {"idle", "saved", "silent", "error"} : Goto(p, c, s)
      BY <2>4, Zenon DEF SaveTranscript, CallVanished
    <3>3. At(s)
      BY <1>0, <1>1, <1>6, <3>1 DEF JobAt
    <3> QED
      BY <1>4, <1>5, <3>1, <3>2, <3>3
  <2>5. CASE MarkFailed(p, c)
    <3>1. /\ worker[p][c] \in {"silent", "unanalysed", "error"} /\ analysis' = analysis
          /\ SetJob(c, "failed", 0, FALSE) /\ Goto(p, c, "idle")
      BY <2>5 DEF MarkFailed
    <3>2. job'[c].status = "failed" /\ job'[c].attempts = job[c].attempts + 0
          /\ job'[c].path = job[c].path
      BY <1>1, <1>3, <3>1, SetJobWrites
    <3>3. job[c].status = "running" /\ analysis[c] # "completed"
      BY <1>0, <1>1, <3>1 DEF JobAt
    <3>4. QMove(c)
      BY <1>3, <3>2, <3>3 DEF QMove
    <3> QED
      BY <1>4, <3>1, <3>2, <3>3, <3>4
  <2>6. CASE ClaimAnalysis(p, c)
    <3>1. worker[p][c] = "saved" /\ job' = job /\ Goto(p, c, "claimed")
          /\ analysis'[c] = "processing"
      BY <1>1, <2>6 DEF ClaimAnalysis, TypeOK
    <3> QED
      BY <1>0, <1>1, <1>4, <1>5, <3>1 DEF JobAt
  <2>7. CASE BeginAnalyse(p, c) \/ BeginMemory(p, c)
    <3>1. /\ worker[p][c] \in {"claimed", "recorded"} /\ analysis' = analysis
          /\ SetJob(c, "running", 0, FALSE)
      BY <2>7 DEF BeginAnalyse, BeginMemory
    <3>2. job'[c].status = "running" /\ job'[c].attempts = job[c].attempts + 0
          /\ job'[c].path = job[c].path
      BY <1>1, <1>3, <3>1, SetJobWrites
    <3>3. job[c].status = "running" /\ job[c].attempts > 0
      BY <1>0, <1>1, <3>1 DEF JobAt
    <3>4. CASE BeginAnalyse(p, c)
      <4>1. worker[p][c] = "claimed" /\ Goto(p, c, "analyse")
        BY <3>4 DEF BeginAnalyse
      <4> QED
        BY <1>3, <1>4, <1>5, <1>6, <3>1, <3>2, <3>3, <4>1
    <3>5. CASE BeginMemory(p, c)
      <4>1. worker[p][c] = "recorded" /\ Goto(p, c, "memory")
        BY <3>5 DEF BeginMemory
      <4>2. analysis[c] # "processing"
        BY <1>0, <1>1, <4>1 DEF JobAt
      <4> QED
        BY <1>3, <1>4, <1>5, <3>1, <3>2, <3>3, <4>1, <4>2
    <3> QED
      BY <2>7, <3>4, <3>5
  <2>8. CASE RecordAnalysis(p, c)
    <3>1. worker[p][c] = "analyse" /\ job' = job
      BY <2>8 DEF RecordAnalysis
    <3>2. PICK verdict \in AnalysisOutcomes :
            /\ analysis' = [analysis EXCEPT ![c] = verdict]
            /\ Goto(p, c, IF verdict = "failed" THEN "unanalysed" ELSE "recorded")
      BY <2>8 DEF RecordAnalysis
    <3>3. analysis'[c] = verdict /\ verdict \in {"completed", "not_relevant", "failed"}
      BY <1>1, <3>2, PipelineAssumption DEF TypeOK
    <3>4. At(IF verdict = "failed" THEN "unanalysed" ELSE "recorded")
      BY <1>0, <1>1, <3>1, <3>3 DEF JobAt
    <3> QED
      BY <1>4, <1>5, <3>1, <3>2, <3>4
  <2>9. CASE BuildMemory(p, c) \/ StoreMemory(p, c)
    <3>1. worker[p][c] \in {"memory", "insert"} /\ analysis' = analysis /\ job' = job
      BY <2>9 DEF BuildMemory, StoreMemory, rows
    <3>2. PICK s \in {"idle", "insert", "finish"} : Goto(p, c, s)
      BY <2>9, Zenon DEF BuildMemory, StoreMemory
    <3>3. At(s)
      BY <1>0, <1>1, <3>1 DEF JobAt
    <3> QED
      BY <1>4, <1>5, <3>1, <3>2, <3>3
  <2>10. CASE Finish(p, c)
    <3>1. /\ worker[p][c] = "finish" /\ analysis' = analysis
          /\ SetJob(c, "done", 0, FALSE) /\ Goto(p, c, "idle")
      BY <2>10 DEF Finish
    <3>2. job'[c].status = "done" /\ job'[c].attempts = job[c].attempts + 0
          /\ job'[c].path = job[c].path
      BY <1>1, <1>3, <3>1, SetJobWrites
    <3>3. job[c].status = "running" /\ job[c].attempts > 0 /\ analysis[c] # "processing"
      BY <1>0, <1>1, <3>1 DEF JobAt
    <3>4. QMove(c)
      BY <1>3, <3>2, <3>3 DEF QMove
    <3> QED
      BY <1>3, <1>4, <3>1, <3>2, <3>3, <3>4
  <2>11. ~WorkerBreaks(p, c)
    BY <1>1 DEF WorkerBreaks, Blip, TypeOK
  <2> HIDE DEF Kept, At
  <2> QED
    BY <2>1, <2>2, <2>3, <2>4, <2>5, <2>6, <2>7, <2>8, <2>9, <2>10, <2>11 DEF WorkerStep
<1> QED
  BY <1>1, <1>2, <1>7 DEF Frame, Moves

\* A step that leaves the rows of these calls alone is none of the queue's
\* business.
LEMMA RowsKept ==
  ASSUME \A d \in Unaided : job'[d] = job[d] /\ recording'[d] = recording[d]
  PROVE  UNCHANGED (Queue!qvars)
<1>1. \A d \in Unaided : JobPhase'[d] = JobPhase[d] /\ JobTries'[d] = JobTries[d]
  BY DEF JobPhase, JobTries, Exists
<1>2. /\ JobPhase = [d \in Unaided |-> JobPhase[d]] /\ JobPhase' = [d \in Unaided |-> JobPhase'[d]]
      /\ JobTries = [d \in Unaided |-> JobTries[d]] /\ JobTries' = [d \in Unaided |-> JobTries'[d]]
  BY DEF JobPhase, JobTries
<1>3. JobPhase' = JobPhase /\ JobTries' = JobTries
  BY <1>1, <1>2, Zenon
<1> QED
  BY <1>3 DEF Queue!qvars

\* Start-up recovery fails the exhausted jobs of all calls in one commit.
LEMMA FailQueue ==
  ASSUME IInv, JobInv, NEW p \in Servers, FailExhausted(p)
  PROVE  (\A c \in Unaided : JobAt(c)') /\ [Queue!QNext]_(Queue!qvars)
<1>1. TypeOK /\ UNCHANGED <<recording, transcript, analysis, worker>>
  BY DEF FailExhausted, IInv
<1> DEFINE Out(c) == job[c].status \in {"queued", "running"} /\ job[c].attempts >= MaxAttempts
<1>2. ASSUME NEW c \in Unaided
      PROVE  /\ Out(c) => job'[c].status = "failed"
             /\ ~Out(c) => job'[c].status = job[c].status
             /\ job'[c].attempts = job[c].attempts /\ job'[c].path = job[c].path
  <2>1. job[c] \in Job
    BY <1>1 DEF TypeOK, Unaided
  <2>2. job'[c] = IF Out(c) THEN [job[c] EXCEPT !.status = "failed"] ELSE job[c]
    BY DEF FailExhausted, Unaided
  <2> HIDE DEF Out
  <2> QED
    BY <2>1, <2>2 DEF Job
<1>3. \A q \in Servers, c \in Calls : worker[q][c] = "idle"
  <2>1. \A q \in Servers : server[q] # "up"
    <3>1. SUFFICES ASSUME NEW q \in Servers, server[q] = "up" PROVE FALSE
      OBVIOUS
    <3>2. q \in Nat /\ p \in Nat /\ server[p] = "starting"
      BY PipelineAssumption DEF Servers, FailExhausted
    <3> QED
      BY <3>1, <3>2 DEF IInv, NewestOnly
  <2> QED
    BY <2>1 DEF IInv, OnlyUpWorks, Resting
<1>4. ASSUME NEW c \in Unaided PROVE JobAt(c)'
  <2>1. JobAt(c) /\ analysis'[c] = analysis[c] /\ \A q \in Servers : worker'[q][c] = "idle"
    BY <1>1, <1>3 DEF JobInv, Unaided
  <2> QED
    BY <1>2, <2>1 DEF JobAt
<1>5. [Queue!QNext]_(Queue!qvars)
  <2> DEFINE S == {c \in Unaided : Out(c) /\ (job[c].path => Exists(c))}
  <2>1. ASSUME NEW c \in Unaided
        PROVE  /\ c \in S => /\ JobPhase[c] = "pending" /\ JobTries[c] = MaxAttempts
                             /\ JobPhase'[c] = "failed"
               /\ c \notin S => JobPhase'[c] = JobPhase[c]
               /\ JobTries'[c] = JobTries[c]
    <3>1. Exists(c)' = Exists(c)
      BY <1>1 DEF Exists
    <3>2. job[c].attempts <= MaxAttempts /\ job[c].attempts \in Nat /\ MaxAttempts \in Nat
      BY <1>1, PipelineAssumption DEF IInv, Reserved, TypeOK, Job, Unaided
    <3>3. CASE job[c].path /\ ~Exists(c)
      <4>1. JobPhase[c] = "gone" /\ JobPhase'[c] = "gone" /\ JobTries'[c] = JobTries[c]
        BY <1>2, <3>1, <3>3, Phases
      <4> QED
        BY <3>3, <4>1
    <3>4. CASE (job[c].path => Exists(c)) /\ Out(c)
      <4>1. JobPhase[c] = "pending" /\ JobPhase'[c] = "failed"
        BY <1>2, <3>1, <3>4, Phases
      <4>2. JobTries[c] = MaxAttempts /\ JobTries'[c] = JobTries[c]
        BY <1>2, <3>2, <3>4, Phases
      <4> QED
        BY <3>4, <4>1, <4>2
    <3>5. CASE (job[c].path => Exists(c)) /\ ~Out(c)
      <4>1. JobPhase'[c] = JobPhase[c]
        BY <1>2, <3>1, <3>5 DEF JobPhase
      <4>2. JobTries'[c] = JobTries[c]
        BY <1>2 DEF JobTries
      <4> QED
        BY <3>5, <4>1, <4>2
    <3> QED
      BY <3>3, <3>4, <3>5
  <2>2. /\ JobPhase' = [c \in Unaided |-> JobPhase'[c]] /\ JobTries = [c \in Unaided |-> JobTries[c]]
        /\ JobTries' = [c \in Unaided |-> JobTries'[c]]
    BY DEF JobPhase, JobTries
  <2>3. S \in SUBSET Unaided
    OBVIOUS
  <2> HIDE DEF S
  <2>4. JobPhase' = [c \in Unaided |-> IF c \in S THEN "failed" ELSE JobPhase[c]]
    BY <2>1, <2>2
  <2>5. JobTries' = JobTries
    BY <2>1, <2>2, Zenon
  <2>6. Queue!FailExhaustedCalls(S)
    BY <2>1, <2>3, <2>4, <2>5 DEF Queue!FailExhaustedCalls
  <2> QED
    BY <2>3, <2>6 DEF Queue!QNext
<1> QED
  BY <1>4, <1>5

\* The upload's job row is the enqueueing of its call.
LEMMA EnqueueQueue ==
  ASSUME IInv, JobInv, MaxBlips = 0, NEW p \in Servers, UploadQueue(p)
  PROVE  (\A c \in Unaided : JobAt(c)') /\ [Queue!QNext]_(Queue!qvars)
<1>1. TypeOK /\ UNCHANGED <<recording, analysis>>
  BY DEF UploadQueue, IInv
<1>2. PICK d \in Calls : d = upload[p].call
  BY <1>1 DEF UploadQueue, TypeOK, Upload, NoUpload
<1>3. job[d] = NoJob /\ \A q \in Servers : worker[q][d] = "idle"
  BY <1>2 DEF UploadQueue, IInv, UploadsUntouched, Untouched
<1>4. /\ OthersKept(d) /\ job'[d].status = "queued" /\ job'[d].path
      /\ job'[d].attempts = job[d].attempts
  <2>1. SetJob(d, "queued", 0, TRUE)
    BY <1>2 DEF UploadQueue
  <2>2. OthersKept(d) /\ job'[d].status = "queued" /\ job'[d].path
    BY <1>1, <2>1, SetJobWrites
  <2> QED
    BY <1>1, <2>1, <2>2, SetJobKeepsAttempts
<1>5. \A q \in Servers, c \in Calls :
        worker'[q][c] = IF q = p /\ c = d THEN "guard" ELSE worker[q][c]
  BY <1>1, <1>2 DEF UploadQueue, TypeOK
<1>6. d \in Unaided => analysis[d] \notin {"completed", "processing"}
  BY <1>3 DEF JobInv, JobAt, NoJob
<1>7. ASSUME NEW c \in Unaided PROVE JobAt(c)'
  <2>1. CASE c = d
    BY <1>1, <1>3, <1>4, <1>5, <1>6, <2>1 DEF JobAt, Unaided
  <2>2. CASE c # d
    BY <1>1, <1>4, <1>5, <2>2 DEF JobInv, JobAt, OthersKept, Unaided
  <2> QED
    BY <2>1, <2>2
<1>8. CASE d \notin Unaided
  BY <1>1, <1>4, <1>7, <1>8, RowsKept DEF OthersKept, Unaided
<1>9. ASSUME d \in Unaided PROVE [Queue!QNext]_(Queue!qvars)
  <2>1. /\ JobPhase' = [JobPhase EXCEPT ![d] = JobPhase'[d]]
        /\ JobTries'[d] = JobTries[d] => UNCHANGED JobTries
    BY <1>1, <1>4, <1>9, OneCallMoves DEF OthersKept, Unaided
  <2>2. UNCHANGED JobTries
    BY <1>4, <1>9, <2>1, Phases
  <2>3. JobPhase[d] = "absent"
    BY <1>3, <1>9, Phases DEF NoJob
  <2>4. CASE Exists(d)'
    <3>1. JobPhase'[d] = "pending"
      BY <1>4, <1>9, <2>4, Phases
    <3> QED
      BY <1>9, <2>1, <2>2, <2>3, <3>1 DEF Queue!QNext, Queue!Enqueue
  <2>5. CASE ~Exists(d)'
    <3>1. JobPhase'[d] = "gone"
      BY <1>4, <1>9, <2>5, Phases
    <3> QED
      BY <1>9, <2>1, <2>2, <2>3, <3>1 DEF Queue!QNext, Queue!Forget
  <2> QED
    BY <2>4, <2>5
<1> QED
  BY <1>7, <1>8, <1>9

\* Storing a call that has no job yet is nothing the queue sees; deleting one
\* that has is forgetting it.
LEMMA StoreQueue ==
  ASSUME IInv, JobInv, NEW p \in Servers,
         UploadStore(p) \/ \E c \in Calls : Delete(p, c)
  PROVE  (\A c \in Unaided : JobAt(c)') /\ [Queue!QNext]_(Queue!qvars)
<1>1. TypeOK /\ UNCHANGED <<job, worker>>
  BY DEF UploadStore, Delete, threads, IInv
<1>2. ASSUME NEW c \in Unaided PROVE JobAt(c)'
  <2>1. analysis'[c] \in {analysis[c], "none"}
    BY <1>1 DEF UploadStore, Delete, TypeOK, Unaided
  <2> QED
    BY <1>1, <2>1 DEF JobInv, JobAt
<1>3. CASE UploadStore(p)
  <2>1. PICK d \in Calls : d = upload[p].call
    BY <1>1, <1>3 DEF UploadStore, TypeOK, Upload, NoUpload
  <2>2. job[d] = NoJob
    BY <1>3, <2>1 DEF UploadStore, IInv, UploadsUntouched, Untouched
  <2>3. \A c \in Calls : c # d => job'[c] = job[c] /\ recording'[c] = recording[c]
    BY <1>1, <1>3, <2>1 DEF UploadStore, TypeOK
  <2>4. CASE d \in Unaided
    <3>1. JobPhase[d] = "absent" /\ JobPhase'[d] = "absent" /\ JobTries'[d] = JobTries[d]
      BY <1>1, <2>2, <2>4, Phases DEF NoJob
    <3>2. UNCHANGED JobPhase /\ UNCHANGED JobTries
      BY <2>3, <2>4, <3>1, OneCallMoves DEF Unaided
    <3> QED
      BY <1>2, <3>2 DEF Queue!qvars
  <2>5. CASE d \notin Unaided
    BY <1>2, <2>3, <2>5, RowsKept DEF Unaided
  <2> QED
    BY <2>4, <2>5
<1>4. ASSUME NEW d \in Calls, Delete(p, d)
      PROVE  [Queue!QNext]_(Queue!qvars)
  <2>1. \A c \in Calls : c # d => job'[c] = job[c] /\ recording'[c] = recording[c]
    BY <1>1, <1>4 DEF Delete, TypeOK
  <2>0. CASE d \notin Unaided
    BY <2>0, <2>1, RowsKept DEF Unaided
  <2> SUFFICES ASSUME d \in Unaided PROVE [Queue!QNext]_(Queue!qvars)
    BY <2>0
  <2>2. Exists(d) /\ ~Exists(d)'
    BY <1>1, <1>4 DEF Delete, TypeOK, Exists
  <2>3. /\ JobPhase' = [JobPhase EXCEPT ![d] = JobPhase'[d]]
        /\ JobPhase'[d] = JobPhase[d] => UNCHANGED JobPhase
        /\ JobTries'[d] = JobTries[d] => UNCHANGED JobTries
    BY <2>1, OneCallMoves DEF Unaided
  <2>4. UNCHANGED JobTries
    BY <1>1, <2>3, Phases
  <2>5. CASE job[d].path
    <3>1. JobPhase'[d] = "gone"
      BY <1>1, <2>2, <2>5, Phases
    <3>2. JobPhase[d] # "gone"
      <4>1. job[d].status \in {"none", "queued", "running", "done", "failed"}
        BY <1>1 DEF TypeOK, Job
      <4> QED
        BY <2>2, <4>1, Phases
    <3> QED
      BY <2>3, <2>4, <3>1, <3>2 DEF Queue!QNext, Queue!Forget
  <2>6. CASE ~job[d].path
    <3>1. JobPhase'[d] = JobPhase[d]
      BY <1>1, <2>6 DEF JobPhase
    <3> QED
      BY <2>3, <2>4, <3>1 DEF Queue!qvars
  <2> QED
    BY <2>5, <2>6
<1> QED
  BY <1>2, <1>3, <1>4

\* The other steps, outside the workers, change no job; they keep the workers,
\* kill them, or put one on a call that recovery found unfinished.
LEMMA StepQueue ==
  ASSUME IInv, JobInv, MaxBlips = 0, [Next]_vars
  PROVE  (\A c \in Unaided : JobAt(c)') /\ [Queue!QNext]_(Queue!qvars)
<1> DEFINE Goal == (\A c \in Unaided : JobAt(c)') /\ [Queue!QNext]_(Queue!qvars)
<1>1. TypeOK
  BY DEF IInv
<1>2. ASSUME UNCHANGED <<job, recording, analysis>>,
             \A q \in Servers, c \in Calls :
               \/ worker'[q][c] \in {worker[q][c], "idle"}
               \/ worker'[q][c] = "guard" /\ job[c].status \in {"queued", "running", "failed"}
      PROVE  Goal
  <2>1. \A c \in Unaided : JobAt(c)'
    BY <1>2 DEF JobInv, JobAt, Unaided
  <2> QED
    BY <1>2, <2>1, RowsKept
<1>3. ASSUME NEW p \in Servers, Dispatch(p) PROVE Goal
  <2>1. UNCHANGED <<job, recording, analysis>>
    BY <1>3 DEF Dispatch, rows
  <2>2. ASSUME NEW q \in Servers, NEW c \in Calls
        PROVE  \/ worker'[q][c] \in {worker[q][c], "idle"}
               \/ worker'[q][c] = "guard" /\ job[c].status \in {"queued", "running", "failed"}
    <3>1. CASE q # p
      BY <1>1, <1>3, <3>1 DEF Dispatch, TypeOK
    <3>2. CASE q = p
      <4>1. worker'[q][c] = IF Stuck(c) THEN "guard" ELSE "idle"
        BY <1>1, <1>3, <3>2 DEF Dispatch, TypeOK
      <4> QED
        BY <4>1 DEF Stuck
    <3> QED
      BY <3>1, <3>2
  <2> QED
    BY <1>2, <2>1, <2>2
<1>4. ASSUME NEW p \in Servers, Crash(p) PROVE Goal
  <2>1. UNCHANGED <<job, recording, analysis>>
    BY <1>4 DEF Crash, rows
  <2>2. \A q \in Servers, c \in Calls : worker'[q][c] \in {worker[q][c], "idle"}
    BY <1>1, <1>4 DEF Crash, TypeOK, Resting
  <2> QED
    BY <1>2, <2>1, <2>2
<1>5. ASSUME NEW p \in Servers,
             \/ Start(p) \/ SkipRecovery(p) \/ UploadFails(p) \/ OpenLead(p)
             \/ \E r \in Recordings : UploadDuplicate(p, r)
             \/ \E c \in Calls, r \in Recordings : UploadBegin(p, c, r)
      PROVE  Goal
  <2>1. UNCHANGED <<job, recording, analysis, worker>>
    BY <1>5 DEF Start, SkipRecovery, UploadFails, OpenLead, UploadDuplicate, UploadBegin,
                rows, threads
  <2> QED
    BY <1>2, <2>1
<1>6. ASSUME UNCHANGED vars PROVE Goal
  BY <1>2, <1>6 DEF vars
<1>7. ASSUME NEW p \in Servers, NEW c \in Calls, RerunBegin(p, c) \/ RerunStep(p, c)
      PROVE  Goal
  <2>1. /\ UNCHANGED <<worker, recording, job>>
        /\ \A d \in Unaided : analysis'[d] = analysis[d]
    BY <1>1, <1>7, RerunFrame DEF JobInv
  <2>2. \A d \in Unaided : JobAt(d)'
    BY <2>1 DEF JobInv, JobAt
  <2> QED
    BY <2>1, <2>2, RowsKept
<1>8. ASSUME NEW p \in Servers, NEW c \in Calls, WorkerStep(p, c) \/ WorkerBreaks(p, c)
      PROVE  Goal
  <2>1. /\ \A d \in Unaided : JobAt(d)'
        /\ c \in Unaided => QMove(c)
        /\ OthersKept(c) /\ UNCHANGED recording
    BY <1>8, WorkerQueue
  <2>2. CASE c \in Unaided
    BY <1>1, <2>1, <2>2, QMoveRefines
  <2>3. CASE c \notin Unaided
    BY <2>1, <2>3, RowsKept DEF OthersKept, Unaided
  <2> QED
    BY <2>2, <2>3
<1>9. ASSUME NEW p \in Servers,
             \/ FailExhausted(p) \/ UploadQueue(p) \/ UploadStore(p)
             \/ \E c \in Calls : Delete(p, c)
      PROVE  Goal
  BY <1>9, FailQueue, EnqueueQueue, StoreQueue
<1> HIDE DEF Goal
<1>10. Goal
  <2>1. ASSUME NEW p \in Servers, Process(p) \/ UploadStep(p) PROVE Goal
    BY <1>3, <1>5, <1>9, <2>1 DEF Process, UploadStep
  <2>2. ASSUME NEW p \in Servers, Trouble(p) PROVE Goal
    BY <1>4, <1>5, <1>8, <2>2 DEF Trouble
  <2>3. ASSUME NEW p \in Servers, Users(p) PROVE Goal
    BY <1>5, <1>7, <1>9, <2>3 DEF Users
  <2>4. ASSUME NEW p \in Servers, NEW c \in Calls, WorkerStep(p, c) \/ RerunStep(p, c)
        PROVE  Goal
    <3>1. CASE WorkerStep(p, c)
      BY <1>8, <3>1
    <3>2. CASE RerunStep(p, c)
      BY <1>7, <3>2
    <3> QED
      BY <2>4, <3>1, <3>2
  <2> QED
    BY <1>6, <2>1, <2>2, <2>3, <2>4, Zenon DEF Next
<1> QED
  BY <1>10 DEF Goal

LEMMA JobInductive ==
  ASSUME MaxBlips = 0
  PROVE  Spec => [](IInv /\ JobInv)
<1>1. Init => JobInv
  BY DEF Init, JobInv, JobAt, PastGuard, Resting, Unaided
<1>2. IInv /\ JobInv /\ [Next]_vars => JobInv'
  BY StepKeepsCompleted, StepQueue DEF JobInv
<1>3. QED
  BY <1>1, <1>2, Inductive, PTL DEF Spec

\* The pipeline implements the durable queue: where no job write is lost, every
\* commit of it -- of any number of calls and incarnations, under every crash,
\* deletion and re-run -- is a step, or none, of the queue of the calls nobody
\* re-runs by hand.
THEOREM PipelineIsQueue ==
  ASSUME MaxBlips = 0
  PROVE  Spec => Queue!QInit /\ [][Queue!QNext]_(Queue!qvars)
<1>1. Init => Queue!QInit
  BY DEF Init, Queue!QInit, JobPhase, JobTries, NoJob, Exists, Unaided
<1>2. IInv /\ JobInv /\ [Next]_vars => [Queue!QNext]_(Queue!qvars)
  BY StepQueue
<1>3. QED
  BY <1>1, <1>2, JobInductive, PTL DEF Spec

=============================================================================
