------------------------------ MODULE CallPipeline ------------------------------
(***************************************************************************)
(* The durable upload pipeline of app/api/calls.py: POST /upload stores a  *)
(* recording as an AudioCall row and a ProcessingJob row, a background     *)
(* worker transcribes it, analyses it and folds it into the contact's      *)
(* memory bubble, and recover_stuck_jobs re-dispatches at start-up what a  *)
(* crash, a restart or a deploy killed.  POST /{call_id}/lead-analysis     *)
(* (the manual re-run), DELETE /{call_id} and GET processing-status act on *)
(* the same rows.                                                          *)
(*                                                                         *)
(* A step is what happens between two database commits: request handlers   *)
(* run on the event loop (atomic between awaits within one process), the   *)
(* workers are threads, so they interleave with everything at every        *)
(* commit.  A server is one incarnation of the process.  All the calls     *)
(* below belong to one contact of one organisation.                        *)
(***************************************************************************)
EXTENDS Naturals

CONSTANTS
  Calls,            \* call ids the uploads may generate
  Recordings,       \* distinct audio contents (SHA-256 hashes)
  None,             \* "no row"
  MaxStarts,        \* bound: incarnations of the process; the last one stays up
  MaxAttempts,      \* ProcessingJob.max_attempts
  Storage,          \* settings.storage_mode
  SttOutcomes,      \* what transcription (with its retries) may answer
  AnalysisOutcomes, \* what analyze_call may answer
  MemoryMayFail,    \* may build_memory_bubble return None?
  Known,            \* has the contact a MemoryBubble row from the beginning?
  Deletable,        \* the calls a user may delete
  Rerunnable,       \* the calls a user may re-analyse by hand
  MaxBlips          \* bound: transient database failures

Servers == 1 .. MaxStarts

ASSUME PipelineAssumption ==
  /\ MaxStarts \in Nat \ {0}
  /\ MaxAttempts \in Nat \ {0}
  /\ MaxBlips \in Nat
  /\ None \notin Recordings
  /\ MemoryMayFail \in BOOLEAN
  /\ Known \in BOOLEAN
  /\ Storage \in {"local", "supabase", "s3"}
  /\ SttOutcomes \subseteq {"turns", "silent", "error"}
  /\ AnalysisOutcomes \subseteq {"completed", "not_relevant", "failed"}
  /\ Deletable \subseteq Calls
  /\ Rerunnable \subseteq Calls

VARIABLES
  server,      \* [Servers -> life cycle of the incarnation]
  upload,      \* [Servers -> the upload handler between its commits]
  worker,      \* [Servers -> [Calls -> stage of _process_uploaded_recording]]
  rerun,       \* [Servers -> [Calls -> stage of run_lead_analysis]]
  issued,      \* call ids already generated (uuid: never generated twice)
  home,        \* [Calls -> the incarnation that generated the id, 0 if none]
  recording,   \* [Calls -> AudioCall.content_hash, None when there is no row]
  transcript,  \* [Calls -> what AudioCall.transcript holds]
  analysis,    \* [Calls -> LeadAnalysis.status, "none" when there is no row]
  job,         \* [Calls -> the ProcessingJob row, status "none" when absent]
  bubbled,     \* does the contact's MemoryBubble row exist?
  acked,       \* recordings whose upload was answered with 202
  blips,       \* transient database failures so far
  starts,      \* [Calls -> transcriptions started]            (history)
  lost         \* [Calls -> job writes lost to such a failure] (history)

vars == <<server, upload, worker, rerun, issued, home, recording, transcript,
          analysis, job, bubbled, acked, blips, starts, lost>>

rows    == <<issued, home, recording, transcript, analysis, job, bubbled, acked, starts>>
threads == <<server, upload, worker, rerun>>

Stage == {"idle", "guard", "resolve", "transcribe", "saved", "silent", "claimed",
          "analyse", "unanalysed", "recorded", "memory", "insert", "finish", "error"}
RerunStage == {"idle", "analysing", "assuming", "remembering"}
Transcript == {"none", "turns", "silent", "error"}
Analysis   == {"none", "processing", "completed", "not_relevant", "failed"}
Job == [status : {"none", "queued", "running", "done", "failed"},
        attempts : Nat, path : BOOLEAN]
NoUpload == [phase |-> "idle", call |-> None, item |-> None]
Upload == {NoUpload} \cup [phase : {"checked", "stored"}, call : Calls, item : Recordings]

NoJob    == [status |-> "none", attempts |-> 0, path |-> FALSE]
Resting  == [c \in Calls |-> "idle"]

\* The two statuses the dashboards, the stepper and the memory treat as
\* "analysed" (only the first one is known to the worker's idempotency guard).
Analysed(c) == analysis[c] \in {"completed", "not_relevant"}

Alive(p)  == server[p] \in {"starting", "recovering", "up"}
Exists(c) == recording[c] # None

TypeOK ==
  /\ server \in [Servers -> {"unborn", "starting", "recovering", "up", "dead"}]
  /\ upload \in [Servers -> Upload]
  /\ worker \in [Servers -> [Calls -> Stage]]
  /\ rerun \in [Servers -> [Calls -> RerunStage]]
  /\ issued \subseteq Calls
  /\ home \in [Calls -> 0 .. MaxStarts]
  /\ recording \in [Calls -> Recordings \cup {None}]
  /\ transcript \in [Calls -> Transcript]
  /\ analysis \in [Calls -> Analysis]
  /\ job \in [Calls -> Job]
  /\ bubbled \in BOOLEAN
  /\ acked \subseteq Recordings
  /\ blips \in 0 .. MaxBlips
  /\ starts \in [Calls -> Nat]
  /\ lost \in [Calls -> Nat]

Init ==
  /\ server = [p \in Servers |-> "unborn"]
  /\ upload = [p \in Servers |-> NoUpload]
  /\ worker = [p \in Servers |-> Resting]
  /\ rerun = [p \in Servers |-> Resting]
  /\ issued = {}
  /\ home = [c \in Calls |-> 0]
  /\ recording = [c \in Calls |-> None]
  /\ transcript = [c \in Calls |-> "none"]
  /\ analysis = [c \in Calls |-> "none"]
  /\ job = [c \in Calls |-> NoJob]
  /\ bubbled = Known
  /\ acked = {}
  /\ blips = 0
  /\ starts = [c \in Calls |-> 0]
  /\ lost = [c \in Calls |-> 0]

-----------------------------------------------------------------------------
(* Helpers *)

\* A transient database failure (a dropped connection): the bound names how
\* many a behaviour may contain.
Blip == blips < MaxBlips /\ blips' = blips + 1

\* Mutation: every write stores its audio path, none included.
SetJobForgetsPath(c, status, inc, path) ==
  \/ /\ job' = [job EXCEPT ![c] = [status   |-> status,
                                   attempts |-> job[c].attempts + inc,
                                   path     |-> path]]
     /\ UNCHANGED <<blips, lost>>
  \/ Blip /\ lost' = [lost EXCEPT ![c] = @ + 1] /\ UNCHANGED job

\* _set_job: upsert the job row and commit.  Any exception is swallowed, so a
\* write may be lost without the caller noticing.
SetJob(c, status, inc, path) ==
  \/ /\ job' = [job EXCEPT ![c] =
                 [status   |-> status,
                  attempts |-> job[c].attempts + inc,
                  path     |-> job[c].path \/ path]]
     /\ UNCHANGED <<blips, lost>>
  \/ Blip /\ lost' = [lost EXCEPT ![c] = @ + 1] /\ UNCHANGED job

\* The worker of server p on call c moves on to stage s.
Goto(p, c, s) == worker' = [worker EXCEPT ![p][c] = s]

-----------------------------------------------------------------------------
(* The process: start-up recovery, crash *)

\* A new incarnation begins its start-up hook when the previous one is gone.
Start(p) ==
  /\ server[p] = "unborn"
  /\ \A q \in Servers : q < p => server[q] = "dead"
  /\ server' = [server EXCEPT ![p] = "starting"]
  /\ UNCHANGED <<upload, worker, rerun, rows, blips, lost>>

\* recover_stuck_jobs, first commit: jobs that used up their attempts while
\* in flight are marked failed.
FailExhausted(p) ==
  /\ server[p] = "starting"
  /\ job' = [c \in Calls |->
              IF job[c].status \in {"queued", "running"} /\ job[c].attempts >= MaxAttempts
                THEN [job[c] EXCEPT !.status = "failed"]
                ELSE job[c]]
  /\ server' = [server EXCEPT ![p] = "recovering"]
  /\ UNCHANGED <<upload, worker, rerun, issued, home, starts, recording, transcript,
                 analysis, bubbled, acked, blips, lost>>

\* Mutation: only the jobs that never started are picked up.
StuckQueued(c) ==
  job[c].status = "queued" /\ job[c].attempts < MaxAttempts /\ job[c].path

\* Mutation: failed jobs are left alone.
StuckInFlight(c) ==
  job[c].status \in {"queued", "running"} /\ job[c].attempts < MaxAttempts /\ job[c].path

\* Mutation: the status filter forgotten.
StuckAnyStatus(c) ==
  job[c].status # "none" /\ job[c].attempts < MaxAttempts /\ job[c].path

Stuck(c) == /\ job[c].status \in {"queued", "running", "failed"}
            /\ job[c].attempts < MaxAttempts
            /\ job[c].path

\* recover_stuck_jobs, second query: one daemon thread for every job still
\* under its cap whose audio path is known; then the server takes requests.
Dispatch(p) ==
  /\ server[p] = "recovering"
  /\ worker' = [worker EXCEPT ![p] = [c \in Calls |-> IF Stuck(c) THEN "guard" ELSE "idle"]]
  /\ server' = [server EXCEPT ![p] = "up"]
  /\ UNCHANGED <<upload, rerun, rows, blips, lost>>

\* The start-up hook swallows a failing recovery and serves anyway.
SkipRecovery(p) ==
  /\ server[p] \in {"starting", "recovering"}
  /\ Blip
  /\ server' = [server EXCEPT ![p] = "up"]
  /\ UNCHANGED <<upload, worker, rerun, rows, lost>>

\* The process is killed: every request and every thread of it vanishes
\* without running its cleanup; the rows stay.
Crash(p) ==
  /\ Alive(p)
  /\ p < MaxStarts
  /\ server' = [server EXCEPT ![p] = "dead"]
  /\ upload' = [upload EXCEPT ![p] = NoUpload]
  /\ worker' = [worker EXCEPT ![p] = Resting]
  /\ rerun' = [rerun EXCEPT ![p] = Resting]
  /\ UNCHANGED <<rows, blips, lost>>

-----------------------------------------------------------------------------
(* POST /upload: from the read of the body to the response there is no     *)
(* await, so a server runs one upload at a time.                           *)

\* Mutation: no look-up of the content hash.
UploadUnchecked(p, c, r) ==
  /\ server[p] = "up" /\ upload[p].phase = "idle"
  /\ c \notin issued
  /\ upload' = [upload EXCEPT ![p] = [phase |-> "checked", call |-> c, item |-> r]]
  /\ issued' = issued \cup {c}
  /\ home' = [home EXCEPT ![c] = p]
  /\ UNCHANGED <<server, worker, rerun, recording, transcript, analysis, job,
                 bubbled, acked, blips, starts, lost>>

\* The recording is not a duplicate: the lead is upserted and committed
\* (module LeadBook) under a fresh call id.
UploadBegin(p, c, r) ==
  /\ server[p] = "up" /\ upload[p].phase = "idle"
  /\ \A d \in Calls : recording[d] # r
  /\ c \notin issued
  /\ upload' = [upload EXCEPT ![p] = [phase |-> "checked", call |-> c, item |-> r]]
  /\ issued' = issued \cup {c}
  /\ home' = [home EXCEPT ![c] = p]
  /\ UNCHANGED <<server, worker, rerun, recording, transcript, analysis, job,
                 bubbled, acked, blips, starts, lost>>

\* The same bytes already landed: the existing call is returned, "already
\* being processed".
UploadDuplicate(p, r) ==
  /\ server[p] = "up" /\ upload[p].phase = "idle"
  /\ \E d \in Calls : recording[d] = r
  /\ acked' = acked \cup {r}
  /\ UNCHANGED <<threads, issued, home, starts, recording, transcript, analysis, job,
                 bubbled, blips, lost>>

\* The audio is saved, then the AudioCall row is committed.
UploadStore(p) ==
  LET u == upload[p] IN
  /\ u.phase = "checked"
  /\ upload' = [upload EXCEPT ![p].phase = "stored"]
  /\ recording' = [recording EXCEPT ![u.call] = u.item]
  /\ UNCHANGED <<server, worker, rerun, issued, home, starts, transcript, analysis, job,
                 bubbled, acked, blips, lost>>

\* The job row is committed, the background task is queued, 202 is answered.
UploadQueue(p) ==
  LET u == upload[p] IN
  /\ u.phase = "stored"
  /\ SetJob(u.call, "queued", 0, TRUE)
  /\ worker' = [worker EXCEPT ![p][u.call] = "guard"]
  /\ acked' = acked \cup {u.item}
  /\ upload' = [upload EXCEPT ![p] = NoUpload]
  /\ UNCHANGED <<server, rerun, issued, home, starts, recording, transcript, analysis, bubbled>>

\* The storage refuses the audio, or (S3) fetching it back for the worker
\* fails after the AudioCall row was committed: the client gets a 500.
UploadFails(p) ==
  /\ \/ upload[p].phase = "checked"
     \/ upload[p].phase = "stored" /\ Storage = "s3"
  /\ upload' = [upload EXCEPT ![p] = NoUpload]
  /\ UNCHANGED <<server, worker, rerun, rows, blips, lost>>

-----------------------------------------------------------------------------
(* _process_uploaded_recording, one action per commit *)

\* Mutation: the guard accepts any analysis row, not only a completed one.
GuardAnyRow(p, c) ==
  /\ worker[p][c] = "guard"
  /\ \/ /\ analysis[c] # "none"
        /\ SetJob(c, "done", 0, FALSE)
        /\ Goto(p, c, "idle")
     \/ /\ analysis[c] = "none"
        /\ Goto(p, c, "resolve")
        /\ UNCHANGED <<job, blips, lost>>
  /\ UNCHANGED <<server, upload, rerun, issued, home, starts, recording, transcript,
                 analysis, bubbled, acked>>

\* Mutation: no guard.
GuardDropped(p, c) ==
  /\ worker[p][c] = "guard"
  /\ Goto(p, c, "resolve")
  /\ UNCHANGED <<server, upload, rerun, rows, blips, lost>>

\* Idempotency guard: a call whose analysis is completed is only marked done.
Guard(p, c) ==
  /\ worker[p][c] = "guard"
  /\ \/ /\ analysis[c] = "completed"
        /\ SetJob(c, "done", 0, FALSE)
        /\ Goto(p, c, "idle")
     \/ /\ analysis[c] # "completed"
        /\ Goto(p, c, "resolve")
        /\ UNCHANGED <<job, blips, lost>>
  /\ UNCHANGED <<server, upload, rerun, issued, home, starts, recording, transcript,
                 analysis, bubbled, acked>>

\* A re-dispatched job under Supabase storage resolves a fresh local copy of
\* the audio; when that fails the job fails, its attempts untouched.  (The
\* first run has the temporary file of its own upload.)
ResolveFails(p, c) ==
  /\ worker[p][c] = "resolve"
  /\ Storage = "supabase" /\ home[c] # p
  /\ SetJob(c, "failed", 0, FALSE)
  /\ Goto(p, c, "idle")
  /\ UNCHANGED <<server, upload, rerun, issued, home, starts, recording, transcript,
                 analysis, bubbled, acked>>

\* Mutation: the attempt is not counted when it begins.
BeginUncounted(p, c) ==
  /\ worker[p][c] = "resolve"
  /\ SetJob(c, "running", 0, FALSE)
  /\ Goto(p, c, "transcribe")
  /\ starts' = [starts EXCEPT ![c] = @ + 1]
  /\ UNCHANGED <<server, upload, rerun, issued, home, recording, transcript,
                 analysis, bubbled, acked>>

\* The attempt is counted and the paid transcription begins, counted or not.
BeginTranscribe(p, c) ==
  /\ worker[p][c] = "resolve"
  /\ SetJob(c, "running", 1, FALSE)
  /\ Goto(p, c, "transcribe")
  /\ starts' = [starts EXCEPT ![c] = @ + 1]
  /\ UNCHANGED <<server, upload, rerun, issued, home, recording, transcript,
                 analysis, bubbled, acked>>

\* Under S3 the job row keeps the path of a temporary download, which a new
\* container no longer has ("file not found").
SttAnswers(p, c) ==
  SttOutcomes \cup (IF Storage = "s3" /\ home[c] # p THEN {"error"} ELSE {})


\* The provider answered: the transcript is saved, whatever it is, unless the
\* call was deleted meanwhile (then the worker just returns).
SaveTranscript(p, c) ==
  /\ worker[p][c] = "transcribe"
  /\ \/ /\ ~Exists(c)
        /\ Goto(p, c, "idle")
        /\ UNCHANGED transcript
     \/ /\ Exists(c)
        /\ \E heard \in SttAnswers(p, c) :
             /\ transcript' = [transcript EXCEPT ![c] = heard]
             /\ Goto(p, c, IF heard = "turns" THEN "saved" ELSE "silent")
  /\ UNCHANGED <<server, upload, rerun, issued, home, starts, recording, analysis, job,
                 bubbled, acked, blips, lost>>

\* Mutation: stage and status swapped in the call of _set_job.
MarkSwapped(p, c) ==
  /\ worker[p][c] \in {"silent", "unanalysed", "error"}
  /\ SetJob(c, "transcribe", 0, FALSE)
  /\ Goto(p, c, "idle")
  /\ UNCHANGED <<server, upload, rerun, issued, home, starts, recording, transcript,
                 analysis, bubbled, acked>>

\* No turns: nothing to analyse, the job fails at the transcribe stage.
\* Analyser without an answer: the job fails at the analyse stage.  An
\* exception: the outermost handler fails it.
MarkFailed(p, c) ==
  /\ worker[p][c] \in {"silent", "unanalysed", "error"}
  /\ SetJob(c, "failed", 0, FALSE)
  /\ Goto(p, c, "idle")
  /\ UNCHANGED <<server, upload, rerun, issued, home, starts, recording, transcript,
                 analysis, bubbled, acked>>

\* The LeadAnalysis row is upserted as "processing".
ClaimAnalysis(p, c) ==
  /\ worker[p][c] = "saved"
  /\ Exists(c)
  /\ analysis' = [analysis EXCEPT ![c] = "processing"]
  /\ Goto(p, c, "claimed")
  /\ UNCHANGED <<server, upload, rerun, issued, home, starts, recording, transcript, job,
                 bubbled, acked, blips, lost>>

BeginAnalyse(p, c) ==
  /\ worker[p][c] = "claimed"
  /\ SetJob(c, "running", 0, FALSE)
  /\ Goto(p, c, "analyse")
  /\ UNCHANGED <<server, upload, rerun, issued, home, starts, recording, transcript,
                 analysis, bubbled, acked>>

\* analyze_call answered: a zeroed "failed" row when it returned None,
\* otherwise completed or not_relevant.
RecordAnalysis(p, c) ==
  /\ worker[p][c] = "analyse"
  /\ Exists(c)
  /\ \E verdict \in AnalysisOutcomes :
       /\ analysis' = [analysis EXCEPT ![c] = verdict]
       /\ Goto(p, c, IF verdict = "failed" THEN "unanalysed" ELSE "recorded")
  /\ UNCHANGED <<server, upload, rerun, issued, home, starts, recording, transcript, job,
                 bubbled, acked, blips, lost>>

\* The call was deleted under the worker: loading it raises and the outermost
\* handler fails the job, or the write itself fails and the poisoned session
\* loses even that (_set_job swallows it).
CallVanished(p, c) ==
  /\ worker[p][c] \in {"saved", "analyse"}
  /\ ~Exists(c)
  /\ \/ Goto(p, c, "error")
     \/ Goto(p, c, "idle")
  /\ UNCHANGED <<server, upload, rerun, rows, blips, lost>>

BeginMemory(p, c) ==
  /\ worker[p][c] = "recorded"
  /\ SetJob(c, "running", 0, FALSE)
  /\ Goto(p, c, "memory")
  /\ UNCHANGED <<server, upload, rerun, issued, home, starts, recording, transcript,
                 analysis, bubbled, acked>>

\* _gather_contact_calls: every analysed call of the contact.
Gathered == {d \in Calls : Analysed(d)}

\* The rebuild finds no call, or the provider no answer: nothing is written.
NoBubble == Gathered = {} \/ MemoryMayFail

\* _build_and_store_memory up to its look-up of the bubble row.  (What is in
\* the bubble, and how stale: module ContactMemory.)
BuildMemory(p, c) ==
  /\ worker[p][c] = "memory"
  /\ \/ NoBubble /\ Goto(p, c, "finish")
     \/ Gathered # {} /\ Goto(p, c, IF bubbled THEN "finish" ELSE "insert")
  /\ UNCHANGED <<server, upload, rerun, rows, blips, lost>>

\* The row was absent and is inserted.  If somebody else inserted it in
\* between, the unique key refuses this one; the exception is swallowed, but
\* the session stays unusable until _set_job rolls it back, which loses "done".
StoreMemory(p, c) ==
  /\ worker[p][c] = "insert"
  /\ bubbled' = TRUE
  /\ Goto(p, c, IF bubbled THEN "idle" ELSE "finish")
  /\ UNCHANGED <<server, upload, rerun, issued, home, starts, recording, transcript,
                 analysis, job, acked, blips, lost>>

Finish(p, c) ==
  /\ worker[p][c] = "finish"
  /\ SetJob(c, "done", 0, FALSE)
  /\ Goto(p, c, "idle")
  /\ UNCHANGED <<server, upload, rerun, issued, home, starts, recording, transcript,
                 analysis, bubbled, acked>>

\* A database failure in the middle of the worker: the outermost handler
\* fails the job, or the failed flush poisons the session and its write is
\* lost too.  A failed flush of the bubble poisons the session as well, so
\* that "done" is never written.
WorkerBreaks(p, c) ==
  /\ Blip
  /\ \/ /\ worker[p][c] \in {"guard", "transcribe", "saved", "analyse", "recorded"}
        /\ Goto(p, c, "error")
     \/ /\ worker[p][c] \in {"transcribe", "saved", "analyse", "memory"}
        /\ Goto(p, c, "idle")
  /\ UNCHANGED <<server, upload, rerun, rows, lost>>

-----------------------------------------------------------------------------
(* The other handlers on the same rows *)

\* run_lead_analysis up to its await: the row becomes "processing", whatever
\* it was, and the transcript is read.  Without turns ("assuming") there is
\* nothing the analyser could judge.
RerunBegin(p, c) ==
  /\ server[p] = "up" /\ upload[p].phase = "idle"
  /\ c \in Rerunnable /\ Exists(c)
  /\ rerun[p][c] = "idle"
  /\ analysis' = [analysis EXCEPT ![c] = "processing"]
  /\ rerun' = [rerun EXCEPT ![p][c] =
                 IF transcript[c] = "turns" THEN "analysing" ELSE "assuming"]
  /\ UNCHANGED <<server, upload, worker, issued, home, starts, recording, transcript, job,
                 bubbled, acked, blips, lost>>

\* Mutation: a re-run without an answer returns before it writes "failed".
RerunForgets(p, c) ==
  /\ upload[p].phase = "idle"
  /\ rerun[p][c] \in {"analysing", "assuming"}
  /\ rerun' = [rerun EXCEPT ![p][c] = "idle"]
  /\ \/ analysis' = [analysis EXCEPT ![c] = "completed"]
     \/ UNCHANGED analysis
  /\ UNCHANGED <<server, upload, worker, issued, home, starts, recording, transcript, job,
                 bubbled, acked, blips, lost>>

\* The analyser answered: of an empty transcript always a relevant, zeroed
\* result.  (When the call is gone, the write raises.)
RerunRecord(p, c) ==
  /\ upload[p].phase = "idle"
  /\ rerun[p][c] \in {"analysing", "assuming"}
  /\ \/ /\ Exists(c)
        /\ \E verdict \in (IF rerun[p][c] = "assuming" THEN {"completed"}
                                                     ELSE AnalysisOutcomes) :
             /\ analysis' = [analysis EXCEPT ![c] = verdict]
             /\ rerun' = [rerun EXCEPT ![p][c] =
                            IF verdict = "failed" THEN "idle" ELSE "remembering"]
     \/ /\ ~Exists(c)
        /\ rerun' = [rerun EXCEPT ![p][c] = "idle"]
        /\ UNCHANGED analysis
  /\ UNCHANGED <<server, upload, worker, issued, home, starts, recording, transcript, job,
                 bubbled, acked, blips, lost>>

\* _rebuild_memory_for_call, awaited after the commit.
RerunRemember(p, c) ==
  /\ upload[p].phase = "idle"
  /\ rerun[p][c] = "remembering"
  /\ \/ NoBubble /\ UNCHANGED bubbled
     \/ Gathered # {} /\ bubbled' = TRUE
  /\ rerun' = [rerun EXCEPT ![p][c] = "idle"]
  /\ UNCHANGED <<server, upload, worker, issued, home, starts, recording, transcript,
                 analysis, job, acked, blips, lost>>

\* DELETE /{call_id}: the row and, by cascade, its analysis; neither the job
\* nor the bubble.
Delete(p, c) ==
  /\ server[p] = "up" /\ upload[p].phase = "idle"
  /\ c \in Deletable /\ Exists(c)
  /\ recording' = [recording EXCEPT ![c] = None]
  /\ transcript' = [transcript EXCEPT ![c] = "none"]
  /\ analysis' = [analysis EXCEPT ![c] = "none"]
  /\ UNCHANGED <<threads, issued, home, starts, job, bubbled, acked, blips, lost>>

\* get_lead_detail_for_telecaller: opening the lead stores a pre-call brief in a
\* bubble row, which is created when there is none.
OpenLead(p) ==
  /\ server[p] = "up" /\ upload[p].phase = "idle"
  /\ ~bubbled
  /\ bubbled' = TRUE
  /\ UNCHANGED <<threads, issued, home, starts, recording, transcript, analysis, job,
                 acked, blips, lost>>

-----------------------------------------------------------------------------
Process(p) == Start(p) \/ FailExhausted(p) \/ Dispatch(p)

UploadStep(p) == UploadStore(p) \/ UploadQueue(p)

WorkerStep(p, c) ==
  \/ Guard(p, c) \/ ResolveFails(p, c) \/ BeginTranscribe(p, c)
  \/ SaveTranscript(p, c) \/ MarkFailed(p, c)
  \/ ClaimAnalysis(p, c) \/ BeginAnalyse(p, c) \/ RecordAnalysis(p, c)
  \/ CallVanished(p, c) \/ BeginMemory(p, c) \/ BuildMemory(p, c)
  \/ StoreMemory(p, c) \/ Finish(p, c)

RerunStep(p, c) == RerunRecord(p, c) \/ RerunRemember(p, c)

Trouble(p) ==
  \/ SkipRecovery(p) \/ Crash(p) \/ UploadFails(p)
  \/ \E c \in Calls : WorkerBreaks(p, c)

Users(p) ==
  \/ OpenLead(p)
  \/ \E r \in Recordings : UploadDuplicate(p, r)
  \/ \E c \in Calls : \/ \E r \in Recordings : UploadBegin(p, c, r)
                      \/ RerunBegin(p, c)
                      \/ Delete(p, c)

Next == \E p \in Servers :
          \/ Process(p) \/ UploadStep(p) \/ Trouble(p) \/ Users(p)
          \/ \E c \in Calls : WorkerStep(p, c) \/ RerunStep(p, c)

Spec == Init /\ [][Next]_vars

\* The supervisor restarts a dead process; handlers and threads that are
\* scheduled run on (the external providers answer or time out).  Nothing is
\* assumed of users, crashes and failures.
Fairness ==
  \A p \in Servers :
    /\ WF_vars(Process(p)) /\ WF_vars(UploadStep(p))
    /\ \A c \in Calls : WF_vars(WorkerStep(p, c)) /\ WF_vars(RerunStep(p, c))

FairSpec == Spec /\ Fairness

-----------------------------------------------------------------------------
(* What GET /{call_id}/processing-status shows *)

\* The transcribe stage is failed only when the transcript carries an error;
\* an empty transcript without one is still "active".
TranscribeFailed(c) == transcript[c] = "error"

AnalyseFailed(c) == analysis[c] = "failed"

StepperFailed(c) == TranscribeFailed(c) \/ AnalyseFailed(c)

StepperDone(c) == Analysed(c)

-----------------------------------------------------------------------------
(* Safety *)

\* The calls whose analysis nobody re-runs by hand: their rows are what the
\* pipeline alone made of them.
Unaided == Calls \ Rerunnable

Working(c) == \E p \in Servers : worker[p][c] # "idle"

\* The retry cap of ProcessingJob: however often the process crashes and
\* re-dispatches, and whether or not the call is deleted meanwhile, the paid
\* transcription of one job starts at most max_attempts times, and once more for
\* each write of the job that the database lost, since the attempt counted by a
\* lost write is made nevertheless.
AttemptsCapped ==
  \A c \in Calls : /\ job[c].attempts <= MaxAttempts
                   /\ starts[c] <= MaxAttempts + lost[c]

\* The same recording uploaded again -- double tap, or an outbox retry after
\* any crash -- never yields a second AudioCall row.
OneCallPerRecording ==
  \A c, d \in Calls : Exists(c) /\ recording[c] = recording[d] => c = d

\* A job is "done" only when the app really has the call to show: the stepper
\* says done and not failed (unless a re-run reopens it).
DoneIsShownDone ==
  \A c \in Unaided : Exists(c) /\ job[c].status = "done" => StepperDone(c) /\ ~StepperFailed(c)

\* "The orchestrator is idempotent, so completed work is never redone": a
\* completed analysis is never reopened or overwritten by the pipeline,
\* whatever recovery re-dispatches and whatever is re-run beside it (it goes
\* only with its call).
CompletedIsFinal ==
  [][\A c \in Unaided : analysis[c] = "completed" /\ Exists(c)' => analysis'[c] = "completed"]_vars

\* An empty or failed transcription never fake-completes: what the pipeline
\* shows as a completed analysis was judged from turns.
NeverFakeCompletes ==
  \A c \in Unaided : analysis[c] = "completed" => transcript[c] = "turns"

\* No recording the client was told is being processed is silently dropped:
\* its call has a job row that names the audio, so recovery can find it.
AckedIsTracked ==
  \A c \in Calls : recording[c] \in acked => job[c].status # "none" /\ job[c].path

\* A job the pipeline gave up on is shown as failed to whoever polls.
GivenUpIsShownFailed ==
  \A c \in Calls : Exists(c) /\ job[c].status = "failed" /\ ~Working(c) => StepperFailed(c)

\* "If transcription produced nothing [...] the stepper will show the transcribe
\* stage as failed": so it should for a recording in which nobody speaks.
SilenceIsShownFailed ==
  \A c \in Calls :
    Exists(c) /\ transcript[c] = "silent" /\ job[c].status = "failed" => TranscribeFailed(c)

\* An analysis in progress is not stranded: the next start-up finds its job with
\* the path of the audio, to re-dispatch it or, the attempts used up, to declare
\* it failed.  Only the call whose upload lost its job write has no such job: the
\* row its worker makes later never learns the path.
ProcessingIsOwned ==
  \A c \in Unaided : analysis[c] = "processing" =>
    IF job[c].path THEN job[c].status \in {"queued", "running", "failed"} ELSE lost[c] > 0

(* Liveness *)

Settled(c) == job[c].status \in {"done", "failed"}

\* "Upload -> always processed": every call whose job row was written ends up
\* done or failed for good, across all the crashes a behaviour has (unless a
\* user deletes it under its worker).
JobsSettle ==
  \A c \in Calls : <>[](job[c].path /\ Exists(c) => Settled(c))

\* A transient failure is retried on restart, not stranded: a failed job under
\* its cap gets a worker from the incarnation that starts next.
FailedIsRetried ==
  \A p \in Servers, c \in Calls :
    LET Waits == /\ server[p] = "starting" /\ job[c].status = "failed"
                 /\ job[c].path /\ job[c].attempts < MaxAttempts
    IN  Waits ~> (worker[p][c] # "idle" \/ server[p] = "dead")

\* What the stepper never shows: that a transcript is empty without an error, and
\* that the attempts of a job were used up by crashes.
NeverShown(c) ==
  job[c].status = "failed" /\ (transcript[c] = "silent" \/ job[c].attempts >= MaxAttempts)


\* An analysis for which a live process has asked, the worker's or a re-run's,
\* gets its verdict, however the two overlap and whatever is deleted.
ProcessingEnds ==
  \A p \in Servers, c \in Calls :
    LET Asked == \/ worker[p][c] \in {"claimed", "analyse"}
                 \/ rerun[p][c] \in {"analysing", "assuming"}
    IN  (analysis[c] = "processing" /\ Asked)
          ~> (analysis[c] # "processing" \/ server[p] = "dead")

-----------------------------------------------------------------------------
(* Refinement: the pipeline implements the durable queue *)

\* The phase of a call is read off its rows: a call deleted after its id was
\* issued and stored is gone, otherwise the job's status says.
JobPhase ==
  [c \in Unaided |->
    IF job[c].path /\ ~Exists(c) THEN "gone"
    ELSE CASE job[c].status \in {"queued", "running"} -> "pending"
           [] job[c].status = "none"                  -> "absent"
           [] OTHER                                   -> job[c].status]

JobTries == [c \in Unaided |-> job[c].attempts]

Queue == INSTANCE DurableQueue WITH Calls <- Unaided, phase <- JobPhase, tries <- JobTries

\* Every behaviour of the pipeline is a behaviour of the durable queue of the
\* calls nobody re-runs by hand.
ImplementsQueue == Queue!QSpec

=============================================================================
