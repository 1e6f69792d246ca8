------------------------------- MODULE AudioStore -------------------------------
(***************************************************************************)
(* Where the bytes of a recording live, and what the AudioCall row says    *)
(* about it.                                                               *)
(*   LocalStorageManager, SupabaseStorageManager, S3Manager  in app/utils  *)
(*   upload_recording (its use of the store), download_audio, delete_call  *)
(*                                                     in app/api/calls.py *)
(*   scripts/migrate_local_audio_to_supabase.py                            *)
(*                                                                         *)
(* Several machines share one database: production, whose disk is lost at  *)
(* every redeploy, and developers' machines with a disk of their own.      *)
(* Each runs the manager settings.storage_mode names.  A handler stores an *)
(* object and commits the row that names it in two steps; other machines   *)
(* act in between.  An object is a call id and a file extension: the       *)
(* extension is what format detection said when the object was stored.     *)
(***************************************************************************)
EXTENDS Naturals

CONSTANTS
  SupabaseHosts, S3Hosts, LocalHosts,  \* machines, by their storage_mode
  Ephemeral,     \* the machines whose disk is lost at a redeploy
  Keyed,         \* the machines that hold Supabase credentials
  Calls,         \* call ids; an id is generated once
  Legacy,        \* calls whose row names an external URL from the beginning
  Kinds,         \* what the first bytes of a recording look like
  None,          \* nobody
  MaxRedeploys   \* bound

Hosts == SupabaseHosts \cup S3Hosts \cup LocalHosts

ASSUME StoreAssumption ==
  /\ SupabaseHosts \cap S3Hosts = {}
  /\ (SupabaseHosts \cup S3Hosts) \cap LocalHosts = {}
  /\ Ephemeral \subseteq Hosts /\ Keyed \subseteq Hosts /\ SupabaseHosts \subseteq Keyed
  /\ Legacy \subseteq Calls
  /\ Kinds \subseteq {"clear", "mp4 brand", "opaque"}
  /\ None \notin Hosts
  /\ MaxRedeploys \in Nat

VARIABLES
  manager,    \* [Hosts -> the storage manager of the running process, or "down"]
  disk,       \* [Hosts -> objects under local_storage_path]
  bucket,     \* [{"supabase", "s3"} -> objects]
  temps,      \* [Hosts -> calls whose audio is in a temporary file]
  kind,       \* [Calls -> what the header of the recording looks like]
  row,        \* [Calls -> AudioCall.audio_file_url]
  job,        \* [Calls -> ProcessingJob.audio_path, NoJob when nothing set it]
  handler,    \* [Hosts -> the request or script between two commits]
  used,       \* call ids generated so far
  acked,      \* [Calls -> the machine that answered 202, or None]
  redeploys

vars  == <<manager, disk, bucket, temps, kind, row, job, handler, used, acked, redeploys>>
files == <<disk, bucket>>
upload == <<temps, job, used, acked>>

Schemes  == {"local", "supabase", "s3"}
Exts     == {"amr", "mp3", "m4a", "mp4"}
Objects  == Calls \X Exts
Url      == [scheme : Schemes, ext : Exts]
NoRow    == [scheme |-> "none"]
External == [scheme |-> "external"]
NoJob    == [path |-> "none"]
Idle     == [step |-> "idle"]

TypeOK ==
  /\ manager \in [Hosts -> Schemes \cup {"down"}]
  /\ disk \in [Hosts -> SUBSET Objects]
  /\ bucket \in [{"supabase", "s3"} -> SUBSET Objects]
  /\ temps \in [Hosts -> SUBSET Calls]
  /\ kind \in [Calls -> Kinds]
  /\ row \in [Calls -> Url \cup {NoRow, External}]
  /\ job \in [Calls -> {NoJob} \cup [path : {"reference", "disk", "temp"}, at : Hosts]]
  /\ handler \in [Hosts -> {Idle} \cup
                   [step : {"saved", "committed", "repoint"}, call : Calls, url : Url]]
  /\ used \subseteq Calls
  /\ acked \in [Calls -> Hosts \cup {None}]
  /\ redeploys \in 0 .. MaxRedeploys

Init ==
  /\ manager = [m \in Hosts |-> "down"]
  /\ disk = [m \in Hosts |-> {}]
  /\ bucket = [s \in {"supabase", "s3"} |-> {}]
  /\ temps = [m \in Hosts |-> {}]
  /\ kind \in [Calls -> Kinds]
  /\ row = [c \in Calls |-> IF c \in Legacy THEN External ELSE NoRow]
  /\ job = [c \in Calls |-> NoJob]
  /\ handler = [m \in Hosts |-> Idle]
  /\ used = Legacy
  /\ acked = [c \in Calls |-> None]
  /\ redeploys = 0

-----------------------------------------------------------------------------
(* The three managers *)

Mode(m) == CASE m \in SupabaseHosts -> "supabase"
             [] m \in S3Hosts       -> "s3"
             [] OTHER               -> "local"

\* Mutation: the alias .mpeg is not turned into mp3.
DetectByAlias(k, suffix) ==
  CASE k = "clear"     -> "amr"
    [] k = "mp4 brand" -> "m4a"
    [] OTHER           -> IF suffix = "mp3" THEN "mpeg" ELSE suffix

\* _detect_audio_format (local, Supabase): the header, else the file name's
\* suffix.  The brand "MP4 " counts as m4a.
DetectBySuffix(k, suffix) ==
  CASE k = "clear"     -> "amr"
    [] k = "mp4 brand" -> "m4a"
    [] OTHER           -> suffix

\* _detect_audio_format_from_headers (S3): the header, else mp3.
DetectByHeader(k) ==
  CASE k = "clear"     -> "amr"
    [] k = "mp4 brand" -> "mp4"
    [] OTHER           -> "mp3"

Detect(s, k, suffix) == IF s = "s3" THEN DetectByHeader(k) ELSE DetectBySuffix(k, suffix)

\* Mutation: the object keeps the suffix of the uploaded file, the URL gets the
\* detected extension.
StoreBySuffix(m, s, c, suffix) ==
  IF s = "local"
  THEN disk' = [disk EXCEPT ![m] = @ \cup {<<c, suffix>>}] /\ UNCHANGED bucket
  ELSE bucket' = [bucket EXCEPT ![s] = @ \cup {<<c, suffix>>}] /\ UNCHANGED disk

\* save_audio_file of scheme s, run on machine m: calls/{call_id}/audio.{ext}.
Store(m, s, c, suffix) ==
  LET object == <<c, Detect(s, kind[c], suffix)>>
  IN  IF s = "local"
      THEN disk' = [disk EXCEPT ![m] = @ \cup {object}] /\ UNCHANGED bucket
      ELSE bucket' = [bucket EXCEPT ![s] = @ \cup {object}] /\ UNCHANGED disk

\* ... and the URL it returns.
StoredUrl(s, c, suffix) == [scheme |-> s, ext |-> Detect(s, kind[c], suffix)]

\* get_audio_file_path: whatever audio.* there is for the call.  The S3 manager
\* probes a fixed list of extensions.
FoundLocal(m, c)  == \E e \in Exts : <<c, e>> \in disk[m]
FoundSupabase(c)  == \E e \in Exts : <<c, e>> \in bucket["supabase"]
FoundS3(c)        == \E e \in {"mp3", "m4a", "amr", "mp4"} : <<c, e>> \in bucket["s3"]

Found(m, c) == CASE manager[m] = "local"    -> FoundLocal(m, c)
                 [] manager[m] = "supabase" -> FoundSupabase(c)
                 [] manager[m] = "s3"       -> FoundS3(c)
                 [] OTHER                   -> FALSE

Up(m) == manager[m] # "down"
Hold(m, r) == handler' = [handler EXCEPT ![m] = r]
Row(c) == row[c] # NoRow

-----------------------------------------------------------------------------
(* The process *)

\* Mutation: a manager that cannot be built is replaced by the local one.
StartFallingBack(m, configured) ==
  /\ ~Up(m)
  /\ manager' = [manager EXCEPT ![m] = IF configured THEN Mode(m) ELSE "local"]
  /\ UNCHANGED <<files, upload, kind, row, handler, redeploys>>

\* The global manager is built at import time.  Without credentials the Supabase
\* manager raises and the process does not come up; the other two always build.
Start(m, configured) ==
  /\ ~Up(m)
  /\ Mode(m) = "supabase" => configured
  /\ manager' = [manager EXCEPT ![m] = Mode(m)]
  /\ UNCHANGED <<files, upload, kind, row, handler, redeploys>>

\* The process is killed and its container replaced.
Redeploy(m) ==
  /\ Up(m) /\ redeploys < MaxRedeploys
  /\ redeploys' = redeploys + 1
  /\ manager' = [manager EXCEPT ![m] = "down"]
  /\ IF m \in Ephemeral
     THEN disk' = [disk EXCEPT ![m] = {}] /\ temps' = [temps EXCEPT ![m] = {}]
     ELSE UNCHANGED <<disk, temps>>
  /\ Hold(m, Idle)
  /\ UNCHANGED <<bucket, kind, row, job, used, acked>>

-----------------------------------------------------------------------------
(* POST /upload *)

\* The body goes to a temporary file and from there to the store.
UploadSave(m, c) ==
  /\ Up(m) /\ handler[m] = Idle /\ c \notin used
  /\ used' = used \cup {c}
  /\ temps' = [temps EXCEPT ![m] = @ \cup {c}]
  /\ Store(m, manager[m], c, "amr")
  /\ Hold(m, [step |-> "saved", call |-> c, url |-> StoredUrl(manager[m], c, "amr")])
  /\ UNCHANGED <<manager, kind, row, job, acked, redeploys>>

\* save_audio_file answered None: 500.  The temporary file stays.
UploadRefused(m, c) ==
  /\ Up(m) /\ handler[m] = Idle /\ c \notin used
  /\ used' = used \cup {c}
  /\ temps' = [temps EXCEPT ![m] = @ \cup {c}]
  /\ UNCHANGED <<manager, files, kind, row, job, handler, acked, redeploys>>

\* The AudioCall row is committed; a database error leaves the object behind.
UploadCommit(m) ==
  /\ handler[m].step = "saved"
  /\ \/ /\ row' = [row EXCEPT ![handler[m].call] = handler[m].url]
        /\ Hold(m, [handler[m] EXCEPT !.step = "committed"])
     \/ UNCHANGED row /\ Hold(m, Idle)
  /\ UNCHANGED <<manager, files, upload, kind, redeploys>>

\* Mutation: the job keeps the path the first run uses.
QueueTemporary(m) ==
  LET c == handler[m].call
  IN  /\ handler[m].step = "committed"
      /\ \/ job' = [job EXCEPT ![c] = [path |-> "temp", at |-> m]]
         \/ UNCHANGED job
      /\ acked' = [acked EXCEPT ![c] = m]
      /\ Hold(m, Idle)
      /\ UNCHANGED <<manager, files, temps, kind, row, used, redeploys>>

\* What recovery will find in the job row: under Supabase the durable URL, on a
\* local disk the stored file, under S3 the temporary copy just downloaded.  The
\* write of that row may be lost (_set_job swallows the exception); the task is
\* queued and 202 answered all the same.
UploadQueue(m) ==
  LET c == handler[m].call
      path == CASE Mode(m) = "supabase" -> "reference"
                [] Mode(m) = "local"    -> "disk"
                [] OTHER                -> "temp"
  IN  /\ handler[m].step = "committed"
      /\ \/ job' = [job EXCEPT ![c] = [path |-> path, at |-> m]]
         \/ UNCHANGED job
      /\ acked' = [acked EXCEPT ![c] = m]
      /\ Hold(m, Idle)
      /\ UNCHANGED <<manager, files, temps, kind, row, used, redeploys>>

\* Under S3 the object is fetched back for the worker; when the connection breaks
\* there the client gets a 500, though the row is committed.
UploadUnanswered(m) ==
  /\ handler[m].step = "committed" /\ Mode(m) = "s3"
  /\ Hold(m, Idle)
  /\ UNCHANGED <<manager, files, upload, kind, row, redeploys>>

\* What the worker on m gets for the job's path (the pipeline's resolve step).
Resolves(m, c) ==
  CASE job[c].path = "reference" -> Found(m, c)
    [] job[c].path = "disk"      -> m = job[c].at /\ FoundLocal(m, c)
    [] job[c].path = "temp"      -> m = job[c].at /\ c \in temps[m]
    [] OTHER                     -> FALSE

-----------------------------------------------------------------------------
(* GET /{call_id}/audio: the URL's own scheme decides, not the server's mode *)

Named(c, objects) == <<c, row[c].ext>> \in objects

ServesLocal(m, c)    == row[c].scheme = "local" /\ Named(c, disk[m])
ServesSupabase(m, c) == row[c].scheme = "supabase" /\ m \in Keyed /\ Named(c, bucket["supabase"])
ServesS3(m, c)       == row[c].scheme = "s3" /\ Mode(m) = "s3" /\ Named(c, bucket["s3"])

Serves(m, c) ==
  ServesLocal(m, c) \/ ServesSupabase(m, c) \/ ServesS3(m, c) \/ row[c] = External

\* The fallback: an external URL is fetched and stored under this server's own
\* scheme.  (An S3 object that cannot be read with the server's own manager is
\* private: fetching its URL fails, and so do all other failures, with a 500.)
Refetch(m, c) ==
  /\ Up(m) /\ handler[m] = Idle /\ row[c] = External
  /\ Store(m, manager[m], c, "mp3")
  /\ Hold(m, [step |-> "repoint", call |-> c, url |-> StoredUrl(manager[m], c, "mp3")])
  /\ UNCHANGED <<manager, upload, kind, row, redeploys>>

\* The row is pointed at the new object, unless it was deleted meanwhile.
Repoint(m) ==
  LET c == handler[m].call
  IN  /\ handler[m].step = "repoint"
      /\ row' = [row EXCEPT ![c] = IF Row(c) THEN handler[m].url ELSE @]
      /\ Hold(m, Idle)
      /\ UNCHANGED <<manager, files, upload, kind, redeploys>>

\* delete_call: the row goes, the objects stay.
Delete(m, c) ==
  /\ Up(m) /\ handler[m] = Idle /\ Row(c)
  /\ row' = [row EXCEPT ![c] = NoRow]
  /\ UNCHANGED <<manager, files, upload, kind, handler, redeploys>>

-----------------------------------------------------------------------------
(* scripts/migrate_local_audio_to_supabase.py *)

\* Mutation: the row is repointed whatever the upload answered, and whether or
\* not the file is on this machine.
MigrateBlindly(m, c) ==
  /\ m \in Keyed /\ handler[m] = Idle /\ row[c].scheme = "local"
  /\ Hold(m, [step |-> "repoint", call |-> c, url |-> StoredUrl("supabase", c, row[c].ext)])
  /\ UNCHANGED <<manager, files, upload, kind, row, redeploys>>

\* A local:// row whose file is on this machine is uploaded, then repointed;
\* a missing file or a failed upload skips it.
Migrate(m, c) ==
  /\ m \in Keyed /\ handler[m] = Idle /\ row[c].scheme = "local"
  /\ \E e \in Exts :
       /\ <<c, e>> \in disk[m]
       /\ Store(m, "supabase", c, e)
       /\ Hold(m, [step |-> "repoint", call |-> c, url |-> StoredUrl("supabase", c, e)])
  /\ UNCHANGED <<manager, upload, kind, row, redeploys>>

-----------------------------------------------------------------------------
Next ==
  \E m \in Hosts :
    \/ \E configured \in BOOLEAN : Start(m, configured)
    \/ Redeploy(m)
    \/ UploadCommit(m) \/ UploadQueue(m) \/ UploadUnanswered(m) \/ Repoint(m)
    \/ \E c \in Calls : \/ UploadSave(m, c) \/ UploadRefused(m, c)
                        \/ Refetch(m, c) \/ Delete(m, c) \/ Migrate(m, c)

Spec == Init /\ [][Next]_vars

-----------------------------------------------------------------------------
(* Safety *)

\* A row that names an object in a bucket names one that is there, under the
\* same extension: stored before the row, and never taken away.
CloudUrlIsStored ==
  \A c \in Calls : row[c].scheme \in {"supabase", "s3"} => Named(c, bucket[row[c].scheme])

\* A recording acknowledged by a server that is configured for a bucket can be
\* played from that bucket for as long as its row exists, redeploys or not: no
\* such server ever kept it on its own disk.
AckedOutlivesRedeploy ==
  \A c \in Calls :
    (acked[c] \in SupabaseHosts \cup S3Hosts /\ Row(c)) =>
      row[c].scheme \in {"supabase", "s3"} /\ Named(c, bucket[row[c].scheme])

\* Crash recovery of a Supabase server finds the audio of every recording that
\* it, or another one like it, has acknowledged with a path in the job row:
\* whatever path is there outlives the container.  (A recording whose job write
\* was lost has none, though it was acknowledged: CallPipeline!AckedIsTracked.)
RecoveryFindsAudio ==
  \A c \in Calls, m \in SupabaseHosts :
    (acked[c] \in SupabaseHosts /\ job[c] # NoJob /\ manager[m] = "supabase") => Resolves(m, c)

\* Serving, uploading and migrating never cost a recording its last copy: what
\* some machine could play some machine still can, unless a disk was lost.
ReachStays ==
  [][\A c \in Calls :
       (\E m \in Hosts : Serves(m, c)) /\ Row(c)' /\ (\A m \in Hosts : disk[m] \subseteq disk'[m])
         => \E m \in Hosts : Serves(m, c)']_vars

=============================================================================
