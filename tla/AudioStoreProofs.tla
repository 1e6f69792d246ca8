--------------------------- MODULE AudioStoreProofs ---------------------------
(***************************************************************************)
(* Proofs about AudioStore, for any number of machines in each storage     *)
(* mode, any number of recordings and redeploys.                           *)
(***************************************************************************)
EXTENDS AudioStore, TLAPS

-----------------------------------------------------------------------------
(* Typing *)

Step == [step : {"saved", "committed", "repoint"}, call : Calls, url : Url]

LEMMA RedeploysNat == MaxRedeploys \in Nat
BY StoreAssumption

LEMMA ModeType ==
  ASSUME NEW m \in Hosts
  PROVE  /\ Mode(m) \in Schemes
         /\ Mode(m) = "supabase" <=> m \in SupabaseHosts
         /\ Mode(m) = "s3" <=> m \in S3Hosts
BY StoreAssumption DEF Mode, Schemes, Hosts

LEMMA DetectType ==
  ASSUME TypeOK, NEW s \in Schemes, NEW c \in Calls, NEW e \in Exts
  PROVE  Detect(s, kind[c], e) \in Exts
BY DEF Detect, DetectBySuffix, DetectByHeader, Exts

LEMMA UrlType ==
  ASSUME TypeOK, NEW s \in Schemes, NEW c \in Calls, NEW e \in Exts
  PROVE  StoredUrl(s, c, e) \in Url
BY DetectType DEF StoredUrl, Url

\* Storing adds one object to one place, the one the URL names.
LEMMA StoreAdds ==
  ASSUME TypeOK, NEW m \in Hosts, NEW s \in Schemes, NEW c \in Calls, NEW e \in Exts,
         Store(m, s, c, e)
  PROVE  /\ disk' \in [Hosts -> SUBSET Objects]
         /\ bucket' \in [{"supabase", "s3"} -> SUBSET Objects]
         /\ \A n \in Hosts : disk[n] \subseteq disk'[n]
         /\ \A x \in {"supabase", "s3"} : bucket[x] \subseteq bucket'[x]
         /\ s = "local" => <<c, StoredUrl(s, c, e).ext>> \in disk'[m]
         /\ s # "local" => <<c, StoredUrl(s, c, e).ext>> \in bucket'[s]
<1> DEFINE object == <<c, Detect(s, kind[c], e)>>
<1>1. object \in Objects /\ StoredUrl(s, c, e).ext = Detect(s, kind[c], e)
  BY DetectType DEF Objects, StoredUrl
<1>2. CASE s = "local"
  <2>1. disk' = [disk EXCEPT ![m] = @ \cup {object}] /\ bucket' = bucket
    BY <1>2 DEF Store
  <2> HIDE DEF object
  <2>2. disk' \in [Hosts -> SUBSET Objects] /\ \A n \in Hosts : disk[n] \subseteq disk'[n]
    BY <1>1, <2>1 DEF TypeOK
  <2>3. object \in disk'[m]
    BY <2>1 DEF TypeOK
  <2> QED
    BY <1>1, <1>2, <2>1, <2>2, <2>3 DEF TypeOK, object
<1>3. CASE s # "local"
  <2>1. bucket' = [bucket EXCEPT ![s] = @ \cup {object}] /\ disk' = disk /\ s \in {"supabase", "s3"}
    BY <1>3 DEF Store, Schemes
  <2> HIDE DEF object
  <2>2. /\ bucket' \in [{"supabase", "s3"} -> SUBSET Objects]
        /\ \A x \in {"supabase", "s3"} : bucket[x] \subseteq bucket'[x]
    BY <1>1, <2>1 DEF TypeOK
  <2>3. object \in bucket'[s]
    BY <2>1 DEF TypeOK
  <2> QED
    BY <1>1, <1>3, <2>1, <2>2, <2>3 DEF TypeOK, object
<1> QED
  BY <1>2, <1>3

LEMMA InitType == Init => TypeOK
<1> SUFFICES ASSUME Init PROVE TypeOK
  OBVIOUS
<1>1. row \in [Calls -> Url \cup {NoRow, External}]
  BY DEF Init
<1>2. job \in [Calls -> {NoJob} \cup [path : {"reference", "disk", "temp"}, at : Hosts]]
  BY DEF Init
<1>3. handler \in [Hosts -> {Idle} \cup [step : {"saved", "committed", "repoint"}, call : Calls, url : Url]]
  BY DEF Init
<1>4. disk \in [Hosts -> SUBSET Objects] /\ bucket \in [{"supabase", "s3"} -> SUBSET Objects]
  BY DEF Init
<1>5. manager \in [Hosts -> Schemes \cup {"down"}] /\ temps \in [Hosts -> SUBSET Calls]
  BY DEF Init
<1>6. acked \in [Calls -> Hosts \cup {None}]
  BY DEF Init
<1>7. used \subseteq Calls
  BY StoreAssumption DEF Init
<1>8. redeploys \in 0 .. MaxRedeploys
  BY RedeploysNat DEF Init
<1> QED
  BY <1>1, <1>2, <1>3, <1>4, <1>5, <1>6, <1>7, <1>8 DEF Init, TypeOK

\* A machine between two commits holds a call and a URL.
LEMMA HeldType ==
  ASSUME TypeOK, NEW m \in Hosts, handler[m].step # "idle"
  PROVE  handler[m] \in Step
BY DEF TypeOK, Idle, Step

LEMMA NextType == TypeOK /\ [Next]_vars => TypeOK'
<1> SUFFICES ASSUME TypeOK, [Next]_vars PROVE TypeOK'
  OBVIOUS
<1>0. Idle.step = "idle" /\ "amr" \in Exts /\ "mp3" \in Exts /\ "supabase" \in Schemes
  BY DEF Idle, Exts, Schemes
<1>1. CASE UNCHANGED vars
  BY <1>1 DEF vars, TypeOK
<1>2. ASSUME NEW m \in Hosts, NEW configured \in BOOLEAN, Start(m, configured) PROVE TypeOK'
  BY <1>2, ModeType DEF Start, TypeOK, files, upload
<1>3. ASSUME NEW m \in Hosts, Redeploy(m) PROVE TypeOK'
  <2>0. redeploys \in 0 .. MaxRedeploys /\ redeploys < MaxRedeploys /\ redeploys' = redeploys + 1
    BY <1>3 DEF Redeploy, TypeOK
  <2>1. redeploys' \in 0 .. MaxRedeploys
    BY <2>0, RedeploysNat
  <2>2. disk' \in [Hosts -> SUBSET Objects] /\ temps' \in [Hosts -> SUBSET Calls]
    BY <1>3 DEF Redeploy, TypeOK
  <2>3. handler' \in [Hosts -> {Idle} \cup [step : {"saved", "committed", "repoint"}, call : Calls, url : Url]]
    BY <1>3 DEF Redeploy, TypeOK, Hold
  <2>4. manager' \in [Hosts -> Schemes \cup {"down"}]
    BY <1>3 DEF Redeploy, TypeOK
  <2> QED
    BY <1>3, <2>1, <2>2, <2>3, <2>4 DEF Redeploy, TypeOK
<1>4. ASSUME NEW m \in Hosts, UploadCommit(m) PROVE TypeOK'
  <2>1. handler[m] \in Step
    BY <1>0, <1>4, HeldType DEF UploadCommit
  <2>2. row' \in [Calls -> Url \cup {NoRow, External}]
    BY <1>4, <2>1 DEF UploadCommit, TypeOK, Step
  <2>3. handler' \in [Hosts -> {Idle} \cup Step]
    <3>1. [handler[m] EXCEPT !.step = "committed"] \in Step
      BY <2>1 DEF Step
    <3> QED
      BY <1>4, <3>1 DEF UploadCommit, TypeOK, Hold, Step
  <2> QED
    BY <1>4, <2>2, <2>3 DEF UploadCommit, TypeOK, files, upload, Step
<1>5. ASSUME NEW m \in Hosts, UploadQueue(m) PROVE TypeOK'
  <2>1. handler[m] \in Step
    BY <1>0, <1>5, HeldType DEF UploadQueue
  <2>2. handler[m].call \in Calls
    BY <2>1 DEF Step
  <2>3. job' \in [Calls -> {NoJob} \cup [path : {"reference", "disk", "temp"}, at : Hosts]]
    BY <1>5, <2>2 DEF UploadQueue, TypeOK
  <2>4. acked' \in [Calls -> Hosts \cup {None}]
    BY <1>5, <2>2 DEF UploadQueue, TypeOK
  <2>5. handler' \in [Hosts -> {Idle} \cup Step]
    BY <1>5 DEF UploadQueue, TypeOK, Hold, Step
  <2> QED
    BY <1>5, <2>3, <2>4, <2>5 DEF UploadQueue, TypeOK, files, Step
<1>6. ASSUME NEW m \in Hosts, Repoint(m) PROVE TypeOK'
  <2>1. handler[m] \in Step
    BY <1>0, <1>6, HeldType DEF Repoint
  <2>2. row' \in [Calls -> Url \cup {NoRow, External}]
    BY <1>6, <2>1 DEF Repoint, TypeOK, Step
  <2>3. handler' \in [Hosts -> {Idle} \cup Step]
    BY <1>6 DEF Repoint, TypeOK, Hold, Step
  <2> QED
    BY <1>6, <2>2, <2>3 DEF Repoint, TypeOK, files, upload, Step
<1>7. ASSUME NEW m \in Hosts, NEW c \in Calls, UploadSave(m, c) PROVE TypeOK'
  <2>1. manager[m] \in Schemes
    BY <1>7 DEF UploadSave, Up, TypeOK
  <2>2. disk' \in [Hosts -> SUBSET Objects] /\ bucket' \in [{"supabase", "s3"} -> SUBSET Objects]
    BY <1>0, <1>7, <2>1, StoreAdds DEF UploadSave
  <2>3. StoredUrl(manager[m], c, "amr") \in Url
    BY <1>0, <2>1, UrlType
  <2>4. [step |-> "saved", call |-> c, url |-> StoredUrl(manager[m], c, "amr")] \in Step
    BY <2>3 DEF Step
  <2>5. handler' \in [Hosts -> {Idle} \cup Step]
    BY <1>7, <2>4 DEF UploadSave, TypeOK, Hold, Step
  <2>6. used' \subseteq Calls /\ temps' \in [Hosts -> SUBSET Calls]
    BY <1>7 DEF UploadSave, TypeOK
  <2> QED
    BY <1>7, <2>2, <2>5, <2>6 DEF UploadSave, TypeOK, Step
<1>8. ASSUME NEW m \in Hosts, NEW c \in Calls, UploadRefused(m, c) PROVE TypeOK'
  BY <1>8 DEF UploadRefused, TypeOK, files
<1>9. ASSUME NEW m \in Hosts, NEW c \in Calls, Refetch(m, c) PROVE TypeOK'
  <2>1. manager[m] \in Schemes
    BY <1>9 DEF Refetch, Up, TypeOK
  <2>2. disk' \in [Hosts -> SUBSET Objects] /\ bucket' \in [{"supabase", "s3"} -> SUBSET Objects]
    BY <1>0, <1>9, <2>1, StoreAdds DEF Refetch
  <2>3. StoredUrl(manager[m], c, "mp3") \in Url
    BY <1>0, <2>1, UrlType
  <2>4. [step |-> "repoint", call |-> c, url |-> StoredUrl(manager[m], c, "mp3")] \in Step
    BY <2>3 DEF Step
  <2>5. handler' \in [Hosts -> {Idle} \cup Step]
    BY <1>9, <2>4 DEF Refetch, TypeOK, Hold, Step
  <2> QED
    BY <1>9, <2>2, <2>5 DEF Refetch, TypeOK, upload, Step
<1>10. ASSUME NEW m \in Hosts, NEW c \in Calls, Delete(m, c) PROVE TypeOK'
  BY <1>10 DEF Delete, TypeOK, files, upload
<1>11. ASSUME NEW m \in Hosts, NEW c \in Calls, Migrate(m, c) PROVE TypeOK'
  <2>1. PICK e \in Exts :
           /\ Store(m, "supabase", c, e)
           /\ Hold(m, [step |-> "repoint", call |-> c, url |-> StoredUrl("supabase", c, e)])
    BY <1>11 DEF Migrate
  <2>2. disk' \in [Hosts -> SUBSET Objects] /\ bucket' \in [{"supabase", "s3"} -> SUBSET Objects]
    BY <1>0, <2>1, StoreAdds
  <2>3. StoredUrl("supabase", c, e) \in Url
    BY <1>0, UrlType
  <2>4. [step |-> "repoint", call |-> c, url |-> StoredUrl("supabase", c, e)] \in Step
    BY <2>3 DEF Step
  <2>5. handler' \in [Hosts -> {Idle} \cup Step]
    BY <2>1, <2>4 DEF TypeOK, Hold, Step
  <2> QED
    BY <1>11, <2>2, <2>5 DEF Migrate, TypeOK, upload, Step
<1>12. ASSUME NEW m \in Hosts, UploadUnanswered(m) PROVE TypeOK'
  BY <1>12 DEF UploadUnanswered, TypeOK, Hold, files, upload
<1> QED
  BY <1>1, <1>2, <1>3, <1>4, <1>5, <1>6, <1>7, <1>8, <1>9, <1>10, <1>11, <1>12
  DEF Next

\* The state is always well typed: no manager but the configured ones, no object
\* or URL with another extension than detection knows.
THEOREM StoreTypeCorrect == Spec => []TypeOK
BY InitType, NextType, PTL DEF Spec

-----------------------------------------------------------------------------
(* Objects and URLs *)

Cloud == {"supabase", "s3"}

\* The object of call c that URL u names is where machine m can read it itself.
Kept(m, c, u) ==
  /\ u.scheme = "local" => <<c, u.ext>> \in disk[m]
  /\ u.scheme = "supabase" => m \in Keyed /\ <<c, u.ext>> \in bucket["supabase"]
  /\ u.scheme = "s3" => Mode(m) = "s3" /\ <<c, u.ext>> \in bucket["s3"]

\* A process runs the configured manager, and the URL it is about to commit
\* names an object that it has stored.
KeptInv ==
  /\ \A m \in Hosts : manager[m] \in {Mode(m), "down"}
  /\ \A m \in Hosts : handler[m] # Idle => Kept(m, handler[m].call, handler[m].url)

\* No step takes an object out of a bucket; a disk loses objects only at a
\* redeploy, which ends what the machine was doing.
LEMMA FilesGrow ==
  ASSUME TypeOK, [Next]_vars
  PROVE  /\ \A x \in Cloud : bucket[x] \subseteq bucket'[x]
         /\ \A m \in Hosts : disk[m] \subseteq disk'[m] \/ handler'[m] = Idle
<1> DEFINE Grow == /\ \A x \in Cloud : bucket[x] \subseteq bucket'[x]
                   /\ \A m \in Hosts : disk[m] \subseteq disk'[m] \/ handler'[m] = Idle
<1>0. "amr" \in Exts /\ "mp3" \in Exts /\ "supabase" \in Schemes
  BY DEF Exts, Schemes
<1>1. ASSUME UNCHANGED files PROVE Grow
  BY <1>1 DEF files
<1>2. ASSUME NEW m \in Hosts, Redeploy(m) PROVE Grow
  BY <1>2 DEF Redeploy, Hold, TypeOK
<1>3. ASSUME NEW m \in Hosts, NEW s \in Schemes, NEW c \in Calls, NEW e \in Exts, Store(m, s, c, e)
      PROVE Grow
  BY <1>3, StoreAdds DEF Cloud
<1>4. ASSUME NEW m \in Hosts, NEW c \in Calls, UploadSave(m, c) \/ Refetch(m, c) \/ Migrate(m, c)
      PROVE Grow
  <2>1. UploadSave(m, c) \/ Refetch(m, c) => manager[m] \in Schemes
    BY DEF UploadSave, Refetch, Up, TypeOK
  <2>2. \E s \in Schemes, e \in Exts : Store(m, s, c, e)
    BY <1>0, <1>4, <2>1 DEF UploadSave, Refetch, Migrate
  <2> QED
    BY <1>3, <2>2
<1> HIDE DEF Grow
<1>5. CASE UNCHANGED vars
  BY <1>1, <1>5 DEF vars, files
<1>6. ASSUME NEW m \in Hosts, NEW configured \in BOOLEAN, Start(m, configured) PROVE Grow
  BY <1>1, <1>6 DEF Start
<1>7. ASSUME NEW m \in Hosts, UploadCommit(m) \/ UploadQueue(m) \/ UploadUnanswered(m) \/ Repoint(m) PROVE Grow
  BY <1>1, <1>7 DEF UploadCommit, UploadQueue, UploadUnanswered, Repoint
<1>8. ASSUME NEW m \in Hosts, NEW c \in Calls, UploadRefused(m, c) \/ Delete(m, c) PROVE Grow
  BY <1>1, <1>8 DEF UploadRefused, Delete
<1>9. Next => Grow
  BY <1>2, <1>4, <1>6, <1>7, <1>8, Zenon DEF Next
<1> QED
  BY <1>5, <1>9 DEF Grow

\* What a machine kept it still keeps.
LEMMA KeptStays ==
  ASSUME NEW m \in Hosts, NEW c, NEW u, Kept(m, c, u), disk[m] \subseteq disk'[m],
         \A x \in Cloud : bucket[x] \subseteq bucket'[x]
  PROVE  Kept(m, c, u)'
BY DEF Kept, Cloud

\* What a machine has just stored it keeps.
LEMMA StoredKept ==
  ASSUME TypeOK, NEW m \in Hosts, NEW s \in Schemes, NEW c \in Calls, NEW e \in Exts,
         Store(m, s, c, e), s = "supabase" => m \in Keyed, s = "s3" => Mode(m) = "s3",
         NEW u, u = StoredUrl(s, c, e)
  PROVE  Kept(m, c, u)'
<1>1. u.scheme = s
  BY DEF StoredUrl
<1>2. s = "local" => <<c, u.ext>> \in disk'[m]
  BY StoreAdds
<1>3. s # "local" => <<c, u.ext>> \in bucket'[s]
  BY StoreAdds
<1> QED
  BY <1>1, <1>2, <1>3 DEF Kept

\* What a step leaves a machine with: nothing, what it held already, or the URL
\* of what it has just stored.
Told(m) == handler[m] # Idle /\ handler'[m].call = handler[m].call /\ handler'[m].url = handler[m].url

Stored(m) ==
  \E s \in Schemes, c \in Calls, e \in Exts :
    /\ Store(m, s, c, e)
    /\ s \in {manager[m], "supabase"} /\ (s # manager[m] => m \in Keyed)
    /\ handler'[m].call = c /\ handler'[m].url = StoredUrl(s, c, e)

LEMMA Holding ==
  ASSUME TypeOK, [Next]_vars, NEW n \in Hosts
  PROVE  handler'[n] = Idle \/ Told(n) \/ Stored(n)
<1> DEFINE Goal == handler'[n] = Idle \/ Told(n) \/ Stored(n)
<1>0. "amr" \in Exts /\ "mp3" \in Exts /\ "supabase" \in Schemes
  BY DEF Exts, Schemes
<1>1. ASSUME handler'[n] = handler[n] PROVE Goal
  BY <1>1 DEF Told
<1>2. CASE UNCHANGED vars
  BY <1>1, <1>2 DEF vars
<1>3. ASSUME NEW m \in Hosts, NEW configured \in BOOLEAN, Start(m, configured) PROVE Goal
  BY <1>1, <1>3 DEF Start
<1>4. ASSUME NEW m \in Hosts, Redeploy(m) \/ UploadQueue(m) \/ UploadUnanswered(m) \/ Repoint(m) PROVE Goal
  <2>1. handler' = [handler EXCEPT ![m] = Idle]
    BY <1>4 DEF Redeploy, UploadQueue, UploadUnanswered, Repoint, Hold
  <2> QED
    BY <1>1, <2>1 DEF TypeOK
<1>5. ASSUME NEW m \in Hosts, UploadCommit(m) PROVE Goal
  <2>1. handler[m] \in Step /\ handler[m] # Idle
    BY <1>5, HeldType DEF UploadCommit, Idle
  <2>2. \/ handler' = [handler EXCEPT ![m] = [handler[m] EXCEPT !.step = "committed"]]
        \/ handler' = [handler EXCEPT ![m] = Idle]
    BY <1>5 DEF UploadCommit, Hold
  <2>3. CASE n = m
    BY <2>1, <2>2, <2>3 DEF TypeOK, Step, Told
  <2>4. CASE n # m
    BY <1>1, <2>2, <2>4 DEF TypeOK
  <2> QED
    BY <2>3, <2>4
<1>6. ASSUME NEW m \in Hosts, NEW c \in Calls, UploadRefused(m, c) \/ Delete(m, c) PROVE Goal
  BY <1>1, <1>6 DEF UploadRefused, Delete
<1>7. ASSUME NEW m \in Hosts, NEW step, NEW s \in Schemes, NEW c \in Calls, NEW e \in Exts,
             Store(m, s, c, e), s \in {manager[m], "supabase"}, s # manager[m] => m \in Keyed,
             Hold(m, [step |-> step, call |-> c, url |-> StoredUrl(s, c, e)])
      PROVE Goal
  <2>1. CASE n = m
    <3>1. handler'[m] = [step |-> step, call |-> c, url |-> StoredUrl(s, c, e)]
      BY <1>7 DEF Hold, TypeOK
    <3>2. handler'[m].call = c /\ handler'[m].url = StoredUrl(s, c, e)
      BY <3>1
    <3> QED
      BY <1>7, <2>1, <3>2 DEF Stored
  <2>2. CASE n # m
    BY <1>1, <1>7, <2>2 DEF Hold, TypeOK
  <2> QED
    BY <2>1, <2>2
<1> HIDE DEF Goal
<1>8. ASSUME NEW m \in Hosts, NEW c \in Calls, UploadSave(m, c) \/ Refetch(m, c) PROVE Goal
  <2>1. manager[m] \in Schemes
    BY <1>8 DEF UploadSave, Refetch, Up, TypeOK
  <2> QED
    BY <1>0, <1>7, <1>8, <2>1 DEF UploadSave, Refetch
<1>9. ASSUME NEW m \in Hosts, NEW c \in Calls, Migrate(m, c) PROVE Goal
  BY <1>0, <1>7, <1>9 DEF Migrate
<1>10. Next => Goal
  BY <1>3, <1>4, <1>5, <1>6, <1>8, <1>9, Zenon DEF Next
<1> QED
  BY <1>2, <1>10 DEF Goal

LEMMA KeptNext ==
  ASSUME TypeOK, KeptInv, [Next]_vars
  PROVE  KeptInv'
<1>1. ASSUME NEW m \in Hosts PROVE manager'[m] \in {Mode(m), "down"}
  <2>1. manager' = manager \/ \E n \in Hosts : manager' \in {[manager EXCEPT ![n] = Mode(n)],
                                                             [manager EXCEPT ![n] = "down"]}
    BY DEF Next, vars, Start, Redeploy, UploadCommit, UploadQueue, UploadUnanswered, Repoint, UploadSave,
           UploadRefused, Refetch, Delete, Migrate
  <2> QED
    BY <2>1 DEF KeptInv, TypeOK
<1>2. ASSUME NEW m \in Hosts, handler'[m] # Idle
      PROVE Kept(m, handler[m].call, handler[m].url)'
  <2>1. disk[m] \subseteq disk'[m] /\ \A x \in Cloud : bucket[x] \subseteq bucket'[x]
    BY <1>2, FilesGrow
  <2>2. CASE Told(m)
    <3>0. PICK c, u : c = handler[m].call /\ u = handler[m].url
      OBVIOUS
    <3>1. Kept(m, c, u) /\ handler'[m].call = c /\ handler'[m].url = u
      BY <2>2, <3>0 DEF Told, KeptInv
    <3>2. Kept(m, c, u)'
      BY <2>1, <3>1, KeptStays
    <3> QED
      BY <3>1, <3>2 DEF Kept
  <2>3. CASE Stored(m)
    <3>1. PICK s \in Schemes, c \in Calls, e \in Exts :
             /\ Store(m, s, c, e)
             /\ s \in {manager[m], "supabase"} /\ (s # manager[m] => m \in Keyed)
             /\ handler'[m].call = c /\ handler'[m].url = StoredUrl(s, c, e)
      BY <2>3 DEF Stored
    <3>2. s = manager[m] => s = Mode(m)
      BY <3>1 DEF KeptInv, Schemes
    <3>3. s = "supabase" => m \in Keyed
      BY <3>1, <3>2, ModeType, StoreAssumption
    <3>4. s = "s3" => Mode(m) = "s3"
      BY <3>1, <3>2
    <3>5. PICK u : u = StoredUrl(s, c, e)
      OBVIOUS
    <3>6. Kept(m, c, u)'
      BY <3>1, <3>3, <3>4, <3>5, StoredKept
    <3> QED
      BY <3>1, <3>5, <3>6 DEF Kept
  <2> QED
    BY <1>2, <2>2, <2>3, Holding
<1> QED
  BY <1>1, <1>2 DEF KeptInv, Mode

\* The row of a call is left alone, deleted, or pointed at the URL that some
\* machine is about to commit.
Committed(c) ==
  \E m \in Hosts : /\ handler[m].step \in {"saved", "repoint"} /\ handler[m].call = c
                   /\ row'[c] = handler[m].url

LEMMA RowSteps ==
  ASSUME TypeOK, [Next]_vars, NEW c \in Calls
  PROVE  row'[c] = row[c] \/ row'[c] = NoRow \/ Committed(c)
<1>1. row' = row \/ \E m \in Hosts : \/ UploadCommit(m) \/ Repoint(m)
                                    \/ \E d \in Calls : Delete(m, d)
  BY DEF Next, vars, Start, Redeploy, UploadQueue, UploadUnanswered, UploadSave,
         UploadRefused, Refetch, Migrate
<1>2. ASSUME NEW m \in Hosts, UploadCommit(m) \/ Repoint(m)
      PROVE row'[c] = row[c] \/ Committed(c)
  <2>1. row' = row \/ row' = [row EXCEPT ![handler[m].call] = handler[m].url]
    BY <1>2 DEF UploadCommit, Repoint, TypeOK
  <2>2. handler[m].step \in {"saved", "repoint"}
    BY <1>2 DEF UploadCommit, Repoint
  <2> QED
    BY <2>1, <2>2 DEF TypeOK, Committed
<1>3. ASSUME NEW m \in Hosts, NEW d \in Calls, Delete(m, d)
      PROVE row'[c] = row[c] \/ row'[c] = NoRow
  BY <1>3 DEF Delete, TypeOK
<1> QED
  BY <1>1, <1>2, <1>3

LEMMA KeptInit == Init => KeptInv
BY DEF Init, KeptInv

LEMMA CloudNext ==
  ASSUME TypeOK, KeptInv, CloudUrlIsStored, [Next]_vars
  PROVE  CloudUrlIsStored'
<1> SUFFICES ASSUME NEW c \in Calls, row'[c].scheme \in Cloud
             PROVE  <<c, row'[c].ext>> \in bucket'[row'[c].scheme]
  BY DEF CloudUrlIsStored, Named, Cloud
<1>1. \A x \in Cloud : bucket[x] \subseteq bucket'[x]
  BY FilesGrow
<1>2. CASE row'[c] = row[c]
  BY <1>1, <1>2 DEF CloudUrlIsStored, Named, Cloud
<1>3. CASE row'[c] = NoRow
  BY <1>3 DEF NoRow, Cloud
<1>4. CASE Committed(c)
  <2>1. PICK m \in Hosts : /\ handler[m].step \in {"saved", "repoint"} /\ handler[m].call = c
                          /\ row'[c] = handler[m].url
    BY <1>4 DEF Committed
  <2>2. Kept(m, c, row'[c])
    BY <2>1 DEF KeptInv, Idle
  <2> QED
    BY <1>1, <2>2 DEF Kept, Cloud
<1> QED
  BY <1>2, <1>3, <1>4, RowSteps

\* A row never names an object that is not in its bucket under that extension.
THEOREM CloudUrlCorrect == Spec => []CloudUrlIsStored
<1>1. Init => TypeOK /\ KeptInv /\ CloudUrlIsStored
  <2>1. Init => CloudUrlIsStored
    BY DEF Init, CloudUrlIsStored, NoRow, External
  <2> QED
    BY <2>1, InitType, KeptInit
<1>2. TypeOK /\ KeptInv /\ CloudUrlIsStored /\ [Next]_vars => (TypeOK /\ KeptInv /\ CloudUrlIsStored)'
  BY NextType, KeptNext, CloudNext
<1> QED
  BY <1>1, <1>2, PTL DEF Spec

-----------------------------------------------------------------------------
(* Copies *)

\* Some machine can play c from where URL u points.
Playable(c, u) ==
  \E m \in Hosts : \/ u.scheme = "local" /\ <<c, u.ext>> \in disk[m]
                   \/ u.scheme = "supabase" /\ m \in Keyed /\ <<c, u.ext>> \in bucket["supabase"]
                   \/ u.scheme = "s3" /\ Mode(m) = "s3" /\ <<c, u.ext>> \in bucket["s3"]
                   \/ u = External

LEMMA ServesPlayable ==
  ASSUME NEW c \in Calls
  PROVE  /\ (\E m \in Hosts : Serves(m, c)) <=> Playable(c, row[c])
         /\ (\E m \in Hosts : Serves(m, c))' <=> Playable(c, row[c])'
BY DEF Serves, ServesLocal, ServesSupabase, ServesS3, Named, Playable

LEMMA ReachNext ==
  ASSUME TypeOK, KeptInv, [Next]_vars, NEW c \in Calls,
         Playable(c, row[c]), Row(c)', \A m \in Hosts : disk[m] \subseteq disk'[m]
  PROVE  Playable(c, row[c])'
<1>1. \A x \in Cloud : bucket[x] \subseteq bucket'[x]
  BY FilesGrow
<1>2. CASE row'[c] = row[c]
  BY <1>1, <1>2 DEF Playable, Cloud, Mode
<1>3. CASE row'[c] = NoRow
  BY <1>3 DEF Row
<1>4. CASE Committed(c)
  <2>1. PICK m \in Hosts : /\ handler[m].step \in {"saved", "repoint"} /\ handler[m].call = c
                          /\ row'[c] = handler[m].url
    BY <1>4 DEF Committed
  <2>2. PICK u : u = row'[c]
    OBVIOUS
  <2>3. Kept(m, c, u)
    BY <2>1, <2>2 DEF KeptInv, Idle
  <2>4. Kept(m, c, u)'
    BY <1>1, <2>3, KeptStays
  <2>5. u.scheme \in Schemes
    BY <2>1, <2>2, HeldType DEF Step, Url
  <2>6. Playable(c, u)'
    BY <2>4, <2>5 DEF Kept, Playable, Schemes
  <2> QED
    BY <2>2, <2>6 DEF Playable
<1> QED
  BY <1>2, <1>3, <1>4, RowSteps

\* Refetching, uploading and migrating never cost a recording its last copy.
THEOREM ReachCorrect == Spec => ReachStays
<1> DEFINE Stays ==
      \A c \in Calls :
        (\E m \in Hosts : Serves(m, c)) /\ Row(c)' /\ (\A m \in Hosts : disk[m] \subseteq disk'[m])
          => \E m \in Hosts : Serves(m, c)'
<1>1. Init => TypeOK /\ KeptInv
  BY InitType, KeptInit
<1>2. TypeOK /\ KeptInv /\ [Next]_vars => (TypeOK /\ KeptInv)'
  BY NextType, KeptNext
<1>3. TypeOK /\ KeptInv /\ [Next]_vars => Stays
  BY ReachNext, ServesPlayable
<1>4. TypeOK /\ KeptInv /\ [Next]_vars => [Stays]_vars
  BY <1>3
<1> HIDE DEF Stays
<1>5. Spec => [][Stays]_vars
  BY <1>1, <1>2, <1>4, PTL DEF Spec
<1> QED
  BY <1>5 DEF ReachStays, Stays

-----------------------------------------------------------------------------
(* What was acknowledged *)

\* Machine m is between storing the upload of c and answering it.
Uploading(m, c) == handler[m].step \in {"saved", "committed"} /\ handler[m].call = c

\* An upload has its call id for itself, from the moment the id is generated to
\* the answer and after it, and stores where its server is configured to.
UploadInv ==
  /\ Legacy \subseteq used
  /\ \A c \in Calls : acked[c] # None => c \in used \ Legacy
  /\ \A m \in Hosts, c \in Calls : Uploading(m, c) =>
       /\ c \in used \ Legacy /\ acked[c] = None
       /\ handler[m].url.scheme = Mode(m)
       /\ \A n \in Hosts : Uploading(n, c) => n = m

\* A machine that uploads did so before, or has just stored the recording under
\* an id that nobody had.
LEMMA UploadSteps ==
  ASSUME TypeOK, KeptInv, [Next]_vars, NEW m \in Hosts, NEW c \in Calls, Uploading(m, c)'
  PROVE  \/ Uploading(m, c) /\ handler'[m].url = handler[m].url
         \/ UploadSave(m, c) /\ handler'[m].url.scheme = Mode(m)
<1> DEFINE Before == Uploading(m, c) /\ handler'[m].url = handler[m].url
           Now    == UploadSave(m, c) /\ handler'[m].url.scheme = Mode(m)
<1>1. ASSUME handler'[m] = handler[m] PROVE Before
  BY <1>1 DEF Uploading
<1>2. CASE UNCHANGED vars
  BY <1>1, <1>2 DEF vars
<1>3. ASSUME NEW n \in Hosts, NEW configured \in BOOLEAN, Start(n, configured) PROVE Before
  BY <1>1, <1>3 DEF Start
<1>4. ASSUME NEW n \in Hosts, Redeploy(n) \/ UploadQueue(n) \/ UploadUnanswered(n) \/ Repoint(n) PROVE Before
  <2>1. handler' = [handler EXCEPT ![n] = Idle]
    BY <1>4 DEF Redeploy, UploadQueue, UploadUnanswered, Repoint, Hold
  <2>2. n # m
    BY <2>1 DEF TypeOK, Uploading, Idle
  <2> QED
    BY <1>1, <2>1, <2>2 DEF TypeOK
<1>5. ASSUME NEW n \in Hosts, UploadCommit(n) PROVE Before
  <2>1. handler[n] \in Step /\ handler[n].step = "saved"
    BY <1>5, HeldType DEF UploadCommit
  <2>2. \/ handler' = [handler EXCEPT ![n] = [handler[n] EXCEPT !.step = "committed"]]
        \/ handler' = [handler EXCEPT ![n] = Idle]
    BY <1>5 DEF UploadCommit, Hold
  <2>3. CASE n = m
    <3>1. handler'[m] = [handler[m] EXCEPT !.step = "committed"]
      BY <2>2, <2>3 DEF TypeOK, Uploading, Idle
    <3> QED
      BY <2>1, <2>3, <3>1 DEF Step, Uploading
  <2>4. CASE n # m
    BY <1>1, <2>2, <2>4 DEF TypeOK
  <2> QED
    BY <2>3, <2>4
<1>6. ASSUME NEW n \in Hosts, NEW d \in Calls, UploadRefused(n, d) \/ Delete(n, d) PROVE Before
  BY <1>1, <1>6 DEF UploadRefused, Delete
<1>7. ASSUME NEW n \in Hosts, NEW d \in Calls, UploadSave(n, d) PROVE Before \/ Now
  <2>1. handler' = [handler EXCEPT ![n] = [step |-> "saved", call |-> d,
                                           url |-> StoredUrl(manager[n], d, "amr")]]
    BY <1>7 DEF UploadSave, Hold
  <2>2. CASE n = m
    <3>1. handler'[m] = [step |-> "saved", call |-> d, url |-> StoredUrl(manager[m], d, "amr")]
      BY <2>1, <2>2 DEF TypeOK
    <3>2. d = c /\ handler'[m].url.scheme = manager[m]
      BY <3>1 DEF Uploading, StoredUrl
    <3>3. manager[m] = Mode(m)
      BY <1>7, <2>2 DEF UploadSave, Up, KeptInv
    <3> QED
      BY <1>7, <2>2, <3>2, <3>3
  <2>3. CASE n # m
    BY <1>1, <2>1, <2>3 DEF TypeOK
  <2> QED
    BY <2>2, <2>3
<1>8. ASSUME NEW n \in Hosts, NEW d \in Calls, Refetch(n, d) \/ Migrate(n, d) PROVE Before
  <2>1. PICK u : handler' = [handler EXCEPT ![n] = [step |-> "repoint", call |-> d, url |-> u]]
    BY <1>8 DEF Refetch, Migrate, Hold
  <2>2. n # m
    BY <2>1 DEF TypeOK, Uploading
  <2> QED
    BY <1>1, <2>1, <2>2 DEF TypeOK
<1> HIDE DEF Before, Now
<1>9. Next => Before \/ Now
  BY <1>3, <1>4, <1>5, <1>6, <1>7, <1>8, Zenon DEF Next
<1> QED
  BY <1>2, <1>9 DEF Before, Now

\* Ids stay generated; only the answer to an upload acknowledges it and queues
\* its job.
Acks == \/ used \subseteq used' /\ acked' = acked /\ job' = job
        \/ used' = used /\ \E m \in Hosts : UploadQueue(m)

LEMMA AckSteps ==
  ASSUME TypeOK, [Next]_vars
  PROVE  Acks
<1>1. CASE UNCHANGED vars
  BY <1>1 DEF vars, upload, Acks
<1>2. ASSUME NEW m \in Hosts,
             \/ \E configured \in BOOLEAN : Start(m, configured)
             \/ Redeploy(m) \/ UploadCommit(m) \/ UploadUnanswered(m) \/ Repoint(m)
      PROVE  Acks
  <2>1. used' = used /\ acked' = acked /\ job' = job
    BY <1>2 DEF upload, Start, Redeploy, UploadCommit, UploadUnanswered, Repoint
  <2> QED
    BY <2>1 DEF Acks
<1>3. ASSUME NEW m \in Hosts, UploadQueue(m) PROVE Acks
  BY <1>3 DEF UploadQueue, Acks
<1>4. ASSUME NEW m \in Hosts, NEW c \in Calls,
             \/ UploadSave(m, c) \/ UploadRefused(m, c)
             \/ Refetch(m, c) \/ Delete(m, c) \/ Migrate(m, c)
      PROVE  Acks
  <2>1. used \subseteq used' /\ acked' = acked /\ job' = job
    <3>1. CASE UploadSave(m, c) \/ UploadRefused(m, c)
      BY <1>4, <3>1 DEF UploadSave, UploadRefused
    <3>2. CASE Refetch(m, c)
      BY <3>2 DEF upload, Refetch
    <3>3. CASE Delete(m, c) \/ Migrate(m, c)
      BY <3>3 DEF upload, Delete, Migrate
    <3> QED
      BY <1>4, <3>1, <3>2, <3>3
  <2> QED
    BY <2>1 DEF Acks
<1> QED
  BY <1>1, <1>2, <1>3, <1>4, Zenon DEF Next

LEMMA UploadNext ==
  ASSUME TypeOK, KeptInv, UploadInv, [Next]_vars
  PROVE  UploadInv'
<1>1. Legacy \subseteq used'
  BY AckSteps DEF Acks, UploadInv
<1>2. ASSUME NEW m \in Hosts, UploadQueue(m), NEW c \in Calls
      PROVE  /\ handler' = [handler EXCEPT ![m] = Idle] /\ used' = used
             /\ acked'[c] = acked[c] \/ (Uploading(m, c) /\ ~Uploading(m, c)')
  BY <1>2 DEF UploadQueue, Hold, Uploading, TypeOK, Idle
<1>3. ASSUME NEW c \in Calls, acked'[c] # None PROVE c \in used' \ Legacy
  <2>1. CASE acked'[c] = acked[c]
    BY <1>3, <2>1, AckSteps DEF Acks, UploadInv
  <2>2. CASE acked'[c] # acked[c]
    BY <1>2, <2>2, AckSteps DEF Acks, UploadInv
  <2> QED
    BY <2>1, <2>2
<1>4. ASSUME NEW m \in Hosts, NEW c \in Calls, UploadSave(m, c), NEW n \in Hosts, Uploading(n, c)'
      PROVE  n = m
  <2>1. c \notin used
    BY <1>4 DEF UploadSave
  <2>2. ~Uploading(n, c)
    BY <2>1 DEF UploadInv
  <2>3. handler' = [handler EXCEPT ![m] = [step |-> "saved", call |-> c,
                                           url |-> StoredUrl(manager[m], c, "amr")]]
    BY <1>4 DEF UploadSave, Hold
  <2> QED
    BY <1>4, <2>2, <2>3 DEF Uploading, TypeOK
<1>5. ASSUME NEW m \in Hosts, NEW c \in Calls, Uploading(m, c)'
      PROVE /\ c \in used' \ Legacy /\ acked'[c] = None
            /\ handler'[m].url.scheme = Mode(m)
            /\ \A n \in Hosts : Uploading(n, c)' => n = m
  <2>1. CASE UploadSave(m, c) /\ handler'[m].url.scheme = Mode(m)
    <3>1. c \notin used /\ c \in used' /\ acked' = acked
      BY <2>1 DEF UploadSave
    <3>2. c \notin Legacy /\ acked[c] = None
      BY <3>1 DEF UploadInv
    <3> QED
      BY <1>4, <2>1, <3>1, <3>2
  <2>2. CASE Uploading(m, c) /\ handler'[m].url = handler[m].url
    <3>1. c \in used' \ Legacy /\ acked[c] = None /\ handler'[m].url.scheme = Mode(m)
      BY <2>2, AckSteps DEF Acks, UploadInv
    <3>2. acked'[c] = None
      <4>1. CASE acked' = acked
        BY <3>1, <4>1
      <4>2. ASSUME NEW n \in Hosts, UploadQueue(n) PROVE acked'[c] = acked[c]
        <5>1. n # m => ~Uploading(n, c)
          BY <2>2 DEF UploadInv
        <5> QED
          BY <1>2, <1>5, <4>2, <5>1
      <4> QED
        BY <3>1, <4>1, <4>2, AckSteps DEF Acks
    <3>3. ASSUME NEW n \in Hosts, Uploading(n, c)' PROVE n = m
      <4>1. CASE Uploading(n, c)
        BY <2>2, <4>1 DEF UploadInv
      <4>2. CASE UploadSave(n, c)
        BY <2>2, <4>2 DEF UploadSave, UploadInv
      <4> QED
        BY <3>3, <4>1, <4>2, UploadSteps
    <3> QED
      BY <3>1, <3>2, <3>3
  <2> QED
    BY <1>5, <2>1, <2>2, UploadSteps
<1> QED
  BY <1>1, <1>3, <1>5 DEF UploadInv, Mode

\* A row that names no file on one machine's disk, nor an external address.
Durable(r) == r = NoRow \/ r.scheme \in Cloud

CloudHosts == SupabaseHosts \cup S3Hosts

\* Once committed by a server of a bucket, the row of an upload names a bucket.
RowInv ==
  /\ \A c \in Calls \ Legacy : row[c] # External
  /\ \A m \in Hosts : handler[m].step = "repoint" =>
       handler[m].call \in Legacy \/ handler[m].url.scheme = "supabase"
  /\ \A m \in CloudHosts, c \in Calls :
       Uploading(m, c) /\ handler[m].step = "committed" => Durable(row[c])
  /\ \A c \in Calls : acked[c] \in CloudHosts => Durable(row[c])

\* A machine repoints what it repointed before, what it migrates to Supabase, or
\* an external row.
LEMMA RepointSteps ==
  ASSUME TypeOK, [Next]_vars, NEW m \in Hosts, handler'[m].step = "repoint"
  PROVE  \/ handler'[m] = handler[m]
         \/ handler'[m].url.scheme = "supabase"
         \/ handler'[m].call \in Calls /\ row[handler'[m].call] = External
<1> DEFINE Goal == \/ handler'[m] = handler[m]
                   \/ handler'[m].url.scheme = "supabase"
                   \/ handler'[m].call \in Calls /\ row[handler'[m].call] = External
<1>1. ASSUME UNCHANGED handler PROVE Goal
  BY <1>1
<1>2. ASSUME NEW n \in Hosts, NEW x, handler' = [handler EXCEPT ![n] = x], x.step # "repoint"
      PROVE Goal
  BY <1>2 DEF TypeOK
<1> HIDE DEF Goal
<1>0. ASSUME NEW n \in Hosts, handler' = [handler EXCEPT ![n] = Idle] PROVE Goal
  <2>1. PICK x : x = Idle
    OBVIOUS
  <2>2. x.step # "repoint" /\ handler' = [handler EXCEPT ![n] = x]
    BY <1>0, <2>1 DEF Idle
  <2> QED
    BY <1>2, <2>2
<1>3. ASSUME NEW n \in Hosts, Redeploy(n) \/ UploadQueue(n) \/ UploadUnanswered(n) \/ Repoint(n) PROVE Goal
  BY <1>0, <1>3 DEF Redeploy, UploadQueue, UploadUnanswered, Repoint, Hold
<1>4. ASSUME NEW n \in Hosts, UploadCommit(n) PROVE Goal
  <2>1. handler[n] \in Step
    BY <1>4, HeldType DEF UploadCommit
  <2>2. PICK x : x = [handler[n] EXCEPT !.step = "committed"]
    OBVIOUS
  <2>3. x.step = "committed"
    BY <2>1, <2>2 DEF Step
  <2>4. handler' = [handler EXCEPT ![n] = x] \/ handler' = [handler EXCEPT ![n] = Idle]
    BY <1>4, <2>2 DEF UploadCommit, Hold
  <2> QED
    BY <1>0, <1>2, <2>3, <2>4
<1>5. ASSUME NEW n \in Hosts, NEW c \in Calls, UploadSave(n, c) PROVE Goal
  <2>1. PICK x : x = [step |-> "saved", call |-> c, url |-> StoredUrl(manager[n], c, "amr")]
    OBVIOUS
  <2>2. x.step = "saved"
    BY <2>1
  <2>3. handler' = [handler EXCEPT ![n] = x]
    BY <1>5, <2>1 DEF UploadSave, Hold
  <2> QED
    BY <1>2, <2>2, <2>3
<1>6. ASSUME NEW n \in Hosts, NEW c \in Calls, Refetch(n, c) PROVE Goal
  <2>1. row[c] = External
    BY <1>6 DEF Refetch
  <2>2. PICK u : handler' = [handler EXCEPT ![n] = [step |-> "repoint", call |-> c, url |-> u]]
    BY <1>6 DEF Refetch, Hold
  <2>3. CASE n = m
    <3>1. handler'[m].call = c
      BY <2>2, <2>3 DEF TypeOK
    <3> QED
      BY <2>1, <3>1 DEF Goal
  <2>4. CASE n # m
    BY <2>2, <2>4 DEF TypeOK, Goal
  <2> QED
    BY <2>3, <2>4
<1>7. ASSUME NEW n \in Hosts, NEW c \in Calls, Migrate(n, c) PROVE Goal
  <2>1. PICK e \in Exts : handler' = [handler EXCEPT ![n] =
                            [step |-> "repoint", call |-> c, url |-> StoredUrl("supabase", c, e)]]
    BY <1>7 DEF Migrate, Hold
  <2>2. CASE n = m
    <3>1. handler'[m].url = StoredUrl("supabase", c, e)
      BY <2>1, <2>2 DEF TypeOK
    <3> QED
      BY <3>1 DEF StoredUrl, Goal
  <2>3. CASE n # m
    BY <2>1, <2>3 DEF TypeOK, Goal
  <2> QED
    BY <2>2, <2>3
<1>8. ASSUME NEW n \in Hosts, NEW c \in Calls, UploadRefused(n, c) \/ Delete(n, c) PROVE Goal
  BY <1>1, <1>8 DEF UploadRefused, Delete
<1>9. ASSUME NEW n \in Hosts, NEW configured \in BOOLEAN, Start(n, configured) PROVE Goal
  BY <1>1, <1>9 DEF Start
<1>10. Next => Goal
  BY <1>3, <1>4, <1>5, <1>6, <1>7, <1>8, <1>9, Zenon DEF Next
<1> QED
  BY <1>1, <1>10 DEF Goal, vars

\* A machine that is past its commit was so before, or has just pointed the row
\* at what it stored.
LEMMA CommitSteps ==
  ASSUME TypeOK, [Next]_vars, NEW m \in Hosts, NEW c \in Calls,
         Uploading(m, c)', handler'[m].step = "committed"
  PROVE  \/ Uploading(m, c) /\ handler[m].step = "committed"
         \/ Uploading(m, c) /\ row'[c] = handler[m].url
<1> DEFINE Goal == \/ Uploading(m, c) /\ handler[m].step = "committed"
                   \/ Uploading(m, c) /\ row'[c] = handler[m].url
<1>1. ASSUME handler'[m] = handler[m] PROVE Goal
  BY <1>1 DEF Uploading
<1>2. ASSUME NEW n \in Hosts, NEW x, handler' = [handler EXCEPT ![n] = x], x.step # "committed"
      PROVE Goal
  BY <1>1, <1>2 DEF TypeOK
<1> HIDE DEF Goal
<1>0. ASSUME NEW n \in Hosts, handler' = [handler EXCEPT ![n] = Idle] PROVE Goal
  <2>1. PICK x : x = Idle
    OBVIOUS
  <2>2. x.step # "committed" /\ handler' = [handler EXCEPT ![n] = x]
    BY <1>0, <2>1 DEF Idle
  <2> QED
    BY <1>2, <2>2
<1>3. ASSUME NEW n \in Hosts, Redeploy(n) \/ UploadQueue(n) \/ UploadUnanswered(n) \/ Repoint(n) PROVE Goal
  BY <1>0, <1>3 DEF Redeploy, UploadQueue, UploadUnanswered, Repoint, Hold
<1>4. ASSUME NEW n \in Hosts, UploadCommit(n) PROVE Goal
  <2>1. handler[n] \in Step /\ handler[n].step = "saved"
    BY <1>4, HeldType DEF UploadCommit
  <2>2. CASE n # m
    BY <1>1, <1>4, <2>2 DEF UploadCommit, Hold, TypeOK
  <2>3. CASE n = m
    <3>1. CASE handler' = [handler EXCEPT ![n] = Idle]
      BY <1>0, <3>1
    <3>2. CASE /\ row' = [row EXCEPT ![handler[n].call] = handler[n].url]
               /\ handler' = [handler EXCEPT ![n] = [handler[n] EXCEPT !.step = "committed"]]
      <4>1. handler'[m].call = handler[m].call
        BY <2>1, <2>3, <3>2 DEF TypeOK, Step
      <4>2. Uploading(m, c)
        BY <2>1, <2>3, <4>1 DEF Uploading
      <4> QED
        BY <2>3, <3>2, <4>2 DEF Uploading, TypeOK, Goal
    <3> QED
      BY <1>4, <3>1, <3>2 DEF UploadCommit, Hold
  <2> QED
    BY <2>2, <2>3
<1>5. ASSUME NEW n \in Hosts, NEW d \in Calls, UploadSave(n, d) PROVE Goal
  <2>1. PICK x : x = [step |-> "saved", call |-> d, url |-> StoredUrl(manager[n], d, "amr")]
    OBVIOUS
  <2>2. x.step = "saved"
    BY <2>1
  <2>3. handler' = [handler EXCEPT ![n] = x]
    BY <1>5, <2>1 DEF UploadSave, Hold
  <2> QED
    BY <1>2, <2>2, <2>3
<1>6. ASSUME NEW n \in Hosts, NEW d \in Calls, Refetch(n, d) PROVE Goal
  <2>1. PICK x : x = [step |-> "repoint", call |-> d, url |-> StoredUrl(manager[n], d, "mp3")]
    OBVIOUS
  <2>2. x.step = "repoint"
    BY <2>1
  <2>3. handler' = [handler EXCEPT ![n] = x]
    BY <1>6, <2>1 DEF Refetch, Hold
  <2> QED
    BY <1>2, <2>2, <2>3
<1>7. ASSUME NEW n \in Hosts, NEW d \in Calls, Migrate(n, d) PROVE Goal
  <2>1. PICK e \in Exts : handler' = [handler EXCEPT ![n] =
                            [step |-> "repoint", call |-> d, url |-> StoredUrl("supabase", d, e)]]
    BY <1>7 DEF Migrate, Hold
  <2>2. PICK x : x = [step |-> "repoint", call |-> d, url |-> StoredUrl("supabase", d, e)]
    OBVIOUS
  <2>3. x.step = "repoint"
    BY <2>2
  <2> QED
    BY <1>2, <2>1, <2>2, <2>3
<1>8. ASSUME NEW n \in Hosts, NEW d \in Calls, UploadRefused(n, d) \/ Delete(n, d) PROVE Goal
  BY <1>1, <1>8 DEF UploadRefused, Delete
<1>9. ASSUME NEW n \in Hosts, NEW configured \in BOOLEAN, Start(n, configured) PROVE Goal
  BY <1>1, <1>9 DEF Start
<1>10. Next => Goal
  BY <1>3, <1>4, <1>5, <1>6, <1>7, <1>8, <1>9, Zenon DEF Next
<1> QED
  BY <1>1, <1>10 DEF Goal, vars

\* A row that is no legacy one changes to something durable, or to what the
\* upload of the call has stored.
LEMMA RowChange ==
  ASSUME TypeOK, UploadInv, RowInv, [Next]_vars, NEW c \in Calls \ Legacy, row'[c] # row[c]
  PROVE  Durable(row'[c]) \/ \E m \in Hosts : Uploading(m, c) /\ row'[c].scheme = Mode(m)
<1>1. CASE row'[c] = NoRow
  BY <1>1 DEF Durable
<1>2. CASE Committed(c)
  <2>1. PICK m \in Hosts : /\ handler[m].step \in {"saved", "repoint"} /\ handler[m].call = c
                         /\ row'[c] = handler[m].url
    BY <1>2 DEF Committed
  <2>2. CASE handler[m].step = "repoint"
    BY <2>1, <2>2 DEF RowInv, Durable, Cloud
  <2>3. CASE handler[m].step = "saved"
    BY <2>1, <2>3 DEF UploadInv, Uploading
  <2> QED
    BY <2>1, <2>2, <2>3
<1> QED
  BY <1>1, <1>2, RowSteps

LEMMA CloudMode ==
  ASSUME NEW m \in CloudHosts
  PROVE  m \in Hosts /\ Mode(m) \in Cloud
BY DEF CloudHosts, Hosts, Mode, Cloud

LEMMA RowNext ==
  ASSUME TypeOK, KeptInv, UploadInv, RowInv, [Next]_vars
  PROVE  RowInv'
<1>0. None \notin CloudHosts /\ External \notin Url /\ External # NoRow
  BY StoreAssumption DEF CloudHosts, Hosts, Url, External, NoRow, Schemes
<1>1. ASSUME NEW c \in Calls \ Legacy PROVE row'[c] # External
  <2>1. row'[c] = row[c] \/ row'[c] = NoRow \/ row'[c] \in Url
    BY RowSteps, HeldType DEF Committed, Step
  <2> QED
    BY <1>0, <2>1 DEF RowInv
<1>2. ASSUME NEW m \in Hosts, handler'[m].step = "repoint"
      PROVE handler'[m].call \in Legacy \/ handler'[m].url.scheme = "supabase"
  BY <1>2, RepointSteps DEF RowInv
<1>3. ASSUME NEW m \in CloudHosts, NEW c \in Calls, Uploading(m, c)', handler'[m].step = "committed"
      PROVE Durable(row'[c])
  <2>1. m \in Hosts /\ Uploading(m, c)
    BY <1>3, CloudMode, CommitSteps
  <2>2. c \in Calls \ Legacy /\ handler[m].url.scheme \in Cloud
    BY <2>1, CloudMode DEF UploadInv
  <2>3. \A n \in Hosts : Uploading(n, c) => n = m
    BY <2>1 DEF UploadInv
  <2>4. CASE row'[c] = handler[m].url
    BY <2>2, <2>4 DEF Durable
  <2>5. CASE handler[m].step = "committed" /\ row'[c] = row[c]
    BY <2>1, <2>5 DEF RowInv
  <2>6. CASE row'[c] # row[c]
    BY <2>2, <2>3, <2>6, RowChange, CloudMode DEF Durable
  <2> QED
    BY <1>3, <2>1, <2>4, <2>5, <2>6, CommitSteps
<1>4. ASSUME NEW c \in Calls, acked'[c] \in CloudHosts PROVE Durable(row'[c])
  <2>1. CASE acked' = acked
    <3>1. c \in Calls \ Legacy /\ \A n \in Hosts : ~Uploading(n, c)
      BY <1>0, <1>4, <2>1 DEF UploadInv
    <3>2. CASE row'[c] = row[c]
      BY <1>4, <2>1, <3>2 DEF RowInv
    <3>3. CASE row'[c] # row[c]
      BY <3>1, <3>3, RowChange
    <3> QED
      BY <3>2, <3>3
  <2>2. ASSUME NEW m \in Hosts, UploadQueue(m) PROVE Durable(row'[c])
    <3>1. row' = row /\ handler[m].step = "committed"
          /\ acked' = [acked EXCEPT ![handler[m].call] = m]
      BY <2>2 DEF UploadQueue
    <3>2. CASE c = handler[m].call
      <4>1. Uploading(m, c) /\ m \in CloudHosts
        BY <1>4, <3>1, <3>2 DEF Uploading, TypeOK
      <4> QED
        BY <3>1, <4>1 DEF RowInv
    <3>3. CASE c # handler[m].call
      BY <1>4, <3>1, <3>3 DEF RowInv, TypeOK
    <3> QED
      BY <3>2, <3>3
  <2> QED
    BY <2>1, <2>2, AckSteps DEF Acks
<1> QED
  BY <1>1, <1>2, <1>3, <1>4 DEF RowInv, Durable

LEMMA RowInit == Init => UploadInv /\ RowInv
<1> SUFFICES ASSUME Init PROVE UploadInv /\ RowInv
  OBVIOUS
<1>1. \A m \in Hosts : handler[m].step = "idle"
  BY DEF Init, Idle
<1>2. \A m \in Hosts, c \in Calls : ~Uploading(m, c)
  BY <1>1 DEF Uploading
<1>3. \A c \in Calls : acked[c] = None /\ None \notin CloudHosts /\ CloudHosts \subseteq Hosts
  BY StoreAssumption DEF Init, CloudHosts, Hosts
<1>4. \A c \in Calls \ Legacy : row[c] # External
  BY DEF Init, External, NoRow
<1> QED
  BY <1>1, <1>2, <1>3, <1>4 DEF Init, UploadInv, RowInv

\* A recording acknowledged by a server configured for a bucket can be played
\* from a bucket for as long as its row exists.
THEOREM AckedCorrect == Spec => []AckedOutlivesRedeploy
<1> DEFINE All == TypeOK /\ KeptInv /\ CloudUrlIsStored /\ UploadInv /\ RowInv
<1>1. Init => All
  <2>1. Init => CloudUrlIsStored
    BY DEF Init, CloudUrlIsStored, NoRow, External
  <2> QED
    BY <2>1, InitType, KeptInit, RowInit
<1>2. All /\ [Next]_vars => All'
  BY NextType, KeptNext, CloudNext, UploadNext, RowNext
<1>3. All => AckedOutlivesRedeploy
  BY DEF RowInv, CloudHosts, Durable, Cloud, Row, CloudUrlIsStored, AckedOutlivesRedeploy
<1> HIDE DEF All
<1> QED
  BY <1>1, <1>2, <1>3, PTL DEF Spec

-----------------------------------------------------------------------------
(* Recovery *)

\* A Supabase server queues the durable URL of an object that is there, unless
\* the write of the job is lost; no job is written before the answer.
JobInv ==
  \A c \in Calls :
    /\ acked[c] = None => job[c] = NoJob
    /\ acked[c] \in SupabaseHosts /\ job[c] # NoJob =>
         job[c].path = "reference" /\ FoundSupabase(c)

LEMMA JobNext ==
  ASSUME TypeOK, KeptInv, UploadInv, JobInv, [Next]_vars
  PROVE  JobInv'
<1> DEFINE Goal(c) ==
      /\ acked'[c] = None => job'[c] = NoJob
      /\ acked'[c] \in SupabaseHosts /\ job'[c] # NoJob =>
           job'[c].path = "reference" /\ FoundSupabase(c)'
<1> SUFFICES ASSUME NEW c \in Calls PROVE Goal(c)
  BY DEF JobInv
<1>0. FoundSupabase(c) => FoundSupabase(c)'
  BY FilesGrow DEF FoundSupabase, Cloud
<1>1. (acked' = acked /\ job' = job) \/ \E m \in Hosts : UploadQueue(m)
  BY AckSteps DEF Acks
<1>2. ASSUME acked'[c] = acked[c], job'[c] = job[c] PROVE Goal(c)
  BY <1>0, <1>2 DEF JobInv
<1>3. ASSUME NEW m \in Hosts, UploadQueue(m) PROVE Goal(c)
  <2> DEFINE d == handler[m].call
  <2>1. handler[m] \in Step /\ handler[m].step = "committed"
    BY <1>3, HeldType DEF UploadQueue
  <2>2. CASE c = d
    <3>1. Uploading(m, c) /\ acked'[c] = m
      BY <1>3, <2>1, <2>2 DEF UploadQueue, Uploading, TypeOK
    <3>2. acked[c] = None /\ acked'[c] # None
      BY <3>1, StoreAssumption DEF UploadInv
    <3>3. CASE UNCHANGED job
      BY <3>2, <3>3 DEF JobInv
    <3>4. CASE m \notin SupabaseHosts
      BY <3>1, <3>2, <3>4
    <3>5. CASE ~UNCHANGED job /\ m \in SupabaseHosts
      <4>1. Mode(m) = "supabase" /\ handler[m].url.scheme = "supabase"
        BY <3>1, <3>5, ModeType DEF UploadInv
      <4>2. handler[m].url.ext \in Exts
        BY <2>1 DEF Step, Url
      <4>3. FoundSupabase(c)
        <5>1. handler[m] # Idle
          BY <2>1 DEF Idle
        <5>2. Kept(m, c, handler[m].url)
          BY <2>2, <5>1 DEF KeptInv
        <5> QED
          BY <4>1, <4>2, <5>2 DEF Kept, FoundSupabase
      <4>4. job'[c].path = "reference"
        BY <1>3, <2>2, <3>5, <4>1 DEF UploadQueue, TypeOK
      <4> QED
        BY <1>0, <3>2, <4>3, <4>4
    <3> QED
      BY <3>3, <3>4, <3>5
  <2>3. CASE c # d
    <3>1. acked'[c] = acked[c] /\ job'[c] = job[c]
      BY <1>3, <2>3 DEF UploadQueue, TypeOK
    <3> HIDE DEF Goal
    <3> QED
      BY <1>2, <3>1
  <2> QED
    BY <2>2, <2>3
<1> HIDE DEF Goal
<1> QED
  BY <1>1, <1>2, <1>3

\* Recovery under Supabase finds the audio of every recording such a server has
\* acknowledged and whose job row has a path, whatever was redeployed in between.
THEOREM RecoveryCorrect == Spec => []RecoveryFindsAudio
<1> DEFINE All == TypeOK /\ KeptInv /\ UploadInv /\ JobInv
<1>1. Init => All
  <2>1. Init => JobInv
    BY StoreAssumption DEF Init, JobInv, Hosts
  <2> QED
    BY <2>1, InitType, KeptInit, RowInit
<1>2. All /\ [Next]_vars => All'
  BY NextType, KeptNext, UploadNext, JobNext
<1>3. All => RecoveryFindsAudio
  BY DEF JobInv, RecoveryFindsAudio, Resolves, Found
<1> HIDE DEF All
<1> QED
  BY <1>1, <1>2, <1>3, PTL DEF Spec
=============================================================================
