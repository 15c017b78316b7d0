------------------------------ MODULE JobStore ------------------------------
(***************************************************************************)
(* The durable job store (internal/dictation/store.go): one directory per  *)
(* dictation with a job.json, replaced atomically by rename, and the       *)
(* audio.wav captured for it.  Everything here survives a crash.           *)
(*                                                                         *)
(* Ids are numbered in the order newID() hands them out, so CreatedAt      *)
(* order is the order of the numbers and List's "newest first" is by       *)
(* decreasing number.                                                      *)
(***************************************************************************)
EXTENDS Naturals, FiniteSets

CONSTANT MaxJobs    \* bound: dictations started in one behaviour

ASSUME MaxJobsAssumption == MaxJobs \in Nat \ {0}

Jobs == 1..MaxJobs
NoJob == 0

VARIABLES
  store,    \* store[j]: the job.json of j
  audio     \* audio[j]: how much there is in the audio.wav of j

storeVars == <<store, audio>>

(* The JobStatus constants, and two values for "there is no job.json":     *)
(* the id was never used, or its directory has been removed.               *)
JobStatus == {"recording", "queued", "transcribing", "cleaning", "formatting",
              "delivering", "retry_wait", "delivered", "failed", "cancelled"}
NoFile == {"absent", "deleted"}

Job == [status     : JobStatus \cup NoFile,
        transcript : BOOLEAN,    \* Transcript # ""
        final      : BOOLEAN,    \* FinalText # ""
        attempts   : Nat,        \* ASR attempts that failed
        attempted  : BOOLEAN,    \* DeliveryAttempted
        long       : BOOLEAN,    \* RecordingSeconds > MinRecordingSecs
        eligible   : BOOLEAN]    \* Formatting.Eligible

Blank(status) == [status |-> status, transcript |-> FALSE, final |-> FALSE,
                  attempts |-> 0, attempted |-> FALSE, long |-> FALSE,
                  eligible |-> FALSE]

(* Sizes of audio.wav that the code tells apart: no file; the 44 byte      *)
(* placeholder header only; some samples but under 3200 bytes; 3200 bytes  *)
(* or more.                                                                *)
Audio == {"none", "header", "short", "full"}

(* Get succeeds exactly when there is a job.json. *)
Exists(j) == store[j].status \notin NoFile

(* Save replaces job.json whatever is there: it re-creates the directory   *)
(* of a job that was deleted meanwhile (MkdirAll).                         *)
Save(j, rec) == store' = [store EXCEPT ![j] = rec]

RemoveAudio(j) == audio' = [audio EXCEPT ![j] = "none"]

(* Delete and cleanup's RemoveAll drop the whole directory. *)
RemoveDir(j) == /\ store' = [store EXCEPT ![j] = Blank("deleted")]
                /\ RemoveAudio(j)

Listed == {j \in Jobs : Exists(j)}

(* List is newest first: j is the first of the jobs in S. *)
IsNewest(j, S) == j \in S /\ \A k \in S : k <= j

(* Mutants of DueJobs: one of the two kinds of due job is forgotten. *)
DueQueued(backoff) == {j \in Listed : store[j].status = "queued"}
DueWaiting(backoff) ==
  {j \in Listed : store[j].status = "retry_wait" /\ j \notin backoff}

(* DueJobs: backoff is the set of jobs whose NextAttemptAt is ahead. *)
DueJobs(backoff) ==
  {j \in Listed : \/ store[j].status = "queued"
                  \/ store[j].status = "retry_wait" /\ j \notin backoff}

StoreTypeOK == /\ store \in [Jobs -> Job]
               /\ audio \in [Jobs -> Audio]

StoreInit == /\ store = [j \in Jobs |-> Blank("absent")]
             /\ audio = [j \in Jobs |-> "none"]
=============================================================================
