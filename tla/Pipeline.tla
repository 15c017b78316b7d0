------------------------------ MODULE Pipeline ------------------------------
(***************************************************************************)
(* The processing half of the daemon (internal/dictation/daemon.go): the   *)
(* work channel, the single worker and process(), automatic and manual     *)
(* retries, the recovery scan, and what a crash, a SIGTERM and a restart   *)
(* do to a job.                                                            *)
(*                                                                         *)
(* A step of process() ends where another goroutine can see or change what *)
(* it uses next: at a Save, and at a call that waits (ASR, cleanup,        *)
(* formatter, wtype).  Between Get and the last Save the worker works on   *)
(* its own copy of the record, here "job", and every Save overwrites       *)
(* job.json with that copy.                                                *)
(***************************************************************************)
EXTENDS StatusPill, Sequences

CONSTANTS
  MaxAttempts,   \* cfg.Retry.MaxAttempts
  QueueCap,      \* capacity of the work channel (32 in NewDaemon)
  MaxCopies,     \* bound: pending copies of one id that a scan still adds to
  MaxRetries,    \* bound: Retry commands per job
  RetryFrom,     \* statuses in which the user asks for a Retry
  MaxCrashes,    \* bound: crashes of the process
  MaxStops       \* bound: SIGTERMs (systemctl restart or stop)

ASSUME PipelineAssumption ==
  /\ MaxAttempts \in Nat \ {0}
  /\ QueueCap \in Nat \ {0}
  /\ {MaxCopies, MaxRetries, MaxCrashes, MaxStops} \subseteq Nat
  /\ RetryFrom \subseteq JobStatus

VARIABLES
  up,            \* life of the process
  work,          \* d.work, buffered ids in order
  spill,         \* spill[j]: goroutines of enqueue blocked on sending j
  timers,        \* scheduleRetry goroutines: <<id, attempts when armed>>
  backoff,       \* jobs whose NextAttemptAt is still ahead
  scan,          \* recoveryLoop's `jobs` not yet enqueued
  lifecycleMu,   \* d.lifecycleMu, with the record its holder has read
  processingID,  \* d.processingID
  pc,            \* where the worker is in process()
  job,           \* process()'s own copy of the job
  recovering,    \* recoverInterruptedJobs's `jobs` not yet visited
  crashes, stops,   \* how often each has happened
  inserted,      \* history: complete insertions of the text of j
  retries,       \* history: Retry commands that re-queued j
  raced          \* history: jobs whose recording went under a pending Retry

queueVars  == <<work, spill, timers, backoff, scan>>
workerVars == <<processingID, pc, job>>
lifeVars   == <<up, recovering, crashes, stops>>
ghostVars  == <<inserted, retries, raced>>
pipelineVars == <<storeVars, pillVars, queueVars, workerVars, lifeVars,
                  lifecycleMu, ghostVars>>

Stages == {"idle", "load", "loaded", "cancel", "discard", "asr", "clean",
           "format", "delivering", "typing", "typed", "untyped", "done"}

(* Commands that hold lifecycleMu between a read and a Save. *)
LockOps == {"retry", "correct"}
Free == [op |-> "free", id |-> NoJob, job |-> Blank("absent")]

Copies(j) == Cardinality({i \in DOMAIN work : work[i] = j}) + spill[j]

(* The daemon serves connections and runs its loops; a SIGTERM ends that.  *)
Serving == up = "running"
Alive   == up \in {"running", "stopping"}

-----------------------------------------------------------------------------
(* enqueue: into the channel when there is room, else a goroutine blocks.  *)
Enqueue(j) ==
  IF Len(work) < QueueCap
    THEN work' = Append(work, j) /\ UNCHANGED spill
    ELSE spill' = [spill EXCEPT ![j] = @ + 1] /\ UNCHANGED work

(* A blocked sender gets its slot; nothing orders it among later senders.  *)
SpillSends(j) ==
  /\ Alive /\ spill[j] > 0 /\ Len(work) < QueueCap
  /\ work' = Append(work, j)
  /\ spill' = [spill EXCEPT ![j] = @ - 1]
  /\ UNCHANGED <<storeVars, pillVars, timers, backoff, scan, workerVars,
                 lifeVars, lifecycleMu, ghostVars>>

-----------------------------------------------------------------------------
(* Mutant of Dequeue: the id is not published. *)
DequeueUnpublished ==
  /\ Alive /\ pc = "idle" /\ lifecycleMu = Free /\ work # <<>>
  /\ work' = Tail(work)
  /\ pc' = "load"
  /\ UNCHANGED <<storeVars, pillVars, spill, timers, backoff, scan, job,
                 processingID, lifeVars, lifecycleMu, ghostVars>>

(* The worker.  An id is published as processingID under lifecycleMu,      *)
(* which Retry, DeleteHistory and CorrectHistory hold.  While it waits for *)
(* that lock the id it has received already stays at the head of work      *)
(* here: nothing looks into the channel, whose senders only see one slot   *)
(* less than there is, and either way a crash forgets the id.              *)
Dequeue ==
  /\ Alive /\ pc = "idle" /\ lifecycleMu = Free /\ work # <<>>
  /\ processingID' = Head(work)
  /\ work' = Tail(work)
  /\ pc' = "load"
  /\ UNCHANGED <<storeVars, pillVars, spill, timers, backoff, scan, job,
                 lifeVars, lifecycleMu, ghostVars>>

(* Mutant of SkipsJob: a finished job is processed again. *)
SkipsGone(j) == ~Exists(j)

(* process() reads the job and gives up on what is gone or finished.  A    *)
(* "failed" job is not refused.                                            *)
SkipsJob(j) == \/ ~Exists(j)
               \/ store[j].status \in {"delivered", "cancelled"}

Load ==
  /\ Alive /\ pc = "load"
  /\ job' = store[processingID]
  /\ pc' = IF SkipsJob(processingID) THEN "done"
           ELSE IF up = "stopping" THEN "cancel" ELSE "loaded"
  /\ UNCHANGED <<storeVars, pillVars, queueVars, processingID, lifeVars,
                 lifecycleMu, ghostVars>>

(* job.Status = s; Save(job); setStatus("processing", ..) *)
SaveStage(s, rec) ==
  LET saved == [rec EXCEPT !.status = s] IN
  /\ job' = saved
  /\ Save(processingID, saved)
  /\ SetStatus("processing")

Transcribe ==
  /\ Alive /\ pc = "loaded" /\ ~job.transcript
  /\ SaveStage("transcribing", job)
  /\ pc' = "asr"
  /\ UNCHANGED <<audio, recording, queueVars, processingID, lifeVars,
                 lifecycleMu, ghostVars>>

(* A job that already has its transcript skips ASR. *)
SkipTranscribe ==
  /\ Alive /\ pc = "loaded" /\ job.transcript
  /\ SaveStage("cleaning", job)
  /\ pc' = "clean"
  /\ UNCHANGED <<audio, recording, queueVars, processingID, lifeVars,
                 lifecycleMu, ghostVars>>

(* The kinds of error a cloud provider's Transcribe can end with: without  *)
(* the audio file it is permanent; an HTTP 4xx is permanent as well; the   *)
(* rest (network, timeout, 5xx, 429, undecodable or empty) is retryable.   *)
AsrErrors(j) == IF audio[j] = "none" THEN {"permanent"}
                ELSE {"permanent", "retryable"}

(* ASR needs the saved audio; it answers within asrDeadline. *)
AsrAnswers ==
  /\ Serving /\ pc = "asr" /\ audio[processingID] # "none"
  /\ SaveStage("cleaning", [job EXCEPT !.transcript = TRUE])
  /\ pc' = "clean"
  /\ UNCHANGED <<audio, recording, queueVars, processingID, lifeVars,
                 lifecycleMu, ghostVars>>

(* fail() with an error IsRetryable accepts and attempts left. *)
AsrFailsRetryable ==
  /\ Serving /\ pc = "asr" /\ "retryable" \in AsrErrors(processingID)
  /\ job.attempts + 1 < MaxAttempts
  /\ LET n == job.attempts + 1 IN
     /\ Save(processingID,
             [job EXCEPT !.status = "retry_wait", !.attempts = n])
     /\ timers' = timers \cup {<<processingID, n>>}
  /\ backoff' = backoff \cup {processingID}
  /\ SetStatus("retrying")
  /\ pc' = "done"
  /\ UNCHANGED <<audio, recording, work, spill, scan, processingID, job,
                 lifeVars, lifecycleMu, ghostVars>>

(* fail() with a permanent error, or with no attempt left. *)
AsrFailsForGood ==
  /\ Serving /\ pc = "asr"
  /\ Save(processingID,
          [job EXCEPT !.status = "failed", !.attempts = @ + 1])
  /\ ShowAction("error", processingID)
  /\ pc' = "done"
  /\ UNCHANGED <<audio, recording, queueVars, processingID, job, lifeVars,
                 lifecycleMu, ghostVars>>

(* Cleanup answers, or is skipped on an error; the formatter runs on long  *)
(* recordings only, and its failure falls back to the unformatted text.    *)
CleanAnswers ==
  /\ Serving /\ pc = "clean"
  /\ LET cleaned == [job EXCEPT !.eligible = job.long] IN
     IF job.long
       THEN SaveStage("formatting", cleaned) /\ pc' = "format"
       ELSE /\ SaveStage("delivering", [cleaned EXCEPT !.final = TRUE])
            /\ pc' = "delivering"
  /\ UNCHANGED <<audio, recording, queueVars, processingID, lifeVars,
                 lifecycleMu, ghostVars>>

FormatAnswers ==
  /\ Serving /\ pc = "format"
  /\ SaveStage("delivering", [job EXCEPT !.final = TRUE])
  /\ pc' = "delivering"
  /\ UNCHANGED <<audio, recording, queueVars, processingID, lifeVars,
                 lifecycleMu, ghostVars>>

(* DeliveryAttempted is on disk before wtype is started. *)
MarkAttempted ==
  /\ Serving /\ pc = "delivering"
  /\ job' = [job EXCEPT !.attempted = TRUE]
  /\ Save(processingID, [job EXCEPT !.attempted = TRUE])
  /\ pc' = "typing"
  /\ UNCHANGED <<audio, pillVars, queueVars, processingID, lifeVars,
                 lifecycleMu, ghostVars>>

(* deliver: wtype exits 0, the whole text is in the focused window. *)
TypeText ==
  /\ Alive /\ pc = "typing"
  /\ inserted' = [inserted EXCEPT ![processingID] = @ + 1]
  /\ pc' = "typed"
  /\ UNCHANGED <<storeVars, pillVars, queueVars, processingID, job, lifeVars,
                 lifecycleMu, retries, raced>>

(* Mutant of DeliverFails: the error is not looked at. *)
DeliverUnnoticed ==
  /\ Alive /\ pc = "typing"
  /\ pc' = "typed"
  /\ UNCHANGED <<storeVars, pillVars, queueVars, processingID, job, lifeVars,
                 lifecycleMu, ghostVars>>

(* deliver: focus has moved, or wtype failed or timed out part-way. *)
DeliverFails ==
  /\ Alive /\ pc = "typing"
  /\ pc' = "untyped"
  /\ UNCHANGED <<storeVars, pillVars, queueVars, processingID, job, lifeVars,
                 lifecycleMu, ghostVars>>

RecordDelivered ==
  /\ Alive /\ pc = "typed"
  /\ Save(processingID, [job EXCEPT !.status = "delivered"])
  /\ ShowAction("delivered", processingID)
  /\ pc' = "done"
  /\ UNCHANGED <<audio, recording, queueVars, processingID, job, lifeVars,
                 lifecycleMu, ghostVars>>

(* The text goes to the clipboard if wl-copy works; the job is failed. *)
RecordUndelivered ==
  /\ Alive /\ pc = "untyped"
  /\ \E shown \in {"copied", "error"} : ShowAction(shown, processingID)
  /\ Save(processingID, [job EXCEPT !.status = "failed"])
  /\ pc' = "done"
  /\ UNCHANGED <<audio, recording, queueVars, processingID, job, lifeVars,
                 lifecycleMu, ghostVars>>

(* Mutant of CancelledProcessing: the record is not saved. *)
CancelledUnsaved ==
  /\ up = "stopping"
  /\ pc \in {"cancel", "asr", "clean", "format", "delivering"}
  /\ pc' = "discard"
  /\ UNCHANGED <<storeVars, pillVars, queueVars, processingID, job, lifeVars,
                 lifecycleMu, ghostVars>>

(* A Retry of j has checked the recording of j and not saved j yet. *)
RetryPending(j) == lifecycleMu.op = "retry" /\ lifecycleMu.id = j

(* What is about to be removed although a Retry of it is pending. *)
Races(j) == raced' = raced \cup {k \in {j} : RetryPending(k)}

(* cancelledProcessing: the job context is only ever cancelled by the      *)
(* daemon's own shutdown; whatever call was waiting returns at once.       *)
CancelledProcessing ==
  /\ up = "stopping"
  /\ pc \in {"cancel", "asr", "clean", "format", "delivering"}
  /\ Save(processingID, [job EXCEPT !.status = "cancelled"])
  /\ pc' = "discard"
  /\ Races(processingID)
  /\ UNCHANGED <<audio, pillVars, queueVars, processingID, job, lifeVars,
                 lifecycleMu, inserted, retries>>

DiscardAudio ==
  /\ up = "stopping" /\ pc = "discard"
  /\ RemoveAudio(processingID)
  /\ SetStatus("idle")
  /\ pc' = "done"
  /\ UNCHANGED <<store, recording, queueVars, processingID, job, lifeVars,
                 lifecycleMu, ghostVars>>

(* The worker clears processingID under lifecycleMu. *)
Finish ==
  /\ Alive /\ pc = "done" /\ lifecycleMu = Free
  /\ processingID' = NoJob
  /\ job' = Blank("absent")
  /\ pc' = "idle"
  /\ UNCHANGED <<storeVars, pillVars, queueVars, lifeVars, lifecycleMu,
                 ghostVars>>

WorkerStep ==
  \/ Load \/ Transcribe \/ SkipTranscribe
  \/ AsrAnswers \/ AsrFailsRetryable \/ AsrFailsForGood
  \/ CleanAnswers \/ FormatAnswers \/ MarkAttempted
  \/ TypeText \/ DeliverFails \/ RecordDelivered \/ RecordUndelivered
  \/ CancelledProcessing \/ DiscardAudio \/ Finish

-----------------------------------------------------------------------------
(* Automatic retries: NextAttemptAt passes, the timer goroutine enqueues   *)
(* the id.  Nothing disarms a timer when its job moves on before it fires. *)
BackoffElapses(j) ==
  /\ j \in backoff
  /\ backoff' = backoff \ {j}
  /\ UNCHANGED <<storeVars, pillVars, work, spill, timers, scan, workerVars,
                 lifeVars, lifecycleMu, ghostVars>>

(* A timer is as old as NextAttemptAt, or older when the job failed again. *)
TimerFires(j, n) ==
  /\ Alive /\ <<j, n>> \in timers
  /\ j \notin backoff \/ n < store[j].attempts
  /\ timers' = timers \ {<<j, n>>}
  /\ Enqueue(j)
  /\ UNCHANGED <<storeVars, pillVars, backoff, scan, workerVars, lifeVars,
                 lifecycleMu, ghostVars>>

(* recoveryLoop: every tick lists the due jobs and enqueues them, newest   *)
(* first.  Jobs already waiting in the channel are due as well.            *)
RecoveryTick ==
  /\ Alive /\ scan = {}
  /\ scan' = {j \in DueJobs(backoff) : Copies(j) < MaxCopies}
  /\ scan' # {}
  /\ UNCHANGED <<storeVars, pillVars, work, spill, timers, backoff,
                 workerVars, lifeVars, lifecycleMu, ghostVars>>

RecoveryEnqueue(j) ==
  /\ Alive /\ IsNewest(j, scan)
  /\ scan' = scan \ {j}
  /\ Enqueue(j)
  /\ UNCHANGED <<storeVars, pillVars, timers, backoff, workerVars, lifeVars,
                 lifecycleMu, ghostVars>>

(* Retry, under lifecycleMu: read the job, check it and its audio ...      *)
(* RetryLast is the same call for the newest failed or waiting job, so it  *)
(* adds nothing to RetryRead while RetryFrom has those two statuses.       *)
RetryRead(j) ==
  /\ Serving /\ lifecycleMu = Free /\ retries[j] < MaxRetries
  /\ recording = NoJob
  /\ store[j].status \in RetryFrom \ {"delivered"}
  /\ audio[j] # "none"
  /\ lifecycleMu' = [op |-> "retry", id |-> j, job |-> store[j]]
  /\ UNCHANGED <<storeVars, pillVars, queueVars, workerVars, lifeVars,
                 ghostVars>>

(* ... then save it as queued and enqueue it.  processingID is not looked  *)
(* at, and Attempts is kept.                                               *)
RetrySave ==
  LET j == lifecycleMu.id IN
  /\ Alive /\ lifecycleMu.op = "retry"
  /\ Save(j, [lifecycleMu.job EXCEPT !.status = "queued",
                                     !.attempted = FALSE])
  /\ backoff' = backoff \ {j}
  /\ Enqueue(j)
  /\ retries' = [retries EXCEPT ![j] = @ + 1]
  /\ lifecycleMu' = Free
  /\ UNCHANGED <<audio, pillVars, timers, scan, workerVars, lifeVars,
                 inserted, raced>>

-----------------------------------------------------------------------------
(* What does not survive the process. *)
LoseMemory ==
  /\ recording' = NoJob /\ phase' = Ready
  /\ work' = <<>> /\ spill' = [j \in Jobs |-> 0]
  /\ timers' = {} /\ scan' = {}
  /\ lifecycleMu' = Free
  /\ processingID' = NoJob /\ pc' = "idle" /\ job' = Blank("absent")

(* SIGTERM cancels the context; Run returns as soon as the listener is     *)
(* closed, and goroutines run on until main has returned.                  *)
Sigterm ==
  /\ up = "running" /\ stops < MaxStops
  /\ up' = "stopping" /\ stops' = stops + 1
  /\ UNCHANGED <<storeVars, pillVars, queueVars, workerVars, recovering,
                 crashes, lifecycleMu, ghostVars>>

Exit ==
  /\ up = "stopping"
  /\ up' = "down"
  /\ LoseMemory
  /\ UNCHANGED <<storeVars, backoff, recovering, crashes, stops, ghostVars>>

Crash ==
  /\ up # "down" /\ crashes < MaxCrashes
  /\ up' = "down" /\ crashes' = crashes + 1 /\ recovering' = {}
  /\ LoseMemory
  /\ UNCHANGED <<storeVars, backoff, stops, ghostVars>>

(* NewDaemon lists the jobs and calls recoverInterruptedJobs. *)
Restart ==
  /\ up = "down"
  /\ up' = "recovering" /\ recovering' = Listed
  /\ UNCHANGED <<storeVars, pillVars, queueVars, workerVars, crashes, stops,
                 lifecycleMu, ghostVars>>

(* Mutant of RecoveredStatus: DeliveryAttempted is not looked at. *)
RecoversAttempted(j) ==
  CASE store[j].status = "recording" ->
         IF audio[j] \in {"short", "full"} THEN "queued" ELSE "failed"
    [] store[j].status \in {"transcribing", "cleaning", "formatting",
                            "delivering"} -> "queued"
    [] OTHER -> store[j].status

(* The status recoverInterruptedJobs gives a job; others are left alone. *)
RecoveredStatus(j) ==
  CASE store[j].status = "recording" ->
         IF audio[j] \in {"short", "full"} THEN "queued" ELSE "failed"
    [] store[j].status \in {"transcribing", "cleaning", "formatting"} ->
         "queued"
    [] store[j].status = "delivering" ->
         IF store[j].attempted THEN "failed" ELSE "queued"
    [] OTHER -> store[j].status

Interrupted(j) == store[j].status \in
  {"recording", "transcribing", "cleaning", "formatting", "delivering"}

RecoverJob(j) ==
  /\ up = "recovering" /\ IsNewest(j, recovering)
  /\ recovering' = recovering \ {j}
  /\ Save(j, [store[j] EXCEPT !.status = RecoveredStatus(j)])
  /\ IF Interrupted(j) /\ RecoveredStatus(j) = "queued"
       THEN Enqueue(j) ELSE UNCHANGED <<work, spill>>
  /\ UNCHANGED <<audio, pillVars, timers, backoff, scan, workerVars, up,
                 crashes, stops, lifecycleMu, ghostVars>>

(* Run: the loops start and the socket accepts. *)
Serve ==
  /\ up = "recovering" /\ recovering = {}
  /\ up' = "running"
  /\ SetStatus("idle")
  /\ UNCHANGED <<storeVars, recording, queueVars, workerVars, recovering,
                 crashes, stops, lifecycleMu, ghostVars>>

-----------------------------------------------------------------------------
(* Stand for the recorder: a finished recording is saved and enqueued ...  *)
Submit(j) ==
  /\ Serving /\ store[j].status = "absent"
  /\ \A k \in Jobs : k < j => store[k].status # "absent"
  /\ \E long \in BOOLEAN :
       Save(j, [Blank("queued") EXCEPT !.long = long])
  /\ audio' = [audio EXCEPT ![j] = "full"]
  /\ Enqueue(j)
  /\ UNCHANGED <<pillVars, timers, backoff, scan, workerVars, lifeVars,
                 lifecycleMu, ghostVars>>

(* ... and its goroutine shows Transcribing, ordered with nothing the      *)
(* worker does: at any time after a Submit, and as often as there may be   *)
(* one.                                                                    *)
SubmitShown ==
  /\ Alive /\ \E j \in Jobs : store[j].status # "absent"
  /\ SetStatus("processing")
  /\ UNCHANGED <<storeVars, recording, queueVars, workerVars, lifeVars,
                 lifecycleMu, ghostVars>>

ShowReady ==
  /\ Alive /\ ClearAction
  /\ UNCHANGED <<storeVars, recording, queueVars, workerVars, lifeVars,
                 lifecycleMu, ghostVars>>

PipelineInit ==
  /\ StoreInit /\ PillInit
  /\ up = "down" /\ recovering = {} /\ crashes = 0 /\ stops = 0
  /\ work = <<>> /\ spill = [j \in Jobs |-> 0]
  /\ timers = {} /\ backoff = {} /\ scan = {}
  /\ lifecycleMu = Free
  /\ processingID = NoJob /\ pc = "idle" /\ job = Blank("absent")
  /\ inserted = [j \in Jobs |-> 0] /\ retries = [j \in Jobs |-> 0]
  /\ raced = {}

RetryTimer == \E t \in timers : TimerFires(t[1], t[2])

(* Everything but the recorder's arrivals. *)
PipelineStep ==
  \/ Dequeue \/ WorkerStep
  \/ \E j \in Jobs : \/ SpillSends(j) \/ BackoffElapses(j)
                     \/ RetryRead(j) \/ RecoveryEnqueue(j) \/ RecoverJob(j)
  \/ RetryTimer \/ RetrySave \/ RecoveryTick
  \/ Sigterm \/ Exit \/ Crash \/ Restart \/ Serve
  \/ ShowReady

PipelineNext == PipelineStep \/ (\E j \in Jobs : Submit(j)) \/ SubmitShown

(* Goroutines are scheduled, every outside call has a deadline, time       *)
(* passes, and systemd starts the service again.  Commands, crashes and    *)
(* signals are never owed.                                                 *)
PipelineFairness ==
  /\ WF_pipelineVars(Dequeue) /\ WF_pipelineVars(WorkerStep)
  /\ \A j \in Jobs : /\ WF_pipelineVars(SpillSends(j))
                     /\ WF_pipelineVars(BackoffElapses(j))
                     /\ WF_pipelineVars(RecoveryEnqueue(j))
                     /\ WF_pipelineVars(RecoverJob(j))
  /\ WF_pipelineVars(RetryTimer)
  /\ WF_pipelineVars(RetrySave)
  /\ WF_pipelineVars(RecoveryTick)
  /\ WF_pipelineVars(Exit) /\ WF_pipelineVars(Restart)
  /\ WF_pipelineVars(Serve)
  /\ WF_pipelineVars(ShowReady)

PipelineSpec == PipelineInit /\ [][PipelineNext]_pipelineVars
FairPipelineSpec == PipelineSpec /\ PipelineFairness
-----------------------------------------------------------------------------
QueueTypeOK == /\ work \in Seq(Jobs)
               /\ spill \in [Jobs -> Nat]
               /\ timers \subseteq Jobs \X Nat
               /\ backoff \subseteq Jobs
               /\ scan \subseteq Jobs

WorkerTypeOK == /\ pc \in Stages
                /\ job \in Job
                /\ processingID \in Jobs \cup {NoJob}
                /\ pc # "idle" => processingID \in Jobs

LockTypeOK == /\ lifecycleMu \in [op : LockOps \cup {"free"},
                                  id : Jobs \cup {NoJob}, job : Job]
              /\ lifecycleMu.op # "free" => lifecycleMu.id \in Jobs

LifeTypeOK == /\ up \in {"down", "recovering", "running", "stopping"}
              /\ recovering \subseteq Jobs
              /\ crashes \in Nat /\ stops \in Nat

HistoryTypeOK == /\ inserted \in [Jobs -> Nat]
                 /\ retries \in [Jobs -> Nat]
                 /\ raced \subseteq Jobs

(* Type correctness of the pipeline's state (fields of Daemon and Job). *)
TypeOK == /\ StoreTypeOK /\ PillTypeOK
          /\ QueueTypeOK /\ WorkerTypeOK /\ LockTypeOK
          /\ LifeTypeOK /\ HistoryTypeOK

(* A text reaches the focused window in full at most once, and once more   *)
(* for every Retry the user asked for: duplicate ids in the channel, a     *)
(* crash around wtype, a recovery and a scan never type it again           *)
(* (process, recoverInterruptedJobs).                                      *)
InsertedOnce == \A j \in Jobs : inserted[j] <= 1 + retries[j]

(* History never claims a delivery that did not happen: a job is delivered *)
(* only after its whole text was typed, whatever stale record a Retry or a *)
(* recovery wrote meanwhile (process, Retry).                              *)
DeliveredWasTyped ==
  \A j \in Jobs : store[j].status = "delivered" => inserted[j] > 0

(* No step but the Save of a Retry changes a delivered or cancelled job:   *)
(* neither the scan, a timer, a duplicate id nor a restart resurrects it   *)
(* (process, DueJobs, recoverInterruptedJobs).                             *)
FinishedStays ==
  [][\A j \in Jobs : store[j].status \in {"delivered", "cancelled"} =>
       store'[j] = store[j] \/ (retries'[j] > retries[j])]_pipelineVars

(* Every queued dictation is settled in the end, however often the daemon  *)
(* crashes meanwhile and although its queue and timers are not persisted   *)
(* (recoveryLoop, scheduleRetry, recoverInterruptedJobs).                  *)
EveryDictationSettles ==
  \A j \in Jobs : store[j].status \in {"queued", "retry_wait"} ~>
                 store[j].status \in {"delivered", "failed", "cancelled"}

-----------------------------------------------------------------------------
(* What job.json says of a dictation, to the user. *)
OutcomeOf(status) ==
  CASE status \in {"delivered", "failed", "cancelled"} \cup NoFile -> status
    [] OTHER -> "pending"

Outcome == [j \in Jobs |-> OutcomeOf(store[j].status)]

Promise == INSTANCE Dictation WITH Ids <- Jobs, outcome <- Outcome,
                                   typed <- inserted, requests <- retries

(* The pipeline keeps the promise of Dictation: every step of the worker,  *)
(* of a timer, of the scan and of a restart is a step of one dictation     *)
(* that its promise allows, or none.                                       *)
KeepsPromise == Promise!DictationSpec

(* docs/IMPLEMENTATION.md:217-218: on daemon restart "interrupted          *)
(* ASR/cleanup jobs are queued again"; a restart by systemctl is a SIGTERM.*)
RestartKeepsDictation ==
  [][\A j \in Jobs :
       store[j].status \in {"transcribing", "cleaning", "formatting"} =>
         store'[j].status # "cancelled"]_pipelineVars
=============================================================================
