--------------------------- MODULE RecorderProofs ---------------------------
(***************************************************************************)
(* Proofs about the recorder in composition with the pipeline: one         *)
(* finalizer per recording, no recording without an owner, a microphone    *)
(* that belongs to somebody, and a truthful Listening.                     *)
(***************************************************************************)
EXTENDS Recorder, PipelineProofs

(* "recording" is only ever written by start, and no step of recorder or   *)
(* pipeline makes a job unknown again or deletes it.                       *)
Foreign == {"recording", "absent", "deleted"}

Locked(j) == lifecycleMu.op # "free" /\ lifecycleMu.id = j

KeepsForeign == \A j \in Jobs :
  store'[j].status \in Foreign => store'[j].status = store[j].status

NoneTakenUp == \A j \in Jobs : ~InFlight(j) => ~InFlight(j)'

ShowsListening == phase'.phase = "recording" => phase' = phase

(* Recovery starts with every recording that a dead process has left.      *)
RecoverInv == up = "recovering" =>
  \A j \in Jobs : store[j].status = "recording" => j \in recovering

(* process() is between its Get of j and its last Save.                    *)
AtWork(j) == pc \notin {"idle", "load", "done", "discard"} /\ processingID = j

RetrySaves(j) == RetrySave /\ Locked(j)

(* What a step of the pipeline may write, take up, lock and recover.       *)
WritesOwn == \A j \in Jobs : store'[j] # store[j] =>
  AtWork(j) \/ RetrySaves(j) \/ RecoverJob(j)

TakesUpOwn == \A j \in Jobs : InFlight(j)' =>
  \/ InFlight(j) \/ RetrySaves(j) \/ RecoverJob(j)
  \/ store[j].status \in {"queued", "retry_wait"}

LocksOwn == \A j \in Jobs : Locked(j)' =>
  \/ Locked(j)
  \/ recording = NoJob /\ store[j].status # "absent"

RecoversOwn == \A j \in recovering' : j \in recovering \/ store[j].status # "absent"

(* How the life of the process and its recording change. *)
LifeStep ==
  \/ UNCHANGED <<up, recording>>
  \/ up # "down" /\ up' = "down" /\ recording' = NoJob /\ phase' = Ready
  \/ /\ UNCHANGED recording
     /\ \/ Alive /\ Alive'
        \/ ~Alive /\ up' = "recovering"
        \/ up = "recovering" /\ recovering = {} /\ Alive'

PipelineWrites == /\ KeepsForeign /\ MarkInv' /\ RecoverInv'
                  /\ WritesOwn /\ TakesUpOwn /\ LocksOwn /\ RecoversOwn
                  /\ ShowsListening /\ LifeStep
-----------------------------------------------------------------------------
LEMMA SaveForeign ==
  ASSUME StoreTypeOK, NEW j \in Jobs, NEW rec, Save(j, rec),
         rec.status \notin Foreign
  PROVE  KeepsForeign /\ \A k \in Jobs \ {j} : store'[k] = store[k]
BY DEF StoreTypeOK, Save, KeepsForeign

(* What the worker may write and what it leaves alone. *)
LEMMA WorkerWrites ==
  ASSUME TypeOK, MarkInv, Dequeue \/ WorkerStep
  PROVE  /\ KeepsForeign /\ MarkInv'
         /\ \A j \in Jobs : store'[j] # store[j] => AtWork(j)
         /\ NoneTakenUp
         /\ ShowsListening
         /\ UNCHANGED <<recording, lifeVars, lifecycleMu>>
<1> DEFINE p == processingID
           Quiet == UNCHANGED <<work, spill, scan, processingID>>
                    /\ \A t \in timers' : t \in timers \/ t[1] = p
           Goal == /\ KeepsForeign /\ MarkInv'
                   /\ \A j \in Jobs : store'[j] # store[j] => AtWork(j)
                   /\ NoneTakenUp
<1>t. StoreTypeOK /\ WorkerTypeOK /\ QueueTypeOK
  BY DEF TypeOK
<1>p. job \in Job /\ (pc # "idle" => p \in Jobs)
  BY <1>t DEF WorkerTypeOK
<1>none. ASSUME Quiet PROVE NoneTakenUp
  BY <1>none DEF NoneTakenUp, InFlight
<1>save. ASSUME NEW rec, Save(p, rec), rec.status \notin Foreign,
                pc \notin {"idle", "load", "done", "discard"}, Quiet, pc' = "delivering" => job'.status = "delivering"
         PROVE  Goal
  <2>1. p \in Jobs /\ AtWork(p)
    BY <1>save, <1>p DEF AtWork
  <2>2. KeepsForeign /\ \A k \in Jobs \ {p} : store'[k] = store[k]
    BY <1>save, <1>t, <2>1, SaveForeign
  <2>3. QED BY <1>save, <1>none, <2>1, <2>2 DEF MarkInv
<1>stage. ASSUME NEW s \in {"transcribing", "cleaning", "formatting", "delivering"},
                 NEW rec \in Job, SaveStage(s, rec),
                 pc \notin {"idle", "load", "done", "discard"}, Quiet,
                 pc' = "delivering" => s = "delivering"
          PROVE  Goal
  <2>1. [rec EXCEPT !.status = s].status = s
    BY DEF Job
  <2>2. QED BY <1>stage, <1>save, <2>1 DEF SaveStage, Foreign
<1>1. CASE Dequeue
  <2>1. processingID' = work[1] /\ 1 \in DOMAIN work /\ work' = Tail(work)
    BY <1>1, <1>t DEF Dequeue, QueueTypeOK
  <2>2. ASSUME NEW j \in Jobs, ~InFlight(j) PROVE ~InFlight(j)'
    <3>1. processingID' # j
      BY <2>1, <2>2 DEF InFlight
    <3>2. ASSUME NEW i \in DOMAIN work', work'[i] = j PROVE FALSE
      <4>1. i + 1 \in DOMAIN work /\ work'[i] = work[i + 1]
        BY <2>1, <3>2, <1>t DEF QueueTypeOK
      <4>2. QED BY <4>1, <3>2, <2>2 DEF InFlight
    <3>3. QED BY <1>1, <2>2, <3>1, <3>2 DEF InFlight, Dequeue
  <2>3. QED
    BY <1>1, <2>2 DEF Dequeue, storeVars, pillVars, KeepsForeign, MarkInv, NoneTakenUp,
      ShowsListening
<1>2. CASE Load \/ TypeText \/ DeliverFails \/ DiscardAudio
  <2>1. Quiet /\ UNCHANGED <<store, recording, lifeVars, lifecycleMu>>
    BY <1>2 DEF Load, TypeText, DeliverFails, DiscardAudio, storeVars, pillVars,
      queueVars
  <2>2. MarkInv' /\ ShowsListening
    BY <1>2 DEF Load, TypeText, DeliverFails, DiscardAudio, MarkInv, ShowsListening,
      SetStatus, pillVars
  <2>3. QED BY <1>none, <2>1, <2>2 DEF KeepsForeign
<1>3. CASE Finish
  <2>1. NoneTakenUp
    BY <1>3 DEF Finish, NoneTakenUp, InFlight, queueVars, Jobs, NoJob
  <2>2. QED
    BY <1>3, <2>1 DEF Finish, storeVars, pillVars, KeepsForeign, MarkInv, ShowsListening
<1>4. CASE Transcribe \/ SkipTranscribe
  <2>1. Goal
    BY <1>4, <1>p, <1>stage DEF Transcribe, SkipTranscribe, queueVars
  <2>2. QED
    BY <1>4, <2>1 DEF Transcribe, SkipTranscribe, SaveStage, SetStatus, ShowsListening
<1>5. CASE AsrAnswers
  <2>1. [job EXCEPT !.transcript = TRUE] \in Job
    BY <1>p DEF Job
  <2>2. Goal
    BY <1>5, <2>1, <1>stage DEF AsrAnswers, queueVars
  <2>3. QED
    BY <1>5, <2>2 DEF AsrAnswers, SaveStage, SetStatus, ShowsListening
<1>6. CASE AsrFailsRetryable
  <2> DEFINE rec == [job EXCEPT !.status = "retry_wait",
                                !.attempts = job.attempts + 1]
  <2>1. Save(p, rec) /\ pc = "asr" /\ Quiet /\ pc' = "done"
    BY <1>6, <1>p, <1>t DEF AsrFailsRetryable
  <2>2. rec.status \notin Foreign
    BY <1>p DEF Job, Foreign
  <2> HIDE DEF rec
  <2>3. Goal
    BY <2>1, <2>2, <1>save
  <2>4. QED
    BY <1>6, <2>3 DEF AsrFailsRetryable, SetStatus, ShowsListening
<1>7. CASE AsrFailsForGood
  <2> DEFINE rec == [job EXCEPT !.status = "failed", !.attempts = job.attempts + 1]
  <2>1. Save(p, rec) /\ pc = "asr" /\ Quiet /\ pc' = "done"
    BY <1>7 DEF AsrFailsForGood, queueVars
  <2>2. rec.status \notin Foreign
    BY <1>p DEF Job, Foreign
  <2> HIDE DEF rec
  <2>3. Goal
    BY <2>1, <2>2, <1>save
  <2>4. QED
    BY <1>7, <2>3 DEF AsrFailsForGood, ShowAction, ShowsListening
<1>8. CASE CleanAnswers
  <2> DEFINE cleaned == [job EXCEPT !.eligible = job.long]
             plain == [cleaned EXCEPT !.final = TRUE]
  <2>1. cleaned \in Job /\ plain \in Job
    BY <1>p DEF Job
  <2>2. /\ \/ SaveStage("formatting", cleaned) /\ pc' = "format"
           \/ SaveStage("delivering", plain)
        /\ pc = "clean" /\ Quiet /\ UNCHANGED <<recording, lifeVars, lifecycleMu>>
    BY <1>8 DEF CleanAnswers, queueVars
  <2> HIDE DEF cleaned, plain
  <2>3. Goal
    BY <2>1, <2>2, <1>stage
  <2>4. QED
    BY <2>2, <2>3 DEF SaveStage, SetStatus, ShowsListening
<1>9. CASE FormatAnswers
  <2>1. [job EXCEPT !.final = TRUE] \in Job
    BY <1>p DEF Job
  <2>2. Goal
    BY <1>9, <2>1, <1>stage DEF FormatAnswers, queueVars
  <2>3. QED
    BY <1>9, <2>2 DEF FormatAnswers, SaveStage, SetStatus, ShowsListening
<1>10. CASE MarkAttempted
  <2>1. [job EXCEPT !.attempted = TRUE].status \notin Foreign
    BY <1>10, <1>p DEF Job, MarkAttempted, MarkInv, Foreign
  <2>2. Goal
    BY <1>10, <2>1, <1>save DEF MarkAttempted, queueVars
  <2>3. QED
    BY <1>10, <2>2 DEF MarkAttempted, pillVars, ShowsListening
<1>11. CASE RecordDelivered \/ RecordUndelivered \/ CancelledProcessing
  <2>1. \A s \in {"delivered", "failed", "cancelled"} :
          [job EXCEPT !.status = s].status \notin Foreign
    BY <1>p DEF Job, Foreign
  <2>2. Goal
    BY <1>11, <2>1, <1>save
      DEF RecordDelivered, RecordUndelivered, CancelledProcessing, queueVars
  <2>3. QED
    BY <1>11, <2>2 DEF RecordDelivered, RecordUndelivered, CancelledProcessing,
      ShowAction, ShowsListening, pillVars
<1>12. QED
  BY <1>1, <1>2, <1>3, <1>4, <1>5, <1>6, <1>7, <1>8, <1>9, <1>10, <1>11
  DEF WorkerStep

(* Every other step of the pipeline. *)
LEMMA PipelineOnlyWrites ==
  ASSUME TypeOK, MarkInv, RecoverInv, PipelineStep
  PROVE  PipelineWrites
<1>t. StoreTypeOK /\ WorkerTypeOK /\ QueueTypeOK /\ LockTypeOK /\ LifeTypeOK
  BY DEF TypeOK
<1>1. CASE Dequeue \/ WorkerStep
  <2>1. /\ KeepsForeign /\ MarkInv' /\ NoneTakenUp /\ ShowsListening
        /\ \A j \in Jobs : store'[j] # store[j] => AtWork(j)
        /\ UNCHANGED <<recording, lifeVars, lifecycleMu>>
    BY <1>1, WorkerWrites
  <2>2. RecoverInv' /\ RecoversOwn /\ LocksOwn /\ LifeStep
    BY <2>1 DEF KeepsForeign, Foreign, RecoverInv, RecoversOwn, LocksOwn, Locked, LifeStep,
      lifeVars
  <2>3. QED BY <2>1, <2>2 DEF PipelineWrites, WritesOwn, TakesUpOwn, NoneTakenUp
(* A step that only moves ids between the channel, its blocked senders,    *)
(* the timers and the scan.                                                *)
<1>queue. ASSUME UNCHANGED <<storeVars, pillVars, workerVars, lifeVars, lifecycleMu>>,
                 TakesUpOwn
          PROVE  PipelineWrites
  <2>1. KeepsForeign /\ MarkInv' /\ RecoverInv' /\ WritesOwn
    BY <1>queue DEF KeepsForeign, MarkInv, RecoverInv, WritesOwn, storeVars, workerVars,
      lifeVars
  <2>2. LocksOwn /\ RecoversOwn /\ ShowsListening /\ LifeStep
    BY <1>queue DEF LocksOwn, Locked, RecoversOwn, ShowsListening, LifeStep, pillVars,
      lifeVars
  <2>3. QED BY <1>queue, <2>1, <2>2 DEF PipelineWrites
<1>2. ASSUME NEW j \in Jobs, SpillSends(j) PROVE PipelineWrites
  <2>1. InFlight(j) /\ work' = Append(work, j)
        /\ \A k \in Jobs : k # j => spill'[k] = spill[k]
    BY <1>2, <1>t DEF SpillSends, InFlight, QueueTypeOK
  <2>2. ASSUME NEW k \in Jobs, ~InFlight(k) PROVE ~InFlight(k)'
    <3>1. k # j
      BY <2>1, <2>2
    <3>2. ASSUME NEW i \in DOMAIN work', work'[i] = k PROVE FALSE
      <4>1. i \in DOMAIN work /\ work[i] = k
        BY <2>1, <3>1, <3>2, <1>t DEF QueueTypeOK
      <4>2. QED BY <4>1, <2>2 DEF InFlight
    <3>3. QED
      BY <1>2, <2>1, <2>2, <3>1, <3>2 DEF InFlight, SpillSends, workerVars
  <2>3. QED BY <1>2, <1>queue, <2>2 DEF SpillSends, TakesUpOwn
<1>3. ASSUME NEW j \in Jobs, BackoffElapses(j) PROVE PipelineWrites
  <2>1. TakesUpOwn
    BY <1>3 DEF BackoffElapses, TakesUpOwn, InFlight, workerVars
  <2>2. QED BY <1>3, <1>queue, <2>1 DEF BackoffElapses
<1>4. ASSUME NEW j \in Jobs, RecoveryEnqueue(j) PROVE PipelineWrites
  <2>1. InFlight(j)
    BY <1>4 DEF RecoveryEnqueue, IsNewest, InFlight
  <2>2. \A k \in Jobs : ~InFlight(k) => ~InFlight(k)'
    BY <1>4, <1>t, <2>1, EnqueueInFlight DEF RecoveryEnqueue, workerVars
  <2>3. QED BY <1>4, <1>queue, <2>2 DEF RecoveryEnqueue, TakesUpOwn
<1>5. CASE RetryTimer
  <2>1. PICK t \in timers : TimerFires(t[1], t[2])
    BY <1>5 DEF RetryTimer
  <2>2. t[1] \in Jobs /\ InFlight(t[1])
    BY <2>1, <1>t DEF QueueTypeOK, InFlight
  <2>3. \A k \in Jobs : ~InFlight(k) => ~InFlight(k)'
    BY <1>t, <2>1, <2>2, EnqueueInFlight DEF TimerFires, workerVars
  <2>4. QED BY <2>1, <1>queue, <2>3 DEF TimerFires, TakesUpOwn
<1>6. CASE RecoveryTick
  <2>1. TakesUpOwn
    BY <1>6 DEF RecoveryTick, DueJobs, TakesUpOwn, InFlight, workerVars
  <2>2. QED BY <1>6, <1>queue, <2>1 DEF RecoveryTick
<1>7. ASSUME NEW j \in Jobs, RetryRead(j) PROVE PipelineWrites
  <2>1. store[j].status # "absent"
    BY <1>7, PipelineAssumption DEF RetryRead, JobStatus
  <2>2. \A k \in Jobs : Locked(k)' => k = j
    BY <1>7 DEF RetryRead, Locked
  <2>3. KeepsForeign /\ MarkInv' /\ RecoverInv' /\ WritesOwn
    BY <1>7 DEF RetryRead, KeepsForeign, MarkInv, RecoverInv, WritesOwn, storeVars,
      workerVars, lifeVars
  <2>4. TakesUpOwn
    BY <1>7 DEF RetryRead, TakesUpOwn, InFlight, queueVars, workerVars
  <2>5. LocksOwn /\ RecoversOwn /\ ShowsListening /\ LifeStep
    BY <1>7, <2>1, <2>2 DEF RetryRead, LocksOwn, RecoversOwn, ShowsListening, LifeStep,
      pillVars, lifeVars
  <2>6. QED BY <2>3, <2>4, <2>5 DEF PipelineWrites
<1>8. CASE RetrySave
  <2> DEFINE r == lifecycleMu.id
             rec == [lifecycleMu.job EXCEPT !.status = "queued", !.attempted = FALSE]
  <2>1. r \in Jobs /\ Enqueue(r) /\ Locked(r) /\ Save(r, rec)
    BY <1>8, <1>t DEF RetrySave, LockTypeOK, LockOps, Locked
  <2>2. rec.status \notin Foreign
    BY <1>t DEF LockTypeOK, Job, Foreign
  <2>3. UNCHANGED <<pillVars, workerVars, lifeVars, timers, scan>> /\ lifecycleMu' = Free
    BY <1>8 DEF RetrySave
  <2> HIDE DEF rec
  <2>4. KeepsForeign /\ \A k \in Jobs \ {r} : store'[k] = store[k]
    BY <1>t, <2>1, <2>2, SaveForeign
  <2>5. MarkInv' /\ RecoverInv' /\ WritesOwn
    BY <1>8, <2>1, <2>3, <2>4 DEF MarkInv, KeepsForeign, Foreign, RecoverInv, WritesOwn,
      RetrySaves, workerVars, lifeVars
  <2>6. \A k \in Jobs \ {r} : ~InFlight(k) => ~InFlight(k)'
    BY <1>t, <2>1, <2>3, EnqueueOther DEF InFlight, workerVars
  <2>7. TakesUpOwn
    BY <1>8, <2>1, <2>6 DEF TakesUpOwn, RetrySaves
  <2>8. LocksOwn /\ RecoversOwn /\ ShowsListening /\ LifeStep
    BY <2>3 DEF LocksOwn, Locked, Free, RecoversOwn, ShowsListening, LifeStep, pillVars,
      lifeVars
  <2>9. QED BY <2>4, <2>5, <2>7, <2>8 DEF PipelineWrites
<1>9. CASE Exit \/ Crash
  <2>1. /\ LoseMemory /\ UNCHANGED store /\ up # "down" /\ up' = "down"
        /\ recovering' \subseteq recovering
    BY <1>9 DEF Exit, Crash, storeVars
  <2>2. KeepsForeign /\ MarkInv' /\ RecoverInv' /\ WritesOwn
    BY <2>1 DEF LoseMemory, KeepsForeign, MarkInv, RecoverInv, WritesOwn
  <2>3. TakesUpOwn
    BY <2>1 DEF LoseMemory, TakesUpOwn, InFlight, Jobs, NoJob
  <2>4. LocksOwn /\ RecoversOwn /\ ShowsListening /\ LifeStep
    BY <2>1 DEF LoseMemory, LocksOwn, Locked, Free, RecoversOwn, ShowsListening, Ready,
      LifeStep
  <2>5. QED BY <2>2, <2>3, <2>4 DEF PipelineWrites
<1>10. CASE Sigterm \/ Restart \/ Serve
  <2>1. UNCHANGED <<storeVars, recording, queueVars, workerVars, lifecycleMu>>
    BY <1>10 DEF Sigterm, Restart, Serve, pillVars
  <2>2. KeepsForeign /\ MarkInv' /\ WritesOwn /\ LocksOwn
    BY <2>1 DEF KeepsForeign, MarkInv, WritesOwn, LocksOwn, Locked, storeVars, workerVars
  <2>3. TakesUpOwn
    BY <2>1 DEF TakesUpOwn, InFlight, queueVars, workerVars
  <2>4. RecoverInv' /\ RecoversOwn
    BY <1>10, <2>1 DEF Sigterm, Restart, Serve, RecoverInv, RecoversOwn, Listed, Exists,
      NoFile, storeVars
  <2>5. ShowsListening /\ LifeStep
    BY <1>10 DEF Sigterm, Restart, Serve, ShowsListening, SetStatus, LifeStep, Alive,
      pillVars
  <2>6. QED BY <2>2, <2>3, <2>4, <2>5 DEF PipelineWrites
<1>11. CASE ShowReady
  <2>1. TakesUpOwn
    BY <1>11 DEF ShowReady, TakesUpOwn, InFlight, queueVars, workerVars
  <2>2. KeepsForeign /\ MarkInv' /\ RecoverInv' /\ WritesOwn
    BY <1>11 DEF ShowReady, KeepsForeign, MarkInv, RecoverInv, WritesOwn, storeVars,
      workerVars, lifeVars
  <2>3. LocksOwn /\ RecoversOwn /\ ShowsListening /\ LifeStep
    BY <1>11 DEF ShowReady, ClearAction, SetStatus, LocksOwn, Locked, RecoversOwn,
      ShowsListening, LifeStep, lifeVars
  <2>4. QED BY <2>1, <2>2, <2>3 DEF PipelineWrites
<1>12. ASSUME NEW j \in Jobs, RecoverJob(j) PROVE PipelineWrites
  <2> DEFINE rec == [store[j] EXCEPT !.status = RecoveredStatus(j)]
  <2>1. /\ Save(j, rec) /\ up = "recovering" /\ recovering' = recovering \ {j}
        /\ j \in recovering
        /\ UNCHANGED <<pillVars, timers, scan, workerVars, up, lifecycleMu>>
    BY <1>12 DEF RecoverJob, IsNewest
  <2>2. /\ rec.status = RecoveredStatus(j)
        /\ rec.status # "recording"
        /\ rec.status \in NoFile => store[j].status = rec.status
    BY <1>t DEF StoreTypeOK, Job, RecoveredStatus, NoFile
  <2>3. \A k \in Jobs : store'[k] = IF k = j THEN rec ELSE store[k]
    BY <2>1, <1>t DEF Save, StoreTypeOK
  <2> HIDE DEF rec
  <2>4. KeepsForeign /\ MarkInv' /\ WritesOwn
    BY <1>12, <2>1, <2>2, <2>3 DEF KeepsForeign, Foreign, NoFile, MarkInv, WritesOwn, workerVars
  <2>5. RecoverInv' /\ RecoversOwn
    BY <2>1, <2>2, <2>3 DEF RecoverInv, RecoversOwn
  <2>6. ASSUME NEW k \in Jobs, k # j, ~InFlight(k) PROVE ~InFlight(k)'
    <3>1. CASE Enqueue(j)
      BY <1>t, <2>1, <2>6, <3>1, EnqueueOther DEF InFlight, workerVars
    <3>2. CASE UNCHANGED <<work, spill>>
      BY <2>1, <2>6, <3>2 DEF InFlight, workerVars
    <3>3. QED BY <1>12, <3>1, <3>2 DEF RecoverJob
  <2>7. TakesUpOwn
    BY <1>12, <2>6 DEF TakesUpOwn
  <2>8. LocksOwn /\ ShowsListening /\ LifeStep
    BY <2>1 DEF LocksOwn, Locked, ShowsListening, LifeStep, pillVars
  <2>9. QED BY <2>4, <2>5, <2>7, <2>8 DEF PipelineWrites
<1>13. QED
  BY <1>1, <1>2, <1>3, <1>4, <1>5, <1>6, <1>7, <1>8, <1>9, <1>10, <1>11, <1>12
  DEF PipelineStep
-----------------------------------------------------------------------------
(* The recorder's own state: what its steps make of one element. *)
RecorderVarsOK ==
  /\ capture \in [Jobs -> Captures] /\ mode \in [Jobs -> Mode]
  /\ stoppers \in [Jobs -> Nat] /\ fin \in [Jobs -> Fin]

LEMMA FinTypes == NoFin \in Fin /\ Hold \in Mode
<1>1. NoFin \in Fin
  BY BlankType DEF NoFin, Fin, FinStages, NoFile
<1>2. Hold \in Mode
  BY DEF Hold, Mode, Heard
<1>3. QED BY <1>1, <1>2

(* Steps that only the reader of the recording takes. *)
CaptureTurns(j) == CaptureStalls(j) \/ CaptureResumes(j) \/ CaptureDies(j)

(* Steps of the recorder that leave job.json alone. *)
RecorderQuiet(j) ==
  \/ CaptureChunk(j) \/ AutoStop(j) \/ CaptureTurns(j) \/ StopDetach(j)
  \/ CancelDetach(j) \/ CloseCapture(j) \/ RealtimeGet(j) \/ FinLoad(j)
  \/ FinDiscard(j) \/ FinShown(j)

(* Steps of a finalizer that write it. *)
RecorderSaves(j) ==
  \/ RealtimeSave(j) \/ FinCancelled(j) \/ FinFailed(j) \/ FinQueued(j)

LEMMA RecorderCases ==
  ASSUME RecorderStep
  PROVE  \/ StopRead
         \/ \E j \in Jobs : \/ \E handsFree \in BOOLEAN : Start(j, handsFree)
                            \/ StartFails(j)
                            \/ RecorderQuiet(j) \/ RecorderSaves(j)
BY DEF RecorderStep, FinStep, RecorderQuiet, RecorderSaves, CaptureTurns

LEMMA RecorderVarsType ==
  ASSUME StoreTypeOK, PillTypeOK, RecorderVarsOK, RecorderStep
  PROVE  RecorderVarsOK'
<1> USE DEF RecorderVarsOK
<1>fin. ASSUME NEW j \in Jobs, NEW f \in Fin, fin' = [fin EXCEPT ![j] = f]
        PROVE  fin' \in [Jobs -> Fin]
  BY <1>fin
<1>mode. ASSUME NEW j \in Jobs, NEW m \in Mode, mode' = [mode EXCEPT ![j] = m]
         PROVE  mode' \in [Jobs -> Mode]
  BY <1>mode
<1>cap. ASSUME NEW j \in Jobs, NEW c \in Captures, capture' = [capture EXCEPT ![j] = c]
        PROVE  capture' \in [Jobs -> Captures]
  BY <1>cap
<1>ends. ASSUME NEW j \in Jobs, FinEnds(j)
         PROVE  mode' \in [Jobs -> Mode] /\ fin' \in [Jobs -> Fin]
  BY <1>ends, <1>fin, <1>mode, FinTypes DEF FinEnds
<1>1. CASE StopRead
  <2>1. UNCHANGED <<capture, mode, fin>>
        /\ stoppers' = [stoppers EXCEPT ![recording] = stoppers[recording] + 1]
    BY <1>1 DEF StopRead
  <2>2. stoppers' \in [Jobs -> Nat]
    <3>1. recording \in Jobs
      BY <1>1 DEF StopRead, PillTypeOK
    <3>2. QED BY <2>1, <3>1
  <2>3. QED BY <2>1, <2>2
<1>2. ASSUME NEW j \in Jobs, NEW handsFree \in BOOLEAN, Start(j, handsFree)
      PROVE  RecorderVarsOK'
  <2> DEFINE m == [Hold EXCEPT !.handsFree = handsFree]
  <2>1. m \in Mode /\ "live" \in Captures
    BY DEF Hold, Mode, Heard, Captures
  <2>2. /\ capture' = [capture EXCEPT ![j] = "live"]
        /\ mode' = [mode EXCEPT ![j] = m] /\ UNCHANGED <<stoppers, fin>>
    BY <1>2 DEF Start
  <2> HIDE DEF m
  <2>3. QED BY <2>1, <2>2, <1>mode, <1>cap
<1>3. ASSUME NEW j \in Jobs, StartFails(j) PROVE RecorderVarsOK'
  BY <1>3 DEF StartFails, recorderVars
<1>4. ASSUME NEW j \in Jobs, CaptureChunk(j) PROVE RecorderVarsOK'
  <2> DEFINE m == [mode[j] EXCEPT !.heard = Louder[mode[j].heard]]
  <2>1. mode[j].heard \in Heard /\ Louder[mode[j].heard] \in Heard
    BY DEF Mode, Heard, Louder
  <2>2. m \in Mode
    BY <2>1 DEF Mode
  <2>3. /\ mode' = mode \/ mode' = [mode EXCEPT ![j] = m]
        /\ UNCHANGED <<capture, stoppers, fin>>
    BY <1>4 DEF CaptureChunk
  <2> HIDE DEF m
  <2>4. QED BY <2>2, <2>3, <1>mode
<1>5. ASSUME NEW j \in Jobs, AutoStop(j) PROVE RecorderVarsOK'
  <2> DEFINE m == [mode[j] EXCEPT !.autoStopping = TRUE]
  <2>1. m \in Mode
    BY DEF Mode
  <2>2. /\ mode' = [mode EXCEPT ![j] = m]
        /\ stoppers' = [stoppers EXCEPT ![j] = stoppers[j] + 1]
        /\ UNCHANGED <<capture, fin>>
    BY <1>5 DEF AutoStop
  <2>3. stoppers' \in [Jobs -> Nat]
    BY <2>2
  <2> HIDE DEF m
  <2>4. QED BY <2>1, <2>2, <2>3, <1>mode
<1>6. ASSUME NEW j \in Jobs, CaptureTurns(j) PROVE RecorderVarsOK'
  <2>1. /\ \E c \in Captures : capture' = [capture EXCEPT ![j] = c]
        /\ UNCHANGED <<mode, stoppers, fin>>
    BY <1>6 DEF CaptureTurns, CaptureStalls, CaptureResumes, CaptureDies, Captures
  <2>2. QED BY <2>1, <1>cap
<1>7. ASSUME NEW j \in Jobs, StopDetach(j) PROVE RecorderVarsOK'
  <2> DEFINE f == [NoFin EXCEPT !.pc = "closing"]
  <2>1. f \in Fin
    BY FinTypes DEF Fin, FinStages
  <2>2. /\ stoppers' = [stoppers EXCEPT ![j] = stoppers[j] - 1]
        /\ stoppers[j] > 0
        /\ fin' = fin \/ fin' = [fin EXCEPT ![j] = f]
        /\ UNCHANGED <<capture, mode>>
    BY <1>7 DEF StopDetach
  <2>3. stoppers' \in [Jobs -> Nat]
    BY <2>2
  <2> HIDE DEF f
  <2>4. QED BY <2>1, <2>2, <2>3, <1>fin
<1>8. ASSUME NEW j \in Jobs, CancelDetach(j) PROVE RecorderVarsOK'
  <2> DEFINE f == [NoFin EXCEPT !.pc = "closing", !.kind = "cancel"]
  <2>1. f \in Fin
    BY FinTypes DEF Fin, FinStages
  <2>2. fin' = [fin EXCEPT ![j] = f] /\ UNCHANGED <<capture, mode, stoppers>>
    BY <1>8 DEF CancelDetach
  <2> HIDE DEF f
  <2>3. QED BY <2>1, <2>2, <1>fin
<1>9. ASSUME NEW j \in Jobs, CloseCapture(j) PROVE RecorderVarsOK'
  <2>1. PICK err \in BOOLEAN : fin' = [fin EXCEPT ![j].pc = "closed", ![j].err = err]
    BY <1>9 DEF CloseCapture
  <2> DEFINE f == [fin[j] EXCEPT !.pc = "closed", !.err = err]
  <2>2. f \in Fin /\ "off" \in Captures
    BY DEF Fin, FinStages, Captures
  <2>3. fin' = [fin EXCEPT ![j] = f]
    BY <2>1
  <2> HIDE DEF f
  <2>4. QED BY <1>9, <2>2, <2>3, <1>fin, <1>cap DEF CloseCapture
<1>10. ASSUME NEW j \in Jobs, RealtimeGet(j) PROVE RecorderVarsOK'
  <2> DEFINE f == [fin[j] EXCEPT !.pc = "committed", !.job = store[j]]
  <2>1. f \in Fin
    BY DEF Fin, FinStages, StoreTypeOK
  <2>2. UNCHANGED <<capture, mode, stoppers>> /\ fin' = [fin EXCEPT ![j] = f]
    BY <1>10 DEF RealtimeGet
  <2> HIDE DEF f
  <2>3. QED BY <2>1, <2>2, <1>fin
<1>14. ASSUME NEW j \in Jobs, FinLoad(j) PROVE RecorderVarsOK'
  <2> DEFINE f == [fin[j] EXCEPT !.pc = "loaded", !.job = store[j]]
  <2>1. f \in Fin
    BY DEF Fin, FinStages, StoreTypeOK
  <2>2. /\ UNCHANGED <<capture, stoppers>>
        /\ FinEnds(j) \/ (fin' = [fin EXCEPT ![j] = f] /\ mode' = mode)
    BY <1>14 DEF FinLoad
  <2> HIDE DEF f
  <2>3. QED BY <2>1, <2>2, <1>fin, <1>ends
<1>11. ASSUME NEW j \in Jobs, FinDiscard(j) \/ FinFailed(j) \/ FinShown(j)
       PROVE  RecorderVarsOK'
  BY <1>11, <1>ends DEF FinDiscard, FinFailed, FinShown
<1>12. ASSUME NEW j \in Jobs, RealtimeSave(j) \/ FinCancelled(j) \/ FinQueued(j)
       PROVE  RecorderVarsOK'
  <2>1. PICK s \in {"closed", "discard", "queued"} : FinGoes(j, s)
    BY <1>12 DEF RealtimeSave, FinCancelled, FinQueued
  <2> DEFINE f == [fin[j] EXCEPT !.pc = s]
  <2>2. f \in Fin
    BY DEF Fin, FinStages
  <2>3. fin' = [fin EXCEPT ![j] = f]
    BY <2>1 DEF FinGoes
  <2> HIDE DEF f
  <2>4. QED BY <1>12, <2>2, <2>3, <1>fin DEF RealtimeSave, FinCancelled, FinQueued
<1>13. QED
  BY <1>1, <1>2, <1>3, <1>4, <1>5, <1>6, <1>7, <1>8, <1>9, <1>10, <1>11, <1>12,
     <1>14, RecorderCases DEF RecorderQuiet, RecorderSaves

(* TypeOK holds after every step of the recorder. *)
LEMMA RecorderStoreType ==
  ASSUME TypeOK, RecorderVarsOK, RecorderStep
  PROVE  TypeOK'
<1> USE TypeFrame DEF TypeOK
<1>t. StoreTypeOK /\ PillTypeOK /\ QueueTypeOK
  BY DEF TypeOK
<1>save. ASSUME NEW j \in Jobs, NEW rec, rec \in Job, Save(j, rec), audio' = audio
         PROVE  StoreTypeOK'
  BY <1>save, <1>t, SaveType DEF StoreTypeOK
<1>audio. ASSUME NEW j \in Jobs, NEW a \in Audio, audio' = [audio EXCEPT ![j] = a],
                 store' \in [Jobs -> Job]
          PROVE  StoreTypeOK'
  BY <1>audio, <1>t DEF StoreTypeOK
<1>show. ASSUME NEW s \in Phases, SetStatus(s), recording' \in Jobs \cup {NoJob}
         PROVE  PillTypeOK'
  BY <1>show DEF SetStatus, PillTypeOK
<1>rest. ASSUME StoreTypeOK', PillTypeOK', QueueTypeOK',
                UNCHANGED <<workerVars, lifeVars, lifecycleMu, ghostVars>>
         PROVE  TypeOK'
  BY <1>rest
<1>1. CASE StopRead
  BY <1>1, <1>rest DEF StopRead
<1>2. ASSUME NEW j \in Jobs, NEW handsFree \in BOOLEAN, Start(j, handsFree)
      PROVE  TypeOK'
  <2>1. Blank("recording") \in Job
    BY BlankType DEF JobStatus
  <2>2. store' \in [Jobs -> Job]
    BY <1>2, <1>t, <2>1, SaveType DEF Start
  <2>3. StoreTypeOK'
    BY <1>2, <1>audio, <2>2 DEF Start, Audio
  <2>4. PillTypeOK'
    BY <1>2, <1>show DEF Start, Phases
  <2>5. QED BY <1>2, <1>rest, <2>3, <2>4 DEF Start
<1>3. ASSUME NEW j \in Jobs, StartFails(j) PROVE TypeOK'
  <2>1. Blank("failed") \in Job
    BY BlankType DEF JobStatus
  <2>2. StoreTypeOK'
    BY <1>3, <1>save, <2>1 DEF StartFails
  <2>3. QED BY <1>3, <1>rest, <2>2 DEF StartFails
<1>4. ASSUME NEW j \in Jobs, CaptureChunk(j) PROVE TypeOK'
  <2>1. Longer[audio[j]] \in Audio
    BY <1>4, <1>t DEF CaptureChunk, Longer, StoreTypeOK, Audio
  <2>2. StoreTypeOK'
    BY <1>4, <1>t, <2>1, <1>audio DEF CaptureChunk, StoreTypeOK
  <2>3. QED BY <1>4, <1>rest, <2>2 DEF CaptureChunk
<1>5. ASSUME NEW j \in Jobs,
             AutoStop(j) \/ CaptureTurns(j) \/ CloseCapture(j) \/ RealtimeGet(j)
      PROVE  TypeOK'
  BY <1>5, <1>rest DEF AutoStop, CaptureTurns, CaptureStalls, CaptureResumes,
    CaptureDies, CloseCapture, RealtimeGet
<1>6. ASSUME NEW j \in Jobs,
             StopDetach(j) \/ CancelDetach(j) \/ FinLoad(j) \/ FinShown(j)
      PROVE  TypeOK'
  <2>1. PillTypeOK'
    BY <1>6, <1>show, <1>t
    DEF StopDetach, CancelDetach, FinLoad, FinShown, Phases, PillTypeOK, SetStatus,
      pillVars
  <2>2. QED
    BY <1>6, <1>rest, <2>1 DEF StopDetach, CancelDetach, FinLoad, FinShown
<1>7. ASSUME NEW j \in Jobs, FinDiscard(j) PROVE TypeOK'
  <2>1. PillTypeOK'
    BY <1>7, <1>show, <1>t DEF FinDiscard, Phases, PillTypeOK
  <2>2. StoreTypeOK'
    BY <1>7, <1>t, <1>audio DEF FinDiscard, RemoveAudio, Audio, StoreTypeOK
  <2>3. QED BY <1>7, <1>rest, <2>1, <2>2 DEF FinDiscard
<1>8. ASSUME NEW j \in Jobs, RealtimeSave(j) PROVE TypeOK'
  <2>1. [fin[j].job EXCEPT !.transcript = TRUE] \in Job
    <3>1. fin[j].job \in Job
      BY DEF RecorderVarsOK, Fin
    <3>2. QED BY <3>1 DEF Job
  <2>2. StoreTypeOK'
    BY <1>8, <1>save, <2>1 DEF RealtimeSave
  <2>3. QED BY <1>8, <1>rest, <2>2 DEF RealtimeSave
<1>9. ASSUME NEW j \in Jobs, FinCancelled(j) PROVE TypeOK'
  <2>1. [fin[j].job EXCEPT !.status = "cancelled"] \in Job
    BY DEF RecorderVarsOK, Fin, Job, JobStatus
  <2>2. StoreTypeOK'
    BY <1>9, <1>save, <2>1 DEF FinCancelled
  <2>3. QED BY <1>9, <1>rest, <2>2 DEF FinCancelled
<1>10. ASSUME NEW j \in Jobs, FinFailed(j) \/ FinQueued(j) PROVE TypeOK'
  <2>1. PICK s \in {"failed", "queued"}, long \in BOOLEAN :
          Save(j, [fin[j].job EXCEPT !.status = s, !.long = long])
    BY <1>10 DEF FinFailed, FinQueued
  <2> DEFINE rec == [fin[j].job EXCEPT !.status = s, !.long = long]
  <2>2. rec \in Job
    <3>1. fin[j].job \in Job
      BY DEF RecorderVarsOK, Fin
    <3>2. QED BY <3>1 DEF Job, JobStatus
  <2>3. Save(j, rec) /\ audio' = audio
    BY <1>10, <2>1 DEF FinFailed, FinQueued
  <2> HIDE DEF rec
  <2>4. StoreTypeOK'
    BY <1>save, <2>2, <2>3
  <2>5. QueueTypeOK'
    BY <1>10, <1>t, EnqueueType DEF FinFailed, FinQueued, QueueTypeOK, queueVars
  <2>6. PillTypeOK'
    BY <1>10, <1>t, StatusType DEF FinFailed, FinQueued, Phases
  <2>7. QED BY <1>10, <1>rest, <2>4, <2>5, <2>6 DEF FinFailed, FinQueued
<1>11. QED
  BY <1>1, <1>2, <1>3, <1>4, <1>5, <1>6, <1>7, <1>8, <1>9, <1>10, RecorderCases
  DEF RecorderQuiet, RecorderSaves
-----------------------------------------------------------------------------
(* Nothing in memory refers to a job that was never started. *)
KnownInv == \A j \in Jobs : store[j].status = "absent" =>
  /\ ~InFlight(j) /\ ~Locked(j) /\ j \notin recovering
  /\ fin[j].pc = "off"

(* The current recording is nobody else's: not the worker's, not a         *)
(* Retry's, and not yet a finalizer's.                                     *)
ApartInv == recording # NoJob =>
  /\ store[recording].status = "recording"
  /\ ~InFlight(recording) /\ ~Locked(recording)
  /\ fin[recording].pc = "off"

DownInv == ~Alive => recording = NoJob

(* The last steps of a finalization come after its Save, and the job that  *)
(* gets a transcript at once was there.                                    *)
LeftInv == \A j \in Jobs :
  /\ fin[j].pc \in {"discard", "queued"} => store[j].status # "recording"
  /\ fin[j].pc = "committed" => fin[j].job.status # "absent"

RecInv == /\ TypeOK /\ RecorderVarsOK
          /\ MarkInv /\ RecoverInv /\ KnownInv /\ ApartInv /\ DownInv /\ LeftInv
          /\ NoOrphanRecording /\ MicOwned /\ ListeningMeansRecording

FinalizesOwn == \A j \in Jobs :
  fin[j].pc = "off" /\ fin'[j].pc # "off" => store[j].status = "recording"

(* The recorder's invariant survives the pipeline, whose end of the        *)
(* process takes the recorder's memory with it.                            *)
LEMMA PipelineKeepsRec ==
  ASSUME RecInv, PipelineOnly
  PROVE  RecInv' /\ FinalizesOwn
<1> USE DEF RecInv
<1>1. PipelineWrites /\ TypeOK'
  BY PipelineOnlyWrites, StepType DEF PipelineOnly
<1>2. \/ /\ up # "down" /\ up' = "down"
         /\ capture' = [j \in Jobs |-> "off"] /\ mode' = [j \in Jobs |-> Hold]
         /\ stoppers' = [j \in Jobs |-> 0] /\ fin' = [j \in Jobs |-> NoFin]
      \/ ~(up # "down" /\ up' = "down") /\ UNCHANGED recorderVars
  BY DEF PipelineOnly
<1>3. RecorderVarsOK'
  BY <1>2, FinTypes DEF RecorderVarsOK, recorderVars, Captures
<1>4. fin' = fin \/ fin' = [j \in Jobs |-> NoFin]
  BY <1>2 DEF recorderVars
<1>5. \A j \in Jobs : fin'[j].pc # "off" => fin'[j] = fin[j]
  BY <1>4 DEF NoFin
<1>6. KnownInv'
  <2> SUFFICES ASSUME NEW j \in Jobs, store'[j].status = "absent"
               PROVE  /\ ~InFlight(j)' /\ ~Locked(j)' /\ j \notin recovering'
                      /\ fin'[j].pc = "off"
    BY DEF KnownInv
  <2>1. store[j].status = "absent"
    BY <1>1 DEF PipelineWrites, KeepsForeign, Foreign
  <2>2. ~InFlight(j)' /\ ~Locked(j)' /\ j \notin recovering'
    BY <1>1, <2>1 DEF PipelineWrites, KnownInv, TakesUpOwn, LocksOwn, RecoversOwn,
      RetrySaves, RecoverJob, IsNewest
  <2>3. QED BY <1>5, <2>1, <2>2 DEF KnownInv
<1>7. ApartInv'
  <2> SUFFICES ASSUME recording' # NoJob
               PROVE  /\ store'[recording'].status = "recording"
                      /\ ~InFlight(recording)' /\ ~Locked(recording)'
                      /\ fin'[recording'].pc = "off"
    BY DEF ApartInv
  <2>1. recording' = recording /\ Alive /\ recording \in Jobs
    BY <1>1 DEF PipelineWrites, LifeStep, DownInv, TypeOK, PillTypeOK
  <2>2. /\ store[recording].status = "recording" /\ up # "recovering"
        /\ ~InFlight(recording) /\ ~Locked(recording)
        /\ fin[recording].pc = "off"
    BY <2>1 DEF ApartInv, Alive
  <2>3. store'[recording] = store[recording]
    BY <1>1, <2>1, <2>2 DEF PipelineWrites, WritesOwn, AtWork, InFlight,
      RetrySaves, RecoverJob
  <2>4. ~InFlight(recording)'
    BY <1>1, <2>1, <2>2 DEF PipelineWrites, TakesUpOwn, RetrySaves, RecoverJob
  <2>5. ~Locked(recording)'
    BY <1>1, <2>1, <2>2 DEF PipelineWrites, LocksOwn
  <2>6. fin'[recording].pc = "off"
    BY <1>5, <2>1, <2>2
  <2>7. QED BY <2>1, <2>2, <2>3, <2>4, <2>5, <2>6
<1>8. DownInv'
  BY <1>1 DEF PipelineWrites, LifeStep, DownInv, Alive
<1>9. LeftInv'
  <2>1. ASSUME NEW j \in Jobs, fin'[j].pc \in {"discard", "queued"}
        PROVE  store'[j].status # "recording"
    <3>1. store[j].status # "recording"
      BY <1>5, <2>1 DEF LeftInv
    <3>2. QED BY <1>1, <3>1 DEF PipelineWrites, KeepsForeign, Foreign
  <2>2. QED BY <1>5, <2>1 DEF LeftInv
<1>10. NoOrphanRecording'
  <2> SUFFICES ASSUME Alive', NEW j \in Jobs, store'[j].status = "recording"
               PROVE  recording' = j \/ fin'[j].pc # "off"
    BY DEF NoOrphanRecording
  <2>1. store[j].status = "recording"
    BY <1>1 DEF PipelineWrites, KeepsForeign, Foreign
  <2>2. Alive
    BY <1>1, <2>1 DEF PipelineWrites, LifeStep, RecoverInv, Alive
  <2>3. UNCHANGED <<recording, fin>>
    BY <1>1, <1>2 DEF PipelineWrites, LifeStep, Alive, recorderVars
  <2>4. QED BY <2>1, <2>2, <2>3 DEF NoOrphanRecording
<1>11. MicOwned'
  <2>1. CASE capture' = [j \in Jobs |-> "off"]
    BY <2>1 DEF MicOwned
  <2>2. CASE ~(up # "down" /\ up' = "down") /\ UNCHANGED recorderVars
    <3>1. recording' = recording
      BY <1>1, <2>2 DEF PipelineWrites, LifeStep
    <3>2. QED BY <2>2, <3>1 DEF MicOwned, recorderVars
  <2>3. QED BY <1>2, <2>1, <2>2
<1>12. ListeningMeansRecording'
  <2> SUFFICES ASSUME phase'.phase = "recording"
               PROVE  recording' # NoJob \/ \E j \in Jobs : fin'[j].kind = "cancel"
    BY DEF ListeningMeansRecording
  <2>1. phase' = phase
    BY <1>1 DEF PipelineWrites, ShowsListening
  <2>2. ~(up # "down" /\ up' = "down")
    <3>1. phase' # Ready
      BY DEF Ready
    <3>2. CASE LifeStep /\ up' = "down" /\ up # "down"
      BY <3>1, <3>2 DEF LifeStep, Alive
    <3>3. QED BY <1>1, <3>2 DEF PipelineWrites
  <2>3. UNCHANGED <<recording, fin>>
    BY <1>1, <1>2, <2>2 DEF PipelineWrites, LifeStep, recorderVars
  <2>4. QED BY <2>1, <2>3 DEF ListeningMeansRecording
<1>13. FinalizesOwn
  BY <1>5 DEF FinalizesOwn
<1>14. QED
  BY <1>1, <1>3, <1>6, <1>7, <1>8, <1>9, <1>10, <1>11, <1>12, <1>13 DEF PipelineWrites

LEMMA QuietRefs ==
  ASSUME UNCHANGED <<queueVars, workerVars>>, NEW j \in Jobs
  PROVE  InFlight(j)' <=> InFlight(j)
<1>1. UNCHANGED <<work, spill, timers, scan, processingID>>
  BY DEF queueVars, workerVars
<1>2. QED BY <1>1 DEF InFlight

(* What all steps of the recorder have in common. *)
LEMMA RecorderFrame ==
  ASSUME TypeOK, RecorderStep
  PROVE  /\ Alive /\ Alive' /\ up # "recovering" /\ up' # "recovering"
         /\ UNCHANGED <<workerVars, recovering, lifecycleMu>>
         /\ \A j \in Jobs : InFlight(j)' => InFlight(j) \/ FinQueued(j)
<1>1. Alive /\ UNCHANGED <<workerVars, lifeVars, lifecycleMu>>
  BY DEF RecorderStep, FinStep, StopRead, Start, StartFails, CaptureChunk, AutoStop,
    CaptureStalls, CaptureResumes, CaptureDies, StopDetach, CancelDetach, CloseCapture,
    RealtimeGet, RealtimeSave, FinLoad,
    FinCancelled, FinDiscard, FinFailed, FinQueued, FinShown, Serving, Alive
<1>2. Alive' /\ up # "recovering" /\ up' # "recovering" /\ UNCHANGED recovering
  BY <1>1 DEF Alive, lifeVars
<1>3. CASE UNCHANGED queueVars
  <2>1. UNCHANGED <<queueVars, workerVars>>
    BY <1>1, <1>3
  <2>2. QED BY <1>1, <1>2, <2>1, QuietRefs
<1>4. ASSUME NEW j \in Jobs, FinQueued(j), NEW k \in Jobs, InFlight(k)'
      PROVE  InFlight(k) \/ FinQueued(k)
  <2>1. QueueTypeOK /\ Enqueue(j) /\ UNCHANGED <<timers, scan, processingID>>
    BY <1>4, <1>1 DEF FinQueued, TypeOK, workerVars
  <2>2. CASE k # j
    BY <1>4, <2>1, <2>2, EnqueueOther DEF InFlight
  <2>3. QED BY <1>4, <2>2
<1>5. UNCHANGED queueVars \/ \E j \in Jobs : FinQueued(j)
  BY DEF RecorderStep, FinStep, StopRead, Start, StartFails, CaptureChunk, AutoStop,
    CaptureStalls, CaptureResumes, CaptureDies, StopDetach, CancelDetach, CloseCapture,
    RealtimeGet, RealtimeSave, FinLoad,
    FinCancelled, FinDiscard, FinFailed, FinShown
<1>6. QED BY <1>1, <1>2, <1>3, <1>4, <1>5

(* A new recording takes an id that nothing refers to. *)
LEMMA StartKeepsRec ==
  ASSUME RecInv, RecorderStep, NEW j \in Jobs,
         StartFails(j) \/ \E handsFree \in BOOLEAN : Start(j, handsFree)
  PROVE  RecInv' /\ FinalizesOwn
<1> USE DEF RecInv
<1>1. /\ Alive /\ Alive' /\ up # "recovering" /\ up' # "recovering"
      /\ UNCHANGED <<workerVars, recovering, lifecycleMu, fin>>
      /\ \A k \in Jobs : InFlight(k)' => InFlight(k)
  <2>1. UNCHANGED fin /\ UNCHANGED queueVars
    BY DEF StartFails, Start, recorderVars
  <2>2. QED BY <2>1, RecorderFrame, QuietRefs
<1>2. /\ j # NoJob /\ recording = NoJob /\ store[j].status = "absent"
      /\ ~InFlight(j) /\ ~Locked(j) /\ j \notin recovering /\ fin[j].pc = "off"
  BY DEF StartFails, Start, CanStart, Fresh, KnownInv, Jobs, NoJob
<1>3. PICK s \in {"recording", "failed"} :
        /\ Save(j, Blank(s))
        /\ s = "recording" => /\ recording' = j
                              /\ capture' = [capture EXCEPT ![j] = "live"]
        /\ s = "failed" => UNCHANGED <<recording, capture, phase>>
  BY DEF StartFails, Start, pillVars, recorderVars
<1>4. /\ \A k \in Jobs \ {j} : store'[k] = store[k]
      /\ store'[j].status = s
  BY <1>3 DEF Save, TypeOK, StoreTypeOK, Blank
<1>5. TypeOK' /\ RecorderVarsOK'
  BY RecorderStoreType, RecorderVarsType DEF TypeOK
<1>6. MarkInv' /\ RecoverInv' /\ DownInv' /\ FinalizesOwn
  BY <1>1 DEF MarkInv, RecoverInv, DownInv, FinalizesOwn, workerVars
<1>7. KnownInv'
  BY <1>1, <1>4 DEF KnownInv, Locked
<1>8. ApartInv'
  BY <1>1, <1>2, <1>3, <1>4 DEF ApartInv, Locked
<1>9. LeftInv'
  BY <1>1, <1>2, <1>4 DEF LeftInv
<1>10. NoOrphanRecording'
  BY <1>1, <1>2, <1>3, <1>4 DEF NoOrphanRecording, Jobs, NoJob
<1>11. MicOwned'
  <2> SUFFICES ASSUME NEW k \in Jobs, capture'[k] # "off"
               PROVE  recording' = k \/ fin'[k].pc = "closing"
    BY DEF MicOwned
  <2>1. CASE k = j /\ s = "recording"
    BY <1>3, <2>1
  <2>2. CASE ~(k = j /\ s = "recording")
    <3>1. capture[k] # "off"
      BY <1>3, <2>2 DEF RecorderVarsOK
    <3>2. fin[k].pc = "closing"
      BY <1>2, <3>1 DEF MicOwned, Jobs, NoJob
    <3>3. QED BY <1>1, <3>2
  <2>3. QED BY <2>1, <2>2
<1>12. ListeningMeansRecording'
  BY <1>1, <1>2, <1>3 DEF ListeningMeansRecording
<1>13. QED
  BY <1>5, <1>6, <1>7, <1>8, <1>9, <1>10, <1>11, <1>12

LEMMA RecorderTypes ==
  ASSUME RecInv, RecorderStep PROVE TypeOK' /\ RecorderVarsOK'
BY RecorderStoreType, RecorderVarsType DEF RecInv, TypeOK

(* What has to be known of a step of the one that finalizes j. *)
FinStepOK(j) ==
  /\ fin[j].pc # "off" /\ UNCHANGED recording
  /\ \A k \in Jobs \ {j} : /\ store'[k] = store[k] /\ fin'[k] = fin[k]
                           /\ capture'[k] = capture[k]
  /\ store'[j].status # "absent"
  /\ store'[j].status = "recording" => fin'[j].pc \notin {"off", "discard", "queued"}
  /\ fin'[j].pc = "committed" => fin'[j].job.status # "absent"
  /\ capture'[j] # "off" => fin'[j].pc = "closing"
  /\ phase'.phase = "recording" =>
       phase' = phase /\ (fin[j].kind = "cancel" => fin'[j].kind = "cancel")
  /\ \A k \in Jobs : InFlight(k)' => InFlight(k) \/ k = j

LEMMA FinKeepsRec ==
  ASSUME RecInv, RecorderStep, NEW j \in Jobs, FinStepOK(j)
  PROVE  RecInv' /\ FinalizesOwn
<1> USE DEF RecInv, FinStepOK
<1>1. /\ Alive /\ Alive' /\ up # "recovering" /\ up' # "recovering"
      /\ UNCHANGED <<workerVars, recovering, lifecycleMu>>
  BY RecorderFrame
<1>2. store[j].status # "absent" /\ recording # j
  BY DEF KnownInv, ApartInv, Jobs, NoJob
<1>3. TypeOK' /\ RecorderVarsOK'
  BY RecorderTypes
<1>4. MarkInv' /\ RecoverInv' /\ DownInv' /\ FinalizesOwn
  BY <1>1 DEF MarkInv, RecoverInv, DownInv, FinalizesOwn, workerVars
<1>5. KnownInv'
  BY <1>1 DEF KnownInv, Locked
<1>6. ApartInv'
  <2> SUFFICES ASSUME recording # NoJob
               PROVE  /\ store'[recording].status = "recording"
                      /\ ~InFlight(recording)' /\ ~Locked(recording)'
                      /\ fin'[recording].pc = "off"
    BY DEF ApartInv
  <2>1. recording \in Jobs \ {j}
    BY <1>2 DEF TypeOK, PillTypeOK
  <2>2. QED BY <1>1, <2>1 DEF ApartInv, Locked
<1>7. LeftInv'
  BY DEF LeftInv
<1>8. NoOrphanRecording'
  BY <1>1 DEF NoOrphanRecording
<1>9. MicOwned'
  BY DEF MicOwned
<1>10. ListeningMeansRecording'
  BY DEF ListeningMeansRecording
<1>11. QED BY <1>3, <1>4, <1>5, <1>6, <1>7, <1>8, <1>9, <1>10

(* The steps of a finalizer. *)
LEMMA FinalizeKeepsRec ==
  ASSUME RecInv, RecorderStep, NEW j \in Jobs,
         \/ CloseCapture(j) \/ RealtimeGet(j) \/ FinLoad(j) \/ FinDiscard(j)
         \/ FinShown(j) \/ RecorderSaves(j)
  PROVE  RecInv' /\ FinalizesOwn
<1> USE DEF RecInv, RecorderVarsOK
<1>1. fin[j].pc # "off"
  BY DEF CloseCapture, RealtimeGet, FinLoad, FinDiscard, FinShown, RecorderSaves,
    RealtimeSave, FinCancelled, FinFailed, FinQueued
<1>2. store[j].status # "absent" /\ recording # j
  BY <1>1 DEF KnownInv, ApartInv, Jobs, NoJob
<1>3. fin[j].pc # "closing" => capture[j] = "off"
  BY <1>2 DEF MicOwned
<1>types. TypeOK' /\ RecorderVarsOK'
  BY RecorderTypes
(* The last step for j, or one that leaves job.json alone. *)
<1>quiet. ASSUME UNCHANGED <<store, recording, queueVars, workerVars>>,
                 \A k \in Jobs \ {j} : fin'[k] = fin[k] /\ capture'[k] = capture[k],
                 store[j].status = "recording" =>
                   fin'[j].pc \notin {"off", "discard", "queued"},
                 fin'[j].pc = "committed" => fin'[j].job.status # "absent",
                 capture'[j] = "off",
                 phase'.phase = "recording" =>
                   /\ phase' = phase
                   /\ fin[j].kind = "cancel" => fin'[j].kind = "cancel"
          PROVE  RecInv' /\ FinalizesOwn
  <2>1. \A k \in Jobs : InFlight(k)' => InFlight(k) \/ k = j
    BY <1>quiet, QuietRefs
  <2>2. FinStepOK(j)
    BY <1>1, <1>2, <1>quiet, <2>1 DEF FinStepOK
  <2>3. QED BY <2>2, FinKeepsRec
<1>4. CASE CloseCapture(j)
  <2>1. PICK err \in BOOLEAN : fin' = [fin EXCEPT ![j].pc = "closed", ![j].err = err]
    BY <1>4 DEF CloseCapture
  <2>2. fin'[j].pc = "closed" /\ fin'[j].kind = fin[j].kind
    BY <2>1 DEF Fin
  <2>3. \A k \in Jobs \ {j} : fin'[k] = fin[k] /\ capture'[k] = capture[k]
    BY <1>4, <2>1 DEF CloseCapture
  <2>4. capture'[j] = "off"
    BY <1>4 DEF CloseCapture
  <2>5. UNCHANGED <<store, recording, phase, queueVars, workerVars>>
    BY <1>4 DEF CloseCapture, storeVars, pillVars
  <2>6. QED BY <1>quiet, <2>2, <2>3, <2>4, <2>5
<1>5. CASE FinLoad(j)
  <2>1. /\ UNCHANGED <<store, recording, queueVars, workerVars, capture>>
        /\ fin[j].pc = "closed"
    BY <1>5 DEF FinLoad, storeVars
  <2>2. capture'[j] = "off"
    BY <1>3, <2>1
  <2>3. CASE Exists(j)
    <3>1. fin' = [fin EXCEPT ![j].pc = "loaded", ![j].job = store[j]]
          /\ UNCHANGED phase
      BY <1>5, <2>3 DEF FinLoad
    <3>2. fin'[j].pc = "loaded" /\ fin'[j].kind = fin[j].kind
      BY <3>1 DEF Fin
    <3>3. \A k \in Jobs \ {j} : fin'[k] = fin[k]
      BY <3>1
    <3>4. QED BY <1>quiet, <2>1, <2>2, <3>1, <3>2, <3>3
  <2>4. CASE ~Exists(j)
    <3>1. /\ fin' = [fin EXCEPT ![j] = NoFin]
          /\ IF fin[j].kind = "cancel" THEN SetStatus("idle") ELSE UNCHANGED phase
      BY <1>5, <2>4 DEF FinLoad, FinEnds
    <3>2. store[j].status # "recording"
      BY <2>4 DEF Exists, NoFile
    <3>3. \A k \in Jobs \ {j} : fin'[k] = fin[k]
      BY <3>1
    <3>4. phase'.phase = "recording" => phase' = phase /\ fin[j].kind # "cancel"
      BY <3>1 DEF SetStatus
    <3>6. fin'[j].pc = "off"
      BY <3>1 DEF NoFin
    <3>5. QED BY <1>quiet, <2>1, <2>2, <3>2, <3>3, <3>4, <3>6
  <2>5. QED BY <2>3, <2>4
<1>6. CASE FinDiscard(j) \/ FinShown(j)
  <2>1. /\ UNCHANGED <<store, recording, queueVars, workerVars, capture>>
        /\ fin[j].pc \in {"discard", "queued"}
        /\ fin' = [fin EXCEPT ![j] = NoFin]
        /\ phase'.phase # "recording"
    BY <1>6 DEF FinDiscard, FinShown, FinEnds, SetStatus, storeVars
  <2>2. store[j].status # "recording" /\ capture'[j] = "off"
    BY <1>3, <2>1 DEF LeftInv
  <2>3. fin'[j].pc = "off" /\ \A k \in Jobs \ {j} : fin'[k] = fin[k]
    BY <2>1 DEF NoFin
  <2>4. QED BY <1>quiet, <2>1, <2>2, <2>3
<1>7. CASE RecorderSaves(j)
  <2>1. capture' = capture /\ fin[j].pc \in {"committed", "loaded"}
        /\ UNCHANGED recording
    BY <1>7 DEF RecorderSaves, RealtimeSave, FinCancelled, FinFailed, FinQueued,
      pillVars
  <2>2. \A k \in Jobs : InFlight(k)' => InFlight(k) \/ k = j
    <3> SUFFICES ASSUME NEW k \in Jobs, InFlight(k)', k # j PROVE InFlight(k)
      OBVIOUS
    <3>1. CASE UNCHANGED <<queueVars, workerVars>>
      BY <3>1, QuietRefs
    <3>2. CASE FinQueued(j)
      BY <3>2, EnqueueOther DEF FinQueued, TypeOK, InFlight, workerVars
    <3>3. QED
      BY <1>7, <3>1, <3>2 DEF RecorderSaves, RealtimeSave, FinCancelled, FinFailed
  <2>3. CASE RealtimeSave(j)
    <3> DEFINE rec == [fin[j].job EXCEPT !.transcript = TRUE]
    <3>1. /\ Save(j, rec) /\ UNCHANGED phase /\ fin[j].pc = "committed"
          /\ fin' = [fin EXCEPT ![j].pc = "closed"]
      BY <2>3 DEF RealtimeSave, FinGoes, pillVars
    <3>2. rec.status # "absent"
      BY <3>1 DEF LeftInv, Fin, Job
    <3> HIDE DEF rec
    <3>6. /\ fin'[j].pc = "closed" /\ fin'[j].kind = fin[j].kind
          /\ \A k \in Jobs \ {j} : fin'[k] = fin[k]
      BY <3>1 DEF Fin
    <3>3. \A k \in Jobs : store'[k] = IF k = j THEN rec ELSE store[k]
      BY <3>1 DEF Save, TypeOK, StoreTypeOK
    <3>4. FinStepOK(j)
      BY <1>1, <1>2, <1>3, <2>1, <2>2, <3>1, <3>2, <3>3, <3>6 DEF FinStepOK
    <3>5. QED BY <3>4, FinKeepsRec
  <2>4. CASE FinCancelled(j) \/ FinFailed(j) \/ FinQueued(j)
    <3>1. PICK rec : /\ Save(j, rec)
                     /\ rec.status \in {"cancelled", "failed", "queued"}
      <4>1. fin[j].job \in Job
        BY DEF Fin
      <4>2. CASE FinCancelled(j)
        BY <4>1, <4>2 DEF FinCancelled, Job
      <4>3. CASE FinFailed(j) \/ FinQueued(j)
        <5>1. PICK s \in {"failed", "queued"}, long \in BOOLEAN :
                Save(j, [fin[j].job EXCEPT !.status = s, !.long = long])
          BY <4>3 DEF FinFailed, FinQueued
        <5>2. [fin[j].job EXCEPT !.status = s, !.long = long].status = s
          BY <4>1 DEF Job
        <5>3. QED BY <5>1, <5>2
      <4>4. QED BY <2>4, <4>2, <4>3
    <3>2. \A k \in Jobs : store'[k] = IF k = j THEN rec ELSE store[k]
      BY <3>1 DEF Save, TypeOK, StoreTypeOK
    <3>3. \A k \in Jobs \ {j} : fin'[k] = fin[k]
      BY <2>4 DEF FinCancelled, FinFailed, FinQueued, FinGoes, FinEnds
    <3>4. phase'.phase = "recording" =>
            phase' = phase /\ (fin[j].kind = "cancel" => fin'[j].kind = "cancel")
      <4>1. CASE FinFailed(j)
        BY <4>1 DEF FinFailed, ShowAction
      <4>2. CASE FinCancelled(j) \/ FinQueued(j)
        <5>1. UNCHANGED phase /\ \E s \in FinStages : FinGoes(j, s)
          BY <4>2 DEF FinCancelled, FinQueued, pillVars, FinStages
        <5>2. fin'[j].kind = fin[j].kind
          BY <5>1 DEF FinGoes, Fin
        <5>3. QED BY <5>1, <5>2
      <4>3. QED BY <2>4, <4>1, <4>2
    <3>7. fin'[j].pc # "committed"
      <4>1. FinEnds(j) \/ FinGoes(j, "discard") \/ FinGoes(j, "queued")
        BY <2>4 DEF FinCancelled, FinFailed, FinQueued
      <4>2. QED BY <4>1 DEF FinGoes, FinEnds, Fin, NoFin
    <3>5. FinStepOK(j)
      BY <1>1, <1>2, <1>3, <2>1, <2>2, <3>1, <3>2, <3>3, <3>4, <3>7 DEF FinStepOK
    <3>6. QED BY <3>5, FinKeepsRec
  <2>5. QED BY <1>7, <2>3, <2>4 DEF RecorderSaves
<1>8. CASE RealtimeGet(j)
  <2>1. /\ UNCHANGED <<store, recording, phase, queueVars, workerVars, capture>>
        /\ fin[j].pc = "closed" /\ store[j].status # "absent"
        /\ fin' = [fin EXCEPT ![j].pc = "committed", ![j].job = store[j]]
    BY <1>8, <1>2 DEF RealtimeGet, storeVars, pillVars
  <2>2. /\ fin'[j].pc = "committed" /\ fin'[j].kind = fin[j].kind
        /\ fin'[j].job = store[j]
        /\ \A k \in Jobs \ {j} : fin'[k] = fin[k]
    BY <2>1 DEF Fin
  <2>3. capture'[j] = "off"
    BY <1>3, <2>1
  <2>4. QED BY <1>quiet, <2>1, <2>2, <2>3
<1>9. QED BY <1>4, <1>5, <1>6, <1>7, <1>8

(* Steps next to the recording that neither detach nor finalize it. *)
LEMMA CaptureKeepsRec ==
  ASSUME RecInv, RecorderStep,
         \/ StopRead
         \/ \E j \in Jobs : CaptureChunk(j) \/ AutoStop(j) \/ CaptureTurns(j)
  PROVE  RecInv' /\ FinalizesOwn
<1> USE DEF RecInv
<1>1. /\ UNCHANGED <<store, pillVars, queueVars, fin>>
      /\ \A k \in Jobs : capture'[k] # "off" => capture[k] # "off" \/ recording = k
  <2>1. CASE StopRead
    BY <2>1 DEF StopRead, storeVars
  <2>2. ASSUME NEW j \in Jobs, CaptureChunk(j) \/ AutoStop(j)
        PROVE  UNCHANGED <<store, pillVars, queueVars, fin, capture>>
    BY <2>2 DEF CaptureChunk, AutoStop, storeVars
  <2>3. ASSUME NEW j \in Jobs, CaptureTurns(j)
        PROVE  /\ UNCHANGED <<store, pillVars, queueVars, fin>>
               /\ \A k \in Jobs : capture'[k] # "off" => capture[k] # "off" \/ recording = k
    BY <2>3 DEF CaptureTurns, CaptureStalls, CaptureResumes, CaptureDies, storeVars,
      RecorderVarsOK
  <2>4. QED BY <2>1, <2>2, <2>3
<1>2. /\ Alive /\ Alive' /\ up # "recovering" /\ up' # "recovering"
      /\ UNCHANGED <<workerVars, recovering, lifecycleMu>>
  BY RecorderFrame
<1>3. \A k \in Jobs : InFlight(k)' <=> InFlight(k)
  BY <1>1, <1>2, QuietRefs
<1>4. TypeOK' /\ RecorderVarsOK'
  BY RecorderTypes
<1>5. MarkInv' /\ RecoverInv' /\ DownInv' /\ FinalizesOwn
  BY <1>1, <1>2 DEF MarkInv, RecoverInv, DownInv, FinalizesOwn, workerVars
<1>6. KnownInv' /\ LeftInv' /\ NoOrphanRecording'
  BY <1>1, <1>2, <1>3 DEF KnownInv, LeftInv, NoOrphanRecording, Locked, pillVars
<1>7. ApartInv'
  <2>1. recording # NoJob => recording \in Jobs
    BY DEF TypeOK, PillTypeOK
  <2>2. QED BY <1>1, <1>2, <1>3, <2>1 DEF ApartInv, Locked, pillVars
<1>8. MicOwned' /\ ListeningMeansRecording'
  BY <1>1 DEF MicOwned, ListeningMeansRecording, pillVars
<1>9. QED BY <1>4, <1>5, <1>6, <1>7, <1>8

(* Detaching hands the recording from its owner to one finalizer. *)
LEMMA DetachKeepsRec ==
  ASSUME RecInv, RecorderStep, NEW j \in Jobs, StopDetach(j) \/ CancelDetach(j)
  PROVE  RecInv' /\ FinalizesOwn
<1> USE DEF RecInv
<1>1. UNCHANGED <<store, queueVars, capture>>
  BY DEF StopDetach, CancelDetach, storeVars
<1>2. /\ Alive /\ Alive' /\ up # "recovering" /\ up' # "recovering"
      /\ UNCHANGED <<workerVars, recovering, lifecycleMu>>
  BY RecorderFrame
<1>3. \A k \in Jobs : InFlight(k)' <=> InFlight(k)
  BY <1>1, <1>2, QuietRefs
<1>4. TypeOK' /\ RecorderVarsOK'
  BY RecorderTypes
<1>5. MarkInv' /\ RecoverInv' /\ DownInv'
  BY <1>1, <1>2 DEF MarkInv, RecoverInv, DownInv, workerVars
<1>6. CASE recording # j
  <2>1. UNCHANGED <<fin, recording, phase>>
    BY <1>6 DEF StopDetach, CancelDetach, Detaches, pillVars
  <2>2. KnownInv' /\ LeftInv' /\ NoOrphanRecording' /\ FinalizesOwn
    BY <1>1, <1>2, <1>3, <2>1
    DEF KnownInv, LeftInv, NoOrphanRecording, FinalizesOwn, Locked
  <2>3. ApartInv'
    <3>1. recording # NoJob => recording \in Jobs
      BY DEF TypeOK, PillTypeOK
    <3>2. QED BY <1>1, <1>2, <1>3, <2>1, <3>1 DEF ApartInv, Locked
  <2>4. MicOwned' /\ ListeningMeansRecording'
    BY <1>1, <2>1 DEF MicOwned, ListeningMeansRecording
  <2>5. QED BY <1>4, <1>5, <2>2, <2>3, <2>4
<1>7. CASE recording = j
  <2>1. /\ recording' = NoJob /\ store[j].status = "recording" /\ j # NoJob
        /\ fin[j].pc = "off"
    BY <1>7 DEF StopDetach, CancelDetach, Detaches, ApartInv, Jobs, NoJob
  <2>2. /\ \A k \in Jobs \ {j} : fin'[k] = fin[k]
        /\ fin'[j].pc = "closing"
        /\ phase'.phase # "recording" \/ fin'[j].kind = "cancel"
    <3>1. CASE StopDetach(j)
      BY <1>7, <3>1 DEF StopDetach, Detaches, SetStatus, RecorderVarsOK, NoFin
    <3>2. CASE CancelDetach(j)
      BY <3>2 DEF CancelDetach, RecorderVarsOK, NoFin
    <3>3. QED BY <3>1, <3>2
  <2>3. KnownInv' /\ LeftInv' /\ FinalizesOwn
    BY <1>1, <1>2, <1>3, <2>1, <2>2 DEF KnownInv, LeftInv, FinalizesOwn, Locked
  <2>4. ApartInv' /\ ListeningMeansRecording'
    BY <2>1, <2>2 DEF ApartInv, ListeningMeansRecording
  <2>5. NoOrphanRecording' /\ MicOwned'
    BY <1>1, <1>2, <1>7, <2>2 DEF NoOrphanRecording, MicOwned
  <2>6. QED BY <1>4, <1>5, <2>3, <2>4, <2>5
<1>8. QED BY <1>6, <1>7

LEMMA RecorderInitially == Init => RecInv
<1> SUFFICES ASSUME Init PROVE RecInv
  OBVIOUS
<1> USE DEF Init, RecorderInit, PipelineInit
<1>1. TypeOK
  BY InitType
<1>2. RecorderVarsOK
  BY FinTypes DEF RecorderVarsOK, Captures
<1>3. MarkInv /\ RecoverInv /\ ApartInv /\ DownInv /\ LeftInv
  BY DEF MarkInv, RecoverInv, ApartInv, DownInv, LeftInv, PillInit, NoFin
<1>4. KnownInv
  BY DEF KnownInv, InFlight, Locked, Free, NoFin, Jobs, NoJob
<1>5. NoOrphanRecording /\ MicOwned /\ ListeningMeansRecording
  BY DEF NoOrphanRecording, Alive, MicOwned, ListeningMeansRecording, PillInit, Ready
<1>6. QED BY <1>1, <1>2, <1>3, <1>4, <1>5 DEF RecInv

LEMMA NextKeepsRec ==
  ASSUME RecInv, [Next]_vars PROVE RecInv' /\ [FinalizesOwn]_vars
<1>1. CASE PipelineOnly
  BY <1>1, PipelineKeepsRec
<1>2. CASE RecorderStep
  BY <1>2, RecorderCases, StartKeepsRec, FinalizeKeepsRec, CaptureKeepsRec,
     DetachKeepsRec
  DEF RecorderQuiet
<1>3. CASE UNCHANGED vars
  <2>1. UNCHANGED <<store, pillVars, queueVars, workerVars, lifeVars, lifecycleMu,
                    recorderVars, storeVars, ghostVars>>
    BY <1>3 DEF vars, pipelineVars, storeVars
  <2>2. TypeOK' /\ RecorderVarsOK'
    BY <2>1, TypeFrame DEF RecInv, TypeOK, RecorderVarsOK, recorderVars
  <2>3. MarkInv' /\ RecoverInv' /\ LeftInv' /\ DownInv' /\ NoOrphanRecording'
    BY <2>1 DEF RecInv, MarkInv, RecoverInv, LeftInv, DownInv, NoOrphanRecording, Alive,
      pillVars, workerVars, lifeVars, recorderVars
  <2>4. \A k \in Jobs : InFlight(k)' <=> InFlight(k)
    BY <2>1, QuietRefs
  <2>5. KnownInv'
    BY <2>1, <2>4 DEF RecInv, KnownInv, Locked, lifeVars, recorderVars
  <2>6. ApartInv'
    <3>1. recording # NoJob => recording \in Jobs
      BY DEF RecInv, TypeOK, PillTypeOK
    <3>2. QED BY <2>1, <2>4, <3>1 DEF RecInv, ApartInv, Locked, pillVars, recorderVars
  <2>7. MicOwned' /\ ListeningMeansRecording'
    BY <2>1 DEF RecInv, MicOwned, ListeningMeansRecording, pillVars, recorderVars
  <2>8. QED BY <1>3, <2>2, <2>3, <2>5, <2>6, <2>7 DEF RecInv
<1>4. QED BY <1>1, <1>2, <1>3 DEF Next
-----------------------------------------------------------------------------
(* The recorder and the pipeline together keep the invariant. *)
THEOREM RecorderInvariant == Spec => []RecInv /\ [][FinalizesOwn]_vars
<1>1. RecInv /\ [Next]_vars => RecInv' /\ [FinalizesOwn]_vars
  BY NextKeepsRec
<1>2. QED BY RecorderInitially, <1>1, PTL DEF Spec

(* The recorder's state is well typed. *)
THEOREM RecorderTypeCorrect == Spec => []RecorderTypeOK
<1>1. RecInv => RecorderTypeOK
  BY DEF RecInv, RecorderVarsOK, RecorderTypeOK
<1>2. QED BY <1>1, RecorderInvariant, PTL

(* No job is left in state recording without an owner: no stale Stop,      *)
(* silence timer or Cancel, and no crash, strands a recording.             *)
THEOREM NoneStranded == Spec => []NoOrphanRecording
<1>1. RecInv => NoOrphanRecording
  BY DEF RecInv
<1>2. QED BY <1>1, RecorderInvariant, PTL

(* The microphone is never left open. *)
THEOREM MicAlwaysOwned == Spec => []MicOwned
<1>1. RecInv => MicOwned
  BY DEF RecInv
<1>2. QED BY <1>1, RecorderInvariant, PTL

(* Listening is shown only while somebody is listening or cancelling. *)
THEOREM ListeningTruthful == Spec => []ListeningMeansRecording
<1>1. RecInv => ListeningMeansRecording
  BY DEF RecInv
<1>2. QED BY <1>1, RecorderInvariant, PTL

(* One of Stop, silence and Cancel finalizes a recording, once. *)
THEOREM FinalizedOnce == Spec => OneFinalizer
<1>1. [FinalizesOwn]_vars <=>
        [\A j \in Jobs : fin[j].pc = "off" /\ fin'[j].pc # "off"
                           => store[j].status = "recording"]_vars
  BY DEF FinalizesOwn
<1>2. QED BY <1>1, RecorderInvariant, PTL DEF OneFinalizer
=============================================================================
