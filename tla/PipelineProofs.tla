---------------------------- MODULE PipelineProofs ----------------------------
(***************************************************************************)
(* Proofs about the processing pipeline: type correctness, and that a text *)
(* is typed in full at most once per request; then about what it reports:  *)
(* history claims no delivery that did not take place, and what is         *)
(* finished stays finished; and that the pipeline implements Dictation.    *)
(***************************************************************************)
EXTENDS Pipeline, TLAPS

(* j may still reach process(), or is there. *)
InFlight(j) == \/ \E i \in DOMAIN work : work[i] = j
               \/ spill[j] > 0
               \/ \E t \in timers : t[1] = j
               \/ j \in scan
               \/ processingID = j

(* Why a job whose text was typed as often as was asked for is not typed   *)
(* once more: it is delivered, or about to be recorded so; or the user has *)
(* dismissed or deleted it; or the process ended around wtype, and the     *)
(* flag on disk keeps recovery from queueing it; or recovery has failed it *)
(* and nothing in memory refers to it.                                     *)
Settled(j) ==
  \/ store[j].status \in {"delivered", "cancelled", "deleted"}
  \/ /\ store[j].status = "delivering" /\ store[j].attempted
     /\ pc = "typed" /\ processingID = j
  \/ /\ store[j].status = "delivering" /\ store[j].attempted
     /\ up = "down" \/ (up = "recovering" /\ j \in recovering)
     /\ ~InFlight(j)
  \/ store[j].status = "failed" /\ ~InFlight(j)

(* A request of the user for j is still open. *)
Owed(j) == inserted[j] <= retries[j]

BeforeTyped == {"loaded", "cancel", "asr", "clean", "format", "delivering",
                "typing", "untyped"}

Account(j) == Owed(j) \/ (inserted[j] = retries[j] + 1 /\ Settled(j))

AccountInv == \A j \in Jobs : Account(j)

StageInv ==
  /\ ~Alive => pc = "idle"
  /\ pc \in BeforeTyped => Owed(processingID)
  /\ pc = "delivering" => job.status = "delivering"
  /\ pc = "typing" /\ inserted[processingID] = retries[processingID]
       => \/ /\ store[processingID].status = "delivering"
             /\ store[processingID].attempted
          \/ store[processingID].status \in {"cancelled", "deleted"}

IInv == TypeOK /\ AccountInv /\ StageInv

(* process() saves no status it has not set itself (a part of StageInv).   *)
MarkInv == pc = "delivering" => job.status = "delivering"
-----------------------------------------------------------------------------
(* Every conjunct of TypeOK depends on its own variables only. *)
LEMMA TypeFrame ==
  /\ StoreTypeOK /\ UNCHANGED storeVars => StoreTypeOK'
  /\ PillTypeOK /\ UNCHANGED pillVars => PillTypeOK'
  /\ QueueTypeOK /\ UNCHANGED queueVars => QueueTypeOK'
  /\ WorkerTypeOK /\ UNCHANGED workerVars => WorkerTypeOK'
  /\ LockTypeOK /\ UNCHANGED lifecycleMu => LockTypeOK'
  /\ LifeTypeOK /\ UNCHANGED lifeVars => LifeTypeOK'
  /\ HistoryTypeOK /\ UNCHANGED ghostVars => HistoryTypeOK'
<1>1. StoreTypeOK /\ UNCHANGED storeVars => StoreTypeOK'
  BY DEF StoreTypeOK, storeVars
<1>2. PillTypeOK /\ UNCHANGED pillVars => PillTypeOK'
  BY DEF PillTypeOK, pillVars
<1>3. QueueTypeOK /\ UNCHANGED queueVars => QueueTypeOK'
  BY DEF QueueTypeOK, queueVars
<1>4. WorkerTypeOK /\ UNCHANGED workerVars => WorkerTypeOK'
  BY DEF WorkerTypeOK, workerVars
<1>5. LockTypeOK /\ UNCHANGED lifecycleMu => LockTypeOK'
  BY DEF LockTypeOK
<1>6. LifeTypeOK /\ UNCHANGED lifeVars => LifeTypeOK'
  BY DEF LifeTypeOK, lifeVars
<1>7. HistoryTypeOK /\ UNCHANGED ghostVars => HistoryTypeOK'
  BY DEF HistoryTypeOK, ghostVars
<1> QED
  BY <1>1, <1>2, <1>3, <1>4, <1>5, <1>6, <1>7

(* Enqueue keeps the channel and its blocked senders well typed. *)
LEMMA EnqueueType ==
  ASSUME work \in Seq(Jobs), spill \in [Jobs -> Nat],
         NEW j \in Jobs, Enqueue(j)
  PROVE  work' \in Seq(Jobs) /\ spill' \in [Jobs -> Nat]
<1>1. CASE Len(work) < QueueCap
  <2>1. work' = Append(work, j) /\ spill' = spill
    BY <1>1 DEF Enqueue
  <2>2. Append(work, j) \in Seq(Jobs)
    OBVIOUS
  <2> QED
    BY <2>1, <2>2
<1>2. CASE ~(Len(work) < QueueCap)
  <2>1. work' = work /\ spill' = [spill EXCEPT ![j] = @ + 1]
    BY <1>2 DEF Enqueue
  <2> QED
    BY <2>1
<1> QED
  BY <1>1, <1>2

(* The updates process() and Retry make to a job record. *)
LEMMA JobUpdate ==
  ASSUME NEW rec \in Job, NEW s \in JobStatus, NEW n \in Nat,
         NEW b \in BOOLEAN
  PROVE  /\ [rec EXCEPT !.status = s] \in Job
         /\ [rec EXCEPT !.status = s, !.attempts = n] \in Job
         /\ [rec EXCEPT !.status = s, !.attempted = b] \in Job
         /\ [rec EXCEPT !.attempted = b] \in Job
         /\ [rec EXCEPT !.transcript = b] \in Job
         /\ [rec EXCEPT !.eligible = b] \in Job
         /\ [rec EXCEPT !.final = b] \in Job
BY DEF Job, JobStatus, NoFile

LEMMA BlankType == ASSUME NEW s \in JobStatus \cup NoFile
                   PROVE  Blank(s) \in Job
BY DEF Blank, Job, JobStatus, NoFile

LEMMA SaveType ==
  ASSUME StoreTypeOK, NEW j \in Jobs, NEW rec \in Job, Save(j, rec)
  PROVE  store' \in [Jobs -> Job]
BY DEF StoreTypeOK, Save

LEMMA StatusType ==
  ASSUME PillTypeOK, UNCHANGED recording,
         \/ \E p \in Phases : SetStatus(p)
         \/ \E p \in Phases, j \in Jobs : ShowAction(p, j)
  PROVE  PillTypeOK'
BY DEF PillTypeOK, SetStatus, ShowAction, NoJob

(* One stage of process() for the job being processed. *)
LEMMA SaveStageType ==
  ASSUME TypeOK, processingID \in Jobs, NEW s \in JobStatus,
         NEW rec \in Job, SaveStage(s, rec), UNCHANGED <<audio, recording>>
  PROVE  StoreTypeOK' /\ PillTypeOK' /\ job' \in Job
<1>1. [rec EXCEPT !.status = s] \in Job
  BY JobUpdate
<1>2. StoreTypeOK'
  BY <1>1, SaveType DEF SaveStage, TypeOK, StoreTypeOK
<1>3. PillTypeOK'
  BY StatusType DEF SaveStage, TypeOK, Phases
<1> QED
  BY <1>1, <1>2, <1>3 DEF SaveStage

(* Every step of the worker keeps the pipeline's state well typed. *)
LEMMA WorkerType == ASSUME TypeOK, Dequeue \/ WorkerStep PROVE TypeOK'
<1> USE TypeFrame DEF TypeOK
<1>stage. ASSUME NEW s \in JobStatus, NEW rec \in Job, SaveStage(s, rec),
                 pc' \in Stages, processingID \in Jobs,
                 UNCHANGED <<audio, recording, queueVars, processingID,
                             lifeVars, lifecycleMu, ghostVars>>
          PROVE  TypeOK'
  <2>1. StoreTypeOK' /\ PillTypeOK' /\ job' \in Job
    BY <1>stage, SaveStageType
  <2>2. WorkerTypeOK'
    BY <1>stage, <2>1 DEF WorkerTypeOK
  <2> QED
    BY <1>stage, <2>1, <2>2
<1>quiet. ASSUME WorkerTypeOK',
                 UNCHANGED <<storeVars, pillVars, queueVars, lifeVars,
                             lifecycleMu>>,
                 HistoryTypeOK'
          PROVE  TypeOK'
  BY <1>quiet
<1>1. CASE Dequeue
  <2>1. Head(work) \in Jobs /\ Tail(work) \in Seq(Jobs)
    BY <1>1 DEF Dequeue, QueueTypeOK
  <2>2. QueueTypeOK'
    BY <1>1, <2>1 DEF Dequeue, QueueTypeOK
  <2>3. WorkerTypeOK'
    BY <1>1, <2>1 DEF Dequeue, WorkerTypeOK, Stages
  <2> QED
    BY <1>1, <2>2, <2>3 DEF Dequeue
<1>2. CASE Load
  <2>1. WorkerTypeOK'
    BY <1>2 DEF Load, WorkerTypeOK, StoreTypeOK, Stages
  <2> QED
    BY <1>2, <1>quiet, <2>1 DEF Load
<1>3. CASE Transcribe
  BY <1>3, <1>stage DEF Transcribe, WorkerTypeOK, JobStatus, Stages
<1>4. CASE SkipTranscribe
  BY <1>4, <1>stage DEF SkipTranscribe, WorkerTypeOK, JobStatus, Stages
<1>5. CASE AsrAnswers
  <2>1. [job EXCEPT !.transcript = TRUE] \in Job
    BY JobUpdate DEF WorkerTypeOK, JobStatus
  <2> QED
    BY <1>5, <1>stage, <2>1 DEF AsrAnswers, WorkerTypeOK, JobStatus, Stages
<1>6. CASE AsrFailsRetryable
  <2>1. processingID \in Jobs /\ job.attempts + 1 \in Nat
    BY <1>6 DEF AsrFailsRetryable, WorkerTypeOK, Job
  <2>2. [job EXCEPT !.status = "retry_wait", !.attempts = job.attempts + 1]
          \in Job
    BY <2>1, JobUpdate DEF WorkerTypeOK, JobStatus
  <2>3. StoreTypeOK'
    BY <1>6, <2>1, <2>2, SaveType DEF AsrFailsRetryable, StoreTypeOK
  <2>4. QueueTypeOK'
    BY <1>6, <2>1 DEF AsrFailsRetryable, QueueTypeOK
  <2>5. PillTypeOK'
    BY <1>6, StatusType DEF AsrFailsRetryable, Phases
  <2>6. WorkerTypeOK'
    BY <1>6, <2>1 DEF AsrFailsRetryable, WorkerTypeOK, Stages
  <2> QED
    BY <1>6, <2>3, <2>4, <2>5, <2>6 DEF AsrFailsRetryable
<1>7. CASE AsrFailsForGood
  <2>1. processingID \in Jobs /\ job.attempts + 1 \in Nat
    BY <1>7 DEF AsrFailsForGood, WorkerTypeOK, Job
  <2>2. [job EXCEPT !.status = "failed", !.attempts = job.attempts + 1]
          \in Job
    BY <2>1, JobUpdate DEF WorkerTypeOK, JobStatus
  <2>3. StoreTypeOK'
    BY <1>7, <2>1, <2>2, SaveType DEF AsrFailsForGood, StoreTypeOK
  <2>4. PillTypeOK'
    BY <1>7, <2>1, StatusType DEF AsrFailsForGood, Phases
  <2>5. WorkerTypeOK'
    BY <1>7, <2>1 DEF AsrFailsForGood, WorkerTypeOK, Stages
  <2> QED
    BY <1>7, <2>3, <2>4, <2>5 DEF AsrFailsForGood
<1>8. CASE CleanAnswers
  <2>1. processingID \in Jobs /\ job \in Job /\ job.long \in BOOLEAN
    BY <1>8 DEF CleanAnswers, WorkerTypeOK, Job
  <2>2. [job EXCEPT !.eligible = job.long] \in Job
    BY <2>1, JobUpdate DEF JobStatus
  <2>3. [[job EXCEPT !.eligible = job.long] EXCEPT !.final = TRUE] \in Job
    BY <2>2, JobUpdate DEF JobStatus
  <2>4. CASE job.long
    BY <1>8, <1>stage, <2>1, <2>2, <2>4 DEF CleanAnswers, JobStatus, Stages
  <2>5. CASE ~job.long
    BY <1>8, <1>stage, <2>1, <2>3, <2>5 DEF CleanAnswers, JobStatus, Stages
  <2> QED
    BY <2>4, <2>5
<1>9. CASE FormatAnswers
  <2>1. [job EXCEPT !.final = TRUE] \in Job
    BY JobUpdate DEF WorkerTypeOK, JobStatus
  <2> QED
    BY <1>9, <1>stage, <2>1 DEF FormatAnswers, WorkerTypeOK, JobStatus, Stages
<1>10. CASE MarkAttempted
  <2>1. processingID \in Jobs /\ [job EXCEPT !.attempted = TRUE] \in Job
    BY <1>10, JobUpdate DEF MarkAttempted, WorkerTypeOK, JobStatus
  <2>2. StoreTypeOK'
    BY <1>10, <2>1, SaveType DEF MarkAttempted, StoreTypeOK
  <2>3. WorkerTypeOK'
    BY <1>10, <2>1 DEF MarkAttempted, WorkerTypeOK, Stages
  <2> QED
    BY <1>10, <2>2, <2>3 DEF MarkAttempted
<1>11. CASE TypeText
  <2>1. WorkerTypeOK'
    BY <1>11 DEF TypeText, WorkerTypeOK, Stages
  <2>2. HistoryTypeOK'
    BY <1>11 DEF TypeText, WorkerTypeOK, HistoryTypeOK
  <2> QED
    BY <1>11, <1>quiet, <2>1, <2>2 DEF TypeText
<1>12. CASE DeliverFails
  <2>1. WorkerTypeOK'
    BY <1>12 DEF DeliverFails, WorkerTypeOK, Stages
  <2> QED
    BY <1>12, <1>quiet, <2>1 DEF DeliverFails
<1>save. ASSUME NEW s \in JobStatus,
                Save(processingID, [job EXCEPT !.status = s]),
                PillTypeOK', pc' \in Stages, processingID \in Jobs,
                HistoryTypeOK',
                UNCHANGED <<audio, queueVars, processingID, job, lifeVars,
                            lifecycleMu>>
         PROVE  TypeOK'
  <2>1. [job EXCEPT !.status = s] \in Job
    BY JobUpdate DEF WorkerTypeOK
  <2>2. StoreTypeOK'
    BY <1>save, <2>1, SaveType DEF StoreTypeOK
  <2>3. WorkerTypeOK'
    BY <1>save DEF WorkerTypeOK
  <2> QED
    BY <1>save, <2>2, <2>3
<1>13. CASE RecordDelivered
  <2>1. PillTypeOK'
    BY <1>13, StatusType DEF RecordDelivered, WorkerTypeOK, Phases
  <2> QED
    BY <1>13, <1>save, <2>1
       DEF RecordDelivered, WorkerTypeOK, JobStatus, Stages
<1>14. CASE RecordUndelivered
  <2>1. PillTypeOK'
    BY <1>14, StatusType DEF RecordUndelivered, WorkerTypeOK, Phases
  <2> QED
    BY <1>14, <1>save, <2>1
       DEF RecordUndelivered, WorkerTypeOK, JobStatus, Stages
<1>15. CASE CancelledProcessing
  <2>1. HistoryTypeOK'
    BY <1>15 DEF CancelledProcessing, Races, WorkerTypeOK, HistoryTypeOK
  <2> QED
    BY <1>15, <1>save, <2>1
       DEF CancelledProcessing, WorkerTypeOK, JobStatus, Stages
<1>16. CASE DiscardAudio
  <2>1. StoreTypeOK'
    BY <1>16 DEF DiscardAudio, RemoveAudio, StoreTypeOK, Audio
  <2>2. PillTypeOK'
    BY <1>16, StatusType DEF DiscardAudio, Phases
  <2>3. WorkerTypeOK'
    BY <1>16 DEF DiscardAudio, WorkerTypeOK, Stages
  <2> QED
    BY <1>16, <2>1, <2>2, <2>3 DEF DiscardAudio
<1>17. CASE Finish
  <2>1. WorkerTypeOK'
    BY <1>17, BlankType DEF Finish, WorkerTypeOK, NoFile, Stages
  <2> QED
    BY <1>17, <1>quiet, <2>1 DEF Finish
<1> QED
  BY <1>1, <1>2, <1>3, <1>4, <1>5, <1>6, <1>7, <1>8, <1>9, <1>10, <1>11,
     <1>12, <1>13, <1>14, <1>15, <1>16, <1>17 DEF WorkerStep

(* What a process that ends leaves behind is well typed. *)
LEMMA LoseMemoryType ==
  ASSUME TypeOK, LoseMemory, UNCHANGED backoff
  PROVE  PillTypeOK' /\ QueueTypeOK' /\ WorkerTypeOK' /\ LockTypeOK'
<1>1. PillTypeOK'
  BY DEF LoseMemory, Ready, PillTypeOK, Phases, NoJob
<1>2. QueueTypeOK'
  BY DEF LoseMemory, TypeOK, QueueTypeOK
<1>3. WorkerTypeOK'
  BY BlankType DEF LoseMemory, WorkerTypeOK, Stages, NoFile
<1>4. LockTypeOK'
  BY BlankType DEF LoseMemory, LockTypeOK, Free, NoFile
<1> QED
  BY <1>1, <1>2, <1>3, <1>4

(* So does everything else in the pipeline. *)
LEMMA StepType == ASSUME TypeOK, PipelineStep PROVE TypeOK'
<1> USE TypeFrame DEF TypeOK
<1>1. CASE Dequeue \/ WorkerStep
  BY <1>1, WorkerType
<1>queue. ASSUME QueueTypeOK',
                 UNCHANGED <<storeVars, pillVars, workerVars, lifeVars,
                             lifecycleMu, ghostVars>>
          PROVE  TypeOK'
  BY <1>queue
<1>2. ASSUME NEW j \in Jobs, SpillSends(j) PROVE TypeOK'
  <2>1. Append(work, j) \in Seq(Jobs) /\ spill[j] - 1 \in Nat
    BY <1>2 DEF SpillSends, QueueTypeOK
  <2>2. QueueTypeOK'
    BY <1>2, <2>1 DEF SpillSends, QueueTypeOK
  <2> QED
    BY <1>2, <1>queue, <2>2 DEF SpillSends
<1>3. ASSUME NEW j \in Jobs, BackoffElapses(j) PROVE TypeOK'
  <2>1. QueueTypeOK'
    BY <1>3 DEF BackoffElapses, QueueTypeOK
  <2> QED
    BY <1>3, <1>queue, <2>1 DEF BackoffElapses
<1>4. ASSUME NEW j \in Jobs, RecoveryEnqueue(j) PROVE TypeOK'
  <2>1. QueueTypeOK'
    BY <1>4, EnqueueType DEF RecoveryEnqueue, QueueTypeOK
  <2> QED
    BY <1>4, <1>queue, <2>1 DEF RecoveryEnqueue
<1>5. CASE RetryTimer
  <2>1. PICK t \in timers : TimerFires(t[1], t[2])
    BY <1>5 DEF RetryTimer
  <2>2. t[1] \in Jobs
    BY <2>1 DEF QueueTypeOK
  <2>3. QueueTypeOK'
    BY <2>1, <2>2, EnqueueType DEF TimerFires, QueueTypeOK
  <2> QED
    BY <2>1, <1>queue, <2>3 DEF TimerFires
<1>6. CASE RecoveryTick
  <2>1. QueueTypeOK'
    BY <1>6 DEF RecoveryTick, DueJobs, Listed, QueueTypeOK
  <2> QED
    BY <1>6, <1>queue, <2>1 DEF RecoveryTick
<1>7. ASSUME NEW j \in Jobs, RetryRead(j) PROVE TypeOK'
  <2>1. LockTypeOK'
    BY <1>7 DEF RetryRead, LockTypeOK, LockOps, StoreTypeOK
  <2> QED
    BY <1>7, <2>1 DEF RetryRead
<1>8. CASE RetrySave
  <2> DEFINE j == lifecycleMu.id
             rec == [lifecycleMu.job EXCEPT !.status = "queued",
                                            !.attempted = FALSE]
  <2>1. j \in Jobs /\ lifecycleMu.job \in Job
    BY <1>8 DEF RetrySave, LockTypeOK, LockOps
  <2>2. rec \in Job
    BY <2>1, JobUpdate DEF JobStatus
  <2>3. StoreTypeOK'
    <3>1. Save(j, rec) /\ UNCHANGED audio
      BY <1>8 DEF RetrySave
    <3> QED
      BY <2>1, <2>2, <3>1, SaveType DEF StoreTypeOK
  <2>4. QueueTypeOK'
    BY <1>8, <2>1, EnqueueType DEF RetrySave, QueueTypeOK
  <2>5. LockTypeOK'
    BY <1>8, BlankType DEF RetrySave, LockTypeOK, Free, NoFile
  <2>6. HistoryTypeOK'
    BY <1>8, <2>1 DEF RetrySave, HistoryTypeOK
  <2> QED
    BY <1>8, <2>3, <2>4, <2>5, <2>6 DEF RetrySave
<1>9. CASE Sigterm
  BY <1>9 DEF Sigterm, LifeTypeOK
<1>10. CASE Exit
  <2>1. LifeTypeOK'
    BY <1>10 DEF Exit, LifeTypeOK
  <2> QED
    BY <1>10, <2>1, LoseMemoryType DEF Exit
<1>11. CASE Crash
  <2>1. LifeTypeOK'
    BY <1>11 DEF Crash, LifeTypeOK
  <2> QED
    BY <1>11, <2>1, LoseMemoryType DEF Crash
<1>12. CASE Restart
  <2>1. LifeTypeOK'
    BY <1>12 DEF Restart, Listed, LifeTypeOK
  <2> QED
    BY <1>12, <2>1 DEF Restart
<1>13. ASSUME NEW j \in Jobs, RecoverJob(j) PROVE TypeOK'
  <2>1. RecoveredStatus(j) \in JobStatus \cup NoFile
    BY DEF RecoveredStatus, JobStatus, StoreTypeOK, Job
  <2>2. [store[j] EXCEPT !.status = RecoveredStatus(j)] \in Job
    BY <2>1 DEF StoreTypeOK, Job
  <2>3. StoreTypeOK'
    BY <1>13, <2>2, SaveType DEF RecoverJob, StoreTypeOK
  <2>4. QueueTypeOK'
    BY <1>13, EnqueueType DEF RecoverJob, QueueTypeOK
  <2>5. LifeTypeOK'
    BY <1>13 DEF RecoverJob, LifeTypeOK
  <2> QED
    BY <1>13, <2>3, <2>4, <2>5 DEF RecoverJob
<1>14. CASE Serve
  <2>1. PillTypeOK'
    BY <1>14, StatusType DEF Serve, Phases
  <2>2. LifeTypeOK'
    BY <1>14 DEF Serve, LifeTypeOK
  <2> QED
    BY <1>14, <2>1, <2>2 DEF Serve
<1>15. CASE ShowReady
  <2>1. PillTypeOK'
    BY <1>15, StatusType DEF ShowReady, ClearAction, Phases
  <2> QED
    BY <1>15, <2>1 DEF ShowReady
<1> QED
  BY PipelineStep, <1>1, <1>2, <1>3, <1>4, <1>5, <1>6, <1>7, <1>8, <1>9,
     <1>10, <1>11, <1>12, <1>13, <1>14, <1>15 DEF PipelineStep

LEMMA SubmitType == ASSUME TypeOK, NEW j \in Jobs, Submit(j) PROVE TypeOK'
<1> USE TypeFrame DEF TypeOK
<1>1. PICK long \in BOOLEAN :
        Save(j, [Blank("queued") EXCEPT !.long = long])
  BY DEF Submit
<1>2. [Blank("queued") EXCEPT !.long = long] \in Job
  BY BlankType DEF Job, JobStatus
<1>3. StoreTypeOK'
  BY <1>1, <1>2, SaveType DEF Submit, StoreTypeOK, Audio
<1>4. QueueTypeOK'
  BY EnqueueType DEF Submit, QueueTypeOK
<1> QED
  BY <1>3, <1>4 DEF Submit

LEMMA ShownType == ASSUME TypeOK, SubmitShown PROVE TypeOK'
<1>1. PillTypeOK'
  BY StatusType DEF SubmitShown, TypeOK, PillTypeOK, Phases
<1> QED
  BY <1>1, TypeFrame DEF TypeOK, SubmitShown

LEMMA InitType == ASSUME PipelineInit PROVE TypeOK
<1>1. StoreTypeOK
  BY BlankType DEF PipelineInit, StoreInit, StoreTypeOK, NoFile, Audio
<1>2. PillTypeOK
  BY DEF PipelineInit, PillInit, PillTypeOK, Ready, Phases, NoJob
<1>3. QueueTypeOK
  BY DEF PipelineInit, QueueTypeOK
<1>4. WorkerTypeOK
  BY BlankType DEF PipelineInit, WorkerTypeOK, Stages, NoFile
<1>5. LockTypeOK
  BY BlankType DEF PipelineInit, LockTypeOK, Free, NoFile
<1>6. LifeTypeOK /\ HistoryTypeOK
  BY DEF PipelineInit, LifeTypeOK, HistoryTypeOK
<1> QED
  BY <1>1, <1>2, <1>3, <1>4, <1>5, <1>6 DEF TypeOK

(* The pipeline's variables always hold values the code could store there: *)
(* no step of the worker, a retry, a crash or a recovery builds an ill     *)
(* typed record or queue entry.                                            *)
THEOREM TypeCorrect == PipelineSpec => []TypeOK
<1>1. PipelineInit => TypeOK
  BY InitType
<1>2. TypeOK /\ [PipelineNext]_pipelineVars => TypeOK'
  <2> SUFFICES ASSUME TypeOK, [PipelineNext]_pipelineVars PROVE TypeOK'
    OBVIOUS
  <2>1. CASE PipelineStep
    BY <2>1, StepType
  <2>2. CASE \E j \in Jobs : Submit(j)
    BY <2>2, SubmitType
  <2>3. CASE SubmitShown
    BY <2>3, ShownType
  <2>4. CASE UNCHANGED pipelineVars
    BY <2>4, TypeFrame DEF pipelineVars, TypeOK
  <2> QED
    BY <2>1, <2>2, <2>3, <2>4 DEF PipelineNext
<1> QED
  BY <1>1, <1>2, PTL DEF PipelineSpec

-----------------------------------------------------------------------------
(* A job stays settled while nothing about it changes, no new reference to *)
(* it appears in memory and the process neither ends nor starts.           *)
LEMMA SettledFrame ==
  ASSUME NEW j \in Jobs, Settled(j), store'[j] = store[j],
         store[j].status \in {"failed", "delivering"} /\ ~InFlight(j)
           => ~InFlight(j)',
         pc = "typed" /\ processingID = j
           => pc' = "typed" /\ processingID' = j,
         ~Alive => UNCHANGED <<up, recovering>>
  PROVE  Settled(j)'
BY DEF Settled, Alive

LEMMA AccountFrame ==
  ASSUME NEW j \in Jobs, Account(j), store'[j] = store[j],
         inserted'[j] = inserted[j], retries'[j] = retries[j],
         store[j].status \in {"failed", "delivering"} /\ ~InFlight(j)
           => ~InFlight(j)',
         pc = "typed" /\ processingID = j
           => pc' = "typed" /\ processingID' = j,
         ~Alive => UNCHANGED <<up, recovering>>
  PROVE  Account(j)'
BY SettledFrame DEF Account, Owed

(* Enqueueing one id makes no other id pending. *)
LEMMA EnqueueOther ==
  ASSUME QueueTypeOK, NEW j \in Jobs, Enqueue(j), NEW k \in Jobs, k # j
  PROVE  /\ (\E i \in DOMAIN work' : work'[i] = k)
              => \E i \in DOMAIN work : work[i] = k
         /\ spill'[k] = spill[k]
<1>1. CASE Len(work) < QueueCap
  <2>1. work' = Append(work, j) /\ spill' = spill
    BY <1>1 DEF Enqueue
  <2>2. DOMAIN work' = 1 .. (Len(work) + 1) /\ DOMAIN work = 1 .. Len(work)
    BY <2>1 DEF QueueTypeOK
  <2>3. ASSUME NEW i \in DOMAIN work', work'[i] = k
        PROVE  i \in DOMAIN work /\ work[i] = k
    BY <2>1, <2>2, <2>3 DEF QueueTypeOK
  <2> QED
    BY <2>1, <2>3
<1>2. CASE ~(Len(work) < QueueCap)
  BY <1>2 DEF Enqueue, QueueTypeOK
<1> QED
  BY <1>1, <1>2

(* A queue step that takes its id from the channel's blocked senders, a    *)
(* timer or the scan refers to no job that was not referred to before.     *)
LEMMA EnqueueInFlight ==
  ASSUME QueueTypeOK, NEW j \in Jobs, Enqueue(j), InFlight(j),
         timers' \subseteq timers, scan' \subseteq scan,
         UNCHANGED processingID, NEW k \in Jobs, ~InFlight(k)
  PROVE  ~InFlight(k)'
<1>1. k # j
  OBVIOUS
<1>2. ~(\E i \in DOMAIN work' : work'[i] = k) /\ spill'[k] = spill[k]
  BY <1>1, EnqueueOther DEF InFlight
<1> QED
  BY <1>2 DEF InFlight

(* The step of process() that rewrites the record of an owed job.          *)
LEMMA StageAccount ==
  ASSUME IInv, processingID \in Jobs, pc # "typed",
         Owed(processingID),
         \A j \in Jobs \ {processingID} : store'[j] = store[j],
         UNCHANGED <<inserted, retries, processingID, work, spill, scan, up,
                     recovering>>,
         \A t \in timers' : t \in timers \/ t[1] = processingID
  PROVE  AccountInv'
<1> SUFFICES ASSUME NEW j \in Jobs PROVE Account(j)'
  BY DEF AccountInv
<1>1. CASE j = processingID
  BY <1>1 DEF Account, Owed, ghostVars
<1>2. CASE j # processingID
  <2>1. ~InFlight(j) => ~InFlight(j)'
    BY <1>2 DEF InFlight
  <2>2. Account(j) /\ store'[j] = store[j]
    BY <1>2 DEF IInv, AccountInv
  <2> QED
    BY <1>2, <2>1, <2>2, AccountFrame DEF ghostVars
<1> QED
  BY <1>1, <1>2

(* A step that leaves records, history and references alone.               *)
LEMMA QuietAccount ==
  ASSUME IInv, UNCHANGED <<store, ghostVars, work, spill, scan, up,
                           recovering>>,
         timers' \subseteq timers,
         pc # "typed", processingID' \in {processingID, NoJob}
  PROVE  AccountInv'
<1> SUFFICES ASSUME NEW j \in Jobs PROVE Account(j)'
  BY DEF AccountInv
<1>1. ~InFlight(j) => ~InFlight(j)'
  BY DEF InFlight, Jobs, NoJob
<1>2. Account(j)
  BY DEF IInv, AccountInv
<1> QED
  BY <1>1, <1>2, AccountFrame DEF ghostVars

(* The worker types a text only for an owed job, and records the flag      *)
(* first.                                                                  *)
LEMMA WorkerAccount ==
  ASSUME IInv, Dequeue \/ WorkerStep PROVE AccountInv' /\ StageInv'
<1> DEFINE p == processingID
<1> USE DEF Alive, Serving, ghostVars
<1>t. TypeOK /\ StageInv /\ QueueTypeOK /\ WorkerTypeOK /\ StoreTypeOK
      /\ HistoryTypeOK
  BY DEF IInv, TypeOK
<1>p. pc # "idle" => p \in Jobs /\ Account(p) /\ InFlight(p)
  BY <1>t DEF WorkerTypeOK, IInv, AccountInv, InFlight
<1>stage. ASSUME NEW s \in JobStatus, NEW rec \in Job, SaveStage(s, rec),
                 pc \in BeforeTyped, Alive,
                 pc' \in {"asr", "clean", "format", "delivering"},
                 pc' = "delivering" => s = "delivering",
                 UNCHANGED <<queueVars, processingID, lifeVars, ghostVars>>
          PROVE  AccountInv' /\ StageInv'
  <2>1. p \in Jobs /\ Owed(p) /\ pc # "typed"
    BY <1>stage, <1>p, <1>t DEF StageInv, BeforeTyped
  <2>2. \A j \in Jobs \ {p} : store'[j] = store[j]
    BY <1>stage, <1>t DEF SaveStage, Save, StoreTypeOK
  <2>3. AccountInv'
    BY <1>stage, <2>1, <2>2, StageAccount DEF queueVars, lifeVars
  <2>4. job'.status = s
    BY <1>stage DEF SaveStage, Job
  <2>5. StageInv'
    BY <1>stage, <2>1, <2>4 DEF StageInv, Owed, ghostVars, lifeVars
  <2> QED
    BY <2>3, <2>5
<1>1. CASE Dequeue
  <2>1. pc = "idle" /\ pc' = "load" /\ Alive /\ up' = up
        /\ processingID' = work[1] /\ 1 \in DOMAIN work
        /\ work' = Tail(work)
    BY <1>1, <1>t DEF Dequeue, QueueTypeOK, lifeVars
  <2>2. ASSUME NEW j \in Jobs, ~InFlight(j) PROVE ~InFlight(j)'
    <3>1. processingID' # j
      BY <2>1, <2>2 DEF InFlight
    <3>2. ASSUME NEW i \in DOMAIN work', work'[i] = j PROVE FALSE
      <4>1. i + 1 \in DOMAIN work /\ work'[i] = work[i + 1]
        BY <2>1, <3>2, <1>t DEF QueueTypeOK
      <4> QED
        BY <4>1, <3>2, <2>2 DEF InFlight
    <3> QED
      BY <1>1, <2>2, <3>1, <3>2 DEF InFlight, Dequeue
  <2>3. AccountInv'
    <3> SUFFICES ASSUME NEW j \in Jobs PROVE Account(j)'
      BY DEF AccountInv
    <3>1. store' = store /\ inserted' = inserted /\ retries' = retries
      BY <1>1 DEF Dequeue, storeVars, ghostVars
    <3>2. Account(j)
      BY DEF IInv, AccountInv
    <3> QED
      BY <2>1, <2>2, <3>1, <3>2, AccountFrame
  <2>4. StageInv'
    BY <2>1 DEF StageInv, BeforeTyped
  <2> QED
    BY <2>3, <2>4
<1>2. CASE Load
  <2>1. pc = "load" /\ UNCHANGED <<store, ghostVars, processingID, up>>
        /\ Alive
    BY <1>2 DEF Load, storeVars, lifeVars
  <2>2. AccountInv'
    BY <1>2, <2>1, QuietAccount DEF Load, queueVars, lifeVars
  <2>3. ~SkipsJob(p) => Owed(p)
    BY <2>1, <1>p DEF SkipsJob, Exists, NoFile, Account, Settled
  <2>4. pc' \in {"done", "cancel", "loaded"}
        /\ (pc' # "done" => ~SkipsJob(p))
    BY <1>2 DEF Load
  <2>5. StageInv'
    BY <2>1, <2>3, <2>4 DEF StageInv, Owed, ghostVars, BeforeTyped
  <2> QED
    BY <2>2, <2>5
<1>3. CASE Transcribe
  BY <1>3, <1>t, <1>stage DEF Transcribe, WorkerTypeOK, JobStatus, BeforeTyped
<1>4. CASE SkipTranscribe
  BY <1>4, <1>t, <1>stage
     DEF SkipTranscribe, WorkerTypeOK, JobStatus, BeforeTyped
<1>5. CASE AsrAnswers
  <2>1. [job EXCEPT !.transcript = TRUE] \in Job
    BY <1>t, JobUpdate DEF WorkerTypeOK, JobStatus
  <2> QED
    BY <1>5, <1>stage, <2>1 DEF AsrAnswers, JobStatus, BeforeTyped
<1>done. ASSUME NEW rec, Save(p, rec), pc \in BeforeTyped, Alive,
                pc' \in {"done", "discard"},
                UNCHANGED <<work, spill, scan, processingID, lifeVars,
                            inserted, retries>>,
                \A t \in timers' : t \in timers \/ t[1] = p
         PROVE  AccountInv' /\ StageInv'
  <2>1. p \in Jobs /\ Owed(p) /\ pc # "typed"
    BY <1>done, <1>p, <1>t DEF StageInv, BeforeTyped
  <2>2. \A j \in Jobs \ {p} : store'[j] = store[j]
    BY <1>done, <1>t DEF Save, StoreTypeOK
  <2>3. AccountInv'
    BY <1>done, <2>1, <2>2, StageAccount DEF lifeVars
  <2>4. StageInv'
    BY <1>done DEF StageInv, BeforeTyped, lifeVars
  <2> QED
    BY <2>3, <2>4
<1>6. CASE AsrFailsRetryable
  BY <1>6, <1>done DEF AsrFailsRetryable, BeforeTyped
<1>7. CASE AsrFailsForGood
  BY <1>7, <1>done DEF AsrFailsForGood, BeforeTyped, queueVars
<1>8. CASE CleanAnswers
  <2>1. [job EXCEPT !.eligible = job.long] \in Job
    BY <1>t, JobUpdate DEF WorkerTypeOK, JobStatus, Job
  <2>2. [[job EXCEPT !.eligible = job.long] EXCEPT !.final = TRUE] \in Job
    BY <2>1, JobUpdate DEF JobStatus
  <2>3. CASE job.long
    BY <1>8, <1>stage, <2>1, <2>3 DEF CleanAnswers, JobStatus, BeforeTyped
  <2>4. CASE ~job.long
    BY <1>8, <1>stage, <2>2, <2>4 DEF CleanAnswers, JobStatus, BeforeTyped
  <2> QED
    BY <2>3, <2>4
<1>9. CASE FormatAnswers
  <2>1. [job EXCEPT !.final = TRUE] \in Job
    BY <1>t, JobUpdate DEF WorkerTypeOK, JobStatus
  <2> QED
    BY <1>9, <1>stage, <2>1 DEF FormatAnswers, JobStatus, BeforeTyped
<1>10. CASE MarkAttempted
  <2>1. pc = "delivering" /\ p \in Jobs /\ Owed(p) /\ Alive
        /\ job.status = "delivering"
    BY <1>10, <1>t, <1>p DEF MarkAttempted, StageInv, BeforeTyped
  <2>2. /\ store'[p] = [job EXCEPT !.attempted = TRUE]
        /\ \A j \in Jobs \ {p} : store'[j] = store[j]
    BY <1>10, <1>t, <2>1 DEF MarkAttempted, Save, StoreTypeOK
  <2>3. store'[p].status = "delivering" /\ store'[p].attempted
    BY <2>1, <2>2, <1>t DEF WorkerTypeOK, Job
  <2>4. AccountInv'
    BY <1>10, <2>1, <2>2, StageAccount DEF MarkAttempted, queueVars, lifeVars
  <2>5. StageInv'
    BY <1>10, <2>1, <2>3
       DEF MarkAttempted, StageInv, Owed, ghostVars, lifeVars
  <2> QED
    BY <2>4, <2>5
<1>11. CASE TypeText
  <2>1. pc = "typing" /\ pc' = "typed" /\ p \in Jobs /\ Owed(p) /\ Alive
        /\ UNCHANGED <<store, processingID, retries, up>>
    BY <1>11, <1>t, <1>p
       DEF TypeText, StageInv, BeforeTyped, storeVars, lifeVars
  <2>2. /\ inserted'[p] = inserted[p] + 1
        /\ \A j \in Jobs \ {p} : inserted'[j] = inserted[j]
    BY <1>11, <2>1, <1>t DEF TypeText, HistoryTypeOK
  <2>3. Account(p)'
    <3>1. CASE inserted[p] = retries[p]
      <4>1. \/ store'[p].status = "delivering" /\ store'[p].attempted
            \/ store'[p].status \in {"cancelled", "deleted"}
        BY <2>1, <3>1, <1>t DEF StageInv
      <4>2. Settled(p)'
        BY <2>1, <4>1 DEF Settled
      <4> QED
        BY <2>1, <2>2, <3>1, <4>2 DEF Account
    <3>2. CASE inserted[p] # retries[p]
      BY <2>1, <2>2, <3>2, <1>t DEF Account, Owed, HistoryTypeOK
    <3> QED
      BY <3>1, <3>2
  <2>4. ASSUME NEW j \in Jobs, j # p PROVE Account(j)'
    <3>1. ~InFlight(j) => ~InFlight(j)'
      BY <1>11 DEF TypeText, InFlight, queueVars
    <3>2. Account(j)
      BY DEF IInv, AccountInv
    <3> QED
      BY <2>1, <2>2, <2>4, <3>1, <3>2, AccountFrame
  <2>5. StageInv'
    BY <2>1 DEF StageInv, BeforeTyped
  <2> QED
    BY <2>1, <2>3, <2>4, <2>5 DEF AccountInv
<1>12. CASE DeliverFails
  <2>1. pc = "typing" /\ pc' = "untyped" /\ Owed(p) /\ Alive
        /\ UNCHANGED <<store, processingID, ghostVars, up>>
    BY <1>12, <1>t DEF DeliverFails, StageInv, BeforeTyped, storeVars, lifeVars
  <2>2. AccountInv'
    BY <1>12, <2>1, QuietAccount DEF DeliverFails, queueVars, lifeVars
  <2>3. StageInv'
    BY <2>1 DEF StageInv, Owed, ghostVars
  <2> QED
    BY <2>2, <2>3
<1>13. CASE RecordDelivered
  <2>1. pc = "typed" /\ pc' = "done" /\ p \in Jobs /\ Account(p) /\ Alive
        /\ UNCHANGED <<processingID, inserted, retries, up>>
    BY <1>13, <1>p DEF RecordDelivered, ghostVars, lifeVars
  <2>2. /\ store'[p].status = "delivered"
        /\ \A j \in Jobs \ {p} : store'[j] = store[j]
    BY <1>13, <1>t, <2>1
       DEF RecordDelivered, Save, StoreTypeOK, WorkerTypeOK, Job
  <2>3. Account(p)'
    BY <2>1, <2>2 DEF Account, Owed, Settled
  <2>4. ASSUME NEW j \in Jobs, j # p PROVE Account(j)'
    <3>1. ~InFlight(j) => ~InFlight(j)'
      BY <1>13 DEF RecordDelivered, InFlight, queueVars
    <3>2. Account(j)
      BY DEF IInv, AccountInv
    <3> QED
      BY <2>1, <2>2, <2>4, <3>1, <3>2, AccountFrame
  <2>5. StageInv'
    BY <2>1 DEF StageInv, BeforeTyped
  <2> QED
    BY <2>1, <2>3, <2>4, <2>5 DEF AccountInv
<1>14. CASE RecordUndelivered
  BY <1>14, <1>done DEF RecordUndelivered, BeforeTyped, queueVars
<1>15. CASE CancelledProcessing
  BY <1>15, <1>done DEF CancelledProcessing, BeforeTyped, queueVars
<1>16. CASE DiscardAudio
  <2>1. AccountInv'
    BY <1>16, QuietAccount DEF DiscardAudio, queueVars, lifeVars
  <2>2. StageInv'
    BY <1>16 DEF DiscardAudio, StageInv, BeforeTyped, lifeVars
  <2> QED
    BY <2>1, <2>2
<1>17. CASE Finish
  <2>1. AccountInv'
    BY <1>17, QuietAccount DEF Finish, queueVars, lifeVars, storeVars
  <2>2. StageInv'
    BY <1>17 DEF Finish, StageInv, BeforeTyped, lifeVars
  <2> QED
    BY <2>1, <2>2
<1> QED
  BY <1>1, <1>2, <1>3, <1>4, <1>5, <1>6, <1>7, <1>8, <1>9, <1>10, <1>11,
     <1>12, <1>13, <1>14, <1>15, <1>16, <1>17 DEF WorkerStep

(* No other step of the pipeline lets a settled job be typed again.        *)
LEMMA StepAccount ==
  ASSUME IInv, PipelineStep PROVE AccountInv' /\ StageInv'
<1> USE DEF Alive, Serving
<1>t. TypeOK /\ StageInv /\ AccountInv /\ QueueTypeOK /\ WorkerTypeOK
      /\ StoreTypeOK /\ HistoryTypeOK
  BY DEF IInv, TypeOK
<1>1. CASE Dequeue \/ WorkerStep
  BY <1>1, WorkerAccount
<1>frame. ASSUME UNCHANGED <<store, processingID, pc, ghostVars>>,
                 ~Alive => UNCHANGED <<up, recovering>>,
                 \A j \in Jobs :
                   store[j].status \in {"failed", "delivering"} /\ ~InFlight(j)
                     => ~InFlight(j)'
          PROVE  AccountInv'
  <2> SUFFICES ASSUME NEW j \in Jobs PROVE Account(j)'
    BY DEF AccountInv
  <2>1. Account(j)
    BY <1>t DEF AccountInv
  <2> QED
    BY <1>frame, <2>1, AccountFrame DEF ghostVars
<1>stages. ASSUME UNCHANGED <<store, workerVars, ghostVars>>,
                  ~Alive' => ~Alive
           PROVE  StageInv'
  BY <1>stages, <1>t DEF StageInv, Owed, workerVars, ghostVars
<1>2. ASSUME NEW j \in Jobs, SpillSends(j) PROVE AccountInv' /\ StageInv'
  <2>1. InFlight(j) /\ work' = Append(work, j)
        /\ \A k \in Jobs : k # j => spill'[k] = spill[k]
    BY <1>2, <1>t DEF SpillSends, InFlight, QueueTypeOK
  <2>2. ASSUME NEW k \in Jobs, ~InFlight(k) PROVE ~InFlight(k)'
    <3>1. k # j
      BY <2>1, <2>2
    <3>2. ASSUME NEW i \in DOMAIN work', work'[i] = k PROVE FALSE
      <4>1. i \in DOMAIN work /\ work[i] = k
        BY <2>1, <3>1, <3>2, <1>t DEF QueueTypeOK
      <4> QED
        BY <4>1, <2>2 DEF InFlight
    <3> QED
      BY <1>2, <2>1, <2>2, <3>1, <3>2
         DEF InFlight, SpillSends, workerVars
  <2> QED
    BY <1>2, <1>frame, <1>stages, <2>2
       DEF SpillSends, storeVars, workerVars, lifeVars
<1>3. ASSUME NEW j \in Jobs, BackoffElapses(j) PROVE AccountInv' /\ StageInv'
  <2>1. \A k \in Jobs : ~InFlight(k) => ~InFlight(k)'
    BY <1>3 DEF BackoffElapses, InFlight, workerVars
  <2> QED
    BY <1>3, <1>frame, <1>stages, <2>1
       DEF BackoffElapses, storeVars, workerVars, lifeVars
<1>4. ASSUME NEW j \in Jobs, RecoveryEnqueue(j)
      PROVE  AccountInv' /\ StageInv'
  <2>1. InFlight(j)
    BY <1>4 DEF RecoveryEnqueue, IsNewest, InFlight
  <2>2. \A k \in Jobs : ~InFlight(k) => ~InFlight(k)'
    BY <1>4, <1>t, <2>1, EnqueueInFlight DEF RecoveryEnqueue, workerVars
  <2> QED
    BY <1>4, <1>frame, <1>stages, <2>2
       DEF RecoveryEnqueue, storeVars, workerVars, lifeVars
<1>5. CASE RetryTimer
  <2>1. PICK t \in timers : TimerFires(t[1], t[2])
    BY <1>5 DEF RetryTimer
  <2>2. t[1] \in Jobs /\ InFlight(t[1])
    BY <2>1, <1>t DEF QueueTypeOK, InFlight
  <2>3. \A k \in Jobs : ~InFlight(k) => ~InFlight(k)'
    BY <1>t, <2>1, <2>2, EnqueueInFlight DEF TimerFires, workerVars
  <2> QED
    BY <2>1, <1>frame, <1>stages, <2>3
       DEF TimerFires, storeVars, workerVars, lifeVars
<1>6. CASE RecoveryTick
  <2>1. \A k \in Jobs :
          store[k].status \in {"failed", "delivering"} /\ ~InFlight(k)
            => ~InFlight(k)'
    BY <1>6 DEF RecoveryTick, DueJobs, InFlight, workerVars
  <2> QED
    BY <1>6, <1>frame, <1>stages, <2>1
       DEF RecoveryTick, storeVars, workerVars, lifeVars
<1>7. ASSUME NEW j \in Jobs, RetryRead(j) PROVE AccountInv' /\ StageInv'
  <2>1. \A k \in Jobs : ~InFlight(k) => ~InFlight(k)'
    BY <1>7 DEF RetryRead, InFlight, queueVars, workerVars
  <2> QED
    BY <1>7, <1>frame, <1>stages, <2>1
       DEF RetryRead, storeVars, workerVars, lifeVars
<1>8. CASE RetrySave
  <2> DEFINE r == lifecycleMu.id
  <2>1. r \in Jobs /\ Enqueue(r)
    BY <1>8, <1>t DEF RetrySave, TypeOK, LockTypeOK, LockOps
  <2>2. /\ \A j \in Jobs \ {r} : store'[j] = store[j]
        /\ inserted' = inserted /\ retries'[r] = retries[r] + 1
        /\ \A j \in Jobs \ {r} : retries'[j] = retries[j]
        /\ UNCHANGED <<workerVars, timers, scan, up, recovering>>
        /\ Alive
    BY <1>8, <1>t, <2>1
       DEF RetrySave, Save, StoreTypeOK, HistoryTypeOK, lifeVars
  <2>3. inserted'[r] <= retries'[r]
    BY <1>t, <2>1, <2>2 DEF AccountInv, Account, Owed, HistoryTypeOK
  <2>4. ASSUME NEW j \in Jobs PROVE Account(j)'
    <3>1. CASE j = r
      BY <2>3, <3>1 DEF Account, Owed
    <3>2. CASE j # r
      <4>1. ~InFlight(j) => ~InFlight(j)'
        BY <1>t, <2>1, <2>2, <3>2, EnqueueOther DEF InFlight, workerVars
      <4> QED
        BY <1>t, <2>2, <3>2, <4>1, AccountFrame DEF AccountInv, workerVars
    <3> QED
      BY <3>1, <3>2
  <2>5. StageInv'
    <3>1. processingID' = processingID /\ pc' = pc /\ job' = job
      BY <2>2 DEF workerVars
    <3>2. CASE processingID = r
      BY <1>t, <2>1, <2>2, <2>3, <3>1, <3>2
         DEF StageInv, Owed, HistoryTypeOK, BeforeTyped
    <3>3. CASE processingID # r
      BY <1>t, <2>2, <3>1, <3>3 DEF StageInv, Owed, WorkerTypeOK, BeforeTyped
    <3> QED
      BY <3>2, <3>3
  <2> QED
    BY <2>4, <2>5 DEF AccountInv
<1>9. CASE Sigterm
  <2>1. \A k \in Jobs : ~InFlight(k) => ~InFlight(k)'
    BY <1>9 DEF Sigterm, InFlight, queueVars, workerVars
  <2> QED
    BY <1>9, <1>frame, <1>stages, <2>1 DEF Sigterm, storeVars, workerVars
<1>end. ASSUME LoseMemory, up' = "down", UNCHANGED <<store, ghostVars>>
        PROVE  AccountInv' /\ StageInv'
  <2>1. ASSUME NEW j \in Jobs PROVE ~InFlight(j)'
    BY <1>end DEF LoseMemory, InFlight, Jobs, NoJob
  <2>2. ASSUME NEW j \in Jobs PROVE Account(j)'
    <3>1. Settled(j) => Settled(j)'
      BY <1>end, <2>1 DEF Settled
    <3> QED
      BY <1>end, <1>t, <3>1 DEF AccountInv, Account, Owed, ghostVars
  <2>3. StageInv'
    BY <1>end DEF StageInv, LoseMemory, BeforeTyped
  <2> QED
    BY <2>2, <2>3 DEF AccountInv
<1>10. CASE Exit
  BY <1>10, <1>end DEF Exit, storeVars
<1>11. CASE Crash
  BY <1>11, <1>end DEF Crash, storeVars
<1>12. CASE Restart
  <2>1. ASSUME NEW j \in Jobs PROVE InFlight(j)' <=> InFlight(j)
    BY <1>12 DEF Restart, InFlight, queueVars, workerVars
  <2>2. ASSUME NEW j \in Jobs, Settled(j) PROVE Settled(j)'
    BY <1>12, <2>1, <2>2
       DEF Restart, Settled, Listed, Exists, NoFile, storeVars, workerVars
  <2>3. AccountInv'
    BY <1>12, <1>t, <2>2 DEF Restart, AccountInv, Account, Owed, ghostVars
  <2>4. StageInv'
    BY <1>12, <1>t DEF Restart, StageInv, workerVars, BeforeTyped
  <2> QED
    BY <2>3, <2>4
<1>13. ASSUME NEW j \in Jobs, RecoverJob(j) PROVE AccountInv' /\ StageInv'
  <2>1. /\ store'[j].status = RecoveredStatus(j)
        /\ \A k \in Jobs \ {j} : store'[k] = store[k]
        /\ UNCHANGED <<workerVars, timers, scan, up, ghostVars>>
        /\ recovering' = recovering \ {j} /\ up = "recovering"
    BY <1>13, <1>t DEF RecoverJob, Save, StoreTypeOK, Job
  <2>2. ASSUME NEW k \in Jobs, k # j PROVE ~InFlight(k) => ~InFlight(k)'
    <3>1. CASE Enqueue(j)
      BY <1>t, <2>1, <2>2, <3>1, EnqueueOther DEF InFlight, workerVars
    <3>2. CASE UNCHANGED <<work, spill>>
      BY <2>1, <3>2 DEF InFlight, workerVars
    <3> QED
      BY <1>13, <3>1, <3>2 DEF RecoverJob
  <2>3. ASSUME NEW k \in Jobs, k # j, Settled(k) PROVE Settled(k)'
    BY <2>1, <2>2, <2>3 DEF Settled, workerVars
  <2>4. ASSUME Settled(j) PROVE Settled(j)'
    <3>1. pc = "idle"
      BY <1>t, <2>1 DEF StageInv
    <3>2. CASE store[j].status \in {"delivered", "cancelled", "deleted"}
      BY <2>1, <3>2 DEF Settled, RecoveredStatus
    <3>3. CASE store[j].status \in {"delivering", "failed"}
      <4>1. /\ store[j].status = "delivering" => store[j].attempted
            /\ ~InFlight(j)
        BY <2>4, <3>1, <3>3 DEF Settled
      <4>2. RecoveredStatus(j) = "failed"
        BY <3>3, <4>1 DEF RecoveredStatus
      <4>3. ~InFlight(j)'
        BY <1>13, <2>1, <4>1, <4>2 DEF RecoverJob, InFlight, workerVars
      <4> QED
        BY <2>1, <4>2, <4>3 DEF Settled
    <3> QED
      BY <2>4, <3>2, <3>3 DEF Settled
  <2>5. AccountInv'
    BY <1>t, <2>1, <2>3, <2>4 DEF AccountInv, Account, Owed, ghostVars
  <2>6. StageInv'
    BY <1>t, <2>1 DEF StageInv, workerVars, BeforeTyped
  <2> QED
    BY <2>5, <2>6
<1>14. CASE Serve
  <2>1. \A k \in Jobs : InFlight(k)' <=> InFlight(k)
    BY <1>14 DEF Serve, InFlight, queueVars, workerVars
  <2>2. ASSUME NEW j \in Jobs, Settled(j) PROVE Settled(j)'
    BY <1>14, <2>1, <2>2 DEF Serve, Settled, storeVars, workerVars
  <2>3. AccountInv'
    BY <1>14, <1>t, <2>2 DEF Serve, AccountInv, Account, Owed, ghostVars
  <2>4. StageInv'
    BY <1>14, <1>t DEF Serve, StageInv, workerVars, BeforeTyped
  <2> QED
    BY <2>3, <2>4
<1>15. CASE ShowReady
  <2>1. \A k \in Jobs : ~InFlight(k) => ~InFlight(k)'
    BY <1>15 DEF ShowReady, InFlight, queueVars, workerVars
  <2> QED
    BY <1>15, <1>frame, <1>stages, <2>1
       DEF ShowReady, storeVars, workerVars, lifeVars
<1> QED
  BY PipelineStep, <1>1, <1>2, <1>3, <1>4, <1>5, <1>6, <1>7, <1>8, <1>9,
     <1>10, <1>11, <1>12, <1>13, <1>14, <1>15 DEF PipelineStep

(* A new recording is owed one insertion: none of it has been typed.       *)
LEMMA SubmitAccount ==
  ASSUME IInv, NEW j \in Jobs, Submit(j) PROVE AccountInv' /\ StageInv'
<1>1. /\ store[j].status = "absent"
      /\ \A k \in Jobs \ {j} : store'[k] = store[k]
      /\ UNCHANGED <<workerVars, timers, scan, up, recovering, ghostVars>>
      /\ up = "running"
  BY DEF Submit, Save, Serving, IInv, TypeOK, StoreTypeOK, lifeVars
<1>2. ASSUME NEW k \in Jobs PROVE Account(k)'
  <2>1. CASE k = j
    BY <1>1, <2>1 DEF IInv, AccountInv, Account, Owed, Settled, ghostVars
  <2>2. CASE k # j
    <3>1. ~InFlight(k) => ~InFlight(k)'
      BY <1>1, <2>2, EnqueueOther
         DEF Submit, IInv, TypeOK, InFlight, workerVars
    <3> QED
      BY <1>1, <2>2, <3>1, AccountFrame
         DEF IInv, AccountInv, workerVars, ghostVars, Alive
  <2> QED
    BY <2>1, <2>2
<1>3. StageInv'
  <2>1. StageInv /\ WorkerTypeOK
    BY DEF IInv, TypeOK
  <2>2. pc = "typing" /\ inserted[processingID] = retries[processingID]
          => processingID # j
    BY <1>1, <2>1 DEF StageInv
  <2> QED
    BY <1>1, <2>1, <2>2
       DEF StageInv, Owed, WorkerTypeOK, workerVars, ghostVars, Alive,
           BeforeTyped
<1> QED
  BY <1>2, <1>3 DEF AccountInv

(* IInv is inductive. *)
THEOREM Accounted == PipelineSpec => []IInv
<1>1. PipelineInit => IInv
  <2> SUFFICES ASSUME PipelineInit PROVE IInv
    OBVIOUS
  <2>1. TypeOK
    BY InitType
  <2>2. AccountInv /\ StageInv
    BY DEF PipelineInit, AccountInv, Account, Owed, StageInv, BeforeTyped
  <2> QED
    BY <2>1, <2>2 DEF IInv
<1>2. IInv /\ [PipelineNext]_pipelineVars => IInv'
  <2> SUFFICES ASSUME IInv, [PipelineNext]_pipelineVars PROVE IInv'
    OBVIOUS
  <2>1. CASE PipelineStep
    BY <2>1, StepType, StepAccount DEF IInv
  <2>2. CASE \E j \in Jobs : Submit(j)
    BY <2>2, SubmitType, SubmitAccount DEF IInv
  <2>3. CASE SubmitShown \/ UNCHANGED pipelineVars
    <3> DEFINE Kept == UNCHANGED <<storeVars, queueVars, workerVars,
                                   lifeVars, ghostVars>>
    <3>1. TypeOK' /\ Kept
      BY <2>3, TypeFrame, ShownType
         DEF SubmitShown, pipelineVars, IInv, TypeOK
    <3>2. \A j \in Jobs : InFlight(j)' <=> InFlight(j)
      BY <3>1 DEF queueVars, workerVars, InFlight
    <3>3. AccountInv'
      BY <3>1, <3>2 DEF IInv, AccountInv, Account, Owed, Settled,
         storeVars, workerVars, lifeVars, ghostVars
    <3>4. StageInv'
      BY <3>1 DEF IInv, StageInv, Owed, Alive, storeVars, workerVars,
         lifeVars, ghostVars
    <3> QED
      BY <3>1, <3>3, <3>4 DEF IInv
  <2> QED
    BY <2>1, <2>2, <2>3 DEF PipelineNext
<1> QED
  BY <1>1, <1>2, PTL DEF PipelineSpec

(* However often ids are duplicated in the channel, the daemon crashes or  *)
(* is restarted, and wherever a Retry falls: a text is typed in full once, *)
(* and once more per Retry at most.                                        *)
THEOREM TypedOnce == PipelineSpec => []InsertedOnce
<1>1. IInv => InsertedOnce
  BY DEF IInv, AccountInv, Account, Owed, TypeOK, HistoryTypeOK, InsertedOnce
<1> QED
  BY <1>1, Accounted, PTL

-----------------------------------------------------------------------------
(* What the pipeline reports.                                              *)

(* The insertion a delivery reports is counted before the record says so.  *)
TypedInv == /\ DeliveredWasTyped
            /\ pc = "typed" => inserted[processingID] > 0

Finished(j) == store[j].status \in {"delivered", "cancelled"}

(* What the worker is processing has not been finished by somebody else.   *)
OpenInv == pc \notin {"idle", "load", "done", "discard"}
             => ~Finished(processingID)

(* FinishedStays, as a relation between two states.                        *)
KeepsFinished == \A j \in Jobs :
  Finished(j) => store'[j] = store[j] \/ retries'[j] > retries[j]
-----------------------------------------------------------------------------
(* A Save of a record that is not delivered, by a step that types nothing. *)
LEMMA TypedFrame ==
  ASSUME StoreTypeOK, TypedInv, UNCHANGED inserted, pc' # "typed",
         NEW j \in Jobs, NEW rec, rec.status # "delivered", Save(j, rec)
  PROVE  TypedInv'
<1>1. \A k \in Jobs : store'[k] = IF k = j THEN rec ELSE store[k]
  BY DEF Save, StoreTypeOK
<1> QED
  BY <1>1 DEF TypedInv, DeliveredWasTyped

(* A step that leaves the records and the insertions alone.                *)
LEMMA TypedQuiet ==
  ASSUME TypedInv, UNCHANGED <<store, inserted>>,
         pc' = "typed" => pc = "typed" /\ processingID' = processingID
  PROVE  TypedInv'
BY DEF TypedInv, DeliveredWasTyped

LEMMA WorkerTyped ==
  ASSUME TypeOK, MarkInv, TypedInv, Dequeue \/ WorkerStep PROVE TypedInv'
<1> DEFINE p == processingID
<1>t. /\ StoreTypeOK /\ WorkerTypeOK /\ HistoryTypeOK
      /\ pc = "delivering" => job.status = "delivering"
  BY DEF TypeOK, MarkInv
<1>p. pc # "idle" => p \in Jobs
  BY <1>t DEF WorkerTypeOK
<1>stage. ASSUME NEW s \in JobStatus \ {"delivered"}, NEW rec \in Job,
                 SaveStage(s, rec), UNCHANGED inserted,
                 pc # "idle", pc' # "typed"
          PROVE  TypedInv'
  <2>1. Save(p, [rec EXCEPT !.status = s])
    BY <1>stage DEF SaveStage
  <2>2. [rec EXCEPT !.status = s].status # "delivered"
    BY <1>stage DEF Job
  <2> QED
    BY <1>stage, <1>t, <1>p, <2>1, <2>2, TypedFrame
<1>save. ASSUME NEW rec, rec.status # "delivered", Save(p, rec),
                UNCHANGED inserted, pc # "idle", pc' # "typed"
         PROVE  TypedInv'
  BY <1>save, <1>t, <1>p, TypedFrame
<1>j. job \in Job
  BY <1>t DEF WorkerTypeOK
<1>1. CASE Dequeue \/ Load \/ DeliverFails \/ DiscardAudio \/ Finish
  BY <1>1, TypedQuiet
     DEF Dequeue, Load, DeliverFails, DiscardAudio, Finish, storeVars,
         ghostVars
<1>2. CASE Transcribe
  BY <1>2, <1>j, <1>stage DEF Transcribe, ghostVars, JobStatus
<1>3. CASE SkipTranscribe
  BY <1>3, <1>j, <1>stage DEF SkipTranscribe, ghostVars, JobStatus
<1>4. CASE AsrAnswers
  <2>1. [job EXCEPT !.transcript = TRUE] \in Job
    BY <1>j DEF Job
  <2> QED
    BY <1>4, <2>1, <1>stage DEF AsrAnswers, ghostVars, JobStatus
<1>5. CASE AsrFailsRetryable
  <2> DEFINE rec == [job EXCEPT !.status = "retry_wait",
                                !.attempts = job.attempts + 1]
  <2>1. rec.status # "delivered"
    BY <1>j DEF Job
  <2>2. Save(p, rec) /\ UNCHANGED inserted /\ pc = "asr" /\ pc' = "done"
    BY <1>5 DEF AsrFailsRetryable, ghostVars
  <2> QED
    BY <2>1, <2>2, <1>save
<1>6. CASE AsrFailsForGood
  <2> DEFINE rec == [job EXCEPT !.status = "failed", !.attempts = @ + 1]
  <2>1. rec.status # "delivered"
    BY <1>j DEF Job
  <2>2. Save(p, rec) /\ UNCHANGED inserted /\ pc = "asr" /\ pc' = "done"
    BY <1>6 DEF AsrFailsForGood, ghostVars
  <2> QED
    BY <2>1, <2>2, <1>save
<1>7. CASE CleanAnswers
  <2> DEFINE cleaned == [job EXCEPT !.eligible = job.long]
             plain == [cleaned EXCEPT !.final = TRUE]
  <2>1. cleaned \in Job /\ plain \in Job
    BY <1>j DEF Job
  <2>2. \/ SaveStage("formatting", cleaned) /\ pc' = "format"
        \/ SaveStage("delivering", plain) /\ pc' = "delivering"
    BY <1>7 DEF CleanAnswers
  <2>3. UNCHANGED inserted /\ pc = "clean"
    BY <1>7 DEF CleanAnswers, ghostVars
  <2> HIDE DEF cleaned, plain
  <2> QED
    BY <2>1, <2>2, <2>3, <1>stage DEF JobStatus
<1>8. CASE FormatAnswers
  <2>1. [job EXCEPT !.final = TRUE] \in Job
    BY <1>j DEF Job
  <2> QED
    BY <1>8, <2>1, <1>stage DEF FormatAnswers, ghostVars, JobStatus
<1>9. CASE MarkAttempted
  <2>1. [job EXCEPT !.attempted = TRUE].status # "delivered"
    BY <1>9, <1>j, <1>t DEF Job, MarkAttempted
  <2> QED
    BY <1>9, <2>1, <1>save DEF MarkAttempted, ghostVars
<1>10. CASE TypeText
  <2>1. /\ inserted' = [inserted EXCEPT ![p] = @ + 1] /\ p \in Jobs
        /\ UNCHANGED <<store, processingID>> /\ pc = "typing"
    BY <1>10, <1>p DEF TypeText, storeVars
  <2>2. inserted'[p] > 0 /\ \A k \in Jobs : inserted'[k] >= inserted[k]
    BY <2>1, <1>t DEF HistoryTypeOK
  <2>3. \A k \in Jobs : inserted[k] \in Nat /\ inserted'[k] \in Nat
    BY <2>1, <1>t DEF HistoryTypeOK
  <2> QED
    BY <2>1, <2>2, <2>3 DEF TypedInv, DeliveredWasTyped
<1>11. CASE RecordDelivered
  <2>1. /\ p \in Jobs /\ inserted[p] > 0 /\ UNCHANGED inserted /\ pc' = "done"
        /\ \A k \in Jobs \ {p} : store'[k] = store[k]
    BY <1>11, <1>p, <1>t DEF RecordDelivered, TypedInv, Save, StoreTypeOK,
       ghostVars
  <2> QED
    BY <2>1 DEF TypedInv, DeliveredWasTyped
<1>12. CASE RecordUndelivered
  <2> DEFINE rec == [job EXCEPT !.status = "failed"]
  <2>1. rec.status # "delivered"
    BY <1>j DEF Job
  <2>2. Save(p, rec) /\ UNCHANGED inserted /\ pc = "untyped" /\ pc' = "done"
    BY <1>12 DEF RecordUndelivered, ghostVars
  <2> QED
    BY <2>1, <2>2, <1>save
<1>13. CASE CancelledProcessing
  <2> DEFINE rec == [job EXCEPT !.status = "cancelled"]
  <2>1. rec.status # "delivered"
    BY <1>j DEF Job
  <2>2. Save(p, rec) /\ UNCHANGED inserted /\ pc # "idle" /\ pc' = "discard"
    BY <1>13 DEF CancelledProcessing, ghostVars
  <2> QED
    BY <2>1, <2>2, <1>save
<1> QED
  BY <1>1, <1>2, <1>3, <1>4, <1>5, <1>6, <1>7, <1>8, <1>9, <1>10, <1>11,
     <1>12, <1>13 DEF WorkerStep

LEMMA StepTyped ==
  ASSUME TypeOK, MarkInv, TypedInv, PipelineStep PROVE TypedInv'
<1>t. StoreTypeOK /\ WorkerTypeOK /\ LockTypeOK
  BY DEF TypeOK
<1>1. CASE Dequeue \/ WorkerStep
  BY <1>1, WorkerTyped
<1>2. ASSUME NEW j \in Jobs,
             SpillSends(j) \/ BackoffElapses(j) \/ RetryRead(j)
               \/ RecoveryEnqueue(j)
      PROVE  TypedInv'
  BY <1>2, TypedQuiet
     DEF SpillSends, BackoffElapses, RetryRead, RecoveryEnqueue, storeVars,
         workerVars, ghostVars
<1>3. CASE RetryTimer
  BY <1>3, TypedQuiet DEF RetryTimer, TimerFires, storeVars, workerVars,
     ghostVars
<1>4. CASE RecoveryTick \/ Sigterm \/ Restart \/ Serve \/ ShowReady
  BY <1>4, TypedQuiet
     DEF RecoveryTick, Sigterm, Restart, Serve, ShowReady, storeVars,
         workerVars, ghostVars
<1>5. CASE Exit \/ Crash
  BY <1>5, TypedQuiet DEF Exit, Crash, LoseMemory, storeVars, ghostVars
<1>6. ASSUME NEW j \in Jobs, RecoverJob(j) PROVE TypedInv'
  <2>1. /\ \A k \in Jobs \ {j} : store'[k] = store[k]
        /\ store'[j].status = RecoveredStatus(j)
        /\ UNCHANGED <<inserted, pc, processingID>>
    BY <1>6, <1>t DEF RecoverJob, Save, StoreTypeOK, Job, workerVars,
       ghostVars
  <2>2. RecoveredStatus(j) = "delivered" => store[j].status = "delivered"
    BY DEF RecoveredStatus
  <2> QED
    BY <2>1, <2>2 DEF TypedInv, DeliveredWasTyped
<1>7. CASE RetrySave
  <2> DEFINE j == lifecycleMu.id
             rec == [lifecycleMu.job EXCEPT !.status = "queued",
                                            !.attempted = FALSE]
  <2>1. j \in Jobs /\ lifecycleMu.job \in Job
    BY <1>7, <1>t DEF RetrySave, LockTypeOK
  <2>2. rec.status = "queued"
    BY <2>1 DEF Job
  <2>3. Save(j, rec) /\ UNCHANGED <<inserted, pc, processingID>>
    BY <1>7 DEF RetrySave, workerVars
  <2>4. \A k \in Jobs : store'[k] = IF k = j THEN rec ELSE store[k]
    BY <2>1, <2>3, <1>t DEF Save, StoreTypeOK
  <2> QED
    BY <2>2, <2>3, <2>4 DEF TypedInv, DeliveredWasTyped
<1> QED
  BY PipelineStep, <1>1, <1>2, <1>3, <1>4, <1>5, <1>6, <1>7 DEF PipelineStep

LEMMA TypedAlways == PipelineSpec => []TypedInv
<1>1. PipelineInit => TypedInv
  BY DEF PipelineInit, StoreInit, Blank, TypedInv, DeliveredWasTyped
<1>2. IInv /\ TypedInv /\ [PipelineNext]_pipelineVars => TypedInv'
  <2> SUFFICES ASSUME IInv, TypedInv, [PipelineNext]_pipelineVars
               PROVE  TypedInv'
    OBVIOUS
  <2>1. CASE PipelineStep
    BY <2>1, StepTyped DEF IInv, StageInv, MarkInv
  <2>2. ASSUME NEW j \in Jobs, Submit(j) PROVE TypedInv'
    <3>1. StoreTypeOK /\ UNCHANGED <<inserted, pc, processingID>>
      BY <2>2 DEF IInv, TypeOK, Submit, workerVars, ghostVars
    <3>2. PICK long \in BOOLEAN :
            Save(j, [Blank("queued") EXCEPT !.long = long])
      BY <2>2 DEF Submit
    <3>3. /\ \A k \in Jobs \ {j} : store'[k] = store[k]
          /\ store'[j].status = "queued"
      BY <3>1, <3>2 DEF Save, StoreTypeOK, Blank
    <3> QED
      BY <3>1, <3>3 DEF TypedInv, DeliveredWasTyped
  <2>3. CASE SubmitShown \/ UNCHANGED pipelineVars
    BY <2>3, TypedQuiet
       DEF SubmitShown, pipelineVars, storeVars, workerVars, ghostVars
  <2> QED
    BY <2>1, <2>2, <2>3 DEF PipelineNext
<1> QED
  BY <1>1, <1>2, Accounted, PTL DEF PipelineSpec

(* History never claims a delivery that did not happen, for any number of  *)
(* dictations, Retries, crashes and restarts, whatever record was stale.   *)
THEOREM DeliveriesWereTyped == PipelineSpec => []DeliveredWasTyped
<1>1. TypedInv => DeliveredWasTyped
  BY DEF TypedInv
<1> QED
  BY <1>1, TypedAlways, PTL
-----------------------------------------------------------------------------
(* Only a stage of process() that has an open job writes a record.         *)
LEMMA WorkerFinished ==
  ASSUME IInv, OpenInv, Dequeue \/ WorkerStep PROVE OpenInv' /\ KeepsFinished
<1> DEFINE p == processingID
           Working == pc \notin {"idle", "load", "done", "discard"}
<1>t. StoreTypeOK /\ WorkerTypeOK
  BY DEF IInv, TypeOK
<1>j. job \in Job /\ (pc # "idle" => p \in Jobs)
  BY <1>t DEF WorkerTypeOK
<1>save. ASSUME NEW rec, Save(p, rec), Working, UNCHANGED processingID,
                \/ pc' \in {"done", "discard"}
                \/ rec.status \notin {"delivered", "cancelled"}
         PROVE  OpenInv' /\ KeepsFinished
  <2>1. ~Finished(p) /\ p \in Jobs
    BY <1>save, <1>j DEF OpenInv
  <2>2. \A k \in Jobs : store'[k] = IF k = p THEN rec ELSE store[k]
    BY <1>save, <1>t DEF Save, StoreTypeOK
  <2> QED
    BY <1>save, <2>1, <2>2 DEF OpenInv, KeepsFinished, Finished
<1>stage. ASSUME NEW s \in JobStatus \ {"delivered", "cancelled"},
                 NEW rec \in Job, SaveStage(s, rec), Working,
                 UNCHANGED processingID
          PROVE  OpenInv' /\ KeepsFinished
  <2>1. [rec EXCEPT !.status = s].status = s
    BY DEF Job
  <2> QED
    BY <1>stage, <2>1, <1>save DEF SaveStage
<1>1. CASE Dequeue \/ Load \/ DiscardAudio \/ Finish
  BY <1>1 DEF Dequeue, Load, SkipsJob, DiscardAudio, Finish, storeVars,
     OpenInv, KeepsFinished, Finished
<1>2. CASE TypeText \/ DeliverFails
  BY <1>2 DEF TypeText, DeliverFails, storeVars, OpenInv, KeepsFinished,
     Finished
<1>3. CASE Transcribe \/ SkipTranscribe
  BY <1>3, <1>j, <1>stage DEF Transcribe, SkipTranscribe, JobStatus
<1>4. CASE AsrAnswers
  <2>1. [job EXCEPT !.transcript = TRUE] \in Job
    BY <1>j DEF Job
  <2> QED
    BY <1>4, <2>1, <1>stage DEF AsrAnswers, JobStatus
<1>5. CASE AsrFailsRetryable \/ AsrFailsForGood
  BY <1>5, <1>save DEF AsrFailsRetryable, AsrFailsForGood
<1>6. CASE CleanAnswers
  <2> DEFINE cleaned == [job EXCEPT !.eligible = job.long]
             plain == [cleaned EXCEPT !.final = TRUE]
  <2>1. cleaned \in Job /\ plain \in Job
    BY <1>j DEF Job
  <2>2. /\ SaveStage("formatting", cleaned) \/ SaveStage("delivering", plain)
        /\ pc = "clean" /\ UNCHANGED processingID
    BY <1>6 DEF CleanAnswers
  <2> HIDE DEF cleaned, plain
  <2> QED
    BY <2>1, <2>2, <1>stage DEF JobStatus
<1>7. CASE FormatAnswers
  <2>1. [job EXCEPT !.final = TRUE] \in Job
    BY <1>j DEF Job
  <2> QED
    BY <1>7, <2>1, <1>stage DEF FormatAnswers, JobStatus
<1>8. CASE MarkAttempted
  <2>1. [job EXCEPT !.attempted = TRUE].status
          \notin {"delivered", "cancelled"}
    BY <1>8, <1>j DEF Job, MarkAttempted, IInv, StageInv
  <2> QED
    BY <1>8, <2>1, <1>save DEF MarkAttempted
<1>9. CASE RecordDelivered \/ RecordUndelivered \/ CancelledProcessing
  BY <1>9, <1>save DEF RecordDelivered, RecordUndelivered,
     CancelledProcessing
<1> QED
  BY <1>1, <1>2, <1>3, <1>4, <1>5, <1>6, <1>7, <1>8, <1>9 DEF WorkerStep

LEMMA NextFinished ==
  ASSUME IInv, OpenInv, [PipelineNext]_pipelineVars
  PROVE  OpenInv' /\ KeepsFinished
<1>t. StoreTypeOK /\ WorkerTypeOK /\ LockTypeOK /\ HistoryTypeOK
  BY DEF IInv, TypeOK
<1>p. pc # "idle" => processingID \in Jobs
  BY <1>t DEF WorkerTypeOK
<1>quiet. ASSUME UNCHANGED store,
                 UNCHANGED <<pc, processingID>> \/ pc' = "idle"
          PROVE  OpenInv' /\ KeepsFinished
  BY <1>quiet DEF OpenInv, KeepsFinished, Finished
<1>1. CASE Dequeue \/ WorkerStep
  BY <1>1, WorkerFinished
<1>2. ASSUME NEW j \in Jobs,
             SpillSends(j) \/ BackoffElapses(j) \/ RetryRead(j)
               \/ RecoveryEnqueue(j)
      PROVE  OpenInv' /\ KeepsFinished
  BY <1>2, <1>quiet
     DEF SpillSends, BackoffElapses, RetryRead, RecoveryEnqueue, storeVars,
         workerVars
<1>3. CASE RetryTimer \/ RecoveryTick \/ Sigterm \/ Restart \/ Serve
             \/ ShowReady \/ SubmitShown \/ UNCHANGED pipelineVars
  BY <1>3, <1>quiet
     DEF RetryTimer, TimerFires, RecoveryTick, Sigterm, Restart, Serve,
         ShowReady, SubmitShown, pipelineVars, storeVars, workerVars
<1>4. CASE Exit \/ Crash
  BY <1>4, <1>quiet DEF Exit, Crash, LoseMemory, storeVars
<1>5. ASSUME NEW j \in Jobs, RecoverJob(j) PROVE OpenInv' /\ KeepsFinished
  <2>1. pc = "idle" /\ pc' = "idle"
    BY <1>5 DEF RecoverJob, workerVars, IInv, StageInv, Alive
  <2>2. /\ \A k \in Jobs \ {j} : store'[k] = store[k]
        /\ store'[j] = [store[j] EXCEPT !.status = RecoveredStatus(j)]
    BY <1>5, <1>t DEF RecoverJob, Save, StoreTypeOK
  <2>3. Finished(j) => store'[j] = store[j]
    BY <2>2, <1>t DEF Finished, RecoveredStatus, StoreTypeOK, Job
  <2> QED
    BY <2>1, <2>2, <2>3 DEF OpenInv, KeepsFinished
<1>6. CASE RetrySave
  <2> DEFINE j == lifecycleMu.id
             rec == [lifecycleMu.job EXCEPT !.status = "queued",
                                            !.attempted = FALSE]
  <2>1. j \in Jobs /\ lifecycleMu.job \in Job
    BY <1>6, <1>t DEF RetrySave, LockTypeOK
  <2>2. rec.status = "queued"
    BY <2>1 DEF Job
  <2>3. /\ Save(j, rec) /\ UNCHANGED <<pc, processingID>>
        /\ retries' = [retries EXCEPT ![j] = @ + 1]
    BY <1>6 DEF RetrySave, workerVars
  <2>4. /\ \A k \in Jobs : store'[k] = IF k = j THEN rec ELSE store[k]
        /\ retries'[j] > retries[j]
    BY <2>1, <2>3, <1>t DEF Save, StoreTypeOK, HistoryTypeOK
  <2> QED
    BY <1>p, <2>2, <2>3, <2>4 DEF OpenInv, KeepsFinished, Finished
<1>7. ASSUME NEW j \in Jobs, Submit(j) PROVE OpenInv' /\ KeepsFinished
  <2>1. /\ store[j].status = "absent" /\ UNCHANGED <<pc, processingID>>
        /\ \E long \in BOOLEAN :
             Save(j, [Blank("queued") EXCEPT !.long = long])
    BY <1>7 DEF Submit, workerVars
  <2>2. /\ \A k \in Jobs \ {j} : store'[k] = store[k]
        /\ store'[j].status = "queued"
    BY <2>1, <1>t DEF Save, StoreTypeOK, Blank
  <2> QED
    BY <1>p, <2>1, <2>2 DEF OpenInv, KeepsFinished, Finished
<1> QED
  BY <1>1, <1>2, <1>3, <1>4, <1>5, <1>6, <1>7 DEF PipelineNext, PipelineStep

LEMMA OpenAlways ==
  PipelineSpec => []OpenInv /\ [][KeepsFinished]_pipelineVars
<1>1. PipelineInit => OpenInv
  BY DEF PipelineInit, OpenInv
<1>2. IInv /\ OpenInv /\ [PipelineNext]_pipelineVars
        => OpenInv' /\ [KeepsFinished]_pipelineVars
  BY NextFinished
<1> QED
  BY <1>1, <1>2, Accounted, PTL DEF PipelineSpec

(* Nothing but a Retry takes a delivered or cancelled job back: neither a  *)
(* duplicate id, a timer, the scan, nor recovery after any number of       *)
(* crashes.                                                                *)
THEOREM FinishedForGood == PipelineSpec => FinishedStays
<1>1. [KeepsFinished]_pipelineVars <=>
        [\A j \in Jobs : store[j].status \in {"delivered", "cancelled"} =>
           store'[j] = store[j] \/ (retries'[j] > retries[j])]_pipelineVars
  BY DEF KeepsFinished, Finished
<1> QED
  BY <1>1, OpenAlways, PTL DEF FinishedStays
-----------------------------------------------------------------------------
(* The pipeline implements Dictation: every step is a step of one          *)
(* dictation that the promise allows, or leaves all of them alone.         *)
Known(j) == Outcome[j] \notin NoFile

(* What the steps that write a record need to know of its outcome.         *)
OutcomeInv ==
  /\ pc \notin {"idle", "load", "done"} => Known(processingID)
  /\ pc \in {"typing", "typed"} => Outcome[processingID] = "pending"
  /\ lifecycleMu.op = "retry" => Known(lifecycleMu.id)

(* The pipeline deletes nothing: its steps are the other ones of the       *)
(* promise.                                                                *)
PromiseStep == [\E j \in Jobs : Promise!Advance(j)]_Promise!dictationVars
-----------------------------------------------------------------------------
LEMMA OutcomeOfValues ==
  /\ \A s \in {"queued", "transcribing", "cleaning", "formatting",
               "delivering", "retry_wait", "recording"} :
       OutcomeOf(s) = "pending"
  /\ \A s \in {"delivered", "failed", "cancelled"} : OutcomeOf(s) = s
  /\ \A s \in NoFile : OutcomeOf(s) = s
  /\ \A s \in JobStatus : OutcomeOf(s) \notin NoFile
BY DEF OutcomeOf, NoFile, JobStatus

(* A Save changes the outcome of its own job only.                         *)
LEMMA SaveOutcome ==
  ASSUME StoreTypeOK, NEW j \in Jobs, NEW rec, Save(j, rec)
  PROVE  Outcome' = [Outcome EXCEPT ![j] = OutcomeOf(rec.status)]
<1>1. \A k \in Jobs : store'[k] = IF k = j THEN rec ELSE store[k]
  BY DEF Save, StoreTypeOK
<1> QED
  BY <1>1 DEF Outcome

(* A step that leaves records, insertions and requests alone is none of    *)
(* the promise's.                                                          *)
LEMMA QuietPromise ==
  ASSUME UNCHANGED <<store, inserted, retries>> PROVE PromiseStep
BY DEF PromiseStep, Promise!dictationVars, Outcome

(* No step of the promise takes a deletion back.                           *)
LEMMA PromiseKeepsDeleted ==
  ASSUME StoreTypeOK, StoreTypeOK', [Promise!DictationNext]_Promise!dictationVars,
         NEW j \in Jobs, store[j].status = "deleted"
  PROVE  store'[j].status = "deleted"
<1>1. Outcome[j] = "deleted"
  BY OutcomeOfValues DEF Outcome, NoFile
<1>2. ASSUME NEW k \in Jobs, Promise!Advance(k) \/ Promise!Drop(k)
      PROVE  Outcome'[j] = "deleted"
  <2>1. \/ UNCHANGED Outcome
        \/ k # j /\ \E o \in Promise!Outcomes : Outcome' = [Outcome EXCEPT ![k] = o]
    BY <1>1, <1>2
    DEF Promise!Advance, Promise!Drop, Promise!Begin, Promise!Resume, Promise!Type,
      Promise!Deliver, Promise!GiveUp, Promise!Ask, Promise!Becomes, Promise!Outcomes
  <2>2. j \in DOMAIN Outcome
    BY DEF Outcome
  <2>3. QED BY <1>1, <2>1, <2>2
<1>3. UNCHANGED Promise!dictationVars => Outcome'[j] = "deleted"
  BY <1>1 DEF Promise!dictationVars
<1>4. Promise!DictationNext => Outcome'[j] = "deleted"
  BY <1>2 DEF Promise!DictationNext
<1>5. Outcome'[j] = "deleted"
  BY <1>3, <1>4
<1>6. store'[j].status \in JobStatus \cup NoFile
  BY DEF StoreTypeOK, Job
<1>7. QED BY <1>5, <1>6, OutcomeOfValues DEF Outcome, NoFile, JobStatus, OutcomeOf

(* A Save of an open dictation as pending: it was pending, or it is taken  *)
(* up again.                                                               *)
LEMMA SavePending ==
  ASSUME StoreTypeOK, NEW j \in Jobs, NEW rec, Save(j, rec),
         UNCHANGED <<inserted, retries>>, OutcomeOf(rec.status) = "pending",
         Outcome[j] \in {"pending", "failed"}, Owed(j)
  PROVE  PromiseStep
<1>1. Outcome' = [Outcome EXCEPT ![j] = "pending"]
  BY SaveOutcome
<1>2. CASE Outcome[j] = "failed"
  BY <1>1, <1>2 DEF PromiseStep, Promise!Advance, Promise!Resume,
     Promise!Becomes, Owed
<1>3. CASE Outcome[j] = "pending"
  BY <1>1, <1>3 DEF PromiseStep, Promise!dictationVars, Outcome
<1> QED
  BY <1>2, <1>3

(* A Save of an open dictation as failed or cancelled.                     *)
LEMMA SaveGivenUp ==
  ASSUME StoreTypeOK, NEW j \in Jobs, NEW rec, Save(j, rec),
         UNCHANGED <<inserted, retries>>,
         OutcomeOf(rec.status) \in {"failed", "cancelled"},
         Outcome[j] \in {"pending", "failed"}
  PROVE  PromiseStep
<1>1. Outcome' = [Outcome EXCEPT ![j] = OutcomeOf(rec.status)]
  BY SaveOutcome
<1> QED
  BY <1>1 DEF PromiseStep, Promise!Advance, Promise!GiveUp,
     Promise!Becomes
-----------------------------------------------------------------------------
LEMMA WorkerPromise ==
  ASSUME IInv, TypedInv, OpenInv, OutcomeInv, Dequeue \/ WorkerStep
  PROVE  PromiseStep
<1> DEFINE p == processingID
<1>t. StoreTypeOK /\ WorkerTypeOK /\ HistoryTypeOK
  BY DEF IInv, TypeOK
<1>p. job \in Job /\ (pc # "idle" => p \in Jobs)
  BY <1>t DEF WorkerTypeOK
<1>open. pc \notin {"idle", "load", "done", "discard"} =>
           p \in Jobs /\ Outcome[p] \in {"pending", "failed"}
  BY <1>p, <1>t, OutcomeOfValues DEF OpenInv, OutcomeInv, Known, NoFile,
     Finished, Outcome, OutcomeOf
<1>owed. pc \in BeforeTyped => Owed(p)
  BY DEF IInv, StageInv
<1>stage. ASSUME NEW s \in {"transcribing", "cleaning", "formatting",
                            "delivering"},
                 NEW rec \in Job, SaveStage(s, rec),
                 UNCHANGED <<inserted, retries>>,
                 pc \in {"loaded", "asr", "clean", "format"}
          PROVE  PromiseStep
  <2>1. Save(p, [rec EXCEPT !.status = s]) /\ pc \in BeforeTyped
    BY <1>stage DEF SaveStage, BeforeTyped
  <2>2. OutcomeOf([rec EXCEPT !.status = s].status) = "pending"
    BY <1>stage, OutcomeOfValues DEF Job
  <2> QED
    BY <1>stage, <1>t, <1>open, <1>owed, <2>1, <2>2, SavePending
<1>1. CASE Dequeue \/ Load \/ DeliverFails \/ DiscardAudio \/ Finish
  BY <1>1, QuietPromise
     DEF Dequeue, Load, DeliverFails, DiscardAudio, Finish, storeVars,
         ghostVars
<1>2. CASE Transcribe \/ SkipTranscribe
  BY <1>2, <1>p, <1>stage DEF Transcribe, SkipTranscribe, ghostVars
<1>3. CASE AsrAnswers
  <2>1. [job EXCEPT !.transcript = TRUE] \in Job
    BY <1>p DEF Job
  <2> QED
    BY <1>3, <2>1, <1>stage DEF AsrAnswers, ghostVars
<1>4. CASE AsrFailsRetryable
  <2> DEFINE rec == [job EXCEPT !.status = "retry_wait",
                                !.attempts = job.attempts + 1]
  <2>1. Save(p, rec) /\ UNCHANGED <<inserted, retries>> /\ pc = "asr"
    BY <1>4 DEF AsrFailsRetryable, ghostVars
  <2>2. rec.status = "retry_wait"
    BY <1>p DEF Job
  <2> HIDE DEF rec
  <2> QED
    BY <2>1, <2>2, <1>t, <1>open, <1>owed, SavePending, OutcomeOfValues
       DEF BeforeTyped
<1>5. CASE AsrFailsForGood
  <2> DEFINE rec == [job EXCEPT !.status = "failed", !.attempts = @ + 1]
  <2>1. Save(p, rec) /\ UNCHANGED <<inserted, retries>> /\ pc = "asr"
    BY <1>5 DEF AsrFailsForGood, ghostVars
  <2>2. rec.status = "failed"
    BY <1>p DEF Job
  <2> HIDE DEF rec
  <2> QED
    BY <2>1, <2>2, <1>t, <1>open, SaveGivenUp, OutcomeOfValues
<1>6. CASE CleanAnswers
  <2> DEFINE cleaned == [job EXCEPT !.eligible = job.long]
             plain == [cleaned EXCEPT !.final = TRUE]
  <2>1. cleaned \in Job /\ plain \in Job
    BY <1>p DEF Job
  <2>2. /\ SaveStage("formatting", cleaned) \/ SaveStage("delivering", plain)
        /\ pc = "clean" /\ UNCHANGED <<inserted, retries>>
    BY <1>6 DEF CleanAnswers, ghostVars
  <2> HIDE DEF cleaned, plain
  <2> QED
    BY <2>1, <2>2, <1>stage
<1>7. CASE FormatAnswers
  <2>1. [job EXCEPT !.final = TRUE] \in Job
    BY <1>p DEF Job
  <2> QED
    BY <1>7, <2>1, <1>stage DEF FormatAnswers, ghostVars
<1>8. CASE MarkAttempted
  <2> DEFINE rec == [job EXCEPT !.attempted = TRUE]
  <2>1. Save(p, rec) /\ UNCHANGED <<inserted, retries>> /\ pc = "delivering"
    BY <1>8 DEF MarkAttempted, ghostVars
  <2>2. rec.status = "delivering"
    BY <2>1, <1>p DEF Job, IInv, StageInv
  <2> HIDE DEF rec
  <2> QED
    BY <2>1, <2>2, <1>t, <1>open, <1>owed, SavePending, OutcomeOfValues
       DEF BeforeTyped
<1>9. CASE TypeText
  <2>1. /\ Outcome[p] = "pending" /\ Owed(p) /\ p \in Jobs
        /\ inserted' = [inserted EXCEPT ![p] = @ + 1]
        /\ UNCHANGED <<store, retries>>
    BY <1>9, <1>p, <1>owed DEF TypeText, OutcomeInv, BeforeTyped, storeVars
  <2>2. Outcome' = Outcome
    BY <2>1 DEF Outcome
  <2>3. Promise!Type(p)
    BY <2>1, <2>2 DEF Promise!Type, Owed
  <2> QED
    BY <2>1, <2>3 DEF PromiseStep, Promise!Advance
<1>10. CASE RecordDelivered
  <2> DEFINE rec == [job EXCEPT !.status = "delivered"]
  <2>1. /\ Save(p, rec) /\ UNCHANGED <<inserted, retries>>
        /\ Outcome[p] = "pending" /\ inserted[p] > 0 /\ p \in Jobs
    BY <1>10, <1>p DEF RecordDelivered, TypedInv, OutcomeInv, ghostVars
  <2>2. rec.status = "delivered"
    BY <1>p DEF Job
  <2> HIDE DEF rec
  <2>3. Outcome' = [Outcome EXCEPT ![p] = "delivered"]
    BY <2>1, <2>2, <1>t, SaveOutcome, OutcomeOfValues
  <2>4. Promise!Deliver(p)
    BY <2>1, <2>3 DEF Promise!Deliver, Promise!Becomes
  <2> QED
    BY <2>1, <2>4 DEF PromiseStep, Promise!Advance
<1>11. CASE RecordUndelivered
  <2> DEFINE rec == [job EXCEPT !.status = "failed"]
  <2>1. Save(p, rec) /\ UNCHANGED <<inserted, retries>> /\ pc = "untyped"
    BY <1>11 DEF RecordUndelivered, ghostVars
  <2>2. rec.status = "failed"
    BY <1>p DEF Job
  <2> HIDE DEF rec
  <2> QED
    BY <2>1, <2>2, <1>t, <1>open, SaveGivenUp, OutcomeOfValues
<1>12. CASE CancelledProcessing
  <2> DEFINE rec == [job EXCEPT !.status = "cancelled"]
  <2>1. /\ Save(p, rec) /\ UNCHANGED <<inserted, retries>>
        /\ pc \in {"cancel", "asr", "clean", "format", "delivering"}
    BY <1>12 DEF CancelledProcessing, ghostVars
  <2>2. rec.status = "cancelled"
    BY <1>p DEF Job
  <2> HIDE DEF rec
  <2> QED
    BY <2>1, <2>2, <1>t, <1>open, SaveGivenUp, OutcomeOfValues
<1> QED
  BY <1>1, <1>2, <1>3, <1>4, <1>5, <1>6, <1>7, <1>8, <1>9, <1>10, <1>11,
     <1>12 DEF WorkerStep

LEMMA NextPromise ==
  ASSUME IInv, TypedInv, OpenInv, OutcomeInv, [PipelineNext]_pipelineVars
  PROVE  PromiseStep
<1>t. StoreTypeOK /\ LockTypeOK /\ HistoryTypeOK
  BY DEF IInv, TypeOK
<1>1. CASE Dequeue \/ WorkerStep
  BY <1>1, WorkerPromise
<1>2. ASSUME NEW j \in Jobs,
             SpillSends(j) \/ BackoffElapses(j) \/ RetryRead(j)
               \/ RecoveryEnqueue(j)
      PROVE  PromiseStep
  BY <1>2, QuietPromise
     DEF SpillSends, BackoffElapses, RetryRead, RecoveryEnqueue, storeVars,
         ghostVars
<1>3. CASE RetryTimer \/ RecoveryTick \/ Sigterm \/ Restart \/ Serve
             \/ ShowReady \/ SubmitShown \/ UNCHANGED pipelineVars
  BY <1>3, QuietPromise
     DEF RetryTimer, TimerFires, RecoveryTick, Sigterm, Restart, Serve,
         ShowReady, SubmitShown, pipelineVars, storeVars, ghostVars
<1>4. CASE Exit \/ Crash
  BY <1>4, QuietPromise DEF Exit, Crash, storeVars, ghostVars
<1>5. ASSUME NEW j \in Jobs, RecoverJob(j) PROVE PromiseStep
  <2> DEFINE rec == [store[j] EXCEPT !.status = RecoveredStatus(j)]
  <2>1. Save(j, rec) /\ UNCHANGED <<inserted, retries>>
    BY <1>5 DEF RecoverJob, ghostVars
  <2>2. store[j] \in Job /\ rec.status = RecoveredStatus(j)
    BY <1>t DEF StoreTypeOK, Job
  <2> HIDE DEF rec
  <2>3. \/ RecoveredStatus(j) = store[j].status
        \/ /\ store[j].status \in {"recording", "transcribing", "cleaning",
                                   "formatting", "delivering"}
           /\ RecoveredStatus(j) \in {"queued", "failed"}
    BY DEF RecoveredStatus
  <2>4. Outcome' = [Outcome EXCEPT ![j] = OutcomeOf(RecoveredStatus(j))]
    BY <2>1, <2>2, <1>t, SaveOutcome
  <2>5. Outcome[j] = OutcomeOf(store[j].status)
    BY DEF Outcome
  <2>6. CASE OutcomeOf(RecoveredStatus(j)) = OutcomeOf(store[j].status)
    BY <2>1, <2>4, <2>5, <2>6
       DEF PromiseStep, Promise!dictationVars, Outcome
  <2>7. CASE /\ OutcomeOf(RecoveredStatus(j)) = "failed"
             /\ OutcomeOf(store[j].status) = "pending"
    BY <2>1, <2>2, <2>5, <2>7, <1>t, SaveGivenUp
  <2> QED
    BY <2>3, <2>6, <2>7, OutcomeOfValues
<1>6. CASE RetrySave
  <2> DEFINE j == lifecycleMu.id
             rec == [lifecycleMu.job EXCEPT !.status = "queued",
                                            !.attempted = FALSE]
  <2>1. /\ Save(j, rec) /\ UNCHANGED inserted
        /\ retries' = [retries EXCEPT ![j] = @ + 1]
        /\ Outcome[j] \notin {"absent", "deleted"}
    BY <1>6 DEF RetrySave, OutcomeInv, Known, NoFile
  <2>2. j \in Jobs /\ rec.status = "queued"
    BY <1>6, <1>t DEF RetrySave, LockTypeOK, Job
  <2> HIDE DEF rec, j
  <2>3. Outcome' = [Outcome EXCEPT ![j] = "pending"]
    BY <2>1, <2>2, <1>t, SaveOutcome, OutcomeOfValues
  <2>4. Promise!Ask(j)
    BY <2>1, <2>3 DEF Promise!Ask, Promise!Becomes
  <2> QED
    BY <2>2, <2>4 DEF PromiseStep, Promise!Advance
<1>7. ASSUME NEW j \in Jobs, Submit(j) PROVE PromiseStep
  <2>1. PICK long \in BOOLEAN :
          Save(j, [Blank("queued") EXCEPT !.long = long])
    BY <1>7 DEF Submit
  <2>2. Outcome' = [Outcome EXCEPT ![j] = "pending"]
    <3> DEFINE rec == [Blank("queued") EXCEPT !.long = long]
    <3>1. rec.status = "queued" /\ Save(j, rec)
      BY <2>1 DEF Blank
    <3> HIDE DEF rec
    <3> QED
      BY <3>1, <1>t, SaveOutcome, OutcomeOfValues
  <2>3. Outcome[j] = "absent" /\ UNCHANGED <<inserted, retries>>
    BY <1>7, OutcomeOfValues DEF Submit, Outcome, NoFile, ghostVars
  <2> QED
    BY <2>2, <2>3 DEF PromiseStep, Promise!Advance, Promise!Begin,
       Promise!Becomes
<1> QED
  BY <1>1, <1>2, <1>3, <1>4, <1>5, <1>6, <1>7 DEF PipelineNext, PipelineStep

(* A dictation that exists goes on to exist.                               *)
LEMMA PromiseKeepsKnown ==
  ASSUME PromiseStep, NEW j \in Jobs, Known(j)
  PROVE  Known(j)'
BY DEF Known, NoFile, PromiseStep, Promise!dictationVars, Promise!Advance,
   Promise!Begin, Promise!Resume, Promise!Type, Promise!Deliver,
   Promise!GiveUp, Promise!Ask, Promise!Becomes, Outcome

LEMMA WorkerOutcome ==
  ASSUME IInv, OutcomeInv, PromiseStep, Dequeue \/ WorkerStep
  PROVE  OutcomeInv'
<1> USE DEF Known, NoFile
<1> DEFINE p == processingID
           Busy == pc \notin {"idle", "load", "done"}
<1>t. StoreTypeOK /\ WorkerTypeOK
  BY DEF IInv, TypeOK
<1>p. job \in Job /\ (pc # "idle" => p \in Jobs)
  BY <1>t DEF WorkerTypeOK
<1>m. UNCHANGED lifecycleMu
  BY DEF Dequeue, WorkerStep, Load, Transcribe, SkipTranscribe, AsrAnswers,
     AsrFailsRetryable, AsrFailsForGood, CleanAnswers, FormatAnswers,
     MarkAttempted, TypeText, DeliverFails, RecordDelivered,
     RecordUndelivered, CancelledProcessing, DiscardAudio, Finish
<1>retry. lifecycleMu'.op = "retry" => Outcome'[lifecycleMu'.id] \notin NoFile
  <2>1. lifecycleMu.op = "retry" => lifecycleMu.id \in Jobs
    BY DEF IInv, TypeOK, LockTypeOK
  <2> QED
    BY <1>m, <2>1, PromiseKeepsKnown DEF OutcomeInv
<1>on. ASSUME Busy, UNCHANGED processingID, pc' \notin {"typing", "typed"}
       PROVE  OutcomeInv'
  <2>1. Known(p)'
    BY <1>on, <1>p, PromiseKeepsKnown DEF OutcomeInv
  <2> QED
    BY <1>on, <1>retry, <2>1 DEF OutcomeInv
<1>off. ASSUME pc' \in {"idle", "load", "done"} PROVE OutcomeInv'
  BY <1>off, <1>retry DEF OutcomeInv
<1>1. CASE Dequeue \/ Finish
  BY <1>1, <1>off DEF Dequeue, Finish
<1>2. CASE Load
  <2>1. pc' \in {"cancel", "loaded"} => Exists(p)
    BY <1>2 DEF Load, SkipsJob
  <2>2. UNCHANGED <<store, processingID>> /\ p \in Jobs
    BY <1>2, <1>p DEF Load, storeVars
  <2>3. Exists(p) => Known(p)
    <3>1. store[p].status \in JobStatus \cup NoFile
      BY <2>2, <1>t DEF StoreTypeOK, Job
    <3> QED
      BY <2>2, <3>1, OutcomeOfValues DEF Exists, Known, Outcome
  <2>4. Outcome' = Outcome
    BY <2>2 DEF Outcome
  <2>5. pc' \in {"cancel", "loaded", "done"}
    BY <1>2 DEF Load
  <2> QED
    BY <2>1, <2>2, <2>3, <2>4, <2>5, <1>retry DEF OutcomeInv
<1>3. CASE Transcribe \/ SkipTranscribe \/ AsrAnswers \/ CleanAnswers
             \/ FormatAnswers \/ DeliverFails \/ CancelledProcessing
  BY <1>3, <1>on
     DEF Transcribe, SkipTranscribe, AsrAnswers, CleanAnswers, FormatAnswers,
         DeliverFails, CancelledProcessing
<1>4. CASE AsrFailsRetryable \/ AsrFailsForGood \/ RecordDelivered
             \/ RecordUndelivered \/ DiscardAudio
  BY <1>4, <1>off
     DEF AsrFailsRetryable, AsrFailsForGood, RecordDelivered,
         RecordUndelivered, DiscardAudio
<1>5. CASE MarkAttempted
  <2> DEFINE rec == [job EXCEPT !.attempted = TRUE]
  <2>1. /\ Save(p, rec) /\ pc = "delivering" /\ UNCHANGED processingID
        /\ p \in Jobs
    BY <1>5, <1>p DEF MarkAttempted
  <2>2. rec.status = "delivering"
    BY <2>1, <1>p DEF Job, IInv, StageInv
  <2> HIDE DEF rec
  <2>3. Outcome'[p] = "pending"
    <3>1. Outcome' = [Outcome EXCEPT ![p] = "pending"]
      BY <2>1, <2>2, <1>t, SaveOutcome, OutcomeOfValues
    <3>2. p \in DOMAIN Outcome
      BY <2>1 DEF Outcome
    <3> QED
      BY <3>1, <3>2
  <2> QED
    BY <2>1, <2>3, <1>retry DEF OutcomeInv
<1>6. CASE TypeText
  <2>1. Outcome' = Outcome /\ UNCHANGED processingID /\ pc = "typing"
    BY <1>6 DEF TypeText, Outcome, storeVars
  <2> QED
    BY <2>1, <1>retry DEF OutcomeInv
<1> QED
  BY <1>1, <1>2, <1>3, <1>4, <1>5, <1>6 DEF WorkerStep

LEMMA NextOutcome ==
  ASSUME IInv, OutcomeInv, PromiseStep, [PipelineNext]_pipelineVars
  PROVE  OutcomeInv'
<1> USE DEF Known, NoFile
<1>t. StoreTypeOK /\ WorkerTypeOK /\ LockTypeOK
  BY DEF IInv, TypeOK
<1>p. pc # "idle" => processingID \in Jobs
  BY <1>t DEF WorkerTypeOK
<1>quiet. ASSUME UNCHANGED store, pc' = "idle" \/ UNCHANGED workerVars,
                 lifecycleMu' = Free \/ UNCHANGED lifecycleMu
          PROVE  OutcomeInv'
  BY <1>quiet DEF OutcomeInv, Outcome, workerVars, Free
<1>1. CASE Dequeue \/ WorkerStep
  BY <1>1, WorkerOutcome
<1>2. ASSUME NEW j \in Jobs, SpillSends(j) \/ BackoffElapses(j)
                               \/ RecoveryEnqueue(j)
      PROVE  OutcomeInv'
  BY <1>2, <1>quiet
     DEF SpillSends, BackoffElapses, RecoveryEnqueue, storeVars
<1>3. CASE RetryTimer \/ RecoveryTick \/ Sigterm \/ Restart \/ Serve
             \/ ShowReady \/ SubmitShown \/ UNCHANGED pipelineVars
  BY <1>3, <1>quiet
     DEF RetryTimer, TimerFires, RecoveryTick, Sigterm, Restart, Serve,
         ShowReady, SubmitShown, pipelineVars, storeVars
<1>4. CASE Exit \/ Crash
  BY <1>4, <1>quiet DEF Exit, Crash, LoseMemory, storeVars
<1>5. ASSUME NEW j \in Jobs, RetryRead(j) PROVE OutcomeInv'
  <2>1. /\ UNCHANGED <<store, workerVars>> /\ lifecycleMu'.id = j
        /\ store[j].status \in JobStatus
    BY <1>5, PipelineAssumption DEF RetryRead, storeVars
  <2>2. Outcome' = Outcome /\ Outcome[j] \notin NoFile
    BY <2>1, OutcomeOfValues DEF Outcome
  <2> QED
    BY <2>1, <2>2 DEF OutcomeInv, workerVars
<1>6. ASSUME NEW j \in Jobs, RecoverJob(j) PROVE OutcomeInv'
  <2>1. pc' = "idle" /\ UNCHANGED lifecycleMu
    BY <1>6 DEF RecoverJob, workerVars, IInv, StageInv, Alive
  <2>2. lifecycleMu.op = "retry" => lifecycleMu.id \in Jobs
    BY <1>t DEF LockTypeOK
  <2> QED
    BY <2>1, <2>2, PromiseKeepsKnown DEF OutcomeInv
<1>7. ASSUME NEW j \in Jobs, NEW rec, Save(j, rec),
             OutcomeOf(rec.status) = "pending", UNCHANGED workerVars,
             lifecycleMu' = Free \/ UNCHANGED lifecycleMu
      PROVE  OutcomeInv'
  <2>1. Outcome' = [Outcome EXCEPT ![j] = "pending"]
    BY <1>7, <1>t, SaveOutcome
  <2>2. \A k \in Jobs : \/ Outcome'[k] = Outcome[k]
                        \/ Outcome'[k] = "pending"
    BY <2>1 DEF Outcome
  <2>3. lifecycleMu.op = "retry" => lifecycleMu.id \in Jobs
    BY <1>t DEF LockTypeOK
  <2> QED
    BY <1>7, <1>p, <2>2, <2>3 DEF OutcomeInv, workerVars, Free
<1>8. CASE RetrySave
  <2> DEFINE j == lifecycleMu.id
             rec == [lifecycleMu.job EXCEPT !.status = "queued",
                                            !.attempted = FALSE]
  <2>1. /\ Save(j, rec) /\ UNCHANGED workerVars /\ lifecycleMu' = Free
        /\ j \in Jobs /\ rec.status = "queued"
    BY <1>8, <1>t DEF RetrySave, LockTypeOK, Job
  <2> HIDE DEF rec, j
  <2> QED
    BY <2>1, <1>7, OutcomeOfValues
<1>9. ASSUME NEW j \in Jobs, Submit(j) PROVE OutcomeInv'
  <2>1. PICK long \in BOOLEAN :
          Save(j, [Blank("queued") EXCEPT !.long = long])
    BY <1>9 DEF Submit
  <2> DEFINE rec == [Blank("queued") EXCEPT !.long = long]
  <2>2. /\ Save(j, rec) /\ UNCHANGED <<workerVars, lifecycleMu>>
        /\ rec.status = "queued"
    BY <1>9, <2>1 DEF Submit, Blank
  <2> HIDE DEF rec
  <2> QED
    BY <2>2, <1>7, OutcomeOfValues
<1> QED
  BY <1>1, <1>2, <1>3, <1>4, <1>5, <1>6, <1>8, <1>9
     DEF PipelineNext, PipelineStep

(* The pipeline implements Dictation, for any number of dictations,        *)
(* attempts, copies, Retries, crashes and restarts: what the user sees of  *)
(* a dictation changes as its promise allows, and its text is typed once   *)
(* per request (process, fail, Retry, recoverInterruptedJobs).             *)
THEOREM PromiseKept == PipelineSpec => KeepsPromise
<1>1. PipelineInit => Promise!DictationInit /\ OutcomeInv
  BY OutcomeOfValues
     DEF PipelineInit, StoreInit, Blank, NoFile, Free, Outcome, OutcomeInv,
         Promise!DictationInit
<1>2. IInv /\ TypedInv /\ OpenInv /\ OutcomeInv /\ [PipelineNext]_pipelineVars
        => PromiseStep /\ OutcomeInv'
  BY NextPromise, NextOutcome
<1>3. PromiseStep => [Promise!DictationNext]_Promise!dictationVars
  BY DEF PromiseStep, Promise!DictationNext
<1> QED
  BY <1>1, <1>2, <1>3, Accounted, TypedAlways, OpenAlways, PTL
     DEF PipelineSpec, KeepsPromise, Promise!DictationSpec
=============================================================================
