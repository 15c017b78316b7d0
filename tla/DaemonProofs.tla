---------------------------- MODULE DaemonProofs ----------------------------
(***************************************************************************)
(* Proofs about the whole daemon, with the history commands and cleanup    *)
(* running next to recorder and pipeline.                                  *)
(*                                                                         *)
(* First what holds whatever commands are used, those without a lock       *)
(* included: the types, that History claims no delivery that did not       *)
(* happen, and that the microphone and the Listening pill belong to a      *)
(* recording.  Then, still for every command, what holds as long as the    *)
(* user acts on no job in state recording: no recording is stranded or     *)
(* finalized twice; feedback left out, no text is typed once too often;    *)
(* and the words of a dictation stay on disk as long as they are needed.   *)
(* Last what lifecycleMu and the busy check give where only the commands   *)
(* that use them write: Dictation's promise is kept, nothing deleted comes *)
(* back, and a correction overwrites nothing it has not seen.              *)
(***************************************************************************)
EXTENDS Daemon, DictationProofs, FiniteSetTheorems

(* What a command touches besides job.json, audio and its own copy. *)
LEMMA CommandRest ==
  ASSUME CommandStep
  PROVE  /\ Alive
         /\ UNCHANGED <<recording, queueVars, workerVars, lifeVars, inserted, retries,
                        recorderVars>>
         /\ raced \subseteq raced' /\ raced' \subseteq raced \cup {x[1] : x \in sweep}
         /\ UNCHANGED phase \/ (\E p \in {"idle"} : SetStatus(p))
              \/ \E p \in {"copied", "error"}, j \in Jobs : ShowAction(p, j)
<1>1. ASSUME NEW j \in Jobs, DismissLast(j) \/ SetFormatterFeedback(j)
      PROVE  Alive /\ UNCHANGED vars
  BY <1>1 DEF DismissLast, SetFormatterFeedback, InHistory, Serving, Alive
<1>2. Cleanup => Alive /\ UNCHANGED vars
  BY DEF Cleanup
<1>3. ASSUME UNCHANGED vars
      PROVE  /\ UNCHANGED <<recording, queueVars, workerVars, lifeVars, ghostVars,
                            recorderVars>>
             /\ UNCHANGED phase
  BY <1>3 DEF vars, pipelineVars, pillVars
<1>g. UNCHANGED ghostVars => UNCHANGED <<inserted, retries, raced>>
  BY DEF ghostVars
<1>4. ASSUME NEW j \in Jobs, DeleteHistory(j) \/ CorrectHistory(j) \/ Copy(j)
      PROVE  /\ Alive
             /\ UNCHANGED <<recording, queueVars, workerVars, lifeVars, ghostVars,
                            recorderVars>>
             /\ UNCHANGED phase \/ \E p \in {"copied", "error"} : ShowAction(p, j)
  BY <1>4 DEF DeleteHistory, CorrectHistory, Copy, InHistory, Serving, Alive, pillVars
<1>5. CASE DismissSave \/ CorrectSave \/ FeedbackSave \/ LearnSelection
  BY <1>5 DEF DismissSave, CorrectSave, FeedbackSave, LearnSelection, Serving, Alive,
    pillVars, ghostVars
<1>6. ASSUME NEW x \in sweep, CleanupRemoves(x)
      PROVE  /\ Alive
             /\ UNCHANGED <<recording, queueVars, workerVars, lifeVars, inserted, retries,
                            recorderVars>>
             /\ raced \subseteq raced' /\ raced' \subseteq raced \cup {x[1]}
             /\ UNCHANGED phase
  BY <1>6 DEF CleanupRemoves, pillVars
<1>7. QED
  BY <1>1, <1>2, <1>3, <1>4, <1>5, <1>6, <1>g DEF CommandStep, CleanupStep

(* What a command may do to job.json and to the audio. *)
LEMMA CommandWrites ==
  ASSUME CommandStep, DaemonTypeOK
  PROVE  \/ UNCHANGED storeVars
         \/ UNCHANGED store /\ \E j \in Jobs : RemoveAudio(j)
         \/ \E j \in Jobs : RemoveDir(j)
         \/ /\ UNCHANGED audio
            /\ \/ DismissSave \/ FeedbackSave \/ CorrectSave
<1>1. ASSUME NEW j \in Jobs,
             \/ DismissLast(j) \/ SetFormatterFeedback(j) \/ CorrectHistory(j) \/ Copy(j)
             \/ Cleanup \/ LearnSelection
      PROVE  UNCHANGED storeVars
  BY <1>1 DEF DismissLast, SetFormatterFeedback, CorrectHistory, Copy, Cleanup,
    LearnSelection, vars, pipelineVars
<1>2. ASSUME NEW j \in Jobs, DeleteHistory(j) PROVE RemoveDir(j)
  BY <1>2 DEF DeleteHistory
<1>3. ASSUME NEW x \in sweep, CleanupRemoves(x)
      PROVE  /\ x[1] \in Jobs
             /\ RemoveDir(x[1]) \/ (UNCHANGED store /\ RemoveAudio(x[1]))
  BY <1>3 DEF CleanupRemoves, DaemonTypeOK
<1>4. CASE DismissSave \/ FeedbackSave \/ CorrectSave
  BY <1>4 DEF DismissSave, FeedbackSave, CorrectSave
<1>5. CASE Cleanup \/ LearnSelection
  BY <1>5 DEF Cleanup, LearnSelection, vars, pipelineVars
<1>6. QED BY <1>1, <1>2, <1>3, <1>4, <1>5 DEF CommandStep, CleanupStep

(* What a command may read and keep. *)
LEMMA CommandReads ==
  ASSUME CommandStep
  PROVE  /\ dismiss' \in {dismiss, Nothing} \/ \E j \in Jobs : DismissLast(j)
         /\ feedback' \in {feedback, Nothing} \/ \E j \in Jobs : SetFormatterFeedback(j)
         /\ sweep' \subseteq sweep \/ Cleanup
         /\ lifecycleMu' \in {lifecycleMu, Free} \/ \E j \in Jobs : CorrectHistory(j)
         /\ lifecycleMu' = Free /\ lifecycleMu # Free => CorrectSave
<1>1. ASSUME NEW j \in Jobs, \/ DismissLast(j) \/ DeleteHistory(j) \/ CorrectHistory(j)
                             \/ SetFormatterFeedback(j) \/ Copy(j)
      PROVE  /\ dismiss' = dismiss \/ DismissLast(j)
             /\ feedback' = feedback \/ SetFormatterFeedback(j)
             /\ sweep' = sweep
             /\ lifecycleMu' = lifecycleMu \/ CorrectHistory(j)
             /\ lifecycleMu' = Free => lifecycleMu = Free
  <2>1. CASE CorrectHistory(j)
    BY <2>1 DEF CorrectHistory, Free, commandVars
  <2>2. CASE DismissLast(j) \/ DeleteHistory(j) \/ SetFormatterFeedback(j) \/ Copy(j)
    BY <2>2 DEF DismissLast, DeleteHistory, SetFormatterFeedback, Copy, commandVars, vars,
      pipelineVars
  <2>3. QED BY <1>1, <2>1, <2>2
<1>2. CASE DismissSave \/ CorrectSave \/ FeedbackSave \/ LearnSelection
  BY <1>2 DEF DismissSave, CorrectSave, FeedbackSave, LearnSelection, commandVars
<1>3. CASE Cleanup \/ CleanupStep
  BY <1>3 DEF Cleanup, CleanupStep, CleanupRemoves, vars, pipelineVars
<1>4. QED BY <1>1, <1>2, <1>3 DEF CommandStep
-----------------------------------------------------------------------------
CopyOK == [id : Jobs \cup {NoJob}, job : Job]

LEMMA CommandTypes ==
  ASSUME DaemonTypeOK, CommandStep
  PROVE  DaemonTypeOK'
<1> USE DEF DaemonTypeOK, RecorderTypeOK
<1>t. /\ StoreTypeOK /\ PillTypeOK /\ QueueTypeOK /\ WorkerTypeOK /\ LockTypeOK
      /\ LifeTypeOK /\ HistoryTypeOK
      /\ dismiss \in CopyOK /\ feedback \in CopyOK
  BY DEF TypeOK, CopyOK
<1>n. Nothing \in CopyOK
  BY BlankType DEF Nothing, CopyOK, NoFile
<1>h. HistoryTypeOK'
  <2>1. \A x \in sweep : x[1] \in Jobs
    OBVIOUS
  <2>2. UNCHANGED <<inserted, retries>> /\ raced' \subseteq Jobs
    BY <1>t, <2>1, CommandRest DEF HistoryTypeOK
  <2>3. QED BY <1>t, <2>2 DEF HistoryTypeOK
<1>1. /\ QueueTypeOK' /\ WorkerTypeOK' /\ LifeTypeOK'
      /\ capture' \in [Jobs -> Captures] /\ mode' \in [Jobs -> Mode]
      /\ stoppers' \in [Jobs -> Nat] /\ fin' \in [Jobs -> Fin]
  BY <1>t, CommandRest, TypeFrame DEF recorderVars
<1>2. PillTypeOK'
  BY <1>t, CommandRest DEF PillTypeOK, SetStatus, ShowAction, Phases
<1>3. StoreTypeOK'
  <2>none. "none" \in Audio
    BY DEF Audio
  <2>1. CASE UNCHANGED storeVars
    BY <1>t, <2>1, TypeFrame
  <2>2. CASE UNCHANGED store /\ \E j \in Jobs : RemoveAudio(j)
    BY <1>t, <2>2, <2>none DEF RemoveAudio, StoreTypeOK
  <2>3. ASSUME NEW j \in Jobs, RemoveDir(j) PROVE StoreTypeOK'
    <3>1. Blank("deleted") \in Job
      BY BlankType DEF NoFile
    <3>2. QED BY <1>t, <2>3, <2>none, <3>1 DEF RemoveDir, RemoveAudio, StoreTypeOK
  <2>4. CASE UNCHANGED audio /\ (DismissSave \/ FeedbackSave \/ CorrectSave)
    <3>1. PICK id \in Jobs \cup {NoJob}, rec \in Job : UNCHANGED store \/ Save(id, rec)
      <4>1. [dismiss.job EXCEPT !.status = "cancelled"] \in Job
        BY <1>t DEF CopyOK, Job, JobStatus
      <4>2. feedback.job \in Job /\ [lifecycleMu.job EXCEPT !.final = TRUE] \in Job
        BY <1>t DEF CopyOK, LockTypeOK, Job
      <4>3. {dismiss.id, feedback.id, lifecycleMu.id} \subseteq Jobs \cup {NoJob}
        BY <1>t DEF CopyOK, LockTypeOK
      <4>4. CASE DismissSave
        BY <4>1, <4>3, <4>4 DEF DismissSave
      <4>5. CASE FeedbackSave
        BY <4>2, <4>3, <4>5 DEF FeedbackSave
      <4>6. CASE CorrectSave
        BY <4>2, <4>3, <4>6 DEF CorrectSave
      <4>7. QED BY <2>4, <4>4, <4>5, <4>6
    <3>2. QED BY <1>t, <2>4, <3>1 DEF Save, StoreTypeOK
  <2>5. QED BY <2>1, <2>2, <2>3, <2>4, CommandWrites
<1>4. LockTypeOK'
  <2>1. CASE UNCHANGED lifecycleMu
    BY <1>t, <2>1 DEF LockTypeOK
  <2>2. ASSUME NEW j \in Jobs, CorrectHistory(j) PROVE LockTypeOK'
    <3>1. lifecycleMu' = [op |-> "correct", id |-> j, job |-> store[j]] /\ store[j] \in Job
      BY <1>t, <2>2 DEF CorrectHistory, StoreTypeOK
    <3>2. QED BY <3>1 DEF LockTypeOK, LockOps
  <2>3. CASE CorrectSave
    BY <2>3, BlankType DEF CorrectSave, Free, LockTypeOK, NoFile
  <2>4. UNCHANGED lifecycleMu \/ (\E j \in Jobs : CorrectHistory(j)) \/ CorrectSave
    BY CommandReads
  <2>5. QED BY <2>1, <2>2, <2>3, <2>4
<1>5. /\ dismiss' \in CopyOK /\ feedback' \in CopyOK
      /\ sweep' \subseteq Jobs \X {"audio", "dir"} \X Nat
  <2>1. ASSUME NEW j \in Jobs, DismissLast(j) PROVE dismiss' \in CopyOK
    BY <1>t, <2>1 DEF DismissLast, CopyOK, StoreTypeOK
  <2>2. ASSUME NEW j \in Jobs, SetFormatterFeedback(j) PROVE feedback' \in CopyOK
    BY <1>t, <2>2 DEF SetFormatterFeedback, CopyOK, StoreTypeOK
  <2>3. ASSUME Cleanup PROVE sweep' \subseteq Jobs \X {"audio", "dir"} \X Nat
    BY <1>t, <2>3 DEF Cleanup, Expired, HistoryTypeOK
  <2>4. QED BY <1>t, <1>n, <2>1, <2>2, <2>3, CommandReads
<1>6. QED BY <1>h, <1>1, <1>2, <1>3, <1>4, <1>5 DEF TypeOK, CopyOK

(* Two records with the same transcript, for the same kind of recording. *)
SameText(rec, old) == /\ rec.transcript = old.transcript
                      /\ rec.eligible = old.eligible

(* What a command writes into a record: the job is removed or dismissed,   *)
(* or it gets back what was read of it before.                             *)
LEMMA CommandSaves ==
  ASSUME DaemonTypeOK, CommandStep, NEW j \in Jobs, store'[j] # store[j]
  PROVE  \/ /\ store'[j] = Blank("deleted")
            /\ DeleteHistory(j) \/ \E x \in sweep : x[1] = j
         \/ /\ DismissSave /\ dismiss # Nothing /\ j = dismiss.id
            /\ store'[j].status = "cancelled" /\ SameText(store'[j], dismiss.job)
         \/ FeedbackSave /\ feedback # Nothing /\ j = feedback.id /\ store'[j] = feedback.job
         \/ /\ CorrectSave /\ lifecycleMu.op = "correct" /\ j = lifecycleMu.id
            /\ store'[j].status = lifecycleMu.job.status
            /\ SameText(store'[j], lifecycleMu.job)
<1>t. store \in [Jobs -> Job] /\ dismiss.job \in Job /\ lifecycleMu.job \in Job
  BY DEF DaemonTypeOK, RecorderTypeOK, TypeOK, StoreTypeOK, LockTypeOK
<1>save. ASSUME NEW k, NEW rec, Save(k, rec) PROVE j = k /\ store'[j] = rec
  BY <1>t, <1>save DEF Save
<1>1. ASSUME NEW k \in Jobs, RemoveDir(k) PROVE j = k /\ store'[j] = Blank("deleted")
  BY <1>1, <1>save DEF RemoveDir, Save
<1>2. ASSUME NEW k \in Jobs, DeleteHistory(k)
      PROVE  store'[j] = Blank("deleted") /\ DeleteHistory(j)
  BY <1>1, <1>2 DEF DeleteHistory
<1>3. ASSUME NEW x \in sweep, CleanupRemoves(x)
      PROVE  store'[j] = Blank("deleted") /\ x[1] = j
  <2>1. x[1] \in Jobs /\ (RemoveDir(x[1]) \/ UNCHANGED store)
    BY <1>3 DEF CleanupRemoves, DaemonTypeOK
  <2>2. QED BY <1>1, <2>1
<1>4. CASE DismissSave
  <2> DEFINE rec == [dismiss.job EXCEPT !.status = "cancelled"]
  <2>1. /\ dismiss # Nothing /\ Save(dismiss.id, rec)
        /\ rec.status = "cancelled" /\ SameText(rec, dismiss.job)
    BY <1>t, <1>4 DEF DismissSave, Job, SameText
  <2> HIDE DEF rec
  <2>2. QED BY <1>4, <2>1, <1>save
<1>5. CASE FeedbackSave
  BY <1>5, <1>save DEF FeedbackSave
<1>6. CASE CorrectSave
  <2> DEFINE rec == [lifecycleMu.job EXCEPT !.final = TRUE]
  <2>1. /\ lifecycleMu.op = "correct" /\ Save(lifecycleMu.id, rec)
        /\ rec.status = lifecycleMu.job.status /\ SameText(rec, lifecycleMu.job)
    BY <1>t, <1>6 DEF CorrectSave, Job, SameText
  <2> HIDE DEF rec
  <2>2. QED BY <1>6, <2>1, <1>save
<1>7. ASSUME \/ \E k \in Jobs : \/ DismissLast(k) \/ CorrectHistory(k)
                                \/ SetFormatterFeedback(k) \/ Copy(k)
             \/ LearnSelection \/ Cleanup
      PROVE  UNCHANGED store
  BY <1>7 DEF DismissLast, CorrectHistory, SetFormatterFeedback, Copy, LearnSelection,
    Cleanup, vars, pipelineVars, storeVars
<1>8. QED BY <1>2, <1>3, <1>4, <1>5, <1>6, <1>7 DEF CommandStep, CleanupStep

LEMMA DaemonTypes ==
  ASSUME DaemonTypeOK, [DaemonNext]_daemonVars
  PROVE  DaemonTypeOK'
<1>t. TypeOK /\ RecorderVarsOK
  BY DEF DaemonTypeOK, RecorderTypeOK, RecorderVarsOK
<1>1. CASE CommandStep
  BY <1>1, CommandTypes
<1>2. CASE Underneath
  <2>1. TypeOK' /\ RecorderVarsOK'
    <3>1. CASE PipelineOnly
      <4>1. TypeOK'
        BY <1>t, <3>1, StepType DEF PipelineOnly
      <4>2. RecorderVarsOK'
        BY <1>t, <3>1, FinTypes DEF PipelineOnly, RecorderVarsOK, recorderVars, Captures
      <4>3. QED BY <4>1, <4>2
    <3>2. CASE RecorderStep
      BY <1>t, <3>2, RecorderStoreType, RecorderVarsType DEF TypeOK
    <3>3. QED BY <1>2, <3>1, <3>2 DEF Underneath, Next
  <2>2. Nothing \in [id : Jobs \cup {NoJob}, job : Job]
    BY BlankType DEF Nothing, NoFile
  <2>3. QED
    BY <1>2, <2>1, <2>2 DEF Underneath, commandVars, DaemonTypeOK, RecorderTypeOK,
      RecorderVarsOK
<1>3. CASE UNCHANGED daemonVars
  <2>1. UNCHANGED <<storeVars, pillVars, queueVars, workerVars, lifeVars, lifecycleMu,
                    ghostVars, recorderVars, commandVars>>
    BY <1>3 DEF daemonVars, vars, pipelineVars
  <2>2. TypeOK'
    BY <1>t, <2>1, TypeFrame DEF TypeOK
  <2>3. QED
    BY <2>1, <2>2 DEF DaemonTypeOK, RecorderTypeOK, recorderVars, commandVars
<1>4. QED BY <1>1, <1>2, <1>3 DEF DaemonNext
-----------------------------------------------------------------------------
(* A record somebody has read as delivered was typed. *)
CopiedInv ==
  /\ feedback.job.status = "delivered" =>
       feedback.id \in Jobs /\ inserted[feedback.id] > 0
  /\ lifecycleMu.job.status = "delivered" =>
       lifecycleMu.id \in Jobs /\ inserted[lifecycleMu.id] > 0
  /\ \A j \in Jobs : fin[j].job.status = "delivered" => inserted[j] > 0

AnyInv == /\ DaemonTypeOK /\ MarkInv /\ RecoverInv
          /\ TypedInv /\ CopiedInv
          /\ MicOwned /\ ListeningMeansRecording

(* An insertion is never taken back. *)
LEMMA InsertedGrows ==
  ASSUME TypeOK, Next, NEW j \in Jobs, inserted[j] > 0
  PROVE  inserted'[j] > 0
<1>t. HistoryTypeOK /\ WorkerTypeOK
  BY DEF TypeOK
<1>1. CASE TypeText
  <2>1. processingID \in Jobs
    BY <1>t, <1>1 DEF TypeText, WorkerTypeOK
  <2>2. QED BY <1>1, <1>t, <2>1 DEF TypeText, HistoryTypeOK
<1>2. CASE (Dequeue \/ WorkerStep) /\ ~TypeText
  BY <1>2 DEF Dequeue, WorkerStep, Load, Transcribe, SkipTranscribe, AsrAnswers,
    AsrFailsRetryable, AsrFailsForGood, CleanAnswers, FormatAnswers, MarkAttempted,
    DeliverFails, RecordDelivered, RecordUndelivered, CancelledProcessing, DiscardAudio,
    Finish, ghostVars
<1>3. ASSUME NEW k \in Jobs, SpillSends(k) \/ BackoffElapses(k) \/ RetryRead(k)
                               \/ RecoveryEnqueue(k) \/ RecoverJob(k)
      PROVE  UNCHANGED inserted
  BY <1>3 DEF SpillSends, BackoffElapses, RetryRead, RecoveryEnqueue, RecoverJob, ghostVars
<1>4. CASE RetryTimer \/ RetrySave \/ RecoveryTick
  BY <1>4 DEF RetryTimer, TimerFires, RetrySave, RecoveryTick, ghostVars
<1>5. CASE Sigterm \/ Exit \/ Crash \/ Restart \/ Serve \/ ShowReady
  BY <1>5 DEF Sigterm, Exit, Crash, Restart, Serve, ShowReady, ghostVars
<1>6. CASE RecorderStep
  BY <1>6, RecorderRest DEF ghostVars
<1>7. QED
  BY <1>1, <1>2, <1>3, <1>4, <1>5, <1>6 DEF Next, PipelineOnly, PipelineStep

(* The recorder reports no delivery but what it has read. *)
LEMMA RecorderNotDelivers ==
  ASSUME TypeOK, RecorderVarsOK, RecorderStep, NEW j \in Jobs,
         store'[j].status = "delivered"
  PROVE  "delivered" \in {store[j].status, fin[j].job.status}
<1>t. store \in [Jobs -> Job] /\ fin \in [Jobs -> Fin]
  BY DEF TypeOK, StoreTypeOK, RecorderVarsOK
<1>save. ASSUME NEW k \in Jobs, NEW rec, Save(k, rec), rec.status # "delivered"
         PROVE  store[j].status = "delivered"
  BY <1>save, <1>t DEF Save
<1>1. CASE StopRead
  BY <1>1 DEF StopRead, storeVars
<1>2. ASSUME NEW k \in Jobs,
             StartFails(k) \/ \E handsFree \in BOOLEAN : Start(k, handsFree)
      PROVE  store[j].status = "delivered"
  <2>1. PICK s \in {"recording", "failed"} : Save(k, Blank(s))
    BY <1>2 DEF StartFails, Start
  <2>2. QED BY <2>1, <1>save DEF Blank
<1>3. ASSUME NEW k \in Jobs, RecorderQuiet(k) PROVE UNCHANGED store
  BY <1>3 DEF RecorderQuiet, CaptureChunk, AutoStop, CaptureTurns, CaptureStalls,
    CaptureResumes, CaptureDies, StopDetach, CancelDetach, CloseCapture, RealtimeGet,
    FinLoad, FinDiscard, FinShown, storeVars
<1>4. ASSUME NEW k \in Jobs, RealtimeSave(k)
      PROVE  "delivered" \in {store[j].status, fin[j].job.status}
  <2>1. /\ store' = [store EXCEPT ![k] = [fin[k].job EXCEPT !.transcript = TRUE]]
        /\ fin[k].job \in Job
    BY <1>4, <1>t DEF RealtimeSave, Save, Fin
  <2>2. k = j => store'[j].status = fin[j].job.status
    BY <1>t, <2>1 DEF Job
  <2>3. QED BY <1>t, <2>1, <2>2
<1>5. ASSUME NEW k \in Jobs, FinCancelled(k) \/ FinFailed(k) \/ FinQueued(k)
      PROVE  store[j].status = "delivered"
  <2>1. fin[k].job \in Job
    BY <1>t DEF Fin
  <2>2. CASE FinCancelled(k)
    <3> DEFINE rec == [fin[k].job EXCEPT !.status = "cancelled"]
    <3>1. Save(k, rec) /\ rec.status # "delivered"
      BY <2>1, <2>2 DEF FinCancelled, Job
    <3> HIDE DEF rec
    <3>2. QED BY <3>1, <1>save
  <2>3. CASE FinFailed(k) \/ FinQueued(k)
    <3>1. PICK s \in {"failed", "queued"}, long \in BOOLEAN :
            Save(k, [fin[k].job EXCEPT !.status = s, !.long = long])
      BY <2>3 DEF FinFailed, FinQueued
    <3> DEFINE rec == [fin[k].job EXCEPT !.status = s, !.long = long]
    <3>2. Save(k, rec) /\ rec.status # "delivered"
      BY <2>1, <3>1 DEF Job
    <3> HIDE DEF rec
    <3>3. QED BY <3>2, <1>save
  <2>4. QED BY <1>5, <2>2, <2>3
<1>6. QED BY <1>1, <1>2, <1>3, <1>4, <1>5, RecorderCases DEF RecorderSaves

(* A finalizer holds what it has read of its own job, or nothing yet. *)
LEMMA RecorderReads ==
  ASSUME RecorderVarsOK, RecorderStep, NEW j \in Jobs
  PROVE  fin'[j].job \in {fin[j].job, store[j], Blank("absent")}
<1>t. fin \in [Jobs -> Fin]
  BY DEF RecorderVarsOK
<1>1. ASSUME NEW k \in Jobs,
             \/ StopRead \/ StartFails(k) \/ CaptureChunk(k) \/ AutoStop(k) \/ CaptureTurns(k)
             \/ \E handsFree \in BOOLEAN : Start(k, handsFree)
      PROVE  UNCHANGED fin
  BY <1>1 DEF StopRead, StartFails, CaptureChunk, AutoStop, CaptureTurns, CaptureStalls,
    CaptureResumes, CaptureDies, Start, recorderVars
<1>2. ASSUME NEW k \in Jobs, NEW f, fin' = [fin EXCEPT ![k] = f],
             f.job \in {fin[k].job, store[k], Blank("absent")}
      PROVE  fin'[j].job \in {fin[j].job, store[j], Blank("absent")}
  BY <1>t, <1>2
<1>3. ASSUME NEW k \in Jobs, StopDetach(k) \/ CancelDetach(k)
      PROVE  fin'[j].job \in {fin[j].job, store[j], Blank("absent")}
  BY <1>t, <1>3 DEF StopDetach, CancelDetach, NoFin
<1>4. ASSUME NEW k \in Jobs, CloseCapture(k)
      PROVE  fin'[j].job \in {fin[j].job, store[j], Blank("absent")}
  BY <1>t, <1>4 DEF CloseCapture, Fin
<1>5. ASSUME NEW k \in Jobs, RealtimeGet(k)
      PROVE  fin'[j].job \in {fin[j].job, store[j], Blank("absent")}
  BY <1>t, <1>5 DEF RealtimeGet, Fin
<1>6. ASSUME NEW k \in Jobs, FinLoad(k)
      PROVE  fin'[j].job \in {fin[j].job, store[j], Blank("absent")}
  BY <1>t, <1>6 DEF FinLoad, FinEnds, NoFin, Fin
<1>7. ASSUME NEW k \in Jobs, FinEnds(k) \/ \E stage \in FinStages : FinGoes(k, stage)
      PROVE  fin'[j].job \in {fin[j].job, store[j], Blank("absent")}
  BY <1>t, <1>7 DEF FinEnds, FinGoes, NoFin, Fin
<1>8. ASSUME NEW k \in Jobs, RecorderSaves(k) \/ FinDiscard(k) \/ FinShown(k)
      PROVE  FinEnds(k) \/ \E stage \in FinStages : FinGoes(k, stage)
  BY <1>8 DEF RecorderSaves, RealtimeSave, FinCancelled, FinFailed, FinQueued, FinDiscard,
    FinShown, FinStages
<1>9. QED
  BY <1>1, <1>3, <1>4, <1>5, <1>6, <1>7, <1>8, RecorderCases DEF RecorderQuiet, Jobs

(* The microphone and the Listening pill, whatever job.json says. *)
LEMMA RecorderKeepsMic ==
  ASSUME TypeOK, RecorderVarsOK, MicOwned, ListeningMeansRecording, RecorderStep
  PROVE  MicOwned' /\ ListeningMeansRecording'
<1>t. /\ fin \in [Jobs -> Fin] /\ capture \in [Jobs -> Captures]
      /\ recording \in Jobs \cup {NoJob} /\ phase \in [phase : Phases, action : Jobs \cup {NoJob}]
  BY DEF TypeOK, PillTypeOK, RecorderVarsOK
<1> USE DEF MicOwned, ListeningMeansRecording
<1>1. ASSUME UNCHANGED <<pillVars, fin>>, \A k \in Jobs : capture'[k] # "off" => capture[k] # "off"
      PROVE  MicOwned' /\ ListeningMeansRecording'
  BY <1>1 DEF pillVars
<1>2. CASE StopRead
  BY <1>1, <1>2 DEF StopRead
<1>3. ASSUME NEW j \in Jobs, \/ StartFails(j) \/ CaptureChunk(j) \/ AutoStop(j)
                               \/ CaptureTurns(j)
      PROVE  MicOwned' /\ ListeningMeansRecording'
  <2>1. /\ UNCHANGED <<pillVars, fin>>
        /\ capture' = capture \/ (capture[j] # "off" /\ \E how \in Captures :
                                    capture' = [capture EXCEPT ![j] = how])
    BY <1>3 DEF StartFails, CaptureChunk, AutoStop, CaptureTurns, CaptureStalls,
      CaptureResumes, CaptureDies, recorderVars, Captures
  <2>2. QED BY <1>t, <1>1, <2>1
<1>4. ASSUME NEW j \in Jobs, NEW handsFree \in BOOLEAN, Start(j, handsFree)
      PROVE  MicOwned' /\ ListeningMeansRecording'
  <2>1. /\ recording' = j /\ recording = NoJob /\ UNCHANGED fin
        /\ capture' = [capture EXCEPT ![j] = "live"]
    BY <1>4 DEF Start, CanStart
  <2>2. QED BY <1>t, <2>1 DEF Jobs, NoJob
<1>5. ASSUME NEW j \in Jobs, StopDetach(j) \/ CancelDetach(j)
      PROVE  MicOwned' /\ ListeningMeansRecording'
  <2>1. CASE recording # j
    BY <1>1, <1>5, <2>1 DEF StopDetach, CancelDetach, Detaches
  <2>2. CASE recording = j
    <3>1. /\ recording' = NoJob /\ UNCHANGED capture
          /\ \E f \in {[NoFin EXCEPT !.pc = "closing"],
                       [NoFin EXCEPT !.pc = "closing", !.kind = "cancel"]} :
               fin' = [fin EXCEPT ![j] = f]
      BY <1>5, <2>2 DEF StopDetach, CancelDetach, Detaches
    <3>2. /\ fin'[j].pc = "closing"
          /\ phase'.phase # "recording" \/ fin'[j].kind = "cancel"
      <4>1. CASE StopDetach(j)
        BY <2>2, <4>1, <1>t DEF StopDetach, Detaches, SetStatus, NoFin
      <4>2. CASE CancelDetach(j)
        BY <4>2, <1>t DEF CancelDetach, NoFin
      <4>3. QED BY <1>5, <4>1, <4>2
    <3>3. \A k \in Jobs \ {j} : fin'[k] = fin[k]
      BY <1>t, <3>1
    <3>4. QED BY <2>2, <3>1, <3>2, <3>3
  <2>3. QED BY <2>1, <2>2
(* The finalizer: the process it has ended stays off.                      *)
<1>fin. ASSUME NEW j \in Jobs, fin[j].pc # "off", UNCHANGED recording,
               \A k \in Jobs \ {j} : fin'[k] = fin[k] /\ capture'[k] = capture[k],
               \/ capture'[j] = "off"
               \/ capture'[j] = capture[j] /\ fin[j].pc # "closing",
               phase'.phase = "recording" =>
                 phase' = phase /\ (fin[j].kind = "cancel" => fin'[j].kind = "cancel")
        PROVE  MicOwned' /\ ListeningMeansRecording'
  BY <1>fin
<1>6. ASSUME NEW j \in Jobs, CloseCapture(j) PROVE MicOwned' /\ ListeningMeansRecording'
  <2>1. PICK err \in BOOLEAN : fin' = [fin EXCEPT ![j].pc = "closed", ![j].err = err]
    BY <1>6 DEF CloseCapture
  <2>2. fin'[j].kind = fin[j].kind /\ \A k \in Jobs \ {j} : fin'[k] = fin[k]
    BY <1>t, <2>1 DEF Fin
  <2>3. /\ UNCHANGED pillVars /\ fin[j].pc = "closing"
        /\ capture' = [capture EXCEPT ![j] = "off"]
    BY <1>6 DEF CloseCapture
  <2>4. QED BY <1>t, <2>2, <2>3, <1>fin DEF pillVars
<1>7. ASSUME NEW j \in Jobs,
             \/ RealtimeGet(j) \/ RealtimeSave(j) \/ FinLoad(j) \/ FinCancelled(j)
             \/ FinDiscard(j) \/ FinFailed(j) \/ FinQueued(j) \/ FinShown(j)
      PROVE  MicOwned' /\ ListeningMeansRecording'
  <2>1. /\ UNCHANGED <<recording, capture>>
        /\ fin[j].pc \in FinStages \ {"off", "closing"}
    BY <1>7 DEF RealtimeGet, RealtimeSave, FinLoad, FinCancelled, FinDiscard, FinFailed,
      FinQueued, FinShown, pillVars, FinStages
  <2>2. /\ \A k \in Jobs \ {j} : fin'[k] = fin[k]
        /\ phase'.phase = "recording" =>
             phase' = phase /\ (fin[j].kind = "cancel" => fin'[j].kind = "cancel")
    <3>1. CASE FinLoad(j)
      <4>1. CASE Exists(j)
        <5>1. fin' = [fin EXCEPT ![j].pc = "loaded", ![j].job = store[j]] /\ UNCHANGED phase
          BY <3>1, <4>1 DEF FinLoad
        <5>2. QED BY <1>t, <5>1 DEF Fin
      <4>2. CASE ~Exists(j)
        BY <1>t, <3>1, <4>2 DEF FinLoad, FinEnds, SetStatus
      <4>3. QED BY <4>1, <4>2
    <3>0. CASE RealtimeGet(j)
      BY <1>t, <3>0 DEF RealtimeGet, Fin, pillVars
    <3>2. CASE RealtimeSave(j) \/ FinCancelled(j) \/ FinQueued(j)
      <4>1. UNCHANGED phase /\ \E s \in FinStages : FinGoes(j, s)
        BY <3>2 DEF RealtimeSave, FinCancelled, FinQueued, pillVars, FinStages
      <4>2. QED BY <1>t, <4>1 DEF FinGoes, Fin
    <3>3. CASE FinDiscard(j) \/ FinFailed(j) \/ FinShown(j)
      <4>1. FinEnds(j) /\ phase'.phase # "recording"
        <5>1. CASE FinDiscard(j) \/ FinShown(j)
          BY <5>1 DEF FinDiscard, FinShown, SetStatus
        <5>2. CASE FinFailed(j)
          BY <5>2 DEF FinFailed, ShowAction
        <5>3. QED BY <3>3, <5>1, <5>2
      <4>2. QED BY <1>t, <4>1 DEF FinEnds
    <3>4. QED BY <1>7, <3>0, <3>1, <3>2, <3>3
  <2>3. QED BY <2>1, <2>2, <1>fin DEF FinStages
<1>8. QED
  BY <1>2, <1>3, <1>4, <1>5, <1>6, <1>7, RecorderCases DEF RecorderQuiet, RecorderSaves

LEMMA NextKeepsAny ==
  ASSUME AnyInv, Underneath
  PROVE  AnyInv'
<1> USE DEF AnyInv
<1>t. TypeOK /\ RecorderVarsOK /\ Next /\ LockTypeOK
  BY DEF DaemonTypeOK, RecorderTypeOK, RecorderVarsOK, Underneath, TypeOK
<1>1. DaemonTypeOK'
  BY DaemonTypes DEF DaemonNext
<1>2. ASSUME PipelineOnly
      PROVE  /\ MarkInv' /\ RecoverInv' /\ TypedInv'
             /\ MicOwned' /\ ListeningMeansRecording'
  <2>1. PipelineStep /\ PipelineWrites /\ TypedInv'
    BY <1>t, <1>2, PipelineOnlyWrites, StepTyped DEF PipelineOnly
  <2>2. MarkInv' /\ RecoverInv'
    BY <2>1 DEF PipelineWrites
  <2>3. MicOwned' /\ ListeningMeansRecording'
    <3>1. CASE up # "down" /\ up' = "down"
      <4>1. capture' = [j \in Jobs |-> "off"] /\ phase' = Ready
        BY <1>2, <2>1, <3>1 DEF PipelineOnly, PipelineWrites, LifeStep, Alive
      <4>2. QED BY <4>1 DEF MicOwned, ListeningMeansRecording, Ready
    <3>2. CASE ~(up # "down" /\ up' = "down")
      <4>1. UNCHANGED <<recording, capture, fin>>
        BY <1>2, <2>1, <3>2 DEF PipelineOnly, PipelineWrites, LifeStep, recorderVars
      <4>2. phase'.phase = "recording" => phase' = phase
        BY <2>1 DEF PipelineWrites, ShowsListening
      <4>3. QED BY <4>1, <4>2 DEF MicOwned, ListeningMeansRecording
    <3>3. QED BY <3>1, <3>2
  <2>4. QED BY <2>1, <2>2, <2>3
<1>3. ASSUME RecorderStep
      PROVE  /\ MarkInv' /\ RecoverInv' /\ TypedInv'
             /\ MicOwned' /\ ListeningMeansRecording'
  <2>1. Alive' /\ up' # "recovering" /\ UNCHANGED <<pc, processingID, job, inserted>>
    BY <1>t, <1>3, RecorderFrame, RecorderRest DEF workerVars, ghostVars
  <2>2. MarkInv' /\ RecoverInv'
    BY <2>1 DEF MarkInv, RecoverInv
  <2>3. TypedInv'
    BY <1>t, <1>3, <2>1, RecorderNotDelivers DEF TypedInv, DeliveredWasTyped, CopiedInv
  <2>4. QED BY <1>t, <1>3, <2>2, <2>3, RecorderKeepsMic
<1>4. CopiedInv'
  <2>1. \A j \in Jobs : inserted[j] > 0 => inserted'[j] > 0
    BY <1>t, InsertedGrows
  <2>2. feedback' = feedback \/ feedback' = Nothing
    BY DEF Underneath, commandVars
  <2>3. \/ lifecycleMu' = lifecycleMu \/ lifecycleMu' = Free
        \/ \E k \in Jobs : RetryRead(k)
    BY <1>t, LockMoves, RecorderRest DEF Next, PipelineOnly
  <2>4. Nothing.job.status # "delivered" /\ Free.job.status # "delivered"
    BY DEF Nothing, Free, Blank
  <2>5. ASSUME NEW k \in Jobs, RetryRead(k) PROVE lifecycleMu'.job.status # "delivered"
    BY <2>5 DEF RetryRead
  <2>6. \A j \in Jobs : fin'[j].job \in {fin[j].job, store[j], Blank("absent")}
    <3>1. CASE PipelineOnly
      BY <3>1 DEF PipelineOnly, recorderVars, NoFin
    <3>2. CASE RecorderStep
      BY <1>t, <3>2, RecorderReads
    <3>3. QED BY <1>t, <3>1, <3>2 DEF Next
  <2>7. \A j \in Jobs : fin'[j].job.status = "delivered" => inserted'[j] > 0
    BY <2>1, <2>6 DEF CopiedInv, TypedInv, DeliveredWasTyped, Blank
  <2>8. QED BY <2>1, <2>2, <2>3, <2>4, <2>5, <2>7 DEF CopiedInv
<1>5. QED BY <1>1, <1>2, <1>3, <1>4, <1>t DEF Next

LEMMA CommandKeepsAny ==
  ASSUME AnyInv, CommandStep
  PROVE  AnyInv'
<1> USE DEF AnyInv
<1>t. /\ store \in [Jobs -> Job] /\ dismiss \in CopyOK /\ feedback \in CopyOK
      /\ lifecycleMu \in [op : LockOps \cup {"free"}, id : Jobs \cup {NoJob}, job : Job]
  BY DEF DaemonTypeOK, RecorderTypeOK, TypeOK, StoreTypeOK, CopyOK, LockTypeOK
<1>1. DaemonTypeOK'
  BY DaemonTypes DEF DaemonNext
<1>2. /\ Alive /\ Alive'
      /\ UNCHANGED <<up, pc, processingID, job, inserted, recording, capture, fin>>
      /\ phase'.phase = "recording" => phase' = phase
  BY CommandRest DEF lifeVars, workerVars, recorderVars, Alive, SetStatus, ShowAction
<1>3. MarkInv' /\ RecoverInv' /\ MicOwned' /\ ListeningMeansRecording'
  BY <1>2 DEF MarkInv, RecoverInv, Alive, MicOwned, ListeningMeansRecording
<1>4. \A j \in Jobs : store'[j].status = "delivered" =>
        store[j].status = "delivered" \/ inserted[j] > 0
  BY CommandSaves DEF CopiedInv, Blank
<1>5. TypedInv'
  BY <1>2, <1>4 DEF TypedInv, DeliveredWasTyped
<1>6. CopiedInv'
  <2>1. Nothing.job.status # "delivered" /\ Free.job.status # "delivered"
    BY DEF Nothing, Free, Blank
  <2>2. ASSUME NEW j \in Jobs, SetFormatterFeedback(j) \/ CorrectHistory(j) PROVE CopiedInv'
    <3>1. store[j].status = "delivered" => inserted[j] > 0
      BY DEF TypedInv, DeliveredWasTyped
    <3>2. CASE SetFormatterFeedback(j)
      BY <1>2, <3>1, <3>2 DEF SetFormatterFeedback, CopiedInv, vars, pipelineVars
    <3>3. CASE CorrectHistory(j)
      BY <1>2, <3>1, <3>3 DEF CorrectHistory, CopiedInv, commandVars
    <3>4. QED BY <2>2, <3>2, <3>3
  <2>3. QED BY <1>2, <2>1, <2>2, CommandReads DEF CopiedInv
<1>7. QED BY <1>1, <1>3, <1>5, <1>6

LEMMA AnyAlways == DaemonSpec => []AnyInv
<1>1. DaemonInit => AnyInv
  <2> SUFFICES ASSUME DaemonInit PROVE AnyInv
    OBVIOUS
  <2>1. RecInv /\ TypedInv
    BY WholeInitially DEF DaemonInit, WholeInv
  <2>2. DaemonTypeOK
    BY <2>1, BlankType
    DEF DaemonInit, RecInv, RecorderVarsOK, DaemonTypeOK, RecorderTypeOK, Nothing, NoFile
  <2>3. CopiedInv
    BY DEF DaemonInit, Init, PipelineInit, RecorderInit, NoFin, Nothing, Free, Blank,
      CopiedInv
  <2>4. QED BY <2>1, <2>2, <2>3 DEF AnyInv, RecInv
<1>2. AnyInv /\ [DaemonNext]_daemonVars => AnyInv'
  <2> SUFFICES ASSUME AnyInv, [DaemonNext]_daemonVars PROVE AnyInv'
    OBVIOUS
  <2>1. CASE UNCHANGED daemonVars
    <3>1. UNCHANGED <<store, phase, recording, up, recovering, pc, processingID, job,
                      lifecycleMu, inserted, capture, fin, dismiss, feedback, sweep>>
      BY <2>1 DEF daemonVars, vars, pipelineVars, recorderVars, commandVars, storeVars,
        pillVars, lifeVars, workerVars, ghostVars
    <3>2. DaemonTypeOK'
      BY DaemonTypes DEF AnyInv
    <3>3. MarkInv' /\ RecoverInv' /\ TypedInv' /\ CopiedInv'
      BY <3>1
      DEF AnyInv, MarkInv, RecoverInv, TypedInv, DeliveredWasTyped, CopiedInv
    <3>4. MicOwned' /\ ListeningMeansRecording'
      BY <3>1 DEF AnyInv, MicOwned, ListeningMeansRecording
    <3>5. QED BY <3>2, <3>3, <3>4 DEF AnyInv
  <2>2. QED BY <2>1, NextKeepsAny, CommandKeepsAny DEF DaemonNext
<1>3. QED BY <1>1, <1>2, PTL DEF DaemonSpec

(* The state of the whole daemon, the records its commands have read and   *)
(* the list of cleanup included, is well typed.                            *)
THEOREM DaemonTypeCorrect == DaemonSpec => []DaemonTypeOK
<1>1. AnyInv => DaemonTypeOK
  BY DEF AnyInv
<1>2. QED BY <1>1, AnyAlways, PTL

(* Whatever stale record a Retry, a correction, a dismissal or a feedback  *)
(* saves, with or without a lock: History claims no delivery that did not  *)
(* happen (process, Retry, CorrectHistory, SetFormatterFeedback).          *)
THEOREM DaemonDeliveriesTyped == DaemonSpec => []DeliveredWasTyped
<1>1. AnyInv => DeliveredWasTyped
  BY DEF AnyInv, TypedInv
<1>2. QED BY <1>1, AnyAlways, PTL

(* No history command and no cleanup leaves the microphone open or         *)
(* Listening on the pill (Start, stopRecording, Cancel, setStatus).        *)
THEOREM DaemonListens == DaemonSpec => []MicOwned /\ []ListeningMeansRecording
<1>1. AnyInv => MicOwned /\ ListeningMeansRecording
  BY DEF AnyInv
<1>2. QED BY <1>1, AnyAlways, PTL
-----------------------------------------------------------------------------
(* The worker publishes an id only when nobody holds lifecycleMu. *)
LEMMA PublishesUnlocked ==
  ASSUME PipelineStep
  PROVE  processingID' \in {processingID, NoJob} \/ lifecycleMu = Free
<1>1. CASE Dequeue \/ WorkerStep
  BY <1>1 DEF Dequeue, WorkerStep, Load, Transcribe, SkipTranscribe, AsrAnswers,
    AsrFailsRetryable, AsrFailsForGood, CleanAnswers, FormatAnswers, MarkAttempted,
    TypeText, DeliverFails, RecordDelivered, RecordUndelivered, CancelledProcessing,
    DiscardAudio, Finish
<1>2. ASSUME NEW k \in Jobs, SpillSends(k) \/ BackoffElapses(k) \/ RetryRead(k)
                               \/ RecoveryEnqueue(k) \/ RecoverJob(k)
      PROVE  UNCHANGED processingID
  BY <1>2 DEF SpillSends, BackoffElapses, RetryRead, RecoveryEnqueue, RecoverJob,
    workerVars
<1>3. CASE RetryTimer \/ RetrySave \/ RecoveryTick
  BY <1>3 DEF RetryTimer, TimerFires, RetrySave, RecoveryTick, workerVars
<1>4. CASE Sigterm \/ Exit \/ Crash \/ Restart \/ Serve \/ ShowReady
  BY <1>4 DEF Sigterm, Exit, Crash, LoseMemory, Restart, Serve, ShowReady, workerVars
<1>5. QED BY <1>1, <1>2, <1>3, <1>4 DEF PipelineStep

(* Whatever a command has read and may still write or remove is known, and *)
(* no recording: start is the only one to write "recording", and for a new *)
(* id.  What is being corrected is not taken up by the worker meanwhile.    *)
Seen(j) == store[j].status \notin {"absent", "recording"}

HeldInv ==
  /\ dismiss # Nothing => dismiss.id \in Jobs /\ Seen(dismiss.id)
  /\ feedback # Nothing => /\ feedback.id \in Jobs /\ Seen(feedback.id)
                           /\ feedback.job.status \notin {"absent", "recording"}
  /\ \A x \in sweep : Seen(x[1])
  /\ lifecycleMu.op = "correct" =>
       /\ Alive /\ Seen(lifecycleMu.id)
       /\ lifecycleMu.job.status \notin {"absent", "recording"}
       /\ processingID # lifecycleMu.id

BaseInv == DaemonTypeOK /\ RecInv /\ RestInv /\ OwnInv /\ HeldInv

(* The user picks no recording that is being finalized, which is not busy  *)
(* for any command (the run delete_active has what happens otherwise).     *)
NoneRecording == "recording" \notin HistoryFrom \cup RetryFrom

LEMMA HistorySeen ==
  ASSUME NoneRecording, NEW j \in Jobs, InHistory(j)
  PROVE  Seen(j)
BY DaemonAssumption DEF NoneRecording, InHistory, Seen, JobStatus

LEMMA CommandSeen ==
  ASSUME NoneRecording, BaseInv, CommandStep, NEW j \in Jobs, store'[j] # store[j]
  PROVE  Seen(j) /\ Seen(j)'
<1>1. DeleteHistory(j) => Seen(j)
  BY HistorySeen DEF DeleteHistory
<1>2. QED BY <1>1, CommandSaves DEF BaseInv, HeldInv, Seen, Blank

LEMMA CommandKeepsHeld ==
  ASSUME NoneRecording, BaseInv, CommandStep
  PROVE  HeldInv'
<1> USE DEF BaseInv
<1>t. LockTypeOK /\ Alive /\ Alive' /\ UNCHANGED processingID
  BY CommandRest DEF RecInv, TypeOK, lifeVars, Alive, workerVars
<1>1. \A j \in Jobs : Seen(j) => Seen(j)'
  BY CommandSeen DEF Seen
<1>2. dismiss' # Nothing => dismiss'.id \in Jobs /\ Seen(dismiss'.id)
  <2>1. ASSUME NEW j \in Jobs, DismissLast(j) PROVE dismiss'.id = j /\ Seen(j)
    BY <2>1 DEF DismissLast, IsNewest, Seen
  <2>2. QED BY <2>1, CommandReads DEF HeldInv
<1>3. feedback' # Nothing =>
        /\ feedback'.id \in Jobs /\ Seen(feedback'.id)
        /\ feedback'.job.status \notin {"absent", "recording"}
  <2>1. ASSUME NEW j \in Jobs, SetFormatterFeedback(j)
        PROVE  feedback'.id = j /\ feedback'.job = store[j] /\ Seen(j)
    BY <2>1, HistorySeen DEF SetFormatterFeedback
  <2>2. QED BY <2>1, CommandReads DEF HeldInv, Seen
<1>4. \A x \in sweep' : x[1] \in Jobs /\ Seen(x[1])
  <2>1. CASE Cleanup
    BY <2>1 DEF Cleanup, Expired, Expires, Seen
  <2>2. QED BY <2>1, CommandReads DEF HeldInv, DaemonTypeOK
<1>5. lifecycleMu'.op = "correct" =>
        /\ lifecycleMu'.id \in Jobs /\ Seen(lifecycleMu'.id)
        /\ lifecycleMu'.job.status \notin {"absent", "recording"}
        /\ processingID # lifecycleMu'.id
  <2>1. ASSUME NEW j \in Jobs, CorrectHistory(j)
        PROVE  /\ lifecycleMu'.id = j /\ lifecycleMu'.job = store[j] /\ Seen(j)
               /\ processingID # j
    BY <2>1, HistorySeen DEF CorrectHistory, Busy
  <2>2. QED BY <1>t, <2>1, CommandReads DEF HeldInv, LockTypeOK, Free, Seen
<1>6. QED BY <1>t, <1>1, <1>2, <1>3, <1>4, <1>5 DEF HeldInv, Seen

LEMMA CommandKeepsRec ==
  ASSUME NoneRecording, BaseInv, DaemonTypeOK', CommandStep
  PROVE  RecInv' /\ RestInv' /\ OwnInv'
<1> USE DEF BaseInv, RecInv
<1>t. StoreTypeOK /\ PillTypeOK
  BY DEF TypeOK
<1>1. /\ Alive /\ Alive'
      /\ UNCHANGED <<up, pc, processingID, job, recovering, recording, capture, fin>>
      /\ phase'.phase = "recording" => phase' = phase
      /\ UNCHANGED <<queueVars, workerVars>>
  BY CommandRest DEF lifeVars, workerVars, recorderVars, Alive, SetStatus, ShowAction
<1>2. TypeOK' /\ RecorderVarsOK'
  BY DEF DaemonTypeOK, RecorderTypeOK, RecorderVarsOK
<1>3. MarkInv' /\ RecoverInv' /\ DownInv' /\ MicOwned' /\ ListeningMeansRecording'
  BY <1>1 DEF MarkInv, RecoverInv, DownInv, Alive, MicOwned, ListeningMeansRecording
<1>4. \A j \in Jobs : InFlight(j)' <=> InFlight(j)
  BY <1>1, QuietRefs
<1>5. \A j \in Jobs : store'[j].status = store[j].status \/ (Seen(j) /\ Seen(j)')
  BY CommandSeen
<1>6. \A j \in Jobs : Locked(j)' => Locked(j) \/ (Seen(j) /\ Seen(j)')
  <2>1. ASSUME NEW k \in Jobs, CorrectHistory(k), NEW j \in Jobs, Locked(j)'
        PROVE  Seen(j) /\ Seen(j)'
    BY <2>1, HistorySeen DEF CorrectHistory, Locked, Seen, storeVars
  <2>2. QED BY <2>1, CommandReads DEF Locked, Free
<1>7. KnownInv'
  BY <1>1, <1>4, <1>5, <1>6 DEF KnownInv, Seen
<1>8. ApartInv'
  <2> SUFFICES ASSUME recording # NoJob
               PROVE  /\ store'[recording].status = "recording"
                      /\ ~InFlight(recording)' /\ ~Locked(recording)'
                      /\ fin'[recording].pc = "off"
    BY <1>1 DEF ApartInv
  <2>1. recording \in Jobs
    BY <1>t DEF PillTypeOK
  <2>2. QED BY <1>1, <1>4, <1>5, <1>6, <2>1 DEF ApartInv, Seen
<1>9. LeftInv' /\ NoOrphanRecording' /\ RestInv'
  BY <1>1, <1>4, <1>5, <1>6 DEF LeftInv, NoOrphanRecording, RestInv, Seen
<1>10. OwnInv'
  BY <1>1, <1>5 DEF OwnInv, Unsaved, Seen
<1>11. QED BY <1>2, <1>3, <1>7, <1>8, <1>9, <1>10

LEMMA UnderneathKeepsBase ==
  ASSUME NoneRecording, BaseInv, DaemonTypeOK', Underneath
  PROVE  BaseInv'
<1> USE DEF BaseInv
<1>t. TypeOK /\ LockTypeOK /\ MarkInv /\ RecoverInv
  BY DEF RecInv, TypeOK
<1>1. RecInv'
  BY NextKeepsRec DEF Underneath
<1>2. RestInv' /\ OwnInv' /\ (\A j \in Jobs : Seen(j) => Seen(j)')
  <2>1. CASE PipelineOnly
    <3>1. PipelineStep /\ PipelineWrites
      BY <1>t, <2>1, PipelineOnlyWrites DEF PipelineOnly
    <3>2. RestInv'
      BY <1>t, <3>1, PipelineKeepsRest DEF NoneRecording
    <3>3. OwnInv'
      BY <2>1, PipelineKeepsOwn
    <3>4. \A j \in Jobs : Seen(j) => Seen(j)'
      BY <3>1 DEF PipelineWrites, KeepsForeign, Foreign, Seen
    <3>5. QED BY <3>2, <3>3, <3>4
  <2>2. CASE RecorderStep
    <3>1. RestInv' /\ OwnInv'
      BY <2>2, RecorderKeepsRest, RecorderKeepsOwn
    <3>2. \A j \in Jobs : Seen(j) => store'[j] = store[j]
      BY <2>2, RecorderFrames DEF Seen
    <3>3. QED BY <3>1, <3>2 DEF Seen
  <2>3. QED BY <2>1, <2>2 DEF Underneath, Next
<1>3. lifecycleMu'.op = "correct" =>
        /\ UNCHANGED lifecycleMu /\ (Alive => Alive')
        /\ processingID' \in {processingID, NoJob}
  <2>1. CASE PipelineOnly
    BY <2>1, LockMoves, PublishesUnlocked DEF PipelineOnly, Free, RetryRead
  <2>2. CASE RecorderStep
    BY <2>2, RecorderRest DEF lifeVars, workerVars, Alive
  <2>3. QED BY <2>1, <2>2 DEF Underneath, Next
<1>4. HeldInv'
  <2>1. /\ dismiss' \in {dismiss, Nothing} /\ feedback' \in {feedback, Nothing}
        /\ sweep' \in {sweep, {}}
    BY DEF Underneath, commandVars
  <2>2. sweep \subseteq Jobs \X {"audio", "dir"} \X Nat
    BY DEF DaemonTypeOK
  <2>3. dismiss' # Nothing => dismiss'.id \in Jobs /\ Seen(dismiss'.id)
    BY <2>1 DEF HeldInv
  <2>4. feedback' # Nothing =>
          /\ feedback'.id \in Jobs /\ Seen(feedback'.id)
          /\ feedback'.job.status \notin {"absent", "recording"}
    BY <2>1 DEF HeldInv
  <2>5. \A x \in sweep' : x[1] \in Jobs /\ Seen(x[1])
    BY <2>1, <2>2 DEF HeldInv
  <2>6. lifecycleMu'.op = "correct" =>
          /\ Alive' /\ lifecycleMu'.id \in Jobs /\ Seen(lifecycleMu'.id)
          /\ lifecycleMu'.job.status \notin {"absent", "recording"}
          /\ processingID' # lifecycleMu'.id
    BY <1>t, <1>3 DEF HeldInv, LockTypeOK, Jobs, NoJob
  <2>7. QED BY <1>2, <2>3, <2>4, <2>5, <2>6 DEF HeldInv, Seen
<1>5. QED BY <1>1, <1>2, <1>4

LEMMA NextKeepsBase ==
  ASSUME NoneRecording, BaseInv, [DaemonNext]_daemonVars
  PROVE  BaseInv' /\ [FinalizesOwn]_daemonVars
<1>1. DaemonTypeOK'
  BY DaemonTypes DEF BaseInv
<1>2. CASE UNCHANGED daemonVars
  <2>1. UNCHANGED <<vars, commandVars, store, lifecycleMu, fin, up, processingID, queueVars,
                    workerVars>>
    BY <1>2 DEF daemonVars, vars, pipelineVars, storeVars, recorderVars, lifeVars, workerVars
  <2>2. RecInv'
    BY <2>1, NextKeepsRec DEF BaseInv
  <2>3. \A j \in Jobs : InFlight(j)' <=> InFlight(j)
    BY <2>1, QuietRefs
  <2>4. RestInv' /\ OwnInv' /\ HeldInv'
    BY <2>1, <2>3
    DEF BaseInv, RestInv, OwnInv, Unsaved, HeldInv, Locked, Alive, Seen, commandVars
  <2>5. QED BY <1>1, <1>2, <2>2, <2>4 DEF BaseInv
<1>3. CASE Underneath
  <2>1. BaseInv'
    BY <1>1, <1>3, UnderneathKeepsBase
  <2>2. [FinalizesOwn]_vars
    BY <1>3, NextKeepsRec DEF BaseInv, Underneath
  <2>3. UNCHANGED vars => FinalizesOwn
    BY DEF vars, recorderVars, FinalizesOwn
  <2>4. QED BY <2>1, <2>2, <2>3
<1>4. CASE CommandStep
  <2>1. BaseInv'
    BY <1>1, <1>4, CommandKeepsRec, CommandKeepsHeld DEF BaseInv
  <2>2. FinalizesOwn
    BY <1>4, CommandRest DEF recorderVars, FinalizesOwn
  <2>3. QED BY <2>1, <2>2
<1>5. QED BY <1>2, <1>3, <1>4 DEF DaemonNext

LEMMA BaseInitially == DaemonInit => BaseInv
<1> SUFFICES ASSUME DaemonInit PROVE BaseInv
  OBVIOUS
<1>1. RecInv /\ RestInv /\ OwnInv
  BY WholeInitially DEF DaemonInit, WholeInv
<1>2. DaemonTypeOK
  BY <1>1, BlankType
  DEF DaemonInit, RecInv, RecorderVarsOK, DaemonTypeOK, RecorderTypeOK, Nothing, NoFile
<1>3. HeldInv
  BY DEF DaemonInit, Init, PipelineInit, HeldInv, Free
<1>4. QED BY <1>1, <1>2, <1>3 DEF BaseInv

LEMMA BaseAlways ==
  ASSUME NoneRecording
  PROVE  DaemonSpec => []BaseInv /\ [][FinalizesOwn]_daemonVars
<1>1. BaseInv /\ [DaemonNext]_daemonVars => BaseInv' /\ [FinalizesOwn]_daemonVars
  BY NextKeepsBase
<1>2. QED BY <1>1, BaseInitially, PTL DEF DaemonSpec

(* Next to every command and the cleanup loop, too, a job in state         *)
(* recording is being recorded or finalized: none of their stale saves and *)
(* removals reaches it (DismissLast, SetFormatterFeedback, CorrectHistory, *)
(* DeleteHistory, cleanup, stopRecording).                                 *)
THEOREM NoneStrandedByCommands ==
  ASSUME NoneRecording
  PROVE  DaemonSpec => []NoOrphanRecording
<1>1. BaseInv => NoOrphanRecording
  BY DEF BaseInv, RecInv
<1>2. QED BY <1>1, BaseAlways, PTL

(* Nor does a command make a recording be finalized a second time (Stop,   *)
(* Cancel, stopRecording).                                                 *)
THEOREM FinalizedOnceByCommands ==
  ASSUME NoneRecording
  PROVE  DaemonSpec => OneFinalizer
<1>1. [FinalizesOwn]_daemonVars =>
        [\A j \in Jobs : fin[j].pc = "off" /\ fin'[j].pc # "off"
                           => store[j].status = "recording"]_vars
  BY DEF FinalizesOwn, daemonVars
<1>2. QED BY <1>1, BaseAlways, PTL DEF OneFinalizer
-----------------------------------------------------------------------------
(* Only the text of the job being processed is typed. *)
LEMMA TypesOwn ==
  ASSUME TypeOK, PipelineStep, NEW j \in Jobs, processingID # j
  PROVE  inserted'[j] = inserted[j]
<1>1. CASE TypeText
  BY <1>1 DEF TypeText, TypeOK, HistoryTypeOK
<1>2. CASE (Dequeue \/ WorkerStep) /\ ~TypeText
  BY <1>2 DEF Dequeue, WorkerStep, Load, Transcribe, SkipTranscribe, AsrAnswers,
    AsrFailsRetryable, AsrFailsForGood, CleanAnswers, FormatAnswers, MarkAttempted,
    DeliverFails, RecordDelivered, RecordUndelivered, CancelledProcessing, DiscardAudio,
    Finish, ghostVars
<1>3. ASSUME NEW k \in Jobs, SpillSends(k) \/ BackoffElapses(k) \/ RetryRead(k)
                               \/ RecoveryEnqueue(k) \/ RecoverJob(k)
      PROVE  UNCHANGED inserted
  BY <1>3 DEF SpillSends, BackoffElapses, RetryRead, RecoveryEnqueue, RecoverJob, ghostVars
<1>4. CASE RetryTimer \/ RetrySave \/ RecoveryTick
  BY <1>4 DEF RetryTimer, TimerFires, RetrySave, RecoveryTick, ghostVars
<1>5. CASE Sigterm \/ Exit \/ Crash \/ Restart \/ Serve \/ ShowReady
  BY <1>5 DEF Sigterm, Exit, Crash, Restart, Serve, ShowReady, ghostVars
<1>6. QED BY <1>1, <1>2, <1>3, <1>4, <1>5 DEF PipelineStep

(* A record CorrectHistory holds still stands, or the job was dismissed or *)
(* removed meanwhile; and if the job owes no text, then neither the record *)
(* nor anything in memory leads to another one.                            *)
Gone == {"cancelled", "deleted"}

Held(j) ==
  /\ store[j] = lifecycleMu.job \/ store[j].status \in Gone
  /\ \/ Owed(j)
     \/ /\ inserted[j] = retries[j] + 1
        /\ \/ lifecycleMu.job.status \in Gone \cup {"delivered"}
           \/ lifecycleMu.job.status = "failed" /\ ~InFlight(j)

CreditInv ==
  /\ AccountInv /\ StageInv
  /\ lifecycleMu.op = "correct" => Held(lifecycleMu.id)
  /\ feedback = Nothing

LEMMA HeldFrame ==
  ASSUME NEW j \in Jobs, Held(j), UNCHANGED lifecycleMu,
         store'[j] = store[j] \/ store'[j].status \in Gone,
         inserted'[j] = inserted[j], retries'[j] = retries[j],
         store[j].status \notin {"queued", "retry_wait"} /\ ~InFlight(j) => ~InFlight(j)'
  PROVE  Held(j)'
<1>1. Owed(j)' <=> Owed(j)
  BY DEF Owed
<1>2. CASE Owed(j)
  BY <1>1, <1>2 DEF Held
<1>3. CASE ~Owed(j)
  BY <1>3 DEF Held, Gone
<1>4. QED BY <1>2, <1>3

LEMMA UnderneathKeepsCredit ==
  ASSUME BaseInv, CreditInv, Underneath
  PROVE  CreditInv'
<1> USE DEF CreditInv
<1>t. TypeOK /\ LockTypeOK /\ MarkInv /\ RecoverInv
  BY DEF BaseInv, RecInv, TypeOK
<1>1. feedback' = Nothing
  BY DEF Underneath, commandVars
<1>2. CASE PipelineOnly
  <2>1. PipelineStep /\ PipelineWrites
    BY <1>t, <1>2, PipelineOnlyWrites DEF PipelineOnly
  <2>2. AccountInv' /\ StageInv'
    BY <1>t, <2>1, StepAccount DEF IInv
  <2>3. ASSUME lifecycleMu'.op = "correct" PROVE Held(lifecycleMu.id)' /\ UNCHANGED lifecycleMu
    <3>1. UNCHANGED lifecycleMu
      BY <2>1, <2>3, LockMoves DEF Free, RetryRead
    <3>2. PICK k \in Jobs : k = lifecycleMu.id
      BY <1>t, <2>3, <3>1 DEF LockTypeOK
    <3>3. Held(k) /\ Alive /\ processingID # k
      BY <2>3, <3>1, <3>2 DEF BaseInv, HeldInv
    <3>4. ~RetrySave /\ ~RecoverJob(k)
      BY <2>3, <3>1, <3>3 DEF RetrySave, RecoverJob, Alive
    <3>5. store'[k] = store[k]
      BY <2>1, <3>3, <3>4 DEF PipelineWrites, WritesOwn, AtWork, RetrySaves
    <3>6. inserted'[k] = inserted[k] /\ retries'[k] = retries[k]
      BY <1>t, <2>1, <3>3, <3>4, TypesOwn, PipelineAudio
    <3>7. store[k].status \notin {"queued", "retry_wait"} /\ ~InFlight(k) => ~InFlight(k)'
      BY <2>1, <3>4 DEF PipelineWrites, TakesUpOwn, RetrySaves
    <3>8. QED BY <3>1, <3>2, <3>3, <3>5, <3>6, <3>7, HeldFrame
  <2>4. QED BY <1>1, <2>2, <2>3
<1>3. CASE RecorderStep
  <2>1. AccountInv' /\ StageInv'
    BY <1>3, RecorderKeepsCredit DEF BaseInv
  <2>2. UNCHANGED <<lifecycleMu, processingID, inserted, retries>>
    BY <1>3, RecorderRest DEF workerVars, ghostVars
  <2>3. ASSUME lifecycleMu'.op = "correct" PROVE Held(lifecycleMu.id)'
    <3>1. PICK k \in Jobs : k = lifecycleMu.id
      BY <1>t, <2>2, <2>3 DEF LockTypeOK
    <3>2. Held(k) /\ Locked(k) /\ Seen(k)
      BY <2>2, <2>3, <3>1 DEF BaseInv, HeldInv, Locked
    <3>3. store'[k] = store[k] /\ (InFlight(k)' => InFlight(k))
      BY <1>3, <3>2, RecorderFrames DEF BaseInv, Seen
    <3>4. QED BY <2>2, <3>1, <3>2, <3>3, HeldFrame
  <2>4. QED BY <1>1, <2>1, <2>2, <2>3
<1>4. QED BY <1>2, <1>3 DEF Underneath, Next

LEMMA CommandKeepsCredit ==
  ASSUME "feedback" \notin Commands, BaseInv, CreditInv, CommandStep
  PROVE  CreditInv'
<1> USE DEF CreditInv
<1>t. TypeOK /\ LockTypeOK /\ WorkerTypeOK
  BY DEF BaseInv, RecInv, TypeOK
<1>1. /\ Alive /\ UNCHANGED <<up, recovering, pc, processingID, job, inserted, retries>>
      /\ UNCHANGED <<queueVars, workerVars>>
  BY CommandRest DEF lifeVars, workerVars
<1>2. \A j \in Jobs : InFlight(j)' <=> InFlight(j)
  BY <1>1, QuietRefs
<1>3. ASSUME NEW j \in Jobs, CorrectSave, Locked(j) PROVE Held(j)
  BY <1>3 DEF CorrectSave, Locked
<1>saves. \A j \in Jobs :
            \/ store'[j] = store[j] \/ store'[j].status \in Gone
            \/ CorrectSave /\ Locked(j) /\ store'[j].status = lifecycleMu.job.status
  BY CommandSaves DEF BaseInv, Locked, Gone, Blank
<1>4. AccountInv'
  <2> SUFFICES ASSUME NEW j \in Jobs, ~Owed(j) PROVE inserted[j] = retries[j] + 1 /\ Settled(j)'
    BY <1>1 DEF AccountInv, Account, Owed
  <2>1. inserted[j] = retries[j] + 1 /\ Settled(j)
    BY DEF AccountInv, Account
  <2>s. \/ store'[j] = store[j] \/ store'[j].status \in Gone
        \/ CorrectSave /\ Locked(j) /\ store'[j].status = lifecycleMu.job.status
    BY <1>saves
  <2>2. CASE store'[j] = store[j]
    BY <1>1, <1>2, <2>1, <2>2 DEF Settled
  <2>3. CASE store'[j].status \in Gone
    BY <2>1, <2>3 DEF Settled, Gone
  <2>4. ASSUME CorrectSave, Locked(j), store'[j].status = lifecycleMu.job.status
        PROVE  Settled(j)'
    BY <1>2, <1>3, <2>4 DEF Held, Settled, Gone
  <2>5. QED BY <2>1, <2>2, <2>3, <2>4, <2>s
<1>5. StageInv'
  <2>1. pc # "idle" => \/ store'[processingID] = store[processingID]
                       \/ store'[processingID].status \in Gone
    BY <1>t, <1>saves DEF WorkerTypeOK, BaseInv, HeldInv, CorrectSave, Locked
  <2>2. QED BY <1>1, <2>1 DEF StageInv, Alive, Owed, BeforeTyped, Gone
<1>6. ASSUME lifecycleMu'.op = "correct" PROVE Held(lifecycleMu.id)'
  <2>1. ASSUME NEW j \in Jobs, CorrectHistory(j) PROVE Held(j)' /\ lifecycleMu'.id = j
    <3>1. /\ lifecycleMu' = [op |-> "correct", id |-> j, job |-> store[j]]
          /\ processingID # j /\ up = "running" /\ store'[j] = store[j]
      BY <2>1 DEF CorrectHistory, Busy, InHistory, Serving, storeVars
    <3>2. Account(j)
      BY DEF AccountInv
    <3>3. CASE Owed(j)
      BY <1>1, <3>1, <3>3 DEF Held, Owed
    <3>4. CASE inserted[j] = retries[j] + 1 /\ Settled(j)
      <4>1. \/ store[j].status \in Gone \cup {"delivered"}
            \/ store[j].status = "failed" /\ ~InFlight(j)
        BY <3>1, <3>4 DEF Settled, Gone
      <4>2. QED BY <1>1, <1>2, <3>1, <3>4, <4>1 DEF Held
    <3>5. QED BY <3>1, <3>2, <3>3, <3>4 DEF Account
  <2>2. CASE UNCHANGED lifecycleMu
    <3>1. PICK k \in Jobs : k = lifecycleMu.id
      BY <1>t, <1>6, <2>2 DEF LockTypeOK
    <3>2. Held(k) /\ ~CorrectSave
      BY <1>6, <2>2, <3>1 DEF CorrectSave, Free
    <3>3. store'[k] = store[k] \/ store'[k].status \in Gone
      BY <3>2, <1>saves
    <3>4. Held(k)'
      BY <1>1, <1>2, <2>2, <3>2, <3>3, HeldFrame
    <3>5. QED BY <2>2, <3>1, <3>4
  <2>3. QED BY <1>6, <2>1, <2>2, CommandReads DEF Free
<1>7. feedback' = Nothing
  BY CommandReads DEF SetFormatterFeedback
<1>8. QED BY <1>4, <1>5, <1>6, <1>7

(* No command but feedback makes the worker type a text once more than was *)
(* asked for, although DismissLast and cleanup write next to it without a  *)
(* lock (the run feedback has what SetFormatterFeedback does).             *)
THEOREM TypedOnceByCommands ==
  ASSUME NoneRecording, "feedback" \notin Commands
  PROVE  DaemonSpec => []InsertedOnce
<1>1. DaemonInit => CreditInv
  BY WholeInitially
  DEF DaemonInit, WholeInv, Init, PipelineInit, CreditInv, Free
<1>2. BaseInv /\ CreditInv /\ [DaemonNext]_daemonVars => CreditInv'
  <2> SUFFICES ASSUME BaseInv, CreditInv, [DaemonNext]_daemonVars PROVE CreditInv'
    OBVIOUS
  <2>1. CASE UNCHANGED daemonVars
    <3>1. UNCHANGED <<store, up, recovering, pc, processingID, job, inserted, retries,
                      lifecycleMu, feedback>> /\ UNCHANGED <<queueVars, workerVars>>
      BY <2>1 DEF daemonVars, vars, pipelineVars, storeVars, lifeVars, workerVars,
        ghostVars, commandVars
    <3>2. \A j \in Jobs : InFlight(j)' <=> InFlight(j)
      BY <3>1, QuietRefs
    <3>3. AccountInv' /\ StageInv'
      BY <3>1, <3>2
      DEF CreditInv, AccountInv, Account, Settled, StageInv, Owed, Alive, BeforeTyped
    <3>4. lifecycleMu.op = "correct" => lifecycleMu.id \in Jobs
      BY DEF BaseInv, RecInv, TypeOK, LockTypeOK
    <3>5. QED BY <3>1, <3>2, <3>3, <3>4 DEF CreditInv, Held, Owed
  <2>2. QED BY <2>1, UnderneathKeepsCredit, CommandKeepsCredit DEF DaemonNext
<1>3. BaseInv /\ CreditInv => InsertedOnce
  BY DEF BaseInv, RecInv, TypeOK, HistoryTypeOK, CreditInv, AccountInv, Account, Owed,
    InsertedOnce
<1>4. QED BY <1>1, <1>2, <1>3, BaseAlways, PTL DEF DaemonSpec
-----------------------------------------------------------------------------
(* What was formatted has been transcribed: no record, on disk or read by  *)
(* anybody, is eligible for feedback without its transcript.               *)
Sound(rec) == rec.eligible => rec.transcript

HasText == {"clean", "format", "delivering", "typing", "typed", "untyped"}

WorkSound == Sound(job) /\ (pc \in HasText => job.transcript)

SoundInv == /\ \A j \in Jobs : Sound(store[j]) /\ Sound(fin[j].job)
            /\ WorkSound /\ Sound(lifecycleMu.job) /\ Sound(dismiss.job)
            /\ feedback # Nothing => feedback.job.transcript

(* What the worker saves is its copy, which only gains a transcript.       *)
LEMMA WorkerRecords ==
  ASSUME TypeOK, WorkSound, Dequeue \/ WorkerStep
  PROVE  \/ /\ UNCHANGED <<store, job>>
            /\ pc' \in HasText => pc \in HasText
            /\ \A j \in Jobs : AtWork(j)' => AtWork(j)
         \/ Load \/ Finish
         \/ \E rec : /\ Sound(rec) /\ (job.transcript => rec.transcript)
                     /\ AtWork(processingID) /\ Save(processingID, rec)
                     /\ job' \in {job, rec} /\ UNCHANGED processingID
                     /\ pc' \in HasText => job'.transcript
<1>t. job \in Job
  BY DEF TypeOK, WorkerTypeOK
<1> USE DEF HasText, AtWork, WorkSound, Sound
<1>1. CASE Dequeue \/ TypeText \/ DeliverFails \/ DiscardAudio
  BY <1>1 DEF Dequeue, TypeText, DeliverFails, DiscardAudio, storeVars
<1>2. CASE Transcribe
  <2> DEFINE rec == [job EXCEPT !.status = "transcribing"]
  <2>1. Sound(rec) /\ rec.transcript = job.transcript
    BY <1>t DEF Job
  <2>2. job' = rec /\ Save(processingID, rec)
    BY <1>2 DEF Transcribe, SaveStage
  <2> HIDE DEF rec
  <2>3. QED BY <1>2, <2>1, <2>2 DEF Transcribe
<1>3. CASE SkipTranscribe
  <2> DEFINE rec == [job EXCEPT !.status = "cleaning"]
  <2>1. Sound(rec) /\ rec.transcript = job.transcript
    BY <1>t DEF Job
  <2>2. job' = rec /\ Save(processingID, rec)
    BY <1>3 DEF SkipTranscribe, SaveStage
  <2> HIDE DEF rec
  <2>3. QED BY <1>3, <2>1, <2>2 DEF SkipTranscribe
<1>4. CASE AsrAnswers
  <2> DEFINE rec == [[job EXCEPT !.transcript = TRUE] EXCEPT !.status = "cleaning"]
  <2>1. Sound(rec) /\ rec.transcript
    BY <1>t DEF Job
  <2>2. job' = rec /\ Save(processingID, rec)
    BY <1>4 DEF AsrAnswers, SaveStage
  <2> HIDE DEF rec
  <2>3. QED BY <1>4, <2>1, <2>2 DEF AsrAnswers
<1>5. CASE CleanAnswers
  <2>1. PICK s \in JobStatus, final \in BOOLEAN :
          LET rec == [job EXCEPT !.eligible = job.long, !.final = final, !.status = s]
          IN  job' = rec /\ Save(processingID, rec)
    <3>1. CASE job.long
      <4>1. [[job EXCEPT !.eligible = job.long] EXCEPT !.status = "formatting"]
              = [job EXCEPT !.eligible = job.long, !.final = job.final,
                            !.status = "formatting"]
        BY <1>t DEF Job
      <4>2. QED BY <1>5, <1>t, <3>1, <4>1 DEF CleanAnswers, SaveStage, JobStatus, Job
    <3>2. CASE ~job.long
      <4>1. [[[job EXCEPT !.eligible = job.long] EXCEPT !.final = TRUE]
               EXCEPT !.status = "delivering"]
              = [job EXCEPT !.eligible = job.long, !.final = TRUE,
                            !.status = "delivering"]
        BY <1>t DEF Job
      <4>2. QED BY <1>5, <1>t, <3>2, <4>1 DEF CleanAnswers, SaveStage, JobStatus, Job
    <3>3. QED BY <3>1, <3>2
  <2> DEFINE rec == [job EXCEPT !.eligible = job.long, !.final = final, !.status = s]
  <2>2. Sound(rec) /\ rec.transcript
    BY <1>5, <1>t DEF CleanAnswers, Job
  <2>3. job' = rec /\ Save(processingID, rec)
    BY <2>1
  <2> HIDE DEF rec
  <2>4. QED BY <1>5, <2>2, <2>3 DEF CleanAnswers
<1>6. CASE FormatAnswers
  <2> DEFINE rec == [[job EXCEPT !.final = TRUE] EXCEPT !.status = "delivering"]
  <2>1. Sound(rec) /\ rec.transcript
    BY <1>6, <1>t DEF FormatAnswers, Job
  <2>2. job' = rec /\ Save(processingID, rec)
    BY <1>6 DEF FormatAnswers, SaveStage
  <2> HIDE DEF rec
  <2>3. QED BY <1>6, <2>1, <2>2 DEF FormatAnswers
<1>7. CASE MarkAttempted
  <2> DEFINE rec == [job EXCEPT !.attempted = TRUE]
  <2>1. Sound(rec) /\ rec.transcript
    BY <1>7, <1>t DEF MarkAttempted, Job
  <2>2. job' = rec /\ Save(processingID, rec)
    BY <1>7 DEF MarkAttempted
  <2> HIDE DEF rec
  <2>3. QED BY <1>7, <2>1, <2>2 DEF MarkAttempted
<1>8. CASE AsrFailsRetryable \/ AsrFailsForGood
  <2>n. job.attempts + 1 \in Nat /\ {"retry_wait", "failed"} \subseteq JobStatus
    BY <1>t DEF Job, JobStatus
  <2>1. PICK s \in JobStatus, n \in Nat :
          Save(processingID, [job EXCEPT !.status = s, !.attempts = n])
    <3>1. CASE AsrFailsRetryable
      BY <2>n, <3>1 DEF AsrFailsRetryable
    <3>2. CASE AsrFailsForGood
      BY <2>n, <3>2 DEF AsrFailsForGood
    <3>3. QED BY <1>8, <3>1, <3>2
  <2> DEFINE rec == [job EXCEPT !.status = s, !.attempts = n]
  <2>2. Sound(rec) /\ rec.transcript = job.transcript /\ Save(processingID, rec)
    BY <1>t, <2>1 DEF Job
  <2> HIDE DEF rec
  <2>3. QED BY <1>8, <2>2 DEF AsrFailsRetryable, AsrFailsForGood
<1>9. CASE RecordDelivered \/ RecordUndelivered \/ CancelledProcessing
  <2>1. PICK s \in JobStatus : Save(processingID, [job EXCEPT !.status = s])
    BY <1>9 DEF RecordDelivered, RecordUndelivered, CancelledProcessing, JobStatus
  <2> DEFINE rec == [job EXCEPT !.status = s]
  <2>2. Sound(rec) /\ rec.transcript = job.transcript /\ Save(processingID, rec)
    BY <1>t, <2>1 DEF Job
  <2> HIDE DEF rec
  <2>3. QED BY <1>9, <2>2 DEF RecordDelivered, RecordUndelivered, CancelledProcessing
<1>10. QED
  BY <1>1, <1>2, <1>3, <1>4, <1>5, <1>6, <1>7, <1>8, <1>9 DEF WorkerStep

(* Elsewhere in the pipeline only a Retry and recovery write a record, and *)
(* the worker's copy is at most lost.                                      *)
LEMMA OtherRecords ==
  ASSUME TypeOK, PipelineStep, ~(Dequeue \/ WorkerStep)
  PROVE  /\ \/ UNCHANGED store
            \/ RetrySave /\ \E rec : /\ Save(lifecycleMu.id, rec)
                                     /\ SameText(rec, lifecycleMu.job)
            \/ \E k \in Jobs : RecoverJob(k)
         /\ \/ UNCHANGED <<job, pc, processingID>>
            \/ job' = Blank("absent") /\ pc' = "idle"
<1>1. ASSUME NEW k \in Jobs, SpillSends(k) \/ BackoffElapses(k) \/ RetryRead(k)
                               \/ RecoveryEnqueue(k)
      PROVE  UNCHANGED <<store, job, pc, processingID>>
  BY <1>1 DEF SpillSends, BackoffElapses, RetryRead, RecoveryEnqueue, storeVars, workerVars
<1>2. ASSUME NEW k \in Jobs, RecoverJob(k) PROVE UNCHANGED <<job, pc, processingID>>
  BY <1>2 DEF RecoverJob, workerVars
<1>3. CASE RetryTimer \/ RecoveryTick \/ Sigterm \/ Restart \/ Serve \/ ShowReady
  BY <1>3 DEF RetryTimer, TimerFires, RecoveryTick, Sigterm, Restart, Serve, ShowReady,
    storeVars, workerVars
<1>4. CASE RetrySave
  <2> DEFINE rec == [lifecycleMu.job EXCEPT !.status = "queued", !.attempted = FALSE]
  <2>1. Save(lifecycleMu.id, rec) /\ SameText(rec, lifecycleMu.job)
    BY <1>4 DEF RetrySave, TypeOK, LockTypeOK, Job, SameText
  <2> HIDE DEF rec
  <2>2. QED BY <1>4, <2>1 DEF RetrySave, workerVars
<1>5. CASE Exit \/ Crash
  BY <1>5 DEF Exit, Crash, LoseMemory, storeVars
<1>6. QED BY <1>1, <1>2, <1>3, <1>4, <1>5 DEF PipelineStep

LEMMA UnderneathKeepsSound ==
  ASSUME TypeOK, RecorderVarsOK, SoundInv, Underneath
  PROVE  SoundInv'
<1> USE DEF SoundInv
<1>t. store \in [Jobs -> Job] /\ fin \in [Jobs -> Fin] /\ WorkerTypeOK
  BY DEF TypeOK, StoreTypeOK, RecorderVarsOK
<1>b. \A s : Sound(Blank(s))
  BY DEF Sound, Blank
<1>save. ASSUME NEW k, NEW rec, Save(k, rec), Sound(rec)
         PROVE  \A j \in Jobs : Sound(store'[j])
  BY <1>t, <1>save DEF Save
<1>1. Sound(dismiss.job)' /\ (feedback' # Nothing => feedback'.job.transcript)
  BY <1>b DEF Underneath, commandVars, Nothing
<1>2. CASE PipelineOnly
  <2>1. PipelineStep /\ (fin' = fin \/ fin' = [j \in Jobs |-> NoFin])
    BY <1>2 DEF PipelineOnly, recorderVars
  <2>2. \A j \in Jobs : Sound(fin'[j].job)
    BY <1>b, <2>1 DEF NoFin
  <2>3. Sound(lifecycleMu'.job)
    BY <1>b, <2>1, LockMoves DEF Free, RetryRead
  <2>4. (\A j \in Jobs : Sound(store'[j])) /\ WorkSound'
    <3>1. CASE Dequeue \/ WorkerStep
      <4>1. CASE /\ UNCHANGED <<store, job>>
                 /\ pc' \in HasText => pc \in HasText
        BY <4>1 DEF WorkSound
      <4>2. CASE Load
        BY <1>t, <4>2 DEF Load, storeVars, WorkSound, HasText, WorkerTypeOK
      <4>3. CASE Finish
        BY <1>b, <4>3 DEF Finish, storeVars, WorkSound, HasText
      <4>4. ASSUME NEW rec, Sound(rec), Save(processingID, rec), job' \in {job, rec},
                   pc' \in HasText => job'.transcript
            PROVE  (\A j \in Jobs : Sound(store'[j])) /\ WorkSound'
        BY <1>save, <4>4 DEF WorkSound
      <4>5. QED BY <3>1, <4>1, <4>2, <4>3, <4>4, WorkerRecords
    <3>2. CASE ~(Dequeue \/ WorkerStep)
      <4>1. WorkSound'
        BY <1>b, <2>1, <3>2, OtherRecords DEF WorkSound, HasText
      <4>2. ASSUME NEW rec, Save(lifecycleMu.id, rec), SameText(rec, lifecycleMu.job)
            PROVE  \A j \in Jobs : Sound(store'[j])
        BY <1>save, <4>2 DEF SameText, Sound
      <4>3. ASSUME NEW k \in Jobs, RecoverJob(k) PROVE \A j \in Jobs : Sound(store'[j])
        <5> DEFINE rec == [store[k] EXCEPT !.status = RecoveredStatus(k)]
        <5>1. Save(k, rec)
          BY <4>3 DEF RecoverJob
        <5>2. Sound(rec)
          BY <1>t DEF Job, Sound
        <5> HIDE DEF rec
        <5>3. QED BY <1>save, <5>1, <5>2
      <4>4. QED BY <2>1, <3>2, <4>1, <4>2, <4>3, OtherRecords
    <3>3. QED BY <3>1, <3>2
  <2>5. QED BY <1>1, <2>2, <2>3, <2>4
<1>3. CASE RecorderStep
  <2>1. WorkSound' /\ Sound(lifecycleMu'.job)
    BY <1>3, RecorderRest DEF workerVars, WorkSound
  <2>2. ASSUME NEW k \in Jobs, NEW s, Save(k, Blank(s))
        PROVE  \A j \in Jobs : Sound(store'[j])
    BY <1>b, <1>save, <2>2
  <2>f. \A j \in Jobs : Sound(fin'[j].job)
    BY <1>b, <1>t, <1>3, RecorderReads
  <2>3. ASSUME NEW k \in Jobs, RecorderQuiet(k) \/ StopRead PROVE UNCHANGED store
    BY <2>3 DEF RecorderQuiet, StopRead, CaptureChunk, AutoStop, CaptureTurns,
      CaptureStalls, CaptureResumes, CaptureDies, StopDetach, CancelDetach, CloseCapture,
      RealtimeGet, FinLoad, FinDiscard, FinShown, storeVars
  <2>4. ASSUME NEW k \in Jobs, RecorderSaves(k) PROVE \A j \in Jobs : Sound(store'[j])
    <3>1. fin[k].job \in Job
      BY <1>t DEF Fin
    <3>2. CASE RealtimeSave(k)
      <4> DEFINE rec == [fin[k].job EXCEPT !.transcript = TRUE]
      <4>1. Save(k, rec) /\ Sound(rec)
        BY <3>1, <3>2 DEF RealtimeSave, Job, Sound
      <4> HIDE DEF rec
      <4>2. QED BY <1>save, <4>1
    <3>3. CASE FinCancelled(k)
      <4> DEFINE rec == [fin[k].job EXCEPT !.status = "cancelled"]
      <4>1. Save(k, rec) /\ Sound(rec)
        BY <3>1, <3>3 DEF FinCancelled, Job, Sound
      <4> HIDE DEF rec
      <4>2. QED BY <1>save, <4>1
    <3>4. CASE FinFailed(k) \/ FinQueued(k)
      <4>1. PICK s \in {"failed", "queued"}, long \in BOOLEAN :
              Save(k, [fin[k].job EXCEPT !.status = s, !.long = long])
        BY <3>4 DEF FinFailed, FinQueued
      <4> DEFINE rec == [fin[k].job EXCEPT !.status = s, !.long = long]
      <4>2. Save(k, rec) /\ Sound(rec)
        BY <3>1, <4>1 DEF Job, Sound
      <4> HIDE DEF rec
      <4>3. QED BY <1>save, <4>2
    <3>5. QED BY <2>4, <3>2, <3>3, <3>4 DEF RecorderSaves
  <2>5. \A j \in Jobs : Sound(store'[j]) /\ Sound(fin'[j].job)
    <3>1. ASSUME NEW k \in Jobs,
                 StartFails(k) \/ \E handsFree \in BOOLEAN : Start(k, handsFree)
          PROVE  \E s : Save(k, Blank(s))
      BY <3>1 DEF StartFails, Start
    <3>2. QED BY <1>3, <2>f, <2>2, <2>3, <2>4, <3>1, RecorderCases DEF Jobs
  <2>6. QED BY <1>1, <2>1, <2>5
<1>4. QED BY <1>2, <1>3 DEF Underneath, Next

LEMMA CommandKeepsSound ==
  ASSUME DaemonTypeOK, SoundInv, CommandStep
  PROVE  SoundInv'
<1> USE DEF SoundInv
<1>b. \A s : Sound(Blank(s))
  BY DEF Sound, Blank
<1>1. WorkSound' /\ UNCHANGED fin
  BY CommandRest DEF workerVars, recorderVars, WorkSound
<1>2. \A j \in Jobs : Sound(store'[j])
  BY <1>b, CommandSaves DEF SameText, Sound
<1>3. Sound(dismiss'.job)
  <2>1. ASSUME NEW k \in Jobs, DismissLast(k) PROVE dismiss'.job = store[k]
    BY <2>1 DEF DismissLast
  <2>2. QED BY <1>b, <2>1, CommandReads DEF Nothing
<1>4. feedback' # Nothing => feedback'.job.transcript
  <2>1. ASSUME NEW k \in Jobs, SetFormatterFeedback(k) PROVE feedback'.job.transcript
    BY <2>1 DEF SetFormatterFeedback, Sound
  <2>2. QED BY <2>1, CommandReads
<1>5. Sound(lifecycleMu'.job)
  <2>1. ASSUME NEW k \in Jobs, CorrectHistory(k) PROVE lifecycleMu'.job = store[k]
    BY <2>1 DEF CorrectHistory
  <2>2. QED BY <1>b, <2>1, CommandReads DEF Free
<1>6. QED BY <1>1, <1>2, <1>3, <1>4, <1>5
-----------------------------------------------------------------------------
(* Where a dictation is over, process() skips it; where it is quiet, no    *)
(* loop of the daemon takes it up by itself.                               *)
Over  == Gone \cup {"delivered"}
Quiet == Over \cup {"failed"}

Words(j, rec) == rec.transcript \/ Spoken(j)

(* Nothing in memory leads to j, and neither its record nor one of it that *)
(* a command still holds and may save has a status outside S.              *)
Parked(j, S) ==
  /\ ~InFlight(j)
  /\ store[j].status \in S
  /\ feedback.id = j => feedback.job.status \in S
  /\ lifecycleMu.op = "correct" /\ lifecycleMu.id = j => lifecycleMu.job.status \in S

(* Every record of j that somebody may go on from has the words.           *)
Worded(j) ==
  /\ Words(j, store[j]) \/ store[j].status \in Over
  /\ lifecycleMu.op = "correct" /\ lifecycleMu.id = j =>
       Words(j, lifecycleMu.job) \/ lifecycleMu.job.status \in Over
  /\ AtWork(j) => Words(j, job)

WordsInv == \A j \in Jobs :
  Seen(j) => Parked(j, Quiet) \/ Worded(j) \/ j \in raced

(* Audio is removed, or about to be, of a job that stays parked, whose     *)
(* record has its transcript, or that is raced by a Retry.                 *)
DiscardsOver ==
  /\ \A j \in Jobs : fin[j].pc = "discard" => Parked(j, Gone) /\ ~Asked(j)
  /\ pc = "discard" =>
       /\ up = "stopping"
       /\ \/ store[processingID].transcript
          \/ store[processingID].status \in Over
          \/ processingID \in raced
       /\ Asked(processingID) => processingID \in raced

(* What cleanup has listed stays parked until a Retry queues it again.     *)
SweepsParked == \A x \in sweep :
  /\ x[3] <= retries[x[1]]
  /\ Parked(x[1], Quiet) \/ x[3] < retries[x[1]]

TakenInv == DiscardsOver /\ SweepsParked /\ LockInv

(* No Retry of a cancelled job, whose audio is about to go. *)
SafeWords == NoneRecording /\ "cancelled" \notin RetryFrom

LEMMA ParkedStays ==
  ASSUME BaseInv, Underneath, NEW j \in Jobs, NEW S, S \subseteq Quiet, Parked(j, S),
         ~RetrySaves(j)
  PROVE  Parked(j, S)'
<1> USE DEF BaseInv, RecInv
<1>q. store[j].status \in Quiet /\ ~InFlight(j)
  BY DEF Parked
<1>1. store'[j].status = store[j].status /\ ~InFlight(j)'
  <2>1. CASE PipelineOnly
    <3>1. PipelineWrites
      BY <2>1, PipelineOnlyWrites DEF PipelineOnly
    <3>2. CASE RecoverJob(j)
      <4>1. RecoveredStatus(j) = store[j].status /\ ~Interrupted(j)
        BY <1>q DEF RecoveredStatus, Interrupted, Quiet, Over, Gone
      <4>2. /\ UNCHANGED <<work, spill, timers, scan, processingID>>
            /\ store' = [store EXCEPT ![j] = [store[j] EXCEPT !.status = RecoveredStatus(j)]]
        BY <3>2, <4>1 DEF RecoverJob, Save, workerVars
      <4>3. store'[j].status = RecoveredStatus(j)
        BY <4>2 DEF TypeOK, StoreTypeOK, Job
      <4>4. QED BY <1>q, <4>1, <4>2, <4>3 DEF InFlight
    <3>3. CASE ~RecoverJob(j)
      BY <1>q, <3>1, <3>3
      DEF PipelineWrites, WritesOwn, TakesUpOwn, AtWork, InFlight, Quiet, Over, Gone
    <3>4. QED BY <3>2, <3>3
  <2>2. CASE RecorderStep
    BY <1>q, <2>2, RecorderFrames DEF Quiet, Over, Gone
  <2>3. QED BY <2>1, <2>2 DEF Underneath, Next
<1>2. feedback' = feedback \/ feedback'.id # j
  BY DEF Underneath, commandVars, Nothing, Jobs, NoJob
<1>3. lifecycleMu'.op = "correct" => UNCHANGED lifecycleMu
  BY LockMoves, RecorderRest DEF Underneath, Next, PipelineOnly, Free, RetryRead
<1>4. QED BY <1>1, <1>2, <1>3 DEF Parked

LEMMA ParkedCommands ==
  ASSUME BaseInv, CommandStep, NEW j \in Jobs, NEW S, Gone \subseteq S, Parked(j, S)
  PROVE  Parked(j, S)'
<1>1. ~InFlight(j)'
  BY CommandRest, QuietRefs DEF Parked
<1>2. store'[j].status \in S
  BY CommandSaves DEF BaseInv, Parked, Gone, Blank
<1>3. feedback'.id = j => feedback'.job.status \in S
  <2>1. ASSUME NEW k \in Jobs, SetFormatterFeedback(k)
        PROVE  feedback'.id = k /\ feedback'.job = store[k]
    BY <2>1 DEF SetFormatterFeedback
  <2>2. Nothing.id # j
    BY DEF Nothing, Jobs, NoJob
  <2>3. QED BY <2>1, <2>2, CommandReads DEF Parked
<1>4. lifecycleMu'.op = "correct" /\ lifecycleMu'.id = j => lifecycleMu'.job.status \in S
  <2>1. ASSUME NEW k \in Jobs, CorrectHistory(k)
        PROVE  lifecycleMu'.id = k /\ lifecycleMu'.job = store[k]
    BY <2>1 DEF CorrectHistory
  <2>2. QED BY <2>1, CommandReads DEF Parked, Free
<1>5. QED BY <1>1, <1>2, <1>3, <1>4 DEF Parked

(* What cleanup finds expired, nothing leads to. *)
LEMMA UnattendedIdle ==
  ASSUME DaemonTypeOK, NEW j \in Jobs, Unattended(j)
  PROVE  ~InFlight(j)
<1>t. work \in Seq(Jobs) /\ spill[j] \in Nat
  BY DEF DaemonTypeOK, RecorderTypeOK, TypeOK, QueueTypeOK
<1> DEFINE at == {i \in DOMAIN work : work[i] = j}
<1>1. IsFiniteSet(DOMAIN work)
  <2>1. DOMAIN work = 1..Len(work) /\ Len(work) \in Nat
    BY <1>t
  <2>2. QED BY <2>1, FS_Interval
<1>2. IsFiniteSet(at)
  BY <1>1, FS_Subset
<1>3. Cardinality(at) \in Nat /\ Cardinality(at) + spill[j] = 0
  BY <1>2, FS_CardinalityType DEF Unattended, Copies
<1>4. Cardinality(at) = 0 /\ spill[j] = 0
  BY <1>t, <1>3
<1>5. at = {}
  BY <1>2, <1>4, FS_EmptySet
<1>6. j \notin scan /\ processingID # j /\ \A t \in timers : t[1] # j
  BY DEF Unattended, Busy
<1>7. QED BY <1>4, <1>5, <1>6 DEF InFlight

(* The audio a command takes. *)
LEMMA CommandAudio ==
  ASSUME DaemonTypeOK, CommandStep, NEW j \in Jobs
  PROVE  \/ audio'[j] = audio[j] \/ DeleteHistory(j)
         \/ \E x \in sweep : x[1] = j /\ CleanupRemoves(x)
<1>t. audio \in [Jobs -> Audio]
  BY DEF DaemonTypeOK, RecorderTypeOK, TypeOK, StoreTypeOK
<1>1. ASSUME NEW k \in Jobs, DeleteHistory(k) PROVE audio'[j] = audio[j] \/ DeleteHistory(j)
  BY <1>1, <1>t DEF DeleteHistory, RemoveDir, RemoveAudio
<1>2. ASSUME NEW x \in sweep, CleanupRemoves(x) PROVE audio'[j] = audio[j] \/ x[1] = j
  <2>1. RemoveAudio(x[1])
    BY <1>2 DEF CleanupRemoves, RemoveDir
  <2>2. QED BY <1>t, <2>1 DEF RemoveAudio
<1>3. ASSUME \/ \E k \in Jobs : \/ DismissLast(k) \/ CorrectHistory(k)
                                \/ SetFormatterFeedback(k) \/ Copy(k)
             \/ DismissSave \/ CorrectSave \/ FeedbackSave \/ LearnSelection \/ Cleanup
      PROVE  UNCHANGED audio
  BY <1>3 DEF DismissLast, CorrectHistory, SetFormatterFeedback, Copy, DismissSave,
    CorrectSave, FeedbackSave, LearnSelection, Cleanup, vars, pipelineVars, storeVars
<1>4. QED BY <1>1, <1>2, <1>3 DEF CommandStep, CleanupStep

(* What cleanup removes of a job that is not parked any more, it races. *)
LEMMA RemovesRaced ==
  ASSUME NEW x \in sweep, CleanupRemoves(x),
         Asked(x[1]) \/ x[3] < retries[x[1]]
  PROVE  x[1] \in raced'
BY DEF CleanupRemoves, RetryPending, Asked

LEMMA PipelineKeepsTaken ==
  ASSUME SafeWords, BaseInv, BaseInv', SoundInv, TakenInv, Underneath, PipelineOnly
  PROVE  /\ TakenInv'
         /\ \A j \in Jobs : RetrySaves(j) =>
              audio' = audio /\ (Spoken(j)' \/ j \in raced)
<1> USE DEF BaseInv, RecInv, TakenInv
<1>t. /\ StoreTypeOK /\ WorkerTypeOK /\ LockTypeOK /\ HistoryTypeOK
      /\ PipelineStep /\ PipelineWrites
  BY PipelineOnlyWrites DEF PipelineOnly, TypeOK
<1>1. /\ UNCHANGED audio \/ DiscardAudio
      /\ UNCHANGED retries \/ RetrySave
      /\ raced \subseteq raced'
      /\ pc' = "discard" =>
           /\ CancelledProcessing \/ pc = "discard"
           /\ (UNCHANGED <<up, processingID>>) \/ up # "stopping"
  BY <1>t, PipelineAudio
<1>2. \A j \in Jobs : /\ retries[j] <= retries'[j]
                      /\ RetrySaves(j) => retries'[j] = retries[j] + 1
  <2>1. CASE RetrySave
    BY <1>t, <2>1 DEF RetrySave, RetrySaves, Locked, HistoryTypeOK, LockTypeOK
  <2>2. QED BY <1>1, <1>t, <2>1 DEF RetrySaves, HistoryTypeOK
<1>3. ASSUME NEW j \in Jobs, RetrySaves(j)
      PROVE  audio' = audio /\ (Spoken(j)' \/ j \in raced)
  <2>1. lifecycleMu.op = "retry" /\ lifecycleMu.id = j /\ audio' = audio
    BY <1>3 DEF RetrySaves, RetrySave, Locked
  <2>2. (audio[j] # "none" \/ j \in raced) /\ retries'[j] > 0
    BY <1>2, <1>3, <1>t, <2>1 DEF LockInv, HistoryTypeOK
  <2>3. QED BY <1>t, <2>1, <2>2 DEF Spoken, StoreTypeOK, Audio
<1>4. LockInv'
  <2> SUFFICES ASSUME lifecycleMu'.op = "retry", lifecycleMu'.id \notin raced'
               PROVE  audio'[lifecycleMu'.id] # "none"
    BY DEF LockInv
  <2>1. PICK k \in Jobs : k = lifecycleMu'.id
    BY DEF TypeOK, LockTypeOK
  <2>2. Asked(k) \/ RetryRead(k)
    BY <1>t, <2>1, OnlyRetryAsks DEF Asked
  <2>3. CASE RetryRead(k)
    BY <2>1, <2>3 DEF RetryRead, storeVars
  <2>4. CASE Asked(k)
    <3>1. audio[k] # "none" /\ k \notin raced
      BY <1>1, <2>1, <2>4 DEF Asked, LockInv
    <3>2. ~(DiscardAudio /\ processingID = k)
      BY <2>4, <3>1 DEF DiscardAudio, DiscardsOver
    <3>3. audio'[k] = audio[k]
      BY <1>1, <1>t, <3>2 DEF DiscardAudio, RemoveAudio, StoreTypeOK
    <3>4. QED BY <2>1, <3>1, <3>3
  <2>5. QED BY <2>2, <2>3, <2>4
<1>5. ASSUME NEW j \in Jobs, fin'[j].pc = "discard" PROVE Parked(j, Gone)' /\ ~Asked(j)'
  <2>1. fin' = fin
    BY <1>5 DEF PipelineOnly, recorderVars, NoFin
  <2>2. Parked(j, Gone) /\ ~Asked(j)
    BY <1>5, <2>1 DEF DiscardsOver
  <2>3. Parked(j, Gone)'
    BY <2>2, ParkedStays DEF RetrySaves, RetrySave, Locked, Asked, Quiet, Over
  <2>4. ~RetryRead(j)
    BY <2>2, PipelineAssumption DEF RetryRead, SafeWords, Parked, Gone, JobStatus
  <2>5. QED BY <1>t, <2>2, <2>3, <2>4, OnlyRetryAsks
<1>6. ASSUME pc' = "discard"
      PROVE  /\ up' = "stopping"
             /\ \/ store'[processingID'].transcript
                \/ store'[processingID'].status \in Over
                \/ processingID' \in raced'
             /\ Asked(processingID)' => processingID' \in raced'
  <2>1. up = "stopping" /\ UNCHANGED <<up, processingID>>
    BY <1>1, <1>6 DEF CancelledProcessing, DiscardsOver
  <2>2. CASE CancelledProcessing
    <3>1. processingID \in Jobs /\ job \in Job
      BY <1>t, <2>2 DEF CancelledProcessing, WorkerTypeOK
    <3>2. store'[processingID] = [job EXCEPT !.status = "cancelled"]
      BY <1>t, <2>2, <3>1 DEF CancelledProcessing, Save, StoreTypeOK
    <3>3. Asked(processingID)' => processingID \in raced'
      BY <2>2 DEF CancelledProcessing, Races, RetryPending, Asked
    <3>4. QED BY <2>1, <3>1, <3>2, <3>3 DEF Over, Gone, Job
  <2>3. CASE pc = "discard"
    <3>1. processingID \in Jobs
      BY <1>t, <2>3 DEF WorkerTypeOK
    <3>2. CASE processingID \in raced
      BY <1>1, <2>1, <3>2
    <3>3. CASE processingID \notin raced
      <4>1. ~Asked(processingID) /\ ~RetrySaves(processingID)
        BY <2>3, <3>3 DEF DiscardsOver, RetrySaves, RetrySave, Locked, Asked
      <4>2. store'[processingID] = store[processingID]
        BY <1>t, <2>1, <2>3, <3>1, <4>1 DEF PipelineWrites, WritesOwn, AtWork, RecoverJob
      <4>3. ~Asked(processingID)'
        BY <1>t, <2>1, <3>1, <4>1, OnlyRetryAsks DEF RetryRead, Serving
      <4>4. QED BY <2>1, <2>3, <3>3, <4>2, <4>3 DEF DiscardsOver
    <3>4. QED BY <3>2, <3>3
  <2>4. QED BY <1>1, <1>6, <2>2, <2>3
<1>7. SweepsParked'
  <2>1. sweep' \subseteq sweep /\ sweep \subseteq Jobs \X {"audio", "dir"} \X Nat
    BY DEF Underneath, commandVars, DaemonTypeOK
  <2>2. ASSUME NEW x \in sweep
        PROVE  x[3] <= retries'[x[1]] /\ (Parked(x[1], Quiet)' \/ x[3] < retries'[x[1]])
    <3>1. /\ x[1] \in Jobs /\ x[3] \in Nat /\ x[3] <= retries[x[1]]
          /\ Parked(x[1], Quiet) \/ x[3] < retries[x[1]]
      BY <2>1, <2>2 DEF SweepsParked
    <3>2. /\ retries[x[1]] <= retries'[x[1]] /\ {retries[x[1]], retries'[x[1]]} \subseteq Nat
          /\ RetrySaves(x[1]) => retries'[x[1]] = retries[x[1]] + 1
      BY <1>2, <1>t, <3>1 DEF TypeOK, HistoryTypeOK
    <3>3. CASE RetrySaves(x[1]) \/ x[3] < retries[x[1]]
      BY <3>1, <3>2, <3>3
    <3>4. CASE ~RetrySaves(x[1]) /\ Parked(x[1], Quiet)
      BY <3>1, <3>2, <3>4, ParkedStays
    <3>5. QED BY <3>1, <3>3, <3>4
  <2>3. QED BY <2>1, <2>2 DEF SweepsParked
<1>8. QED BY <1>1, <1>3, <1>4, <1>5, <1>6, <1>7 DEF DiscardsOver

LEMMA PipelineKeepsWords ==
  ASSUME SafeWords, BaseInv, SoundInv, TakenInv, WordsInv, Underneath, PipelineOnly,
         NEW j \in Jobs, Seen(j)',
         RetrySaves(j) => audio' = audio /\ (Spoken(j)' \/ j \in raced)
  PROVE  Parked(j, Quiet)' \/ Worded(j)' \/ j \in raced'
<1> USE DEF BaseInv, RecInv, TakenInv
<1>t. /\ StoreTypeOK /\ WorkerTypeOK /\ LockTypeOK /\ HistoryTypeOK
      /\ PipelineStep /\ PipelineWrites
  BY PipelineOnlyWrites DEF PipelineOnly, TypeOK
<1>r. raced \subseteq raced'
  BY <1>t, PipelineAudio
<1>1. Spoken(j)' => Worded(j)'
  BY DEF Worded, Words
<1>2. CASE RetrySaves(j)
  BY <1>r, <1>1, <1>2
<1>l. lifecycleMu'.op = "correct" => UNCHANGED lifecycleMu /\ Alive
  BY <1>t, LockMoves DEF Free, RetryRead, HeldInv
<1>3. ASSUME ~Seen(j), ~RetrySaves(j) PROVE Parked(j, Quiet)' \/ Worded(j)'
  <2>1. ~InFlight(j)
    BY <1>3 DEF Seen, KnownInv, RestInv
  <2>2. RecoverJob(j) /\ store[j].status = "recording"
    BY <1>3, <2>1, <1>t DEF PipelineWrites, WritesOwn, AtWork, InFlight, Seen, RecoverJob,
      IsNewest, KnownInv
  <2>3. /\ UNCHANGED <<audio, retries, timers, scan, processingID>>
        /\ store' = [store EXCEPT ![j] = [store[j] EXCEPT !.status = RecoveredStatus(j)]]
    BY <2>2 DEF RecoverJob, Save, ghostVars, workerVars
  <2>4. store'[j].status = RecoveredStatus(j)
    BY <1>t, <2>3 DEF StoreTypeOK, Job
  <2>5. CASE RecoveredStatus(j) = "queued"
    BY <1>1, <2>2, <2>3, <2>5 DEF RecoveredStatus, Spoken
  <2>6. CASE RecoveredStatus(j) = "failed"
    <3>1. ~InFlight(j)'
      BY <2>1, <2>2, <2>3, <2>6 DEF RecoverJob, InFlight
    <3>2. feedback'.id # j
      BY <1>3 DEF Underneath, commandVars, HeldInv, Nothing, Jobs, NoJob
    <3>3. lifecycleMu'.op # "correct"
      BY <1>l, <2>2 DEF RecoverJob, Alive
    <3>4. QED BY <2>4, <2>6, <3>1, <3>2, <3>3 DEF Parked, Quiet
  <2>7. QED BY <2>2, <2>5, <2>6 DEF RecoveredStatus
<1>4. ASSUME Parked(j, Quiet), ~RetrySaves(j) PROVE Parked(j, Quiet)'
  BY <1>4, ParkedStays
<1>5. ASSUME Worded(j), DiscardAudio, processingID = j PROVE Worded(j)' \/ j \in raced
  <2>1. /\ UNCHANGED <<store, lifecycleMu>> /\ pc' = "done"
        /\ store[j].transcript \/ store[j].status \in Over \/ j \in raced
    BY <1>5 DEF DiscardAudio, DiscardsOver
  <2>2. ~(lifecycleMu.op = "correct" /\ lifecycleMu.id = j)
    BY <1>5 DEF HeldInv
  <2>3. QED BY <2>1, <2>2 DEF Worded, Words, AtWork
<1>6. ASSUME Worded(j), ~(DiscardAudio /\ processingID = j), ~RetrySaves(j)
      PROVE  Worded(j)'
  <2>1. audio'[j] = audio[j]
    BY <1>6, <1>t, PipelineAudio DEF DiscardAudio, RemoveAudio, StoreTypeOK
  <2>2. retries[j] > 0 => retries'[j] > 0
    <3>1. CASE RetrySave
      BY <1>t, <3>1 DEF RetrySave, LockTypeOK, HistoryTypeOK
    <3>2. QED BY <1>t, <3>1, PipelineAudio
  <2>3. Spoken(j) => Spoken(j)'
    BY <2>1, <2>2 DEF Spoken
  <2>4. /\ Words(j, store[j])' \/ store'[j].status \in Over
        /\ AtWork(j)' => Words(j, job)'
    <3>s. store'[j] = store[j] => Words(j, store[j])' \/ store'[j].status \in Over
      BY <1>6, <2>3 DEF Worded, Words
    <3>w. AtWork(j) /\ (job.transcript => job'.transcript) => Words(j, job)'
      BY <1>6, <2>3 DEF Worded, Words
    <3>1. ASSUME Dequeue \/ WorkerStep
          PROVE  /\ Words(j, store[j])' \/ store'[j].status \in Over
                 /\ AtWork(j)' => Words(j, job)'
      <4>1. CASE UNCHANGED <<store, job>> /\ (AtWork(j)' => AtWork(j))
        BY <3>s, <3>w, <4>1
      <4>2. CASE Load
        <5>1. UNCHANGED <<store, processingID>> /\ job' = store[processingID]
          BY <4>2 DEF Load, storeVars
        <5>2. AtWork(j)' => ~SkipsJob(j)
          BY <4>2 DEF Load, AtWork
        <5>3. ~SkipsJob(j) => store[j].status \notin Over
          BY DEF SkipsJob, Exists, NoFile, Over, Gone
        <5>4. QED
          BY <1>6, <2>3, <3>s, <5>1, <5>2, <5>3 DEF AtWork, Worded, Words
      <4>3. CASE Finish
        BY <3>s, <4>3 DEF Finish, storeVars, AtWork
      <4>4. ASSUME NEW rec, job.transcript => rec.transcript, AtWork(processingID),
                   Save(processingID, rec), job' \in {job, rec}, UNCHANGED processingID
            PROVE  /\ Words(j, store[j])' \/ store'[j].status \in Over
                   /\ AtWork(j)' => Words(j, job)'
        <5>1. CASE processingID = j
          <6>1. store'[j] = rec
            BY <1>t, <4>4, <5>1 DEF Save, StoreTypeOK
          <6>2. Words(j, rec)'
            BY <1>6, <2>3, <4>4, <5>1 DEF Worded, Words
          <6>3. QED BY <3>w, <4>4, <5>1, <6>1, <6>2 DEF Words
        <5>2. CASE processingID # j
          BY <1>t, <3>s, <4>4, <5>2 DEF Save, StoreTypeOK, AtWork
        <5>3. QED BY <5>1, <5>2
      <4>5. WorkSound
        BY DEF SoundInv
      <4>6. QED BY <3>1, <4>1, <4>2, <4>3, <4>4, <4>5, WorkerRecords
    <3>2. ASSUME ~(Dequeue \/ WorkerStep)
          PROVE  /\ Words(j, store[j])' \/ store'[j].status \in Over
                 /\ AtWork(j)' => Words(j, job)'
      <4>1. AtWork(j)' => Words(j, job)'
        BY <1>t, <3>2, <3>w, OtherRecords DEF AtWork
      <4>2. CASE RetrySave
        <5>1. lifecycleMu.id # j
          BY <1>6, <4>2 DEF RetrySave, RetrySaves, Locked
        <5>2. store'[j] = store[j]
          BY <1>t, <4>2, <5>1 DEF RetrySave, Save, StoreTypeOK
        <5>3. QED BY <3>s, <4>1, <5>2
      <4>3. ASSUME NEW k \in Jobs, RecoverJob(k)
            PROVE  Words(j, store[j])' \/ store'[j].status \in Over
        <5>1. store' = [store EXCEPT ![k] = [store[k] EXCEPT !.status = RecoveredStatus(k)]]
          BY <4>3 DEF RecoverJob, Save
        <5>2. CASE k # j
          BY <1>t, <3>s, <5>1, <5>2 DEF StoreTypeOK
        <5>3. CASE k = j
          <6>1. /\ store'[j].transcript = store[j].transcript
                /\ store'[j].status = RecoveredStatus(j)
            BY <1>t, <5>1, <5>3 DEF StoreTypeOK, Job
          <6>2. store[j].status \in Over => RecoveredStatus(j) = store[j].status
            BY DEF RecoveredStatus, Over, Gone
          <6>3. QED BY <1>6, <2>3, <6>1, <6>2 DEF Worded, Words
        <5>4. QED BY <5>2, <5>3
      <4>4. QED BY <1>t, <3>2, <3>s, <4>1, <4>2, <4>3, OtherRecords
    <3>3. QED BY <3>1, <3>2
  <2>5. QED BY <1>l, <1>6, <2>3, <2>4 DEF Worded, Words
<1>7. QED BY <1>r, <1>2, <1>3, <1>4, <1>5, <1>6 DEF WordsInv

LEMMA RecorderKeepsTaken ==
  ASSUME SafeWords, BaseInv, TakenInv, Underneath, RecorderStep
  PROVE  TakenInv'
<1> USE DEF BaseInv, RecInv, TakenInv
<1>1. UNCHANGED <<pc, processingID, up, lifecycleMu, retries, raced>>
  BY RecorderRest DEF workerVars, lifeVars, ghostVars
<1>2. LockInv'
  <2> SUFFICES ASSUME lifecycleMu.op = "retry", lifecycleMu.id \notin raced
               PROVE  audio'[lifecycleMu.id] # "none"
    BY <1>1 DEF LockInv
  <2>1. PICK k \in Jobs : k = lifecycleMu.id
    BY DEF TypeOK, LockTypeOK
  <2>2. Locked(k) /\ Asked(k) /\ audio[k] # "none"
    BY <2>1 DEF Locked, Asked, LockInv
  <2>3. fin[k].pc # "discard" /\ store[k].status # "absent"
    BY <2>2 DEF DiscardsOver, KnownInv
  <2>4. audio'[k] # "none"
    BY <2>2, <2>3, RecorderAudio
  <2>5. QED BY <2>1, <2>2, <2>4
<1>3. ASSUME NEW j \in Jobs, fin'[j].pc = "discard" PROVE Parked(j, Gone)' /\ ~Asked(j)'
  <2>1. CASE fin[j].pc = "discard"
    <3>1. Parked(j, Gone) /\ ~Asked(j)
      BY <2>1 DEF DiscardsOver
    <3>2. QED
      BY <1>1, <3>1, ParkedStays DEF RetrySaves, RetrySave, Locked, Asked, Quiet, Over
  <2>2. CASE store[j].status = "recording" /\ store'[j].status = "cancelled"
    <3>1. ~InFlight(j)' /\ ~Locked(j)
      BY <2>2, RecorderFrames DEF RestInv
    <3>2. feedback'.id # j
      BY <2>2 DEF Underneath, commandVars, HeldInv, Seen, Nothing, Jobs, NoJob
    <3>3. QED BY <1>1, <2>2, <3>1, <3>2 DEF Parked, Gone, Locked, Asked
  <2>3. QED BY <1>3, <2>1, <2>2, RecorderAudio
<1>4. pc = "discard" => store'[processingID] = store[processingID]
  BY RecorderFrames DEF TypeOK, WorkerTypeOK, InFlight
<1>5. SweepsParked'
  <2>1. sweep' \subseteq sweep /\ sweep \subseteq Jobs \X {"audio", "dir"} \X Nat
    BY DEF Underneath, commandVars, DaemonTypeOK
  <2>2. ASSUME NEW x \in sweep, Parked(x[1], Quiet) PROVE Parked(x[1], Quiet)'
    <3>1. ~RetrySaves(x[1])
      BY <1>1 DEF RetrySaves, RetrySave, Free
    <3>2. QED BY <2>1, <2>2, <3>1, ParkedStays
  <2>3. QED BY <1>1, <2>1, <2>2 DEF SweepsParked
<1>6. QED BY <1>1, <1>2, <1>3, <1>4, <1>5 DEF DiscardsOver, Asked

LEMMA RecorderKeepsWords ==
  ASSUME BaseInv, TakenInv, WordsInv, Underneath, RecorderStep, NEW j \in Jobs, Seen(j)'
  PROVE  Parked(j, Quiet)' \/ Worded(j)' \/ j \in raced'
<1> USE DEF BaseInv, RecInv, TakenInv
<1>1. UNCHANGED <<pc, processingID, job, retries, raced, lifecycleMu>>
  BY RecorderRest DEF workerVars, ghostVars
<1>2. ASSUME ~Seen(j) PROVE Parked(j, Quiet)' \/ Worded(j)'
  <2>1. /\ ~InFlight(j) /\ ~Locked(j)
        /\ store'[j].status \in {"cancelled", "failed", "queued"}
    BY <1>2, RecorderFrames DEF Seen, KnownInv, RestInv
  <2>2. CASE store'[j].status = "queued"
    <3>1. Spoken(j)'
      BY <1>2, <2>2, RecorderAudio DEF Seen, Spoken
    <3>2. QED BY <3>1 DEF Worded, Words
  <2>3. CASE store'[j].status # "queued"
    <3>1. ~InFlight(j)'
      BY <2>1, <2>3, RecorderFrames
    <3>2. feedback'.id # j
      BY <1>2 DEF Underneath, commandVars, HeldInv, Nothing, Jobs, NoJob
    <3>3. QED BY <1>1, <2>1, <2>3, <3>1, <3>2 DEF Parked, Quiet, Over, Gone, Locked
  <2>4. QED BY <2>2, <2>3
<1>3. ASSUME Parked(j, Quiet) PROVE Parked(j, Quiet)'
  BY <1>1, <1>3, ParkedStays DEF RetrySaves, RetrySave, Free
<1>4. ASSUME Seen(j), Worded(j), fin[j].pc # "discard" PROVE Worded(j)'
  <2>1. store'[j] = store[j]
    BY <1>4, RecorderFrames DEF Seen
  <2>2. audio'[j] = audio[j] \/ audio'[j] \in {"short", "full"}
    BY <1>4, RecorderAudio DEF Seen
  <2>3. Spoken(j) => Spoken(j)'
    BY <1>1, <2>2 DEF Spoken
  <2>4. QED BY <1>1, <1>4, <2>1, <2>3 DEF Worded, Words, AtWork
<1>5. fin[j].pc = "discard" => Parked(j, Quiet)
  BY DEF DiscardsOver, Parked, Quiet, Over
<1>6. QED BY <1>1, <1>2, <1>3, <1>4, <1>5 DEF WordsInv

LEMMA CommandKeepsTaken ==
  ASSUME BaseInv, SoundInv, TakenInv, CommandStep
  PROVE  TakenInv'
<1> USE DEF BaseInv, TakenInv
<1>1. UNCHANGED <<pc, processingID, up, fin, retries>> /\ raced \subseteq raced'
  BY CommandRest DEF workerVars, lifeVars, recorderVars
<1>2. lifecycleMu'.op = "retry" => UNCHANGED lifecycleMu
  BY CommandReads DEF Free, CorrectHistory
<1>3. LockInv'
  <2> SUFFICES ASSUME lifecycleMu'.op = "retry", lifecycleMu.id \notin raced'
               PROVE  audio'[lifecycleMu.id] # "none"
    BY <1>2 DEF LockInv
  <2>1. PICK k \in Jobs : k = lifecycleMu.id
    BY <1>2 DEF RecInv, TypeOK, LockTypeOK
  <2>2. audio[k] # "none" /\ Asked(k) /\ lifecycleMu # Free
    BY <1>1, <1>2, <2>1 DEF LockInv, Asked, Free
  <2>3. \A x \in sweep : x[1] = k => ~CleanupRemoves(x)
    BY <2>1, <2>2, RemovesRaced
  <2>4. audio'[k] = audio[k]
    BY <2>2, <2>3, CommandAudio DEF DeleteHistory
  <2>5. QED BY <2>1, <2>2, <2>4
<1>4. ASSUME NEW j \in Jobs, fin'[j].pc = "discard" PROVE Parked(j, Gone)' /\ ~Asked(j)'
  BY <1>1, <1>2, <1>4, ParkedCommands DEF DiscardsOver, Asked
<1>5. pc = "discard" => \/ store'[processingID].transcript
                        \/ store'[processingID].status \in Over
                        \/ processingID \in raced
  <2> SUFFICES ASSUME pc = "discard"
               PROVE  \/ store'[processingID].transcript
                      \/ store'[processingID].status \in Over
                      \/ processingID \in raced
    OBVIOUS
  <2>1. PICK k \in Jobs : k = processingID
    BY DEF RecInv, TypeOK, WorkerTypeOK
  <2>2. store'[k] = store[k] \/ store'[k].transcript \/ store'[k].status \in Over
    BY <2>1, CommandSaves DEF HeldInv, SoundInv, Blank, Over, Gone
  <2>3. QED BY <2>1, <2>2 DEF DiscardsOver
<1>6. SweepsParked'
  <2>1. sweep \subseteq Jobs \X {"audio", "dir"} \X Nat
    BY DEF DaemonTypeOK
  <2>2. ASSUME NEW x \in sweep, Parked(x[1], Quiet) PROVE Parked(x[1], Quiet)'
    BY <2>1, <2>2, ParkedCommands DEF Quiet, Over
  <2>3. ASSUME Cleanup, NEW x \in sweep'
        PROVE  x[3] = retries[x[1]] /\ Parked(x[1], Quiet)'
    <3>1. PICK j \in Jobs : /\ j = x[1] /\ x[3] = retries[j]
                            /\ Unattended(j) /\ Expires(j) # {}
      BY <2>3 DEF Cleanup, Expired
    <3>2. ~InFlight(j)
      BY <3>1, UnattendedIdle
    <3>3. store[j].status \in Quiet
      BY <3>1 DEF Expires, Unattended, DueJobs, Listed, Exists, NoFile, Quiet, Over
    <3>4. Parked(j, Quiet)
      BY <3>1, <3>2, <3>3 DEF Unattended, Parked
    <3>5. QED BY <2>3, <3>1, <3>4, ParkedCommands DEF Cleanup, Quiet, Over
  <2>4. CASE sweep' \subseteq sweep
    BY <1>1, <2>2, <2>4 DEF SweepsParked
  <2>5. CASE Cleanup
    <3>1. \A x \in sweep' : retries[x[1]] \in Nat
      BY <2>5 DEF Cleanup, Expired, DaemonTypeOK, RecorderTypeOK, TypeOK, HistoryTypeOK
    <3>2. QED BY <1>1, <2>3, <2>5, <3>1 DEF SweepsParked
  <2>6. QED BY <2>4, <2>5, CommandReads
<1>7. Asked(processingID)' => Asked(processingID)
  BY <1>1, <1>2 DEF Asked
<1>8. QED BY <1>1, <1>3, <1>4, <1>5, <1>6, <1>7 DEF DiscardsOver

LEMMA CommandKeepsWords ==
  ASSUME NoneRecording, BaseInv, SoundInv, TakenInv, WordsInv, CommandStep,
         NEW j \in Jobs, Seen(j)'
  PROVE  Parked(j, Quiet)' \/ Worded(j)' \/ j \in raced'
<1> USE DEF BaseInv, TakenInv
<1>1. UNCHANGED <<pc, processingID, job, retries>> /\ raced \subseteq raced'
  BY CommandRest DEF workerVars
<1>2. Seen(j)
  BY CommandSeen DEF Seen
<1>3. ASSUME Parked(j, Quiet) PROVE Parked(j, Quiet)'
  BY <1>3, ParkedCommands DEF Quiet, Over
<1>4. ASSUME Worded(j), DeleteHistory(j) PROVE Worded(j)'
  <2>1. lifecycleMu' = Free /\ processingID # j
    BY <1>4 DEF DeleteHistory, Busy
  <2>2. store'[j].status = "deleted"
    BY <1>4 DEF DeleteHistory, RemoveDir, Blank, RecInv, TypeOK, StoreTypeOK
  <2>3. QED BY <1>1, <2>1, <2>2 DEF Worded, Free, AtWork, Over, Gone
<1>5. ASSUME Worded(j), audio'[j] = audio[j] PROVE Worded(j)'
  <2>1. \A rec : Words(j, rec) => rec.transcript \/ Spoken(j)'
    BY <1>1, <1>5 DEF Words, Spoken
  <2>2. Words(j, store[j])' \/ store'[j].status \in Over
    BY <1>5, <2>1, CommandSaves DEF Worded, Words, SoundInv, SameText, Blank, Over, Gone
  <2>3. lifecycleMu'.op = "correct" /\ lifecycleMu'.id = j =>
          Words(j, lifecycleMu.job)' \/ lifecycleMu'.job.status \in Over
    <3>1. ASSUME NEW k \in Jobs, CorrectHistory(k)
          PROVE  lifecycleMu'.id = k /\ lifecycleMu'.job = store[k]
      BY <3>1 DEF CorrectHistory
    <3>2. QED BY <1>5, <2>1, <3>1, CommandReads DEF Worded, Words, Free
  <2>4. AtWork(j)' => Words(j, job)'
    BY <1>1, <1>5, <2>1 DEF Worded, Words, AtWork
  <2>5. QED BY <2>2, <2>3, <2>4 DEF Worded
<1>6. ASSUME NEW x \in sweep, x[1] = j, CleanupRemoves(x)
      PROVE  Parked(j, Quiet) \/ j \in raced'
  BY <1>6, RemovesRaced DEF SweepsParked
<1>7. QED BY <1>1, <1>2, <1>3, <1>4, <1>5, <1>6, CommandAudio DEF WordsInv

AllWords == SoundInv /\ TakenInv /\ WordsInv

LEMMA NextKeepsWords ==
  ASSUME SafeWords, BaseInv, BaseInv', AllWords, [DaemonNext]_daemonVars
  PROVE  AllWords'
<1> USE DEF AllWords
<1>t. TypeOK /\ RecorderVarsOK /\ DaemonTypeOK /\ NoneRecording
  BY DEF BaseInv, RecInv, SafeWords
<1>1. CASE UNCHANGED daemonVars
  <2>1. UNCHANGED <<store, audio, fin, pc, processingID, job, up, retries, raced,
                    lifecycleMu, dismiss, feedback, sweep>>
        /\ UNCHANGED <<queueVars, workerVars>>
    BY <1>1 DEF daemonVars, vars, pipelineVars, recorderVars, storeVars, workerVars,
      lifeVars, ghostVars, commandVars
  <2>2. \A j \in Jobs : InFlight(j)' <=> InFlight(j)
    BY <2>1, QuietRefs
  <2>3. \A j \in Jobs : Parked(j, Gone)' = Parked(j, Gone) /\ Parked(j, Quiet)' = Parked(j, Quiet)
    BY <2>1, <2>2 DEF Parked
  <2>4. SoundInv'
    BY <2>1 DEF SoundInv, WorkSound, Sound
  <2>5. WordsInv'
    BY <2>1, <2>3 DEF WordsInv, Seen, Worded, Words, Spoken, AtWork
  <2>6. sweep \subseteq Jobs \X {"audio", "dir"} \X Nat
    BY DEF BaseInv, DaemonTypeOK
  <2>7. TakenInv'
    BY <2>1, <2>3, <2>6 DEF TakenInv, DiscardsOver, SweepsParked, LockInv, Asked
  <2>8. QED BY <2>4, <2>5, <2>7
<1>2. CASE Underneath
  <2>1. SoundInv'
    BY <1>t, <1>2, UnderneathKeepsSound
  <2>2. CASE PipelineOnly
    <3>1. TakenInv' /\ \A j \in Jobs : RetrySaves(j) =>
                           audio' = audio /\ (Spoken(j)' \/ j \in raced)
      BY <1>2, <2>2, PipelineKeepsTaken
    <3>2. WordsInv'
      BY <1>2, <2>2, <3>1, PipelineKeepsWords DEF WordsInv
    <3>3. QED BY <2>1, <3>1, <3>2
  <2>3. CASE RecorderStep
    <3>1. WordsInv'
      BY <1>2, <2>3, RecorderKeepsWords DEF WordsInv
    <3>2. QED BY <1>2, <2>1, <2>3, <3>1, RecorderKeepsTaken
  <2>4. QED BY <1>2, <2>2, <2>3 DEF Underneath, Next
<1>3. CASE CommandStep
  <2>1. WordsInv'
    BY <1>t, <1>3, CommandKeepsWords DEF WordsInv
  <2>2. QED BY <1>t, <1>3, <2>1, CommandKeepsSound, CommandKeepsTaken
<1>4. QED BY <1>1, <1>2, <1>3 DEF DaemonNext

LEMMA WordsInitially == DaemonInit => AllWords
<1> SUFFICES ASSUME DaemonInit PROVE AllWords
  OBVIOUS
<1> USE DEF DaemonInit, Init, PipelineInit, RecorderInit, StoreInit
<1>1. SoundInv
  BY DEF SoundInv, Sound, WorkSound, HasText, Blank, NoFin, Free, Nothing
<1>2. TakenInv
  BY DEF TakenInv, DiscardsOver, SweepsParked, LockInv, NoFin, Free
<1>3. WordsInv
  BY DEF WordsInv, Seen, Blank
<1>4. QED BY <1>1, <1>2, <1>3 DEF AllWords

(* Whatever commands are used, and with cleanup running: a dictation that  *)
(* is still to be processed has its words on disk.  What is deleted,       *)
(* dismissed, cleaned up or discarded stays out of the queue, and what a   *)
(* stale save brings back has its transcript.  Retries, SIGTERMs and       *)
(* cleanup may meet as they like, except that no Retry is asked for a      *)
(* cancelled job, whose audio is about to go, nor one of a recording.  The *)
(* jobs SpokenWordsKept excepts (raced) are those that a Retry has read    *)
(* and not yet saved when a SIGTERM or cleanup takes their audio, or has   *)
(* queued since cleanup listed them                                        *)
(* (stopRecording, Cancel, Retry, DeleteHistory, DismissLast,              *)
(* SetFormatterFeedback, cleanup, cancelledProcessing).                    *)
THEOREM DaemonWordsKept ==
  ASSUME SafeWords
  PROVE  DaemonSpec => []SpokenWordsKept
<1>1. NoneRecording
  BY DEF SafeWords
<1>2. BaseInv /\ BaseInv' /\ AllWords /\ [DaemonNext]_daemonVars => AllWords'
  BY NextKeepsWords
<1>3. AllWords => SpokenWordsKept
  BY DEF AllWords, WordsInv, Seen, Parked, Worded, Words, Spoken, Quiet, Over, Gone,
    SpokenWordsKept
<1>4. QED
  BY <1>1, <1>2, <1>3, WordsInitially, BaseAlways, PTL DEF DaemonSpec
-----------------------------------------------------------------------------
(* The commands that take lifecycleMu, and those that save nothing.  A     *)
(* recording that is being finalized is not busy for any of them, nor for  *)
(* Retry: the user is assumed not to pick one (the run delete_active has   *)
(* what happens otherwise).                                                *)
OnlyLocked == /\ Commands \subseteq {"delete", "correct", "copy", "learn"}
              /\ "recording" \notin HistoryFrom \cup RetryFrom

(* From its check to its Save nobody but CorrectHistory writes the job,    *)
(* and the worker does not take it up.                                     *)
CorrectInv == lifecycleMu.op = "correct" =>
  /\ Alive
  /\ store[lifecycleMu.id] = lifecycleMu.job
  /\ processingID # lifecycleMu.id

(* The commands without a lock have read nothing. *)
IdleInv == dismiss = Nothing /\ feedback = Nothing /\ sweep = {}

SafeInv == WholeInv /\ CorrectInv /\ IdleInv

DaemonPromise == [Promise!DictationNext]_Promise!dictationVars

LEMMA UnderneathKeepsSafe ==
  ASSUME OnlyLocked, SafeInv, Underneath
  PROVE  SafeInv' /\ DaemonPromise
<1> USE DEF SafeInv
<1>1. WholeInv' /\ PromiseStep
  BY NextKeepsWhole DEF OnlyLocked, Underneath
<1>2. DaemonPromise
  BY <1>1 DEF PromiseStep, DaemonPromise, Promise!DictationNext
<1>3. IdleInv'
  BY DEF Underneath, IdleInv, commandVars
<1>t. TypeOK /\ LockTypeOK
  BY DEF WholeInv, RecInv, TypeOK
<1>4. CorrectInv'
  <2> SUFFICES ASSUME lifecycleMu'.op = "correct"
               PROVE  /\ Alive'
                      /\ store'[lifecycleMu'.id] = lifecycleMu'.job
                      /\ processingID' # lifecycleMu'.id
    BY DEF CorrectInv
  <2>1. CASE PipelineOnly
    <3>1. PipelineStep /\ PipelineWrites
      BY <1>t, <2>1, PipelineOnlyWrites DEF PipelineOnly, WholeInv, RecInv
    <3>2. UNCHANGED lifecycleMu /\ (Alive => Alive')
      BY <3>1, LockMoves DEF Free, RetryRead
    <3>3. PICK k \in Jobs : k = lifecycleMu.id
      BY <1>t, <3>2 DEF LockTypeOK
    <3>4. Alive /\ store[k] = lifecycleMu.job /\ processingID # k
      BY <3>2, <3>3 DEF CorrectInv
    <3>5. store'[k] = store[k]
      BY <3>1, <3>2, <3>4
      DEF PipelineWrites, WritesOwn, AtWork, RetrySaves, RetrySave, RecoverJob, Alive
    <3>6. processingID' # k
      BY <3>1, <3>2, <3>4, PublishesUnlocked DEF Free, Jobs, NoJob
    <3>7. QED BY <3>2, <3>3, <3>4, <3>5, <3>6
  <2>2. CASE RecorderStep
    <3>1. UNCHANGED <<lifecycleMu, processingID, up>>
      BY <2>2, RecorderRest DEF workerVars, lifeVars
    <3>2. PICK k \in Jobs : k = lifecycleMu.id
      BY <1>t, <3>1 DEF LockTypeOK
    <3>3. store'[k] = store[k]
      BY <2>2, <3>1, <3>2, RecorderFrames DEF WholeInv, Locked
    <3>4. QED BY <3>1, <3>2, <3>3 DEF CorrectInv, Alive
  <2>3. QED BY <2>1, <2>2 DEF Underneath, Next
<1>5. QED BY <1>1, <1>2, <1>3, <1>4

LEMMA LockedCases ==
  ASSUME OnlyLocked, IdleInv, CommandStep
  PROVE  /\ \/ \E j \in Jobs : DeleteHistory(j) \/ CorrectHistory(j) \/ Copy(j)
            \/ CorrectSave \/ LearnSelection
         /\ IdleInv'
<1>1. {"dismiss", "feedback", "cleanup"} \cap Commands = {}
  BY DEF OnlyLocked
<1>2. \/ \E j \in Jobs : DeleteHistory(j) \/ CorrectHistory(j) \/ Copy(j)
      \/ CorrectSave \/ LearnSelection
  BY <1>1 DEF CommandStep, IdleInv, DismissLast, DismissSave, SetFormatterFeedback,
    FeedbackSave, Cleanup, CleanupStep, CleanupRemoves
<1>3. UNCHANGED commandVars
  BY <1>2 DEF DeleteHistory, CorrectHistory, Copy, CorrectSave, LearnSelection
<1>4. QED BY <1>2, <1>3 DEF IdleInv, commandVars

(* What a command with the lock does to a record: the whole directory goes *)
(* of a job nobody works on, or its text is edited.                        *)
Drops(j) == /\ store[j].status \in HistoryFrom /\ store'[j].status = "deleted"
            /\ ~Busy(j) /\ lifecycleMu' = Free

Edits(j) == /\ Locked(j) /\ ~Busy(j)
            /\ store'[j] = [store[j] EXCEPT !.final = TRUE]

LEMMA LockedWrites ==
  ASSUME OnlyLocked, SafeInv, CommandStep, NEW j \in Jobs, store'[j] # store[j]
  PROVE  Drops(j) \/ Edits(j)
<1>t. store \in [Jobs -> Job] /\ LockTypeOK
  BY DEF SafeInv, WholeInv, RecInv, TypeOK, StoreTypeOK
<1>1. ASSUME NEW k \in Jobs, DeleteHistory(k) PROVE Drops(j)
  <2>1. store' = [store EXCEPT ![k] = Blank("deleted")]
    BY <1>1 DEF DeleteHistory, RemoveDir
  <2>2. j = k
    BY <1>t, <2>1
  <2>3. QED BY <1>1, <1>t, <2>1, <2>2 DEF DeleteHistory, InHistory, Drops, Blank
<1>2. CASE CorrectSave
  <2>1. /\ lifecycleMu.op = "correct"
        /\ store' = [store EXCEPT ![lifecycleMu.id] =
                       [lifecycleMu.job EXCEPT !.final = TRUE]]
    BY <1>2 DEF CorrectSave, Save
  <2>2. j = lifecycleMu.id
    BY <1>t, <2>1
  <2>3. store[j] = lifecycleMu.job /\ processingID # j
    BY <2>1, <2>2 DEF SafeInv, CorrectInv
  <2>4. store'[j] = [store[j] EXCEPT !.final = TRUE]
    BY <1>t, <2>1, <2>2, <2>3
  <2>5. Locked(j) /\ recording # j
    <3>1. Locked(j)
      BY <2>1, <2>2 DEF Locked
    <3>2. QED BY <3>1 DEF SafeInv, WholeInv, RecInv, ApartInv, Jobs, NoJob
  <2>6. QED BY <2>3, <2>4, <2>5 DEF Edits, Busy
<1>3. ASSUME \/ \E k \in Jobs : CorrectHistory(k) \/ Copy(k)
             \/ LearnSelection
      PROVE  UNCHANGED store
  BY <1>3 DEF CorrectHistory, Copy, LearnSelection, storeVars
<1>4. QED BY <1>1, <1>2, <1>3, LockedCases DEF SafeInv

(* An edit changes nothing that decides what becomes of the job. *)
LEMMA EditKeeps ==
  ASSUME StoreTypeOK, NEW j \in Jobs, Edits(j)
  PROVE  store'[j].status = store[j].status /\ store'[j].attempted = store[j].attempted
<1>1. store[j] \in Job
  BY DEF StoreTypeOK
<1>2. QED BY <1>1 DEF Edits, Job

LEMMA LockedKeepsAccounts ==
  ASSUME OnlyLocked, SafeInv, CommandStep
  PROVE  AccountInv' /\ StageInv' /\ TypedInv' /\ OpenInv'
<1> USE DEF SafeInv, WholeInv
<1>t. StoreTypeOK /\ WorkerTypeOK
  BY DEF RecInv, TypeOK
<1>1. UNCHANGED <<up, recovering, pc, processingID, job, inserted, retries, queueVars,
                  workerVars>>
  BY CommandRest DEF lifeVars, workerVars
<1>2. \A j \in Jobs : InFlight(j)' <=> InFlight(j)
  BY <1>1, QuietRefs
<1>3. \A j \in Jobs :
        \/ /\ store'[j].status = store[j].status
           /\ store'[j].attempted = store[j].attempted
        \/ store'[j].status = "deleted" /\ j # processingID
  BY <1>t, LockedWrites, EditKeeps DEF Drops, Busy
<1>4. pc # "idle" => /\ store'[processingID].status = store[processingID].status
                     /\ store'[processingID].attempted = store[processingID].attempted
  BY <1>t, <1>3 DEF WorkerTypeOK
<1>5. AccountInv'
  <2> SUFFICES ASSUME NEW j \in Jobs PROVE Account(j)'
    BY DEF AccountInv
  <2>1. Account(j)
    BY DEF AccountInv
  <2>2. Settled(j) => Settled(j)'
    BY <1>1, <1>2, <1>3 DEF Settled
  <2>3. QED BY <1>1, <2>1, <2>2 DEF Account, Owed
<1>6. StageInv'
  BY <1>1, <1>4 DEF StageInv, Alive, Owed, BeforeTyped
<1>7. TypedInv'
  BY <1>1, <1>3 DEF TypedInv, DeliveredWasTyped
<1>8. OpenInv'
  BY <1>1, <1>4 DEF OpenInv, Finished
<1>9. QED BY <1>5, <1>6, <1>7, <1>8

(* To the user an edit is nothing, and a deletion what it says. *)
LEMMA LockedPromise ==
  ASSUME OnlyLocked, SafeInv, CommandStep
  PROVE  DaemonPromise /\ OutcomeInv'
<1> USE DEF SafeInv, WholeInv
<1>t. StoreTypeOK /\ WorkerTypeOK /\ LockTypeOK
  BY DEF RecInv, TypeOK
<1>1. UNCHANGED <<pc, processingID, inserted, retries>>
  BY CommandRest DEF workerVars
<1>2. \A j \in Jobs : Outcome'[j] = Outcome[j] \/ Drops(j)
  BY <1>t, LockedWrites, EditKeeps DEF Outcome
<1>3. DaemonPromise
  <2>1. CASE \A j \in Jobs : Outcome'[j] = Outcome[j]
    BY <1>1, <2>1 DEF DaemonPromise, Promise!dictationVars, Outcome
  <2>2. ASSUME NEW j \in Jobs, DeleteHistory(j) PROVE DaemonPromise
    <3>1. Save(j, Blank("deleted")) /\ store[j].status \in HistoryFrom
      BY <2>2 DEF DeleteHistory, RemoveDir, InHistory, Save
    <3>2. Outcome' = [Outcome EXCEPT ![j] = "deleted"]
      BY <1>t, <3>1, SaveOutcome, OutcomeOfValues DEF Blank, NoFile
    <3>3. Outcome[j] \notin {"absent", "deleted"}
      BY <3>1, DaemonAssumption, OutcomeOfValues DEF Outcome, NoFile
    <3>4. Promise!Drop(j)
      BY <1>1, <3>2, <3>3 DEF Promise!Drop, Promise!Becomes
    <3>5. QED BY <3>4 DEF DaemonPromise, Promise!DictationNext
  <2>3. CASE CorrectSave
    <3>1. PICK k \in Jobs : k = lifecycleMu.id /\ store[k] = lifecycleMu.job
      BY <1>t, <2>3 DEF CorrectSave, LockTypeOK, CorrectInv
    <3>2. \/ UNCHANGED store
          \/ store' = [store EXCEPT ![k] = [store[k] EXCEPT !.final = TRUE]]
      BY <2>3, <3>1 DEF CorrectSave, Save
    <3>3. ASSUME NEW j \in Jobs PROVE store'[j].status = store[j].status
      <4>1. store[j] \in Job
        BY <1>t DEF StoreTypeOK
      <4>2. QED BY <1>t, <3>2, <4>1 DEF StoreTypeOK, Job
    <3>4. QED BY <2>1, <3>3 DEF Outcome
  <2>4. CASE \/ \E j \in Jobs : CorrectHistory(j) \/ Copy(j)
             \/ LearnSelection
    <3>1. UNCHANGED store
      BY <2>4 DEF CorrectHistory, Copy, LearnSelection, storeVars
    <3>2. QED BY <2>1, <3>1 DEF Outcome
  <2>5. QED BY <2>2, <2>3, <2>4, LockedCases
<1>4. OutcomeInv'
  <2>1. pc # "idle" => Outcome'[processingID] = Outcome[processingID]
    BY <1>t, <1>2 DEF WorkerTypeOK, Drops, Busy
  <2>2. lifecycleMu'.op = "retry" =>
          lifecycleMu' = lifecycleMu /\ Outcome'[lifecycleMu.id] = Outcome[lifecycleMu.id]
    <3>1. lifecycleMu'.op = "retry" => UNCHANGED lifecycleMu
      BY LockedCases
      DEF DeleteHistory, CorrectHistory, Copy, CorrectSave, LearnSelection, Free
    <3>2. QED BY <1>t, <1>2, <3>1 DEF LockTypeOK, Drops, Free
  <2>3. QED BY <1>1, <2>1, <2>2 DEF OutcomeInv, Known
<1>5. QED BY <1>3, <1>4

LEMMA SafeIsBase ==
  ASSUME OnlyLocked, SafeInv
  PROVE  NoneRecording /\ BaseInv
<1>1. NoneRecording
  BY DEF OnlyLocked, NoneRecording
<1>2. DaemonTypeOK
  BY BlankType
  DEF SafeInv, WholeInv, RecInv, RecorderVarsOK, DaemonTypeOK, RecorderTypeOK, IdleInv,
    Nothing, NoFile
<1>3. ASSUME lifecycleMu.op = "correct"
      PROVE  /\ Alive /\ Seen(lifecycleMu.id) /\ store[lifecycleMu.id] = lifecycleMu.job
             /\ processingID # lifecycleMu.id
  <2>1. lifecycleMu.id \in Jobs /\ Locked(lifecycleMu.id)
    BY <1>3 DEF SafeInv, WholeInv, RecInv, TypeOK, LockTypeOK, Locked
  <2>2. QED
    BY <1>3, <2>1 DEF SafeInv, CorrectInv, WholeInv, RecInv, KnownInv, RestInv, Seen
<1>4. HeldInv
  BY <1>3 DEF SafeInv, IdleInv, HeldInv, Seen
<1>5. QED BY <1>1, <1>2, <1>4 DEF SafeInv, WholeInv, BaseInv

LEMMA LockedKeepsSafe ==
  ASSUME OnlyLocked, SafeInv, CommandStep
  PROVE  SafeInv' /\ DaemonPromise
<1> USE DEF SafeInv, WholeInv
<1>t. LockTypeOK /\ Alive /\ Alive'
  <2>1. LockTypeOK
    BY DEF RecInv, TypeOK
  <2>2. QED BY <2>1, CommandRest DEF lifeVars, Alive
<1>1. IdleInv'
  BY LockedCases
<1>2. NoneRecording /\ BaseInv /\ DaemonTypeOK'
  BY SafeIsBase, DaemonTypes DEF BaseInv, DaemonNext
<1>3. RecInv' /\ RestInv' /\ OwnInv'
  BY <1>2, CommandKeepsRec
<1>4. AccountInv' /\ StageInv' /\ TypedInv' /\ OpenInv'
  BY LockedKeepsAccounts
<1>5. DaemonPromise /\ OutcomeInv'
  BY LockedPromise
<1>6. CorrectInv'
  <2>1. UNCHANGED processingID
    BY CommandRest DEF workerVars
  <2>2. ASSUME NEW j \in Jobs, CorrectHistory(j) PROVE CorrectInv'
    BY <1>t, <2>1, <2>2 DEF CorrectHistory, CorrectInv, Busy, storeVars
  <2>3. CASE CorrectSave
    BY <2>3 DEF CorrectSave, CorrectInv, Free
  <2>4. ASSUME NEW j \in Jobs, DeleteHistory(j) PROVE CorrectInv'
    BY <2>4 DEF DeleteHistory, CorrectInv, Free
  <2>5. CASE (\E j \in Jobs : Copy(j)) \/ LearnSelection
    BY <1>t, <2>1, <2>5 DEF Copy, LearnSelection, CorrectInv, storeVars
  <2>6. QED BY <2>2, <2>3, <2>4, <2>5, LockedCases
<1>7. QED BY <1>1, <1>3, <1>4, <1>5, <1>6

LEMMA NextKeepsSafe ==
  ASSUME OnlyLocked, SafeInv, [DaemonNext]_daemonVars
  PROVE  SafeInv' /\ DaemonPromise
<1>1. CASE UNCHANGED daemonVars
  <2>1. UNCHANGED vars /\ UNCHANGED <<store, up, processingID, lifecycleMu, commandVars>>
    BY <1>1 DEF daemonVars, vars, pipelineVars, storeVars, lifeVars, workerVars
  <2>2. WholeInv' /\ PromiseStep
    BY <2>1, NextKeepsWhole DEF SafeInv, OnlyLocked
  <2>3. CorrectInv' /\ IdleInv'
    BY <2>1 DEF SafeInv, CorrectInv, IdleInv, Alive, commandVars
  <2>4. DaemonPromise
    BY <2>2 DEF PromiseStep, DaemonPromise, Promise!DictationNext
  <2>5. QED BY <2>2, <2>3, <2>4 DEF SafeInv
<1>2. QED BY <1>1, UnderneathKeepsSafe, LockedKeepsSafe DEF DaemonNext

LEMMA SafeAlways ==
  ASSUME OnlyLocked
  PROVE  DaemonSpec => []SafeInv
<1>1. DaemonInit => SafeInv
  BY WholeInitially
  DEF DaemonInit, Init, PipelineInit, SafeInv, CorrectInv, IdleInv, Free
<1>2. SafeInv /\ [DaemonNext]_daemonVars => SafeInv'
  BY NextKeepsSafe
<1>3. QED BY <1>1, <1>2, PTL DEF DaemonSpec

(* With deletions and corrections going on, the daemon still does with     *)
(* every dictation what Dictation allows: no command that holds            *)
(* lifecycleMu undoes a delivery, drops what is open or makes the worker   *)
(* type a text again (DeleteHistory, CorrectHistory, process, Retry).      *)
THEOREM DaemonKept ==
  ASSUME OnlyLocked
  PROVE  DaemonSpec => KeepsPromise
<1>1. SafeInv /\ [DaemonNext]_daemonVars => DaemonPromise
  BY NextKeepsSafe
<1>2. DaemonInit => Promise!DictationInit
  BY WholeInitially DEF DaemonInit
<1>3. QED
  BY <1>1, <1>2, SafeAlways, PTL
  DEF DaemonSpec, DaemonPromise, KeepsPromise, Promise!DictationSpec

(* What the user has deleted never comes back: no goroutine saves a record *)
(* it read before the deletion (DeleteHistory's lifecycleMu and busy check,*)
(* against process, Retry and CorrectHistory).                             *)
THEOREM DeletedForGood ==
  ASSUME OnlyLocked
  PROVE  DaemonSpec => DeletedStays
<1>1. ASSUME SafeInv, [DaemonNext]_daemonVars, NEW j \in Jobs,
             store[j].status = "deleted"
      PROVE  store'[j].status = "deleted"
  <2>1. StoreTypeOK /\ StoreTypeOK'
    BY <1>1, NextKeepsSafe DEF SafeInv, WholeInv, RecInv, TypeOK
  <2>2. DaemonPromise
    BY <1>1, NextKeepsSafe
  <2>3. QED BY <1>1, <2>1, <2>2, PromiseKeepsDeleted DEF DaemonPromise
<1>2. SafeInv /\ [DaemonNext]_daemonVars =>
        [\A j \in Jobs : store[j].status = "deleted" =>
           store'[j].status = "deleted"]_daemonVars
  BY <1>1
<1>3. QED BY <1>2, SafeAlways, PTL DEF DaemonSpec, DeletedStays

(* An edit never drops progress of the pipeline: from the read to the Save *)
(* nobody else writes the job (CorrectHistory, process, Retry).            *)
THEOREM EditsSeeLatest ==
  ASSUME OnlyLocked
  PROVE  DaemonSpec => []CorrectionSeesLatest
<1>1. SafeInv => CorrectionSeesLatest
  BY DEF SafeInv, CorrectInv, CorrectionSeesLatest
<1>2. QED BY <1>1, SafeAlways, PTL
=============================================================================
