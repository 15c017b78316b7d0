--------------------------- MODULE DictationProofs ---------------------------
(***************************************************************************)
(* Proofs about a dictation from Start to its end, in the composition of   *)
(* recorder and pipeline: a recording that is finalized is nobody else's,  *)
(* so that the recorder does to the worker's accounts what Submit does     *)
(* when the pipeline runs alone; the two together keep Dictation's         *)
(* promise; and what was spoken is on disk as long as it is needed.        *)
(*                                                                         *)
(* Retry refuses a job that is being recorded, but not one in state        *)
(* recording whose finalization is under way: taken up by both, it could   *)
(* be queued again after it was delivered.  The user interface offers a    *)
(* Retry for failed and waiting jobs only; the theorems assume as much as  *)
(* they need of that.                                                      *)
(***************************************************************************)
EXTENDS RecorderProofs

(* Neither the queue nor a Retry knows a job before its finalizer has      *)
(* saved it.                                                               *)
RestInv == \A j \in Jobs :
  store[j].status = "recording" => ~InFlight(j) /\ ~Locked(j)

Unsaved == {"closing", "closed", "committed", "loaded"}

(* Up to that Save the job is as its finalizer has read it. *)
OwnInv == \A j \in Jobs :
  /\ fin[j].pc \in Unsaved => store[j].status = "recording"
  /\ fin[j].pc \in {"committed", "loaded"} => fin[j].job.status = "recording"
  /\ fin[j].pc # "off" => Alive

WholeInv == /\ RecInv /\ AccountInv /\ StageInv
            /\ TypedInv /\ OpenInv /\ OutcomeInv /\ RestInv /\ OwnInv
-----------------------------------------------------------------------------
(* In the pipeline only a Retry takes lifecycleMu for longer than a step,  *)
(* and it lets go of it at the latest with the end of the process.         *)
LEMMA LockMoves ==
  ASSUME PipelineStep
  PROVE  \/ UNCHANGED lifecycleMu /\ (Alive => Alive')
         \/ lifecycleMu' = Free
         \/ \E k \in Jobs : RetryRead(k)
<1>1. CASE Dequeue \/ WorkerStep
  BY <1>1 DEF Dequeue, WorkerStep, Load, Transcribe, SkipTranscribe, AsrAnswers,
    AsrFailsRetryable, AsrFailsForGood, CleanAnswers, FormatAnswers, MarkAttempted,
    TypeText, DeliverFails, RecordDelivered, RecordUndelivered, CancelledProcessing,
    DiscardAudio, Finish, Alive, lifeVars
<1>2. ASSUME NEW k \in Jobs, SpillSends(k) \/ BackoffElapses(k) \/ RetryRead(k)
                               \/ RecoveryEnqueue(k) \/ RecoverJob(k)
      PROVE  UNCHANGED <<lifecycleMu, up>> \/ RetryRead(k)
  BY <1>2 DEF SpillSends, BackoffElapses, RecoveryEnqueue, RecoverJob, lifeVars
<1>3. CASE RetryTimer \/ RetrySave \/ RecoveryTick
  BY <1>3 DEF RetryTimer, TimerFires, RetrySave, RecoveryTick, Alive, lifeVars
<1>4. CASE Sigterm \/ Exit \/ Crash \/ Restart \/ Serve \/ ShowReady
  BY <1>4 DEF Sigterm, Exit, Crash, LoseMemory, Restart, Serve, ShowReady, Alive, lifeVars
<1>5. QED BY <1>1, <1>2, <1>3, <1>4 DEF PipelineStep, Alive

LEMMA OnlyRetryLocks ==
  ASSUME PipelineStep, NEW j \in Jobs, Locked(j)'
  PROVE  Locked(j) \/ RetryRead(j)
<1>1. CASE UNCHANGED lifecycleMu
  BY <1>1 DEF Locked
<1>2. CASE lifecycleMu' = Free
  BY <1>2 DEF Locked, Free
<1>3. ASSUME NEW k \in Jobs, RetryRead(k) PROVE RetryRead(j)
  BY <1>3 DEF RetryRead, Locked
<1>4. QED BY <1>1, <1>2, <1>3, LockMoves

LEMMA PipelineKeepsRest ==
  ASSUME "recording" \notin RetryFrom,
         TypeOK, MarkInv, RecoverInv, RestInv, PipelineStep
  PROVE  RestInv'
<1> SUFFICES ASSUME NEW j \in Jobs, store'[j].status = "recording"
             PROVE  ~InFlight(j)' /\ ~Locked(j)'
  BY DEF RestInv
<1>1. PipelineWrites
  BY PipelineOnlyWrites
<1>2. store[j].status = "recording" /\ ~InFlight(j) /\ ~Locked(j)
  BY <1>1 DEF PipelineWrites, KeepsForeign, Foreign, RestInv
<1>3. ~Locked(j)'
  BY <1>2, OnlyRetryLocks DEF RetryRead
<1>4. ASSUME InFlight(j)' PROVE FALSE
  <2>1. RecoverJob(j)
    BY <1>1, <1>2, <1>4 DEF PipelineWrites, TakesUpOwn, RetrySaves
  <2>2. store'[j] = [store[j] EXCEPT !.status = RecoveredStatus(j)]
    BY <2>1 DEF RecoverJob, Save, TypeOK, StoreTypeOK
  <2>3. store'[j].status \in {"queued", "failed"}
    BY <1>2, <2>2 DEF RecoveredStatus, TypeOK, StoreTypeOK, Job
  <2>4. QED BY <2>3
<1>5. QED BY <1>3, <1>4

(* A pipeline step leaves alone what is being finalized. *)
LEMMA PipelineKeepsOwn ==
  ASSUME RecInv, RestInv, OwnInv, PipelineOnly
  PROVE  OwnInv'
<1> SUFFICES ASSUME NEW j \in Jobs, fin'[j].pc # "off"
             PROVE  /\ fin'[j].pc \in Unsaved => store'[j].status = "recording"
                    /\ fin'[j].pc \in {"committed", "loaded"}
                         => fin'[j].job.status = "recording"
                    /\ Alive'
  BY DEF OwnInv, Unsaved
<1>1. PipelineWrites
  BY PipelineOnlyWrites DEF PipelineOnly, RecInv
<1>2. UNCHANGED fin /\ ~(up' = "down" /\ up # "down")
  BY DEF PipelineOnly, recorderVars, NoFin
<1>3. Alive
  BY <1>2 DEF OwnInv
<1>4. Alive' /\ up # "recovering"
  BY <1>1, <1>2, <1>3 DEF PipelineWrites, LifeStep, Alive
<1>5. CASE fin[j].pc \in Unsaved
  <2>1. store[j].status = "recording" /\ ~InFlight(j) /\ ~Locked(j)
    BY <1>5 DEF OwnInv, RestInv
  <2>2. store'[j] = store[j]
    BY <1>1, <1>4, <2>1 DEF PipelineWrites, WritesOwn, AtWork, InFlight, RetrySaves,
      RecoverJob
  <2>3. QED BY <1>2, <1>4, <2>1, <2>2 DEF OwnInv
<1>6. QED BY <1>2, <1>4, <1>5 DEF Unsaved
-----------------------------------------------------------------------------
(* What the recorder writes: a new job, or the end of a recording. *)
Starts(j) == \E s \in {"recording", "failed"} :
  store[j].status = "absent" /\ Save(j, Blank(s))

Concludes(j) == \E rec :
  /\ store[j].status = "recording" /\ Save(j, rec)
  /\ rec.status \in {"recording", "cancelled", "failed", "queued"}

LEMMA RecorderSaveCases ==
  ASSUME RecInv, OwnInv, RecorderStep
  PROVE  UNCHANGED store \/ \E j \in Jobs : Starts(j) \/ Concludes(j)
<1>1. CASE StopRead
  BY <1>1 DEF StopRead, storeVars
<1>2. ASSUME NEW j \in Jobs,
             StartFails(j) \/ \E handsFree \in BOOLEAN : Start(j, handsFree)
      PROVE  Starts(j)
  BY <1>2 DEF StartFails, Start, CanStart, Fresh, Starts
<1>3. ASSUME NEW j \in Jobs, RecorderQuiet(j) PROVE UNCHANGED store
  BY <1>3 DEF RecorderQuiet, CaptureChunk, AutoStop, CaptureTurns, CaptureStalls,
    CaptureResumes, CaptureDies, StopDetach, CancelDetach, CloseCapture, RealtimeGet,
    FinLoad, FinDiscard, FinShown, storeVars
<1>4. ASSUME NEW j \in Jobs, RecorderSaves(j) PROVE Concludes(j)
  <2>1. store[j] \in Job /\ fin[j].job \in Job
    BY DEF RecInv, TypeOK, StoreTypeOK, RecorderVarsOK, Fin
  <2>2. store[j].status = "recording"
    BY <1>4 DEF RecorderSaves, RealtimeSave, FinCancelled, FinFailed, FinQueued, OwnInv,
      Unsaved
  <2>3. CASE RealtimeSave(j)
    <3> DEFINE rec == [fin[j].job EXCEPT !.transcript = TRUE]
    <3>1. Save(j, rec) /\ rec.status = "recording"
      BY <2>1, <2>2, <2>3 DEF RealtimeSave, Job, OwnInv
    <3> HIDE DEF rec
    <3>2. QED BY <2>2, <3>1 DEF Concludes
  <2>4. CASE FinCancelled(j)
    <3> DEFINE rec == [fin[j].job EXCEPT !.status = "cancelled"]
    <3>1. Save(j, rec) /\ rec.status = "cancelled"
      BY <2>1, <2>4 DEF FinCancelled, Job
    <3> HIDE DEF rec
    <3>2. QED BY <2>2, <3>1 DEF Concludes
  <2>5. CASE FinFailed(j) \/ FinQueued(j)
    <3>1. PICK s \in {"failed", "queued"}, long \in BOOLEAN :
            Save(j, [fin[j].job EXCEPT !.status = s, !.long = long])
      BY <2>5 DEF FinFailed, FinQueued
    <3> DEFINE rec == [fin[j].job EXCEPT !.status = s, !.long = long]
    <3>2. Save(j, rec) /\ rec.status = s
      BY <2>1, <3>1 DEF Job
    <3> HIDE DEF rec
    <3>3. QED BY <2>2, <3>2 DEF Concludes
  <2>6. QED BY <1>4, <2>3, <2>4, <2>5 DEF RecorderSaves
<1>5. QED BY <1>1, <1>2, <1>3, <1>4, RecorderCases

LEMMA RecorderRest ==
  ASSUME RecorderStep
  PROVE  UNCHANGED <<workerVars, lifeVars, lifecycleMu, ghostVars>>
BY DEF RecorderStep, FinStep, StopRead, Start, StartFails, CaptureChunk, AutoStop,
  CaptureStalls, CaptureResumes, CaptureDies, StopDetach, CancelDetach, CloseCapture,
  RealtimeGet, RealtimeSave, FinLoad, FinCancelled, FinDiscard, FinFailed, FinQueued, FinShown

(* What a step of the recorder writes is neither in the worker's hands nor *)
(* locked, and only what it ends comes into the queue.                     *)
LEMMA RecorderFrames ==
  ASSUME RecInv, RestInv, OwnInv, RecorderStep, NEW j \in Jobs
  PROVE  /\ store'[j] # store[j] =>
              /\ store[j].status \in {"absent", "recording"} /\ ~InFlight(j) /\ ~Locked(j)
              /\ store'[j].status \in {"recording", "cancelled", "failed", "queued"}
         /\ InFlight(j)' =>
              \/ InFlight(j)
              \/ store[j].status = "recording" /\ store'[j].status = "queued"
<1>t. store \in [Jobs -> Job]
  BY DEF RecInv, TypeOK, StoreTypeOK
<1>1. ASSUME store'[j] # store[j]
      PROVE  /\ store[j].status \in {"absent", "recording"} /\ ~InFlight(j) /\ ~Locked(j)
             /\ store'[j].status \in {"recording", "cancelled", "failed", "queued"}
  <2>1. PICK k \in Jobs : Starts(k) \/ Concludes(k)
    BY <1>1, RecorderSaveCases
  <2>2. CASE Starts(k)
    <3>1. PICK s \in {"recording", "failed"} :
            store[k].status = "absent" /\ Save(k, Blank(s))
      BY <2>2 DEF Starts
    <3>2. j = k /\ store'[j] = Blank(s)
      BY <1>t, <1>1, <3>1 DEF Save
    <3>3. ~InFlight(j) /\ ~Locked(j)
      BY <3>1, <3>2 DEF RecInv, KnownInv
    <3>4. QED BY <3>1, <3>2, <3>3 DEF Blank
  <2>3. CASE Concludes(k)
    <3>1. PICK rec : /\ store[k].status = "recording" /\ Save(k, rec)
                     /\ rec.status \in {"recording", "cancelled", "failed", "queued"}
      BY <2>3 DEF Concludes
    <3>2. j = k /\ store'[j] = rec
      BY <1>t, <1>1, <3>1 DEF Save
    <3>3. QED BY <3>1, <3>2 DEF RestInv
  <2>4. QED BY <2>1, <2>2, <2>3
<1>2. ASSUME InFlight(j)', ~InFlight(j)
      PROVE  store[j].status = "recording" /\ store'[j].status = "queued"
  <2>1. FinQueued(j)
    BY <1>2, RecorderFrame DEF RecInv
  <2>2. store[j].status = "recording" /\ fin[j].job \in Job
    BY <2>1 DEF FinQueued, OwnInv, Unsaved, RecInv, RecorderVarsOK, Fin
  <2>3. PICK long \in BOOLEAN :
          Save(j, [fin[j].job EXCEPT !.status = "queued", !.long = long])
    BY <2>1 DEF FinQueued
  <2>4. store'[j] = [fin[j].job EXCEPT !.status = "queued", !.long = long]
    BY <1>t, <2>3 DEF Save
  <2>5. QED BY <2>2, <2>4 DEF Job
<1>3. QED BY <1>1, <1>2

LEMMA RecorderKeepsRest ==
  ASSUME RecInv, RestInv, OwnInv, RecorderStep
  PROVE  RestInv'
<1> SUFFICES ASSUME NEW j \in Jobs, store'[j].status = "recording"
             PROVE  ~InFlight(j)' /\ ~Locked(j)'
  BY DEF RestInv
<1>1. UNCHANGED lifecycleMu
  BY RecorderRest
<1>2. ~InFlight(j) /\ ~Locked(j)
  BY RecorderFrames DEF RestInv
<1>3. QED BY <1>1, <1>2, RecorderFrames DEF Locked

(* A finalizer takes up a job in state recording, and reads it before it   *)
(* writes it.                                                              *)
LEMMA RecorderKeepsOwn ==
  ASSUME RecInv, RestInv, OwnInv, RecorderStep
  PROVE  OwnInv'
<1>t. /\ store \in [Jobs -> Job] /\ fin \in [Jobs -> Fin]
      /\ recording \in Jobs \cup {NoJob}
  BY DEF RecInv, TypeOK, StoreTypeOK, PillTypeOK, RecorderVarsOK
<1>a. Alive'
  BY RecorderFrame DEF RecInv
<1> DEFINE Owns(j) ==
      /\ fin'[j].pc \in Unsaved => store'[j].status = "recording"
      /\ fin'[j].pc \in {"committed", "loaded"} => fin'[j].job.status = "recording"
(* For all other jobs, and where only the record is written. *)
<1>same. ASSUME NEW k \in Jobs, fin'[k] = fin[k], store'[k] = store[k]
         PROVE  Owns(k)
  BY <1>same DEF OwnInv
<1>1. ASSUME UNCHANGED <<store, fin>> PROVE \A k \in Jobs : Owns(k)
  BY <1>1, <1>same
<1>2. ASSUME NEW j \in Jobs,
             StartFails(j) \/ \E handsFree \in BOOLEAN : Start(j, handsFree)
      PROVE  \A k \in Jobs : Owns(k)
  <2>1. UNCHANGED fin /\ \A k \in Jobs \ {j} : store'[k] = store[k]
    BY <1>2, <1>t DEF StartFails, Start, Save, recorderVars
  <2>2. fin[j].pc = "off"
    BY <1>2 DEF StartFails, Start, CanStart, Fresh, RecInv, KnownInv
  <2>3. QED BY <2>1, <2>2, <1>same DEF Unsaved
<1>3. ASSUME NEW j \in Jobs, StopDetach(j) \/ CancelDetach(j)
      PROVE  \A k \in Jobs : Owns(k)
  <2>1. UNCHANGED store
    BY <1>3 DEF StopDetach, CancelDetach, storeVars
  <2>2. CASE recording # j
    <3>1. UNCHANGED fin
      BY <1>3, <2>2 DEF StopDetach, CancelDetach, Detaches
    <3>2. QED BY <2>1, <3>1, <1>same
  <2>3. CASE recording = j
    <3>1. store[j].status = "recording"
      BY <1>t, <2>3 DEF RecInv, ApartInv, Jobs, NoJob
    <3>2. fin'[j].pc = "closing" /\ \A k \in Jobs \ {j} : fin'[k] = fin[k]
      <4>1. CASE StopDetach(j)
        BY <1>t, <2>3, <4>1 DEF StopDetach, Detaches, NoFin
      <4>2. CASE CancelDetach(j)
        BY <1>t, <4>2 DEF CancelDetach, NoFin
      <4>3. QED BY <1>3, <4>1, <4>2
    <3>3. QED BY <2>1, <3>1, <3>2, <1>same
  <2>4. QED BY <2>2, <2>3
<1>4. ASSUME NEW j \in Jobs, CloseCapture(j) PROVE \A k \in Jobs : Owns(k)
  <2>1. PICK err \in BOOLEAN : fin' = [fin EXCEPT ![j].pc = "closed", ![j].err = err]
    BY <1>4 DEF CloseCapture
  <2>2. fin'[j].pc = "closed" /\ UNCHANGED store
    BY <1>4, <1>t, <2>1 DEF CloseCapture, Fin, storeVars
  <2>3. store[j].status = "recording"
    BY <1>4 DEF CloseCapture, OwnInv, Unsaved
  <2>4. \A k \in Jobs \ {j} : fin'[k] = fin[k]
    BY <1>t, <2>1
  <2>5. QED BY <2>2, <2>3, <2>4, <1>same
<1>5. ASSUME NEW j \in Jobs, FinLoad(j) \/ RealtimeGet(j)
      PROVE  \A k \in Jobs : Owns(k)
  <2>1. UNCHANGED store /\ store[j].status = "recording"
    BY <1>5 DEF FinLoad, RealtimeGet, OwnInv, Unsaved, storeVars
  <2>2. PICK stage \in {"loaded", "committed"} :
          fin' = [fin EXCEPT ![j].pc = stage, ![j].job = store[j]]
    BY <1>5, <2>1 DEF FinLoad, RealtimeGet, Exists, NoFile
  <2>3. fin'[j].pc = stage /\ fin'[j].job = store[j]
    BY <1>t, <2>2 DEF Fin
  <2>4. \A k \in Jobs \ {j} : fin'[k] = fin[k]
    BY <1>t, <2>2
  <2>5. Owns(j)
    BY <1>t, <2>1, <2>3
  <2>6. QED BY <2>1, <2>4, <2>5, <1>same
<1>6. ASSUME NEW j \in Jobs, FinDiscard(j) \/ FinShown(j)
      PROVE  \A k \in Jobs : Owns(k)
  <2>1. UNCHANGED store /\ fin' = [fin EXCEPT ![j] = NoFin]
    BY <1>6 DEF FinDiscard, FinShown, FinEnds, storeVars
  <2>2. fin'[j].pc = "off"
    BY <1>t, <2>1 DEF NoFin
  <2>3. QED BY <2>1, <2>2, <1>same DEF Unsaved
<1>7. ASSUME NEW j \in Jobs, RealtimeSave(j) PROVE \A k \in Jobs : Owns(k)
  <2>1. /\ store' = [store EXCEPT ![j] = [fin[j].job EXCEPT !.transcript = TRUE]]
        /\ fin[j].pc = "committed" /\ fin' = [fin EXCEPT ![j].pc = "closed"]
    BY <1>7 DEF RealtimeSave, Save, FinGoes
  <2>2. /\ fin[j].job \in Job /\ fin[j].job.status = "recording"
        /\ fin'[j].pc = "closed"
    BY <1>t, <2>1 DEF OwnInv, Fin
  <2>3. store'[j].status = "recording"
    BY <1>t, <2>1, <2>2 DEF Job
  <2>4. \A k \in Jobs \ {j} : fin'[k] = fin[k] /\ store'[k] = store[k]
    BY <1>t, <2>1
  <2>5. QED BY <2>2, <2>3, <2>4, <1>same
<1>8. ASSUME NEW j \in Jobs, FinCancelled(j) \/ FinFailed(j) \/ FinQueued(j)
      PROVE  \A k \in Jobs : Owns(k)
  <2>1. \A k \in Jobs \ {j} : store'[k] = store[k]
    BY <1>8, <1>t DEF FinCancelled, FinFailed, FinQueued, Save
  <2>2. \/ FinGoes(j, "discard") \/ FinGoes(j, "queued") \/ FinEnds(j)
    BY <1>8 DEF FinCancelled, FinFailed, FinQueued
  <2>3. /\ \A k \in Jobs \ {j} : fin'[k] = fin[k]
        /\ fin'[j].pc \in {"discard", "off", "queued"}
    BY <2>2, <1>t DEF FinGoes, FinEnds, NoFin, Fin
  <2>4. QED BY <2>1, <2>3, <1>same DEF Unsaved
<1>9. \A k \in Jobs : Owns(k)
  <2>1. ASSUME \/ StopRead
               \/ \E j \in Jobs : CaptureChunk(j) \/ AutoStop(j) \/ CaptureTurns(j)
        PROVE  UNCHANGED <<store, fin>>
    BY <2>1 DEF StopRead, CaptureChunk, AutoStop, CaptureTurns, CaptureStalls,
      CaptureResumes, CaptureDies, storeVars
  <2>2. QED
    BY <2>1, <1>1, <1>2, <1>3, <1>4, <1>5, <1>6, <1>7, <1>8, RecorderCases
    DEF RecorderQuiet, RecorderSaves
<1>10. QED BY <1>a, <1>9 DEF OwnInv
-----------------------------------------------------------------------------
(* To the worker's accounts a step of the recorder is like a Submit. *)
LEMMA RecorderKeepsCredit ==
  ASSUME RecInv, RestInv, OwnInv, AccountInv, StageInv, RecorderStep
  PROVE  AccountInv' /\ StageInv'
<1>t. WorkerTypeOK
  BY DEF RecInv, TypeOK
<1>p. pc # "idle" => processingID \in Jobs
  BY <1>t DEF WorkerTypeOK
<1>1. UNCHANGED <<workerVars, lifeVars, lifecycleMu, ghostVars>>
  BY RecorderRest
<1>2. UNCHANGED <<pc, processingID, job, up, recovering, inserted, retries>>
  BY <1>1 DEF workerVars, lifeVars, ghostVars
<1>w. \A j \in Jobs : store'[j] # store[j] =>
        /\ store[j].status \in {"absent", "recording"} /\ ~InFlight(j)
        /\ store'[j].status \in {"recording", "cancelled", "failed", "queued"}
  BY RecorderFrames
(* What is in the worker's hands stays as it is. *)
<1>3. pc # "idle" => store'[processingID] = store[processingID]
  BY <1>p, <1>w DEF InFlight
<1>4. AccountInv'
  <2> SUFFICES ASSUME NEW j \in Jobs PROVE Account(j)'
    BY DEF AccountInv
  <2>1. Account(j)
    BY DEF AccountInv
  <2>2. CASE Owed(j)
    BY <1>2, <2>2 DEF Account, Owed
  <2>3. CASE ~Owed(j)
    <3>1. Settled(j) /\ inserted[j] = retries[j] + 1
      BY <2>1, <2>3 DEF Account
    <3>2. store[j].status \notin {"absent", "recording"}
      BY <3>1 DEF Settled
    <3>3. store'[j] = store[j]
      BY <1>w, <3>2
    <3>4. ~InFlight(j) => ~InFlight(j)'
      BY <3>2, RecorderFrames
    <3>5. Settled(j)'
      BY <1>2, <3>1, <3>3, <3>4 DEF Settled
    <3>6. QED BY <1>2, <3>1, <3>5 DEF Account
  <2>4. QED BY <2>2, <2>3
<1>5. StageInv'
  BY <1>2, <1>3 DEF StageInv, Alive, Owed, BeforeTyped
<1>6. QED BY <1>4, <1>5

LEMMA RecorderKeepsAccounts ==
  ASSUME WholeInv, RecorderStep
  PROVE  AccountInv' /\ StageInv' /\ TypedInv' /\ OpenInv' /\ KeepsFinished
<1> USE DEF WholeInv
<1>1. UNCHANGED <<pc, processingID, inserted, retries>>
  BY RecorderRest DEF workerVars, ghostVars
<1>2. \A j \in Jobs : store'[j] # store[j] =>
        /\ store[j].status \in {"absent", "recording"} /\ ~InFlight(j)
        /\ store'[j].status \in {"recording", "cancelled", "failed", "queued"}
  BY RecorderFrames
<1>3. pc # "idle" => store'[processingID] = store[processingID]
  BY <1>2 DEF InFlight, RecInv, TypeOK, WorkerTypeOK
<1>4. TypedInv'
  BY <1>1, <1>2 DEF TypedInv, DeliveredWasTyped
<1>5. OpenInv'
  BY <1>1, <1>3 DEF OpenInv, Finished
<1>6. KeepsFinished
  BY <1>2 DEF KeepsFinished, Finished
<1>7. QED BY <1>4, <1>5, <1>6, RecorderKeepsCredit

(* To the user a recording is a pending dictation from its start. *)
LEMMA RecorderPromise ==
  ASSUME WholeInv, RecorderStep
  PROVE  PromiseStep
<1> USE DEF WholeInv
<1>t. StoreTypeOK
  BY DEF RecInv, TypeOK
<1>1. UNCHANGED <<inserted, retries>>
  BY RecorderRest DEF ghostVars
<1>2. CASE UNCHANGED store
  BY <1>1, <1>2, QuietPromise
<1>3. ASSUME NEW j \in Jobs, Starts(j) PROVE PromiseStep
  <2>1. PICK s \in {"recording", "failed"} :
          store[j].status = "absent" /\ Save(j, Blank(s))
    BY <1>3 DEF Starts
  <2>2. Outcome' = [Outcome EXCEPT ![j] = OutcomeOf(s)]
    BY <1>t, <2>1, SaveOutcome DEF Blank
  <2>3. OutcomeOf(s) \in {"pending", "failed"} /\ Outcome[j] = "absent"
    BY <2>1, OutcomeOfValues DEF Outcome, NoFile
  <2>4. Promise!Begin(j)
    BY <1>1, <2>2, <2>3 DEF Promise!Begin, Promise!Becomes
  <2>5. QED BY <2>4 DEF PromiseStep, Promise!Advance
<1>4. ASSUME NEW j \in Jobs, Concludes(j) PROVE PromiseStep
  <2>1. PICK rec : /\ store[j].status = "recording" /\ Save(j, rec)
                   /\ rec.status \in {"recording", "cancelled", "failed", "queued"}
    BY <1>4 DEF Concludes
  <2>2. Outcome[j] = "pending"
    BY <2>1, OutcomeOfValues DEF Outcome
  <2>3. Owed(j)
    <3>1. ~Settled(j)
      BY <2>1 DEF Settled
    <3>2. QED BY <3>1 DEF AccountInv, Account
  <2>4. OutcomeOf(rec.status) \in {"pending", "cancelled", "failed"}
    BY <2>1, OutcomeOfValues
  <2>5. CASE OutcomeOf(rec.status) = "pending"
    BY <1>1, <1>t, <2>1, <2>2, <2>3, <2>5, SavePending
  <2>6. CASE OutcomeOf(rec.status) \in {"cancelled", "failed"}
    BY <1>1, <1>t, <2>1, <2>2, <2>6, SaveGivenUp
  <2>7. QED BY <2>4, <2>5, <2>6
<1>5. QED BY <1>2, <1>3, <1>4, RecorderSaveCases

LEMMA RecorderKeepsOutcome ==
  ASSUME WholeInv, RecorderStep
  PROVE  OutcomeInv'
<1> USE DEF WholeInv
<1>t. WorkerTypeOK /\ LockTypeOK
  BY DEF RecInv, TypeOK
<1>1. UNCHANGED <<pc, processingID, lifecycleMu>>
  BY RecorderRest DEF workerVars
<1>2. PromiseStep
  BY RecorderPromise
<1>3. \A j \in Jobs : InFlight(j) => Outcome'[j] = Outcome[j]
  BY RecorderFrames DEF Outcome
<1>4. pc # "idle" => processingID \in Jobs /\ InFlight(processingID)
  BY <1>t DEF WorkerTypeOK, InFlight
<1>5. lifecycleMu.op = "retry" => Outcome'[lifecycleMu.id] \notin NoFile
  BY <1>t, <1>2, PromiseKeepsKnown DEF OutcomeInv, Known, LockTypeOK
<1>6. QED BY <1>1, <1>3, <1>4, <1>5 DEF OutcomeInv, Known

LEMMA NextKeepsWhole ==
  ASSUME "recording" \notin RetryFrom, WholeInv, [Next]_vars
  PROVE  WholeInv' /\ PromiseStep /\ KeepsFinished
<1>1. RecInv'
  BY NextKeepsRec DEF WholeInv
<1>2. CASE PipelineOnly
  <2>1. PipelineStep /\ [PipelineNext]_pipelineVars
    BY <1>2 DEF PipelineOnly, PipelineNext
  <2>2. IInv /\ TypedInv /\ OpenInv /\ OutcomeInv
    BY DEF WholeInv, RecInv, IInv
  <2>3. AccountInv' /\ StageInv'
    BY <2>1, <2>2, StepAccount
  <2>4. TypedInv'
    BY <2>1, <2>2, StepTyped DEF IInv, StageInv, MarkInv
  <2>5. OpenInv' /\ KeepsFinished
    BY <2>1, <2>2, NextFinished
  <2>6. PromiseStep
    BY <2>1, <2>2, NextPromise
  <2>7. OutcomeInv'
    BY <2>1, <2>2, <2>6, NextOutcome
  <2>8. RestInv'
    BY <2>1, PipelineKeepsRest DEF WholeInv, RecInv
  <2>9. OwnInv'
    BY <1>2, PipelineKeepsOwn DEF WholeInv
  <2>10. QED BY <1>1, <2>3, <2>4, <2>5, <2>6, <2>7, <2>8, <2>9 DEF WholeInv
<1>3. CASE RecorderStep
  <2>1. RestInv' /\ OwnInv'
    BY <1>3, RecorderKeepsRest, RecorderKeepsOwn DEF WholeInv
  <2>2. QED
    BY <1>1, <1>3, <2>1, RecorderKeepsAccounts, RecorderPromise, RecorderKeepsOutcome
    DEF WholeInv
<1>4. CASE UNCHANGED vars
  <2>1. /\ UNCHANGED <<pipelineVars, fin>>
        /\ UNCHANGED <<store, pc, processingID, job, up, recovering, inserted, retries,
                       lifecycleMu, queueVars, workerVars>>
    BY <1>4 DEF vars, pipelineVars, recorderVars, storeVars, workerVars, lifeVars,
      ghostVars
  <2>2. IInv /\ TypedInv /\ OpenInv /\ OutcomeInv
    BY DEF WholeInv, RecInv, IInv
  <2>3. \A j \in Jobs : InFlight(j)' <=> InFlight(j)
    BY <2>1, QuietRefs
  <2>4. AccountInv'
    BY <2>1, <2>2, <2>3 DEF IInv, AccountInv, Account, Owed, Settled
  <2>5. StageInv' /\ TypedInv'
    BY <2>1, <2>2
    DEF IInv, StageInv, Alive, Owed, BeforeTyped, TypedInv, DeliveredWasTyped
  <2>6. OpenInv' /\ KeepsFinished /\ PromiseStep
    BY <2>1, <2>2, NextFinished, NextPromise
  <2>7. OutcomeInv'
    BY <2>1, <2>2, <2>6, NextOutcome
  <2>8. RestInv' /\ OwnInv'
    BY <2>1, <2>3 DEF WholeInv, RestInv, OwnInv, Locked, Alive
  <2>9. QED BY <1>1, <2>4, <2>5, <2>6, <2>7, <2>8 DEF WholeInv
<1>5. QED BY <1>2, <1>3, <1>4 DEF Next

LEMMA WholeInitially == Init => WholeInv /\ Promise!DictationInit
<1> SUFFICES ASSUME Init PROVE WholeInv /\ Promise!DictationInit
  OBVIOUS
<1> USE DEF Init, PipelineInit, RecorderInit
<1>1. RecInv
  BY RecorderInitially
<1>2. AccountInv /\ StageInv
  BY DEF AccountInv, Account, Owed, StageInv, BeforeTyped
<1>3. TypedInv /\ OpenInv
  BY DEF StoreInit, Blank, TypedInv, DeliveredWasTyped, OpenInv
<1>4. Promise!DictationInit /\ OutcomeInv
  BY OutcomeOfValues
  DEF StoreInit, Blank, NoFile, Free, Outcome, OutcomeInv, Promise!DictationInit
<1>5. RestInv /\ OwnInv
  BY DEF StoreInit, Blank, RestInv, OwnInv, Unsaved, NoFin
<1>6. QED BY <1>1, <1>2, <1>3, <1>4, <1>5 DEF WholeInv

(* The invariant of recorder and pipeline together. *)
THEOREM WholeInvariant ==
  ASSUME "recording" \notin RetryFrom
  PROVE  Spec => []WholeInv /\ [][KeepsFinished]_vars
<1>1. WholeInv /\ [Next]_vars => WholeInv' /\ [KeepsFinished]_vars
  BY NextKeepsWhole
<1>2. QED BY WholeInitially, <1>1, PTL DEF Spec

(* A dictation begun with Start keeps Dictation's promise as the pipeline  *)
(* alone does, whichever of Stop, silence and Cancel ends its recording    *)
(* and whatever the worker, retries, crashes and restarts do meanwhile     *)
(* (start, stopRecording, Cancel, process, recoverInterruptedJobs).        *)
THEOREM DictationKept ==
  ASSUME "recording" \notin RetryFrom
  PROVE  Spec => KeepsPromise
<1>1. WholeInv /\ [Next]_vars => PromiseStep
  BY NextKeepsWhole
<1>2. Init => Promise!DictationInit
  BY WholeInitially
<1>3. PromiseStep => [Promise!DictationNext]_Promise!dictationVars
  BY DEF PromiseStep, Promise!DictationNext
<1>4. QED
  BY <1>1, <1>2, <1>3, WholeInvariant, PTL
  DEF Spec, KeepsPromise, Promise!DictationSpec

(* With the recorder in front, too, a text is typed at most once per       *)
(* request, and History claims no delivery that did not happen (process).  *)
THEOREM DictationTypedOnce ==
  ASSUME "recording" \notin RetryFrom
  PROVE  Spec => []InsertedOnce /\ []DeliveredWasTyped
<1>1. WholeInv => InsertedOnce
  BY DEF WholeInv, RecInv, TypeOK, HistoryTypeOK, AccountInv, Account, Owed, InsertedOnce
<1>2. WholeInv => DeliveredWasTyped
  BY DEF WholeInv, TypedInv
<1>3. QED BY <1>1, <1>2, WholeInvariant, PTL
-----------------------------------------------------------------------------
(* The words of a dictation are on disk, as far as anybody has spoken.     *)
Spoken(j) == \/ audio[j] \in {"short", "full"}
             \/ audio[j] = "header" /\ retries[j] > 0

(* What may still reach process() needs its audio, even a failed job: a    *)
(* duplicate of its id is not refused.  That of a deleted job is.          *)
Needed(j) ==
  \/ store[j].status \in {"queued", "transcribing", "cleaning", "formatting",
                          "delivering", "retry_wait"}
  \/ InFlight(j) /\ ~Finished(j) /\ store[j].status # "deleted"

KeptInv == \A j \in Jobs : Needed(j) => Spoken(j) \/ j \in raced

(* A Retry has seen the audio, and finds it when it queues the job, unless *)
(* it is raced.                                                            *)
LockInv == lifecycleMu.op = "retry" =>
             audio[lifecycleMu.id] # "none" \/ lifecycleMu.id \in raced

Asked(j) == lifecycleMu.op = "retry" /\ lifecycleMu.id = j

(* Audio is discarded of jobs that are over only, to which nothing refers. *)
DiscardInv == \A j \in Jobs : fin[j].pc = "discard" =>
  store[j].status \in {"cancelled", "deleted"} /\ ~InFlight(j) /\ ~Asked(j)

(* So does the worker of a stopping daemon, except that a Retry may have   *)
(* been pending as it cancelled the job.                                   *)
StopInv == pc = "discard" =>
  /\ up = "stopping"
  /\ Finished(processingID) \/ processingID \in raced
  /\ Asked(processingID) => processingID \in raced

AudioInv == KeptInv /\ LockInv /\ DiscardInv /\ StopInv

(* What a step of the pipeline does to audio, to the count of Retries and  *)
(* to the worker about to discard.                                         *)
LEMMA PipelineAudio ==
  ASSUME TypeOK, PipelineStep
  PROVE  /\ UNCHANGED audio \/ DiscardAudio
         /\ UNCHANGED retries \/ RetrySave
         /\ raced \subseteq raced'
         /\ pc' = "discard" =>
              /\ CancelledProcessing \/ pc = "discard"
              /\ (UNCHANGED <<up, processingID>>) \/ up # "stopping"
<1>1. CASE Dequeue \/ WorkerStep
  BY <1>1 DEF Dequeue, WorkerStep, Load, Transcribe, SkipTranscribe, AsrAnswers,
    AsrFailsRetryable, AsrFailsForGood, CleanAnswers, FormatAnswers, MarkAttempted,
    TypeText, DeliverFails, RecordDelivered, RecordUndelivered, CancelledProcessing,
    DiscardAudio, Finish, Races, storeVars, lifeVars, ghostVars
<1>2. ASSUME NEW k \in Jobs, SpillSends(k) \/ BackoffElapses(k) \/ RetryRead(k)
                               \/ RecoveryEnqueue(k) \/ RecoverJob(k)
      PROVE  UNCHANGED <<audio, retries, raced, up, pc, processingID>>
  BY <1>2 DEF SpillSends, BackoffElapses, RetryRead, RecoveryEnqueue, RecoverJob,
    storeVars, lifeVars, ghostVars, workerVars
<1>3. CASE RetryTimer \/ RetrySave \/ RecoveryTick
  BY <1>3 DEF RetryTimer, TimerFires, RetrySave, RecoveryTick, storeVars, lifeVars,
    ghostVars, workerVars
<1>4. CASE Sigterm
  BY <1>4 DEF Sigterm, storeVars, ghostVars, workerVars
<1>5. CASE Exit \/ Crash \/ Restart \/ Serve \/ ShowReady
  BY <1>5 DEF Exit, Crash, LoseMemory, Restart, Serve, ShowReady, storeVars, ghostVars,
    workerVars, lifeVars
<1>6. QED BY <1>1, <1>2, <1>3, <1>4, <1>5 DEF PipelineStep

SafeRetries == RetryFrom \cap {"recording", "cancelled"} = {}

LEMMA OnlyRetryAsks ==
  ASSUME PipelineStep, NEW j \in Jobs, Asked(j)'
  PROVE  Asked(j) \/ RetryRead(j)
BY LockMoves DEF Asked, Free, RetryRead

LEMMA PipelineKeepsAudio ==
  ASSUME SafeRetries, WholeInv, AudioInv, PipelineOnly, KeepsFinished, PromiseStep
  PROVE  AudioInv'
<1> USE DEF WholeInv, RecInv
<1>t. /\ StoreTypeOK /\ WorkerTypeOK /\ LockTypeOK /\ HistoryTypeOK
      /\ PipelineStep /\ PipelineWrites
  BY PipelineOnlyWrites DEF PipelineOnly, TypeOK
<1>1. /\ UNCHANGED audio \/ DiscardAudio
      /\ UNCHANGED retries \/ RetrySave
      /\ raced \subseteq raced'
      /\ pc' = "discard" =>
           /\ CancelledProcessing \/ pc = "discard"
           /\ (UNCHANGED <<up, processingID>>) \/ up # "stopping"
  BY <1>t, PipelineAudio
<1>3. RetrySave => lifecycleMu.op = "retry" /\ lifecycleMu.id \in Jobs
  BY <1>t DEF RetrySave, LockTypeOK
<1>4. \A j \in Jobs : \/ audio'[j] = audio[j]
                      \/ j \in raced
                      \/ Finished(j) /\ DiscardAudio /\ processingID = j
  BY <1>1, <1>t DEF DiscardAudio, RemoveAudio, StoreTypeOK, AudioInv, StopInv
<1>5. \A j \in Jobs : retries[j] > 0 => retries'[j] > 0
  <2>1. CASE RetrySave
    BY <1>3, <1>t, <2>1 DEF RetrySave, HistoryTypeOK
  <2>2. QED BY <1>1, <2>1
<1>6. KeptInv'
  <2> SUFFICES ASSUME NEW j \in Jobs, Needed(j)', j \notin raced' PROVE Spoken(j)'
    BY DEF KeptInv
  <2>r. j \notin raced
    BY <1>1
  <2>1. CASE RetrySaves(j)
    <3>1. audio' = audio /\ audio[j] # "none" /\ retries'[j] > 0
      BY <2>1, <2>r, <1>3, <1>t
      DEF RetrySaves, RetrySave, Locked, HistoryTypeOK, AudioInv, LockInv
    <3>2. QED BY <3>1, <1>t DEF Spoken, StoreTypeOK, Audio
  <2>2. CASE RecoverJob(j)
    <3>1. /\ UNCHANGED <<audio, retries, timers, scan, processingID>>
          /\ store'[j] = [store[j] EXCEPT !.status = RecoveredStatus(j)]
      BY <2>2, <1>t DEF RecoverJob, Save, StoreTypeOK, ghostVars, workerVars
    <3>2. store'[j].status = RecoveredStatus(j)
      BY <3>1, <1>t DEF StoreTypeOK, Job
    <3>3. InFlight(j)' => InFlight(j) \/ (Interrupted(j) /\ RecoveredStatus(j) = "queued")
      BY <2>2, <3>1 DEF RecoverJob, InFlight
    <3>4. CASE store[j].status = "recording"
      <4>1. ~InFlight(j)
        BY <3>4 DEF RestInv
      <4>2. RecoveredStatus(j) = "queued"
        BY <3>2, <3>3, <3>4, <4>1 DEF Needed, RecoveredStatus
      <4>3. QED BY <3>1, <3>4, <4>2 DEF RecoveredStatus, Spoken
    <3>5. CASE store[j].status # "recording"
      <4>1. Needed(j)
        BY <3>2, <3>3, <3>5 DEF Needed, RecoveredStatus, Interrupted, Finished
      <4>2. QED BY <2>r, <3>1, <4>1 DEF AudioInv, KeptInv, Spoken
    <3>6. QED BY <3>4, <3>5
  <2>3. CASE ~RetrySaves(j) /\ ~RecoverJob(j)
    <3>1. store'[j] # store[j] => InFlight(j) /\ ~Finished(j)
      BY <1>t, <2>3 DEF PipelineWrites, WritesOwn, AtWork, InFlight, OpenInv
    <3>d. store[j].status # "deleted"
      <4>1. StoreTypeOK' /\ [Promise!DictationNext]_Promise!dictationVars
        BY <1>t, StepType DEF TypeOK, PromiseStep, Promise!DictationNext
      <4>2. store'[j].status # "deleted"
        BY <1>t, <3>1 DEF Needed
      <4>3. QED BY <1>t, <4>1, <4>2, PromiseKeepsDeleted
    <3>2. InFlight(j)' => InFlight(j) \/ store[j].status \in {"queued", "retry_wait"}
      BY <1>t, <2>3 DEF PipelineWrites, TakesUpOwn
    <3>3. Needed(j)
      BY <3>1, <3>2, <3>d DEF Needed, Finished
    <3>4. audio'[j] = audio[j]
      <4>1. CASE DiscardAudio /\ Finished(j)
        BY <4>1 DEF DiscardAudio, Needed, Finished
      <4>2. QED BY <1>4, <2>r, <4>1
    <3>5. QED BY <1>5, <2>r, <3>3, <3>4 DEF AudioInv, KeptInv, Spoken
  <2>4. QED BY <2>1, <2>2, <2>3
<1>7. LockInv'
  <2> SUFFICES ASSUME lifecycleMu'.op = "retry", lifecycleMu'.id \notin raced'
               PROVE  audio'[lifecycleMu'.id] # "none"
    BY DEF LockInv
  <2>1. PICK k \in Jobs : k = lifecycleMu'.id
    <3>1. TypeOK'
      BY <1>t, StepType
    <3>2. QED BY <3>1 DEF TypeOK, LockTypeOK
  <2>2. Asked(k) \/ RetryRead(k)
    BY <1>t, <2>1, OnlyRetryAsks DEF Asked
  <2>3. CASE RetryRead(k)
    BY <2>1, <2>3 DEF RetryRead, storeVars
  <2>4. CASE Asked(k)
    <3>1. audio[k] # "none" /\ k \notin raced
      BY <1>1, <2>1, <2>4 DEF Asked, AudioInv, LockInv
    <3>2. ~(DiscardAudio /\ processingID = k)
      BY <2>4, <3>1 DEF DiscardAudio, AudioInv, StopInv
    <3>3. QED BY <1>4, <2>1, <3>1, <3>2
  <2>5. QED BY <2>2, <2>3, <2>4
<1>8. DiscardInv'
  <2> SUFFICES ASSUME NEW j \in Jobs, fin'[j].pc = "discard"
               PROVE  /\ store'[j].status \in {"cancelled", "deleted"}
                      /\ ~InFlight(j)' /\ ~Asked(j)'
    BY DEF DiscardInv
  <2>1. fin' = fin
    BY DEF PipelineOnly, recorderVars, NoFin
  <2>2. /\ store[j].status \in {"cancelled", "deleted"}
        /\ ~InFlight(j) /\ ~Asked(j) /\ Alive
    BY <2>1 DEF AudioInv, DiscardInv, OwnInv
  <2>s. ~RetrySaves(j)
    BY <2>2 DEF RetrySaves, RetrySave, Locked, Asked
  <2>3. store'[j] = store[j]
    BY <1>t, <2>2, <2>s DEF PipelineWrites, WritesOwn, AtWork, InFlight, RecoverJob, Alive
  <2>4. ~InFlight(j)'
    BY <1>t, <2>2, <2>s DEF PipelineWrites, TakesUpOwn, RecoverJob, Alive
  <2>5. ~Asked(j)'
    BY <1>t, <2>2, OnlyRetryAsks, PipelineAssumption DEF RetryRead, SafeRetries, JobStatus
  <2>6. QED BY <2>2, <2>3, <2>4, <2>5
<1>9. StopInv'
  <2> SUFFICES ASSUME pc' = "discard"
               PROVE  /\ up' = "stopping"
                      /\ Finished(processingID)' \/ processingID' \in raced'
                      /\ Asked(processingID)' => processingID' \in raced'
    BY DEF StopInv
  <2>1. up = "stopping" /\ UNCHANGED <<up, processingID>>
    BY <1>1 DEF CancelledProcessing, AudioInv, StopInv
  <2>2. CASE CancelledProcessing
    <3>1. processingID \in Jobs /\ job \in Job
      BY <1>t, <2>2 DEF CancelledProcessing, WorkerTypeOK
    <3>2. store'[processingID] = [job EXCEPT !.status = "cancelled"]
      BY <1>t, <2>2, <3>1 DEF CancelledProcessing, Save, StoreTypeOK
    <3>3. Asked(processingID)' => processingID \in raced'
      BY <2>2 DEF CancelledProcessing, Races, RetryPending, Asked
    <3>4. QED BY <2>1, <3>1, <3>2, <3>3 DEF Finished, Job
  <2>3. CASE pc = "discard"
    <3>1. /\ Finished(processingID) \/ processingID \in raced
          /\ Asked(processingID) => processingID \in raced
          /\ processingID \in Jobs
      BY <1>t, <2>3 DEF AudioInv, StopInv, WorkerTypeOK
    <3>2. CASE processingID \in raced
      BY <1>1, <2>1, <3>2
    <3>3. CASE processingID \notin raced
      <4>1. ~RetrySaves(processingID)
        BY <3>1, <3>3 DEF RetrySaves, RetrySave, Locked, Asked
      <4>2. store'[processingID] = store[processingID]
        BY <1>t, <2>1, <2>3, <3>1, <4>1 DEF PipelineWrites, WritesOwn, AtWork, RecoverJob
      <4>3. ~Asked(processingID)'
        BY <1>t, <2>1, <3>1, <3>3, OnlyRetryAsks DEF RetryRead, Serving
      <4>4. QED BY <2>1, <3>1, <3>3, <4>2, <4>3 DEF Finished
    <3>4. QED BY <3>2, <3>3
  <2>4. QED BY <1>1, <2>2, <2>3
<1>10. QED BY <1>6, <1>7, <1>8, <1>9 DEF AudioInv

(* Of the recorder's steps only the Save of a recording with enough speech *)
(* queues a job, and only a discarded recording loses its audio.           *)
LEMMA RecorderAudio ==
  ASSUME RecInv, OwnInv, RecorderStep, NEW j \in Jobs
  PROVE  /\ store'[j].status = "queued" /\ store[j].status # "queued"
              => audio'[j] = audio[j] /\ audio[j] = "full"
         /\ \/ audio'[j] = audio[j]
            \/ audio[j] \in {"header", "short", "full"} /\ audio'[j] \in {"short", "full"}
            \/ store[j].status = "absent"
            \/ fin[j].pc = "discard" /\ UNCHANGED store
         /\ fin'[j].pc = "discard" =>
              \/ fin[j].pc = "discard"
              \/ store[j].status = "recording" /\ store'[j].status = "cancelled"
<1> USE DEF RecInv
<1>t. /\ store \in [Jobs -> Job] /\ audio \in [Jobs -> Audio] /\ fin \in [Jobs -> Fin]
  BY DEF TypeOK, StoreTypeOK, RecorderVarsOK
<1>1. CASE StopRead
  BY <1>1 DEF StopRead, storeVars
<1>2. ASSUME NEW k \in Jobs, NEW handsFree \in BOOLEAN, Start(k, handsFree)
      PROVE  /\ UNCHANGED fin
             /\ store'[j].status = "queued" => store'[j] = store[j]
             /\ audio'[j] = audio[j] \/ store[j].status = "absent"
  BY <1>2, <1>t DEF Start, CanStart, Fresh, Save, Blank
<1>3. ASSUME NEW k \in Jobs, StartFails(k)
      PROVE  /\ UNCHANGED <<fin, audio>>
             /\ store'[j].status = "queued" => store'[j] = store[j]
  BY <1>3, <1>t DEF StartFails, Save, Blank, recorderVars
<1>4. ASSUME NEW k \in Jobs, CaptureChunk(k)
      PROVE  /\ UNCHANGED <<store, fin>>
             /\ \/ audio'[j] = audio[j]
                \/ /\ audio[j] \in {"header", "short", "full"}
                   /\ audio'[j] \in {"short", "full"}
  BY <1>4, <1>t DEF CaptureChunk, Longer
<1>5. ASSUME NEW k \in Jobs, AutoStop(k) \/ CaptureTurns(k)
      PROVE  UNCHANGED <<store, audio, fin>>
  BY <1>5 DEF AutoStop, CaptureTurns, CaptureStalls, CaptureResumes, CaptureDies, storeVars
<1>6. ASSUME NEW k \in Jobs,
             \/ StopDetach(k) \/ CancelDetach(k) \/ CloseCapture(k) \/ RealtimeGet(k)
             \/ FinLoad(k) \/ FinShown(k)
      PROVE  /\ UNCHANGED <<store, audio>>
             /\ fin'[j].pc = "discard" => fin[j].pc = "discard"
  <2>1. UNCHANGED <<store, audio>>
    BY <1>6 DEF StopDetach, CancelDetach, CloseCapture, RealtimeGet, FinLoad, FinShown,
      storeVars
  <2>2. /\ \A i \in Jobs \ {k} : fin'[i] = fin[i]
        /\ fin'[k] = fin[k] \/ fin'[k].pc \in Unsaved \cup {"off"}
    <3>1. CASE StopDetach(k) \/ CancelDetach(k)
      BY <3>1, <1>t DEF StopDetach, CancelDetach, NoFin, Unsaved
    <3>2. CASE CloseCapture(k)
      BY <3>2, <1>t DEF CloseCapture, Fin, Unsaved
    <3>3. CASE RealtimeGet(k)
      BY <3>3, <1>t DEF RealtimeGet, Fin, Unsaved
    <3>4. CASE FinLoad(k) \/ FinShown(k)
      BY <3>4, <1>t DEF FinLoad, FinShown, FinEnds, NoFin, Fin, Unsaved
    <3>5. QED BY <1>6, <3>1, <3>2, <3>3, <3>4
  <2>3. QED BY <2>1, <2>2 DEF Unsaved
<1>7. ASSUME NEW k \in Jobs, FinDiscard(k)
      PROVE  /\ UNCHANGED store
             /\ audio'[j] = audio[j] \/ fin[j].pc = "discard"
             /\ fin'[j].pc = "discard" => fin[j].pc = "discard"
  BY <1>7, <1>t DEF FinDiscard, RemoveAudio, FinEnds, NoFin
<1>8. ASSUME NEW k \in Jobs, RealtimeSave(k)
      PROVE  /\ UNCHANGED audio /\ store'[j].status = store[j].status
             /\ fin'[j].pc = "discard" => fin[j].pc = "discard"
  <2>1. /\ UNCHANGED audio /\ fin[k].pc = "committed"
        /\ store' = [store EXCEPT ![k] = [fin[k].job EXCEPT !.transcript = TRUE]]
        /\ fin' = [fin EXCEPT ![k].pc = "closed"]
    BY <1>8 DEF RealtimeSave, Save, FinGoes
  <2>2. /\ fin[k].job \in Job /\ fin[k].job.status = "recording"
        /\ store[k].status = "recording" /\ fin'[k].pc = "closed"
    BY <1>t, <2>1 DEF OwnInv, Unsaved, Fin
  <2>3. store'[k].status = "recording"
    BY <1>t, <2>1, <2>2 DEF Job
  <2>4. \A i \in Jobs \ {k} : fin'[i] = fin[i] /\ store'[i] = store[i]
    BY <1>t, <2>1
  <2>5. QED BY <2>1, <2>2, <2>3, <2>4
<1>9. ASSUME NEW k \in Jobs, FinCancelled(k)
      PROVE  /\ UNCHANGED audio
             /\ store'[j].status = "queued" => store'[j] = store[j]
             /\ fin'[j].pc = "discard" =>
                  \/ fin[j].pc = "discard"
                  \/ store[j].status = "recording" /\ store'[j].status = "cancelled"
  <2>1. /\ UNCHANGED audio /\ FinGoes(k, "discard") /\ fin[k].pc = "loaded"
        /\ store' = [store EXCEPT ![k] = [fin[k].job EXCEPT !.status = "cancelled"]]
    BY <1>9 DEF FinCancelled, Save
  <2>2. store[k].status = "recording" /\ store'[k].status = "cancelled"
    BY <1>t, <2>1 DEF OwnInv, Unsaved, Fin, Job
  <2>3. \A i \in Jobs \ {k} : fin'[i] = fin[i] /\ store'[i] = store[i]
    BY <1>t, <2>1 DEF FinGoes
  <2>4. QED BY <2>1, <2>2, <2>3
<1>10. ASSUME NEW k \in Jobs, FinFailed(k) \/ FinQueued(k)
       PROVE  /\ UNCHANGED audio
              /\ store'[j] = store[j] \/ audio[j] = "full"
              /\ fin'[j].pc = "discard" => fin[j].pc = "discard"
  <2>1. /\ UNCHANGED audio /\ audio[k] = "full"
        /\ \E rec : Save(k, rec)
        /\ FinEnds(k) \/ FinGoes(k, "queued")
    BY <1>10 DEF FinFailed, FinQueued, NoSpeech
  <2>2. \A i \in Jobs \ {k} : fin'[i] = fin[i] /\ store'[i] = store[i]
    BY <1>t, <2>1 DEF FinEnds, FinGoes, Save
  <2>3. fin'[k].pc \in {"off", "queued"}
    BY <1>t, <2>1 DEF FinEnds, FinGoes, NoFin, Fin
  <2>4. QED BY <2>1, <2>2, <2>3
<1>11. CASE \E k \in Jobs : RecorderQuiet(k)
  BY <1>4, <1>5, <1>6, <1>7, <1>11 DEF RecorderQuiet
<1>12. ASSUME NEW k \in Jobs,
              \/ StartFails(k) \/ RecorderSaves(k)
              \/ \E handsFree \in BOOLEAN : Start(k, handsFree)
       PROVE  /\ store'[j].status = "queued" /\ store[j].status # "queued"
                   => audio'[j] = audio[j] /\ audio[j] = "full"
              /\ audio'[j] = audio[j] \/ store[j].status = "absent"
              /\ fin'[j].pc = "discard" =>
                   \/ fin[j].pc = "discard"
                   \/ store[j].status = "recording" /\ store'[j].status = "cancelled"
  <2>1. CASE \E handsFree \in BOOLEAN : Start(k, handsFree)
    BY <1>2, <2>1
  <2>2. CASE StartFails(k)
    BY <1>3, <2>2
  <2>3. CASE RealtimeSave(k)
    BY <1>8, <2>3
  <2>4. CASE FinCancelled(k)
    BY <1>9, <2>4
  <2>5. CASE FinFailed(k) \/ FinQueued(k)
    BY <1>10, <2>5
  <2>6. QED BY <1>12, <2>1, <2>2, <2>3, <2>4, <2>5 DEF RecorderSaves
<1>13. QED
  BY <1>1, <1>11, <1>12, RecorderCases

LEMMA RecorderKeepsAudio ==
  ASSUME WholeInv, AudioInv, RecorderStep
  PROVE  AudioInv'
<1> USE DEF WholeInv
<1>1. UNCHANGED <<pc, processingID, up, retries, raced, lifecycleMu>>
  BY RecorderRest DEF workerVars, lifeVars, ghostVars
<1>t. audio \in [Jobs -> Audio] /\ WorkerTypeOK /\ LockTypeOK
  BY DEF RecInv, TypeOK, StoreTypeOK
<1>2. KeptInv'
  <2> SUFFICES ASSUME NEW j \in Jobs, Needed(j)', j \notin raced PROVE Spoken(j)'
    BY <1>1 DEF KeptInv
  <2>1. CASE store'[j].status = "queued" /\ store[j].status # "queued"
    BY <2>1, RecorderAudio DEF Spoken
  <2>2. CASE ~(store'[j].status = "queued" /\ store[j].status # "queued")
    <3>1. store'[j] = store[j] /\ (InFlight(j)' => InFlight(j))
      BY <2>2, RecorderFrames DEF Needed, Finished
    <3>2. Needed(j)
      BY <3>1 DEF Needed, Finished
    <3>3. fin[j].pc # "discard" /\ store[j].status \notin {"absent", "recording"}
      BY <3>2 DEF AudioInv, DiscardInv, Needed, Finished, RecInv, KnownInv, RestInv
    <3>4. audio'[j] = audio[j] \/ audio'[j] \in {"short", "full"}
      BY <3>1, <3>3, RecorderAudio
    <3>5. QED BY <1>1, <3>2, <3>4 DEF AudioInv, KeptInv, Spoken
  <2>3. QED BY <2>1, <2>2
<1>3. LockInv'
  <2> SUFFICES ASSUME lifecycleMu.op = "retry", lifecycleMu.id \notin raced
               PROVE  audio'[lifecycleMu.id] # "none"
    BY <1>1 DEF LockInv
  <2>1. PICK k \in Jobs : k = lifecycleMu.id
    BY <1>t DEF LockTypeOK
  <2>2. Locked(k) /\ Asked(k) /\ audio[k] # "none"
    BY <2>1 DEF Locked, Asked, AudioInv, LockInv
  <2>3. fin[k].pc # "discard" /\ store[k].status # "absent"
    BY <2>2 DEF AudioInv, DiscardInv, RecInv, KnownInv
  <2>4. audio'[k] # "none"
    BY <2>2, <2>3, RecorderAudio
  <2>5. QED BY <2>1, <2>2, <2>4
<1>4. DiscardInv'
  <2> SUFFICES ASSUME NEW j \in Jobs, fin'[j].pc = "discard"
               PROVE  /\ store'[j].status \in {"cancelled", "deleted"}
                      /\ ~InFlight(j)' /\ ~Asked(j)'
    BY DEF DiscardInv
  <2>1. CASE fin[j].pc = "discard"
    <3>1. store[j].status \in {"cancelled", "deleted"} /\ ~InFlight(j) /\ ~Asked(j)
      BY <2>1 DEF AudioInv, DiscardInv
    <3>2. QED BY <1>1, <3>1, RecorderFrames DEF Asked
  <2>2. CASE store[j].status = "recording" /\ store'[j].status = "cancelled"
    BY <1>1, <2>2, RecorderFrames DEF RestInv, Locked, Asked
  <2>3. QED BY <2>1, <2>2, RecorderAudio
<1>5. StopInv'
  <2>1. pc # "idle" => store'[processingID] = store[processingID]
    BY <1>t, RecorderFrames DEF WorkerTypeOK, InFlight
  <2>2. QED BY <1>1, <2>1 DEF AudioInv, StopInv, Finished, Asked
<1>6. QED BY <1>2, <1>3, <1>4, <1>5 DEF AudioInv

LEMMA AudioInitially == Init => AudioInv
<1> SUFFICES ASSUME Init PROVE AudioInv
  OBVIOUS
<1> USE DEF Init, PipelineInit, RecorderInit
<1>1. WholeInv
  BY WholeInitially
<1>2. KeptInv
  BY <1>1 DEF StoreInit, Blank, KeptInv, Needed, WholeInv, RecInv, KnownInv
<1>3. LockInv /\ DiscardInv /\ StopInv
  BY DEF Free, LockInv, DiscardInv, NoFin, StopInv
<1>4. QED BY <1>2, <1>3 DEF AudioInv

LEMMA NextKeepsAudio ==
  ASSUME SafeRetries, WholeInv, AudioInv, [Next]_vars
  PROVE  AudioInv'
<1>0. "recording" \notin RetryFrom
  BY DEF SafeRetries
<1>1. CASE PipelineOnly
  BY <1>0, <1>1, NextKeepsWhole, PipelineKeepsAudio
<1>2. CASE RecorderStep
  BY <1>2, RecorderKeepsAudio
<1>3. CASE UNCHANGED vars
  <2>1. UNCHANGED <<store, audio, fin, pc, processingID, up, retries, raced,
                    lifecycleMu, queueVars, workerVars>>
    BY <1>3 DEF vars, pipelineVars, recorderVars, storeVars, workerVars, lifeVars,
      ghostVars
  <2>2. \A j \in Jobs : InFlight(j)' <=> InFlight(j)
    BY <2>1, QuietRefs
  <2>3. KeptInv'
    BY <2>1, <2>2 DEF AudioInv, KeptInv, Needed, Spoken, Finished
  <2>4. LockInv' /\ DiscardInv' /\ StopInv'
    BY <2>1, <2>2 DEF AudioInv, LockInv, DiscardInv, StopInv, Asked, Finished
  <2>5. QED BY <2>3, <2>4 DEF AudioInv
<1>4. QED BY <1>1, <1>2, <1>3 DEF Next

(* A dictation that is still to be processed has its words on disk: what   *)
(* removes audio never hits a job that is queued, waiting, recovered or    *)
(* taken up again later, Retries and SIGTERMs included.  It needs that a   *)
(* Retry is not asked for a cancelled job, whose audio is about to go.     *)
(* SpokenWordsKept itself excepts one interleaving, and only the job it    *)
(* hits: a SIGTERM cancels the job that a Retry has read and not yet saved *)
(* (stopRecording, Cancel, Retry, process, cancelledProcessing,            *)
(* recoverInterruptedJobs).                                                *)
THEOREM WordsKept ==
  ASSUME SafeRetries
  PROVE  Spec => []SpokenWordsKept
<1>1. "recording" \notin RetryFrom
  BY DEF SafeRetries
<1>2. WholeInv /\ AudioInv /\ [Next]_vars => AudioInv'
  BY NextKeepsAudio
<1>3. AudioInv => SpokenWordsKept
  BY DEF AudioInv, KeptInv, Needed, Spoken, SpokenWordsKept
<1>4. QED
  BY <1>1, <1>2, <1>3, AudioInitially, WholeInvariant, PTL DEF Spec
=============================================================================
