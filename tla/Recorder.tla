------------------------------ MODULE Recorder ------------------------------
(***************************************************************************)
(* The recording half of the daemon (internal/dictation/daemon.go): Start, *)
(* the capture goroutine reading pw-record, Stop, the automatic stop of    *)
(* hands-free mode, Cancel, and the finalization that hands a recording to *)
(* the pipeline.  It composes with Pipeline: a finalized recording takes   *)
(* the place of Pipeline's Submit.                                         *)
(*                                                                         *)
(* d.recording is detached under d.mu by the one goroutine that finalizes  *)
(* the recording; everything after that runs without a lock, next to the   *)
(* worker, to history commands and to the next recording.                  *)
(***************************************************************************)
EXTENDS Pipeline

CONSTANT MaxStopCalls   \* bound: Stop calls pending on one recording

ASSUME RecorderAssumption == MaxStopCalls \in Nat \ {0}

VARIABLES
  capture,   \* capture[j]: the pw-record process of j and its reader
  mode,      \* mode[j]: hands-free state of the recording of j
  stoppers,  \* stoppers[j]: stopRecording calls for j about to lock d.mu
  fin        \* fin[j]: the goroutine finalizing j

recorderVars == <<capture, mode, stoppers, fin>>
vars == <<pipelineVars, recorderVars>>

(* "ended": EOF, r.done holds nil; "broken": r.done holds an error;        *)
(* "stalled": the reader waits in the Send of the realtime provider.       *)
Captures == {"off", "live", "stalled", "ended", "broken"}

(* Speech heard so far by hasVoice: none, less than MinSpeechSecs, enough. *)
Heard == {"nothing", "some", "enough"}
Mode == [handsFree : BOOLEAN, heard : Heard, autoStopping : BOOLEAN]
Hold == [handsFree |-> FALSE, heard |-> "nothing", autoStopping |-> FALSE]

FinStages == {"off", "closing", "closed", "committed", "loaded", "discard",
              "queued"}
Fin == [pc : FinStages, kind : {"stop", "cancel"}, err : BOOLEAN, job : Job]
NoFin == [pc |-> "off", kind |-> "stop", err |-> FALSE,
          job |-> Blank("absent")]

FinGoes(j, stage) == fin' = [fin EXCEPT ![j].pc = stage]
FinEnds(j) == /\ fin' = [fin EXCEPT ![j] = NoFin]
              /\ mode' = [mode EXCEPT ![j] = Hold]

-----------------------------------------------------------------------------
(* newID: the next unused id. *)
Fresh(j) == /\ store[j].status = "absent"
            /\ \A k \in Jobs : k < j => store[k].status # "absent"

(* Mutant of CanStart: a recording in progress is not looked at. *)
CanStartAgain(j) == Fresh(j)

(* start refuses while d.recording is set. *)
CanStart(j) == recording = NoJob /\ Fresh(j)

(* start, with d.mu held throughout: save the job, start pw-record and the *)
(* WAV file with its placeholder header.                                   *)
Start(j, handsFree) ==
  /\ Serving /\ CanStart(j)
  /\ Save(j, Blank("recording"))
  /\ audio' = [audio EXCEPT ![j] = "header"]
  /\ recording' = j
  /\ SetStatus("recording")
  /\ capture' = [capture EXCEPT ![j] = "live"]
  /\ mode' = [mode EXCEPT ![j] = [Hold EXCEPT !.handsFree = handsFree]]
  /\ UNCHANGED <<queueVars, workerVars, lifeVars, lifecycleMu, ghostVars,
                 stoppers, fin>>

(* start, when pw-record or the WAV file cannot be opened. *)
StartFails(j) ==
  /\ Serving /\ CanStart(j)
  /\ Save(j, Blank("failed"))
  /\ UNCHANGED <<audio, pillVars, queueVars, workerVars, lifeVars,
                 lifecycleMu, ghostVars, recorderVars>>

(* The reader goroutine writes a chunk.  shouldAutoStop notes speech, and  *)
(* once there was some, a long enough silence stops the recording by a     *)
(* goroutine of its own, once.                                             *)
Longer == [header |-> "short", short |-> "full", full |-> "full"]
Louder == [nothing |-> "some", some |-> "enough", enough |-> "enough"]

CaptureChunk(j) ==
  /\ Alive /\ capture[j] = "live" /\ audio[j] \in DOMAIN Longer
  /\ audio' = [audio EXCEPT ![j] = Longer[@]]
  /\ \/ UNCHANGED mode
     \/ /\ mode[j].handsFree
        /\ mode' = [mode EXCEPT ![j].heard = Louder[@]]
  /\ UNCHANGED <<store, pillVars, queueVars, workerVars, lifeVars,
                 lifecycleMu, ghostVars, capture, stoppers, fin>>

(* Mutant of AutoStop: silence counts only after enough speech. *)
AutoStopLate(j) ==
  /\ Alive /\ capture[j] = "live"
  /\ mode[j].handsFree /\ mode[j].heard = "enough"
  /\ ~mode[j].autoStopping
  /\ mode' = [mode EXCEPT ![j].autoStopping = TRUE]
  /\ stoppers' = [stoppers EXCEPT ![j] = @ + 1]
  /\ UNCHANGED <<storeVars, pillVars, queueVars, workerVars, lifeVars,
                 lifecycleMu, ghostVars, capture, fin>>

AutoStop(j) ==
  /\ Alive /\ capture[j] = "live"
  /\ mode[j].handsFree /\ mode[j].heard # "nothing"
  /\ ~mode[j].autoStopping
  /\ mode' = [mode EXCEPT ![j].autoStopping = TRUE]
  /\ stoppers' = [stoppers EXCEPT ![j] = @ + 1]
  /\ UNCHANGED <<storeVars, pillVars, queueVars, workerVars, lifeVars,
                 lifecycleMu, ghostVars, capture, fin>>

(* Send has no deadline (context.Background()): while the connection does  *)
(* not take the chunk, the reader neither reads on nor runs shouldAutoStop.*)
CaptureStalls(j) ==
  /\ Alive /\ capture[j] = "live"
  /\ capture' = [capture EXCEPT ![j] = "stalled"]
  /\ UNCHANGED <<storeVars, pillVars, queueVars, workerVars, lifeVars,
                 lifecycleMu, ghostVars, mode, stoppers, fin>>

CaptureResumes(j) ==
  /\ Alive /\ capture[j] = "stalled"
  /\ capture' = [capture EXCEPT ![j] = "live"]
  /\ UNCHANGED <<storeVars, pillVars, queueVars, workerVars, lifeVars,
                 lifecycleMu, ghostVars, mode, stoppers, fin>>

(* pw-record dies by itself: the reader ends, d.recording stays set. *)
CaptureDies(j) ==
  /\ Alive /\ capture[j] = "live" /\ recording = j
  /\ \E how \in {"ended", "broken"} : capture' = [capture EXCEPT ![j] = how]
  /\ UNCHANGED <<storeVars, pillVars, queueVars, workerVars, lifeVars,
                 lifecycleMu, ghostVars, mode, stoppers, fin>>

(* Stop reads d.recording and lets go of d.mu before stopRecording. *)
StopRead ==
  /\ Serving /\ recording # NoJob /\ stoppers[recording] < MaxStopCalls
  /\ stoppers' = [stoppers EXCEPT ![recording] = @ + 1]
  /\ UNCHANGED <<storeVars, pillVars, queueVars, workerVars, lifeVars,
                 lifecycleMu, ghostVars, capture, mode, fin>>

(* Mutant of Detaches: stopRecording does not compare d.recording with r. *)
DetachesAny(j) == TRUE

(* stopRecording(r): only the call that still finds d.recording = r goes   *)
(* on; the others answer "not recording".                                  *)
Detaches(j) == recording = j

(* Mutant of StopDetach: the status stays Listening. *)
StopDetachQuiet(j) ==
  /\ Alive /\ stoppers[j] > 0
  /\ stoppers' = [stoppers EXCEPT ![j] = @ - 1]
  /\ IF Detaches(j)
       THEN /\ recording' = NoJob
            /\ fin' = [fin EXCEPT ![j] = [NoFin EXCEPT !.pc = "closing"]]
       ELSE UNCHANGED <<recording, fin>>
  /\ UNCHANGED <<storeVars, phase, queueVars, workerVars, lifeVars,
                 lifecycleMu, ghostVars, capture, mode>>

StopDetach(j) ==
  /\ Alive /\ stoppers[j] > 0
  /\ stoppers' = [stoppers EXCEPT ![j] = @ - 1]
  /\ IF Detaches(j)
       THEN /\ recording' = NoJob
            /\ SetStatus("processing")
            /\ fin' = [fin EXCEPT ![j] = [NoFin EXCEPT !.pc = "closing"]]
       ELSE UNCHANGED <<pillVars, fin>>
  /\ UNCHANGED <<storeVars, queueVars, workerVars, lifeVars, lifecycleMu,
                 ghostVars, capture, mode>>

(* Cancel detaches whatever is being recorded; the status stays as it is. *)
CancelDetach(j) ==
  /\ Serving /\ recording = j /\ j # NoJob
  /\ recording' = NoJob
  /\ fin' = [fin EXCEPT ![j] = [NoFin EXCEPT !.pc = "closing",
                                             !.kind = "cancel"]]
  /\ UNCHANGED <<storeVars, phase, queueVars, workerVars, lifeVars,
                 lifecycleMu, ghostVars, capture, mode, stoppers>>

(* The process is interrupted or killed, r.done is awaited for at most 2 s *)
(* and the WAV header is written.  A reader that is still in Send then     *)
(* finds the file closed later, and its stop comes too late for anything.  *)
CloseCapture(j) ==
  /\ Alive /\ fin[j].pc = "closing"
  /\ \E err \in BOOLEAN :
       /\ capture[j] \in {"broken", "stalled"} => err
       /\ fin' = [fin EXCEPT ![j].pc = "closed", ![j].err = err]
  /\ capture' = [capture EXCEPT ![j] = "off"]
  /\ UNCHANGED <<storeVars, pillVars, queueVars, workerVars, lifeVars,
                 lifecycleMu, ghostVars, mode, stoppers>>

(* A realtime provider may have a transcript at once: Get the job ...      *)
RealtimeGet(j) ==
  /\ Alive /\ fin[j].pc = "closed" /\ fin[j].kind = "stop"
  /\ Exists(j) /\ ~store[j].transcript
  /\ fin' = [fin EXCEPT ![j].pc = "committed", ![j].job = store[j]]
  /\ UNCHANGED <<storeVars, pillVars, queueVars, workerVars, lifeVars,
                 lifecycleMu, ghostVars, capture, mode, stoppers>>

(* ... and Save it with the transcript; it is read once more after that.   *)
RealtimeSave(j) ==
  /\ Alive /\ fin[j].pc = "committed"
  /\ Save(j, [fin[j].job EXCEPT !.transcript = TRUE])
  /\ FinGoes(j, "closed")
  /\ UNCHANGED <<audio, pillVars, queueVars, workerVars, lifeVars,
                 lifecycleMu, ghostVars, capture, mode, stoppers>>

(* store.Get(r.jobID); without the job, stopRecording just returns. *)
FinLoad(j) ==
  /\ Alive /\ fin[j].pc = "closed"
  /\ IF Exists(j)
       THEN /\ fin' = [fin EXCEPT ![j].pc = "loaded", ![j].job = store[j]]
            /\ UNCHANGED <<phase, mode>>
       ELSE /\ FinEnds(j)
            /\ IF fin[j].kind = "cancel" THEN SetStatus("idle")
                                         ELSE UNCHANGED phase
  /\ UNCHANGED <<storeVars, recording, queueVars, workerVars, lifeVars,
                 lifecycleMu, ghostVars, capture, stoppers>>

(* Mutant of NoSpeech: nothing is too short. *)
NoSpeechIgnored(j) == FALSE

(* Under 3200 bytes, or hands-free without enough speech. *)
NoSpeech(j) == \/ audio[j] # "full"
               \/ mode[j].handsFree /\ mode[j].heard # "enough"

FinCancelled(j) ==
  /\ Alive /\ fin[j].pc = "loaded"
  /\ fin[j].kind = "cancel" \/ NoSpeech(j)
  /\ Save(j, [fin[j].job EXCEPT !.status = "cancelled"])
  /\ FinGoes(j, "discard")
  /\ UNCHANGED <<audio, pillVars, queueVars, workerVars, lifeVars,
                 lifecycleMu, ghostVars, capture, mode, stoppers>>

FinDiscard(j) ==
  /\ Alive /\ fin[j].pc = "discard"
  /\ RemoveAudio(j)
  /\ SetStatus("idle")
  /\ FinEnds(j)
  /\ UNCHANGED <<store, recording, queueVars, workerVars, lifeVars,
                 lifecycleMu, ghostVars, capture, stoppers>>

FinFailed(j) ==
  /\ Alive /\ fin[j].pc = "loaded" /\ fin[j].kind = "stop"
  /\ ~NoSpeech(j) /\ fin[j].err
  /\ \E long \in BOOLEAN :
       Save(j, [fin[j].job EXCEPT !.status = "failed", !.long = long])
  /\ ShowAction("error", j)
  /\ FinEnds(j)
  /\ UNCHANGED <<audio, recording, queueVars, workerVars, lifeVars,
                 lifecycleMu, ghostVars, capture, stoppers>>

FinQueued(j) ==
  /\ Alive /\ fin[j].pc = "loaded" /\ fin[j].kind = "stop"
  /\ ~NoSpeech(j) /\ ~fin[j].err
  /\ \E long \in BOOLEAN :
       Save(j, [fin[j].job EXCEPT !.status = "queued", !.long = long])
  /\ Enqueue(j)
  /\ FinGoes(j, "queued")
  /\ UNCHANGED <<audio, pillVars, timers, backoff, scan, workerVars, lifeVars,
                 lifecycleMu, ghostVars, capture, mode, stoppers>>

(* The last statement of stopRecording; the worker may be ahead of it. *)
FinShown(j) ==
  /\ Alive /\ fin[j].pc = "queued"
  /\ SetStatus("processing")
  /\ FinEnds(j)
  /\ UNCHANGED <<storeVars, recording, queueVars, workerVars, lifeVars,
                 lifecycleMu, ghostVars, capture, stoppers>>

FinStep(j) ==
  \/ CloseCapture(j) \/ RealtimeSave(j) \/ FinLoad(j)
  \/ FinCancelled(j) \/ FinDiscard(j) \/ FinFailed(j)
  \/ FinQueued(j) \/ FinShown(j)

-----------------------------------------------------------------------------
RecorderInit ==
  /\ capture = [j \in Jobs |-> "off"] /\ mode = [j \in Jobs |-> Hold]
  /\ stoppers = [j \in Jobs |-> 0] /\ fin = [j \in Jobs |-> NoFin]

RecorderStep ==
  \/ StopRead
  \/ \E j \in Jobs :
       \/ \E handsFree \in BOOLEAN : Start(j, handsFree)
       \/ StartFails(j) \/ CaptureChunk(j) \/ AutoStop(j) \/ CaptureDies(j)
       \/ CaptureStalls(j) \/ CaptureResumes(j)
       \/ StopDetach(j) \/ CancelDetach(j) \/ RealtimeGet(j) \/ FinStep(j)

(* A pipeline step; when it ends the process, recordings end with it. *)
PipelineOnly ==
  /\ PipelineStep
  /\ IF up' = "down" /\ up # "down"
       THEN /\ capture' = [j \in Jobs |-> "off"]
            /\ mode' = [j \in Jobs |-> Hold]
            /\ stoppers' = [j \in Jobs |-> 0] /\ fin' = [j \in Jobs |-> NoFin]
       ELSE UNCHANGED recorderVars

Init == PipelineInit /\ RecorderInit
Next == PipelineOnly \/ RecorderStep

(* On top of the pipeline's: finalization runs to its end, whoever detached*)
(* the recording; a hands-free speaker falls silent in the end, and every  *)
(* turn of the reader's loop that comes back from Send runs shouldAutoStop *)
(* (strong fairness: between two turns it may stall).  That Send comes     *)
(* back is not owed.  Starting, stopping and cancelling are the user's.    *)
RecorderFairness ==
  \A j \in Jobs : /\ WF_vars(StopDetach(j))
                  /\ WF_vars(FinStep(j))
                  /\ SF_vars(AutoStop(j))

Spec == Init /\ [][Next]_vars
FairSpec == Spec /\ PipelineFairness /\ RecorderFairness
-----------------------------------------------------------------------------
(* Type correctness of the recorder's state (recording, stopRecording). *)
RecorderTypeOK ==
  /\ TypeOK
  /\ capture \in [Jobs -> Captures] /\ mode \in [Jobs -> Mode]
  /\ stoppers \in [Jobs -> Nat] /\ fin \in [Jobs -> Fin]

(* While the daemon runs, a job in state recording is the one being        *)
(* recorded or one that is being finalized: a stale Stop, a silence timer  *)
(* or a Cancel aimed at an earlier recording never strands a later one     *)
(* (stopRecording's d.recording != r).                                     *)
NoOrphanRecording ==
  Alive => \A j \in Jobs : store[j].status = "recording" =>
                            recording = j \/ fin[j].pc # "off"

(* The microphone process runs only for the current recording, or for one  *)
(* whose finalization is about to end it (Start, stopRecording, Cancel).   *)
MicOwned == \A j \in Jobs :
  capture[j] # "off" => recording = j \/ fin[j].pc = "closing"

(* The pill says Listening only during a recording, or until a Cancel has  *)
(* finished (setStatus in stopRecording, Cancel, start).                   *)
ListeningMeansRecording ==
  phase.phase = "recording" =>
    recording # NoJob \/ \E j \in Jobs : fin[j].kind = "cancel"

(* A dictation that is still to be processed has its words on disk, as     *)
(* audio or as a transcript: what removes audio never hits a job that is   *)
(* queued, retried or recovered later (stopRecording, Cancel, cleanup,     *)
(* recoverInterruptedJobs).  Only a Retry by the user accepts a recording  *)
(* without a sample in it; and only one that has checked a recording just  *)
(* before it is removed queues the job without (raced).  README.md:10:     *)
(* JFlow "retains the recording locally while it works".                   *)
SpokenWordsKept == \A j \in Jobs :
  store[j].status \in {"queued", "transcribing", "cleaning", "formatting",
                       "delivering", "retry_wait"}
    => \/ store[j].transcript
       \/ audio[j] \in {"short", "full"}
       \/ audio[j] = "header" /\ retries[j] > 0
       \/ j \in raced

(* Exactly one of Stop, the silence timer and Cancel finalizes a           *)
(* recording, and only while its job is in state recording                 *)
(* (stopRecording, Cancel).                                                *)
OneFinalizer ==
  [][\A j \in Jobs : fin[j].pc = "off" /\ fin'[j].pc # "off"
                       => store[j].status = "recording"]_vars

(* Once a recording is stopped, or the daemon dies during it, its job is   *)
(* settled in the end, across finalization, queue, retries and restarts    *)
(* (stopRecording, process, recoverInterruptedJobs).                       *)
StoppedDictationSettles == \A j \in Jobs :
  /\ store[j].status = "recording"
  /\ stoppers[j] > 0 \/ fin[j].pc # "off" \/ up = "down"
  ~> store[j].status \in {"delivered", "failed", "cancelled"}

(* A hands-free recording in which somebody has spoken ends by itself once *)
(* silence follows, unless pw-record dies first or a Send of the realtime  *)
(* provider never comes back: the one goroutine that shouldAutoStop lets   *)
(* through is not lost to a stale Stop, to stalls of the connection, to a  *)
(* SIGTERM or to a restart (the capture goroutine, shouldAutoStop,         *)
(* stopRecording).                                                         *)
Reading(j) == capture[j] \in {"live", "stalled"}

SilenceEndsRecording == \A j \in Jobs :
  []<>(capture[j] # "stalled") =>
    (/\ recording = j /\ Reading(j)
     /\ mode[j].handsFree /\ mode[j].heard # "nothing"
     ~> recording # j \/ ~Reading(j))
=============================================================================
