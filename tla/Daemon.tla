------------------------------- MODULE Daemon -------------------------------
(***************************************************************************)
(* The whole daemon (internal/dictation/daemon.go): Recorder and Pipeline  *)
(* together with the history commands that handleConnection serves, each   *)
(* connection on a goroutine of its own, and the cleanup loop.             *)
(*                                                                         *)
(* DeleteHistory and CorrectHistory hold lifecycleMu and refuse a busy     *)
(* job.  DismissLast, SetFormatterFeedback and cleanup take no lock: each  *)
(* works on a record or a listing it has read before.                      *)
(***************************************************************************)
EXTENDS Recorder

CONSTANTS
  Commands,      \* the commands and loops this instance exercises
  HistoryFrom    \* statuses in which the user acts on a history entry

ASSUME DaemonAssumption ==
  /\ Commands \subseteq {"dismiss", "delete", "correct", "feedback", "copy",
                         "learn", "cleanup"}
  /\ HistoryFrom \subseteq JobStatus

VARIABLES
  dismiss,    \* what DismissLast has read and not saved yet
  feedback,   \* what SetFormatterFeedback has read and not saved yet
  sweep       \* what cleanup has found expired and not removed yet,
              \* with the number of Retries before that

commandVars == <<dismiss, feedback, sweep>>
daemonVars == <<vars, commandVars>>

Nothing == [id |-> NoJob, job |-> Blank("absent")]

(* Mutant of Busy: the job being processed is not looked at. *)
BusyRecording(j) == j = recording

(* d.recording or d.processingID names the job; a recording that is being  *)
(* finalized is neither.                                                   *)
Busy(j) == j \in {recording, processingID}

InHistory(j) == Serving /\ store[j].status \in HistoryFrom

-----------------------------------------------------------------------------
DismissLast(j) ==
  /\ "dismiss" \in Commands /\ Serving
  /\ dismiss = Nothing /\ recording = NoJob
  /\ IsNewest(j, {k \in Jobs : store[k].status \in {"failed", "retry_wait"}})
  /\ dismiss' = [id |-> j, job |-> store[j]]
  /\ UNCHANGED <<vars, feedback, sweep>>

DismissSave ==
  /\ Alive /\ dismiss # Nothing
  /\ Save(dismiss.id, [dismiss.job EXCEPT !.status = "cancelled"])
  /\ SetStatus("idle")
  /\ dismiss' = Nothing
  /\ UNCHANGED <<audio, recording, queueVars, workerVars, lifeVars,
                 lifecycleMu, ghostVars, recorderVars, feedback, sweep>>

(* DeleteHistory, under lifecycleMu from the check to the removal. *)
DeleteHistory(j) ==
  /\ "delete" \in Commands /\ InHistory(j)
  /\ lifecycleMu = Free /\ ~Busy(j)
  /\ RemoveDir(j)
  /\ UNCHANGED <<pillVars, queueVars, workerVars, lifeVars, lifecycleMu,
                 ghostVars, recorderVars, commandVars>>

(* CorrectHistory, under lifecycleMu from the check to the Save. *)
CorrectHistory(j) ==
  /\ "correct" \in Commands /\ InHistory(j)
  /\ lifecycleMu = Free /\ ~Busy(j)
  /\ lifecycleMu' = [op |-> "correct", id |-> j, job |-> store[j]]
  /\ UNCHANGED <<storeVars, pillVars, queueVars, workerVars, lifeVars,
                 ghostVars, recorderVars, commandVars>>

(* When the vocabulary file cannot be read or written, nothing is saved.   *)
CorrectSave ==
  /\ Alive /\ lifecycleMu.op = "correct"
  /\ \/ Save(lifecycleMu.id, [lifecycleMu.job EXCEPT !.final = TRUE])
     \/ UNCHANGED store
  /\ lifecycleMu' = Free
  /\ UNCHANGED <<audio, pillVars, queueVars, workerVars, lifeVars,
                 ghostVars, recorderVars, commandVars>>

(* SetFormatterFeedback changes one field and saves the record it has read *)
(* (the field itself is not modelled).                                     *)
SetFormatterFeedback(j) ==
  /\ "feedback" \in Commands /\ InHistory(j)
  /\ feedback = Nothing /\ store[j].eligible
  /\ feedback' = [id |-> j, job |-> store[j]]
  /\ UNCHANGED <<vars, dismiss, sweep>>

FeedbackSave ==
  /\ Alive /\ feedback # Nothing
  /\ Save(feedback.id, feedback.job)
  /\ feedback' = Nothing
  /\ UNCHANGED <<audio, pillVars, queueVars, workerVars, lifeVars,
                 lifecycleMu, ghostVars, recorderVars, dismiss, sweep>>

(* Copy; CopyLast is a Copy of the newest job that has a text. *)
Copy(j) ==
  /\ "copy" \in Commands /\ Serving /\ Exists(j) /\ store[j].final
  /\ \E shown \in {"copied", "error"} : ShowAction(shown, j)
  /\ UNCHANGED <<storeVars, recording, queueVars, workerVars, lifeVars,
                 lifecycleMu, ghostVars, recorderVars, commandVars>>

LearnSelection ==
  /\ "learn" \in Commands /\ Serving
  /\ \E j \in Jobs : store[j].status = "delivered" /\ store[j].transcript
  /\ SetStatus("idle")
  /\ UNCHANGED <<storeVars, recording, queueVars, workerVars, lifeVars,
                 lifecycleMu, ghostVars, recorderVars, commandVars>>

-----------------------------------------------------------------------------
(* What cleanup may find expired: audio of a delivered job after an hour,  *)
(* the directory of a failed, waiting or delivered one after days.         *)
Expires(j) ==
  CASE store[j].status = "delivered" -> {"audio", "dir"}
    [] store[j].status \in {"failed", "retry_wait"} -> {"dir"}
    [] OTHER -> {}

(* Within that time whatever waited in memory for the job has happened:    *)
(* every call and every timer has a deadline of minutes at most, and the   *)
(* recovery scan takes what is due within seconds.                         *)
Unattended(j) == /\ Copies(j) = 0
                 /\ j \notin scan \cup backoff \cup DueJobs(backoff)
                 /\ ~Busy(j) /\ fin[j].pc = "off"
                 /\ \A t \in timers : t[1] # j
                 /\ j \notin {lifecycleMu.id, dismiss.id, feedback.id}

Expired == {x \in Jobs \X {"audio", "dir"} :
              Unattended(x[1]) /\ x[2] \in Expires(x[1])}

Cleanup ==
  /\ "cleanup" \in Commands /\ Alive /\ sweep = {}
  /\ sweep' \in SUBSET {<<x[1], x[2], retries[x[1]]>> : x \in Expired}
  /\ sweep' # {}
  /\ UNCHANGED <<vars, dismiss, feedback>>

(* Neither lifecycleMu nor the status is looked at again: a Retry may be   *)
(* pending, or may have queued the job since it was listed.                *)
CleanupRemoves(x) ==
  LET j == x[1] IN
  /\ Alive /\ x \in sweep
  /\ IsNewest(j, {y[1] : y \in sweep})
  /\ sweep' = sweep \ {x}
  /\ IF x[2] = "dir" THEN RemoveDir(j)
     ELSE RemoveAudio(j) /\ UNCHANGED store
  /\ raced' = raced \cup
                {k \in {j} : RetryPending(k) \/ retries[k] > x[3]}
  /\ UNCHANGED <<pillVars, queueVars, workerVars, lifeVars, lifecycleMu,
                 inserted, retries, recorderVars, dismiss, feedback>>

CleanupStep == \E x \in sweep : CleanupRemoves(x)

-----------------------------------------------------------------------------
DaemonInit == /\ Init
              /\ dismiss = Nothing /\ feedback = Nothing /\ sweep = {}

(* A step of the recorder or the pipeline; commands die with the process. *)
Underneath ==
  /\ Next
  /\ IF up' = "down" /\ up # "down"
       THEN dismiss' = Nothing /\ feedback' = Nothing /\ sweep' = {}
       ELSE UNCHANGED commandVars

CommandStep ==
  \/ \E j \in Jobs : \/ DismissLast(j) \/ DeleteHistory(j)
                     \/ CorrectHistory(j) \/ SetFormatterFeedback(j)
                     \/ Copy(j)
  \/ DismissSave \/ CorrectSave \/ FeedbackSave
  \/ LearnSelection \/ Cleanup \/ CleanupStep

DaemonNext == Underneath \/ CommandStep

DaemonSpec == DaemonInit /\ [][DaemonNext]_daemonVars
-----------------------------------------------------------------------------
(* Type correctness of the commands' state. *)
DaemonTypeOK ==
  /\ RecorderTypeOK
  /\ {dismiss, feedback} \subseteq [id : Jobs \cup {NoJob}, job : Job]
  /\ sweep \subseteq Jobs \X {"audio", "dir"} \X Nat

(* A dictation the user has deleted never comes back: no goroutine saves a *)
(* record it has read before the deletion (DeleteHistory's lifecycleMu and *)
(* busy check, against process, Retry and CorrectHistory).                 *)
DeletedStays ==
  [][\A j \in Jobs : store[j].status = "deleted" =>
       store'[j].status = "deleted"]_daemonVars

(* CorrectHistory saves over the record it has read: between its read and  *)
(* its Save nobody writes that job, so an edit drops no progress of the    *)
(* pipeline (lifecycleMu, the busy check).                                 *)
CorrectionSeesLatest ==
  lifecycleMu.op = "correct" => store[lifecycleMu.id] = lifecycleMu.job

(* docs/IMPLEMENTATION.md:146: "Active jobs cannot be deleted."            *)
ActiveNotDeleted ==
  [][\A j \in Jobs : Exists(j) /\ store'[j].status = "deleted" =>
       ~Busy(j) /\ fin[j].pc = "off"]_daemonVars
=============================================================================
