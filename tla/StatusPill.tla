----------------------------- MODULE StatusPill -----------------------------
(***************************************************************************)
(* What the daemon shows: d.phase (published as status.json, polled by     *)
(* ui/VoiceFlow.qml) and d.recording, on which it depends.  Both are       *)
(* guarded by d.mu and lost when the process ends.                         *)
(***************************************************************************)
EXTENDS JobStore

VARIABLES
  recording,   \* id of d.recording, or NoJob when it is nil
  phase        \* d.phase: Status.Phase and Status.ActionJobID

pillVars == <<recording, phase>>

Phases == {"idle", "recording", "processing", "retrying", "error",
           "copied", "delivered"}

Ready == [phase |-> "idle", action |-> NoJob]

(* setStatus / setStatusLocked: any action shown for a job is dropped. *)
SetStatus(p) == phase' = [phase |-> p, action |-> NoJob]

(* The status half of showAction. *)
ShowAction(p, j) == phase' = [phase |-> p, action |-> j]

(* The goroutine of showAction, 8 s later: back to Ready unless a new      *)
(* recording or another status has replaced the action meanwhile.  An      *)
(* action is only ever set together with such a goroutine.                 *)
ClearAction == /\ recording = NoJob
               /\ phase.action # NoJob
               /\ SetStatus("idle")

PillTypeOK == /\ recording \in Jobs \cup {NoJob}
              /\ phase \in [phase : Phases, action : Jobs \cup {NoJob}]

PillInit == recording = NoJob /\ phase = Ready
=============================================================================
