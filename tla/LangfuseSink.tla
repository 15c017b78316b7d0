---------------------------- MODULE LangfuseSink ----------------------------
(***************************************************************************)
(* The telemetry outbox (internal/dictation/langfuse.go): formatter events *)
(* are files in a queue directory, exported in order by one background     *)
(* goroutine and removed once the remote has acknowledged them.  The       *)
(* worker of Pipeline queues them one at a time; nothing flows back.       *)
(*                                                                         *)
(* Events are numbered by CreatedAt, which starts the file name, so the    *)
(* sorted directory is in the order of the numbers.                        *)
(***************************************************************************)
EXTENDS Naturals, FiniteSets

CONSTANTS
  MaxEvents,    \* bound: events in one behaviour
  MaxLostAcks,  \* bound: exports accepted by the remote that report an error
  MaxCrashes,   \* bound: crashes of the process
  MaxUnremoved  \* bound: removals of a file that fail

ASSUME SinkAssumption ==
  {MaxEvents, MaxLostAcks, MaxCrashes, MaxUnremoved} \subseteq Nat

Events == 1..MaxEvents
NoEvent == 0

VARIABLES
  queueDir,   \* events whose .json file is in l.dir
  writing,    \* event QueueFormatter is about to rename into place
  waking,     \* QueueFormatter is about to send on l.trigger
  trigger,    \* l.trigger holds a token
  drainPc,    \* where Run is
  entries,    \* what drain has listed and not looked at yet
  failed,     \* the last drain gave up on an error
  queued,     \* history: events ever renamed into place
  received,   \* history: how often the remote has accepted an event
  expired,    \* history: events removed by Cleanup
  lostAcks, crashes, unremoved   \* how often each has happened

writerVars == <<writing, waking>>
drainVars  == <<drainPc, entries, failed>>
sinkHistory == <<queued, received, expired, lostAcks, crashes, unremoved>>
sinkVars == <<queueDir, writerVars, trigger, drainVars, sinkHistory>>

(* "list": before ReadDir; "next": at the head of the loop. *)
DrainPcs == {"down", "list", "next", "export", "remove", "wait"}

First(S) == CHOOSE e \in S : \A d \in S : e <= d

-----------------------------------------------------------------------------
(* QueueFormatter and queue: temporary file, rename, wake the exporter.    *)
QueueWrite(e) ==
  /\ drainPc # "down" /\ writing = NoEvent /\ ~waking
  /\ e \notin queued /\ \A d \in queued : d < e
  /\ writing' = e
  /\ UNCHANGED <<queueDir, waking, trigger, drainVars, sinkHistory>>

QueueRename ==
  /\ writing # NoEvent
  /\ queueDir' = queueDir \cup {writing} /\ queued' = queued \cup {writing}
  /\ writing' = NoEvent /\ waking' = TRUE
  /\ UNCHANGED <<trigger, drainVars, received, expired, lostAcks, crashes,
                 unremoved>>

(* Mutant of Wake: the channel has no buffer. *)
WakeUnbuffered ==
  /\ waking /\ waking' = FALSE /\ trigger' = (drainPc = "wait")
  /\ UNCHANGED <<queueDir, writing, drainVars, sinkHistory>>

(* A non-blocking send: a token that is already there is enough. *)
Wake ==
  /\ waking /\ waking' = FALSE /\ trigger' = TRUE
  /\ UNCHANGED <<queueDir, writing, drainVars, sinkHistory>>

-----------------------------------------------------------------------------
(* Run: the token is taken before the directory is listed. *)
TakeTrigger ==
  /\ drainPc = "wait" /\ trigger
  /\ trigger' = FALSE /\ drainPc' = "list"
  /\ UNCHANGED <<queueDir, writerVars, entries, failed, sinkHistory>>

Tick ==
  /\ drainPc = "wait" /\ drainPc' = "list"
  /\ UNCHANGED <<queueDir, writerVars, trigger, entries, failed, sinkHistory>>

(* drain *)
ReadDir ==
  /\ drainPc = "list"
  /\ entries' = queueDir /\ failed' = FALSE /\ drainPc' = "next"
  /\ UNCHANGED <<queueDir, writerVars, trigger, sinkHistory>>

(* ReadFile fails when Cleanup got there first; the entry is skipped. *)
ReadEntry ==
  /\ drainPc = "next"
  /\ IF entries = {} THEN drainPc' = "wait" /\ UNCHANGED entries
     ELSE IF First(entries) \in queueDir
            THEN drainPc' = "export" /\ UNCHANGED entries
            ELSE entries' = entries \ {First(entries)} /\ UNCHANGED drainPc
  /\ UNCHANGED <<queueDir, writerVars, trigger, failed, sinkHistory>>

Received(e) == received' = [received EXCEPT ![e] = @ + 1]

ExportAcked ==
  /\ drainPc = "export"
  /\ Received(First(entries))
  /\ drainPc' = "remove"
  /\ UNCHANGED <<queueDir, writerVars, trigger, entries, failed, queued,
                 expired, lostAcks, crashes, unremoved>>

(* A failed export ends the drain; later events stay behind it. *)
GiveUp == drainPc' = "wait" /\ entries' = {} /\ failed' = TRUE

(* Mutants of ExportFails: the error is ignored; the entry is skipped. *)
ExportErrorIgnored ==
  /\ drainPc = "export" /\ drainPc' = "remove"
  /\ UNCHANGED <<queueDir, writerVars, trigger, entries, failed, sinkHistory>>

ExportSkips ==
  /\ drainPc = "export" /\ drainPc' = "next"
  /\ entries' = entries \ {First(entries)} /\ failed' = TRUE
  /\ UNCHANGED <<queueDir, writerVars, trigger, sinkHistory>>

ExportFails ==
  /\ drainPc = "export" /\ GiveUp
  /\ UNCHANGED <<queueDir, writerVars, trigger, sinkHistory>>

(* The remote has it, but the answer is lost or later than the timeout. *)
ExportUnacked ==
  /\ drainPc = "export" /\ lostAcks < MaxLostAcks
  /\ Received(First(entries)) /\ lostAcks' = lostAcks + 1
  /\ GiveUp
  /\ UNCHANGED <<queueDir, writerVars, trigger, queued, expired, crashes,
                 unremoved>>

(* Mutant of RemoveEntry: the file stays. *)
RemoveForgotten ==
  /\ drainPc = "remove"
  /\ entries' = entries \ {First(entries)}
  /\ drainPc' = "next"
  /\ UNCHANGED <<queueDir, writerVars, trigger, failed, sinkHistory>>

RemoveEntry ==
  /\ drainPc = "remove"
  /\ queueDir' = queueDir \ {First(entries)}
  /\ entries' = entries \ {First(entries)}
  /\ drainPc' = "next"
  /\ UNCHANGED <<writerVars, trigger, failed, sinkHistory>>

(* Mutant of CleanupEvent: drain's listing is changed under its feet. *)
CleanupShared(e) ==
  /\ drainPc # "down" /\ e \in queueDir
  /\ queueDir' = queueDir \ {e} /\ expired' = expired \cup {e}
  /\ entries' = entries \ {e}
  /\ UNCHANGED <<writerVars, trigger, drainPc, failed, queued, received,
                 lostAcks, crashes, unremoved>>

(* The error of os.Remove is ignored: the file waits for the next drain.   *)
RemoveFails ==
  /\ drainPc = "remove" /\ unremoved < MaxUnremoved
  /\ entries' = entries \ {First(entries)}
  /\ unremoved' = unremoved + 1
  /\ drainPc' = "next"
  /\ UNCHANGED <<queueDir, writerVars, trigger, failed, queued, received,
                 expired, lostAcks, crashes>>

(* The daemon's cleanup loop, for files older than the history retention. *)
CleanupEvent(e) ==
  /\ drainPc # "down" /\ e \in queueDir
  /\ queueDir' = queueDir \ {e} /\ expired' = expired \cup {e}
  /\ UNCHANGED <<writerVars, trigger, drainVars, queued, received, lostAcks,
                 crashes, unremoved>>

-----------------------------------------------------------------------------
CrashSink ==
  /\ drainPc # "down" /\ crashes < MaxCrashes
  /\ drainPc' = "down" /\ entries' = {} /\ failed' = FALSE
  /\ writing' = NoEvent /\ waking' = FALSE /\ trigger' = FALSE
  /\ crashes' = crashes + 1
  /\ UNCHANGED <<queueDir, queued, received, expired, lostAcks, unremoved>>

(* Run drains once before it waits. *)
StartSink ==
  /\ drainPc = "down" /\ drainPc' = "list"
  /\ UNCHANGED <<queueDir, writerVars, trigger, entries, failed, sinkHistory>>

SinkInit ==
  /\ queueDir = {} /\ queued = {} /\ expired = {}
  /\ writing = NoEvent /\ waking = FALSE /\ trigger = FALSE
  /\ drainPc = "down" /\ entries = {} /\ failed = FALSE
  /\ received = [e \in Events |-> 0] /\ lostAcks = 0 /\ crashes = 0
  /\ unremoved = 0

DrainStep == \/ TakeTrigger \/ Tick \/ ReadDir \/ ReadEntry
             \/ ExportAcked \/ ExportFails \/ ExportUnacked
             \/ RemoveEntry \/ RemoveFails

SinkNext == \/ \E e \in Events : QueueWrite(e) \/ CleanupEvent(e)
            \/ QueueRename \/ Wake
            \/ DrainStep
            \/ CrashSink \/ StartSink

SinkSpec == SinkInit /\ [][SinkNext]_sinkVars
-----------------------------------------------------------------------------
(* Type correctness of the outbox (LangfuseSink, the queue directory). *)
SinkTypeOK ==
  /\ queueDir \subseteq Events /\ entries \subseteq Events
  /\ queued \subseteq Events /\ expired \subseteq Events
  /\ writing \in Events \cup {NoEvent}
  /\ waking \in BOOLEAN /\ trigger \in BOOLEAN /\ failed \in BOOLEAN
  /\ drainPc \in DrainPcs
  /\ drainPc \in {"export", "remove"} => entries # {}
  /\ received \in [Events -> Nat] /\ lostAcks \in Nat /\ crashes \in Nat
  /\ unremoved \in Nat

(* No event is lost: once renamed into the queue it is still there, or the *)
(* remote has it, or it was kept for the whole retention period -- across  *)
(* failed exports, failed removals, lost answers and crashes (drain).      *)
ExportedOrKept ==
  \A e \in queued : e \in queueDir \cup expired \/ received[e] > 0

(* The remote sees events in the order they were made: none gets there     *)
(* before an earlier one that is still kept (drain's sort and early return)*)
InOrder ==
  \A e \in queued : received[e] > 0 =>
    \A d \in queued : d < e => received[d] > 0 \/ d \in expired

(* No wake-up is lost: when the exporter waits and the directory has an    *)
(* event that the remote has not got, a token is there or about to be      *)
(* sent, so that only a failed export makes an event wait for the ticker   *)
(* (the one-slot trigger, taken before the listing).                       *)
NoLostWakeup ==
  drainPc = "wait" /\ (\E e \in queueDir : received[e] = 0) =>
    trigger \/ waking \/ failed

(* Duplicates have a cause: the remote gets an event again only after a    *)
(* lost answer, a crash between the answer and the removal, or a removal   *)
(* that failed.                                                            *)
DuplicatesExplained ==
  \A e \in Events : received[e] <= 1 + lostAcks + crashes + unremoved
=============================================================================
