------------------------------ MODULE Realtime ------------------------------
(***************************************************************************)
(* One dictation over the realtime provider (RealtimeScribe in             *)
(* internal/dictation/provider.go, used by startRecording and              *)
(* stopRecording in daemon.go).  Four parties: the capture goroutine,      *)
(* which writes a chunk to the WAV file and then Sends it; the goroutine   *)
(* of stopRecording, which Commits and Closes; the reader goroutine; and   *)
(* the remote service behind a websocket.                                  *)
(*                                                                         *)
(* Audio is counted in chunks and a committed segment is the pair          *)
(* <<from, to>> of chunk numbers it transcribes: the text of a dictation   *)
(* is complete when its segments reach from 0 to the last chunk.           *)
(***************************************************************************)
EXTENDS Naturals, Sequences

CONSTANTS
  ChannelCap,    \* capacity of r.committed (8 in StartRealtimeScribe)
  MaxChunks,     \* bound: chunks spoken
  MaxUnasked,    \* bound: segments the remote commits before it is asked
  MaxErrors      \* bound: error events of the remote

ASSUME RealtimeAssumption ==
  /\ ChannelCap \in Nat \ {0}
  /\ {MaxChunks, MaxUnasked, MaxErrors} \subseteq Nat

VARIABLES
  spoken,      \* chunks in the WAV file
  sent,        \* chunks the remote has received
  capture,     \* the capture goroutine
  conn,        \* the websocket
  net,         \* events on their way to the reader, in order
  covered,     \* chunks the remote has committed a segment for
  unasked, failures,    \* bounds: what the remote did so far
  asked,       \* the commit message has reached the remote
  reader,      \* the goroutine of read()
  held,        \* the segments (none or one) read() waits to send on
  committed,   \* r.committed
  errs,        \* r.errs holds an error
  stop,        \* where stopRecording is
  late,        \* stopRecording did not wait for the capture goroutine
  result       \* chunks of Commit; empty for an error

captureVars == <<spoken, sent, capture>>
remoteVars  == <<net, covered, unasked, failures, asked>>
readerVars  == <<reader, held, committed, errs>>
stopVars    == <<stop, late, result>>
realtimeVars == <<captureVars, conn, remoteVars, readerVars, stopVars>>

Segment == (0..MaxChunks) \X (0..MaxChunks)
Error == <<>>    \* an event with an error instead of a text

-----------------------------------------------------------------------------
(* The capture goroutine: a chunk goes to the WAV file, then into Send.    *)
CaptureChunk ==
  /\ capture = "reading" /\ spoken < MaxChunks
  /\ spoken' = spoken + 1
  /\ capture' = "sending"
  /\ UNCHANGED <<sent, conn, remoteVars, readerVars, stopVars>>

(* Send has no deadline of its own: on a stalled connection it waits, on a *)
(* dead one it fails, and the error is dropped.                            *)
Send ==
  /\ capture = "sending" /\ conn # "stalled"
  /\ sent' = IF conn = "open" THEN sent + 1 ELSE sent
  /\ capture' = "reading"
  /\ UNCHANGED <<spoken, conn, remoteVars, readerVars, stopVars>>

(* pw-record has been interrupted and its pipe is read to the end. *)
CaptureEnds ==
  /\ capture = "reading" /\ stop # "recording"
  /\ capture' = "ended"
  /\ UNCHANGED <<spoken, sent, conn, remoteVars, readerVars, stopVars>>

-----------------------------------------------------------------------------
(* The remote and the network.  A commit request is answered with a        *)
(* segment for all the audio not yet covered; commit_strategy asks for     *)
(* manual commits, yet nothing keeps the remote from committing earlier.   *)
RemoteCommits ==
  /\ conn = "open" /\ covered < sent
  /\ \E to \in covered + 1 .. sent :
       /\ asked => to = sent
       /\ net' = Append(net, <<covered, to>>)
       /\ covered' = to
  /\ IF asked THEN UNCHANGED unasked
              ELSE unasked < MaxUnasked /\ unasked' = unasked + 1
  /\ UNCHANGED <<captureVars, conn, failures, asked, readerVars, stopVars>>

RemoteErrs ==
  /\ conn = "open" /\ failures < MaxErrors
  /\ net' = Append(net, Error)
  /\ failures' = failures + 1
  /\ UNCHANGED <<captureVars, conn, covered, unasked, asked, readerVars,
                 stopVars>>

NetworkChanges ==
  /\ conn # "dead"
  /\ conn' \in {"open", "stalled", "dead"} \ {conn}
  /\ UNCHANGED <<captureVars, remoteVars, readerVars, stopVars>>

-----------------------------------------------------------------------------
(* read(): segments go to a bounded channel that nobody empties before     *)
(* Commit; an error goes to a slot, and is dropped when that is taken.     *)

(* Mutants of HasRoom: one place too many, one place never used.           *)
HasRoomBeyond == Len(committed) <= ChannelCap
HasRoomToSpare == Len(committed) + 1 < ChannelCap

HasRoom == Len(committed) < ChannelCap

(* Mutant of ReadSegment: what does not fit is dropped. *)
ReadOrDrop ==
  /\ reader = "reading" /\ net # <<>> /\ Head(net) # Error
  /\ net' = Tail(net)
  /\ committed' = IF HasRoom THEN Append(committed, Head(net)) ELSE committed
  /\ UNCHANGED <<captureVars, conn, covered, unasked, failures, asked, reader,
                 held, errs, stopVars>>

ReadSegment ==
  /\ reader = "reading" /\ net # <<>> /\ Head(net) # Error
  /\ net' = Tail(net)
  /\ IF HasRoom
       THEN committed' = Append(committed, Head(net)) /\ UNCHANGED <<reader, held>>
       ELSE /\ reader' = "blocked" /\ held' = <<Head(net)>>
            /\ UNCHANGED committed
  /\ UNCHANGED <<captureVars, conn, covered, unasked, failures, asked, errs,
                 stopVars>>

ReaderResumes ==
  /\ reader = "blocked" /\ HasRoom
  /\ committed' = committed \o held
  /\ held' = <<>> /\ reader' = "reading"
  /\ UNCHANGED <<captureVars, conn, remoteVars, errs, stopVars>>

ReadError ==
  /\ reader = "reading" /\ net # <<>> /\ Head(net) = Error
  /\ net' = Tail(net) /\ errs' = TRUE
  /\ UNCHANGED <<captureVars, conn, covered, unasked, failures, asked, reader,
                 held, committed, stopVars>>

(* conn.Read fails; what had not been read by then is lost. *)
ReaderEnds ==
  /\ reader = "reading" /\ conn = "dead"
  /\ reader' = "ended" /\ errs' = TRUE
  /\ UNCHANGED <<captureVars, conn, remoteVars, held, committed, stopVars>>

-----------------------------------------------------------------------------
(* stopRecording: interrupt pw-record and wait for r.done, for 2 s. *)
Stop ==
  /\ stop = "recording" /\ stop' = "stopping"
  /\ UNCHANGED <<captureVars, conn, remoteVars, readerVars, late, result>>

(* Mutant of StopWaits: the capture goroutine is not waited for. *)
StopProceeds ==
  /\ stop = "stopping" /\ stop' = "committing"
  /\ UNCHANGED <<captureVars, conn, remoteVars, readerVars, late, result>>

StopWaits ==
  /\ stop = "stopping" /\ stop' = "committing"
  /\ late' = (capture # "ended")
  /\ UNCHANGED <<captureVars, conn, remoteVars, readerVars, result>>

(* Commit: write the request; when its context ends first, the websocket   *)
(* library gives the connection up.                                        *)
CommitWrites ==
  /\ stop = "committing" /\ conn = "open"
  /\ asked' = TRUE /\ stop' = "waiting"
  /\ UNCHANGED <<captureVars, conn, net, covered, unasked, failures,
                 readerVars, late, result>>

CommitFails ==
  /\ stop = "committing" /\ conn # "open"
  /\ conn' = "dead" /\ stop' = "closing"
  /\ UNCHANGED <<captureVars, remoteVars, readerVars, late, result>>

(* select: a first segment, an error, the deadline of 20 s. *)
TakeFirst ==
  /\ stop = "waiting" /\ committed # <<>>
  /\ result' = <<Head(committed)>> /\ committed' = Tail(committed)
  /\ stop' = "coalescing"
  /\ UNCHANGED <<captureVars, conn, remoteVars, reader, held, errs, late>>

TakeError ==
  /\ stop = "waiting" /\ errs
  /\ errs' = FALSE /\ stop' = "closing"
  /\ UNCHANGED <<captureVars, conn, remoteVars, reader, held, committed, late,
                 result>>

(* Mutant of DeadlinePasses: it never does. *)
NoDeadline == FALSE /\ UNCHANGED realtimeVars

DeadlinePasses ==
  /\ stop = "waiting" /\ stop' = "closing"
  /\ UNCHANGED <<captureVars, conn, remoteVars, readerVars, late, result>>

(* The coalescing window of 250 ms takes in one more segment at most. *)
TakeMore ==
  /\ stop = "coalescing" /\ committed # <<>>
  /\ result' = Append(result, Head(committed)) /\ committed' = Tail(committed)
  /\ stop' = "closing"
  /\ UNCHANGED <<captureVars, conn, remoteVars, reader, held, errs, late>>

WindowEnds ==
  /\ stop = "coalescing" /\ stop' = "closing"
  /\ UNCHANGED <<captureVars, conn, remoteVars, readerVars, late, result>>

(* Mutant of Close: the connection is left open. *)
CloseForgotten ==
  /\ stop = "closing" /\ stop' = "returned"
  /\ UNCHANGED <<captureVars, conn, remoteVars, readerVars, late, result>>

Close ==
  /\ stop = "closing" /\ stop' = "returned"
  /\ conn' = "dead"
  /\ UNCHANGED <<captureVars, remoteVars, readerVars, late, result>>

Finalize == \/ StopWaits \/ CommitWrites \/ CommitFails
            \/ TakeFirst \/ TakeError \/ DeadlinePasses
            \/ TakeMore \/ WindowEnds \/ Close

Reader == ReadSegment \/ ReaderResumes \/ ReadError \/ ReaderEnds

RealtimeInit ==
  /\ spoken = 0 /\ sent = 0 /\ capture = "reading"
  /\ conn = "open"
  /\ net = <<>> /\ covered = 0 /\ unasked = 0 /\ failures = 0 /\ asked = FALSE
  /\ reader = "reading" /\ held = <<>> /\ committed = <<>> /\ errs = FALSE
  /\ stop = "recording" /\ late = FALSE /\ result = <<>>

RealtimeNext ==
  \/ CaptureChunk \/ Send \/ CaptureEnds
  \/ RemoteCommits \/ RemoteErrs \/ NetworkChanges
  \/ Reader \/ Stop \/ Finalize

(* Goroutines are scheduled and timers run down.  The remote, the network  *)
(* and the user owe nothing.                                               *)
RealtimeFairness ==
  /\ WF_realtimeVars(Send) /\ WF_realtimeVars(CaptureEnds)
  /\ WF_realtimeVars(Reader) /\ WF_realtimeVars(Finalize)

RealtimeSpec == RealtimeInit /\ [][RealtimeNext]_realtimeVars
                             /\ RealtimeFairness
-----------------------------------------------------------------------------
(* Type correctness of one realtime dictation (RealtimeScribe, Commit). *)
RealtimeTypeOK ==
  /\ spoken \in 0..MaxChunks /\ sent \in 0..MaxChunks /\ covered \in 0..MaxChunks
  /\ unasked \in 0..MaxUnasked /\ failures \in 0..MaxErrors
  /\ asked \in BOOLEAN /\ errs \in BOOLEAN /\ late \in BOOLEAN
  /\ capture \in {"reading", "sending", "ended"}
  /\ conn \in {"open", "stalled", "dead"}
  /\ net \in Seq(Segment \cup {Error})
  /\ reader \in {"reading", "blocked", "ended"}
  /\ held \in Seq(Segment) /\ Len(held) = (IF reader = "blocked" THEN 1 ELSE 0)
  /\ committed \in Seq(Segment) /\ Len(committed) <= ChannelCap
  /\ stop \in {"recording", "stopping", "committing", "waiting", "coalescing",
               "closing", "returned"}
  /\ result \in Seq(Segment)

(* The text Commit returns starts with the first word and has no gap: a    *)
(* reader that waits on a full channel loses and reorders nothing (read,   *)
(* Commit).                                                                *)
NoGapInTranscript ==
  result # <<>> => /\ result[1][1] = 0
                   /\ \A i \in 2..Len(result) : result[i][1] = result[i-1][2]

(* The text misses recorded words only when the remote commits before it   *)
(* is asked, or when the capture goroutine was still sending after 2 s:    *)
(* otherwise every chunk is sent before the commit request, on one         *)
(* connection (Send, stopRecording, Commit).                               *)
TranscriptComplete ==
  /\ stop \in {"closing", "returned"} /\ result # <<>>
  /\ unasked = 0 /\ ~late
  => result[Len(result)][2] = spoken

(* stopRecording is never held up for good, whatever the remote and the    *)
(* network do (Commit's deadlines, the 2 s for r.done).                    *)
CommitReturns == stop = "stopping" ~> stop = "returned"

(* A Send that waits on a stalled connection is released by the end of     *)
(* the dictation: the goroutine and the WAV file do not outlive it         *)
(* (Send, Commit, Close).                                                  *)
CaptureReleased == stop # "recording" ~> capture = "ended"

(* Events not yet taken by Commit. *)
Unread == Len(committed) + Len(held) + Len(net)

(* The reader ends with its dictation unless the remote has committed more *)
(* segments than the channel holds; then it waits on it for good (read,    *)
(* Close).                                                                 *)
ReaderReleased ==
  stop = "returned" /\ Unread <= ChannelCap ~> reader = "ended"
=============================================================================
