# JFlow in TLA+

Specifications, model-checking runs and machine-checked proofs for JFlow, the
push-to-talk dictation daemon of this repository: a Go daemon
(`internal/dictation`) that records speech through PipeWire, transcribes it,
cleans and formats the text, types it into the focused window, and keeps every
dictation as a durable job that can be retried.

Line numbers are those of `src/internal/dictation/daemon.go` where no file is
named.

## 1. The system

| Component | Source | State | Operations |
|---|---|---|---|
| Job store | `store.go`, `types.go` | one directory per job: `job.json` (replaced by rename), `audio.wav` | Save, Get, List, Search, Delete, DueJobs |
| Status pill | 1296-1336, `ui/VoiceFlow.qml` | `d.phase`, `status.json` | setStatus, showAction and its 8 s goroutine |
| Recorder | 224-533 | `d.recording` (under `d.mu`), the `recording` struct, pw-record, WAV writer | Start, capture goroutine, silence stop, Stop, Cancel, finalization |
| Pipeline | 832-1143 | work channel (32), `processingID`, retry timers, the worker's copy of a job | enqueue, worker, process, fail, scheduleRetry, recoveryLoop, recoverInterruptedJobs, Retry |
| History commands, cleanup | 563-829, 883-916 | records and listings read before a Save; `lifecycleMu` | Dismiss, Delete, Correct, Feedback, Copy, LearnSelection, cleanup |
| Langfuse outbox | `langfuse.go` | queue directory, one-slot trigger | QueueFormatter, Run, drain, Cleanup |
| ASR and cleanup providers | `provider.go` | none | Transcribe, Clean |
| Realtime Scribe | `provider.go` 231-344 | websocket, `committed` (8), `errs` (1) | read, Send, Commit |
| Vocabulary | `vocabulary.go` | one JSON file under a mutex | Add, Delete, Apply, Keyterms, LearnFrom* |
| Formatter | `formatter.go` | none | FormatWithOllama: repairs, validation and rendering of the model's block document |
| Context hint | `context.go` | none | classifies the focused window for the prompt |
| Deadlines, WAV | 1090-1097, 1208-1232, 1338-1409 | byte counter | asr/typing/formatter deadlines, backoff, header |
| Configuration | `config.go` | none | LoadConfig and its defaults |
| Client, UI, units | `cmd/`, `ui/`, `packaging/`, `scripts/` | none of interest | issue commands, render, restart the daemon |

**Interaction.** The client sends one command per connection;
`handleConnection` serves each connection on a goroutine of its own.  Start and
Stop share `d.recording` under `d.mu`.  A finished recording is a saved job and
an id in the work channel.  One worker takes ids and runs `process`, which
works on its own copy of the record and saves it after every stage.  The store
is what all of them share: every Save overwrites the whole `job.json`.
`lifecycleMu` orders Retry, Delete, Correct and the worker's pickup of an id;
Dismiss, Feedback, cleanup and stopRecording do not take it.  Timers, the
recovery scan (every 5 s), Retry, recovery and finalization all enqueue ids, so
the channel can hold the same id several times.  The formatter stage hands an
event to the Langfuse outbox, from which nothing comes back.  With a realtime
provider the capture goroutine sends every chunk it has written to the WAV file
over a websocket as well; stopRecording then commits and takes the text from
the reader goroutine's channel instead of queueing the recording for ASR.  The
worker applies the vocabulary to a transcript; Correct and LearnSelection teach
it.

**What is hard.**  Stale records saved over newer ones; duplicate ids; stop,
silence timer and Cancel racing for one recording; a crash or a SIGTERM
anywhere, in particular around `wtype`, with queue and timers lost; statuses
written by several goroutines; a full channel; a reader blocked on a channel
nobody empties, a Send without a deadline; text edits whose output is the next
one's input; integers that wrap around.

**What makes each part correct.**

- *Store and pipeline*: a text is typed at most once per request, a delivery
  that is recorded took place, what is finished stays finished, every queued
  dictation settles although the queue is not persistent.
- *Recorder*: exactly one caller finalizes a recording, no stale caller touches
  a later one, the microphone process never outlives its recording, no job is
  left in state recording, the words of a pending job are on disk.
- *Commands*: a deleted job never comes back, a correction saves over what it
  has read, active jobs are refused.
- *Pill*: listening is shown only while there is a recording.  Processing is
  not promised as much: the "Transcribing" of stopRecording (484) is ordered
  with nothing the worker does and may stay after it has finished.
- *Outbox*: at-least-once, in-order export, no lost wake-up.
- *Realtime*: the text starts with the first word and has no gap; it lacks
  words only when the remote or the network broke the protocol; nobody waits
  for ever.
- *Vocabulary*: exactly the whole words of a phrase are replaced; what a
  correction teaches corrects the next transcript; one entry per spelling.
- *Formatter*: a repair changes layout, never words.
- *Deadlines, WAV*: no configuration makes a wait vanish; a repaired header is
  the one Close would have written.

## 2. Modules

```
JobStore <- StatusPill <- Pipeline <- Recorder <--------- Daemon
             (refines)    |   ^          ^                  ^
             Dictation <--+   |    RecorderProofs           |
                              |       |       ^             |
                        PipelineProofs <--+   |             |
                                          DictationProofs <-+- DaemonProofs

LangfuseSink (SinkProofs)   --+
Realtime (RealtimeProofs)   --+-- MCBackground

Phrases <- Vocabulary --+
Formatter --------------+-- MCTexts <- TextsProofs
Deadlines --------------+                  ^
                                     WordingProofs
```

In the upper chain each module extends the one to its left, adds its own
variables, and composes: `Recorder!PipelineOnly` and `Daemon!Underneath` are
the steps of the module below together with what they mean for the variables
above (a crash resets them).  The other groups share no state with it; they
meet it at a call that returns a text or nothing.

- **JobStore** - `store[j]` is the job record with the fields the control flow
  depends on: status, whether there is a transcript, whether there is a final
  text, failed attempts, `DeliveryAttempted`, whether the recording is long
  enough for the formatter, `Formatting.Eligible`.  `audio[j]` is the amount of
  audio, with the boundaries the code tests (no file, 44 bytes, 3200 bytes).
  Ids are numbered in creation order.
- **StatusPill** - `d.recording` and `d.phase` (phase and action job).
- **Pipeline** - `process` as a program counter `pc` and the worker's copy
  `job`.  An action ends where others can interfere: at a Save and at a call
  that waits.  `Dequeue` and `Finish` take `lifecycleMu`; `RetryRead` and
  `RetrySave` hold it in between.  `spill` is the goroutines blocked in enqueue;
  `timers` the armed retry goroutines (two armed for the same attempt of a job
  count as one); `backoff` the jobs whose `NextAttemptAt` is ahead; `scan` what
  recoveryLoop has listed and not enqueued.  `up` is the life of the process:
  `Sigterm`, then goroutines run on until `Exit`; `Crash` at any time;
  `Restart` and one `RecoverJob` per job, so that a crash in the middle of the
  recovery is covered.  `Submit` and `SubmitShown` stand for the recorder in the
  runs of this module alone; the second is the "Transcribing" that may come long
  after the first.  `raced` is history, like `inserted` and `retries`: the jobs
  whose recording was removed although a Retry had checked that it was there.
- **Dictation** - the abstract specification: what history says of a dictation,
  how often its text was typed and how often it was asked for, and that the
  user may delete it for good (`Drop`).  It has no queue, no timers, no worker
  and no crash.  Pipeline instantiates it as
  `Promise` (`outcome` is computed from the status on disk, `typed` and
  `requests` are the counters `inserted` and `retries`), and `KeepsPromise` is
  `Promise!DictationSpec`.
- **Recorder** - `capture` (pw-record and its reader, which is "stalled" while it
  waits in the Send of the realtime provider), `mode` (hands-free
  bookkeeping), `stoppers` (stopRecording calls that have not locked `d.mu`),
  `fin` (the finalization of each recording with the record it has read: with the
  realtime provider the Get of 443 and the Save of 446 are two steps,
  `RealtimeGet` and `RealtimeSave`).
- **Daemon** - the history commands, split where they read and where they save,
  and cleanup, split into listing and removals (`sweep` remembers how often each
  job had been retried when it was listed, to tell a Retry that came in between).
  `Commands` and `HistoryFrom`
  select what the user does in an instance.
- **LangfuseSink** - the outbox; an export may be answered, fail or lose its
  answer, and the removal of an exported event may fail.
- **Realtime** - one dictation over the realtime provider.  Audio is counted in
  chunks; a committed segment is the pair of chunk numbers it covers, so that
  "the text is complete" is "the segments reach from 0 to the last chunk".  The
  remote may commit before it is asked, answer late, never, or with an error;
  the websocket may stall and die.  `late` records that stopRecording did not
  wait for the capture goroutine beyond its 2 s.
- **Phrases** - the text algorithms of `vocabulary.go` over texts of numbered
  letters and blanks.  **Vocabulary** - the store's commands; a correction
  stores its aliases one by one, with other commands and a crash in between.
- **Formatter** - the mechanical repairs of the model's block document and its
  validation and rendering, over tokens.
- **Deadlines** - backoff, LoadConfig's repair of the settings it depends on,
  the WAV byte counter, header and repair, in integers of `WordBits` and
  `SizeBits` bits that wrap around.
- **MCBackground** - composes LangfuseSink and Realtime, which share nothing: a
  behaviour is one of the one or one of the other.
- **MCTexts** - composes Phrases, Vocabulary, Formatter and Deadlines: a
  behaviour either edits a vocabulary or is one probe, an input of one of the
  algorithms; reference definitions for them are written next to the properties
  that use them.

Operators commented as mutants are one plausible programming error each; they
are not part of any specification, and substituting one for the definition it
names makes TLC report the property it was written for.

### Decisions worth knowing

- `Retry` and `RetryLast` are one action: `RetryLast` calls `Retry` for one of
  the jobs `RetryRead` may choose.  `CopyLast` relates to `Copy` likewise.
- `Dequeue` receives an id and publishes it under `lifecycleMu` in one step.
  While the worker waits for the lock, the id it has received (843) still counts
  as waiting here.  Nothing looks into the channel, its senders see one slot less
  than there is, and a crash loses the id either way.
- The "Transcribing" that follows a finalization (484) is ordered with nothing
  the worker does, in Pipeline (`SubmitShown`) as in Recorder (`FinShown`); no property claims that processing
  is shown only while the worker works.
- `AddAlias` leaves out the entries of the older file format with one heard form
  and one replacement (vocabulary.go:218-244): no modelled command writes them.
- A failed `Transcribe` is permanent without an audio file, as in the cloud
  providers (`multipartTranscribe`); whisper-cli would call it retryable.
- `wtype` either types the whole text or fails; a part of a text may have been
  typed when it fails.  `inserted` counts complete insertions.
- The code ignores the error of most Saves.  The models have no failing Save.
- Cleanup's ages are in hours and days: `Unattended` says that by then nothing
  in memory is still waiting for the job.  A machine suspended for days could
  break that.
- When the daemon is stopped, `Restart` means that somebody starts it again
  (`systemctl restart`, the scripts of `scripts/`, a new login).
- `Dictation` lets a failed dictation become pending without a Retry: an id of
  it may still wait in the channel, and `process` does not refuse it.  README.md
  301-303 of the repository promises that a failed dictation waits for the
  user; what is kept of that promise is that its text is not typed twice.

## 3. Runs

All bounds are CONSTANTS set in the `.cfg` files.  They are small because the
hazards are interferences of two or three activities over one or two
dictations: one spare copy of an id shows duplicates, a channel of one slot is
full with one id, two attempts distinguish retry from failure, one crash in
every state (two where one must hit the recovery from another).

| Run | Module / cfg | Bounds | Properties |
|---|---|---|---|
| pipeline_one | MCPipeline / MCPipelineOne | 1 job, 1-slot queue, 2 copies, 2 attempts, 1 Retry from any status, 2 crashes, 1 SIGTERM; fair | `TypeOK`, `InsertedOnce`, `DeliveredWasTyped`, `FinishedStays`, `KeepsPromise`, `EveryDictationSettles` |
| recorder_two | MCRecorder / MCRecorder | 2 recordings, 1 stale Stop each, no crash | `NoOrphanRecording`, `MicOwned`, `ListeningMeansRecording`, `OneFinalizer` |
| recorder_one | MCRecorder / MCRecorderOne | 1 recording, 1 stale Stop, 2 attempts, 1 Retry, 1 crash, 1 SIGTERM, any stalls; fair | `SpokenWordsKept`, `StoppedDictationSettles`, `SilenceEndsRecording` |
| commands_locked | MCDaemon / MCDaemonLocked | 1 job; delete, correct, copy, learn; 1 Retry, 1 crash | `CorrectionSeesLatest`, `DeletedStays`, `KeepsPromise` |
| commands_all | MCDaemon / MCDaemonAll | 1 job, every command and cleanup, 1 Retry, no crash | `DaemonTypeOK`, `DeliveredWasTyped`, `SpokenWordsKept` |
| background | MCBackground / MCBackground | channel of 1, 4 chunks, 3 early segments, 1 error; 3 events, 1 lost answer, 1 failed removal, 2 crashes; Realtime fair | `RealtimeTypeOK`, `NoGapInTranscript`, `TranscriptComplete`, `CommitReturns`, `CaptureReleased`, `ReaderReleased`, `SinkTypeOK`, `ExportedOrKept`, `InOrder`, `NoLostWakeup`, `DuplicatesExplained` |
| texts | MCTexts / MCTexts | 3 entries, 4 words, 4 tokens or 5 clauses, 3 blocks, 16-bit Durations, 8-bit WAV counter | `WordsReplaced`, `DistanceIsEditDistance`, `CorrectionTakesEffect`, `UniqueEntries`, `FullNameWins`, `KeytermsComplete`, `WordingKept`, `RepairsKeepDocument`, `BackoffDoubles`, `RepairedLikeClosed` |

What they show:

- *pipeline_one*: whatever duplicate ids, timers, scans, Retries, crashes and a
  SIGTERM do, the pipeline does to a dictation only what `Dictation` allows,
  every dictation settles in the end, and what is delivered or cancelled is
  changed by nothing but the Save of a Retry.
- *recorder_two*: stops, the silence timer and Cancels of a first recording
  never touch a second one.  Crashes during two recordings are covered by the
  proofs of section 4, and with one recording by *recorder_one*.
- *recorder_one*: from the first word heard to the settled job, through
  finalization, processing, a Retry, a crash and a SIGTERM anywhere, the words stay
  on disk as long as they are needed; and silence ends a hands-free recording,
  unless the realtime connection takes no more chunk for ever.
- *commands_locked*: what `lifecycleMu` and the busy check keep apart; recorder,
  pipeline and the commands that use them implement Dictation together.
- *commands_all*: what stale saves and a cleanup overtaken by a Retry can do
  where nothing is locked.
- *background*: of the outbox, at-least-once export in order, no wake-up lost
  between the one-slot trigger and a listing in progress, and a cause for every
  repeated export.  Of Realtime: a channel of one makes it full with one
  segment, as nine segments do to the channel of eight; four segments are one
  more than channel, reader and Commit's first choice hold together.  A
  transcript that is returned lacks words only if the remote commits before it
  is asked, or the capture goroutine outlasts its 2 s.
- *texts*: the algorithms agree with reference definitions for all short
  inputs.  Four words suffice for a phrase of two next to itself and its parts;
  three letters for every kind of edit and its combination with another; five
  clauses for the longest enumeration the regular expressions tell apart; with
  16-bit Durations and 8-bit counters both overflows are within reach.

`CHECK_DEADLOCK FALSE` everywhere: once the bounded dictations are settled and
nobody gives a command, the daemon rightly has nothing to do.

The code leaves two races open in which a job is queued without its words.
A Retry checks that the recording is there (RetryRead), and before its Save a
SIGTERM makes the worker cancel the same job and discard its audio (1082); or
cleanup lists an expired failed job, a Retry queues it, and cleanup removes what
it has listed (906).  Both happen in the runs, the first in *recorder_one*, the
second in *commands_all*.  The history variable `raced` marks these jobs, in the
step that removes the audio, and `SpokenWordsKept` exempts them, from that step on,
and no others: the same Retry a moment earlier or later has to keep the words.

Some choices keep out interferences the code does not guard against:

- `commands_all` has no restart and no command on a queued job: a stale feedback
  Save can take a job back to a status that a restart or a waiting id processes
  again (the run `feedback`), after which nothing bounds its insertions.
- In `commands_locked` and `commands_all` history commands are not given for a
  job in state recording, which the run `delete_active` covers.

Some properties have a precondition where the code promises nothing: a phrase
that overlaps itself (`WordsReplaced`), vocabulary entries that rewrite each
other's spelling (`FullNameWins`), a doubled wait that no longer fits a Duration
(`BackoffDoubles`), a recording too long for the WAV counter
(`RepairedLikeClosed`), a correction next to which something else was learned
(`CorrectionTakesEffect`, see `learn_changed` below).  `WordingKept` claims that
decimals stay whole only of paragraphs that are not taken for an enumeration;
what happens in one is the run `decimals`.

### Disagreements between code and documentation

Each of these runs checks one property that states a sentence of the
documentation or a comment; TLC finds it violated.

| Run | Property | The sentence | What happens |
|---|---|---|---|
| restart_keeps | `RestartKeepsDictation` | docs/IMPLEMENTATION.md:217-218 | A SIGTERM cancels the job in the worker and deletes its audio. |
| delete_active | `ActiveNotDeleted` | docs/IMPLEMENTATION.md:146 | A recording being finalized is not busy for DeleteHistory. |
| feedback | `InsertedOnce` | docs/IMPLEMENTATION.md:219-221 | A stale feedback Save takes a delivered job back to delivering; the restart types it again. |
| learn_changed | `OnlyChangesAreLearned` | vocabulary.go:260 | `containsWholePhrase` looks between blanks in a text without blanks: a phrase the user left alone is learned as a correction of itself and a short neighbour. |
| decimals | `DecimalsLeftAlone` | README.md:174-177 | `orderedMarkers` takes the digits before a decimal point for a list marker: "version 1.5 to 2.0" becomes a list of "5 to" and "0" (formatter.go:330). |

`feedback` and `delete_active` need two activities within milliseconds; the
others do not.

More can be read off the models, without a run of their own:

- A job that waits in the channel for a scan tick (5 s) gets a second id there;
  when it then fails, it runs again without a Retry (README.md:301-303).
- Without speech, or with a dead pw-record, or while the Send of a realtime
  provider hangs (304, before the silence check at 306), nothing stops a
  hands-free recording (docs/IMPLEMENTATION.md:39-40); `SilenceEndsRecording`
  starts with the first word and assumes that Send comes back again and again.
- The pill may stay at "Transcribing" after the worker has delivered (484).
- Commit takes two segments at most, so a remote that commits early leaves the
  end of a dictation out of the text that is delivered (provider.go:324).
- DismissLast saves a waiting job as cancelled while the worker may have read
  it, and the worker's next Save revives it (580).
- Cleanup has no case for cancelled jobs, so the audio of a dismissed dictation
  is never removed (900-912).
- When its job is deleted during finalization, stopRecording returns at 450 and
  the pill stays at processing until the next command.

### Fairness

- `PipelineFairness`: the worker's steps, blocked senders, timers, the scan,
  recovery and start-up are weakly fair.  They are goroutines and a ticker; ASR,
  cleanup, formatter and wtype calls have deadlines; systemd restarts the unit
  two seconds after a failure.  No outcome of a call is assumed: `WorkerStep`
  is fair as a whole, so ASR may fail for ever.
- `RecorderFairness`: a stop that was called locks `d.mu`, finalization runs to
  its end (each wait in it has a timeout), the speaker who has spoken falls
  silent while pw-record lives, and the silence check of the capture goroutine
  runs in some turn of its loop.  This last is strong fairness of `AutoStop`,
  since between two turns the reader may wait in Send; that Send returns is not
  assumed.
- `RealtimeFairness`: Send returns when the connection is not stalled, the
  capture goroutine reads the closed pipe to its end, and the reader and the
  goroutine of stopRecording take some step they can take (timers run down).
  The remote, the network and the user owe nothing.
- Commands, crashes, signals, speech and the events of the outbox are never
  assumed.

## 4. Proofs

All with TLAPS, for every value of the constants that satisfies the named
assumptions of the modules (limits are naturals, queue and channel capacities
and the attempts positive, Retry is asked for in statuses that exist).

**Pipeline.**  `PipelineProofs` proves `TypeCorrect` (`TypeOK`), `Accounted`
(`IInv`) and `TypedOnce` (`InsertedOnce`).  `InsertedOnce` is not inductive:
whether another insertion may come depends on the record on disk, on the
worker's stale copy, and on the record a Retry has read.  `IInv` adds the
account behind it: for every job either an insertion is still owed (`Owed(j)`,
`inserted[j] <= retries[j]`), or it has been typed exactly once more than it was
retried and is `Settled(j)`: nothing on disk or in memory leads to wtype again,
because the job is delivered, cancelled or deleted, or its `DeliveryAttempted`
is on disk and keeps recovery from queueing it, or it has failed and nothing
refers to it.  `StageInv` ties the worker's copy to the record and to `pc`, and
allows for a record that was cancelled or deleted under the worker.
Type correctness is proved first, by one lemma per group of variables; the
account is then preserved by each action (`StageAccount` for the saves of
process, `WorkerAccount`, `StepAccount`, `SubmitAccount`), with `AccountFrame`
for the actions that touch nothing of it.

The second half of `PipelineProofs`, on what the pipeline reports, builds on
`Accounted`:

- `DeliveriesWereTyped` (`DeliveredWasTyped`).  The strengthening `TypedInv`
  adds that in the stage between wtype and the last Save an insertion has been
  counted; every other Save writes another status, the one of `MarkAttempted`
  because `StageInv` knows the worker's copy.
- `FinishedForGood` (`FinishedStays`).  `OpenInv` says that what the worker is
  processing has not been finished by somebody else, so that no stage writes
  over a finished record; the step relation is `KeepsFinished`.

**Refinement.**  `PipelineProofs` ends with `PromiseKept`: `PipelineSpec =>
KeepsPromise`.  The invariants above give what each step needs (`OutcomeInv`:
what is processed exists, what is typed is pending); then every Save is shown to
be a step of Dictation or a stutter according to the status it writes
(`SavePending`, `SaveGivenUp`, ...), wtype to be `Type`, and whatever leaves
records and counters alone to be a stutter (`QuietPromise`).

**Recorder.**  `RecorderProofs` proves `RecorderTypeCorrect`, `NoneStranded`
(`NoOrphanRecording`), `MicAlwaysOwned` (`MicOwned`), `ListeningTruthful`
(`ListeningMeansRecording`) and `FinalizedOnce` (`OneFinalizer`) of the composed
specification, for any number of recordings, stale Stops, crashes and restarts.
The steps of the pipeline are dealt with once, by `PipelineWrites`: they never
write "recording" or "absent" into a record, write and take up only what is
theirs (in flight, locked by a Retry, or being recovered), and never show
Listening.  The invariant then says that the current recording is nobody
else's (`ApartInv`), that nothing in memory refers to a job never started
(`KnownInv`), that a dead daemon has no recording (`DownInv`), that recovery has
every recording of a dead process before it (`RecoverInv`), and that the last
steps of a finalization follow its Save (`LeftInv`).

**Recorder and pipeline together.**  `DictationProofs` proves of the composed
specification `Spec`, with any number of recordings, Retries, crashes and
SIGTERMs, what the pipeline's theorems say with `Submit` in place of the
recorder: `DictationKept` (`KeepsPromise`: the detailed system with recorder
implements Dictation) and `DictationTypedOnce` (`InsertedOnce` and
`DeliveredWasTyped`); and `WordsKept` (`SpokenWordsKept`).

- The invariant `WholeInv` is the pipeline's and the recorder's together with
  `RestInv` (no queue and no Retry knows a job in state recording) and `OwnInv`
  (until its Save a finalizer holds the job as it is on disk).  They make a
  recorder's Save one of a fresh or a recorded job (`Starts`, `Concludes`), which
  is a stutter or Dictation's own step.
- The words are `AudioInv`: what may still reach `process`, a failed job of
  which a duplicate id waits included, has its audio (`KeptInv`); a Retry has
  seen it (`LockInv`); audio is discarded of jobs that are over (`DiscardInv`,
  `StopInv`).
- Hypotheses.  All three assume that no Retry is asked for a job in state
  recording: the interface offers Retry for failed and waiting jobs
  (`ui/JFlow.qml:149-150`), while `daemon.go:534-562` itself refuses only a
  delivered job and any Retry during a recording, so that one which is being
  finalized could be queued by both.  `WordsKept` assumes in addition that no
  cancelled job is retried (`SafeRetries`), which the interface does not offer
  either.  The number of Retries, SIGTERMs and crashes is free, and they may
  race: `SpokenWordsKept` exempts a job from the moment a SIGTERM takes its audio
  between the read and the Save of a Retry of this job (`raced`), for which the
  code has no guard.  `AudioInv` carries the exemption, and `DiscardInv` and
  `StopInv` say that no other Retry ever meets a discard.

**The whole daemon.**  `DaemonProofs` adds the history commands and cleanup, in
three layers of decreasing generality.

1. *Every command, no hypothesis*: `DaemonTypeCorrect` (`DaemonTypeOK`),
   `DaemonDeliveriesTyped` (`DeliveredWasTyped`), `DaemonListens` (`MicOwned` and
   `ListeningMeansRecording`).  `AnyInv` says of every record a command still
   holds what it says of the store (`CopiedInv`): a stale Save cannot claim a
   delivery that never happened.
2. *Every command; the user acts on no job in state recording*
   (`NoneRecording`; the run `delete_active` has what happens otherwise).
   `BaseInv` extends the recorder's invariant by `HeldInv`: whatever a command
   may still write or remove is a known job and no recording, and what is being
   corrected is not taken up by the worker.
   - `NoneStrandedByCommands` (`NoOrphanRecording`), `FinalizedOnceByCommands`
     (`OneFinalizer`).
   - `TypedOnceByCommands` (`InsertedOnce`) for every command but feedback, which
     does break it (the run `feedback`).  `CreditInv` is the pipeline's account
     together with `Held`: a correction's stale record adds no insertion.
   - `DaemonWordsKept` (`SpokenWordsKept`) for every command and cleanup.
     `WordsInv` says that a job is either parked (`Parked`: nothing leads to it,
     and neither its record nor a copy a command may save takes it out of
     failed, delivered, cancelled or deleted) or has its words in every record
     somebody may go on from (`Worded`).  `SoundInv`, that nothing is eligible
     for feedback before it has a transcript, makes the unlocked feedback Save
     harmless here; `TakenInv` says of everything that is about to lose its audio
     why nobody needs it: what is about to be discarded is over, or has its
     transcript (`DiscardsOver`), and what cleanup has listed is parked for as long as no
     Retry has queued it since (`SweepsParked`).  The hypothesis `SafeWords` says
     that the user acts on no recording and retries no cancelled job.  Retries,
     SIGTERMs, crashes and cleanups are free in number and order; the two races
     of section 3 are the only exemptions, through `raced`, which is why
     `WordsInv` reads `Parked`, `Worded` or raced.
3. *The commands that take `lifecycleMu`* (`OnlyLocked`: delete, correct, copy,
   learn): `DaemonKept` (`KeepsPromise`: the whole daemon implements Dictation,
   with deletion as its `Drop`), `DeletedForGood` (`DeletedStays`) and
   `EditsSeeLatest` (`CorrectionSeesLatest`).  `SafeInv` adds `CorrectInv`: from a
   correction's read to its Save nobody else writes the job.  Dismiss, feedback
   and cleanup are left out because they do undo these (a stale feedback Save
   brings a deleted job back).

**Outbox.**  `SinkProofs` proves all five properties of LangfuseSink.  What a
drain has passed is exported or expired, and what it has not listed is younger
than everything it has (`PassedInv`): that makes the order of first exports
inductive across the early return, crashes and Cleanup.  `CopiesInv` charges
each repeated export to a lost answer, a failed removal or a crash; `WakeInv`
says that whatever the current drain will not see has left a token, or is only
still there because its removal failed.  `FirstIsLeast` rests on the
well-foundedness of < on the naturals.

**Realtime.**  `RealtimeProofs` proves `RealtimeTypes` (`RealtimeTypeOK`),
`TextUnbroken` (`NoGapInTranscript`) and `TextComplete` (`TranscriptComplete`)
for every capacity of the channel and any number of chunks.  `ChainInv` says
that result, channel, the reader's hand and the network hold, in this order, one
text without a gap up to what the remote has covered; `AskedInv` and `SentInv`
that the commit request goes out after the last chunk unless the capture
goroutine was late; `CompleteInv` that a remote which only answers then answers
with everything.

**Vocabulary and arithmetic.**  `TextsProofs` proves six properties of MCTexts
for all inputs, of which the run tries a few.

- `OneEntryPerSpelling` (`UniqueEntries`), for any texts, any number of entries,
  and every interleaving of commands, learning and crashes.  The invariant
  `VocabularyInv` says that the file is a list of entries (`IsList`) with one per
  spelling (`Distinct`), its aliases texts that are not empty, and that what a
  correction has still to store are lessons, texts as well (`AreLessons`).  List has to be shown to lose
  and double nothing: `ListingRenumbers`, because `Less` orders texts strictly and
  totally (`LessIrreflexive`, `LessTransitive`, `LessTotal`) and an order of a
  finite set numbers it one by one (`Ranked`, from the pigeonhole principle).
  That what Learned takes out of a correction are texts goes through Words,
  Windows, Join, FlattenSeq and BestAlias (`WordsAreTexts`, `WindowsAreTexts`,
  `BestAliasIsText`, ...).
- `FullNameWinsAlways` (`FullNameWins`), from the same invariant.  Sorting puts no
  correction before a longer one (`LongestComeFirst`); a phrase as long as the text
  or longer occurs in it only as the whole text (`OccursAsWhole`), so that before
  the first correction that hears the whole text none changes it
  (`NothingReplaced`), that one writes the spelling (`AllReplaced`), and none
  changes it any more (`WrittenAsHeard`).
- `MergedKeytermsComplete`, for all configured terms, all terms of a vocabulary and
  every limit, and from it `KeytermsCompleteAlways` (`KeytermsComplete`) for what a
  vocabulary can hold.  The loop's invariant `Merges` says that no two kept terms
  are alike and that none that counts was left out while there was room.
- `RepairedLikeClosedAlways` (`RepairedLikeClosed`), for every sequence of writes
  and every width of the counter: `CountedAndSize` keeps the wrapping counter
  congruent to the file's size.
- `BackoffDoublesForEveryFile` (`BackoffDoubles`), for every configuration file
  whose maximum fits a Duration (Deadlines assumes that the default of two minutes
  does, `LongestWaitFits`): beyond it the product wraps and the bound is lost,
  which is no setting anybody would write (292 years).
- `DistanceIsLeastCost`, and from it `DistanceIsEditDistanceForAll`
  (`DistanceIsEditDistance`), for texts over any letters.  A cell of the rows is
  the least cost of an alignment of two prefixes: an alignment of the longer
  prefixes aligns their last letters or leaves one of them alone, without it the
  rest is an alignment of shorter prefixes, and a set of pairs in order loses or
  gains one pair at a time.

A recursive function is known to exist by `Iterates`, and what it computes is
shown by least counterexamples (`AllNaturals`): the induction theorems of the
library take an operator as parameter, a set of naturals does as well.

**Wording.**  `WordingProofs` is about whole texts: that the formatter's repairs
are mechanical, and that replacement keeps to words.

- `SplitKeepsWording` and `WordingKeptForAll` (`WordingKept`), for paragraphs over
  any tokens and of any length.  What a text says (`Spelled`) is what its parts say
  one after the other (`SpelledConcat`); so it is enough that the markers of an
  enumeration (`RunIs`, `ItemsAre`) and the ends of sentences (`SentencesAre`,
  `ParagraphsOfParts`) cut the paragraph at positions that ascend from its first
  token to its last, and that a marker is the number that becomes the item's
  (`RunSays`).  That no decimal is cut outside an enumeration is `PartBegins`: a
  sentence never begins with a token attached to the one before it.
- `RepairsKeepHeadings` and `RepairsKeepDocumentForAll` (`RepairsKeepDocument`), for
  documents over any tokens and every source.  The loop of
  normalizeFormatterDocument takes one or two blocks a round (`NormalizeIs`).
  `RoundKeeps` goes from the last round to the first: what a round gives is not
  empty, can be rendered, and holds the heading that was said, as a heading or
  within the paragraph that repeats it (`OccursWithin`, `WithinOccurs`).
- `WholeWordsReplaced` and `WordsReplacedForAll` (`WordsReplaced`), for texts and
  phrases of any words that are one blank apart (`Spaced`), and phrases that do not
  overlap themselves, as the property says.  `WordsStand` says where the words of a
  text begin and end.  A phrase that the scan finds between blanks starts at a word
  and ends with one, so its words are words of the text, each at its distance from
  the first (`WholeInStep`, `WholeIsPhrase`), and words in a row that are those of
  the phrase are found by the scan (`PhraseIsWhole`).  Two candidates never share a
  letter (`NoOverlap`): a candidate inside other words that is stepped over hides
  none, and up to the next whole phrase the text is kept (`Kept`).  From the last
  word to the first, what is written from a word on is then what joins the list
  from it on.  The hypothesis of texts without double blanks is not one the code
  enforces: it keeps the blanks it finds, which Join does not.

**Only model-checked.**  Every liveness property (`EveryDictationSettles`,
`StoppedDictationSettles`, `SilenceEndsRecording`, `CommitReturns`,
`CaptureReleased`, `ReaderReleased`; liveness under fairness is out of the
prover's reach), and `CorrectionTakesEffect`, which is about particular spellings:
that a phrase is close enough to be learned is a number the similarity of these two
texts must reach, and that nothing else is close to another phrase is a condition
on the whole transcript.  Where a hypothesis of a theorem above does not hold,
nothing is claimed; `KeepsPromise` and `DeletedStays` are neither true nor checked
for the commands without a lock.

## 5. Not modelled

- `context.go`: classifies a window title by substrings and reads /proc; no
  state, and the choice only changes the prompt.
- The command line client, the two QML files, the units and scripts: they issue
  commands, render `status.json` and start or stop the process, which the
  choice of commands, `Sigterm`, `Crash` and `Restart` represent.
- Request encoding of the providers, the HTTP call of the formatter and
  WarmOllama; `normalizePlainText` (removal of Markdown markers); settings of
  the configuration that no wait depends on.
- The deadlines of ASR, formatter and typing as numbers: two or three constants
  by length of text.  The pipeline knows them as calls that end.
- Failing Saves, a full disk, a corrupted `job.json`, clock jumps, and the time
  `d.mu` is held while a recording starts (Start is one step).
- Letters whose lower case has another length (vocabulary.go:418), and the read
  and write errors of the vocabulary file.
- Malformed files in the outbox, which drain skips and keeps.
- The formatter benchmark and the dataset export, which only read the store.

## 6. Plan

Written, in this order: JobStore, StatusPill, Pipeline and PipelineProofs,
Recorder, Daemon, LangfuseSink; then Dictation, Realtime, Phrases and
Vocabulary, Formatter, Deadlines, SinkProofs, RecorderProofs, RealtimeProofs,
DictationProofs, DaemonProofs, TextsProofs, WordingProofs.

What would come next:

1. A lock module for `d.mu` and `lifecycleMu`: who waits on whom while hyprctl,
   which has no timeout, holds up Start.
2. The retention the documentation promises for cancelled jobs, once cleanup
   has a case for them.
3. `CorrectionTakesEffect` for any spelling, from `WholeWordsReplaced` and a lemma
   that says when `BestAlias` finds the misspelling and nothing else.
4. `KeepsPromise` under the commands without a lock is false in the code; a
   promise that allows what a stale feedback Save does would say how much of it
   is left.
