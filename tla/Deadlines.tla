------------------------------ MODULE Deadlines ------------------------------
(***************************************************************************)
(* The arithmetic of waits and of the WAV header (internal/dictation/      *)
(* daemon.go, config.go): integers of WordBits bits that     *)
(* wrap around, a Duration of Second units per second.                     *)
(***************************************************************************)
EXTENDS Integers, Sequences

CONSTANTS
  WordBits,   \* bits of a Duration (64), scaled down
  Second,     \* units of a Duration in a second (10^9), scaled down
  SizeBits    \* bits of the WAV byte counter (32), scaled down

ASSUME DeadlinesAssumption == {WordBits, Second, SizeBits} \subseteq Nat \ {0}

(* The default of the longest wait fits a Duration. *)
ASSUME LongestWaitFits == 120 * Second < 2^(WordBits - 1)

(* A signed integer of WordBits bits. *)
Wrapped(n) == LET low == n % 2^WordBits IN
  IF low >= 2^(WordBits - 1) THEN low - 2^WordBits ELSE low

-----------------------------------------------------------------------------
(* LoadConfig, for the settings that decide how long something waits: a    *)
(* missing, zero or negative setting becomes its default.                  *)
Positive(setting, default) == IF setting <= 0 THEN default ELSE setting

(* Mutant of LoadConfig: one default is forgotten. *)
LoadWithoutMax(file) ==
  [maxAttempts   |-> Positive(file.maxAttempts, 2),
   initialSecs   |-> Positive(file.initialSecs, 3),
   maxSecs       |-> file.maxSecs]

LoadConfig(file) ==
  [maxAttempts   |-> Positive(file.maxAttempts, 2),
   initialSecs   |-> Positive(file.initialSecs, 3),
   maxSecs       |-> Positive(file.maxSecs, 120)]

(* Mutant of RetryDelay: the first retry waits twice the initial time. *)
RetryDelayLate(cfg, attempts) ==
  LET delay == Wrapped(cfg.initialSecs * Second * 2^attempts)
      max == Wrapped(cfg.maxSecs * Second)
  IN IF delay > max THEN max ELSE delay

(* fail: the wait before the next attempt. *)
RetryDelay(cfg, attempts) ==
  LET delay == Wrapped(cfg.initialSecs * Second * 2^(attempts - 1))
      max == Wrapped(cfg.maxSecs * Second)
  IN IF delay > max THEN max ELSE delay

-----------------------------------------------------------------------------
(* wavHeader: the sizes it holds. *)
HeaderBytes == 44
WavHeader(bytes) == [data |-> bytes, riff |-> (36 + bytes) % 2^SizeBits]

(* wavWriter: Close writes the header for what Write has counted. *)
Counted(writes) ==
  LET sum[n \in 0..Len(writes)] ==
        IF n = 0 THEN 0 ELSE (sum[n-1] + writes[n]) % 2^SizeBits
  IN sum[Len(writes)]

FileSize(writes) ==
  LET sum[n \in 0..Len(writes)] ==
        IF n = 0 THEN HeaderBytes ELSE sum[n-1] + writes[n]
  IN sum[Len(writes)]

ClosedHeader(writes) == WavHeader(Counted(writes))

(* Mutant of RepairedHeader: the placeholder counts as samples. *)
RepairedWhole(size) == WavHeader(size % 2^SizeBits)

(* repairWAV, of a file that is no shorter than its header. *)
RepairedHeader(size) == WavHeader((size - HeaderBytes) % 2^SizeBits)
=============================================================================
