----------------------------- MODULE TextsProofs -----------------------------
(***************************************************************************)
(* Proofs about the vocabulary file, the edit distance, and the arithmetic *)
(* of waits and of WAV headers, for all texts, configuration files and     *)
(* recordings.                                                             *)
(*                                                                         *)
(* Recursion is reasoned about by least counterexamples: a set of naturals *)
(* that holds zero and every successor of its elements holds them all.     *)
(***************************************************************************)
EXTENDS MCTexts, FiniteSetTheorems, SequenceTheorems, WellFoundedInduction,
        TLAPS

(* f takes the value v at from, and then each value from the one before.   *)
Iteration(f, V, from, to, v, step) ==
  /\ f \in [from..to -> V]
  /\ f[from] = v
  /\ \A n \in from+1..to : f[n] = step[<<n, f[n-1]>>]
-----------------------------------------------------------------------------
(* SmallestOf is the least element: < is well-founded on the naturals. *)
LEMMA SmallestIsLeast ==
  ASSUME NEW S \in SUBSET Nat, S # {}
  PROVE  /\ SmallestOf(S) \in S
         /\ \A y \in S : SmallestOf(S) <= y
<1> DEFINE R == OpToRel(<, Nat)
<1>1. \A x, y \in Nat : x < y => <<x, y>> \in R
  BY DEF OpToRel
<1>2. IsWellFoundedOn(R, Nat)
  BY NatLessThanWellFounded, Zenon
<1> HIDE DEF R
<1>3. PICK x \in S : \A y \in S : ~(<<y, x>> \in R)
  BY <1>2, WFMin, Zenon
<1>4. ASSUME NEW y \in S PROVE x <= y
  <2>1. x \in Nat /\ y \in Nat
    OBVIOUS
  <2>2. ~(y < x)
    BY <1>1, <1>3, <2>1, Zenon
  <2>3. QED BY <2>1, <2>2
<1>5. QED BY <1>3, <1>4, Zenon DEF SmallestOf

(* Induction over a set instead of a predicate. *)
LEMMA AllNaturals ==
  ASSUME NEW S, 0 \in S, \A n \in Nat : n \in S => n + 1 \in S
  PROVE  \A n \in Nat : n \in S
<1> SUFFICES ASSUME NEW m \in Nat, m \notin S PROVE FALSE
  OBVIOUS
<1> DEFINE Missing == {n \in Nat : n \notin S}
           least == SmallestOf(Missing)
<1>1. Missing \in SUBSET Nat /\ Missing # {}
  OBVIOUS
<1>2. least \in Missing /\ \A y \in Missing : least <= y
  BY <1>1, SmallestIsLeast, Zenon
<1> HIDE DEF least
<1>3. least \in Nat /\ least # 0
  BY <1>2
<1>4. least - 1 \in Nat /\ least - 1 \notin Missing
  BY <1>2, <1>3
<1>5. QED BY <1>2, <1>3, <1>4

(* A function defined by recursion over an interval exists.                *)
LEMMA Iterates ==
  ASSUME NEW from \in Nat, NEW V, NEW v \in V, NEW step \in [Nat \X V -> V],
         NEW to \in Nat, from <= to
  PROVE  \E f : Iteration(f, V, from, to, v, step)
<1> DEFINE Upto(k) == \E f : Iteration(f, V, from, from + k, v, step)
           S == {k \in Nat : Upto(k)}
<1>1. 0 \in S
  <2>1. Iteration([n \in from..from+0 |-> v], V, from, from + 0, v, step)
    BY DEF Iteration
  <2>2. QED BY <2>1
<1>2. ASSUME NEW k \in Nat, k \in S PROVE k + 1 \in S
  <2>1. PICK f : Iteration(f, V, from, from + k, v, step)
    BY <1>2
  <2>2. /\ f \in [from..from+k -> V] /\ f[from] = v
        /\ \A n \in from+1..from+k : f[n] = step[<<n, f[n-1]>>]
    BY <2>1 DEF Iteration
  <2> DEFINE next == step[<<from+k+1, f[from+k]>>]
             g == [n \in from..from+(k+1) |-> IF n = from+k+1 THEN next ELSE f[n]]
  <2>3. next \in V
    <3>1. from+k \in from..from+k
      OBVIOUS
    <3>2. QED BY <2>2, <3>1
  <2>4. g \in [from..from+(k+1) -> V] /\ g[from] = v
    BY <2>2, <2>3
  <2>5. ASSUME NEW n \in from+1..from+(k+1)
        PROVE  g[n] = step[<<n, g[n-1]>>]
    <3>1. /\ n \in from..from+(k+1) /\ n-1 \in from..from+k
          /\ g[n-1] = f[n-1]
      OBVIOUS
    <3>2. CASE n = from+k+1
      <4>1. n-1 = from+k /\ g[n] = next
        BY <3>1, <3>2
      <4>2. QED BY <3>1, <3>2, <4>1
    <3>3. CASE n # from+k+1
      <4>1. n \in from+1..from+k /\ g[n] = f[n]
        BY <3>3
      <4>2. QED BY <2>2, <3>1, <4>1
    <3>4. QED BY <3>2, <3>3
  <2> HIDE DEF g
  <2>6. Iteration(g, V, from, from + (k + 1), v, step)
    BY <2>4, <2>5 DEF Iteration
  <2>7. QED BY <2>6
<1> HIDE DEF S
<1>3. to - from \in S
  BY <1>1, <1>2, AllNaturals
<1>4. from + (to - from) = to
  OBVIOUS
<1>5. QED BY <1>3, <1>4 DEF S
-----------------------------------------------------------------------------
(* The powers of two are positive. *)
LEMMA Powers ==
  \A n \in Nat : 2^n \in Nat \ {0}
<1> SUFFICES ASSUME NEW n \in Nat PROVE 2^n \in Nat \ {0}
  OBVIOUS
<1>1. IsFiniteSet(1..n) /\ Cardinality(1..n) = n
  BY FS_Interval
<1>2. IsFiniteSet(SUBSET (1..n)) /\ Cardinality(SUBSET (1..n)) = 2^n
  BY <1>1, FS_SUBSET
<1>3. Cardinality(SUBSET (1..n)) # 0
  BY <1>2, FS_EmptySet
<1>4. Cardinality(SUBSET (1..n)) \in Nat
  BY <1>2, FS_CardinalityType
<1>5. QED BY <1>2, <1>3, <1>4

(* And grow. *)
LEMMA PowersGrow ==
  \A n \in Nat : 2^n <= 2^(n+1)
<1> SUFFICES ASSUME NEW n \in Nat PROVE 2^n <= 2^(n+1)
  OBVIOUS
<1>1. /\ IsFiniteSet(1..n) /\ Cardinality(1..n) = n
      /\ IsFiniteSet(1..n+1) /\ Cardinality(1..n+1) = n+1
  BY FS_Interval
<1>2. /\ Cardinality(SUBSET (1..n)) = 2^n
      /\ IsFiniteSet(SUBSET (1..n+1)) /\ Cardinality(SUBSET (1..n+1)) = 2^(n+1)
  BY <1>1, FS_SUBSET
<1>3. SUBSET (1..n) \in SUBSET (SUBSET (1..n+1))
  OBVIOUS
<1>4. QED BY <1>2, <1>3, FS_Subset

(* Division with remainder determines the remainder. *)
LEMMA RemainderIs ==
  ASSUME NEW m \in Nat \ {0}, NEW a \in Nat, NEW q \in Nat, NEW r \in Nat,
         r < m, a = m * q + r
  PROVE  a % m = r
OBVIOUS

(* A remainder is the one number below the modulus that is left over. *)
LEMMA Remainder ==
  ASSUME NEW m \in Nat \ {0}, NEW a \in Nat, NEW b \in Nat
  PROVE  /\ a % m \in Nat /\ a % m < m
         /\ a < m => a % m = a
         /\ ((a % m) + b) % m = (a + b) % m
<1> DEFINE q == a \div m
           s == (a % m) + b
<1>1. a % m \in Nat /\ a % m < m /\ q \in Nat /\ a = m * q + (a % m)
  OBVIOUS
<1>2. /\ s \in Nat /\ s \div m \in Nat /\ s % m \in Nat /\ s % m < m
      /\ s = m * (s \div m) + (s % m)
  BY <1>1
<1> HIDE DEF q, s
<1>3. a + b = m * q + s
  BY <1>1 DEF s
<1>4. m * q + m * (s \div m) = m * (q + (s \div m))
  BY <1>1, <1>2
<1>5. a + b = m * (q + (s \div m)) + (s % m)
  <2>1. a + b = m * q + (m * (s \div m) + (s % m))
    BY <1>2, <1>3
  <2>2. m * q \in Nat /\ m * (s \div m) \in Nat
    BY <1>1, <1>2
  <2>3. QED BY <1>2, <1>4, <2>1, <2>2
<1>6. (a + b) % m = s % m
  <2>1. q + (s \div m) \in Nat /\ a + b \in Nat
    BY <1>1, <1>2
  <2>2. QED BY <1>2, <1>5, <2>1, RemainderIs
<1>7. a < m => a % m = a
  OBVIOUS
<1>8. QED BY <1>1, <1>6, <1>7 DEF s
-----------------------------------------------------------------------------
(* The running sums of Write, with and without the counter's wrapping.     *)
LEMMA RunningSum ==
  ASSUME NEW w \in Seq(Nat), NEW base \in Nat
  PROVE  \E f : f = [n \in 0..Len(w) |-> IF n = 0 THEN base ELSE f[n-1] + w[n]]
<1> DEFINE step == [p \in Nat \X Nat |->
                      IF p[1] \in 1..Len(w) THEN p[2] + w[p[1]] ELSE 0]
<1>1. Len(w) \in Nat /\ 0 \in Nat /\ 0 <= Len(w)
  OBVIOUS
<1>2. step \in [Nat \X Nat -> Nat]
  OBVIOUS
<1>3. \A n \in 1..Len(w), x \in Nat : step[<<n, x>>] = x + w[n]
  OBVIOUS
<1> HIDE DEF step
<1>4. PICK f : Iteration(f, Nat, 0, Len(w), base, step)
  BY <1>1, <1>2, Iterates, Zenon
<1>5. /\ f \in [0..Len(w) -> Nat] /\ f[0] = base
      /\ \A n \in 1..Len(w) : f[n] = step[<<n, f[n-1]>>]
  BY <1>4 DEF Iteration
<1>6. ASSUME NEW n \in 1..Len(w) PROVE f[n] = f[n-1] + w[n]
  <2>1. n - 1 \in 0..Len(w)
    BY <1>1
  <2>2. f[n-1] \in Nat
    BY <1>5, <2>1, Zenon
  <2>3. f[n] = step[<<n, f[n-1]>>]
    BY <1>5, Zenon
  <2>4. step[<<n, f[n-1]>>] = f[n-1] + w[n]
    BY <1>3, <2>2, Zenon
  <2>5. QED BY <2>3, <2>4, Zenon
<1>7. f = [n \in 0..Len(w) |-> IF n = 0 THEN base ELSE f[n-1] + w[n]]
  BY <1>1, <1>5, <1>6
<1>8. QED BY <1>7

(* The running sum modulo m is a function: WavBytes has a value. *)
LEMMA RunningCount ==
  ASSUME NEW w \in Seq(Nat), NEW m \in Nat \ {0}
  PROVE  \E f : f = [n \in 0..Len(w) |-> IF n = 0 THEN 0 ELSE (f[n-1] + w[n]) % m]
<1> DEFINE step == [p \in Nat \X Nat |->
                      IF p[1] \in 1..Len(w) THEN (p[2] + w[p[1]]) % m ELSE 0]
<1>1. Len(w) \in Nat /\ 0 \in Nat /\ 0 <= Len(w)
  OBVIOUS
<1>2. step \in [Nat \X Nat -> Nat]
  <2>1. ASSUME NEW p \in Nat \X Nat, p[1] \in 1..Len(w)
        PROVE  (p[2] + w[p[1]]) % m \in Nat
    <3>1. p[2] + w[p[1]] \in Nat
      BY <2>1
    <3>2. QED BY <3>1, Remainder
  <2>2. QED BY <2>1
<1>3. \A n \in 1..Len(w), x \in Nat : step[<<n, x>>] = (x + w[n]) % m
  OBVIOUS
<1> HIDE DEF step
<1>4. PICK f : Iteration(f, Nat, 0, Len(w), 0, step)
  BY <1>1, <1>2, Iterates, Zenon
<1>5. /\ f \in [0..Len(w) -> Nat] /\ f[0] = 0
      /\ \A n \in 1..Len(w) : f[n] = step[<<n, f[n-1]>>]
  BY <1>4 DEF Iteration
<1>6. ASSUME NEW n \in 1..Len(w) PROVE f[n] = (f[n-1] + w[n]) % m
  <2>1. n - 1 \in 0..Len(w)
    BY <1>1
  <2>2. f[n-1] \in Nat
    BY <1>5, <2>1, Zenon
  <2>3. f[n] = step[<<n, f[n-1]>>]
    BY <1>5, Zenon
  <2>4. step[<<n, f[n-1]>>] = (f[n-1] + w[n]) % m
    BY <1>3, <2>2, Zenon
  <2>5. QED BY <2>3, <2>4, Zenon
<1>7. f = [n \in 0..Len(w) |-> IF n = 0 THEN 0 ELSE (f[n-1] + w[n]) % m]
  BY <1>1, <1>5, <1>6
<1>8. QED BY <1>7

(* Close's counter and the file's size, after as many writes.              *)
LEMMA CountedAndSize ==
  ASSUME NEW writes \in Seq(Nat)
  PROVE  /\ FileSize(writes) \in Nat /\ FileSize(writes) >= HeaderBytes
         /\ Counted(writes) = (FileSize(writes) - HeaderBytes) % 2^SizeBits
<1> DEFINE len == Len(writes)
           M == 2^SizeBits
           size == CHOOSE sum : sum = [n \in 0..Len(writes) |->
                     IF n = 0 THEN HeaderBytes ELSE sum[n-1] + writes[n]]
           count == CHOOSE sum : sum = [n \in 0..Len(writes) |->
                      IF n = 0 THEN 0 ELSE (sum[n-1] + writes[n]) % 2^SizeBits]
<1>1. M \in Nat \ {0} /\ len \in Nat /\ \A n \in 1..len : writes[n] \in Nat
  BY Powers, DeadlinesAssumption
<1>2. FileSize(writes) = size[len] /\ Counted(writes) = count[len]
  BY Zenon DEF FileSize, Counted
<1>3. size = [n \in 0..len |-> IF n = 0 THEN HeaderBytes ELSE size[n-1] + writes[n]]
  <2>1. HeaderBytes \in Nat
    BY DEF HeaderBytes
  <2>2. QED BY <2>1, RunningSum, Zenon
<1>4. count = [n \in 0..len |-> IF n = 0 THEN 0 ELSE (count[n-1] + writes[n]) % M]
  BY <1>1, RunningCount, Zenon
<1> HIDE DEF size, count, M, len
<1>6. /\ size[0] = HeaderBytes /\ count[0] = 0
      /\ \A n \in 1..len : /\ size[n] = size[n-1] + writes[n]
                           /\ count[n] = (count[n-1] + writes[n]) % M
  BY <1>1, <1>3, <1>4
<1> DEFINE Agrees(n) == /\ size[n] \in Nat /\ size[n] >= HeaderBytes
                        /\ count[n] = (size[n] - HeaderBytes) % M
           S == {n \in Nat : n <= len => Agrees(n)}
<1>7. 0 \in S
  <2>1. (HeaderBytes - HeaderBytes) % M = 0
    BY <1>1, Remainder DEF HeaderBytes
  <2>2. QED BY <1>6, <2>1 DEF HeaderBytes
<1>8. ASSUME NEW n \in Nat, n \in S, n + 1 <= len PROVE Agrees(n + 1)
  <2> DEFINE w == writes[n+1]
             bytes == size[n] - HeaderBytes
  <2>1. Agrees(n) /\ n + 1 \in 1..len
    BY <1>1, <1>8
  <2>2. size[n+1] = size[n] + w /\ count[n+1] = (count[n] + w) % M /\ w \in Nat
    BY <1>1, <1>6, <2>1
  <2>3. bytes \in Nat /\ count[n] = bytes % M
    BY <2>1 DEF HeaderBytes
  <2>4. size[n+1] - HeaderBytes = bytes + w
    BY <2>1, <2>2 DEF HeaderBytes
  <2> HIDE DEF bytes, w
  <2>5. (count[n] + w) % M = (bytes + w) % M
    <3>1. ((bytes % M) + w) % M = (bytes + w) % M
      BY <1>1, <2>2, <2>3, Remainder, Zenon
    <3>2. QED BY <2>3, <3>1
  <2>6. size[n+1] \in Nat /\ size[n+1] >= HeaderBytes
    BY <2>1, <2>2 DEF HeaderBytes
  <2>7. QED BY <2>2, <2>4, <2>5, <2>6
<1>9. \A n \in Nat : n \in S
  <2>1. \A n \in Nat : n \in S => n + 1 \in S
    BY <1>8
  <2> HIDE DEF S
  <2>2. QED BY <1>7, <2>1, AllNaturals
<1>10. Agrees(len)
  BY <1>1, <1>9
<1>11. QED BY <1>2, <1>10 DEF M

(* Whatever was written before a crash, the repaired header is the one     *)
(* Close would have written, and it is true to the file as long as the     *)
(* file's size fits the counter (wavWriter, repairWAV).                    *)
THEOREM RepairedLikeClosedAlways ==
  ASSUME probe.of = "wav" => probe.writes \in Seq(Nat)
  PROVE  RepairedLikeClosed
<1> SUFFICES ASSUME NEW writes \in Seq(Nat), writes = probe.writes,
                    NEW size, size = FileSize(writes)
             PROVE  /\ RepairedHeader(size) = ClosedHeader(writes)
                    /\ size - 8 < 2^SizeBits =>
                         RepairedHeader(size) = [data |-> size - HeaderBytes,
                                                 riff |-> size - 8]
  BY DEF RepairedLikeClosed
<1> DEFINE M == 2^SizeBits
<1>1. M \in Nat \ {0}
  BY Powers, DeadlinesAssumption
<1>2. /\ size \in Nat /\ size >= HeaderBytes
      /\ Counted(writes) = (size - HeaderBytes) % M
  BY CountedAndSize
<1> HIDE DEF M
<1>3. RepairedHeader(size) = WavHeader((size - HeaderBytes) % M)
  BY DEF RepairedHeader, M
<1>4. ClosedHeader(writes) = WavHeader(Counted(writes))
  BY DEF ClosedHeader
<1>5. ASSUME size - 8 < M
      PROVE  WavHeader((size - HeaderBytes) % M)
               = [data |-> size - HeaderBytes, riff |-> size - 8]
  <2>1. /\ size - HeaderBytes \in Nat /\ size - HeaderBytes < M
        /\ size - 8 \in Nat /\ 36 + (size - HeaderBytes) = size - 8
    BY <1>1, <1>2, <1>5 DEF HeaderBytes
  <2>2. (size - HeaderBytes) % M = size - HeaderBytes
    BY <1>1, <2>1, Remainder
  <2>3. (size - 8) % M = size - 8
    BY <1>1, <1>5, <2>1, Remainder, Zenon
  <2>4. QED BY <2>1, <2>2, <2>3 DEF WavHeader, M
<1>6. QED BY <1>2, <1>3, <1>4, <1>5 DEF M
-----------------------------------------------------------------------------
(* What fits a Duration is not wrapped.                                    *)
LEMMA WrappedFits ==
  ASSUME NEW x \in Nat, x < 2^(WordBits - 1)
  PROVE  Wrapped(x) = x
<1>1. WordBits - 1 \in Nat /\ (WordBits - 1) + 1 = WordBits
  BY DeadlinesAssumption
<1>2. 2^(WordBits - 1) <= 2^WordBits
  BY <1>1, PowersGrow
<1>3. 2^WordBits \in Nat \ {0} /\ 2^(WordBits - 1) \in Nat \ {0}
  BY <1>1, Powers
<1>4. x < 2^WordBits
  BY <1>2, <1>3
<1>5. x % 2^WordBits = x
  BY <1>3, <1>4, Remainder, Zenon
<1>6. QED BY <1>3, <1>5 DEF Wrapped

(* fail's wait, when both times fit a Duration.                            *)
LEMMA RetryDelayIs ==
  ASSUME NEW cfg, NEW n \in Nat \ {0},
         cfg.initialSecs \in Nat \ {0}, cfg.maxSecs \in Nat \ {0},
         Second * (cfg.initialSecs * 2^(n-1)) < 2^(WordBits - 1),
         Second * cfg.maxSecs < 2^(WordBits - 1)
  PROVE  /\ RetryDelay(cfg, n)
              = Second * SmallestOf({cfg.initialSecs * 2^(n-1), cfg.maxSecs})
         /\ RetryDelay(cfg, n) > 0
<1> DEFINE a == cfg.initialSecs
           p == 2^(n-1)
           m == cfg.maxSecs
           wait == a * p
<1>1. Second \in Nat \ {0} /\ p \in Nat \ {0} /\ a \in Nat \ {0} /\ m \in Nat \ {0}
  <2>1. n - 1 \in Nat
    OBVIOUS
  <2>2. QED BY <2>1, Powers, DeadlinesAssumption
<1>2. RetryDelay(cfg, n) = IF Wrapped(a * Second * p) > Wrapped(m * Second)
                             THEN Wrapped(m * Second) ELSE Wrapped(a * Second * p)
  BY DEF RetryDelay
<1>3. Second * wait < 2^(WordBits - 1) /\ Second * m < 2^(WordBits - 1)
  OBVIOUS
<1> HIDE DEF a, p, m
<1>4. wait \in Nat \ {0} /\ a * Second * p = Second * wait /\ m * Second = Second * m
  BY <1>1
<1> HIDE DEF wait
<1>5. /\ Second * wait \in Nat \ {0} /\ Second * m \in Nat \ {0}
      /\ Second * wait > Second * m <=> wait > m
  BY <1>1, <1>4
<1>6. Wrapped(Second * wait) = Second * wait /\ Wrapped(Second * m) = Second * m
  <2>1. Second * wait \in Nat /\ Second * m \in Nat
    BY <1>5
  <2>2. QED BY <1>3, <2>1, WrappedFits, Zenon
<1>7. RetryDelay(cfg, n) = IF wait > m THEN Second * m ELSE Second * wait
  BY <1>2, <1>4, <1>5, <1>6
<1>8. SmallestOf({wait, m}) = IF wait > m THEN m ELSE wait
  <2>1. {wait, m} \in SUBSET Nat /\ {wait, m} # {}
    BY <1>1, <1>4
  <2>2. /\ SmallestOf({wait, m}) \in {wait, m}
        /\ SmallestOf({wait, m}) <= wait /\ SmallestOf({wait, m}) <= m
    BY <2>1, SmallestIsLeast
  <2>3. QED BY <1>1, <1>4, <2>2
<1>9. /\ RetryDelay(cfg, n) = Second * SmallestOf({wait, m})
      /\ RetryDelay(cfg, n) > 0
  BY <1>5, <1>7, <1>8
<1>10. QED BY <1>9 DEF wait, a, p, m

(* A missing, zero or negative setting leaves a positive one.              *)
LEMMA LoadConfigPositive ==
  ASSUME NEW file \in [maxAttempts : Int, initialSecs : Int, maxSecs : Int]
  PROVE  LET cfg == LoadConfig(file) IN
         /\ cfg.maxAttempts \in Nat \ {0}
         /\ cfg.initialSecs \in Nat \ {0} /\ cfg.maxSecs \in Nat \ {0}
         /\ cfg.maxSecs = IF file.maxSecs <= 0 THEN 120 ELSE file.maxSecs
BY DEF LoadConfig, Positive

(* For every configuration file whose maximum fits a Duration: before each *)
(* attempt the wait has doubled, up to the maximum, and none is empty      *)
(* (LoadConfig, fail).                                                     *)
THEOREM BackoffDoublesForEveryFile ==
  ASSUME probe.of = "retry" =>
           /\ probe.file \in [maxAttempts : Int, initialSecs : Int, maxSecs : Int]
           /\ Second * probe.file.maxSecs < 2^(WordBits - 1)
  PROVE  BackoffDoubles
<1> SUFFICES ASSUME NEW file, file = probe.file,
                    file \in [maxAttempts : Int, initialSecs : Int, maxSecs : Int],
                    Second * file.maxSecs < 2^(WordBits - 1),
                    NEW cfg, cfg = LoadConfig(file),
                    NEW n \in 1..cfg.maxAttempts - 1,
                    Second * (cfg.initialSecs * 2^(n-1)) < 2^(WordBits - 1)
             PROVE  /\ RetryDelay(cfg, n)
                         = Second * SmallestOf({cfg.initialSecs * 2^(n-1), cfg.maxSecs})
                    /\ RetryDelay(cfg, n) > 0
  BY DEF BackoffDoubles
<1>1. /\ cfg.maxAttempts \in Nat \ {0}
      /\ cfg.initialSecs \in Nat \ {0} /\ cfg.maxSecs \in Nat \ {0}
      /\ cfg.maxSecs = IF file.maxSecs <= 0 THEN 120 ELSE file.maxSecs
  BY LoadConfigPositive
<1>2. Second * cfg.maxSecs < 2^(WordBits - 1)
  <2>1. CASE file.maxSecs <= 0
    <3>1. Second * 120 < 2^(WordBits - 1)
      BY LongestWaitFits, DeadlinesAssumption
    <3>2. QED BY <1>1, <2>1, <3>1
  <2>2. CASE ~(file.maxSecs <= 0)
    BY <1>1, <2>2
  <2>3. QED BY <2>1, <2>2
<1>3. n \in Nat \ {0}
  BY <1>1
<1>4. QED BY <1>1, <1>2, <1>3, RetryDelayIs
-----------------------------------------------------------------------------
(* R orders S strictly and totally; how many elements of S R puts before   *)
(* one of them; and their numbering.                                       *)
Orders(R, S) ==
  /\ \A x \in S : <<x, x>> \notin R
  /\ \A x, y, z \in S : <<x, y>> \in R /\ <<y, z>> \in R => <<x, z>> \in R
  /\ \A x, y \in S : x = y \/ <<x, y>> \in R \/ <<y, x>> \in R
Below(R, S, x) == {w \in S : <<w, x>> \in R}
Ranks(R, S) == [x \in S |-> Cardinality(Below(R, S, x)) + 1]

(* An order of a finite set numbers its elements.                          *)
LEMMA Ranked ==
  ASSUME NEW S, IsFiniteSet(S), NEW R, Orders(R, S)
  PROVE  Ranks(R, S) \in Bijection(S, 1..Cardinality(S))
<1> DEFINE N == Cardinality(S)
           rank == Ranks(R, S)
           below(x) == Below(R, S, x)
<1>1. N \in Nat
  BY FS_CardinalityType
<1>2. ASSUME NEW x \in S
      PROVE  IsFiniteSet(below(x)) /\ Cardinality(below(x)) \in 0..N-1
  <2>1. below(x) \in SUBSET S /\ below(x) # S
    BY DEF Orders, Below
  <2>2. /\ IsFiniteSet(below(x)) /\ Cardinality(below(x)) <= N
        /\ N = Cardinality(below(x)) => below(x) = S
    BY <2>1, FS_Subset, Zenon
  <2>3. Cardinality(below(x)) \in Nat
    BY <2>2, FS_CardinalityType
  <2>4. QED BY <1>1, <2>1, <2>2, <2>3
<1>3. ASSUME NEW x \in S, NEW y \in S, <<x, y>> \in R
      PROVE  Cardinality(below(x)) # Cardinality(below(y))
  <2>1. below(x) \in SUBSET below(y)
    BY <1>3 DEF Orders, Below
  <2>2. x \in below(y) /\ x \notin below(x)
    BY <1>3 DEF Orders, Below
  <2>3. Cardinality(below(y)) = Cardinality(below(x)) => below(x) = below(y)
    BY <1>2, <2>1, FS_Subset, Zenon
  <2>4. QED BY <2>2, <2>3
<1> HIDE DEF below
<1>4. rank = [x \in S |-> Cardinality(below(x)) + 1]
  BY DEF below, rank, Ranks
<1> HIDE DEF rank
<1>5. rank \in [S -> 1..N]
  BY <1>1, <1>2, <1>4
<1>6. ASSUME NEW x \in S, NEW y \in S, rank[x] = rank[y] PROVE x = y
  <2>1. /\ rank[x] = Cardinality(below(x)) + 1
        /\ rank[y] = Cardinality(below(y)) + 1
    BY <1>4
  <2>2. Cardinality(below(x)) \in Int /\ Cardinality(below(y)) \in Int
    BY <1>1, <1>2
  <2>3. Cardinality(below(x)) = Cardinality(below(y))
    <3>1. \A c, d \in Int : c + 1 = d + 1 => c = d
      OBVIOUS
    <3>2. QED BY <1>6, <2>1, <2>2, <3>1, Zenon
  <2>4. QED BY <1>3, <2>3 DEF Orders
<1>7. rank \in Injection(S, 1..N)
  BY <1>5, <1>6 DEF Injection, IsInjective
<1>8. IsFiniteSet(1..N) /\ Cardinality(1..N) = N
  BY <1>1, FS_Interval
<1>9. rank \in Surjection(S, 1..N)
  BY <1>7, <1>8, FS_Injection
<1>10. QED BY <1>7, <1>9 DEF Bijection, rank

(* Nth finds positions of the set.                                         *)
LEMMA NthIsThere ==
  ASSUME NEW S \in SUBSET Nat, IsFiniteSet(S), NEW n \in 1..Cardinality(S)
  PROVE  /\ Nth(S, n) \in S
         /\ Cardinality({w \in S : w < Nth(S, n)}) = n - 1
<1> DEFINE R == {p \in S \X S : p[1] < p[2]}
<1>1. \A x, y \in S : <<x, y>> \in R <=> x < y
  OBVIOUS
<1>2. \A x \in S : Below(R, S, x) = {w \in S : w < x}
  BY <1>1 DEF Below
<1> HIDE DEF R
<1>3. Ranks(R, S) \in Bijection(S, 1..Cardinality(S))
  <2>1. \A x \in S : <<x, x>> \notin R
    BY <1>1
  <2>2. ASSUME NEW x \in S, NEW y \in S, NEW z \in S, <<x, y>> \in R, <<y, z>> \in R
        PROVE  <<x, z>> \in R
    <3>1. x \in Nat /\ y \in Nat /\ z \in Nat /\ x < y /\ y < z
      BY <1>1, <2>2
    <3>2. x < z
      BY <3>1
    <3>3. QED BY <1>1, <3>2
  <2>3. ASSUME NEW x \in S, NEW y \in S
        PROVE  x = y \/ <<x, y>> \in R \/ <<y, x>> \in R
    <3>1. x \in Nat /\ y \in Nat
      OBVIOUS
    <3>2. x = y \/ x < y \/ y < x
      BY <3>1
    <3>3. QED BY <1>1, <3>2
  <2>4. Orders(R, S)
    BY <2>1, <2>2, <2>3, Zenon DEF Orders
  <2>5. QED BY <2>4, Ranked, Zenon
<1>4. PICK x \in S : Ranks(R, S)[x] = n
  BY <1>3 DEF Bijection, Surjection
<1>5. Cardinality({w \in S : w < x}) = n - 1
  <2>1. Cardinality({w \in S : w < x}) + 1 = n
    BY <1>2, <1>4 DEF Ranks
  <2>2. IsFiniteSet({w \in S : w < x})
    <3>1. {w \in S : w < x} \in SUBSET S
      OBVIOUS
    <3>2. QED BY <3>1, FS_Subset, Zenon
  <2>3. Cardinality({w \in S : w < x}) \in Nat
    BY <2>2, FS_CardinalityType
  <2>4. QED BY <2>1, <2>3
<1>6. QED BY <1>5, Zenon DEF Nth
-----------------------------------------------------------------------------
(* Less is a strict total order of texts.                                  *)
LEMMA LessIrreflexive ==
  ASSUME NEW a \in Seq(Nat) PROVE ~Less(a, a)
BY DEF Less

(* Less orders texts: it is transitive, *)
LEMMA LessTransitive ==
  ASSUME NEW a \in Seq(Nat), NEW b \in Seq(Nat), NEW c \in Seq(Nat),
         Less(a, b), Less(b, c)
  PROVE  Less(a, c)
<1>1. PICK j \in DOMAIN b : /\ \A i \in 1..j - 1 : i \in DOMAIN a /\ a[i] = b[i]
                            /\ j \notin DOMAIN a \/ a[j] < b[j]
  BY DEF Less
<1>2. PICK k \in DOMAIN c : /\ \A i \in 1..k - 1 : i \in DOMAIN b /\ b[i] = c[i]
                            /\ k \notin DOMAIN b \/ b[k] < c[k]
  BY DEF Less
<1>3. /\ DOMAIN a = 1..Len(a) /\ DOMAIN b = 1..Len(b) /\ DOMAIN c = 1..Len(c)
      /\ Len(a) \in Nat /\ Len(b) \in Nat /\ Len(c) \in Nat
      /\ \A i \in DOMAIN a : a[i] \in Nat
      /\ \A i \in DOMAIN b : b[i] \in Nat
      /\ \A i \in DOMAIN c : c[i] \in Nat
  OBVIOUS
<1>4. CASE j < k
  <2>1. j \in 1..k - 1 /\ j \in DOMAIN c
    BY <1>1, <1>2, <1>3, <1>4
  <2>2. \A i \in 1..j - 1 : i \in DOMAIN a /\ a[i] = c[i]
    BY <1>1, <1>2, <1>3, <1>4
  <2>3. j \notin DOMAIN a \/ a[j] < c[j]
    BY <1>1, <1>2, <2>1
  <2>4. j \in DOMAIN c
    BY <2>1
  <2>5. QED BY <2>2, <2>3, <2>4, Zenon DEF Less
<1>5. CASE ~(j < k)
  <2>1. k \in DOMAIN b
    BY <1>1, <1>2, <1>3, <1>5
  <2>2. \A i \in 1..k - 1 : i \in DOMAIN a /\ a[i] = c[i]
    BY <1>1, <1>2, <1>3, <1>5
  <2>3. CASE k = j
    <3>1. k \notin DOMAIN a \/ a[k] < b[k]
      BY <1>1, <2>3
    <3>2. k \notin DOMAIN a \/ a[k] < c[k]
      BY <1>2, <1>3, <2>1, <3>1
    <3>3. QED BY <2>2, <3>2, Zenon DEF Less
  <2>4. CASE k # j
    <3>1. k \in 1..j - 1
      BY <1>1, <1>2, <1>3, <1>5, <2>4
    <3>2. k \notin DOMAIN a \/ a[k] < c[k]
      BY <1>1, <1>2, <2>1, <3>1
    <3>3. QED BY <2>2, <3>2, Zenon DEF Less
  <2>5. QED BY <2>3, <2>4
<1>6. QED BY <1>4, <1>5

(* and of two different texts one is less. *)
LEMMA LessTotal ==
  ASSUME NEW a \in Seq(Nat), NEW b \in Seq(Nat), a # b
  PROVE  Less(a, b) \/ Less(b, a)
<1> DEFINE D == {k \in Nat : /\ k \in DOMAIN a \cup DOMAIN b
                             /\ k \in DOMAIN a \cap DOMAIN b => a[k] # b[k]}
           k == SmallestOf(D)
<1>1. /\ DOMAIN a = 1..Len(a) /\ DOMAIN b = 1..Len(b)
      /\ Len(a) \in Nat /\ Len(b) \in Nat
      /\ \A i \in DOMAIN a : a[i] \in Nat
      /\ \A i \in DOMAIN b : b[i] \in Nat
  OBVIOUS
<1>2. D # {}
  <2> SUFFICES ASSUME D = {} PROVE FALSE
    OBVIOUS
  <2>1. \A i \in Nat : i \in DOMAIN a \cup DOMAIN b =>
          i \in DOMAIN a \cap DOMAIN b /\ a[i] = b[i]
    OBVIOUS
  <2>2. DOMAIN a \subseteq DOMAIN b /\ DOMAIN b \subseteq DOMAIN a
    <3>1. DOMAIN a \subseteq Nat /\ DOMAIN b \subseteq Nat
      BY <1>1
    <3>2. QED BY <2>1, <3>1, Zenon
  <2>3. Len(a) = Len(b)
    <3>1. 1..Len(a) = 1..Len(b)
      BY <1>1, <2>2, Zenon
    <3>2. \A m, n \in Nat : 1..m = 1..n => m = n
      <4> SUFFICES ASSUME NEW m \in Nat, NEW n \in Nat, 1..m = 1..n PROVE m = n
        OBVIOUS
      <4>1. (m = 0 \/ m \in 1..n) /\ (n = 0 \/ n \in 1..m)
        BY 1..m = 1..n
      <4>2. QED BY <4>1
    <3>3. QED BY <1>1, <3>1, <3>2
  <2>4. \A i \in 1..Len(a) : a[i] = b[i]
    BY <1>1, <2>1
  <2>5. QED BY <2>3, <2>4, SeqEqual
<1>3. k \in D /\ \A i \in D : k <= i
  BY <1>2, SmallestIsLeast
<1> HIDE DEF k
<1>4. /\ k \in Nat /\ k \in DOMAIN a \cup DOMAIN b
      /\ k \in DOMAIN a \cap DOMAIN b => a[k] # b[k]
  BY <1>3
<1>5. \A i \in 1..k - 1 : i \in DOMAIN a /\ i \in DOMAIN b /\ a[i] = b[i]
  <2> SUFFICES ASSUME NEW i \in 1..k - 1
               PROVE  i \in DOMAIN a /\ i \in DOMAIN b /\ a[i] = b[i]
    OBVIOUS
  <2>1. i \in Nat /\ i \in DOMAIN a \cup DOMAIN b /\ ~(k <= i)
    BY <1>1, <1>4
  <2>2. i \notin D
    BY <1>3, <2>1
  <2>3. QED BY <2>1, <2>2
<1>6. CASE k \in DOMAIN b /\ (k \notin DOMAIN a \/ a[k] < b[k])
  BY <1>5, <1>6 DEF Less
<1>7. CASE k \in DOMAIN a /\ (k \notin DOMAIN b \/ b[k] < a[k])
  BY <1>5, <1>7 DEF Less
<1>8. QED BY <1>1, <1>4, <1>6, <1>7
-----------------------------------------------------------------------------
(* A sequence, whatever its elements are.                                  *)
IsSeq(s) == s \in Seq({s[i] : i \in DOMAIN s})

(* A sequence over any set is one. *)
LEMMA SeqIs ==
  ASSUME NEW S, NEW s \in Seq(S) PROVE IsSeq(s)
<1> DEFINE T == {s[i] : i \in DOMAIN s}
<1>1. Len(s) \in Nat /\ s \in [1..Len(s) -> S]
  BY LenProperties
<1>2. s \in [1..Len(s) -> T]
  BY <1>1
<1> HIDE DEF T
<1>3. s \in Seq(T)
  BY <1>1, <1>2, SeqDef
<1>4. QED BY <1>3 DEF IsSeq, T

(* A function on 1..n is a sequence of length n. *)
LEMMA FunctionIs ==
  ASSUME NEW n \in Nat, NEW s, s = [i \in 1..n |-> s[i]]
  PROVE  IsSeq(s) /\ Len(s) = n /\ DOMAIN s = 1..n
<1> DEFINE T == {s[i] : i \in DOMAIN s}
<1>1. s \in [1..n -> T]
  OBVIOUS
<1> HIDE DEF T
<1>2. s \in Seq(T)
  BY <1>1, SeqDef
<1>3. DOMAIN s = 1..n
  OBVIOUS
<1>4. Len(s) = n
  BY <1>2, <1>3
<1>5. QED BY <1>2, <1>3, <1>4 DEF IsSeq, T

(* What a sequence is made of. *)
LEMMA SeqHas ==
  ASSUME NEW s, IsSeq(s)
  PROVE  /\ Len(s) \in Nat /\ DOMAIN s = 1..Len(s)
         /\ s = [i \in 1..Len(s) |-> s[i]]
<1> DEFINE T == {s[i] : i \in DOMAIN s}
<1>1. s \in Seq(T)
  BY DEF IsSeq
<1> HIDE DEF T
<1>2. QED BY <1>1, LenProperties

(* What Append leaves: the old elements and the new one. *)
LEMMA AppendIs ==
  ASSUME NEW s, IsSeq(s), NEW e
  PROVE  /\ IsSeq(Append(s, e)) /\ DOMAIN Append(s, e) = 1..Len(s) + 1
         /\ \A i \in 1..Len(s) : Append(s, e)[i] = s[i]
         /\ Append(s, e)[Len(s) + 1] = e
<1> DEFINE T == {s[i] : i \in DOMAIN s} \cup {e}
<1>1. s \in Seq(T)
  <2>1. {s[i] : i \in DOMAIN s} \subseteq T
    OBVIOUS
  <2>2. QED BY <2>1, SeqMonotonic DEF IsSeq
<1>2. e \in T
  OBVIOUS
<1> HIDE DEF T
<1>3. /\ Append(s, e) \in Seq(T) /\ Len(Append(s, e)) = Len(s) + 1
      /\ \A i \in 1..Len(s) : Append(s, e)[i] = s[i]
      /\ Append(s, e)[Len(s) + 1] = e
  BY <1>1, <1>2
<1>4. QED BY <1>3, SeqIs, LenProperties

(* What RemoveAt leaves: the elements after n move down by one. *)
LEMMA RemoveIs ==
  ASSUME NEW s, IsSeq(s), NEW n \in DOMAIN s
  PROVE  /\ IsSeq(RemoveAt(s, n)) /\ DOMAIN RemoveAt(s, n) = 1..Len(s) - 1
         /\ \A i \in 1..Len(s) - 1 :
              RemoveAt(s, n)[i] = IF i < n THEN s[i] ELSE s[i + 1]
<1> DEFINE T == {s[i] : i \in DOMAIN s}
           a == SubSeq(s, 1, n - 1)
           b == SubSeq(s, n + 1, Len(s))
<1>1. /\ Len(s) \in Nat /\ DOMAIN s = 1..Len(s) /\ n \in 1..Len(s)
      /\ \A i \in 1..Len(s) : s[i] \in T
  BY SeqHas
<1> HIDE DEF T
<1>2. /\ a \in Seq(T) /\ Len(a) = n - 1
      /\ \A i \in 1..n - 1 : a[i] = s[i]
  <2>1. \A i \in 1..n - 1 : s[i] \in T
    BY <1>1
  <2>2. /\ a \in Seq(T) /\ Len(a) = IF 1 <= n - 1 THEN (n - 1) - 1 + 1 ELSE 0
        /\ \A i \in 1..(n - 1) - 1 + 1 : a[i] = s[1 + i - 1]
    BY <1>1, <2>1, SubSeqProperties
  <2> HIDE DEF a
  <2>3. QED BY <1>1, <2>2
<1>3. /\ b \in Seq(T) /\ Len(b) = Len(s) - n
      /\ \A i \in 1..Len(s) - n : b[i] = s[n + i]
  <2>1. \A i \in n + 1..Len(s) : s[i] \in T
    BY <1>1
  <2>2. /\ b \in Seq(T)
        /\ Len(b) = IF n + 1 <= Len(s) THEN Len(s) - (n + 1) + 1 ELSE 0
        /\ \A i \in 1..Len(s) - (n + 1) + 1 : b[i] = s[(n + 1) + i - 1]
    BY <1>1, <2>1, SubSeqProperties
  <2> HIDE DEF b
  <2>3. Len(b) = Len(s) - n /\ Len(s) - (n + 1) + 1 = Len(s) - n
    BY <1>1, <2>2
  <2>4. ASSUME NEW i \in 1..Len(s) - n PROVE b[i] = s[n + i]
    <3>1. (n + 1) + i - 1 = n + i
      BY <1>1
    <3>2. i \in 1..Len(s) - (n + 1) + 1
      BY <2>3
    <3>3. QED BY <2>2, <3>1, <3>2
  <2>5. QED BY <2>2, <2>3, <2>4
<1> HIDE DEF a, b
<1>4. RemoveAt(s, n) = a \o b
  BY DEF RemoveAt, a, b
<1>5. /\ a \o b \in Seq(T) /\ Len(a \o b) = Len(a) + Len(b)
      /\ \A i \in 1..Len(a) + Len(b) :
           (a \o b)[i] = IF i <= Len(a) THEN a[i] ELSE b[i - Len(a)]
  BY <1>2, <1>3, ConcatProperties
<1>6. IsSeq(a \o b) /\ DOMAIN (a \o b) = 1..Len(s) - 1
  <2>1. Len(a) + Len(b) = Len(s) - 1
    BY <1>1, <1>2, <1>3
  <2>2. QED BY <1>5, <2>1, SeqIs, LenProperties
<1>7. ASSUME NEW i \in 1..Len(s) - 1
      PROVE  (a \o b)[i] = IF i < n THEN s[i] ELSE s[i + 1]
  <2>1. i \in 1..Len(a) + Len(b)
    BY <1>1, <1>2, <1>3
  <2>2. (a \o b)[i] = IF i <= Len(a) THEN a[i] ELSE b[i - Len(a)]
    BY <1>5, <2>1
  <2>3. CASE i < n
    <3>1. i \in 1..n - 1 /\ i <= Len(a)
      BY <1>1, <1>2, <2>3
    <3>2. QED BY <1>2, <2>2, <2>3, <3>1
  <2>4. CASE ~(i < n)
    <3>1. i - (n - 1) \in 1..Len(s) - n /\ ~(i <= Len(a))
      BY <1>1, <1>2, <2>4
    <3>2. b[i - (n - 1)] = s[n + (i - (n - 1))] /\ n + (i - (n - 1)) = i + 1
      BY <1>1, <1>3, <3>1
    <3>3. QED BY <1>2, <2>2, <2>4, <3>1, <3>2
  <2>5. QED BY <2>3, <2>4
<1>8. QED BY <1>4, <1>6, <1>7
-----------------------------------------------------------------------------
(* An entry is a record of a text and a sequence of aliases.               *)
IsEntry(e) == /\ e = [canonical |-> e.canonical, aliases |-> e.aliases]
              /\ e.canonical \in Seq(Nat)
              /\ IsSeq(e.aliases)
              /\ \A i \in DOMAIN e.aliases : e.aliases[i] \in Seq(Nat) \ {<<>>}
IsList(list) == IsSeq(list) /\ \A n \in DOMAIN list : IsEntry(list[n])

OwnAliases(e) ==
  /\ \A i \in DOMAIN e.aliases : ~SameTerm(e.aliases[i], e.canonical)
  /\ \A i, k \in DOMAIN e.aliases : SameTerm(e.aliases[i], e.aliases[k]) => i = k
Distinct(list) ==
  /\ \A m, n \in DOMAIN list :
       SameTerm(list[m].canonical, list[n].canonical) => m = n
  /\ \A n \in DOMAIN list : OwnAliases(list[n])

(* strings.ToLower of a text is a text. *)
LEMMA FoldIsText ==
  ASSUME NEW t \in Seq(Nat) PROVE Fold(t) \in Seq(Nat)
<1>1. Len(t) \in Nat /\ DOMAIN t = 1..Len(t) /\ \A i \in 1..Len(t) : t[i] \in Nat
  OBVIOUS
<1>2. Fold(t) \in [1..Len(t) -> Nat]
  BY <1>1 DEF Fold, Cap
<1>3. QED BY <1>1, <1>2, SeqDef

(* List sorts: it is a renumbering of the entries.                         *)
LEMMA ListingRenumbers ==
  ASSUME NEW list, IsList(list)
  PROVE  \E p \in Injection(DOMAIN list, DOMAIN list) :
           Listing(list) = [n \in DOMAIN list |-> list[p[n]]]
<1> DEFINE D == DOMAIN list
           f(n) == Fold(list[n].canonical)
           earlier(m, n) == \/ Less(f(m), f(n))
                            \/ ~Less(f(n), f(m)) /\ m < n
           R == {q \in D \X D : earlier(q[1], q[2])}
           rank == Ranks(R, D)
           p == [n \in D |-> CHOOSE m \in D : rank[m] = n]
<1>1. Len(list) \in Nat /\ D = 1..Len(list)
  BY SeqHas DEF IsList
<1>2. \A n \in D : f(n) \in Seq(Nat)
  BY FoldIsText DEF IsList, IsEntry
<1> HIDE DEF f, D
<1>3. \A m, n \in D : <<m, n>> \in R <=> earlier(m, n)
  OBVIOUS
<1> HIDE DEF R
<1>4. Orders(R, D)
  <2>1. ASSUME NEW m \in D PROVE ~earlier(m, m)
    <3>1. ~(m < m)
      BY <1>1
    <3>2. QED BY <1>2, <3>1, LessIrreflexive
  <2>2. ASSUME NEW m \in D, NEW n \in D PROVE m = n \/ earlier(m, n) \/ earlier(n, m)
    <3>1. m = n \/ m < n \/ n < m
      BY <1>1
    <3>2. QED BY <3>1
  <2>3. ASSUME NEW l \in D, NEW m \in D, NEW n \in D, earlier(l, m), earlier(m, n)
        PROVE  earlier(l, n)
    <3>1. f(l) \in Seq(Nat) /\ f(m) \in Seq(Nat) /\ f(n) \in Seq(Nat)
      BY <1>2
    <3>2. CASE f(l) = f(m) /\ f(m) = f(n)
      <4>1. l < m /\ m < n
        BY <2>3, <3>1, <3>2, LessIrreflexive
      <4>2. l < n
        BY <1>1, <4>1
      <4>3. QED BY <3>1, <3>2, <4>2, LessIrreflexive
    <3>3. CASE f(l) = f(m) /\ f(m) # f(n)
      <4>1. Less(f(m), f(n))
        BY <2>3, <3>1, <3>3, LessTotal
      <4>2. QED BY <3>3, <4>1
    <3>4. CASE f(l) # f(m)
      <4>1. Less(f(l), f(m))
        BY <2>3, <3>1, <3>4, LessTotal
      <4>2. f(m) = f(n) \/ Less(f(m), f(n))
        BY <2>3, <3>1, LessTotal
      <4>3. Less(f(l), f(n))
        BY <3>1, <4>1, <4>2, LessTransitive
      <4>4. QED BY <4>3
    <3>5. QED BY <3>2, <3>3, <3>4
  <2> HIDE DEF earlier
  <2>4. QED BY <1>3, <2>1, <2>2, <2>3 DEF Orders
<1>5. IsFiniteSet(D) /\ Cardinality(D) = Len(list)
  BY <1>1, FS_Interval
<1>6. rank \in Bijection(D, D)
  BY <1>1, <1>4, <1>5, Ranked
<1>7. \A n \in D : p[n] \in D /\ rank[p[n]] = n
  BY <1>6 DEF Bijection, Surjection
<1>8. p \in Injection(D, D)
  BY <1>7 DEF Injection, IsInjective
<1>9. Listing(list) = [n \in D |-> list[p[n]]]
  <2> DEFINE places == [m \in D |-> Cardinality({k \in D : earlier(k, m)}) + 1]
  <2>1. Listing(list) = [n \in D |-> list[CHOOSE m \in D : places[m] = n]]
    BY Zenon DEF Listing, Stably, f, D
  <2>2. places = rank
    <3>1. \A m \in D : {k \in D : earlier(k, m)} = Below(R, D, m)
      BY <1>3 DEF Below
    <3>2. QED BY <3>1 DEF Ranks
  <2> HIDE DEF rank, places
  <2>3. Listing(list) = [n \in D |-> list[CHOOSE m \in D : rank[m] = n]]
    BY <2>1, <2>2
  <2>4. \A n \in D : p[n] = CHOOSE m \in D : rank[m] = n
    OBVIOUS
  <2> HIDE DEF p
  <2>5. QED BY <2>3, <2>4
<1>10. QED BY <1>8, <1>9 DEF D

(* List loses no entry and doubles none. *)
LEMMA ListingKeeps ==
  ASSUME NEW list, IsList(list), Distinct(list)
  PROVE  IsList(Listing(list)) /\ Distinct(Listing(list))
<1> DEFINE L == Listing(list)
<1>1. PICK p \in Injection(DOMAIN list, DOMAIN list) : L = [n \in DOMAIN list |-> list[p[n]]]
  BY ListingRenumbers
<1>2. /\ p \in [DOMAIN list -> DOMAIN list]
      /\ \A m, n \in DOMAIN list : p[m] = p[n] => m = n
  BY DEF Injection, IsInjective
<1>3. Len(list) \in Nat /\ DOMAIN list = 1..Len(list)
  BY SeqHas DEF IsList
<1> HIDE DEF L
<1>4. DOMAIN L = DOMAIN list /\ \A n \in DOMAIN L : L[n] = list[p[n]] /\ p[n] \in DOMAIN list
  BY <1>1, <1>2
<1>5. IsSeq(L)
  <2>1. L = [n \in 1..Len(list) |-> L[n]]
    BY <1>1, <1>3
  <2>2. QED BY <1>3, <2>1, FunctionIs
<1>6. \A n \in DOMAIN L : IsEntry(L[n]) /\ OwnAliases(L[n])
  BY <1>4 DEF IsList, Distinct
<1>7. \A m, n \in DOMAIN L : SameTerm(L[m].canonical, L[n].canonical) => m = n
  <2>1. \A m, n \in DOMAIN list :
          SameTerm(list[m].canonical, list[n].canonical) => m = n
    BY DEF Distinct
  <2>2. QED BY <1>2, <1>4, <2>1
<1>8. QED BY <1>5, <1>6, <1>7 DEF IsList, Distinct, L

(* addCanonical keeps one entry per spelling and one alias per spelling.   *)
LEMMA AddAliasKeeps ==
  ASSUME NEW list, IsList(list), Distinct(list), NEW c \in Seq(Nat),
         NEW alias \in Seq(Nat)
  PROVE  IsList(AddAlias(list, c, alias)) /\ Distinct(AddAlias(list, c, alias))
<1> DEFINE known == {n \in DOMAIN list : SameTerm(list[n].canonical, c)}
           proper == IF alias = <<>> \/ SameTerm(alias, c) THEN <<>> ELSE <<alias>>
           n == SmallestOf(known)
           taken == \E m \in DOMAIN list[n].aliases :
                      SameTerm(list[n].aliases[m], alias)
           fresh == [canonical |-> c, aliases |-> proper]
           longer == [list EXCEPT ![n].aliases = Append(@, alias)]
<1>1. Len(list) \in Nat /\ DOMAIN list = 1..Len(list)
  BY SeqHas DEF IsList
<1>2. AddAlias(list, c, alias) =
        IF known = {} THEN Append(list, fresh)
        ELSE IF proper = <<>> \/ taken THEN list ELSE longer
  BY Zenon DEF AddAlias
<1>3. CASE known = {}
  <2>1. IsEntry(fresh) /\ OwnAliases(fresh)
    <3>1. IsSeq(proper)
      <4>1. <<>> \in Seq({}) /\ <<alias>> \in Seq({alias})
        OBVIOUS
      <4>2. IsSeq(<<>>) /\ IsSeq(<<alias>>)
        BY <4>1, SeqIs, Zenon
      <4>3. QED BY <4>2
    <3>2. \A i \in DOMAIN proper : /\ ~SameTerm(proper[i], c)
                                   /\ proper[i] \in Seq(Nat) \ {<<>>}
      OBVIOUS
    <3>3. \A i, k \in DOMAIN proper : i = k
      OBVIOUS
    <3> HIDE DEF proper
    <3>4. fresh.canonical = c /\ fresh.aliases = proper
      OBVIOUS
    <3>5. fresh = [canonical |-> fresh.canonical, aliases |-> fresh.aliases]
      OBVIOUS
    <3> HIDE DEF fresh
    <3>6. IsEntry(fresh)
      BY <3>1, <3>2, <3>4, <3>5 DEF IsEntry
    <3>7. OwnAliases(fresh)
      BY <3>2, <3>3, <3>4 DEF OwnAliases
    <3>8. QED BY <3>6, <3>7
  <2>2. \A m \in DOMAIN list : ~SameTerm(list[m].canonical, c)
    BY <1>3
  <2> DEFINE more == Append(list, fresh)
  <2> HIDE DEF fresh
  <2>3. /\ IsSeq(more) /\ DOMAIN more = 1..Len(list) + 1
        /\ \A m \in 1..Len(list) : more[m] = list[m]
        /\ more[Len(list) + 1] = fresh
    BY AppendIs DEF IsList
  <2> HIDE DEF more
  <2>4. \A m \in DOMAIN more : m \in DOMAIN list \/ m = Len(list) + 1
    BY <1>1, <2>3
  <2>5. \A m \in DOMAIN more : IsEntry(more[m]) /\ OwnAliases(more[m])
    BY <1>1, <2>1, <2>3, <2>4 DEF IsList, Distinct
  <2>6. ASSUME NEW l \in DOMAIN more, NEW m \in DOMAIN more,
               SameTerm(more[l].canonical, more[m].canonical)
        PROVE  l = m
    <3>1. fresh.canonical = c
      BY DEF fresh
    <3>2. CASE l \in DOMAIN list /\ m \in DOMAIN list
      BY <1>1, <2>3, <2>6, <3>2 DEF Distinct
    <3>3. CASE l \in DOMAIN list /\ m = Len(list) + 1
      BY <1>1, <2>2, <2>3, <2>6, <3>1, <3>3
    <3>4. CASE l = Len(list) + 1 /\ m \in DOMAIN list
      <4>1. SameTerm(c, list[m].canonical)
        BY <1>1, <2>3, <2>6, <3>1, <3>4
      <4>2. QED BY <2>2, <3>4, <4>1 DEF SameTerm
    <3>5. QED BY <2>4, <3>2, <3>3, <3>4
  <2>7. AddAlias(list, c, alias) = more
    BY <1>2, <1>3 DEF more
  <2>8. QED BY <2>3, <2>5, <2>6, <2>7 DEF IsList, Distinct
<1>4. CASE known # {} /\ (proper = <<>> \/ taken)
  BY <1>2, <1>4
<1>5. CASE known # {} /\ ~(proper = <<>> \/ taken)
  <2>1. n \in DOMAIN list /\ SameTerm(list[n].canonical, c)
    <3>1. known \in SUBSET Nat
      BY <1>1
    <3>2. n \in known
      BY <1>5, <3>1, SmallestIsLeast
    <3>3. QED BY <3>2
  <2>2. ~SameTerm(alias, c) /\ alias # <<>>
    BY <1>5
  <2>3. \A m \in DOMAIN list[n].aliases : ~SameTerm(list[n].aliases[m], alias)
    BY <1>5
  <2> HIDE DEF n
  <2> DEFINE e == list[n]
             more == Append(e.aliases, alias)
             d == [canonical |-> e.canonical, aliases |-> more]
  <2>4. IsEntry(e) /\ OwnAliases(e)
    BY <2>1 DEF IsList, Distinct
  <2>5. longer = [list EXCEPT ![n] = d]
    <3>1. longer = [list EXCEPT ![n] = [e EXCEPT !.aliases = more]]
      OBVIOUS
    <3> HIDE DEF e, more
    <3>2. e = [canonical |-> e.canonical, aliases |-> e.aliases]
      BY <2>4 DEF IsEntry
    <3>3. [e EXCEPT !.aliases = more] = d
      BY <3>2
    <3> HIDE DEF longer, d
    <3>4. QED BY <3>1, <3>3
  <2>6. Len(e.aliases) \in Nat /\ DOMAIN e.aliases = 1..Len(e.aliases)
    BY <2>4, SeqHas DEF IsEntry
  <2>7. /\ IsSeq(more) /\ DOMAIN more = 1..Len(e.aliases) + 1
        /\ \A i \in 1..Len(e.aliases) : more[i] = e.aliases[i]
        /\ more[Len(e.aliases) + 1] = alias
    BY <2>4, AppendIs DEF IsEntry
  <2>8. ~SameTerm(alias, e.canonical)
    BY <2>1, <2>2 DEF SameTerm
  <2>9. \A i \in DOMAIN e.aliases : ~SameTerm(e.aliases[i], alias) /\ ~SameTerm(alias, e.aliases[i])
    BY <2>3 DEF SameTerm
  <2> HIDE DEF e, more
  <2>10. \A i \in DOMAIN more : i \in DOMAIN e.aliases \/ i = Len(e.aliases) + 1
    BY <2>6, <2>7
  <2>11. /\ \A i \in DOMAIN more : /\ ~SameTerm(more[i], e.canonical)
                                    /\ more[i] \in Seq(Nat) \ {<<>>}
         /\ \A i, k \in DOMAIN more : SameTerm(more[i], more[k]) => i = k
    BY <2>2, <2>4, <2>6, <2>7, <2>8, <2>9, <2>10 DEF OwnAliases, IsEntry
  <2>12. d.canonical = e.canonical /\ d.aliases = more
    OBVIOUS
  <2>13. IsEntry(d) /\ OwnAliases(d)
    BY <2>4, <2>7, <2>11, <2>12 DEF IsEntry, OwnAliases
  <2> HIDE DEF d
  <2>14. list = [m \in 1..Len(list) |-> list[m]]
    BY SeqHas DEF IsList
  <2>15. /\ DOMAIN longer = DOMAIN list
         /\ \A m \in DOMAIN list : longer[m] = IF m = n THEN d ELSE list[m]
         /\ longer = [m \in 1..Len(list) |-> longer[m]]
    <3> HIDE DEF longer
    <3>1. DOMAIN longer = DOMAIN list
      BY <2>5
    <3>2. \A m \in DOMAIN list : longer[m] = IF m = n THEN d ELSE list[m]
      BY <2>5
    <3>3. longer = [m \in 1..Len(list) |-> longer[m]]
      BY <1>1, <2>5
    <3>4. QED BY <3>1, <3>2, <3>3
  <2> HIDE DEF longer
  <2>16. IsSeq(longer)
    BY <1>1, <2>15, FunctionIs
  <2>17. \A m \in DOMAIN longer : IsEntry(longer[m]) /\ OwnAliases(longer[m])
    BY <2>13, <2>15 DEF IsList, Distinct
  <2>18. \A m \in DOMAIN longer : longer[m].canonical = list[m].canonical
    BY <2>12, <2>15 DEF e
  <2>19. \A l, m \in DOMAIN longer :
           SameTerm(longer[l].canonical, longer[m].canonical) => l = m
    BY <2>15, <2>18 DEF Distinct
  <2>20. AddAlias(list, c, alias) = longer
    BY <1>2, <1>5
  <2>21. QED BY <2>16, <2>17, <2>19, <2>20 DEF IsList, Distinct
<1>6. QED BY <1>3, <1>4, <1>5

(* Deleting an entry leaves the others distinct. *)
LEMMA RemoveKeeps ==
  ASSUME NEW list, IsList(list), Distinct(list), NEW n \in DOMAIN list
  PROVE  IsList(RemoveAt(list, n)) /\ Distinct(RemoveAt(list, n))
<1> DEFINE rest == RemoveAt(list, n)
           p(i) == IF i < n THEN i ELSE i + 1
<1>1. Len(list) \in Nat /\ DOMAIN list = 1..Len(list)
  BY SeqHas DEF IsList
<1>2. /\ IsSeq(rest) /\ DOMAIN rest = 1..Len(list) - 1
      /\ \A i \in 1..Len(list) - 1 : rest[i] = IF i < n THEN list[i] ELSE list[i + 1]
  BY RemoveIs DEF IsList
<1> HIDE DEF rest
<1>3. /\ \A i \in DOMAIN rest : p(i) \in DOMAIN list /\ rest[i] = list[p(i)]
      /\ \A i, k \in DOMAIN rest : p(i) = p(k) => i = k
  BY <1>1, <1>2
<1> HIDE DEF p
<1>4. \A i \in DOMAIN rest : IsEntry(rest[i]) /\ OwnAliases(rest[i])
  BY <1>3 DEF IsList, Distinct
<1>5. \A i, k \in DOMAIN rest : SameTerm(rest[i].canonical, rest[k].canonical) => i = k
  BY <1>3 DEF Distinct
<1>6. QED BY <1>2, <1>4, <1>5 DEF IsList, Distinct, rest

(* What Distinct says of each entry's spelling and aliases, of all of them. *)
LEMMA DistinctIsUnique ==
  ASSUME IsList(entries), Distinct(entries) PROVE UniqueEntries
<1>1. \A m, n \in DOMAIN entries :
        SameTerm(entries[m].canonical, entries[n].canonical) => m = n
  BY DEF Distinct
<1>2. ASSUME NEW n \in DOMAIN entries,
             NEW all, all = <<entries[n].canonical>> \o entries[n].aliases,
             NEW i \in DOMAIN all, NEW k \in DOMAIN all, SameTerm(all[i], all[k])
      PROVE  i = k
  <2> DEFINE e == entries[n]
             T == {e.canonical} \cup {e.aliases[l] : l \in DOMAIN e.aliases}
  <2>1. IsEntry(e) /\ OwnAliases(e)
    BY DEF IsList, Distinct
  <2>2. e.aliases \in Seq(T) /\ <<e.canonical>> \in Seq(T) /\ Len(<<e.canonical>>) = 1
    <3>1. {e.aliases[l] : l \in DOMAIN e.aliases} \subseteq T
      OBVIOUS
    <3>2. e.aliases \in Seq(T)
      BY <2>1, <3>1, SeqMonotonic DEF IsEntry, IsSeq
    <3>3. QED BY <3>2
  <2>3. Len(e.aliases) \in Nat /\ DOMAIN e.aliases = 1..Len(e.aliases)
    BY <2>1, SeqHas DEF IsEntry
  <2>4. <<e.canonical>>[1] = e.canonical
    OBVIOUS
  <2> HIDE DEF e, T
  <2>5. all = <<e.canonical>> \o e.aliases
    BY <1>2 DEF e
  <2>6. /\ all \in Seq(T) /\ Len(all) = 1 + Len(e.aliases)
        /\ \A l \in 1..1 + Len(e.aliases) :
             all[l] = IF l <= 1 THEN <<e.canonical>>[l] ELSE e.aliases[l - 1]
    BY <2>2, <2>5, ConcatProperties
  <2>7. DOMAIN all = 1..1 + Len(e.aliases)
    BY <2>6, LenProperties
  <2>8. \A l \in DOMAIN all :
          \/ l = 1 /\ all[l] = e.canonical
          \/ l - 1 \in DOMAIN e.aliases /\ all[l] = e.aliases[l - 1]
    BY <2>3, <2>4, <2>6, <2>7
  <2>9. CASE i = 1 /\ k = 1
    BY <2>9
  <2>10. CASE i = 1 /\ k # 1
    <3>1. all[i] = e.canonical
      BY <2>3, <2>8, <2>10
    <3>2. all[k] = e.aliases[k - 1] /\ k - 1 \in DOMAIN e.aliases
      BY <2>8, <2>10
    <3>3. SameTerm(e.canonical, e.aliases[k - 1])
      BY <1>2, <3>1, <3>2
    <3>4. QED BY <2>1, <3>2, <3>3 DEF OwnAliases, SameTerm
  <2>11. CASE i # 1 /\ k = 1
    <3>1. SameTerm(e.aliases[i - 1], e.canonical) /\ i - 1 \in DOMAIN e.aliases
      BY <1>2, <2>3, <2>8, <2>11
    <3>2. QED BY <2>1, <3>1 DEF OwnAliases
  <2>12. CASE i # 1 /\ k # 1
    <3>1. /\ SameTerm(e.aliases[i - 1], e.aliases[k - 1])
          /\ i - 1 \in DOMAIN e.aliases /\ k - 1 \in DOMAIN e.aliases
      BY <1>2, <2>8, <2>12
    <3>2. i - 1 = k - 1
      BY <2>1, <3>1 DEF OwnAliases
    <3>3. QED BY <2>7, <3>2
  <2>13. QED BY <2>9, <2>10, <2>11, <2>12
<1>3. QED BY <1>1, <1>2 DEF UniqueEntries
-----------------------------------------------------------------------------
(* A function on 1..n into S is a sequence over S. *)
LEMMA FunctionInSeq ==
  ASSUME NEW S, NEW n \in Nat, NEW s \in [1..n -> S] PROVE s \in Seq(S)
BY SeqDef

(* What two sequences put together hold. *)
LEMMA ConcatHolds ==
  ASSUME NEW S, NEW s \in Seq(S), NEW t \in Seq(S)
  PROVE  s \o t \in Seq(S) /\ ToSet(s \o t) = ToSet(s) \cup ToSet(t)
<1> DEFINE all == s \o t
<1>1. /\ all \in Seq(S) /\ Len(all) = Len(s) + Len(t)
      /\ Len(s) \in Nat /\ Len(t) \in Nat
      /\ DOMAIN s = 1..Len(s) /\ DOMAIN t = 1..Len(t) /\ DOMAIN all = 1..Len(all)
  BY ConcatProperties
<1>2. /\ \A i \in 1..Len(s) : all[i] = s[i]
      /\ \A i \in 1..Len(t) : all[Len(s) + i] = t[i]
  OBVIOUS
<1> HIDE DEF all
<1>3. ASSUME NEW x \in ToSet(all) PROVE x \in ToSet(s) \cup ToSet(t)
  <2>1. PICK i \in 1..Len(all) : x = all[i]
    BY <1>1, <1>3 DEF ToSet
  <2>2. CASE i <= Len(s)
    <3>1. i \in DOMAIN s /\ x = s[i]
      BY <1>1, <1>2, <2>1, <2>2
    <3>2. QED BY <3>1 DEF ToSet
  <2>3. CASE i > Len(s)
    <3>1. i - Len(s) \in DOMAIN t
      BY <1>1, <2>3
    <3>2. Len(s) + (i - Len(s)) = i
      BY <1>1
    <3>3. x = t[i - Len(s)]
      BY <1>1, <1>2, <2>1, <3>1, <3>2
    <3>4. QED BY <3>1, <3>3 DEF ToSet
  <2>4. QED BY <1>1, <2>2, <2>3
<1>4. ASSUME NEW x \in ToSet(s) PROVE x \in ToSet(all)
  <2>1. PICK i \in 1..Len(s) : x = s[i]
    BY <1>1, <1>4 DEF ToSet
  <2>2. i \in DOMAIN all /\ x = all[i]
    BY <1>1, <1>2, <2>1
  <2>3. QED BY <2>2 DEF ToSet
<1>5. ASSUME NEW x \in ToSet(t) PROVE x \in ToSet(all)
  <2>1. PICK i \in 1..Len(t) : x = t[i]
    BY <1>1, <1>5 DEF ToSet
  <2>2. Len(s) + i \in DOMAIN all /\ x = all[Len(s) + i]
    BY <1>1, <1>2, <2>1
  <2>3. QED BY <2>2 DEF ToSet
<1>6. QED BY <1>1, <1>3, <1>4, <1>5 DEF all

(* FlattenSeq strings sequences together one after the other. *)
LEMMA FlattenRuns ==
  ASSUME NEW S, NEW seqs \in Seq(Seq(S)), Len(seqs) # 0
  PROVE  \E f : /\ FlattenSeq(seqs) = f[Len(seqs)]
                /\ f[1] = seqs[1]
                /\ \A i \in 2..Len(seqs) : f[i] = f[i-1] \o seqs[i]
<1> DEFINE V == Seq(S)
           len == Len(seqs)
<1>1. len \in Nat /\ \A i \in 1..len : seqs[i] \in V
  OBVIOUS
<1>2. \A s, t \in V : s \o t \in V
  BY ConcatProperties
<1>3. <<>> \in V
  OBVIOUS
<1>5. len # 0
  OBVIOUS
<1>6. QED
  <2> DEFINE flatten == CHOOSE f : f = [i \in 1..Len(seqs) |->
                IF i = 1 THEN seqs[i] ELSE f[i-1] \o seqs[i]]
             step == [q \in Nat \X V |->
                        IF q[1] \in 1..len THEN q[2] \o seqs[q[1]] ELSE <<>>]
  <2>1. FlattenSeq(seqs) = flatten[len]
    BY <1>5, Zenon DEF FlattenSeq
  <2> HIDE DEF V, len
  <2>2. step \in [Nat \X V -> V]
    BY <1>1, <1>2, <1>3
  <2>3. ASSUME NEW i \in 1..len, NEW x \in V PROVE step[<<i, x>>] = x \o seqs[i]
    <3>1. i \in Nat
      BY <1>1
    <3>2. <<i, x>> \in Nat \X V
      BY <3>1
    <3>3. QED BY <3>2
  <2> HIDE DEF step
  <2>4. 1 \in Nat /\ len \in Nat /\ 1 <= len /\ seqs[1] \in V
    BY <1>1, <1>5
  <2>5. PICK f : Iteration(f, V, 1, len, seqs[1], step)
    BY <2>2, <2>4, Iterates, Zenon
  <2>6. /\ f \in [1..len -> V] /\ f[1] = seqs[1]
        /\ \A i \in 2..len : f[i] = step[<<i, f[i-1]>>]
    BY <2>5 DEF Iteration
  <2>7. ASSUME NEW i \in 2..len PROVE f[i] = f[i-1] \o seqs[i]
    <3>1. i - 1 \in 1..len /\ i \in 1..len
      BY <1>1
    <3>2. f[i-1] \in V
      BY <2>6, <3>1, Zenon
    <3>3. f[i] = step[<<i, f[i-1]>>]
      BY <2>6, Zenon
    <3>4. step[<<i, f[i-1]>>] = f[i-1] \o seqs[i]
      BY <2>3, <3>1, <3>2, Zenon
    <3>5. QED BY <3>3, <3>4, Zenon
  <2>8. f = [i \in 1..len |-> IF i = 1 THEN seqs[i] ELSE f[i-1] \o seqs[i]]
    <3>1. \A i \in 1..len : i = 1 \/ i \in 2..len
      BY <2>4
    <3>2. \A i \in 1..len : f[i] = IF i = 1 THEN seqs[i] ELSE f[i-1] \o seqs[i]
      BY <2>6, <2>7, <3>1
    <3>3. f = [i \in 1..len |-> f[i]]
      BY <2>6
    <3>4. QED BY <3>2, <3>3
  <2>9. flatten = [i \in 1..len |-> IF i = 1 THEN seqs[i] ELSE flatten[i-1] \o seqs[i]]
    BY <2>8, Zenon DEF len
  <2> HIDE DEF flatten
  <2>10. flatten[1] = seqs[1] /\ \A i \in 2..len : flatten[i] = flatten[i-1] \o seqs[i]
    <3>1. 1 \in 1..len /\ \A i \in 2..len : i \in 1..len /\ i # 1
      BY <2>4
    <3>2. \A i \in 1..len :
            flatten[i] = IF i = 1 THEN seqs[i] ELSE flatten[i-1] \o seqs[i]
      BY <2>9, Zenon
    <3>3. QED BY <3>1, <3>2, Zenon
  <2>11. QED BY <2>1, <2>10, Zenon DEF len

(* Sequences of S strung together are a sequence of S, and hold what they  *)
(* hold.                                                                   *)
LEMMA FlattenHolds ==
  ASSUME NEW S, NEW seqs \in Seq(Seq(S))
  PROVE  /\ FlattenSeq(seqs) \in Seq(S)
         /\ ToSet(FlattenSeq(seqs)) = UNION {ToSet(seqs[i]) : i \in 1..Len(seqs)}
<1> DEFINE V == Seq(S)
           len == Len(seqs)
<1>1. len \in Nat /\ \A i \in 1..len : seqs[i] \in V
  OBVIOUS
<1>2. \A s, t \in V : s \o t \in V /\ ToSet(s \o t) = ToSet(s) \cup ToSet(t)
  BY ConcatHolds
<1>3. <<>> \in V /\ ToSet(<<>>) = {}
  BY DEF ToSet
<1>4. CASE len = 0
  <2>1. seqs = <<>>
    BY <1>4
  <2>2. FlattenSeq(seqs) = <<>>
    BY <1>4, <2>1 DEF FlattenSeq
  <2>3. 1..len = {}
    BY <1>4
  <2>4. QED BY <1>3, <2>2, <2>3
<1>5. CASE len # 0
  <2>1. PICK f : /\ FlattenSeq(seqs) = f[len]
                 /\ f[1] = seqs[1]
                 /\ \A i \in 2..len : f[i] = f[i-1] \o seqs[i]
    BY <1>5, FlattenRuns, Zenon
  <2> HIDE DEF V, len
  <2> DEFINE Upto(n) == UNION {ToSet(seqs[i]) : i \in 1..n}
             T == {n \in Nat : n + 1 <= len =>
                     f[n + 1] \in V /\ ToSet(f[n + 1]) = Upto(n + 1)}
  <2>2. 0 \in T
    <3>1. Upto(1) = ToSet(seqs[1])
      OBVIOUS
    <3>2. 1 \in 1..len
      BY <1>1, <1>5
    <3>3. QED BY <1>1, <2>1, <3>1, <3>2
  <2>3. ASSUME NEW n \in Nat, n \in T PROVE n + 1 \in T
    <3> SUFFICES ASSUME n + 2 <= len
                 PROVE  f[n + 2] \in V /\ ToSet(f[n + 2]) = Upto(n + 2)
      <4>1. (n + 1) + 1 = n + 2
        OBVIOUS
      <4> HIDE DEF Upto
      <4>2. QED BY <4>1
    <3>1. f[n + 1] \in V /\ ToSet(f[n + 1]) = Upto(n + 1)
      BY <1>1, <2>3
    <3>2. n + 2 \in 2..len /\ n + 2 \in 1..len /\ (n + 2) - 1 = n + 1
      BY <1>1
    <3>3. f[n + 2] = f[n + 1] \o seqs[n + 2]
      BY <2>1, <3>2
    <3>4. Upto(n + 2) = Upto(n + 1) \cup ToSet(seqs[n + 2])
      <4>1. 1..n+2 = (1..n+1) \cup {n+2}
        OBVIOUS
      <4>2. QED BY <4>1
    <3>5. QED BY <1>1, <1>2, <3>1, <3>2, <3>3, <3>4
  <2>4. len - 1 \in T
    <3>1. \A n \in Nat : n \in T => n + 1 \in T
      BY <2>3
    <3> HIDE DEF T
    <3>2. \A n \in Nat : n \in T
      BY <2>2, <3>1, AllNaturals
    <3>3. QED BY <1>1, <1>5, <3>2
  <2>5. f[len] \in V /\ ToSet(f[len]) = Upto(len)
    <3>1. len - 1 + 1 = len
      BY <1>1
    <3>2. QED BY <1>1, <2>4, <3>1
  <2>6. QED BY <2>1, <2>5 DEF V, len
<1>6. QED BY <1>1, <1>4, <1>5

(* In particular they are one. *)
LEMMA FlattenIsSeq ==
  ASSUME NEW S, NEW seqs \in Seq(Seq(S)) PROVE FlattenSeq(seqs) \in Seq(S)
BY FlattenHolds

(* Words joined with blanks are a text. *)
LEMMA JoinIsText ==
  ASSUME NEW words \in Seq(Seq(Nat)) PROVE Join(words) \in Seq(Nat)
<1> DEFINE parts == [n \in DOMAIN words |->
                       IF n = 1 THEN words[n] ELSE <<Blank>> \o words[n]]
<1>1. Len(words) \in Nat /\ DOMAIN words = 1..Len(words)
  OBVIOUS
<1>2. \A n \in DOMAIN words : words[n] \in Seq(Nat)
  OBVIOUS
<1>3. <<Blank>> \in Seq(Nat)
  BY DEF Blank
<1>4. \A n \in DOMAIN words : <<Blank>> \o words[n] \in Seq(Nat)
  BY <1>2, <1>3, ConcatProperties
<1>5. parts \in [1..Len(words) -> Seq(Nat)]
  BY <1>1, <1>2, <1>4
<1>6. Join(words) = FlattenSeq(parts)
  BY Zenon DEF Join
<1> HIDE DEF parts
<1>7. parts \in Seq(Seq(Nat))
  BY <1>1, <1>5, FunctionInSeq
<1>8. QED BY <1>6, <1>7, FlattenIsSeq

(* A part of a text is a text. *)
LEMMA PartIsText ==
  ASSUME NEW S, NEW t \in Seq(S), NEW i \in Nat \ {0}, NEW k \in 0..Len(t)
  PROVE  SubSeq(t, i, k) \in Seq(S)
<1>1. \A j \in i..k : t[j] \in S
  BY ElementOfSeq
<1>2. QED BY <1>1, SubSeqProperties

(* Every word strings.Fields finds is a text. *)
LEMMA WordsAreTexts ==
  ASSUME NEW t \in Seq(Nat) PROVE Words(t) \in Seq(Seq(Nat))
<1> DEFINE open == {i \in DOMAIN t : t[i] # Blank /\ (i = 1 \/ t[i-1] = Blank)}
           close(i) == CHOOSE e \in i..Len(t) :
                         /\ e = Len(t) \/ t[e+1] = Blank
                         /\ \A k \in i..e : t[k] # Blank
           words == [n \in 1..Cardinality(open) |->
                       SubSeq(t, Nth(open, n), close(Nth(open, n)))]
<1>1. Words(t) = words
  BY Zenon DEF Words
<1>2. Len(t) \in Nat /\ DOMAIN t = 1..Len(t)
  OBVIOUS
<1>3. /\ open \in SUBSET Nat /\ IsFiniteSet(open) /\ Cardinality(open) \in Nat
      /\ \A i \in open : i \in 1..Len(t) /\ t[i] # Blank
  <2>1. open \in SUBSET (1..Len(t)) /\ \A i \in open : t[i] # Blank
    BY <1>2
  <2> HIDE DEF open
  <2>2. IsFiniteSet(1..Len(t))
    BY <1>2, FS_Interval
  <2>3. IsFiniteSet(open)
    BY <2>1, <2>2, FS_Subset
  <2>4. QED BY <2>1, <2>3, FS_CardinalityType
<1> HIDE DEF open
<1>4. ASSUME NEW i \in open PROVE close(i) \in i..Len(t)
  <2> DEFINE E == {e \in i..Len(t) : e = Len(t) \/ t[e+1] = Blank}
             e == SmallestOf(E)
  <2>1. i \in 1..Len(t) /\ t[i] # Blank
    BY <1>3
  <2>2. E \in SUBSET Nat /\ Len(t) \in E
    BY <1>2, <2>1
  <2>3. e \in E /\ \A k \in E : e <= k
    BY <2>2, SmallestIsLeast
  <2> HIDE DEF e
  <2>4. e \in i..Len(t) /\ (e = Len(t) \/ t[e+1] = Blank)
    BY <2>3
  <2>5. ASSUME NEW k \in i..e, t[k] = Blank PROVE FALSE
    <3>1. k # i
      BY <2>1, <2>5
    <3>2. i \in Nat /\ e \in Nat /\ k \in Nat /\ i <= k /\ k <= e /\ e <= Len(t)
      <4>1. i \in Nat /\ i <= e /\ e \in Nat /\ e <= Len(t)
        <5>1. i \in 1..Len(t) /\ e \in i..Len(t)
          BY <2>1, <2>4
        <5>2. \A len \in Nat : \A j \in 1..len : \A l \in j..len :
                j \in Nat /\ j <= l /\ l \in Nat /\ l <= len
          OBVIOUS
        <5>3. QED BY <1>2, <5>1, <5>2, Zenon
      <4>2. k \in i..e
        OBVIOUS
      <4>3. QED BY <4>1, <4>2
    <3>3. k - 1 \in i..Len(t) /\ k - 1 < e
      BY <1>2, <3>1, <3>2
    <3>4. t[(k - 1) + 1] = Blank
      <4>1. (k - 1) + 1 = k
        BY <3>2
      <4>2. QED BY <2>5, <4>1
    <3>5. k - 1 \in E
      BY <3>3, <3>4
    <3>6. e <= k - 1
      BY <2>3, <3>5
    <3>7. QED BY <3>2, <3>6
  <2>6. \E c \in i..Len(t) : /\ c = Len(t) \/ t[c+1] = Blank
                            /\ \A k \in i..c : t[k] # Blank
    BY <2>4, <2>5
  <2>7. QED BY <2>6, Zenon
<1> HIDE DEF close
<1>5. ASSUME NEW n \in 1..Cardinality(open)
      PROVE  SubSeq(t, Nth(open, n), close(Nth(open, n))) \in Seq(Nat)
  <2>1. Nth(open, n) \in open
    BY <1>3, NthIsThere
  <2> DEFINE i == Nth(open, n)
  <2> HIDE DEF i
  <2>2. i \in open
    BY <2>1 DEF i
  <2>3. i \in 1..Len(t) /\ close(i) \in i..Len(t)
    BY <1>3, <1>4, <2>2
  <2>4. i \in Nat \ {0} /\ close(i) \in 0..Len(t)
    BY <1>2, <2>3
  <2>5. SubSeq(t, i, close(i)) \in Seq(Nat)
    BY <2>4, PartIsText
  <2>6. QED BY <2>5 DEF i
<1>6. words \in [1..Cardinality(open) -> Seq(Nat)]
  BY <1>5
<1> HIDE DEF words
<1>7. words \in Seq(Seq(Nat))
  BY <1>3, <1>6, FunctionInSeq
<1>8. QED BY <1>1, <1>7

(* Every phrase of neighbouring words is a text. *)
LEMMA WindowsAreTexts ==
  ASSUME NEW t \in Seq(Nat), NEW max \in Nat
  PROVE  Windows(t, max) \in Seq(Seq(Nat))
<1> DEFINE words == Words(t)
           last == SmallestOf({max, Len(words)})
           phrases(n) == [i \in 1..Len(words) - n + 1 |->
                            Join(SubSeq(words, i, i + n - 1))]
           upto == [n \in 1..last |-> phrases(n)]
<1>1. Windows(t, max) = FlattenSeq(upto)
  BY Zenon DEF Windows
<1>2. words \in Seq(Seq(Nat)) /\ Len(words) \in Nat
  BY WordsAreTexts
<1> HIDE DEF words
<1>3. last \in Nat /\ last <= Len(words)
  <2>1. {max, Len(words)} \in SUBSET Nat /\ {max, Len(words)} # {}
    BY <1>2
  <2>2. /\ SmallestOf({max, Len(words)}) \in {max, Len(words)}
        /\ SmallestOf({max, Len(words)}) <= Len(words)
    BY <2>1, SmallestIsLeast
  <2>3. QED BY <1>2, <2>2
<1> HIDE DEF last
<1>4. ASSUME NEW n \in 1..last PROVE phrases(n) \in Seq(Seq(Nat))
  <2>1. ASSUME NEW i \in 1..Len(words) - n + 1
        PROVE  Join(SubSeq(words, i, i + n - 1)) \in Seq(Nat)
    <3>1. i \in Nat \ {0} /\ i + n - 1 \in 0..Len(words)
      BY <1>2, <1>3
    <3>2. SubSeq(words, i, i + n - 1) \in Seq(Seq(Nat))
      BY <1>2, <3>1, PartIsText
    <3>3. QED BY <3>2, JoinIsText
  <2>2. Len(words) - n + 1 \in Nat
    BY <1>2, <1>3
  <2>3. phrases(n) \in [1..Len(words) - n + 1 -> Seq(Nat)]
    BY <2>1
  <2> HIDE DEF phrases
  <2>4. QED BY <2>2, <2>3, FunctionInSeq
<1> HIDE DEF phrases
<1>5. upto \in [1..last -> Seq(Seq(Nat))]
  BY <1>4
<1> HIDE DEF upto
<1>6. upto \in Seq(Seq(Seq(Nat)))
  BY <1>3, <1>5, FunctionInSeq
<1>7. QED BY <1>1, <1>6, FlattenIsSeq

(* What is learned: phrases of the correction, each with one alias.        *)
IsLesson(l) == l.canonical \in Seq(Nat) /\ l.alias \in Seq(Nat)
AreLessons(ls) == IsSeq(ls) /\ \A n \in DOMAIN ls : IsLesson(ls[n])

(* What is heard closest is a phrase of the transcript, or nothing. *)
LEMMA BestAliasIsText ==
  ASSUME NEW folded, NEW windows \in Seq(Seq(Nat))
  PROVE  BestAlias(folded, windows) \in Seq(Nat)
<1> DEFINE d(w) == Distance(folded, Compact(w))
           m(w) == LongerOf(folded, Compact(w))
           eligible(w) == Compact(w) \notin {<<>>, folded} /\ Close(folded, Compact(w))
           better(v, w) == \/ w = <<>>
                           \/ d(v) * m(w) < d(w) * m(v)
                           \/ d(v) * m(w) = d(w) * m(v) /\ Len(v) < Len(w)
           Pick(v, w) == IF eligible(v) /\ better(v, w) THEN v ELSE w
           V == Seq(Nat)
           len == Len(windows)
           best == CHOOSE f : f = [n \in 0..Len(windows) |->
                     IF n = 0 THEN <<>> ELSE Pick(windows[n], f[n-1])]
           step == [p \in Nat \X V |->
                      IF p[1] \in 1..len THEN Pick(windows[p[1]], p[2]) ELSE <<>>]
<1>1. BestAlias(folded, windows) = best[len]
  BY Zenon DEF BestAlias
<1>2. len \in Nat /\ <<>> \in V /\ \A n \in 1..len : windows[n] \in V
  OBVIOUS
<1>3. \A v, w \in V : Pick(v, w) \in V
  OBVIOUS
<1> HIDE DEF V, len, Pick
<1>4. step \in [Nat \X V -> V]
  BY <1>2, <1>3
<1>5. ASSUME NEW n \in 1..len, NEW w \in V PROVE step[<<n, w>>] = Pick(windows[n], w)
  <2>1. n \in Nat
    BY <1>2
  <2>2. <<n, w>> \in Nat \X V
    BY <2>1
  <2>3. QED BY <2>2
<1> HIDE DEF step
<1>6. PICK f : Iteration(f, V, 0, len, <<>>, step)
  <2>1. 0 \in Nat /\ 0 <= len
    BY <1>2
  <2>2. QED BY <1>2, <1>4, <2>1, Iterates, Zenon
<1>7. /\ f \in [0..len -> V] /\ f[0] = <<>>
      /\ \A n \in 1..len : f[n] = step[<<n, f[n-1]>>]
  BY <1>6 DEF Iteration
<1>8. ASSUME NEW n \in 1..len PROVE f[n] = Pick(windows[n], f[n-1])
  <2>1. n - 1 \in 0..len
    BY <1>2
  <2>2. f[n-1] \in V
    BY <1>7, <2>1, Zenon
  <2>3. QED BY <1>5, <1>7, <2>2, Zenon
<1>9. f = [n \in 0..len |-> IF n = 0 THEN <<>> ELSE Pick(windows[n], f[n-1])]
  <2>1. \A n \in 0..len : n = 0 \/ n \in 1..len
    BY <1>2
  <2>2. \A n \in 0..len : f[n] = IF n = 0 THEN <<>> ELSE Pick(windows[n], f[n-1])
    BY <1>7, <1>8, <2>1
  <2>3. f = [n \in 0..len |-> f[n]]
    BY <1>7
  <2>4. QED BY <2>2, <2>3
<1>10. best = [n \in 0..len |-> IF n = 0 THEN <<>> ELSE Pick(windows[n], best[n-1])]
  BY <1>9, Zenon DEF len
<1> HIDE DEF best
<1> DEFINE T == {n \in Nat : n <= len => best[n] \in V}
<1>11. 0 \in T
  BY <1>2, <1>10
<1>12. ASSUME NEW n \in Nat, n \in T, n + 1 <= len PROVE best[n+1] \in V
  <2>1. n + 1 \in 1..len /\ n + 1 \in 0..len /\ (n + 1) - 1 = n /\ n + 1 # 0
    BY <1>2, <1>12
  <2>2. best[n+1] = Pick(windows[n+1], best[n])
    BY <1>10, <2>1
  <2>3. best[n] \in V
    BY <1>2, <1>12
  <2>4. QED BY <1>2, <1>3, <2>1, <2>2, <2>3
<1>13. \A n \in Nat : n \in T => n + 1 \in T
  BY <1>12
<1> HIDE DEF T
<1>14. \A n \in Nat : n \in T
  BY <1>11, <1>13, AllNaturals
<1>15. QED BY <1>1, <1>2, <1>14 DEF T, V

(* What a correction teaches is a spelling and how it was heard. *)
LEMMA LearnedAreLessons ==
  ASSUME NEW raw \in Seq(Nat), NEW corrected \in Seq(Nat)
  PROVE  AreLessons(Learned(raw, corrected))
<1> DEFINE best(c) == IF Len(Compact(c)) < 4 \/ StandsIn(raw, c) THEN <<>>
                      ELSE BestAlias(Compact(c), Windows(raw, 3))
           phrases == Windows(corrected, 3)
           taught == {n \in DOMAIN phrases : best(phrases[n]) # <<>>}
           lessons == [n \in 1..Cardinality(taught) |->
                         [canonical |-> phrases[Nth(taught, n)],
                          alias     |-> best(phrases[Nth(taught, n)])]]
<1>1. Learned(raw, corrected) = lessons
  BY Zenon DEF Learned
<1>2. /\ Len(phrases) \in Nat /\ DOMAIN phrases = 1..Len(phrases)
      /\ \A n \in DOMAIN phrases : phrases[n] \in Seq(Nat)
  <2>1. 3 \in Nat
    OBVIOUS
  <2>2. phrases \in Seq(Seq(Nat))
    BY <2>1, WindowsAreTexts
  <2> HIDE DEF phrases
  <2>3. QED BY <2>2
<1> DEFINE heard == Windows(raw, 3)
<1>9. ASSUME NEW c PROVE best(c) \in Seq(Nat)
  <2>1. 3 \in Nat /\ <<>> \in Seq(Nat)
    OBVIOUS
  <2>2. heard \in Seq(Seq(Nat))
    BY <2>1, WindowsAreTexts
  <2> HIDE DEF heard
  <2>3. BestAlias(Compact(c), heard) \in Seq(Nat)
    BY <2>2, BestAliasIsText
  <2>4. QED BY <2>1, <2>3 DEF heard
<1> HIDE DEF best, phrases, heard
<1>3. /\ taught \in SUBSET Nat /\ IsFiniteSet(taught)
      /\ Cardinality(taught) \in Nat /\ taught \subseteq DOMAIN phrases
  <2>1. taught \in SUBSET (1..Len(phrases))
    BY <1>2
  <2> HIDE DEF taught
  <2>2. IsFiniteSet(1..Len(phrases))
    BY <1>2, FS_Interval
  <2>3. IsFiniteSet(taught)
    BY <2>1, <2>2, FS_Subset
  <2>4. QED BY <1>2, <2>1, <2>3, FS_CardinalityType
<1> HIDE DEF taught
<1>4. \A n \in 1..Cardinality(taught) : phrases[Nth(taught, n)] \in Seq(Nat)
  BY <1>2, <1>3, NthIsThere
<1>5. DOMAIN lessons = 1..Cardinality(taught) /\ \A n \in DOMAIN lessons : IsLesson(lessons[n])
  BY <1>4, <1>9 DEF IsLesson
<1>6. lessons = [n \in 1..Cardinality(taught) |-> lessons[n]]
  OBVIOUS
<1> HIDE DEF lessons
<1>7. IsSeq(lessons)
  BY <1>3, <1>6, FunctionIs
<1>8. QED BY <1>1, <1>5, <1>7 DEF AreLessons

(* So is what a selected phrase teaches. *)
LEMMA SelectionIsLesson ==
  ASSUME NEW raw \in Seq(Nat), NEW selected \in Seq(Nat), LearnedFromSelection(raw, selected) # <<>>
  PROVE  IsLesson(LearnedFromSelection(raw, selected)[1])
<1> DEFINE c == Join(Words(selected))
           alias == BestAlias(Compact(c), Windows(raw, 5))
           lesson == [canonical |-> c, alias |-> alias]
<1>1. c \in Seq(Nat)
  BY WordsAreTexts, JoinIsText
<1>2. LearnedFromSelection(raw, selected) =
        IF Len(Words(selected)) \notin 1..5 \/ Len(Compact(c)) < 4 \/ alias = <<>>
          THEN <<>> ELSE <<lesson>>
  BY Zenon DEF LearnedFromSelection
<1>6. alias \in Seq(Nat)
  <2>1. 5 \in Nat
    OBVIOUS
  <2>2. Windows(raw, 5) \in Seq(Seq(Nat))
    BY <2>1, WindowsAreTexts
  <2>3. QED BY <2>2, BestAliasIsText
<1> HIDE DEF c, alias
<1>3. lesson.canonical = c /\ lesson.alias = alias
  OBVIOUS
<1> HIDE DEF lesson
<1>4. LearnedFromSelection(raw, selected) = <<lesson>>
  BY <1>2, Zenon
<1>5. QED BY <1>1, <1>3, <1>4, <1>6 DEF IsLesson

(* Storing one lesson leaves the others to be stored.                      *)
LEMMA LessonsLeft ==
  ASSUME NEW ls, AreLessons(ls), ls # <<>>
  PROVE  IsLesson(Head(ls)) /\ AreLessons(Tail(ls))
<1> DEFINE T == {ls[i] : i \in DOMAIN ls}
<1>1. ls \in Seq(T) /\ \A l \in T : IsLesson(l)
  BY DEF AreLessons, IsSeq
<1> HIDE DEF T
<1>2. Head(ls) \in T /\ Tail(ls) \in Seq(T)
  BY <1>1, HeadTailProperties
<1>3. \A i \in DOMAIN Tail(ls) : Tail(ls)[i] \in T
  BY <1>2
<1>4. QED BY <1>1, <1>2, <1>3, SeqIs DEF AreLessons

(* The file is a list of entries, one per spelling; what is still to be    *)
(* stored of a correction are lessons.                                     *)
VocabularyInv == /\ IsList(entries) /\ Distinct(entries)
                 /\ AreLessons(pending)

(* Adding an alias to the sorted list keeps the entries distinct. *)
LEMMA AddAliasStep ==
  ASSUME VocabularyInv, NEW c \in Seq(Nat), NEW alias \in Seq(Nat),
         entries' = AddAlias(Listing(entries), c, alias)
  PROVE  IsList(entries') /\ Distinct(entries')
<1>1. IsList(Listing(entries)) /\ Distinct(Listing(entries))
  BY ListingKeeps DEF VocabularyInv
<1>2. QED BY <1>1, AddAliasKeeps

(* The empty list. *)
LEMMA NoneIsSeq == IsSeq(<<>>) /\ DOMAIN <<>> = {}
<1>1. <<>> \in Seq({})
  OBVIOUS
<1>2. DOMAIN <<>> = {}
  OBVIOUS
<1>3. IsSeq(<<>>)
  BY <1>1, SeqIs, Zenon
<1>4. QED BY <1>2, <1>3

(* Every operation keeps the invariant of the vocabulary. *)
LEMMA VocabularyStep ==
  ASSUME VocabularyInv, VocabularyNext PROVE VocabularyInv'
<1>1. ASSUME NEW c \in Terms, AddCanonical(c) PROVE VocabularyInv'
  <2>1. c \in Seq(Nat) /\ <<>> \in Seq(Nat)
    BY VocabularyAssumption
  <2>2. entries' = AddAlias(Listing(entries), c, <<>>) /\ pending' = pending
    BY <1>1 DEF AddCanonical
  <2>3. IsList(entries') /\ Distinct(entries')
    BY <2>1, <2>2, AddAliasStep
  <2>4. QED BY <2>2, <2>3 DEF VocabularyInv
<1>2. ASSUME NEW n \in DOMAIN entries, Delete(n) PROVE VocabularyInv'
  <2>1. IsList(Listing(entries)) /\ Distinct(Listing(entries))
    BY ListingKeeps DEF VocabularyInv
  <2>2. n \in DOMAIN Listing(entries)
    BY ListingRenumbers DEF VocabularyInv
  <2>3. entries' = RemoveAt(Listing(entries), n) /\ pending' = pending
    BY <1>2 DEF Delete
  <2>4. IsList(entries') /\ Distinct(entries')
    BY <2>1, <2>2, <2>3, RemoveKeeps
  <2>5. QED BY <2>3, <2>4 DEF VocabularyInv
<1>3. ASSUME NEW e \in Edits, LearnFromCorrection(e[1], e[2]) PROVE VocabularyInv'
  <2>1. e[1] \in Seq(Nat) /\ e[2] \in Seq(Nat)
    BY VocabularyAssumption
  <2>2. pending' = Learned(e[1], e[2]) /\ entries' = entries
    BY <1>3 DEF LearnFromCorrection
  <2>3. AreLessons(pending')
    BY <2>1, <2>2, LearnedAreLessons
  <2>4. QED BY <2>2, <2>3 DEF VocabularyInv
<1>4. ASSUME NEW e \in Edits, LearnFromSelection(e[1], e[2]) PROVE VocabularyInv'
  <2> DEFINE found == LearnedFromSelection(e[1], e[2])
  <2>1. e[1] \in Seq(Nat) /\ e[2] \in Seq(Nat)
    BY VocabularyAssumption
  <2>2. /\ found # <<>> /\ pending' = pending
        /\ entries' = AddAlias(Listing(entries), found[1].canonical, found[1].alias)
    BY <1>4 DEF LearnFromSelection
  <2>3. IsLesson(found[1])
    BY <2>1, <2>2, SelectionIsLesson
  <2> HIDE DEF found
  <2>4. found[1].canonical \in Seq(Nat) /\ found[1].alias \in Seq(Nat)
    BY <2>3 DEF IsLesson
  <2>5. IsList(entries') /\ Distinct(entries')
    BY <2>2, <2>4, AddAliasStep
  <2>6. QED BY <2>2, <2>5 DEF VocabularyInv
<1>5. ASSUME LearnAlias PROVE VocabularyInv'
  <2>1. /\ pending # <<>> /\ pending' = Tail(pending)
        /\ entries' = AddAlias(Listing(entries), Head(pending).canonical,
                               Head(pending).alias)
    BY <1>5 DEF LearnAlias
  <2>2. IsLesson(Head(pending)) /\ AreLessons(Tail(pending))
    BY <2>1, LessonsLeft DEF VocabularyInv
  <2>3. Head(pending).canonical \in Seq(Nat) /\ Head(pending).alias \in Seq(Nat)
    BY <2>2 DEF IsLesson
  <2>4. IsList(entries') /\ Distinct(entries')
    BY <2>1, <2>3, AddAliasStep
  <2>5. QED BY <2>1, <2>2, <2>4 DEF VocabularyInv
<1>6. ASSUME Crash PROVE VocabularyInv'
  <2>1. pending' = <<>> /\ entries' = entries
    BY <1>6 DEF Crash
  <2>2. AreLessons(pending')
    BY <2>1, NoneIsSeq DEF AreLessons
  <2>3. QED BY <2>1, <2>2 DEF VocabularyInv
<1>7. QED BY <1>1, <1>2, <1>3, <1>4, <1>5, <1>6 DEF VocabularyNext

(* However commands, learning and crashes interleave, the invariant holds. *)
LEMMA VocabularyAlways ==
  TextsSpec => []VocabularyInv
<1>1. VocabularyInit => VocabularyInv
  <2> SUFFICES ASSUME VocabularyInit PROVE VocabularyInv
    OBVIOUS
  <2>1. entries = <<>> /\ pending = <<>>
    BY DEF VocabularyInit
  <2>2. QED BY <2>1, NoneIsSeq DEF VocabularyInv, IsList, Distinct, AreLessons
<1>2. VocabularyInv /\ [TextsNext]_<<vocabularyVars, probe>> => VocabularyInv'
  <2> SUFFICES ASSUME VocabularyInv, [TextsNext]_<<vocabularyVars, probe>>
               PROVE  VocabularyInv'
    OBVIOUS
  <2>1. CASE TextsNext
    BY <2>1, VocabularyStep DEF TextsNext
  <2>2. CASE UNCHANGED <<vocabularyVars, probe>>
    BY <2>2 DEF VocabularyInv, vocabularyVars
  <2>3. QED BY <2>1, <2>2
<1>3. TextsInit => VocabularyInv
  BY <1>1 DEF TextsInit
<1>4. QED BY <1>2, <1>3, PTL DEF TextsSpec

(* However commands, learning and crashes interleave, the vocabulary holds *)
(* one entry per spelling in any case, and under it one alias per spelling *)
(* other than its own (addCanonical, addAlias, List, Delete).              *)
THEOREM OneEntryPerSpelling ==
  TextsSpec => []UniqueEntries
<1>1. VocabularyInv => UniqueEntries
  BY DistinctIsUnique DEF VocabularyInv
<1>2. QED BY <1>1, VocabularyAlways, PTL
-----------------------------------------------------------------------------
(* One round of mergeKeyterms' loop. *)
Merged(before, term, limit) ==
  IF \/ Len(before) >= limit
     \/ term = <<>>
     \/ \E k \in DOMAIN before : Fold(before[k]) = Fold(term)
  THEN before ELSE Append(before, term)

(* The loop's invariant, after the first n terms: what was kept are terms, *)
(* no two alike, and while there is room none that counts was left out.    *)
Merges(kept, all, n, limit) ==
  /\ Len(kept) <= limit
  /\ \A j, k \in DOMAIN kept : Fold(kept[j]) = Fold(kept[k]) => j = k
  /\ \A k \in DOMAIN kept : /\ kept[k] # <<>>
                            /\ \E i \in 1..n : kept[k] = all[i]
  /\ Len(kept) < limit =>
       \A i \in 1..n : all[i] # <<>> =>
         \E k \in DOMAIN kept : Fold(kept[k]) = Fold(all[i])

(* A text with a letter keeps it in lower case. *)
LEMMA FoldOfSome ==
  ASSUME NEW t \in Seq(Nat), t # <<>> PROVE Fold(t) # <<>>
<1>1. DOMAIN t # {}
  OBVIOUS
<1>2. DOMAIN Fold(t) = DOMAIN t
  BY DEF Fold
<1>3. DOMAIN <<>> = {}
  OBVIOUS
<1>4. QED BY <1>1, <1>2, <1>3

(* Each round keeps the invariant. *)
LEMMA MergesOneMore ==
  ASSUME NEW all, NEW kept \in Seq(Seq(Nat)), NEW n \in Nat, all[n+1] \in Seq(Nat),
         NEW limit \in Nat, Merges(kept, all, n, limit)
  PROVE  Merges(Merged(kept, all[n+1], limit), all, n + 1, limit)
<1> DEFINE term == all[n+1]
           next == Merged(kept, term, limit)
<1>1. Len(kept) \in Nat /\ DOMAIN kept = 1..Len(kept)
  OBVIOUS
<1>2. \A i \in 1..n+1 : i \in 1..n \/ i = n + 1
  OBVIOUS
<1>3. CASE Len(kept) >= limit
  <2>1. next = kept
    BY <1>3 DEF Merged
  <2>2. ~(Len(kept) < limit)
    BY <1>1, <1>3
  <2>3. QED BY <2>1, <2>2 DEF Merges
<1>4. CASE term = <<>> \/ \E k \in DOMAIN kept : Fold(kept[k]) = Fold(term)
  <2>1. next = kept
    BY <1>4 DEF Merged
  <2> HIDE DEF next
  <2>2. \A k \in DOMAIN kept : \E i \in 1..n+1 : kept[k] = all[i]
    <3>1. \A k \in DOMAIN kept : \E i \in 1..n : kept[k] = all[i]
      BY DEF Merges
    <3>2. \A i \in 1..n : i \in 1..n+1
      OBVIOUS
    <3>3. QED BY <3>1, <3>2, Zenon
  <2>3. ASSUME NEW i \in 1..n+1, Len(kept) < limit, all[i] # <<>>
        PROVE  \E k \in DOMAIN kept : Fold(kept[k]) = Fold(all[i])
    <3>1. CASE i \in 1..n
      BY <2>3, <3>1, Zenon DEF Merges
    <3>2. CASE i = n + 1
      BY <1>4, <2>3, <3>2
    <3>3. QED BY <1>2, <3>1, <3>2
  <2>4. Merges(kept, all, n + 1, limit)
    BY <2>2, <2>3, Zenon DEF Merges
  <2>5. QED BY <2>1, <2>4 DEF next
<1>5. CASE /\ Len(kept) < limit /\ term # <<>>
           /\ \A k \in DOMAIN kept : Fold(kept[k]) # Fold(term)
  <2>1. next = Append(kept, term)
    BY <1>1, <1>5 DEF Merged
  <2> DEFINE len == Len(kept)
  <2>2. /\ DOMAIN next = 1..len+1 /\ Len(next) = len + 1 /\ next[len+1] = term
        /\ \A k \in 1..len : next[k] = kept[k]
    BY <2>1
  <2> HIDE DEF next, term
  <2>3. \A k \in DOMAIN next : k \in 1..len \/ k = len + 1
    BY <1>1, <2>2
  <2>4. Len(next) <= limit
    BY <1>1, <1>5, <2>2
  <2>5. \A j, k \in DOMAIN next : Fold(next[j]) = Fold(next[k]) => j = k
    <3> SUFFICES ASSUME NEW j \in DOMAIN next, NEW k \in DOMAIN next,
                        Fold(next[j]) = Fold(next[k])
                 PROVE  j = k
      OBVIOUS
    <3>1. CASE j \in 1..len /\ k \in 1..len
      <4>1. Fold(kept[j]) = Fold(kept[k]) /\ j \in DOMAIN kept /\ k \in DOMAIN kept
        BY <1>1, <2>2, <3>1
      <4>2. QED BY <4>1, Zenon DEF Merges
    <3>2. CASE j \in 1..len /\ k = len + 1
      BY <1>1, <1>5, <2>2, <3>2
    <3>3. CASE j = len + 1 /\ k \in 1..len
      BY <1>1, <1>5, <2>2, <3>3
    <3>4. QED BY <2>3, <3>1, <3>2, <3>3
  <2>6. \A k \in DOMAIN next : /\ next[k] # <<>>
                               /\ \E i \in 1..n+1 : next[k] = all[i]
    <3>1. term = all[n+1] /\ n + 1 \in 1..n+1
      BY DEF term
    <3>2. 1..n \subseteq 1..n+1
      OBVIOUS
    <3>3. ASSUME NEW k \in 1..len
          PROVE  next[k] # <<>> /\ \E i \in 1..n+1 : next[k] = all[i]
      <4>1. k \in DOMAIN kept /\ next[k] = kept[k]
        BY <1>1, <2>2
      <4>2. kept[k] # <<>> /\ \E i \in 1..n : kept[k] = all[i]
        BY <4>1, Zenon DEF Merges
      <4>3. QED BY <3>2, <4>1, <4>2, Zenon
    <3>4. QED BY <1>5, <2>2, <2>3, <3>1, <3>3, Zenon
  <2>7. ASSUME NEW i \in 1..n+1, all[i] # <<>>
        PROVE  \E k \in DOMAIN next : Fold(next[k]) = Fold(all[i])
    <3>1. CASE i \in 1..n
      <4>1. PICK k \in 1..len : Fold(kept[k]) = Fold(all[i])
        BY <1>1, <1>5, <2>7, <3>1 DEF Merges
      <4>2. k \in DOMAIN next /\ next[k] = kept[k]
        BY <1>1, <2>2
      <4>3. QED BY <4>1, <4>2
    <3>2. CASE i = n + 1
      BY <1>1, <2>2, <3>2 DEF term
    <3>3. QED BY <1>2, <3>1, <3>2
  <2>8. QED BY <2>4, <2>5, <2>6, <2>7 DEF Merges, next, term
<1>6. QED BY <1>1, <1>3, <1>4, <1>5

(* The loop keeps texts. *)
LEMMA MergedAreTexts ==
  ASSUME NEW before \in Seq(Seq(Nat)), NEW term \in Seq(Nat), NEW limit
  PROVE  Merged(before, term, limit) \in Seq(Seq(Nat))
BY DEF Merged

(* mergeKeyterms runs its loop over all the terms. *)
LEMMA MergesAll ==
  ASSUME NEW configured \in Seq(Seq(Nat)), NEW terms \in Seq(Seq(Nat)),
         NEW limit \in Nat
  PROVE  LET all == configured \o terms
             merged == MergeKeyterms(configured, terms, limit)
         IN merged \in Seq(Seq(Nat)) /\ Merges(merged, all, Len(all), limit)
<1> DEFINE V == Seq(Seq(Nat))
           all == configured \o terms
           len == Len(all)
           merged == CHOOSE f : f = [n \in 0..Len(all) |->
             IF n = 0 THEN <<>>
             ELSE IF \/ Len(f[n-1]) >= limit
                     \/ all[n] = <<>>
                     \/ \E k \in DOMAIN f[n-1] : Fold(f[n-1][k]) = Fold(all[n])
                  THEN f[n-1] ELSE Append(f[n-1], all[n])]
           step == [p \in Nat \X V |->
                      IF p[1] \in 1..len THEN Merged(p[2], all[p[1]], limit) ELSE <<>>]
<1>1. MergeKeyterms(configured, terms, limit) = merged[len]
  BY Zenon DEF MergeKeyterms
<1>2. all \in V /\ len \in Nat /\ <<>> \in V
  BY ConcatProperties
<1>3. \A n \in 1..len : all[n] \in Seq(Nat)
  BY <1>2, ElementOfSeq
<1> HIDE DEF all, len
<1>4. \A n \in 1..len, x \in V : Merged(x, all[n], limit) \in V
  BY <1>3, MergedAreTexts
<1> HIDE DEF V
<1>5. step \in [Nat \X V -> V]
  BY <1>2, <1>4
<1>6. ASSUME NEW n \in 1..len, NEW x \in V
      PROVE  step[<<n, x>>] = Merged(x, all[n], limit)
  <2>1. n \in Nat
    BY <1>2
  <2>2. <<n, x>> \in Nat \X V
    BY <2>1
  <2>3. QED BY <2>2
<1> HIDE DEF step
<1>7. PICK f : Iteration(f, V, 0, len, <<>>, step)
  <2>1. 0 \in Nat /\ 0 <= len
    BY <1>2
  <2>2. QED BY <1>2, <1>5, <2>1, Iterates, Zenon
<1>8. /\ f \in [0..len -> V] /\ f[0] = <<>>
      /\ \A n \in 1..len : f[n] = step[<<n, f[n-1]>>]
  BY <1>7 DEF Iteration
<1>9. ASSUME NEW n \in 1..len PROVE f[n] = Merged(f[n-1], all[n], limit)
  <2>1. n - 1 \in 0..len
    BY <1>2
  <2>2. f[n-1] \in V
    BY <1>8, <2>1, Zenon
  <2>3. QED BY <1>6, <1>8, <2>2, Zenon
<1>10. f = [n \in 0..len |-> IF n = 0 THEN <<>> ELSE Merged(f[n-1], all[n], limit)]
  <2>1. \A n \in 0..len : n = 0 \/ n \in 1..len
    BY <1>2
  <2>2. \A n \in 0..len : f[n] = IF n = 0 THEN <<>> ELSE Merged(f[n-1], all[n], limit)
    BY <1>8, <1>9, <2>1
  <2>3. f = [n \in 0..len |-> f[n]]
    BY <1>8
  <2>4. QED BY <2>2, <2>3
<1>11. merged = [n \in 0..len |-> IF n = 0 THEN <<>> ELSE Merged(merged[n-1], all[n], limit)]
  BY <1>10, Zenon DEF len, Merged
<1> HIDE DEF merged
<1>12. /\ merged[0] = <<>>
       /\ \A n \in Nat : n + 1 <= len => merged[n+1] = Merged(merged[n], all[n+1], limit)
  BY <1>2, <1>11
<1> DEFINE Good(n) == merged[n] \in V /\ Merges(merged[n], all, n, limit)
           S == {n \in Nat : n <= len => Good(n)}
<1>13. 0 \in S
  <2>1. Merges(<<>>, all, 0, limit)
    BY DEF Merges
  <2>2. QED BY <1>2, <1>12, <2>1
<1>14. ASSUME NEW n \in Nat, n \in S, n + 1 <= len PROVE Good(n + 1)
  <2>1. Good(n) /\ n + 1 \in 1..len
    BY <1>2, <1>14
  <2>2. merged[n+1] = Merged(merged[n], all[n+1], limit)
    BY <1>12, <1>14
  <2>3. merged[n+1] \in V
    BY <1>4, <2>1, <2>2
  <2>4. Merges(merged[n+1], all, n + 1, limit)
    BY <1>3, <2>1, <2>2, MergesOneMore DEF V
  <2>5. QED BY <2>3, <2>4
<1>15. Good(len)
  <2>1. \A n \in Nat : n \in S => n + 1 \in S
    BY <1>14
  <2> HIDE DEF S
  <2>2. \A n \in Nat : n \in S
    BY <1>13, <2>1, AllNaturals
  <2>3. QED BY <1>2, <2>2 DEF S
<1>16. QED BY <1>1, <1>15 DEF V, all, len

(* Whatever is configured and whatever the vocabulary holds, the provider  *)
(* is given as many different keyterms as there are, or as it takes, and   *)
(* none of them twice in any case (mergeKeyterms).                         *)
THEOREM MergedKeytermsComplete ==
  ASSUME NEW configured \in Seq(Seq(Nat)), NEW terms \in Seq(Seq(Nat)),
         NEW limit \in Nat
  PROVE  Complete(MergeKeyterms(configured, terms, limit), configured, terms, limit)
<1> DEFINE all == configured \o terms
           merged == MergeKeyterms(configured, terms, limit)
           Wanted == (FoldAll(configured) \cup FoldAll(terms)) \ {<<>>}
           Given == FoldAll(merged)
<1>1. merged \in Seq(Seq(Nat)) /\ Merges(merged, all, Len(all), limit)
  BY MergesAll
<1>2. /\ all \in Seq(Seq(Nat)) /\ Len(all) \in Nat
      /\ DOMAIN all = 1..Len(all)
      /\ \A i \in 1..Len(all) : all[i] \in Seq(Nat)
      /\ ToSet(all) = ToSet(configured) \cup ToSet(terms)
  <2>1. all \in Seq(Seq(Nat)) /\ ToSet(all) = ToSet(configured) \cup ToSet(terms)
    BY ConcatHolds
  <2>2. Len(all) \in Nat /\ DOMAIN all = 1..Len(all)
    BY <2>1, LenProperties
  <2>3. \A i \in 1..Len(all) : all[i] \in Seq(Nat)
    BY <2>1, ElementOfSeq
  <2>4. QED BY <2>1, <2>2, <2>3
<1>3. /\ Len(merged) \in Nat /\ DOMAIN merged = 1..Len(merged)
      /\ \A k \in DOMAIN merged : merged[k] \in Seq(Nat)
  BY <1>1
<1> HIDE DEF all, merged
<1>4. Wanted = {Fold(all[i]) : i \in 1..Len(all)} \ {<<>>}
  <2>1. ToSet(all) = {all[i] : i \in 1..Len(all)}
    BY <1>2 DEF ToSet
  <2>2. QED BY <1>2, <2>1 DEF FoldAll
<1>5. Given = {Fold(merged[k]) : k \in 1..Len(merged)}
  BY <1>3 DEF FoldAll, ToSet
<1> HIDE DEF Wanted, Given
<1>6. IsFiniteSet(Given) /\ Cardinality(Given) = Len(merged)
  <2> DEFINE folded == [k \in 1..Len(merged) |-> Fold(merged[k])]
  <2>1. folded \in Bijection(1..Len(merged), Given)
    <3>1. folded \in [1..Len(merged) -> Given]
      BY <1>5
    <3>2. \A j, k \in 1..Len(merged) : folded[j] = folded[k] => j = k
      BY <1>1, <1>3 DEF Merges
    <3>3. \A g \in Given : \E k \in 1..Len(merged) : folded[k] = g
      BY <1>5
    <3> HIDE DEF folded
    <3>4. QED BY <3>1, <3>2, <3>3 DEF Bijection, Injection, Surjection, IsInjective
  <2>2. IsFiniteSet(1..Len(merged)) /\ Cardinality(1..Len(merged)) = Len(merged)
    <3>1. \A n \in Nat : IsFiniteSet(1..n) /\ Cardinality(1..n) = n
      BY FS_Interval
    <3>2. QED BY <1>3, <3>1, Zenon
  <2>3. ExistsBijection(1..Len(merged), Given)
    BY <2>1 DEF ExistsBijection
  <2>4. QED BY <2>2, <2>3, FS_Bijection
<1>7. IsFiniteSet(Wanted)
  <2> DEFINE Folds == {Fold(all[i]) : i \in 1..Len(all)}
             folded == [i \in 1..Len(all) |-> Fold(all[i])]
  <2>1. folded \in Surjection(1..Len(all), Folds)
    BY DEF Surjection
  <2>2. IsFiniteSet(1..Len(all))
    BY <1>2, FS_Interval
  <2> HIDE DEF folded
  <2>3. IsFiniteSet(Folds)
    BY <2>1, <2>2, FS_Surjection
  <2>4. Wanted \in SUBSET Folds
    BY <1>4
  <2>5. QED BY <2>3, <2>4, FS_Subset
<1>8. Given \in SUBSET Wanted
  <2> SUFFICES ASSUME NEW k \in 1..Len(merged) PROVE Fold(merged[k]) \in Wanted
    BY <1>5
  <2>1. merged[k] # <<>> /\ \E i \in 1..Len(all) : merged[k] = all[i]
    BY <1>1, <1>3 DEF Merges
  <2>2. Fold(merged[k]) # <<>>
    BY <1>3, <2>1, FoldOfSome
  <2>3. QED BY <1>4, <2>1, <2>2
<1>9. Cardinality(Wanted) \in Nat /\ Len(merged) <= Cardinality(Wanted)
  BY <1>6, <1>7, <1>8, FS_Subset, FS_CardinalityType
<1>10. Len(merged) <= limit
  BY <1>1 DEF Merges
<1>11. ASSUME Len(merged) < limit PROVE Len(merged) = Cardinality(Wanted)
  <2>1. ASSUME NEW i \in 1..Len(all), Fold(all[i]) # <<>>
        PROVE  Fold(all[i]) \in Given
    <3>1. all[i] # <<>>
      BY <2>1 DEF Fold
    <3>2. PICK k \in 1..Len(merged) : Fold(merged[k]) = Fold(all[i])
      BY <1>1, <1>3, <1>11, <3>1 DEF Merges
    <3>3. QED BY <1>5, <3>2
  <2>2. Given = Wanted
    BY <1>4, <1>8, <2>1
  <2>3. QED BY <1>6, <2>2
<1> DEFINE both == {limit, Cardinality(Wanted)}
<1>12. SmallestOf(both) \in both /\ \A y \in both : SmallestOf(both) <= y
  <2>1. both \in SUBSET Nat /\ both # {}
    BY <1>9
  <2>2. QED BY <2>1, SmallestIsLeast, Zenon
<1>13. Len(merged) = SmallestOf(both)
  <2>1. CASE Len(merged) = limit
    BY <1>3, <1>9, <1>12, <2>1
  <2>2. CASE Len(merged) = Cardinality(Wanted)
    BY <1>3, <1>9, <1>10, <1>12, <2>2
  <2>3. Len(merged) < limit \/ Len(merged) = limit
    <3>1. \A m, n \in Nat : m <= n => m < n \/ m = n
      OBVIOUS
    <3>2. QED BY <1>3, <1>10, <3>1, Zenon
  <2>4. QED BY <1>11, <2>1, <2>2, <2>3, Zenon
<1>14. QED BY <1>6, <1>13 DEF Complete, Wanted, Given, merged

(* The keyterms a vocabulary offers are texts. *)
LEMMA KeytermsAreTexts ==
  ASSUME NEW list, IsList(list), Distinct(list), NEW maxRunes, NEW maxWords
  PROVE  Keyterms(list, maxRunes, maxWords) \in Seq(Seq(Nat))
<1> DEFINE L == Listing(list)
           fit == {n \in DOMAIN L : /\ Len(L[n].canonical) < maxRunes
                                    /\ Len(Words(L[n].canonical)) \in 1..maxWords}
           terms == [n \in 1..Cardinality(fit) |-> L[Nth(fit, n)].canonical]
<1>1. Keyterms(list, maxRunes, maxWords) = terms
  BY Zenon DEF Keyterms
<1>2. IsList(L)
  BY ListingKeeps
<1> HIDE DEF L
<1>3. /\ Len(L) \in Nat /\ DOMAIN L = 1..Len(L)
      /\ \A n \in DOMAIN L : L[n].canonical \in Seq(Nat)
  BY <1>2, SeqHas DEF IsList, IsEntry
<1>4. /\ fit \in SUBSET Nat /\ IsFiniteSet(fit)
      /\ Cardinality(fit) \in Nat /\ fit \subseteq DOMAIN L
  <2>1. fit \in SUBSET (1..Len(L))
    BY <1>3
  <2> HIDE DEF fit
  <2>2. IsFiniteSet(1..Len(L))
    BY <1>3, FS_Interval
  <2>3. IsFiniteSet(fit)
    BY <2>1, <2>2, FS_Subset
  <2>4. QED BY <1>3, <2>1, <2>3, FS_CardinalityType
<1> HIDE DEF fit
<1>5. \A n \in 1..Cardinality(fit) : L[Nth(fit, n)].canonical \in Seq(Nat)
  BY <1>3, <1>4, NthIsThere
<1>6. terms \in [1..Cardinality(fit) -> Seq(Nat)]
  BY <1>5
<1> HIDE DEF terms
<1>7. QED BY <1>1, <1>4, <1>6, FunctionInSeq

(* So it is in every state of the vocabulary file, for the keyterms        *)
(* configured in this run (Keyterms, mergeKeyterms).                       *)
THEOREM KeytermsCompleteAlways ==
  TextsSpec => []KeytermsComplete
<1>1. VocabularyInv => KeytermsComplete
  <2> SUFFICES ASSUME VocabularyInv, NEW limit \in 1..3
               PROVE  LET configured == <<Capitals(Ada), <<>>, Ada>>
                          terms == Keyterms(entries, 6, 1)
                      IN Complete(MergeKeyterms(configured, terms, limit),
                                  configured, terms, limit)
    BY DEF KeytermsComplete
  <2>1. Keyterms(entries, 6, 1) \in Seq(Seq(Nat))
    BY KeytermsAreTexts DEF VocabularyInv
  <2>2. <<Capitals(Ada), <<>>, Ada>> \in Seq(Seq(Nat))
    BY DEF Capitals, Ada, Blank, Cap
  <2>3. limit \in Nat
    OBVIOUS
  <2>4. QED BY <2>1, <2>2, <2>3, MergedKeytermsComplete, Zenon
<1>2. QED BY <1>1, VocabularyAlways, PTL
-----------------------------------------------------------------------------
(* An interval from one tells where it ends. *)
LEMMA SameUpto ==
  \A m, n \in Nat : 1..m = 1..n => m = n
<1> SUFFICES ASSUME NEW m \in Nat, NEW n \in Nat, 1..m = 1..n, m < n PROVE FALSE
  <2>1. \A m, n \in Nat : m = n \/ m < n \/ n < m
    OBVIOUS
  <2>2. QED BY <2>1
<1>1. n \in 1..n /\ n \notin 1..m
  OBVIOUS
<1>2. QED BY <1>1

(* strings.ToLower changes no length. *)
LEMMA FoldLen ==
  ASSUME NEW t \in Seq(Nat)
  PROVE  Fold(t) \in Seq(Nat) /\ Len(Fold(t)) = Len(t)
<1>1. Fold(t) \in Seq(Nat)
  BY FoldIsText
<1>2. DOMAIN Fold(t) = DOMAIN t
  BY DEF Fold
<1>3. /\ Len(t) \in Nat /\ DOMAIN t = 1..Len(t)
      /\ Len(Fold(t)) \in Nat /\ DOMAIN Fold(t) = 1..Len(Fold(t))
  BY <1>1, LenProperties
<1>4. QED BY <1>1, <1>2, <1>3, SameUpto

(* Spellings that are alike in any case are equally long. *)
LEMMA AlikeAreEqual ==
  ASSUME NEW a \in Seq(Nat), NEW b \in Seq(Nat), SameTerm(a, b)
  PROVE  Len(a) = Len(b)
BY FoldLen DEF SameTerm

(* A phrase that is as long as the text or longer occurs in it only as the *)
(* whole text.                                                             *)
LEMMA OccursAsWhole ==
  ASSUME NEW t \in Seq(Nat), NEW h \in Seq(Nat), Len(h) >= Len(t), h # <<>>,
         NEW i \in DOMAIN t, Occurs(t, h, i)
  PROVE  i = 1 /\ SameTerm(h, t)
<1>1. /\ Len(t) \in Nat /\ DOMAIN t = 1..Len(t)
      /\ Len(h) \in Nat /\ Len(h) # 0
  OBVIOUS
<1>2. i + Len(h) - 1 <= Len(t)
  BY DEF Occurs
<1>3. i = 1 /\ i + Len(h) - 1 = Len(t)
  BY <1>1, <1>2
<1>4. SubSeq(t, 1, Len(t)) = t
  OBVIOUS
<1>5. Fold(t) = Fold(h)
  <2>1. Fold(SubSeq(t, i, i + Len(h) - 1)) = Fold(h)
    BY DEF Occurs
  <2>2. QED BY <1>3, <1>4, <2>1
<1>6. QED BY <1>3, <1>5 DEF SameTerm

(* What is left of a text from a position on. *)
LEMMA WhatIsLeft ==
  ASSUME NEW t \in Seq(Nat)
  PROVE  /\ SubSeq(t, 1, Len(t)) = t
         /\ SubSeq(t, Len(t) + 1, Len(t)) = <<>>
         /\ \A i \in 1..Len(t) :
              SubSeq(t, i, Len(t)) = <<t[i]>> \o SubSeq(t, i + 1, Len(t))
<1>1. Len(t) \in Nat
  OBVIOUS
<1>2. SubSeq(t, 1, Len(t)) = t /\ SubSeq(t, Len(t) + 1, Len(t)) = <<>>
  OBVIOUS
<1>3. ASSUME NEW i \in 1..Len(t)
      PROVE  SubSeq(t, i, Len(t)) = <<t[i]>> \o SubSeq(t, i + 1, Len(t))
  <2> DEFINE a == SubSeq(t, i, Len(t))
             b == SubSeq(t, i + 1, Len(t))
             c == <<t[i]>> \o b
  <2>1. /\ a \in Seq(Nat) /\ Len(a) = Len(t) - i + 1
        /\ \A k \in 1..Len(t) - i + 1 : a[k] = t[i + k - 1]
    BY <1>1
  <2>2. /\ b \in Seq(Nat) /\ Len(b) = Len(t) - i
        /\ \A k \in 1..Len(t) - i : b[k] = t[i + k]
    BY <1>1
  <2>3. <<t[i]>> \in Seq(Nat) /\ Len(<<t[i]>>) = 1 /\ <<t[i]>>[1] = t[i]
    BY <1>1
  <2> HIDE DEF b
  <2>4. /\ c \in Seq(Nat) /\ Len(c) = 1 + Len(b)
        /\ \A k \in 1..1 + Len(b) : c[k] = IF k <= 1 THEN t[i] ELSE b[k - 1]
    BY <2>2, <2>3, ConcatProperties
  <2> HIDE DEF a, c
  <2>5. Len(a) = Len(c)
    BY <1>1, <2>1, <2>2, <2>4
  <2>6. ASSUME NEW k \in 1..Len(a) PROVE a[k] = c[k]
    <3>1. CASE k = 1
      <4>1. 1 \in 1..Len(t) - i + 1 /\ 1 \in 1..1 + Len(b) /\ i + 1 - 1 = i
        BY <1>1, <2>2
      <4>2. a[1] = t[i]
        BY <2>1, <4>1
      <4>3. c[1] = t[i]
        BY <2>4, <4>1
      <4>4. QED BY <3>1, <4>2, <4>3
    <3>2. CASE k # 1
      <4>1. k - 1 \in 1..Len(t) - i /\ i + (k - 1) = i + k - 1
        BY <1>1, <2>1, <3>2
      <4>2. c[k] = b[k - 1]
        BY <1>1, <2>1, <2>2, <2>4, <2>5, <3>2
      <4>3. QED BY <2>1, <2>2, <4>1, <4>2
    <3>3. QED BY <3>1, <3>2
  <2>7. a = c
    BY <2>1, <2>4, <2>5, <2>6, SeqEqual
  <2>8. QED BY <2>7 DEF a, b, c
<1>4. QED BY <1>2, <1>3

(* A phrase that occurs nowhere changes nothing. *)
LEMMA NothingReplaced ==
  ASSUME NEW t \in Seq(Nat), NEW h, NEW r,
         h # <<>> => \A i \in DOMAIN t : ~Occurs(t, h, i)
  PROVE  ReplaceWholePhrase(t, h, r) = t
<1> DEFINE len == Len(t)
           rest == CHOOSE f : f = [i \in 1..Len(t) + 1 |->
             IF i > Len(t) THEN <<>>
             ELSE IF Occurs(t, h, i)
               THEN (IF IsWhole(t, h, i) THEN r ELSE SubSeq(t, i, i + Len(h) - 1))
                    \o f[i + Len(h)]
               ELSE <<t[i]>> \o f[i+1]]
           left == [i \in 1..len + 1 |-> SubSeq(t, i, len)]
<1>1. ReplaceWholePhrase(t, h, r) = IF h = <<>> THEN t ELSE rest[1]
  BY Zenon DEF ReplaceWholePhrase
<1>2. len \in Nat /\ DOMAIN t = 1..len
  OBVIOUS
<1>3. ASSUME h # <<>> PROVE rest[1] = t
  <2>1. \A i \in 1..len : ~Occurs(t, h, i)
    BY <1>2, <1>3
  <2>2. \A i \in 1..len + 1 :
          left[i] = IF i > len THEN <<>>
                    ELSE IF Occurs(t, h, i)
                      THEN (IF IsWhole(t, h, i) THEN r ELSE SubSeq(t, i, i + Len(h) - 1))
                           \o left[i + Len(h)]
                      ELSE <<t[i]>> \o left[i+1]
    <3> SUFFICES ASSUME NEW i \in 1..len + 1
                 PROVE  left[i] = IF i > len THEN <<>>
                    ELSE IF Occurs(t, h, i)
                      THEN (IF IsWhole(t, h, i) THEN r ELSE SubSeq(t, i, i + Len(h) - 1))
                           \o left[i + Len(h)]
                      ELSE <<t[i]>> \o left[i+1]
      OBVIOUS
    <3>1. CASE i > len
      <4>1. i = len + 1
        BY <1>2, <3>1
      <4>2. left[i] = SubSeq(t, len + 1, len)
        BY <4>1
      <4>3. SubSeq(t, len + 1, len) = <<>>
        BY WhatIsLeft
      <4> HIDE DEF left
      <4>4. QED BY <3>1, <4>2, <4>3
    <3>2. CASE ~(i > len)
      <4>1. i \in 1..len /\ i + 1 \in 1..len + 1
        BY <1>2, <3>2
      <4>2. left[i] = SubSeq(t, i, len) /\ left[i + 1] = SubSeq(t, i + 1, len)
        BY <4>1
      <4>3. SubSeq(t, i, len) = <<t[i]>> \o SubSeq(t, i + 1, len)
        BY <4>1, WhatIsLeft
      <4>4. ~Occurs(t, h, i)
        BY <2>1, <4>1
      <4> HIDE DEF left
      <4>5. QED BY <3>2, <4>2, <4>3, <4>4
    <3>3. QED BY <3>1, <3>2
  <2>3. left = [i \in 1..len + 1 |->
             IF i > len THEN <<>>
             ELSE IF Occurs(t, h, i)
               THEN (IF IsWhole(t, h, i) THEN r ELSE SubSeq(t, i, i + Len(h) - 1))
                    \o left[i + Len(h)]
               ELSE <<t[i]>> \o left[i+1]]
    <3>1. left = [i \in 1..len + 1 |-> left[i]]
      OBVIOUS
    <3> HIDE DEF left, len
    <3>2. QED BY <2>2, <3>1
  <2> HIDE DEF left
  <2>4. rest = [i \in 1..len + 1 |->
             IF i > len THEN <<>>
             ELSE IF Occurs(t, h, i)
               THEN (IF IsWhole(t, h, i) THEN r ELSE SubSeq(t, i, i + Len(h) - 1))
                    \o rest[i + Len(h)]
               ELSE <<t[i]>> \o rest[i+1]]
    BY <2>3, Zenon
  <2> HIDE DEF rest, len
  <2>5. rest[len + 1] = <<>> /\ \A i \in 1..len : rest[i] = <<t[i]>> \o rest[i+1]
    <3>1. /\ len + 1 \in 1..len + 1 /\ len + 1 > len
          /\ \A i \in 1..len : i \in 1..len + 1 /\ ~(i > len)
      BY <1>2
    <3>2. \A i \in 1..len + 1 :
            rest[i] = IF i > len THEN <<>>
                      ELSE IF Occurs(t, h, i)
                        THEN (IF IsWhole(t, h, i) THEN r ELSE SubSeq(t, i, i + Len(h) - 1))
                             \o rest[i + Len(h)]
                        ELSE <<t[i]>> \o rest[i+1]
      BY <2>4, Zenon
    <3>3. QED BY <2>1, <3>1, <3>2, Zenon
  <2> DEFINE Done(k) == rest[len + 1 - k] = SubSeq(t, len + 1 - k, len)
             S == {k \in Nat : k <= len => Done(k)}
  <2>6. 0 \in S
    <3>1. SubSeq(t, len + 1, len) = <<>>
      BY WhatIsLeft DEF len
    <3>2. len + 1 - 0 = len + 1
      BY <1>2
    <3>3. QED BY <2>5, <3>1, <3>2
  <2>7. ASSUME NEW k \in Nat, k \in S, k + 1 <= len
        PROVE  Done(k + 1)
    <3> DEFINE i == len + 1 - (k + 1)
    <3>5. k <= len /\ Done(k)
      BY <1>2, <2>7
    <3>1. i \in 1..len /\ i + 1 = len + 1 - k /\ k <= len
      BY <1>2, <2>7
    <3> HIDE DEF i
    <3>2. rest[i + 1] = SubSeq(t, i + 1, len)
      BY <3>1, <3>5
    <3>3. rest[i] = <<t[i]>> \o SubSeq(t, i + 1, len)
      BY <2>5, <3>1, <3>2
    <3>4. QED BY <3>1, <3>3, WhatIsLeft DEF i, len
  <2>8. \A k \in Nat : k \in S => k + 1 \in S
    <3> HIDE DEF Done
    <3>1. QED BY <2>7
  <2> HIDE DEF S
  <2>9. len \in S
    BY <1>2, <2>6, <2>8, AllNaturals
  <2>10. rest[1] = SubSeq(t, 1, len)
    <3>1. len + 1 - len = 1 /\ len <= len
      BY <1>2
    <3>2. QED BY <2>9, <3>1 DEF S
  <2>11. QED BY <2>10, WhatIsLeft DEF len
<1>4. QED BY <1>1, <1>3

(* A phrase that is the whole text is replaced. *)
LEMMA AllReplaced ==
  ASSUME NEW t \in Seq(Nat), NEW h \in Seq(Nat), NEW r \in Seq(Nat), h # <<>>,
         SameTerm(h, t)
  PROVE  ReplaceWholePhrase(t, h, r) = r
<1> DEFINE len == Len(t)
           Round(f, i) ==
             IF i > Len(t) THEN <<>>
             ELSE IF Occurs(t, h, i)
               THEN (IF IsWhole(t, h, i) THEN r ELSE SubSeq(t, i, i + Len(h) - 1))
                    \o f[i + Len(h)]
               ELSE <<t[i]>> \o f[i+1]
           rest == CHOOSE f : f = [i \in 1..Len(t) + 1 |-> Round(f, i)]
           left == [i \in 1..len + 1 |-> IF i = 1 THEN r ELSE SubSeq(t, i, len)]
<1>1. ReplaceWholePhrase(t, h, r) = rest[1]
  BY Zenon DEF ReplaceWholePhrase
<1>2. len \in Nat /\ DOMAIN t = 1..len /\ Len(h) = len /\ len # 0
  BY AlikeAreEqual
<1>3. SubSeq(t, 1, len) = t /\ SubSeq(t, len + 1, len) = <<>>
  BY WhatIsLeft
<1>4. Occurs(t, h, 1) /\ IsWhole(t, h, 1)
  <2>1. 1 + Len(h) - 1 = len /\ 1 + Len(h) > Len(t)
    BY <1>2
  <2>2. Fold(SubSeq(t, 1, 1 + Len(h) - 1)) = Fold(h)
    BY <1>3, <2>1 DEF SameTerm
  <2>3. 1 + Len(h) - 1 <= Len(t)
    BY <1>2, <2>1
  <2>4. Occurs(t, h, 1)
    BY <2>2, <2>3, Zenon DEF Occurs
  <2>5. QED BY <2>1, <2>4, Zenon DEF IsWhole
<1>5. ASSUME NEW i \in 2..len PROVE ~Occurs(t, h, i)
  <2>1. i \in DOMAIN t /\ i # 1 /\ Len(h) >= Len(t)
    BY <1>2
  <2>2. QED BY <2>1, OccursAsWhole
<1>6. r \o <<>> = r
  OBVIOUS
<1>7. \A i \in 1..len + 1 : left[i] = Round(left, i)
  <2> SUFFICES ASSUME NEW i \in 1..len + 1 PROVE left[i] = Round(left, i)
    OBVIOUS
  <2>1. CASE i = 1
    <3>1. 1 + Len(h) \in 1..len + 1 /\ 1 + Len(h) # 1 /\ 1 + Len(h) = len + 1
      BY <1>2
    <3>2. left[1 + Len(h)] = <<>> /\ left[1] = r
      BY <1>3, <3>1
    <3>3. ~(1 > Len(t))
      BY <1>2
    <3> HIDE DEF left
    <3>4. QED BY <1>4, <1>6, <2>1, <3>2, <3>3
  <2>2. CASE i = len + 1
    <3>1. i > Len(t) /\ i # 1
      BY <1>2, <2>2
    <3>2. left[i] = <<>>
      BY <1>3, <2>2, <3>1
    <3> HIDE DEF left
    <3>3. QED BY <3>1, <3>2
  <2>3. CASE i \in 2..len
    <3>1. i \in 1..len /\ i + 1 \in 1..len + 1 /\ i # 1 /\ i + 1 # 1 /\ ~(i > Len(t))
      BY <1>2, <2>3
    <3>2. left[i] = SubSeq(t, i, len) /\ left[i + 1] = SubSeq(t, i + 1, len)
      BY <3>1
    <3>3. SubSeq(t, i, len) = <<t[i]>> \o SubSeq(t, i + 1, len)
      BY <3>1, WhatIsLeft
    <3> HIDE DEF left
    <3>4. QED BY <1>5, <2>3, <3>1, <3>2, <3>3
  <2>4. i = 1 \/ i = len + 1 \/ i \in 2..len
    BY <1>2
  <2>5. QED BY <2>1, <2>2, <2>3, <2>4
<1>8. left = [i \in 1..Len(t) + 1 |-> Round(left, i)]
  <2>1. left = [i \in 1..Len(t) + 1 |-> left[i]]
    OBVIOUS
  <2> HIDE DEF left, Round
  <2>2. QED BY <1>7, <2>1
<1> HIDE DEF left
<1>9. rest = [i \in 1..Len(t) + 1 |-> Round(rest, i)]
  BY <1>8, Zenon
<1> HIDE DEF rest
<1>10. rest[len + 1] = <<>>
  <2>1. len + 1 \in 1..Len(t) + 1 /\ len + 1 > Len(t)
    BY <1>2
  <2>2. QED BY <1>9, <2>1
<1>11. rest[1] = r \o rest[1 + Len(h)]
  <2>1. 1 \in 1..Len(t) + 1 /\ ~(1 > Len(t))
    BY <1>2
  <2>2. rest[1] = Round(rest, 1)
    BY <1>9, <2>1
  <2>3. QED BY <1>4, <2>1, <2>2
<1>12. 1 + Len(h) = len + 1
  BY <1>2
<1>13. QED BY <1>1, <1>6, <1>10, <1>11, <1>12
-----------------------------------------------------------------------------
(* A correction as Apply makes them: what is heard, and what is written.   *)
CorrectionType == [heard : Seq(Nat), canonical : Seq(Nat)]

(* List loses no entry and adds none. *)
LEMMA ListingHolds ==
  ASSUME NEW list, IsList(list)
  PROVE  /\ IsList(Listing(list))
         /\ ToSet(Listing(list)) = ToSet(list)
<1> DEFINE L == Listing(list)
           D == DOMAIN list
<1>1. PICK p \in Injection(D, D) : L = [n \in D |-> list[p[n]]]
  BY ListingRenumbers
<1>2. Len(list) \in Nat /\ D = 1..Len(list) /\ \A n \in D : IsEntry(list[n])
  BY SeqHas DEF IsList
<1> HIDE DEF L, D
<1>3. IsFiniteSet(D)
  BY <1>2, FS_Interval
<1>4. p \in Surjection(D, D)
  BY <1>1, <1>3, FS_Injection
<1>5. p \in [D -> D] /\ \A n \in D : \E m \in D : p[m] = n
  BY <1>4 DEF Surjection
<1>6. DOMAIN L = D /\ \A n \in D : L[n] = list[p[n]]
  BY <1>1
<1>7. IsList(L)
  <2>1. L = [n \in 1..Len(list) |-> L[n]]
    BY <1>1, <1>2
  <2>2. IsSeq(L)
    BY <1>2, <2>1, FunctionIs
  <2>3. QED BY <1>2, <1>5, <1>6, <2>2 DEF IsList
<1>8. ToSet(L) = ToSet(list)
  <2>1. ToSet(L) = {L[n] : n \in D} /\ ToSet(list) = {list[n] : n \in D}
    BY <1>6 DEF ToSet, D
  <2>2. QED BY <1>5, <1>6, <2>1
<1>9. QED BY <1>7, <1>8 DEF L

(* The corrections one entry makes. *)
LEMMA CorrectionsOfOne ==
  ASSUME NEW e, IsEntry(e)
  PROVE  LET of == [n \in 1..Len(e.aliases) + 1 |->
                      [heard |-> (<<e.canonical>> \o e.aliases)[n],
                       canonical |-> e.canonical]]
         IN /\ of \in Seq(CorrectionType)
            /\ \A c \in ToSet(of) : c.heard \in HeardBy(e) /\ c.canonical = e.canonical
            /\ \A h \in HeardBy(e) :
                 \E c \in ToSet(of) : c.heard = h /\ c.canonical = e.canonical
<1> DEFINE one == <<e.canonical>>
           all == one \o e.aliases
           len == Len(e.aliases) + 1
           of == [n \in 1..len |-> [heard |-> all[n], canonical |-> e.canonical]]
<1>1. e.canonical \in Seq(Nat) /\ e.aliases \in Seq(Seq(Nat))
  <2>1. /\ e.canonical \in Seq(Nat) /\ IsSeq(e.aliases)
        /\ \A i \in DOMAIN e.aliases : e.aliases[i] \in Seq(Nat)
    BY DEF IsEntry
  <2>2. {e.aliases[i] : i \in DOMAIN e.aliases} \subseteq Seq(Nat)
    BY <2>1
  <2>3. QED BY <2>1, <2>2, SeqMonotonic DEF IsSeq
<1>2. one \in Seq(Seq(Nat)) /\ Len(one) = 1 /\ ToSet(one) = {e.canonical}
  <2>1. one \in Seq(Seq(Nat)) /\ Len(one) = 1 /\ DOMAIN one = {1} /\ one[1] = e.canonical
    BY <1>1
  <2> HIDE DEF one
  <2>2. QED BY <2>1 DEF ToSet
<1> HIDE DEF one
<1>3. /\ all \in Seq(Seq(Nat)) /\ Len(all) = len /\ len \in Nat
      /\ ToSet(all) = {e.canonical} \cup ToSet(e.aliases)
  <2>1. all \in Seq(Seq(Nat)) /\ ToSet(all) = {e.canonical} \cup ToSet(e.aliases)
    BY <1>1, <1>2, ConcatHolds
  <2>2. Len(all) = Len(one) + Len(e.aliases)
    BY <1>1, <1>2, ConcatProperties
  <2>4. Len(e.aliases) \in Nat
    BY <1>1, LenProperties
  <2>5. Len(all) = len /\ len \in Nat
    <3> HIDE DEF all
    <3>1. QED BY <1>2, <2>2, <2>4
  <2>3. QED BY <2>1, <2>5
<1> HIDE DEF all, len
<1>4. DOMAIN all = 1..len /\ \A n \in 1..len : all[n] \in Seq(Nat)
  BY <1>3, LenProperties, ElementOfSeq
<1>5. ToSet(all) = HeardBy(e) /\ ToSet(all) = {all[n] : n \in 1..len}
  BY <1>3, <1>4 DEF HeardBy, ToSet
<1>6. of \in [1..len -> CorrectionType]
  BY <1>1, <1>4 DEF CorrectionType
<1>7. /\ DOMAIN of = 1..len
      /\ \A n \in 1..len : of[n].heard = all[n] /\ of[n].canonical = e.canonical
  OBVIOUS
<1> HIDE DEF of
<1>8. of \in Seq(CorrectionType)
  BY <1>3, <1>6, FunctionInSeq
<1>9. ToSet(of) = {of[n] : n \in 1..len}
  BY <1>7 DEF ToSet
<1>10. \A c \in ToSet(of) : c.heard \in HeardBy(e) /\ c.canonical = e.canonical
  BY <1>5, <1>7, <1>9
<1>11. \A h \in HeardBy(e) : \E c \in ToSet(of) : c.heard = h /\ c.canonical = e.canonical
  BY <1>5, <1>7, <1>9
<1>12. QED BY <1>8, <1>10, <1>11 DEF of, all, one, len

(* Apply corrects what some entry hears, and all that one hears.           *)
LEMMA CorrectionsAre ==
  ASSUME NEW list, IsList(list)
  PROVE  /\ Corrections(list) \in Seq(CorrectionType)
         /\ \A c \in ToSet(Corrections(list)) : \E e \in ToSet(list) :
              c.heard \in HeardBy(e) /\ c.canonical = e.canonical
         /\ \A e \in ToSet(list) : \A h \in HeardBy(e) :
              \E c \in ToSet(Corrections(list)) : c.heard = h /\ c.canonical = e.canonical
<1> DEFINE of(e) == [n \in 1..Len(e.aliases) + 1 |->
                       [heard |-> (<<e.canonical>> \o e.aliases)[n],
                        canonical |-> e.canonical]]
           L == Listing(list)
           parts == [n \in DOMAIN L |-> of(L[n])]
<1>1. Corrections(list) = FlattenSeq(parts)
  BY Zenon DEF Corrections
<1>2. IsList(L) /\ ToSet(L) = ToSet(list)
  BY ListingHolds
<1> HIDE DEF L
<1>3. /\ Len(L) \in Nat /\ DOMAIN L = 1..Len(L)
      /\ \A n \in DOMAIN L : IsEntry(L[n])
      /\ ToSet(list) = {L[n] : n \in DOMAIN L}
  BY <1>2, SeqHas DEF IsList, ToSet
<1>4. ASSUME NEW e, IsEntry(e)
      PROVE  /\ of(e) \in Seq(CorrectionType)
             /\ \A c \in ToSet(of(e)) : c.heard \in HeardBy(e) /\ c.canonical = e.canonical
             /\ \A h \in HeardBy(e) :
                  \E c \in ToSet(of(e)) : c.heard = h /\ c.canonical = e.canonical
  BY <1>4, CorrectionsOfOne, Zenon
<1> HIDE DEF of
<1>5. parts \in Seq(Seq(CorrectionType)) /\ Len(parts) = Len(L)
  <2>1. parts \in [1..Len(L) -> Seq(CorrectionType)]
    BY <1>3, <1>4
  <2> HIDE DEF parts
  <2>2. parts \in Seq(Seq(CorrectionType))
    BY <1>3, <2>1, FunctionInSeq
  <2>3. DOMAIN parts = 1..Len(L)
    BY <2>1
  <2>4. QED BY <1>3, <2>2, <2>3, LenProperties, SameUpto
<1>6. /\ FlattenSeq(parts) \in Seq(CorrectionType)
      /\ ToSet(FlattenSeq(parts)) = UNION {ToSet(parts[n]) : n \in 1..Len(parts)}
  <2> HIDE DEF parts
  <2>1. QED BY <1>5, FlattenHolds
<1>7. ToSet(FlattenSeq(parts)) = UNION {ToSet(of(L[n])) : n \in DOMAIN L}
  <2>1. \A n \in DOMAIN L : parts[n] = of(L[n])
    OBVIOUS
  <2> HIDE DEF parts
  <2>2. QED BY <1>3, <1>5, <1>6, <2>1
<1> HIDE DEF parts
<1>8. ToSet(Corrections(list)) = UNION {ToSet(of(L[n])) : n \in DOMAIN L}
  BY <1>1, <1>7
<1>9. ASSUME NEW c \in ToSet(Corrections(list))
      PROVE  \E e \in ToSet(list) : c.heard \in HeardBy(e) /\ c.canonical = e.canonical
  <2>1. PICK n \in DOMAIN L : c \in ToSet(of(L[n]))
    BY <1>8
  <2>2. c.heard \in HeardBy(L[n]) /\ c.canonical = L[n].canonical
    BY <1>3, <1>4, <2>1
  <2>3. QED BY <1>3, <2>2
<1>10. ASSUME NEW e \in ToSet(list), NEW h \in HeardBy(e)
       PROVE  \E c \in ToSet(Corrections(list)) : c.heard = h /\ c.canonical = e.canonical
  <2>1. PICK n \in DOMAIN L : e = L[n]
    BY <1>3
  <2>2. PICK c \in ToSet(of(L[n])) : c.heard = h /\ c.canonical = e.canonical
    BY <1>3, <1>4, <2>1
  <2>3. QED BY <1>8, <2>2
<1>11. QED BY <1>1, <1>6, <1>9, <1>10

(* A smaller element has a smaller rank. *)
LEMMA RanksFollow ==
  ASSUME NEW S, IsFiniteSet(S), NEW R, Orders(R, S), NEW x \in S, NEW y \in S,
         <<x, y>> \in R
  PROVE  Ranks(R, S)[x] < Ranks(R, S)[y]
<1> DEFINE A == Below(R, S, x)
           B == Below(R, S, y)
<1>1. A \in SUBSET B /\ x \in B /\ x \notin A
  BY DEF Orders, Below
<1>2. B \in SUBSET S
  BY DEF Below
<1>3. Ranks(R, S)[x] = Cardinality(A) + 1 /\ Ranks(R, S)[y] = Cardinality(B) + 1
  BY DEF Ranks
<1> HIDE DEF A, B
<1>4. IsFiniteSet(B)
  BY <1>2, FS_Subset
<1>5. /\ IsFiniteSet(A) /\ Cardinality(A) <= Cardinality(B)
      /\ Cardinality(B) = Cardinality(A) => B = A
  BY <1>1, <1>4, FS_Subset
<1>6. Cardinality(A) \in Nat /\ Cardinality(B) \in Nat
  BY <1>4, <1>5, FS_CardinalityType
<1>7. Cardinality(A) # Cardinality(B)
  BY <1>1, <1>5
<1>8. Cardinality(A) < Cardinality(B)
  BY <1>5, <1>6, <1>7
<1>9. QED BY <1>3, <1>6, <1>8

(* sort.SliceStable by length: the same corrections, none before a longer. *)
LEMMA LongestComeFirst ==
  ASSUME NEW cs \in Seq(CorrectionType)
  PROVE  LET L == LongestFirst(cs)
         IN /\ L \in Seq(CorrectionType)
            /\ ToSet(L) = ToSet(cs)
            /\ \A m, n \in DOMAIN L : m < n => Len(L[m].heard) >= Len(L[n].heard)
<1> DEFINE D == DOMAIN cs
           f(n) == Len(cs[n].heard)
           earlier(m, n) == \/ f(m) > f(n)
                            \/ ~(f(n) > f(m)) /\ m < n
           R == {q \in D \X D : earlier(q[1], q[2])}
           rank == Ranks(R, D)
           p == [n \in D |-> CHOOSE m \in D : rank[m] = n]
           L == LongestFirst(cs)
<1>1. Len(cs) \in Nat /\ D = 1..Len(cs) /\ \A n \in D : cs[n] \in CorrectionType
  OBVIOUS
<1>2. \A n \in D : f(n) \in Nat
  BY <1>1, LenProperties DEF CorrectionType
<1> HIDE DEF f, D
<1>3. \A m, n \in D : <<m, n>> \in R <=> earlier(m, n)
  OBVIOUS
<1> HIDE DEF R
<1>4. Orders(R, D)
  <2>1. D \in SUBSET Nat
    BY <1>1
  <2>2. \A m \in D : ~earlier(m, m)
    BY <1>2, <2>1
  <2>3. \A m, n \in D : m = n \/ earlier(m, n) \/ earlier(n, m)
    BY <1>2, <2>1
  <2>4. \A l, m, n \in D : earlier(l, m) /\ earlier(m, n) => earlier(l, n)
    BY <1>2, <2>1
  <2> HIDE DEF earlier
  <2>5. QED BY <1>3, <2>2, <2>3, <2>4 DEF Orders
<1>5. IsFiniteSet(D) /\ Cardinality(D) = Len(cs)
  <2>1. \A n \in Nat : IsFiniteSet(1..n) /\ Cardinality(1..n) = n
    BY FS_Interval
  <2>2. QED BY <1>1, <2>1, Zenon
<1>6. rank \in Bijection(D, D)
  BY <1>1, <1>4, <1>5, Ranked
<1>7. \A n \in D : p[n] \in D /\ rank[p[n]] = n
  BY <1>6 DEF Bijection, Surjection
<1>8. \A m \in D : rank[m] \in D /\ p[rank[m]] = m
  <2>1. rank \in [D -> D] /\ \A m, n \in D : rank[m] = rank[n] => m = n
    BY <1>6 DEF Bijection, Injection, IsInjective
  <2> HIDE DEF rank, p
  <2>2. QED BY <1>7, <2>1
<1>9. L = [n \in D |-> cs[p[n]]]
  <2> DEFINE places == [m \in D |-> Cardinality({k \in D : earlier(k, m)}) + 1]
  <2>1. L = [n \in D |-> cs[CHOOSE m \in D : places[m] = n]]
    BY Zenon DEF LongestFirst, Stably, f, D
  <2>2. places = rank
    <3>1. \A m \in D : {k \in D : earlier(k, m)} = Below(R, D, m)
      BY <1>3 DEF Below
    <3>2. QED BY <3>1 DEF Ranks
  <2> HIDE DEF rank, places, L
  <2> DEFINE place(n) == CHOOSE m \in D : rank[m] = n
  <2>3. L = [n \in D |-> cs[place(n)]]
    BY <2>1, <2>2
  <2>4. \A n \in D : p[n] = place(n)
    OBVIOUS
  <2> HIDE DEF p, place
  <2>5. QED BY <2>3, <2>4
<1> HIDE DEF L, p
<1>10. DOMAIN L = D /\ \A n \in D : L[n] = cs[p[n]]
  BY <1>9
<1>11. L \in Seq(CorrectionType)
  <2>1. L \in [1..Len(cs) -> CorrectionType]
    BY <1>1, <1>7, <1>9
  <2>2. QED BY <1>1, <2>1, FunctionInSeq
<1>12. ToSet(L) = ToSet(cs)
  <2>1. ToSet(L) = {L[n] : n \in D} /\ ToSet(cs) = {cs[n] : n \in D}
    BY <1>10 DEF ToSet, D
  <2> HIDE DEF rank
  <2>2. QED BY <1>7, <1>8, <1>10, <2>1
<1>13. ASSUME NEW m \in D, NEW n \in D, m < n PROVE f(p[m]) >= f(p[n])
  <2>1. p[m] \in D /\ p[n] \in D /\ rank[p[m]] = m /\ rank[p[n]] = n
    BY <1>7
  <2>2. f(p[m]) \in Nat /\ f(p[n]) \in Nat /\ m \in Nat /\ n \in Nat
    BY <1>1, <1>2, <2>1
  <2>3. CASE f(p[n]) > f(p[m])
    <3>1. <<p[n], p[m]>> \in R
      BY <1>3, <2>1, <2>3
    <3>2. rank[p[n]] < rank[p[m]]
      BY <1>4, <1>5, <2>1, <3>1, RanksFollow
    <3> HIDE DEF rank
    <3>3. n < m
      BY <2>1, <3>2
    <3>4. QED BY <1>13, <2>2, <3>3
  <2>4. QED BY <2>2, <2>3
<1>14. \A m, n \in DOMAIN L : m < n => Len(L[m].heard) >= Len(L[n].heard)
  BY <1>10, <1>13 DEF f
<1>15. QED BY <1>11, <1>12, <1>14 DEF L

(* What one entry alone hears is written as that entry has it, when no     *)
(* correction changes that spelling.  Before the first correction whose    *)
(* phrase is the text there are only longer ones, or equally long ones of  *)
(* other letters, and these do not occur in it; that correction writes the *)
(* spelling; and the ones after it leave the spelling as it is.            *)
LEMMA WrittenAsHeard ==
  ASSUME NEW list, IsList(list), NEW e \in ToSet(list), NEW h \in HeardBy(e),
         \A f \in ToSet(list) \ {e} : \A o \in HeardBy(f) : ~SameTerm(o, h),
         \A c \in ToSet(Corrections(list)) :
           ReplaceWholePhrase(e.canonical, c.heard, c.canonical) = e.canonical
  PROVE  Apply(h, list) = e.canonical
<1> DEFINE cs == Corrections(list)
           L == LongestFirst(cs)
           len == Len(L)
           Round(n, t) == ReplaceWholePhrase(t, L[n].heard, L[n].canonical)
           written == CHOOSE f : f = [n \in 0..len |->
                        IF n = 0 THEN h ELSE Round(n, f[n-1])]
           hits == {n \in 1..len : SameTerm(L[n].heard, h)}
           first == SmallestOf(hits)
           stages == [n \in 0..len |-> IF n < first THEN h ELSE e.canonical]
<1>1. Apply(h, list) = written[len]
  BY Zenon DEF Apply
<1>2. /\ cs \in Seq(CorrectionType)
      /\ \A c \in ToSet(cs) : \E f \in ToSet(list) :
           c.heard \in HeardBy(f) /\ c.canonical = f.canonical
      /\ \A o \in HeardBy(e) : \E c \in ToSet(cs) : c.heard = o /\ c.canonical = e.canonical
  BY CorrectionsAre, Zenon
<1>3. \A c \in ToSet(cs) :
        ReplaceWholePhrase(e.canonical, c.heard, c.canonical) = e.canonical
  OBVIOUS
<1> HIDE DEF cs
<1>4. /\ L \in Seq(CorrectionType) /\ ToSet(L) = ToSet(cs)
      /\ \A m, n \in DOMAIN L : m < n => Len(L[m].heard) >= Len(L[n].heard)
  BY <1>2, LongestComeFirst
<1> HIDE DEF L
<1>5. /\ len \in Nat /\ DOMAIN L = 1..len
      /\ \A n \in 1..len : L[n].heard \in Seq(Nat) /\ L[n].canonical \in Seq(Nat)
      /\ ToSet(cs) = {L[n] : n \in 1..len}
  <2>1. len \in Nat /\ DOMAIN L = 1..len
    BY <1>4, LenProperties
  <2>2. \A n \in 1..len : L[n] \in CorrectionType
    BY <1>4, ElementOfSeq
  <2>3. QED BY <1>4, <2>1, <2>2 DEF CorrectionType, ToSet
<1> HIDE DEF len
<1>6. IsEntry(e)
  BY DEF IsList, ToSet
<1>7. h \in Seq(Nat) /\ e.canonical \in Seq(Nat) /\ (h = <<>> => e.canonical = h)
  <2>1. /\ e.canonical \in Seq(Nat)
        /\ \A i \in DOMAIN e.aliases : e.aliases[i] \in Seq(Nat) \ {<<>>}
    BY <1>6 DEF IsEntry
  <2>2. h = e.canonical \/ \E i \in DOMAIN e.aliases : h = e.aliases[i]
    BY DEF HeardBy, ToSet
  <2>3. QED BY <2>1, <2>2
<1>8. first \in hits /\ \A n \in hits : first <= n
  <2>1. PICK c \in ToSet(cs) : c.heard = h
    BY <1>2
  <2>2. PICK n \in 1..len : c = L[n]
    BY <1>5, <2>1
  <2>3. SameTerm(L[n].heard, h)
    BY <2>1, <2>2 DEF SameTerm
  <2>4. hits \in SUBSET Nat /\ hits # {}
    <3>1. \A k \in 1..len : k \in Nat
      BY <1>5
    <3>2. n \in hits
      BY <2>3
    <3>3. \A k \in hits : k \in 1..len
      OBVIOUS
    <3> HIDE DEF hits
    <3>4. QED BY <3>1, <3>2, <3>3
  <2> HIDE DEF hits
  <2>5. QED BY <2>4, SmallestIsLeast, Zenon
<1> HIDE DEF first
<1>9. first \in 1..len /\ SameTerm(L[first].heard, h)
  BY <1>8
<1>10. ASSUME NEW n \in 1..len, n < first PROVE Round(n, h) = h
  <2>1. L[n].heard \in Seq(Nat) /\ ~SameTerm(L[n].heard, h)
    <3>1. n \notin hits
      BY <1>5, <1>8, <1>9, <1>10
    <3>2. QED BY <1>5, <3>1
  <2>2. Len(L[n].heard) >= Len(h)
    <3>1. Len(L[n].heard) >= Len(L[first].heard)
      BY <1>4, <1>5, <1>9, <1>10
    <3>2. Len(L[first].heard) = Len(h)
      BY <1>5, <1>7, <1>9, AlikeAreEqual
    <3>3. QED BY <3>1, <3>2
  <2>3. L[n].heard # <<>> => \A i \in DOMAIN h : ~Occurs(h, L[n].heard, i)
    BY <1>7, <2>1, <2>2, OccursAsWhole
  <2>4. QED BY <1>7, <2>3, NothingReplaced
<1>11. Round(first, h) = e.canonical
  <2>1. L[first].heard \in Seq(Nat) /\ L[first].canonical \in Seq(Nat)
    BY <1>5, <1>9
  <2>2. L[first].canonical = e.canonical
    <3>1. PICK f \in ToSet(list) : /\ L[first].heard \in HeardBy(f)
                                   /\ L[first].canonical = f.canonical
      BY <1>2, <1>5, <1>9
    <3>2. f = e
      BY <1>9, <3>1
    <3>3. QED BY <3>1, <3>2
  <2>3. CASE L[first].heard # <<>>
    BY <1>7, <1>9, <2>1, <2>2, <2>3, AllReplaced
  <2>4. CASE L[first].heard = <<>>
    <3>1. Len(h) = 0
      <4>1. Len(L[first].heard) = Len(h)
        BY <1>7, <1>9, <2>1, AlikeAreEqual
      <4>2. QED BY <2>4, <4>1
    <3>2. h = <<>>
      BY <1>7, <3>1
    <3>3. Round(first, h) = h
      BY <1>7, <2>4, NothingReplaced
    <3>4. QED BY <1>7, <3>2, <3>3
  <2>5. QED BY <2>3, <2>4
<1>12. \A n \in 1..len : Round(n, e.canonical) = e.canonical
  BY <1>3, <1>5
<1> HIDE DEF Round, hits
<1>13. ASSUME NEW n \in 0..len
       PROVE  stages[n] = IF n = 0 THEN h ELSE Round(n, stages[n-1])
  <2>1. first \in Nat /\ first # 0 /\ len \in Nat /\ n \in Nat
    BY <1>5, <1>9
  <2>2. CASE n = 0
    BY <2>1, <2>2
  <2>3. CASE n # 0
    <3>1. n \in 1..len /\ n - 1 \in 0..len
      BY <2>1, <2>3
    <3>2. CASE n < first
      <4>1. n - 1 < first
        BY <2>1, <3>2
      <4>2. stages[n] = h /\ stages[n-1] = h
        BY <3>1, <3>2, <4>1
      <4> HIDE DEF stages
      <4>3. QED BY <1>10, <2>3, <3>1, <3>2, <4>2
    <3>3. CASE n = first
      <4>1. n - 1 < first /\ ~(n < first)
        BY <2>1, <3>3
      <4>2. stages[n] = e.canonical /\ stages[n-1] = h
        BY <3>1, <4>1
      <4> HIDE DEF stages
      <4>3. QED BY <1>11, <2>3, <3>3, <4>2
    <3>4. CASE n > first
      <4>1. ~(n - 1 < first) /\ ~(n < first)
        BY <2>1, <3>4
      <4>2. stages[n] = e.canonical /\ stages[n-1] = e.canonical
        BY <3>1, <4>1
      <4> HIDE DEF stages
      <4>3. QED BY <1>12, <2>3, <3>1, <4>2
    <3>5. n < first \/ n = first \/ n > first
      BY <2>1
    <3>6. QED BY <3>2, <3>3, <3>4, <3>5
  <2>4. QED BY <2>2, <2>3
<1>14. stages = [n \in 0..len |-> IF n = 0 THEN h ELSE Round(n, stages[n-1])]
  <2>1. stages = [n \in 0..len |-> stages[n]]
    OBVIOUS
  <2> HIDE DEF stages
  <2>2. QED BY <1>13, <2>1
<1>15. stages[len] = e.canonical
  BY <1>5, <1>9
<1>16. \A n \in Nat : n + 1 <= len => stages[n+1] = Round(n+1, stages[n])
  <2> SUFFICES ASSUME NEW n \in Nat, n + 1 <= len
               PROVE  stages[n+1] = Round(n+1, stages[n])
    OBVIOUS
  <2>1. n + 1 \in 0..len /\ n + 1 # 0 /\ (n + 1) - 1 = n
    BY <1>5
  <2> HIDE DEF stages
  <2>2. QED BY <1>13, <2>1
<1>17. stages[0] = h
  <2>1. 0 \in 0..len
    BY <1>5
  <2> HIDE DEF stages
  <2>2. QED BY <1>13, <2>1
<1> HIDE DEF stages
<1>18. written = [n \in 0..len |-> IF n = 0 THEN h ELSE Round(n, written[n-1])]
  BY <1>14, Zenon
<1> HIDE DEF written
<1>19. /\ written[0] = h
       /\ \A n \in Nat : n + 1 <= len => written[n+1] = Round(n+1, written[n])
  <2>1. \A n \in 0..len : written[n] = IF n = 0 THEN h ELSE Round(n, written[n-1])
    BY <1>18, Zenon
  <2>2. 0 \in 0..len
    BY <1>5
  <2>3. \A n \in Nat : n + 1 <= len => n + 1 \in 0..len /\ n + 1 # 0 /\ (n + 1) - 1 = n
    BY <1>5
  <2>4. QED BY <2>1, <2>2, <2>3
<1> DEFINE S == {n \in Nat : n <= len => written[n] = stages[n]}
<1>20. 0 \in S
  BY <1>17, <1>19
<1>21. ASSUME NEW n \in Nat, n \in S, n + 1 <= len PROVE written[n+1] = stages[n+1]
  <2>1. written[n] = stages[n]
    BY <1>5, <1>21
  <2>2. QED BY <1>16, <1>19, <1>21, <2>1
<1>22. \A n \in Nat : n \in S => n + 1 \in S
  BY <1>21
<1> HIDE DEF S
<1>23. len \in S
  BY <1>5, <1>20, <1>22, AllNaturals
<1>24. QED BY <1>1, <1>5, <1>15, <1>23 DEF S

(* Whatever the vocabulary has been taught, a transcript that is what one  *)
(* entry hears is written as that entry has it: longest phrases first make *)
(* a full name win over the short names in it (Apply).                     *)
THEOREM FullNameWinsAlways ==
  TextsSpec => []FullNameWins
<1>1. VocabularyInv => FullNameWins
  BY WrittenAsHeard, Zenon DEF VocabularyInv, FullNameWins
<1>2. QED BY <1>1, VocabularyAlways, PTL
-----------------------------------------------------------------------------
(* The edit distance (similarity).                                         *)

(* Two functions agree from 0 on; and they do so by each value from the    *)
(* one before.                                                             *)
Agree(r, s, to) == \A n \in 0..to : r[n] = s[n]
AgreeStepwise(r, s, to) == /\ r[0] = s[0]
                           /\ \A n \in 1..to : r[n-1] = s[n-1] => r[n] = s[n]

(* What is computed alike, value by value from the one before, is the same. *)
LEMMA SameIteration ==
  \A to \in Nat : \A r, s : AgreeStepwise(r, s, to) => Agree(r, s, to)
<1> SUFFICES ASSUME NEW to \in Nat, NEW r, NEW s, r[0] = s[0],
                    \A n \in 1..to : r[n-1] = s[n-1] => r[n] = s[n]
             PROVE  \A n \in 0..to : r[n] = s[n]
  BY DEF Agree, AgreeStepwise
<1> DEFINE S == {k \in Nat : k <= to => r[k] = s[k]}
<1>1. 0 \in S
  OBVIOUS
<1>2. ASSUME NEW k \in Nat, k \in S PROVE k + 1 \in S
  <2>1. k + 1 <= to => k + 1 \in 1..to /\ (k + 1) - 1 = k /\ k <= to
    OBVIOUS
  <2>2. QED BY <1>2, <2>1
<1>3. \A k \in Nat : k \in S
  <2> HIDE DEF S
  <2>1. QED BY <1>1, <1>2, AllNaturals
<1>4. QED BY <1>3
-----------------------------------------------------------------------------
(* The least of three. *)
LEMMA LeastOfThree ==
  ASSUME NEW x \in Nat, NEW y \in Nat, NEW z \in Nat
  PROVE  LET s == SmallestOf({x, y, z}) IN
         /\ s \in Nat /\ s \in {x, y, z}
         /\ s <= x /\ s <= y /\ s <= z
<1>1. {x, y, z} \in SUBSET Nat /\ {x, y, z} # {}
  OBVIOUS
<1>2. QED BY <1>1, SmallestIsLeast

(* A replaced letter costs one, a kept one nothing. *)
Replacing(x, y) == IF y = x THEN 0 ELSE 1

(* One row of the table: each entry from the one before it, the one above  *)
(* and the one above that.                                                 *)
LEMMA NextRowIs ==
  ASSUME NEW S, NEW b \in Seq(S), NEW c, NEW prev \in [1..Len(b) + 1 -> Nat]
  PROVE  LET row == NextRow(prev, c, b) IN
         /\ row \in [1..Len(b) + 1 -> Nat]
         /\ row[1] = prev[1] + 1
         /\ \A j \in 1..Len(b) :
              row[j+1] = SmallestOf({row[j] + 1, prev[j+1] + 1,
                                     prev[j] + Replacing(c, b[j])})
<1> DEFINE len == Len(b)
           least(x, j) == SmallestOf({x + 1, prev[j+1] + 1,
                                      prev[j] + (IF b[j] = c THEN 0 ELSE 1)})
           row == CHOOSE f : f = [j \in 0..Len(b) |->
                    IF j = 0 THEN <<prev[1] + 1>>
                    ELSE Append(f[j-1], least(f[j-1][j], j))]
           step == [q \in Nat \X Nat |->
                      IF q[1] \in 1..len THEN least(q[2], q[1]) ELSE 0]
<1>1. NextRow(prev, c, b) = row[len]
  BY Zenon DEF NextRow
<1>2. len \in Nat /\ \A j \in 1..len + 1 : prev[j] \in Nat
  OBVIOUS
<1> HIDE DEF len
<1>3. ASSUME NEW j \in 1..len, NEW x \in Nat PROVE least(x, j) \in Nat
  <2>1. prev[j] \in Nat /\ prev[j+1] \in Nat
    BY <1>2
  <2> DEFINE y == prev[j+1] + 1
             z == prev[j] + (IF b[j] = c THEN 0 ELSE 1)
  <2>2. x + 1 \in Nat /\ y \in Nat /\ z \in Nat
    BY <2>1
  <2> HIDE DEF y, z
  <2>3. SmallestOf({x + 1, y, z}) \in Nat
    BY <2>2, LeastOfThree, Zenon
  <2>4. QED BY <2>3, Zenon DEF y, z
<1> HIDE DEF least
<1>4. step \in [Nat \X Nat -> Nat]
  BY <1>3
<1>5. \A j \in 1..len, x \in Nat : step[<<j, x>>] = least(x, j)
  <2>1. \A j \in 1..len, x \in Nat : <<j, x>> \in Nat \X Nat
    BY <1>2
  <2>2. QED BY <2>1
<1> HIDE DEF step
<1>6. PICK f : Iteration(f, Nat, 0, len, prev[1] + 1, step)
  <2>1. 0 \in Nat /\ 0 <= len /\ prev[1] + 1 \in Nat
    BY <1>2
  <2>2. QED BY <1>2, <1>4, <2>1, Iterates, Zenon
<1>7. /\ f \in [0..len -> Nat] /\ f[0] = prev[1] + 1
      /\ \A j \in 1..len : f[j] = step[<<j, f[j-1]>>]
  BY <1>6 DEF Iteration
<1>8. \A j \in 1..len : f[j] = least(f[j-1], j)
  <2>1. \A j \in 1..len : j - 1 \in 0..len
    BY <1>2
  <2>2. \A j \in 1..len : f[j-1] \in Nat
    BY <1>7, <2>1
  <2>3. QED BY <1>5, <1>7, <2>2
<1> DEFINE upto(j) == [k \in 1..j + 1 |-> f[k-1]]
           mine == [j \in 0..len |-> upto(j)]
<1>9. mine[0] = <<prev[1] + 1>>
  <2>1. 0 \in 0..len
    BY <1>2
  <2>2. mine[0] = [k \in 1..1 |-> f[k-1]]
    BY <2>1
  <2>3. \A x : [k \in 1..1 |-> x] = <<x>>
    OBVIOUS
  <2>4. [k \in 1..1 |-> f[k-1]] = [k \in 1..1 |-> prev[1] + 1]
    BY <1>7
  <2>5. QED BY <2>2, <2>3, <2>4, Zenon
<1>10. ASSUME NEW j \in 1..len
       PROVE  mine[j] = Append(mine[j-1], least(mine[j-1][j], j))
  <2>1. j \in 0..len /\ j - 1 \in 0..len /\ j \in Nat
    BY <1>2
  <2>2. mine[j] = upto(j) /\ mine[j-1] = [k \in 1..j |-> f[k-1]]
    BY <2>1
  <2>3. mine[j-1][j] = f[j-1]
    BY <2>1, <2>2
  <2>4. \A k \in 1..j : f[k-1] \in Nat
    BY <1>2, <1>7
  <2>5. f[j] \in Nat
    BY <1>7, <2>1
  <2>6. Append([k \in 1..j |-> f[k-1]], f[j]) = upto(j)
    <3> HIDE DEF mine
    <3> DEFINE s == [k \in 1..j |-> f[k-1]]
    <3>1. s \in Seq(Nat) /\ Len(s) = j
      BY <2>1, <2>4
    <3>2. \A k \in 1..j : Append(s, f[j])[k] = s[k]
      BY <3>1
    <3>3. Append(s, f[j])[j+1] = f[j]
      BY <3>1
    <3>4. Append(s, f[j]) \in Seq(Nat) /\ Len(Append(s, f[j])) = j + 1
      BY <2>5, <3>1
    <3>5. Append(s, f[j]) = [k \in 1..j+1 |-> Append(s, f[j])[k]]
      BY <3>4
    <3>6. \A k \in 1..j+1 : Append(s, f[j])[k] = f[k-1]
      BY <2>1, <3>2, <3>3
    <3> HIDE DEF s
    <3>7. QED BY <3>5, <3>6 DEF s
  <2>7. QED BY <1>8, <2>2, <2>3, <2>6
<1> HIDE DEF upto
<1>11. mine = [j \in 0..len |-> IF j = 0 THEN <<prev[1] + 1>>
                 ELSE Append(mine[j-1], least(mine[j-1][j], j))]
  <2>1. \A j \in 0..len : j = 0 \/ j \in 1..len
    BY <1>2
  <2>2. mine = [j \in 0..len |-> mine[j]]
    OBVIOUS
  <2> HIDE DEF mine
  <2>3. \A j \in 0..len : mine[j] = IF j = 0 THEN <<prev[1] + 1>>
                                    ELSE Append(mine[j-1], least(mine[j-1][j], j))
    BY <1>9, <1>10, <2>1
  <2>4. QED BY <2>2, <2>3
<1> HIDE DEF mine
<1>12. row = [j \in 0..len |-> IF j = 0 THEN <<prev[1] + 1>>
                ELSE Append(row[j-1], least(row[j-1][j], j))]
  BY <1>11, Zenon DEF len, least
<1> HIDE DEF row
<1>13. \A j \in 0..len : row[j] = mine[j]
  <2>1. row[0] = mine[0]
    BY <1>2, <1>9, <1>12
  <2>2. ASSUME NEW j \in 1..len, row[j-1] = mine[j-1] PROVE row[j] = mine[j]
    <3>1. j \in 0..len /\ j # 0
      BY <1>2
    <3>2. row[j] = Append(row[j-1], least(row[j-1][j], j))
      BY <1>12, <3>1
    <3>3. QED BY <1>10, <2>2, <3>2
  <2>3. AgreeStepwise(row, mine, len)
    BY <2>1, <2>2, Zenon DEF AgreeStepwise
  <2>4. Agree(row, mine, len)
    BY <1>2, <2>3, SameIteration, Zenon
  <2>5. QED BY <2>4, Zenon DEF Agree
<1>14. row[len] = [k \in 1..len + 1 |-> f[k-1]]
  BY <1>2, <1>13 DEF mine, upto
<1>15. ASSUME NEW j \in 1..len
       PROVE  row[len][j+1] = least(row[len][j], j)
  <2>1. row[len][j+1] = f[j] /\ row[len][j] = f[j-1]
    BY <1>2, <1>14
  <2>2. QED BY <1>8, <2>1
<1>16. row[len] \in [1..len + 1 -> Nat] /\ row[len][1] = prev[1] + 1
  BY <1>2, <1>7, <1>14
<1> QED
  <2>1. \A j \in 1..len :
          row[len][j+1] = SmallestOf({row[len][j] + 1, prev[j+1] + 1,
                                      prev[j] + Replacing(c, b[j])})
    BY <1>15, Zenon DEF least, Replacing
  <2>2. QED BY <1>1, <1>16, <2>1, Zenon DEF len
(* The table of a and b: D[i, j] for their first i and j letters.          *)
IsTable(D, a, b) ==
  /\ D \in [(0..Len(a)) \X (0..Len(b)) -> Nat]
  /\ \A j \in 0..Len(b) : D[<<0, j>>] = j
  /\ \A i \in 0..Len(a) : D[<<i, 0>>] = i
  /\ \A i \in 1..Len(a), j \in 1..Len(b) :
       D[<<i, j>>] = SmallestOf({D[<<i, j-1>>] + 1, D[<<i-1, j>>] + 1,
                                 D[<<i-1, j-1>>] + Replacing(a[i], b[j])})

(* similarity computes the table row by row, and its last entry.           *)
LEMMA DistanceTable ==
  ASSUME NEW S, NEW a \in Seq(S), NEW b \in Seq(S)
  PROVE  \E D : IsTable(D, a, b) /\ Distance(a, b) = D[<<Len(a), Len(b)>>]
<1> DEFINE m == Len(a)
           n == Len(b)
           V == [1..n + 1 -> Nat]
           first == [j \in 1..n + 1 |-> j - 1]
           rows == CHOOSE f : f = [i \in 0..Len(a) |->
                     IF i = 0 THEN [j \in 1..Len(b) + 1 |-> j - 1]
                     ELSE NextRow(f[i-1], a[i], b)]
           step == [q \in Nat \X V |-> NextRow(q[2], a[q[1]], b)]
<1>1. Distance(a, b) = rows[m][n + 1]
  BY Zenon DEF Distance
<1>2. m \in Nat /\ n \in Nat
  OBVIOUS
<1>3. \A prev \in V : \A c :
        LET row == NextRow(prev, c, b) IN
        /\ row \in V
        /\ row[1] = prev[1] + 1
        /\ \A j \in 1..n : row[j+1] = SmallestOf({row[j] + 1, prev[j+1] + 1,
                                                  prev[j] + Replacing(c, b[j])})
  BY NextRowIs, Zenon
<1> HIDE DEF m, n
<1>4. first \in V
  BY <1>2
<1> HIDE DEF V
<1>5. step \in [Nat \X V -> V]
  <2>1. \A q \in Nat \X V : NextRow(q[2], a[q[1]], b) \in V
    BY <1>3
  <2>2. QED BY <2>1
<1>6. \A i \in 1..m, prev \in V : step[<<i, prev>>] = NextRow(prev, a[i], b)
  <2>1. \A i \in 1..m, prev \in V : <<i, prev>> \in Nat \X V
    BY <1>2
  <2>2. QED BY <2>1
<1> HIDE DEF step
<1>7. PICK f : Iteration(f, V, 0, m, first, step)
  <2>1. 0 \in Nat /\ 0 <= m
    BY <1>2
  <2>2. QED BY <1>2, <1>4, <1>5, <2>1, Iterates, Zenon
<1>8. /\ f \in [0..m -> V] /\ f[0] = first
      /\ \A i \in 1..m : f[i] = step[<<i, f[i-1]>>]
  BY <1>7 DEF Iteration
<1>9. \A i \in 1..m : f[i] = NextRow(f[i-1], a[i], b)
  <2>1. \A i \in 1..m : i - 1 \in 0..m
    BY <1>2
  <2>2. \A i \in 1..m : f[i-1] \in V
    BY <1>8, <2>1
  <2>3. QED BY <1>6, <1>8, <2>2
<1> HIDE DEF first
<1>10. f = [i \in 0..m |-> IF i = 0 THEN first ELSE NextRow(f[i-1], a[i], b)]
  <2>1. \A i \in 0..m : i = 0 \/ i \in 1..m
    BY <1>2
  <2>2. \A i \in 0..m : f[i] = IF i = 0 THEN first ELSE NextRow(f[i-1], a[i], b)
    BY <1>8, <1>9, <2>1
  <2>3. f = [i \in 0..m |-> f[i]]
    BY <1>8
  <2>4. QED BY <2>2, <2>3
<1>11. rows = [i \in 0..m |-> IF i = 0 THEN first ELSE NextRow(rows[i-1], a[i], b)]
  BY <1>10, Zenon DEF m, n, first
<1> HIDE DEF rows
<1>12. rows[0] = first /\ \A i \in 1..m : rows[i] = NextRow(rows[i-1], a[i], b)
  <2>1. 0 \in 0..m /\ \A i \in 1..m : i \in 0..m /\ i # 0
    BY <1>2
  <2>2. QED BY <1>11, <2>1
<1>13. \A i \in 0..m : rows[i] \in V
  <2>1. ASSUME NEW i \in 1..m, rows[i-1] = f[i-1] PROVE rows[i] = f[i]
    BY <1>9, <1>12, <2>1, Zenon
  <2>2. AgreeStepwise(rows, f, m)
    BY <1>8, <1>12, <2>1, Zenon DEF AgreeStepwise
  <2>3. Agree(rows, f, m)
    BY <1>2, <2>2, SameIteration, Zenon
  <2>4. QED BY <1>8, <2>3 DEF Agree
<1> DEFINE D == [p \in (0..m) \X (0..n) |-> rows[p[1]][p[2] + 1]]
<1>14. \A i \in 0..m, j \in 0..n : D[<<i, j>>] = rows[i][j + 1]
  OBVIOUS
<1>15. D \in [(0..m) \X (0..n) -> Nat]
  <2>1. \A p \in (0..m) \X (0..n) : rows[p[1]][p[2] + 1] \in Nat
    BY <1>2, <1>13 DEF V
  <2>2. QED BY <2>1
<1> HIDE DEF D
<1>16. \A j \in 0..n : D[<<0, j>>] = j
  BY <1>2, <1>12, <1>14 DEF first
<1>17. ASSUME NEW i \in 1..m
       PROVE  /\ rows[i][1] = rows[i-1][1] + 1
              /\ \A j \in 1..n :
                   rows[i][j+1] = SmallestOf({rows[i][j] + 1, rows[i-1][j+1] + 1,
                                              rows[i-1][j] + Replacing(a[i], b[j])})
  <2>1. i - 1 \in 0..m
    BY <1>2
  <2>2. rows[i-1] \in V
    BY <1>13, <2>1
  <2>3. LET row == NextRow(rows[i-1], a[i], b) IN
        /\ row[1] = rows[i-1][1] + 1
        /\ \A j \in 1..n :
             row[j+1] = SmallestOf({row[j] + 1, rows[i-1][j+1] + 1,
                                    rows[i-1][j] + Replacing(a[i], b[j])})
    BY <1>3, <2>2
  <2>4. rows[i] = NextRow(rows[i-1], a[i], b)
    BY <1>12
  <2>5. QED BY <2>3, <2>4
<1>18. \A i \in 0..m : D[<<i, 0>>] = i
  <2> DEFINE Z == [i \in 0..m |-> D[<<i, 0>>]]
             I == [i \in 0..m |-> i]
  <2>1. Z[0] = I[0]
    BY <1>2, <1>16
  <2>2. ASSUME NEW i \in 1..m, Z[i-1] = I[i-1] PROVE Z[i] = I[i]
    <3>1. i \in 0..m /\ i - 1 \in 0..m /\ 0 \in 0..n /\ 0 + 1 = 1
      BY <1>2
    <3>2. D[<<i, 0>>] = rows[i][1] /\ D[<<i-1, 0>>] = rows[i-1][1]
      BY <1>14, <3>1
    <3>3. QED BY <1>17, <2>2, <3>1, <3>2
  <2> HIDE DEF Z, I
  <2>3. AgreeStepwise(Z, I, m)
    BY <2>1, <2>2, Zenon DEF AgreeStepwise
  <2>4. Agree(Z, I, m)
    BY <1>2, <2>3, SameIteration, Zenon
  <2>5. QED BY <2>4 DEF Agree, Z, I
<1>19. ASSUME NEW i \in 1..m, NEW j \in 1..n
       PROVE  D[<<i, j>>] = SmallestOf({D[<<i, j-1>>] + 1, D[<<i-1, j>>] + 1,
                                        D[<<i-1, j-1>>] + Replacing(a[i], b[j])})
  <2>1. /\ i \in 0..m /\ i - 1 \in 0..m /\ j \in 0..n /\ j - 1 \in 0..n
        /\ (j - 1) + 1 = j
    BY <1>2
  <2>2. /\ D[<<i, j>>] = rows[i][j+1] /\ D[<<i, j-1>>] = rows[i][j]
        /\ D[<<i-1, j>>] = rows[i-1][j+1] /\ D[<<i-1, j-1>>] = rows[i-1][j]
    BY <1>14, <2>1
  <2>3. QED BY <1>17, <2>2
<1>20. IsTable(D, a, b)
  BY <1>15, <1>16, <1>18, <1>19 DEF IsTable, m, n
<1>21. Distance(a, b) = D[<<m, n>>]
  BY <1>1, <1>2, <1>14
<1>22. QED BY <1>20, <1>21 DEF m, n
-----------------------------------------------------------------------------
(* Alignments of the first i letters with the first j, and their cost.     *)
Alignments(i, j) ==
  {m \in SUBSET ((1..i) \X (1..j)) :
     /\ \A p, q \in m : p[1] < q[1] <=> p[2] < q[2]
     /\ \A p, q \in m : p[1] = q[1] => p = q}
Differing(m, a, b) == {p \in m : a[p[1]] # b[p[2]]}
Cost(m, a, b, i, j) ==
  Cardinality(Differing(m, a, b)) + i + j - 2 * Cardinality(m)

(* Alignments are finite, so their cost is a number. *)
LEMMA AlignmentsCount ==
  ASSUME NEW i \in Nat, NEW j \in Nat, NEW m \in Alignments(i, j), NEW a, NEW b
  PROVE  /\ IsFiniteSet(m) /\ Cardinality(m) \in Nat
         /\ IsFiniteSet(Differing(m, a, b)) /\ Cardinality(Differing(m, a, b)) \in Nat
         /\ \A k, l \in Nat : Cost(m, a, b, k, l) \in Int
<1>1. IsFiniteSet(1..i) /\ IsFiniteSet(1..j)
  BY FS_Interval
<1>2. IsFiniteSet((1..i) \X (1..j))
  BY <1>1, FS_Product, Zenon
<1>3. m \in SUBSET ((1..i) \X (1..j)) /\ Differing(m, a, b) \in SUBSET m
  BY DEF Alignments, Differing
<1>4. IsFiniteSet(m) /\ IsFiniteSet(Differing(m, a, b))
  BY <1>2, <1>3, FS_Subset, Zenon
<1>5. Cardinality(m) \in Nat /\ Cardinality(Differing(m, a, b)) \in Nat
  BY <1>4, FS_CardinalityType, Zenon
<1>6. \A k, l \in Nat : Cost(m, a, b, k, l) \in Int
  BY <1>5 DEF Cost
<1>7. QED BY <1>4, <1>5, <1>6, Zenon

(* A pair of the next two letters costs what replacing one by the other    *)
(* costs.                                                                  *)
LEMMA OnePairMore ==
  ASSUME NEW i \in Nat, NEW j \in Nat, NEW a, NEW b, NEW m \in Alignments(i, j)
  PROVE  LET more == m \cup {<<i+1, j+1>>} IN
         /\ more \in Alignments(i+1, j+1)
         /\ Cost(more, a, b, i+1, j+1)
              = Cost(m, a, b, i, j) + Replacing(a[i+1], b[j+1])
<1> DEFINE new == <<i+1, j+1>>
           more == m \cup {new}
<1>1. /\ \A p \in m : p \in (1..i) \X (1..j) /\ p[1] < i+1 /\ p[2] < j+1
      /\ \A p, q \in m : p[1] < q[1] <=> p[2] < q[2]
      /\ \A p, q \in m : p[1] = q[1] => p = q
  BY DEF Alignments
<1>2. new \in (1..i+1) \X (1..j+1) /\ new[1] = i+1 /\ new[2] = j+1
  OBVIOUS
<1>3. more \in SUBSET ((1..i+1) \X (1..j+1))
  <2>1. \A p \in (1..i) \X (1..j) : p \in (1..i+1) \X (1..j+1)
    OBVIOUS
  <2>2. QED BY <1>1, <1>2, <2>1
<1> HIDE DEF new
<1>4. more \in Alignments(i+1, j+1)
  <2>1. \A p \in m : p[1] \in Nat /\ p[2] \in Nat /\ p[1] < i+1 /\ p[2] < j+1
    BY <1>1
  <2>2. \A p, q \in more : p[1] < q[1] <=> p[2] < q[2]
    BY <1>1, <1>2, <2>1
  <2>3. \A p, q \in more : p[1] = q[1] => p = q
    BY <1>1, <1>2, <2>1
  <2>4. QED BY <1>3, <2>2, <2>3 DEF Alignments
<1>5. new \notin m
  BY <1>1, <1>2
<1>6. /\ IsFiniteSet(m) /\ Cardinality(m) \in Nat
      /\ IsFiniteSet(Differing(m, a, b)) /\ Cardinality(Differing(m, a, b)) \in Nat
  BY AlignmentsCount, Zenon
<1>7. Cardinality(more) = Cardinality(m) + 1
  BY <1>5, <1>6, FS_AddElement, Zenon
<1>8. Cardinality(Differing(more, a, b))
        = Cardinality(Differing(m, a, b)) + Replacing(a[i+1], b[j+1])
  <2>1. CASE a[i+1] = b[j+1]
    <3>1. Differing(more, a, b) = Differing(m, a, b)
      BY <1>2, <2>1 DEF Differing
    <3>2. QED BY <1>6, <2>1, <3>1 DEF Replacing
  <2>2. CASE a[i+1] # b[j+1]
    <3>1. Differing(more, a, b) = Differing(m, a, b) \cup {new}
      BY <1>2, <2>2 DEF Differing
    <3>2. new \notin Differing(m, a, b)
      BY <1>5 DEF Differing
    <3>3. Cardinality(Differing(more, a, b)) = Cardinality(Differing(m, a, b)) + 1
      BY <1>6, <3>1, <3>2, FS_AddElement, Zenon
    <3>4. QED BY <2>2, <3>3 DEF Replacing
  <2>3. QED BY <2>1, <2>2
<1>9. Cost(more, a, b, i+1, j+1)
        = Cost(m, a, b, i, j) + Replacing(a[i+1], b[j+1])
  <2> DEFINE d == Cardinality(Differing(m, a, b))
             r == Replacing(a[i+1], b[j+1])
             c == Cardinality(m)
  <2>1. d \in Nat /\ c \in Nat /\ r \in Nat
    BY <1>6 DEF Replacing
  <2>2. Cost(more, a, b, i+1, j+1) = (d + r) + (i+1) + (j+1) - 2 * (c + 1)
    BY <1>7, <1>8 DEF Cost
  <2>3. Cost(m, a, b, i, j) = d + i + j - 2 * c
    BY DEF Cost
  <2> HIDE DEF d, r, c
  <2>4. (d + r) + (i+1) + (j+1) - 2 * (c + 1) = (d + i + j - 2 * c) + r
    BY <2>1
  <2>5. QED BY <2>2, <2>3, <2>4 DEF r
<1>10. QED BY <1>4, <1>9 DEF new

(* A letter without a partner costs one. *)
LEMMA OneLetterMore ==
  ASSUME NEW i \in Nat, NEW j \in Nat, NEW a, NEW b, NEW m \in Alignments(i, j)
  PROVE  /\ m \in Alignments(i+1, j) /\ m \in Alignments(i, j+1)
         /\ Cost(m, a, b, i+1, j) = Cost(m, a, b, i, j) + 1
         /\ Cost(m, a, b, i, j+1) = Cost(m, a, b, i, j) + 1
<1>1. m \in Alignments(i+1, j) /\ m \in Alignments(i, j+1)
  <2>1. /\ (1..i) \X (1..j) \subseteq (1..i+1) \X (1..j)
        /\ (1..i) \X (1..j) \subseteq (1..i) \X (1..j+1)
    OBVIOUS
  <2>2. QED BY <2>1 DEF Alignments
<1>2. Cardinality(m) \in Nat /\ Cardinality(Differing(m, a, b)) \in Nat
  BY AlignmentsCount, Zenon
<1>3. QED BY <1>1, <1>2 DEF Cost

(* An alignment pairs the last two letters, or one of them has no partner. *)
LEMMA LastLetters ==
  ASSUME NEW i \in Nat, NEW j \in Nat, NEW m \in Alignments(i+1, j+1)
  PROVE  \/ \E l \in Alignments(i, j) : m = l \cup {<<i+1, j+1>>}
         \/ m \in Alignments(i, j+1)
         \/ m \in Alignments(i+1, j)
<1> DEFINE new == <<i+1, j+1>>
<1>1. /\ \A p \in m : p \in (1..i+1) \X (1..j+1)
      /\ \A p, q \in m : p[1] < q[1] <=> p[2] < q[2]
      /\ \A p, q \in m : p[1] = q[1] => p = q
  BY DEF Alignments
<1>2. \A p \in m : /\ p[1] \in Nat /\ p[2] \in Nat /\ p[1] <= i+1 /\ p[2] <= j+1
                   /\ p[1] >= 1 /\ p[2] >= 1
                   /\ p = <<p[1], p[2]>>
  BY <1>1
<1>3. CASE new \in m
  <2> DEFINE l == m \ {new}
  <2>1. ASSUME NEW p \in l PROVE p \in (1..i) \X (1..j)
    <3>1. p[1] # i+1
      BY <1>1, <1>3
    <3>2. p[1] < new[1] /\ new[1] = i+1 /\ new[2] = j+1
      BY <1>2, <3>1
    <3>3. p[2] < j+1
      BY <1>1, <1>3, <3>2
    <3>4. p[1] \in 1..i /\ p[2] \in 1..j
      BY <1>2, <3>2, <3>3
    <3>5. QED BY <1>2, <3>4
  <2>2. l \in Alignments(i, j)
    BY <1>1, <2>1 DEF Alignments
  <2>3. m = l \cup {new}
    BY <1>3
  <2> HIDE DEF l
  <2>4. QED BY <2>2, <2>3
<1>4. CASE \A p \in m : p[1] # i+1
  <2>1. ASSUME NEW p \in m PROVE p \in (1..i) \X (1..j+1)
    <3>1. p[1] \in 1..i /\ p[2] \in 1..j+1
      BY <1>2, <1>4
    <3>2. QED BY <1>2, <3>1
  <2>2. m \in Alignments(i, j+1)
    BY <1>1, <2>1 DEF Alignments
  <2>3. QED BY <2>2
<1>5. CASE new \notin m /\ \E p \in m : p[1] = i+1
  <2>1. PICK p \in m : p[1] = i+1
    BY <1>5
  <2>2. p[2] # j+1
    BY <1>2, <1>5, <2>1
  <2>3. ASSUME NEW q \in m PROVE q \in (1..i+1) \X (1..j)
    <3>1. q[2] # j+1
      <4>1. CASE q = p
        BY <2>2, <4>1
      <4>2. CASE q # p
        <5>1. q[1] < p[1]
          BY <1>1, <1>2, <2>1, <4>2
        <5>2. q[2] < p[2]
          BY <1>1, <5>1
        <5>3. QED BY <1>2, <5>2
      <4>3. QED BY <4>1, <4>2
    <3>2. q[1] \in 1..i+1 /\ q[2] \in 1..j
      BY <1>2, <3>1
    <3>3. QED BY <1>2, <3>2
  <2>4. m \in Alignments(i+1, j)
    BY <1>1, <2>3 DEF Alignments
  <2>5. QED BY <2>4
<1>6. QED BY <1>3, <1>4, <1>5

(* No alignment of the first letters costs less than d, and one costs d.   *)
IsLeastCost(d, a, b, i, j) ==
  /\ \A m \in Alignments(i, j) : d <= Cost(m, a, b, i, j)
  /\ \E m \in Alignments(i, j) : Cost(m, a, b, i, j) = d

(* Without letters on one side nothing is paired. *)
LEMMA NothingToAlign ==
  ASSUME NEW i \in Nat, NEW j \in Nat, i = 0 \/ j = 0, NEW a, NEW b
  PROVE  IsLeastCost(i + j, a, b, i, j)
<1>1. Alignments(i, j) = {{}}
  <2>1. (1..i) \X (1..j) = {}
    OBVIOUS
  <2>2. QED BY <2>1 DEF Alignments
<1>2. Cost({}, a, b, i, j) = i + j
  <2>1. Differing({}, a, b) = {}
    BY DEF Differing
  <2>2. Cardinality({}) = 0
    BY FS_EmptySet
  <2>3. Cost({}, a, b, i, j) = 0 + i + j - 2 * 0
    BY <2>1, <2>2, Zenon DEF Cost
  <2>4. QED BY <2>3
<1>3. QED BY <1>1, <1>2 DEF IsLeastCost

(* The least cost one letter further, from the three before it. *)
LEMMA LeastCostStep ==
  ASSUME NEW i \in Nat, NEW j \in Nat, NEW a, NEW b,
         NEW x \in Nat, IsLeastCost(x, a, b, i+1, j),
         NEW y \in Nat, IsLeastCost(y, a, b, i, j+1),
         NEW z \in Nat, IsLeastCost(z, a, b, i, j)
  PROVE  IsLeastCost(SmallestOf({x + 1, y + 1, z + Replacing(a[i+1], b[j+1])}),
                     a, b, i+1, j+1)
<1> DEFINE r == Replacing(a[i+1], b[j+1])
           s == SmallestOf({x + 1, y + 1, z + r})
<1>1. r \in Nat
  BY DEF Replacing
<1>2. s \in Nat /\ s \in {x + 1, y + 1, z + r} /\ s <= x + 1 /\ s <= y + 1 /\ s <= z + r
  <2> HIDE DEF r
  <2>1. x + 1 \in Nat /\ y + 1 \in Nat /\ z + r \in Nat
    BY <1>1
  <2>2. QED BY <2>1, LeastOfThree
<1> HIDE DEF s
<1>3. i+1 \in Nat /\ j+1 \in Nat
  OBVIOUS
<1>4. ASSUME NEW m \in Alignments(i+1, j+1) PROVE s <= Cost(m, a, b, i+1, j+1)
  <2>1. CASE \E l \in Alignments(i, j) : m = l \cup {<<i+1, j+1>>}
    <3>1. PICK l \in Alignments(i, j) : m = l \cup {<<i+1, j+1>>}
      BY <2>1
    <3>2. Cost(m, a, b, i+1, j+1) = Cost(l, a, b, i, j) + r
      BY <3>1, OnePairMore
    <3>3. z <= Cost(l, a, b, i, j) /\ Cost(l, a, b, i, j) \in Int
      BY AlignmentsCount DEF IsLeastCost
    <3> HIDE DEF r
    <3>4. QED BY <1>1, <1>2, <3>2, <3>3
  <2>2. CASE m \in Alignments(i, j+1)
    <3>1. Cost(m, a, b, i+1, j+1) = Cost(m, a, b, i, j+1) + 1
      BY <1>3, <2>2, OneLetterMore
    <3>2. y <= Cost(m, a, b, i, j+1) /\ Cost(m, a, b, i, j+1) \in Int
      BY <1>3, <2>2, AlignmentsCount DEF IsLeastCost
    <3>3. QED BY <1>2, <3>1, <3>2
  <2>3. CASE m \in Alignments(i+1, j)
    <3>1. Cost(m, a, b, i+1, j+1) = Cost(m, a, b, i+1, j) + 1
      BY <1>3, <2>3, OneLetterMore
    <3>2. x <= Cost(m, a, b, i+1, j) /\ Cost(m, a, b, i+1, j) \in Int
      BY <1>3, <2>3, AlignmentsCount DEF IsLeastCost
    <3>3. QED BY <1>2, <3>1, <3>2
  <2>4. QED BY <2>1, <2>2, <2>3, LastLetters, Zenon
<1>5. \E m \in Alignments(i+1, j+1) : Cost(m, a, b, i+1, j+1) = s
  <2>1. CASE s = x + 1
    <3>1. PICK m \in Alignments(i+1, j) : Cost(m, a, b, i+1, j) = x
      BY DEF IsLeastCost
    <3>2. m \in Alignments(i+1, j+1) /\ Cost(m, a, b, i+1, j+1) = x + 1
      BY <1>3, <3>1, OneLetterMore
    <3>3. QED BY <2>1, <3>2
  <2>2. CASE s = y + 1
    <3>1. PICK m \in Alignments(i, j+1) : Cost(m, a, b, i, j+1) = y
      BY DEF IsLeastCost
    <3>2. m \in Alignments(i+1, j+1) /\ Cost(m, a, b, i+1, j+1) = y + 1
      BY <1>3, <3>1, OneLetterMore
    <3>3. QED BY <2>2, <3>2
  <2>3. CASE s = z + r
    <3>1. PICK m \in Alignments(i, j) : Cost(m, a, b, i, j) = z
      BY DEF IsLeastCost
    <3> DEFINE more == m \cup {<<i+1, j+1>>}
    <3>2. more \in Alignments(i+1, j+1) /\ Cost(more, a, b, i+1, j+1) = z + r
      BY <3>1, OnePairMore
    <3>3. QED BY <2>3, <3>2
  <2>4. QED BY <1>2, <2>1, <2>2, <2>3
<1>6. QED BY <1>4, <1>5 DEF IsLeastCost, s

(* Every entry of the table is the least cost of an alignment. *)
LEMMA TableIsLeast ==
  ASSUME NEW S, NEW a \in Seq(S), NEW b \in Seq(S), NEW D, IsTable(D, a, b)
  PROVE  \A i \in 0..Len(a), j \in 0..Len(b) : IsLeastCost(D[<<i, j>>], a, b, i, j)
<1> DEFINE Known(k) == \A i \in 0..Len(a), j \in 0..Len(b) :
                         i + j <= k => IsLeastCost(D[<<i, j>>], a, b, i, j)
           K == {k \in Nat : Known(k)}
<1>1. /\ Len(a) \in Nat /\ Len(b) \in Nat
      /\ \A i \in 0..Len(a), j \in 0..Len(b) : D[<<i, j>>] \in Nat
      /\ \A j \in 0..Len(b) : D[<<0, j>>] = j
      /\ \A i \in 0..Len(a) : D[<<i, 0>>] = i
  BY DEF IsTable
<1>2. ASSUME NEW i \in 0..Len(a), NEW j \in 0..Len(b), i = 0 \/ j = 0
      PROVE  IsLeastCost(D[<<i, j>>], a, b, i, j)
  <2>1. i \in Nat /\ j \in Nat
    OBVIOUS
  <2>2. D[<<i, j>>] = i + j
    BY <1>1, <1>2, <2>1
  <2>3. QED BY <1>2, <2>1, <2>2, NothingToAlign, Zenon
<1>3. 0 \in K
  <2>1. \A i \in 0..Len(a), j \in 0..Len(b) : i + j <= 0 => i = 0
    BY <1>1
  <2>2. QED BY <1>2, <2>1
<1>4. ASSUME NEW k \in Nat, k \in K PROVE k + 1 \in K
  <2> SUFFICES ASSUME NEW i \in 0..Len(a), NEW j \in 0..Len(b), i + j <= k + 1
               PROVE  IsLeastCost(D[<<i, j>>], a, b, i, j)
    OBVIOUS
  <2>1. CASE i = 0 \/ j = 0
    BY <1>2, <2>1
  <2>2. CASE i # 0 /\ j # 0
    <3> DEFINE g == i - 1
               h == j - 1
    <3>1. /\ g \in Nat /\ h \in Nat /\ g + 1 = i /\ h + 1 = j
          /\ g \in 0..Len(a) /\ h \in 0..Len(b)
          /\ i \in 1..Len(a) /\ j \in 1..Len(b)
          /\ i + h <= k /\ g + j <= k /\ g + h <= k
      BY <1>1, <2>2
    <3>2. D[<<i, j>>] = SmallestOf({D[<<i, h>>] + 1, D[<<g, j>>] + 1,
                                    D[<<g, h>>] + Replacing(a[i], b[j])})
      BY <3>1 DEF IsTable
    <3> HIDE DEF g, h, K
    <3>3. Known(k)
      BY <1>4 DEF K
    <3>4. /\ IsLeastCost(D[<<i, h>>], a, b, g + 1, h)
          /\ IsLeastCost(D[<<g, j>>], a, b, g, h + 1)
          /\ IsLeastCost(D[<<g, h>>], a, b, g, h)
      BY <3>1, <3>3
    <3>5. D[<<i, h>>] \in Nat /\ D[<<g, j>>] \in Nat /\ D[<<g, h>>] \in Nat
      BY <1>1, <3>1
    <3>6. IsLeastCost(SmallestOf({D[<<i, h>>] + 1, D[<<g, j>>] + 1,
                                  D[<<g, h>>] + Replacing(a[g + 1], b[h + 1])}),
                      a, b, g + 1, h + 1)
      BY <3>1, <3>4, <3>5, LeastCostStep, Zenon
    <3>7. QED BY <3>1, <3>2, <3>6, Zenon
  <2>3. QED BY <2>1, <2>2
<1>5. Known(Len(a) + Len(b))
  <2> HIDE DEF K
  <2>1. \A k \in Nat : k \in K
    BY <1>3, <1>4, AllNaturals
  <2>2. Len(a) + Len(b) \in K
    BY <1>1, <2>1
  <2>3. QED BY <2>2 DEF K
<1>6. \A i \in 0..Len(a), j \in 0..Len(b) : i + j <= Len(a) + Len(b)
  BY <1>1
<1>7. QED BY <1>5, <1>6

(* For all texts: similarity's table ends with the edit distance, which is *)
(* the cost of the cheapest alignment of their letters.                    *)
THEOREM DistanceIsLeastCost ==
  ASSUME NEW S, NEW a \in Seq(S), NEW b \in Seq(S)
  PROVE  Distance(a, b) = LeastAlignment(a, b)
<1> DEFINE d == Distance(a, b)
           m == Len(a)
           n == Len(b)
           costs == {Cost(al, a, b, m, n) : al \in Alignments(m, n)}
<1>1. m \in Nat /\ n \in Nat
  OBVIOUS
<1>2. PICK D : IsTable(D, a, b) /\ d = D[<<m, n>>]
  BY DistanceTable
<1>3. D[<<m, n>>] \in Nat
  BY <1>1, <1>2 DEF IsTable
<1>4. IsLeastCost(d, a, b, m, n)
  BY <1>1, <1>2, TableIsLeast
<1>5. LeastAlignment(a, b) = SmallestOf(costs)
  BY DEF LeastAlignment, Alignments, Cost, Differing
<1> HIDE DEF d, m, n
<1>6. costs \in SUBSET Nat
  <2>1. ASSUME NEW al \in Alignments(m, n) PROVE Cost(al, a, b, m, n) \in Nat
    <3>1. d <= Cost(al, a, b, m, n) /\ Cost(al, a, b, m, n) \in Int
      BY <1>1, <1>4, AlignmentsCount DEF IsLeastCost
    <3>2. QED BY <1>2, <1>3, <3>1
  <2>2. QED BY <2>1
<1>7. d \in costs /\ \A c \in costs : d <= c
  BY <1>4 DEF IsLeastCost
<1> HIDE DEF costs
<1>8. SmallestOf(costs) \in costs /\ \A c \in costs : SmallestOf(costs) <= c
  BY <1>6, <1>7, SmallestIsLeast
<1>9. d = SmallestOf(costs)
  <2>1. d \in Nat /\ SmallestOf(costs) \in Nat
    BY <1>6, <1>7, <1>8
  <2>2. d <= SmallestOf(costs) /\ SmallestOf(costs) <= d
    BY <1>7, <1>8
  <2>3. QED BY <2>1, <2>2
<1>10. QED BY <1>5, <1>9 DEF d

(* similarity: for all texts that are compared, whatever their letters and *)
(* their lengths.                                                          *)
THEOREM DistanceIsEditDistanceForAll ==
  ASSUME probe.of = "distance" => \E S : probe.text \in Seq(S) /\ probe.heard \in Seq(S)
  PROVE  DistanceIsEditDistance
BY DistanceIsLeastCost, Zenon DEF DistanceIsEditDistance
=============================================================================
