---------------------------- MODULE WordingProofs ----------------------------
(***************************************************************************)
(* Proofs about what happens to the wording of a text.  The formatter:     *)
(* whatever a local model answers with, layout changes and words do not.   *)
(* The vocabulary: exactly the words of a phrase are replaced.             *)
(*                                                                         *)
(* A text says its words and numbers, case and punctuation aside           *)
(* (Spelled).  What the parts of a text say, put together, is what the     *)
(* text says (SpelledConcat): so it is enough that the formatter cuts a    *)
(* text at positions that follow one another.  Replacement is compared     *)
(* with the list of words, from the last word of the text to the first.    *)
(***************************************************************************)
EXTENDS TextsProofs

-----------------------------------------------------------------------------
(* What FlattenSeq has strung together after each of the sequences.        *)
Strung(f, seqs, S) ==
  /\ f \in [0..Len(seqs) -> Seq(S)]
  /\ f[0] = <<>>
  /\ \A i \in 1..Len(seqs) : f[i] = f[i-1] \o seqs[i]

(* Sequences put together are what has been strung after the last.         *)
LEMMA FlattenStrings ==
  ASSUME NEW S, NEW seqs \in Seq(Seq(S))
  PROVE  \E f : Strung(f, seqs, S) /\ FlattenSeq(seqs) = f[Len(seqs)]
<1> DEFINE V == Seq(S)
           len == Len(seqs)
<1>1. len \in Nat /\ \A i \in 1..len : seqs[i] \in V
  OBVIOUS
<1>2. /\ \A s, t \in V : s \o t \in V
      /\ \A s \in V : <<>> \o s = s
      /\ <<>> \in V
  BY ConcatProperties, ConcatEmptySeq
<1>3. CASE len = 0
  <2> DEFINE f == [i \in 0..0 |-> <<>>]
  <2>1. FlattenSeq(seqs) = seqs /\ seqs = <<>>
    BY <1>3 DEF FlattenSeq
  <2>2. Strung(f, seqs, S)
    BY <1>2, <1>3 DEF Strung
  <2>3. f[len] = <<>>
    BY <1>3
  <2>4. QED BY <2>1, <2>2, <2>3
<1>4. CASE len # 0
  <2>1. PICK g : /\ FlattenSeq(seqs) = g[len]
                 /\ g[1] = seqs[1]
                 /\ \A i \in 2..len : g[i] = g[i-1] \o seqs[i]
    BY <1>4, FlattenRuns, Zenon
  <2> DEFINE f == [i \in 0..len |-> IF i = 0 THEN <<>> ELSE g[i]]
  <2> HIDE DEF V, len
  <2>2. f[0] = <<>> /\ f[len] = g[len]
    BY <1>1, <1>4
  <2>3. ASSUME NEW i \in 1..len, f[i-1] \in V PROVE f[i] = f[i-1] \o seqs[i] /\ f[i] \in V
    <3>1. CASE i = 1
      <4>1. f[1] = seqs[1] /\ f[0] = <<>> /\ seqs[1] \in V
        BY <1>1, <1>4, <2>1
      <4>2. f[i] = seqs[1] /\ f[i-1] = <<>> /\ seqs[i] = seqs[1]
        BY <3>1, <4>1
      <4>3. QED BY <1>2, <4>1, <4>2
    <3>2. CASE i # 1
      <4>1. i \in 2..len /\ i - 1 \in 1..len
        BY <1>1, <3>2
      <4>2. f[i] = g[i] /\ f[i-1] = g[i-1]
        BY <1>1, <4>1
      <4>3. f[i] = f[i-1] \o seqs[i]
        BY <2>1, <4>1, <4>2
      <4>4. QED BY <1>1, <1>2, <2>3, <4>3
    <3>3. QED BY <3>1, <3>2
  <2> DEFINE K == {k \in Nat : k <= len => f[k] \in V}
  <2>4. 0 \in K
    BY <1>1, <1>2, <2>2
  <2>5. ASSUME NEW k \in Nat, k \in K PROVE k + 1 \in K
    <3>1. k + 1 <= len => k + 1 \in 1..len /\ (k + 1) - 1 = k /\ k <= len
      BY <1>1
    <3> HIDE DEF f
    <3>2. k + 1 <= len => f[k + 1] \in V
      BY <2>3, <2>5, <3>1
    <3>3. QED BY <3>2
  <2> HIDE DEF f
  <2>6. \A k \in 0..len : f[k] \in V
    <3> HIDE DEF K
    <3>1. \A k \in Nat : k \in K
      BY <2>4, <2>5, AllNaturals
    <3>2. QED BY <1>1, <3>1 DEF K
  <2>7. \A i \in 1..len : f[i] = f[i-1] \o seqs[i]
    <3>1. \A i \in 1..len : i - 1 \in 0..len
      BY <1>1
    <3>2. QED BY <2>3, <2>6, <3>1
  <2>8. f \in [0..len -> V]
    BY <2>6 DEF f
  <2>9. Strung(f, seqs, S)
    BY <2>2, <2>7, <2>8 DEF Strung, V, len
  <2>10. FlattenSeq(seqs) = f[len]
    BY <2>1, <2>2
  <2>11. QED BY <2>9, <2>10 DEF len
<1>5. QED BY <1>3, <1>4

(* Whatever grows by the same sequences is what FlattenSeq makes of them. *)
LEMMA FlattenIs ==
  ASSUME NEW S, NEW seqs \in Seq(Seq(S)), NEW g, g[0] = <<>>,
         \A i \in 1..Len(seqs) : g[i] = g[i-1] \o seqs[i]
  PROVE  FlattenSeq(seqs) = g[Len(seqs)]
<1>1. PICK f : Strung(f, seqs, S) /\ FlattenSeq(seqs) = f[Len(seqs)]
  BY FlattenStrings
<1>2. ASSUME NEW i \in 1..Len(seqs), f[i-1] = g[i-1] PROVE f[i] = g[i]
  BY <1>1, <1>2 DEF Strung
<1>3. f[0] = g[0]
  BY <1>1 DEF Strung
<1>4. AgreeStepwise(f, g, Len(seqs))
  BY <1>2, <1>3, Zenon DEF AgreeStepwise
<1>5. Len(seqs) \in Nat
  OBVIOUS
<1>6. Agree(f, g, Len(seqs))
  BY <1>4, <1>5, SameIteration, Zenon
<1>7. Len(seqs) \in 0..Len(seqs)
  BY <1>5
<1>8. QED BY <1>1, <1>6, <1>7 DEF Agree

(* One sequence, and none. *)
LEMMA FlattenFew ==
  ASSUME NEW S, NEW s \in Seq(S)
  PROVE  FlattenSeq(<<s>>) = s /\ FlattenSeq(<<>>) = <<>>
<1>1. <<s>> \in Seq(Seq(S)) /\ Len(<<s>>) = 1 /\ <<s>>[1] = s
  OBVIOUS
<1> DEFINE g == [i \in 0..1 |-> IF i = 0 THEN <<>> ELSE s]
<1>2. <<>> \o s = s
  BY ConcatEmptySeq
<1>3. \A i \in 1..1 : g[i] = g[i-1] \o <<s>>[i]
  BY <1>1, <1>2
<1>4. g[0] = <<>> /\ g[1] = s
  OBVIOUS
<1> HIDE DEF g
<1>5. FlattenSeq(<<s>>) = s
  BY <1>1, <1>3, <1>4, FlattenIs
<1>6. FlattenSeq(<<>>) = <<>>
  BY DEF FlattenSeq
<1>7. QED BY <1>5, <1>6

(* Two lists of sequences, one after the other. *)
LEMMA FlattenConcat ==
  ASSUME NEW S, NEW a \in Seq(Seq(S)), NEW b \in Seq(Seq(S))
  PROVE  FlattenSeq(a \o b) = FlattenSeq(a) \o FlattenSeq(b)
<1> DEFINE m == Len(a)
           n == Len(b)
           both == a \o b
<1>1. PICK f : Strung(f, a, S) /\ FlattenSeq(a) = f[m]
  BY FlattenStrings
<1>2. PICK g : Strung(g, b, S) /\ FlattenSeq(b) = g[n]
  BY FlattenStrings
<1>3. /\ m \in Nat /\ n \in Nat
      /\ \A i \in 1..m : a[i] \in Seq(S)
      /\ \A i \in 1..n : b[i] \in Seq(S)
  OBVIOUS
<1>4. /\ both \in Seq(Seq(S)) /\ Len(both) = m + n
      /\ \A i \in 1..m : both[i] = a[i]
      /\ \A i \in m+1..m+n : both[i] = b[i - m]
  <2>1. /\ both \in Seq(Seq(S)) /\ Len(both) = m + n
        /\ \A i \in 1..m + n : both[i] = IF i <= m THEN a[i] ELSE b[i - m]
    BY ConcatProperties
  <2> HIDE DEF both, m, n
  <2>2. QED BY <1>3, <2>1
<1>5. /\ f[0] = <<>> /\ \A i \in 0..m : f[i] \in Seq(S)
      /\ \A i \in 1..m : f[i] = f[i-1] \o a[i]
      /\ g[0] = <<>> /\ \A i \in 0..n : g[i] \in Seq(S)
      /\ \A i \in 1..n : g[i] = g[i-1] \o b[i]
  BY <1>1, <1>2 DEF Strung
<1> HIDE DEF both, m, n
<1> DEFINE h == [i \in 0..m+n |-> IF i <= m THEN f[i] ELSE f[m] \o g[i - m]]
<1>6. h[0] = <<>> /\ h[m + n] = f[m] \o g[n]
  <2>1. h[0] = <<>>
    BY <1>3, <1>5
  <2>2. CASE n = 0
    <3>1. f[m] \o g[0] = f[m]
      BY <1>3, <1>5, ConcatEmptySeq
    <3>2. h[m + n] = f[m]
      BY <1>3, <2>2
    <3>3. QED BY <2>1, <2>2, <3>1, <3>2
  <2>3. CASE n # 0
    <3>1. m + n \in 0..m+n /\ ~(m + n <= m) /\ (m + n) - m = n
      BY <1>3, <2>3
    <3>2. QED BY <2>1, <3>1
  <2>4. QED BY <2>2, <2>3
<1>7. ASSUME NEW i \in 1..m+n PROVE h[i] = h[i-1] \o both[i]
  <2>1. i \in 0..m+n /\ i - 1 \in 0..m+n
    BY <1>3
  <2>2. CASE i <= m
    <3>1. i \in 1..m /\ i - 1 <= m
      BY <1>3, <2>2
    <3>2. h[i] = f[i] /\ h[i-1] = f[i-1]
      BY <2>1, <2>2, <3>1
    <3>3. both[i] = a[i] /\ f[i] = f[i-1] \o a[i]
      BY <1>4, <1>5, <3>1
    <3>4. QED BY <3>2, <3>3, Zenon
  <2>3. CASE i > m
    <3> DEFINE k == i - m
    <3>1. /\ k \in 1..n /\ k \in 0..n /\ k - 1 \in 0..n /\ (i - 1) - m = k - 1
          /\ i \in m+1..m+n /\ m \in 0..m
      BY <1>3, <2>3
    <3>2. h[i] = f[m] \o g[k]
      <4>1. ~(i <= m)
        BY <1>3, <2>3
      <4>2. QED BY <2>1, <4>1
    <3>3. h[i-1] = f[m] \o g[k-1]
      <4>1. CASE i - 1 <= m
        <5>1. i - 1 = m /\ k - 1 = 0
          BY <1>3, <2>3, <4>1
        <5>2. h[i-1] = f[m]
          BY <2>1, <5>1
        <5>3. f[m] \o <<>> = f[m]
          BY <1>5, <3>1, ConcatEmptySeq
        <5>4. g[k-1] = <<>>
          BY <1>5, <5>1
        <5>5. QED BY <5>2, <5>3, <5>4, Zenon
      <4>2. CASE ~(i - 1 <= m)
        <5>1. h[i-1] = f[m] \o g[(i - 1) - m]
          BY <2>1, <4>2
        <5> HIDE DEF h, k
        <5>2. QED BY <3>1, <5>1
      <4>3. QED BY <4>1, <4>2
    <3>4. both[i] = b[k] /\ g[k] = g[k-1] \o b[k]
      BY <1>4, <1>5, <3>1
    <3> HIDE DEF h, k
    <3>5. f[m] \in Seq(S) /\ g[k-1] \in Seq(S) /\ b[k] \in Seq(S)
      BY <1>3, <1>5, <3>1
    <3>6. (f[m] \o g[k-1]) \o b[k] = f[m] \o (g[k-1] \o b[k])
      <4>1. \A s, t, u \in Seq(S) : (s \o t) \o u = s \o (t \o u)
        BY ConcatAssociative
      <4>2. QED BY <3>5, <4>1
    <3>7. QED BY <3>2, <3>3, <3>4, <3>6, Zenon
  <2>4. i <= m \/ i > m
    BY <1>3
  <2>5. QED BY <2>2, <2>3, <2>4
<1> HIDE DEF h
<1>8. FlattenSeq(both) = h[m + n]
  BY <1>4, <1>6, <1>7, FlattenIs
<1>9. QED BY <1>1, <1>2, <1>6, <1>8 DEF both
-----------------------------------------------------------------------------
(* A set of positions has a first and a last one. *)
LEMMA FirstAndLast ==
  ASSUME NEW n \in Nat, NEW S \in SUBSET (1..n), S # {}
  PROVE  /\ \E i \in S : \A k \in S : i <= k
         /\ \E i \in S : \A k \in S : k <= i
<1>1. \E i \in S : \A k \in S : i <= k
  <2>1. S \in SUBSET Nat
    OBVIOUS
  <2>2. QED BY <2>1, SmallestIsLeast
<1>2. \E i \in S : \A k \in S : k <= i
  <2> DEFINE R == {n - i : i \in S}
             r == SmallestOf(R)
  <2>1. R \in SUBSET Nat /\ R # {}
    <3>1. \A i \in S : n - i \in Nat
      OBVIOUS
    <3>2. QED BY <3>1
  <2>2. r \in R /\ \A x \in R : r <= x
    BY <2>1, SmallestIsLeast, Zenon
  <2> HIDE DEF r
  <2>3. PICK i \in S : r = n - i
    BY <2>2
  <2>4. \A k \in S : k <= i
    <3>1. \A k \in S : n - i <= n - k
      BY <2>2, <2>3
    <3>2. QED BY <3>1
  <2>5. QED BY <2>4
<1>3. QED BY <1>1, <1>2

(* Adjacent parts of a text. *)
LEMMA PartsJoin ==
  ASSUME NEW T, NEW t \in Seq(T), NEW i \in 1..Len(t)+1, NEW j \in i..Len(t)+1,
         NEW k \in j..Len(t)+1
  PROVE  /\ Part(t, i, j) \in Seq(T)
         /\ Part(t, i, j) \o Part(t, j, k) = Part(t, i, k)
<1>1. Part(t, i, j) \in Seq(T)
  <2>1. i \in Nat \ {0} /\ j - 1 \in 0..Len(t)
    OBVIOUS
  <2>2. QED BY <2>1, PartIsText, Zenon DEF Part
<1>2. Part(t, i, j) \o Part(t, j, k) = Part(t, i, k)
  <2>1. j - 1 \in i - 1 .. Len(t) /\ k - 1 \in j - 1 .. Len(t) /\ (j - 1) + 1 = j
    OBVIOUS
  <2> DEFINE l == j - 1
             n == k - 1
  <2>2. l \in i - 1 .. Len(t) /\ n \in l .. Len(t) /\ l + 1 = j
    BY <2>1
  <2> HIDE DEF l, n
  <2>3. SubSeq(t, i, l) \o SubSeq(t, l + 1, n) = SubSeq(t, i, n)
    BY <2>2, ConcatAdjacentSubSeq
  <2>4. QED BY <2>2, <2>3 DEF Part, l, n
<1>3. QED BY <1>1, <1>2

(* A text is its parts, before and after any position; one token of it. *)
LEMMA PartsOfText ==
  ASSUME NEW T, NEW t \in Seq(T)
  PROVE  /\ Part(t, 1, Len(t) + 1) = t
         /\ \A i \in 1..Len(t) + 1 : Part(t, i, i) = <<>>
         /\ \A i \in 1..Len(t) : Part(t, i, i + 1) = <<t[i]>>
<1>1. Len(t) \in Nat
  OBVIOUS
<1>2. SubSeq(t, 1, Len(t)) = t
  BY SubSeqFull
<1>3. (Len(t) + 1) - 1 = Len(t)
  BY <1>1
<1>4. Part(t, 1, Len(t) + 1) = t
  BY <1>2, <1>3 DEF Part
<1>5. \A i \in 1..Len(t) + 1 : Part(t, i, i) = <<>>
  <2>1. \A i \in 1..Len(t) + 1 : i \in Int /\ i - 1 \in Int /\ i - 1 < i
    BY <1>1
  <2>2. QED BY <2>1, SubSeqEmpty DEF Part
<1>6. \A i \in 1..Len(t) : Part(t, i, i + 1) = <<t[i]>>
  <2> TAKE i \in 1..Len(t)
  <2>1. (i + 1) - 1 = i /\ i \in i..Len(t) /\ i + 1 \in Int /\ i \in Int /\ i < i + 1
    BY <1>1
  <2>2. SubSeq(t, i, i) = <<t[i]>> \o SubSeq(t, i + 1, i)
    BY <2>1, SubSeqRecursiveFirst
  <2>3. SubSeq(t, i + 1, i) = <<>>
    BY <2>1, SubSeqEmpty
  <2>4. <<t[i]>> \o <<>> = <<t[i]>>
    <3>1. <<t[i]>> \in Seq(T)
      OBVIOUS
    <3>2. QED BY <3>1, ConcatEmptySeq
  <2>5. QED BY <2>1, <2>2, <2>3, <2>4 DEF Part
<1>7. QED BY <1>4, <1>5, <1>6
-----------------------------------------------------------------------------
(* What the words of a text are compared as, word by word.                 *)
Values(T) == {Value(w) : w \in T}
Pieces(t) == [i \in DOMAIN t |-> IF t[i] \in {Stop, Comma} THEN <<>>
                                 ELSE <<Value(t[i])>>]

(* The pieces of a text are its values and nothing of its punctuation.     *)
LEMMA PiecesAre ==
  ASSUME NEW T, NEW t \in Seq(T)
  PROVE  /\ Pieces(t) \in Seq(Seq(Values(T))) /\ Len(Pieces(t)) = Len(t)
         /\ Spelled(t) = FlattenSeq(Pieces(t))
         /\ Spelled(t) \in Seq(Values(T))
<1> DEFINE piece(w) == IF w \in {Stop, Comma} THEN <<>> ELSE <<Value(w)>>
<1>1. \A w \in T : piece(w) \in Seq(Values(T))
  <2>1. \A w \in T : Value(w) \in Values(T)
    BY Zenon DEF Values
  <2>2. QED BY <2>1
<1>2. DOMAIN t = 1..Len(t) /\ Len(t) \in Nat /\ \A i \in 1..Len(t) : t[i] \in T
  OBVIOUS
<1>3. Pieces(t) = [i \in 1..Len(t) |-> piece(t[i])]
  BY <1>2 DEF Pieces
<1> HIDE DEF piece
<1>4. Pieces(t) \in [1..Len(t) -> Seq(Values(T))]
  BY <1>1, <1>2, <1>3
<1>5. Pieces(t) \in Seq(Seq(Values(T)))
  BY <1>2, <1>4, FunctionInSeq
<1>6. Len(Pieces(t)) = Len(t)
  <2>1. DOMAIN Pieces(t) = 1..Len(t)
    BY <1>3
  <2>2. DOMAIN Pieces(t) = 1..Len(Pieces(t)) /\ Len(Pieces(t)) \in Nat
    BY <1>5, LenProperties
  <2>3. QED BY <1>2, <2>1, <2>2, SameUpto
<1>7. Spelled(t) = FlattenSeq(Pieces(t))
  BY Zenon DEF Spelled, Pieces
<1>8. QED BY <1>5, <1>6, <1>7, FlattenIsSeq

(* What two texts together say. *)
LEMMA SpelledConcat ==
  ASSUME NEW T, NEW s \in Seq(T), NEW t \in Seq(T)
  PROVE  Spelled(s \o t) = Spelled(s) \o Spelled(t)
<1> DEFINE both == s \o t
<1>1. /\ both \in Seq(T) /\ Len(both) = Len(s) + Len(t)
      /\ \A i \in 1..Len(s) + Len(t) : both[i] = IF i <= Len(s) THEN s[i] ELSE t[i - Len(s)]
  BY ConcatProperties
<1> HIDE DEF both
<1>2. /\ Pieces(s) \in Seq(Seq(Values(T))) /\ Len(Pieces(s)) = Len(s)
      /\ Pieces(t) \in Seq(Seq(Values(T))) /\ Len(Pieces(t)) = Len(t)
      /\ Pieces(both) \in Seq(Seq(Values(T))) /\ Len(Pieces(both)) = Len(both)
  BY <1>1, PiecesAre
<1>3. Pieces(both) = Pieces(s) \o Pieces(t)
  <2> DEFINE p == Pieces(s) \o Pieces(t)
  <2>1. /\ p \in Seq(Seq(Values(T))) /\ Len(p) = Len(s) + Len(t)
        /\ \A i \in 1..Len(s) + Len(t) :
             p[i] = IF i <= Len(s) THEN Pieces(s)[i] ELSE Pieces(t)[i - Len(s)]
    <3>1. /\ p \in Seq(Seq(Values(T))) /\ Len(p) = Len(Pieces(s)) + Len(Pieces(t))
          /\ \A i \in 1..Len(Pieces(s)) + Len(Pieces(t)) :
               p[i] = IF i <= Len(Pieces(s)) THEN Pieces(s)[i]
                      ELSE Pieces(t)[i - Len(Pieces(s))]
      BY <1>2, ConcatProperties
    <3> HIDE DEF p
    <3>2. QED BY <1>2, <3>1
  <2> HIDE DEF p
  <2>2. /\ Len(s) \in Nat /\ Len(t) \in Nat
        /\ DOMAIN s = 1..Len(s) /\ DOMAIN t = 1..Len(t) /\ DOMAIN both = 1..Len(both)
    BY <1>1
  <2>3. ASSUME NEW i \in 1..Len(both) PROVE Pieces(both)[i] = p[i]
    <3>1. Pieces(both)[i] = IF both[i] \in {Stop, Comma} THEN <<>> ELSE <<Value(both[i])>>
      BY <2>2 DEF Pieces
    <3>2. CASE i <= Len(s)
      <4>1. i \in DOMAIN s /\ both[i] = s[i] /\ p[i] = Pieces(s)[i]
        BY <1>1, <2>1, <2>2, <3>2
      <4>2. Pieces(s)[i] = IF s[i] \in {Stop, Comma} THEN <<>> ELSE <<Value(s[i])>>
        BY <4>1 DEF Pieces
      <4>3. QED BY <3>1, <4>1, <4>2
    <3>3. CASE ~(i <= Len(s))
      <4> DEFINE k == i - Len(s)
      <4>1. k \in DOMAIN t /\ both[i] = t[k] /\ p[i] = Pieces(t)[k]
        BY <1>1, <2>1, <2>2, <3>3
      <4> HIDE DEF k
      <4>2. Pieces(t)[k] = IF t[k] \in {Stop, Comma} THEN <<>> ELSE <<Value(t[k])>>
        BY <4>1 DEF Pieces
      <4>3. QED BY <3>1, <4>1, <4>2
    <3>4. QED BY <3>2, <3>3
  <2>4. Len(Pieces(both)) = Len(p)
    BY <1>1, <1>2, <2>1
  <2>5. Pieces(both) = p
    BY <1>2, <2>1, <2>3, <2>4, SeqEqual
  <2>6. QED BY <2>5 DEF p
<1>4. FlattenSeq(Pieces(s) \o Pieces(t)) = FlattenSeq(Pieces(s)) \o FlattenSeq(Pieces(t))
  BY <1>2, FlattenConcat
<1>5. /\ Spelled(s) = FlattenSeq(Pieces(s)) /\ Spelled(t) = FlattenSeq(Pieces(t))
      /\ Spelled(both) = FlattenSeq(Pieces(both))
  BY <1>1, PiecesAre
<1>6. QED BY <1>3, <1>4, <1>5 DEF both

(* One token, and none. *)
LEMMA SpelledFew ==
  ASSUME NEW T, NEW w \in T
  PROVE  /\ Spelled(<<w>>) = IF w \in {Stop, Comma} THEN <<>> ELSE <<Value(w)>>
         /\ Spelled(<<>>) = <<>>
<1>1. <<w>> \in Seq(T) /\ DOMAIN <<w>> = 1..1 /\ <<w>>[1] = w
  OBVIOUS
<1> DEFINE piece == IF w \in {Stop, Comma} THEN <<>> ELSE <<Value(w)>>
<1>2. Pieces(<<w>>) = <<piece>>
  <2>1. Pieces(<<w>>) = [i \in 1..1 |-> piece]
    BY <1>1 DEF Pieces
  <2> HIDE DEF piece
  <2>2. QED BY <2>1
<1>3. piece \in Seq(Values(T))
  <2>1. Value(w) \in Values(T)
    BY Zenon DEF Values
  <2>2. QED BY <2>1
<1> HIDE DEF piece
<1>4. Spelled(<<w>>) = piece
  BY <1>1, <1>2, <1>3, PiecesAre, FlattenFew
<1>5. Spelled(<<>>) = <<>>
  <2>1. <<>> \in Seq(T)
    OBVIOUS
  <2>2. Spelled(<<>>) = FlattenSeq(Pieces(<<>>))
    BY <2>1, PiecesAre
  <2>3. Pieces(<<>>) = <<>>
    BY DEF Pieces
  <2>4. QED BY <1>3, <2>2, <2>3, FlattenFew
<1>6. QED BY <1>4, <1>5 DEF piece

(* Nothing but punctuation says nothing. *)
LEMMA SpelledNothing ==
  ASSUME NEW T, NEW t \in Seq(T), \A i \in 1..Len(t) : t[i] \in {Stop, Comma}
  PROVE  Spelled(t) = <<>>
<1>1. DOMAIN t = 1..Len(t) /\ Len(t) \in Nat
  OBVIOUS
<1>2. Pieces(t) \in Seq(Seq(Values(T))) /\ Len(Pieces(t)) = Len(t)
  BY PiecesAre
<1>3. \A i \in 1..Len(t) : Pieces(t)[i] = <<>>
  BY <1>1 DEF Pieces
<1> DEFINE g == [i \in 0..Len(t) |-> <<>>]
<1>4. g[0] = <<>> /\ g[Len(t)] = <<>>
  BY <1>1
<1>5. <<>> \o <<>> = <<>>
  OBVIOUS
<1>6. \A i \in 1..Len(t) : g[i] = g[i-1] \o Pieces(t)[i]
  BY <1>1, <1>3, <1>5
<1> HIDE DEF g
<1>7. FlattenSeq(Pieces(t)) = g[Len(t)]
  BY <1>2, <1>4, <1>6, FlattenIs
<1>8. QED BY <1>4, <1>7, PiecesAre

(* Neither does trimming it away change what a text says. *)
LEMMA TrimSpells ==
  ASSUME NEW T, NEW t \in Seq(T), NEW cut \in SUBSET {Stop, Comma}
  PROVE  /\ TrimTokens(t, cut) \in Seq(T)
         /\ Spelled(TrimTokens(t, cut)) = Spelled(t)
<1> DEFINE n == Len(t)
           kept == {i \in DOMAIN t : t[i] \notin cut}
           from == CHOOSE i \in kept : \A k \in kept : i <= k
           to   == CHOOSE i \in kept : \A k \in kept : k <= i
<1>1. n \in Nat /\ DOMAIN t = 1..n /\ \A i \in 1..n : t[i] \in T
  OBVIOUS
<1>2. TrimTokens(t, cut) = IF kept = {} THEN <<>> ELSE SubSeq(t, from, to)
  BY Zenon DEF TrimTokens
<1>3. CASE kept = {}
  <2>1. Spelled(t) = <<>>
    BY <1>1, <1>3, SpelledNothing
  <2>2. TrimTokens(t, cut) = <<>>
    BY <1>2, <1>3
  <2>3. QED
    <3>1. CASE n = 0
      <4>1. t = <<>>
        BY <3>1
      <4>2. QED BY <2>2, <4>1
    <3>2. CASE n # 0
      <4>1. t[1] \in T
        BY <1>1, <3>2
      <4>2. Spelled(<<>>) = <<>>
        BY <4>1, SpelledFew
      <4>3. QED BY <2>1, <2>2, <4>2
    <3>3. QED BY <3>1, <3>2
<1>4. CASE kept # {}
  <2>1. kept \in SUBSET (1..n)
    BY <1>1
  <2>2. /\ from \in kept /\ \A k \in kept : from <= k
        /\ to \in kept /\ \A k \in kept : k <= to
    BY <1>1, <1>4, <2>1, FirstAndLast, Zenon
  <2> HIDE DEF from, to
  <2>3. from \in 1..n /\ to \in from..n
    BY <1>1, <2>2
  <2> DEFINE a == Part(t, 1, from)
             b == Part(t, from, to + 1)
             c == Part(t, to + 1, n + 1)
  <2>4. TrimTokens(t, cut) = b
    <3>1. (to + 1) - 1 = to
      BY <2>3
    <3>2. QED BY <1>2, <1>4, <3>1 DEF Part
  <2>5. /\ 1 \in 1..n+1 /\ from \in 1..n+1 /\ to + 1 \in from..n+1 /\ to + 1 \in 1..n+1
        /\ n + 1 \in to+1..n+1 /\ n + 1 \in from..n+1
    BY <1>1, <2>3
  <2>6. a \in Seq(T) /\ b \in Seq(T) /\ c \in Seq(T)
    BY <2>5, PartsJoin
  <2>7. t = a \o (b \o c)
    <3>1. b \o c = Part(t, from, n + 1)
      BY <2>5, PartsJoin
    <3>2. a \o Part(t, from, n + 1) = Part(t, 1, n + 1)
      BY <2>5, PartsJoin
    <3>3. Part(t, 1, n + 1) = t
      BY PartsOfText
    <3>4. QED BY <3>1, <3>2, <3>3
  <2>8. Spelled(a) = <<>>
    <3>1. /\ Len(a) = from - 1
          /\ \A i \in 1..from-1 : a[i] = t[i]
      BY <1>1, <2>3 DEF Part
    <3>2. \A i \in 1..from-1 : i \notin kept /\ i \in 1..n
      BY <1>1, <2>2, <2>3
    <3>3. \A i \in 1..from-1 : t[i] \in {Stop, Comma}
      BY <1>1, <3>2
    <3> HIDE DEF a
    <3>4. QED BY <2>6, <3>1, <3>3, SpelledNothing
  <2>9. Spelled(c) = <<>>
    <3>1. /\ Len(c) = n - to
          /\ \A i \in 1..n-to : c[i] = t[to + i]
      BY <1>1, <2>3 DEF Part
    <3>2. \A i \in 1..n-to : to + i \notin kept /\ to + i \in 1..n
      BY <1>1, <2>2, <2>3
    <3>3. \A i \in 1..n-to : t[to + i] \in {Stop, Comma}
      BY <1>1, <3>2
    <3> HIDE DEF c
    <3>4. QED BY <2>6, <3>1, <3>3, SpelledNothing
  <2> HIDE DEF a, b, c
  <2>10. /\ Spelled(t) = Spelled(a) \o Spelled(b \o c)
         /\ Spelled(b \o c) = Spelled(b) \o Spelled(c)
    BY <2>6, <2>7, ConcatProperties, SpelledConcat
  <2>11. Spelled(b) \in Seq(Values(T))
    BY <2>6, PiecesAre
  <2>12. Spelled(t) = Spelled(b)
    BY <2>8, <2>9, <2>10, <2>11, ConcatEmptySeq
  <2>13. QED BY <2>4, <2>6, <2>12
<1>5. QED BY <1>3, <1>4
-----------------------------------------------------------------------------
(* What orderedMarkers finds: a written number, the tenths of a decimal    *)
(* before a stop, or a spoken number before a stop or a comma.             *)
IsMarker(m, t) ==
  /\ m.start \in 1..Len(t)
  /\ \/ /\ t[m.start] \in Written /\ m.end = m.start + 1
        /\ m.value = WrittenValue(t[m.start])
     \/ /\ t[m.start] = Tenths /\ m.end = m.start + 2 /\ m.value = 5
        /\ m.start + 1 \in 1..Len(t) /\ t[m.start + 1] = Stop
     \/ /\ t[m.start] \in DOMAIN Spoken /\ m.end = m.start + 2
        /\ m.value = Spoken[t[m.start]]
        /\ m.start + 1 \in 1..Len(t) /\ t[m.start + 1] \in {Stop, Comma}

(* A token begins at most one of them. *)
LEMMA MarkersDiffer ==
  /\ \A w \in Written : w # Tenths /\ w \notin DOMAIN Spoken
  /\ Tenths \notin DOMAIN Spoken
  /\ \A w \in Written \cup {Tenths} \cup DOMAIN Spoken : w \notin {Stop, Comma}
<1>1. DOMAIN Spoken = {"one", "first", "One", "two", "second", "three"}
  BY DEF Spoken
<1>2. QED BY <1>1 DEF Written, Tenths, Stop, Comma

(* They are numbered from left to right. *)
LEMMA MarkersAre ==
  ASSUME NEW T, NEW t \in Seq(T)
  PROVE  LET ms == MarkersOf(t) IN
         /\ Len(ms) \in Nat /\ DOMAIN ms = 1..Len(ms)
         /\ \A n \in 1..Len(ms) : IsMarker(ms[n], t)
         /\ \A m, n \in 1..Len(ms) : m < n => ms[m].start < ms[n].start
<1> DEFINE at(i) == i \in DOMAIN t
           written == {[start |-> i, end |-> i + 1, value |-> WrittenValue(t[i])] :
                         i \in {k \in DOMAIN t : t[k] \in Written}}
           tenths == {[start |-> i, end |-> i + 2, value |-> 5] :
                        i \in {k \in DOMAIN t : t[k] = Tenths /\ at(k+1) /\ t[k+1] = Stop}}
           spoken == {[start |-> i, end |-> i + 2, value |-> Spoken[t[i]]] :
                        i \in {k \in DOMAIN t : /\ t[k] \in DOMAIN Spoken
                                                /\ at(k+1)
                                                /\ t[k+1] \in {Stop, Comma}}}
           all == written \cup tenths \cup spoken
           nth(n) == CHOOSE m \in all :
                       Cardinality({k \in all : k.start < m.start}) = n - 1
           ms == [n \in 1..Cardinality(all) |-> nth(n)]
<1>1. MarkersOf(t) = ms
  BY Zenon DEF MarkersOf
<1>2. DOMAIN t = 1..Len(t) /\ Len(t) \in Nat
  OBVIOUS
<1>3. \A m \in all : IsMarker(m, t)
  <2>1. \A m \in written : IsMarker(m, t)
    BY <1>2 DEF IsMarker
  <2>2. \A m \in tenths : IsMarker(m, t)
    BY <1>2 DEF IsMarker
  <2>3. \A m \in spoken : IsMarker(m, t)
    BY <1>2 DEF IsMarker
  <2>4. QED BY <2>1, <2>2, <2>3
<1>4. \A m \in all : m.start \in 1..Len(t)
  BY <1>3 DEF IsMarker
<1>5. \A m, k \in all : m.start = k.start => m = k
  <2>1. \A m, k \in written : m.start = k.start => m = k
    OBVIOUS
  <2>2. \A m, k \in tenths : m.start = k.start => m = k
    OBVIOUS
  <2>3. \A m, k \in spoken : m.start = k.start => m = k
    OBVIOUS
  <2>4. /\ \A m \in written : t[m.start] \in Written
        /\ \A m \in tenths : t[m.start] = Tenths
        /\ \A m \in spoken : t[m.start] \in DOMAIN Spoken
    OBVIOUS
  <2> HIDE DEF written, tenths, spoken
  <2>5. /\ \A m \in written, k \in tenths : m.start # k.start
        /\ \A m \in written, k \in spoken : m.start # k.start
        /\ \A m \in tenths, k \in spoken : m.start # k.start
    <3>1. \A w \in Written : w # Tenths /\ w \notin DOMAIN Spoken
      BY MarkersDiffer
    <3>2. Tenths \notin DOMAIN Spoken
      BY MarkersDiffer
    <3>3. QED BY <2>4, <3>1, <3>2, Zenon
  <2>6. QED BY <2>1, <2>2, <2>3, <2>5
<1> HIDE DEF all
<1>6. IsFiniteSet(all)
  <2> DEFINE f == [m \in all |-> m.start]
  <2>1. f \in Injection(all, 1..Len(t))
    <3>1. f \in [all -> 1..Len(t)]
      BY <1>4
    <3>2. \A m, k \in all : f[m] = f[k] => m = k
      BY <1>5
    <3>3. QED BY <3>1, <3>2 DEF Injection, IsInjective
  <2>2. IsFiniteSet(1..Len(t))
    BY <1>2, FS_Interval
  <2> HIDE DEF f
  <2>3. QED BY <2>1, <2>2, FS_Injection
<1> DEFINE R == {p \in all \X all : p[1].start < p[2].start}
<1>7. \A x, y \in all : <<x, y>> \in R <=> x.start < y.start
  OBVIOUS
<1> HIDE DEF R
<1>8. Orders(R, all)
  <2>1. \A x \in all : <<x, x>> \notin R
    BY <1>4, <1>7
  <2>2. ASSUME NEW x \in all, NEW y \in all, NEW z \in all, <<x, y>> \in R, <<y, z>> \in R
        PROVE  <<x, z>> \in R
    <3>1. x.start < y.start /\ y.start < z.start
      BY <1>7, <2>2
    <3>2. x.start \in Nat /\ y.start \in Nat /\ z.start \in Nat
      BY <1>4
    <3>3. x.start < z.start
      BY <3>1, <3>2
    <3>4. QED BY <1>7, <3>3
  <2>3. ASSUME NEW x \in all, NEW y \in all
        PROVE  x = y \/ <<x, y>> \in R \/ <<y, x>> \in R
    <3>1. x.start \in Nat /\ y.start \in Nat
      BY <1>4
    <3>2. x.start = y.start \/ x.start < y.start \/ y.start < x.start
      BY <3>1
    <3>3. QED BY <1>5, <1>7, <3>2
  <2>4. QED BY <2>1, <2>2, <2>3, Zenon DEF Orders
<1> DEFINE rank == Ranks(R, all)
           N == Cardinality(all)
<1>9. rank \in Bijection(all, 1..N)
  BY <1>6, <1>8, Ranked, Zenon
<1>10. \A x, y \in all : x.start < y.start => rank[x] < rank[y]
  BY <1>6, <1>7, <1>8, RanksFollow
<1>11. ASSUME NEW n \in 1..N PROVE nth(n) \in all /\ rank[nth(n)] = n
  <2>1. \A x \in all : rank[x] = Cardinality({k \in all : k.start < x.start}) + 1
    <3>1. \A x \in all : Below(R, all, x) = {k \in all : k.start < x.start}
      BY <1>7 DEF Below
    <3>2. QED BY <3>1 DEF Ranks
  <2>2. \A x \in all : Cardinality({k \in all : k.start < x.start}) \in Nat
    <3>1. \A x \in all : {k \in all : k.start < x.start} \in SUBSET all
      OBVIOUS
    <3>2. \A x \in all : IsFiniteSet({k \in all : k.start < x.start})
      BY <1>6, <3>1, FS_Subset, Zenon
    <3>3. QED BY <3>2, FS_CardinalityType, Zenon
  <2>3. PICK x \in all : rank[x] = n
    BY <1>9 DEF Bijection, Surjection
  <2>4. Cardinality({k \in all : k.start < x.start}) = n - 1
    <3> DEFINE c == Cardinality({k \in all : k.start < x.start})
    <3>1. c \in Nat /\ c + 1 = n
      BY <2>1, <2>2, <2>3
    <3> HIDE DEF c
    <3>2. c = n - 1
      BY <3>1
    <3>3. QED BY <3>2 DEF c
  <2>5. nth(n) \in all /\ Cardinality({k \in all : k.start < nth(n).start}) = n - 1
    BY <2>4, Zenon
  <2> HIDE DEF nth
  <2>6. rank[nth(n)] = (n - 1) + 1
    BY <2>1, <2>5
  <2>7. QED BY <2>5, <2>6
<1>12. N \in Nat
  BY <1>6, FS_CardinalityType
<1> HIDE DEF nth, N
<1>13. Len(ms) = N /\ DOMAIN ms = 1..N
  BY <1>12, FunctionIs DEF N
<1>14. \A n \in 1..N : ms[n] \in all /\ rank[ms[n]] = n
  BY <1>11 DEF N
<1>15. \A n \in 1..N : IsMarker(ms[n], t)
  BY <1>3, <1>14
<1>16. ASSUME NEW m \in 1..N, NEW n \in 1..N, m < n PROVE ms[m].start < ms[n].start
  <2> DEFINE x == ms[m]
             y == ms[n]
  <2>1. x \in all /\ y \in all /\ rank[x] = m /\ rank[y] = n
    BY <1>14
  <2> HIDE DEF x, y, ms, rank
  <2>2. x.start \in Nat /\ y.start \in Nat
    BY <1>4, <2>1
  <2>3. ~(y.start < x.start)
    BY <1>10, <1>12, <1>16, <2>1
  <2>4. x.start # y.start
    BY <1>5, <1>16, <2>1
  <2>5. x.start < y.start
    BY <2>2, <2>3, <2>4
  <2>6. QED BY <2>5 DEF x, y
<1> HIDE DEF ms
<1>17. QED BY <1>1, <1>12, <1>13, <1>15, <1>16

(* A run: markers with the values 1, 2, ..., each after the one before.    *)
IsRun(rs, t) ==
  /\ Len(rs) \in Nat /\ DOMAIN rs = 1..Len(rs)
  /\ \A n \in 1..Len(rs) : IsMarker(rs[n], t) /\ rs[n].value = n
  /\ \A m, n \in 1..Len(rs) : m < n => rs[m].start < rs[n].start

(* What Run takes of the markers is a run (orderedMarkers).                *)
LEMMA RunIs ==
  ASSUME NEW T, NEW t \in Seq(T)
  PROVE  IsRun(Run(MarkersOf(t)), t)
<1> DEFINE ms == MarkersOf(t)
           ascends(n) == \A k \in 1..n : ms[k].value = k
           length == CHOOSE n \in 0..Len(ms) :
                       /\ ascends(n) /\ (n = Len(ms) \/ ~ascends(n + 1))
           rs == SubSeq(ms, 1, length)
<1>1. Run(ms) = rs
  BY Zenon DEF Run
<1>2. /\ Len(ms) \in Nat /\ DOMAIN ms = 1..Len(ms)
      /\ \A n \in 1..Len(ms) : IsMarker(ms[n], t)
      /\ \A m, n \in 1..Len(ms) : m < n => ms[m].start < ms[n].start
  BY MarkersAre
<1> HIDE DEF ms
<1>3. length \in 0..Len(ms) /\ ascends(length)
  <2> DEFINE S == {n \in 1..Len(ms)+1 : ascends(n - 1)}
  <2>1. 1 \in S
    BY <1>2
  <2>2. PICK i \in S : \A k \in S : k <= i
    <3>1. Len(ms) + 1 \in Nat /\ S \in SUBSET (1..Len(ms) + 1) /\ S # {}
      BY <1>2, <2>1
    <3> HIDE DEF S
    <3>2. QED BY <3>1, FirstAndLast
  <2> DEFINE n == i - 1
  <2>3. n \in 0..Len(ms) /\ ascends(n)
    BY <1>2
  <2>4. n = Len(ms) \/ ~ascends(n + 1)
    <3> SUFFICES ASSUME n # Len(ms), ascends(n + 1) PROVE FALSE
      OBVIOUS
    <3>1. n + 1 = i /\ i + 1 \in 1..Len(ms)+1 /\ (i + 1) - 1 = i
      BY <1>2, <2>3
    <3>2. ascends(i)
      BY <3>1
    <3> HIDE DEF ascends
    <3>3. i + 1 \in S
      BY <3>1, <3>2
    <3>4. i + 1 <= i
      BY <2>2, <3>3
    <3>5. QED BY <1>2, <3>4
  <2> HIDE DEF n, ascends
  <2>5. QED BY <2>3, <2>4, Zenon
<1> HIDE DEF length
<1>4. rs = [n \in 1..length |-> ms[n]]
  BY <1>2, <1>3
<1>5. Len(rs) = length /\ DOMAIN rs = 1..length /\ length \in Nat
  <2>1. length \in Nat
    BY <1>2, <1>3
  <2>2. QED BY <1>4, <2>1, FunctionIs
<1>6. \A n \in 1..length : rs[n] = ms[n] /\ n \in 1..Len(ms)
  BY <1>2, <1>3, <1>4
<1> HIDE DEF rs
<1>7. QED BY <1>1, <1>2, <1>3, <1>5, <1>6 DEF IsRun, ms

(* There is no marker for four, so a run has at most three. *)
LEMMA RunIsShort ==
  ASSUME NEW rs, NEW t, IsRun(rs, t)
  PROVE  Len(rs) <= 3
<1>1. ASSUME Len(rs) >= 4 PROVE FALSE
  <2>1. 4 \in 1..Len(rs)
    BY <1>1 DEF IsRun
  <2>2. IsMarker(rs[4], t) /\ rs[4].value = 4
    BY <2>1 DEF IsRun
  <2>3. \A w : WrittenValue(w) \in {1, 2, 3}
    BY DEF WrittenValue
  <2>4. \A w \in DOMAIN Spoken : Spoken[w] \in {1, 2, 3}
    BY DEF Spoken
  <2>5. QED BY <2>2, <2>3, <2>4 DEF IsMarker
<1>2. QED BY <1>1 DEF IsRun

(* Each marker says its number, and the next begins after its end. *)
LEMMA RunSays ==
  ASSUME NEW T, NEW t \in Seq(T), NEW rs, IsRun(rs, t), NEW n \in 1..Len(rs)
  PROVE  /\ n \in {1, 2, 3}
         /\ rs[n].start \in 1..Len(t) /\ rs[n].end \in rs[n].start+1..Len(t)+1
         /\ n < Len(rs) => rs[n].end <= rs[n+1].start
         /\ Spelled(Part(t, rs[n].start, rs[n].end)) = <<Numbers[n]>>
<1> DEFINE m == rs[n]
           i == m.start
<1>1. Len(rs) \in Nat /\ n \in 1..3 /\ IsMarker(m, t) /\ m.value = n
  <2>1. Len(rs) <= 3
    BY RunIsShort
  <2>2. QED BY <2>1 DEF IsRun
<1>2. n \in {1, 2, 3}
  BY <1>1
<1>3. i \in 1..Len(t) /\ Len(t) \in Nat /\ t[i] \in T
  BY <1>1 DEF IsMarker
<1>4. /\ DOMAIN Spoken = {"one", "first", "One", "two", "second", "three"}
      /\ \A w \in DOMAIN Spoken : Spoken[w] \in {1, 2, 3}
  BY DEF Spoken
<1>5. Numbers[1] = "1." /\ Numbers[2] = "2." /\ Numbers[3] = "3."
  BY DEF Numbers
<1>6. /\ Part(t, i, i + 1) = <<t[i]>>
      /\ i + 1 \in 1..Len(t) => Part(t, i + 1, i + 2) = <<t[i + 1]>>
  <2>1. Part(t, i, i + 1) = <<t[i]>>
    BY <1>3, PartsOfText
  <2>2. i + 1 \in 1..Len(t) => Part(t, i + 1, (i + 1) + 1) = <<t[i + 1]>>
    BY <1>3, PartsOfText
  <2>3. (i + 1) + 1 = i + 2
    BY <1>3
  <2>4. QED BY <2>1, <2>2, <2>3
<1> HIDE DEF i
<1>7. CASE t[i] \in Written /\ m.end = i + 1 /\ m.value = WrittenValue(t[i])
  <2>1. m.end \in i+1..Len(t)+1
    BY <1>3, <1>7
  <2>2. Value(t[i]) = Numbers[n]
    <3>1. t[i] \notin DOMAIN Spoken
      BY <1>7, MarkersDiffer
    <3>2. t[i] \notin DOMAIN Lowered
      BY <1>7 DEF Written, Lowered
    <3>3. Value(t[i]) = t[i]
      BY <3>1, <3>2 DEF Value, FoldToken
    <3>4. t[i] = Numbers[n]
      <4>1. n = WrittenValue(t[i])
        BY <1>1, <1>7
      <4> HIDE DEF m
      <4>2. CASE t[i] = "1."
        BY <1>5, <4>1, <4>2 DEF WrittenValue
      <4>3. CASE t[i] = "2."
        BY <1>5, <4>1, <4>3 DEF WrittenValue
      <4>4. CASE t[i] = "3."
        BY <1>5, <4>1, <4>4 DEF WrittenValue
      <4>5. QED BY <1>7, <4>2, <4>3, <4>4 DEF Written
    <3>5. QED BY <3>3, <3>4
  <2>3. Spelled(Part(t, i, m.end)) = <<Numbers[n]>>
    <3>1. t[i] \notin {Stop, Comma}
      BY <1>7, MarkersDiffer
    <3>2. Spelled(<<t[i]>>) = <<Value(t[i])>>
      BY <1>3, <3>1, SpelledFew
    <3>3. QED BY <1>6, <1>7, <2>2, <3>2
  <2>4. n < Len(rs) => m.end <= rs[n+1].start
    <3>1. n < Len(rs) => n + 1 \in 1..Len(rs)
      BY <1>1
    <3>2. n < Len(rs) => i < rs[n+1].start /\ rs[n+1].start \in Nat
      BY <1>1, <3>1 DEF IsRun, IsMarker, i, m
    <3>3. QED BY <1>3, <1>7, <3>2
  <2>5. QED BY <1>2, <1>3, <2>1, <2>3, <2>4 DEF i
<1>8. CASE t[i] = Tenths /\ m.value = 5
  BY <1>2, <1>1, <1>8
<1>9. CASE /\ t[i] \in DOMAIN Spoken /\ m.end = i + 2 /\ m.value = Spoken[t[i]]
           /\ i + 1 \in 1..Len(t) /\ t[i + 1] \in {Stop, Comma}
  <2>1. m.end \in i+1..Len(t)+1
    BY <1>3, <1>9
  <2>2. Value(t[i]) = Numbers[n]
    <3>1. n = Spoken[t[i]]
      BY <1>1, <1>9
    <3>2. Value(t[i]) = CASE Spoken[t[i]] = 1 -> "1." [] Spoken[t[i]] = 2 -> "2."
                          [] OTHER -> "3."
      BY <1>9 DEF Value
    <3> HIDE DEF m
    <3>3. CASE n = 1
      BY <1>5, <3>1, <3>2, <3>3
    <3>4. CASE n = 2
      BY <1>5, <3>1, <3>2, <3>4
    <3>5. CASE n = 3
      BY <1>5, <3>1, <3>2, <3>5
    <3>6. QED BY <1>2, <3>3, <3>4, <3>5
  <2>3. Spelled(Part(t, i, m.end)) = <<Numbers[n]>>
    <3>1. t[i] \notin {Stop, Comma}
      BY <1>9, MarkersDiffer
    <3>2. t[i + 1] \in T
      BY <1>9
    <3>3. Spelled(<<t[i]>>) = <<Value(t[i])>>
      BY <1>3, <3>1, SpelledFew
    <3>4. Spelled(<<t[i+1]>>) = <<>>
      BY <1>9, <3>2, SpelledFew
    <3>5. Part(t, i, i + 2) = <<t[i]>> \o <<t[i+1]>>
      <4>1. i \in 1..Len(t)+1 /\ i + 1 \in i..Len(t)+1 /\ i + 2 \in i+1..Len(t)+1
        BY <1>3, <1>9
      <4>2. Part(t, i, i + 1) \o Part(t, i + 1, i + 2) = Part(t, i, i + 2)
        BY <4>1, PartsJoin
      <4>3. QED BY <1>6, <1>9, <4>2
    <3>6. Spelled(<<t[i]>> \o <<t[i+1]>>) = Spelled(<<t[i]>>) \o Spelled(<<t[i+1]>>)
      <4>1. <<t[i]>> \in Seq(T) /\ <<t[i+1]>> \in Seq(T)
        BY <1>3, <3>2
      <4>2. QED BY <4>1, SpelledConcat
    <3>7. <<Value(t[i])>> \o <<>> = <<Value(t[i])>>
      OBVIOUS
    <3>8. QED BY <1>9, <2>2, <3>3, <3>4, <3>5, <3>6, <3>7
  <2>4. n < Len(rs) => m.end <= rs[n+1].start
    <3>1. n < Len(rs) => n + 1 \in 1..Len(rs)
      BY <1>1
    <3>2. n < Len(rs) => i < rs[n+1].start /\ IsMarker(rs[n+1], t)
      BY <1>1, <3>1 DEF IsRun, i, m
    <3>3. n < Len(rs) => /\ rs[n+1].start \in Nat
                         /\ t[rs[n+1].start] \in Written \cup {Tenths} \cup DOMAIN Spoken
      BY <3>2 DEF IsMarker
    <3>4. n < Len(rs) => rs[n+1].start # i + 1
      BY <1>9, <3>3, MarkersDiffer
    <3>5. QED BY <1>3, <1>9, <3>2, <3>3, <3>4
  <2>5. QED BY <1>2, <1>3, <2>1, <2>3, <2>4 DEF i
<1>10. QED BY <1>1, <1>7, <1>8, <1>9 DEF IsMarker, i
-----------------------------------------------------------------------------
(* The blocks of a document over the tokens W, and the numbers of items.   *)
Block(W) == [type : {"paragraph", "heading", "numbered", "bullets"},
             text : Seq(W), items : Seq(Seq(W))]
Digits == {Numbers[n] : n \in Nat}

(* The text of a block: a numbered item begins with its number. *)
LEMMA BlockTextIs ==
  ASSUME NEW W, Digits \subseteq W
  PROVE  /\ \A b \in Block(W) : BlockText(b) \in Seq(W)
         /\ \A t \in Seq(W) : /\ Paragraph(t) \in Block(W) /\ BlockText(Paragraph(t)) = t
                              /\ Heading(t) \in Block(W) /\ BlockText(Heading(t)) = t
         /\ \A is \in Seq(Seq(W)) :
              /\ Numbered(is) \in Block(W)
              /\ [n \in DOMAIN is |-> <<Numbers[n]>> \o is[n]] \in Seq(Seq(W))
              /\ BlockText(Numbered(is))
                   = FlattenSeq([n \in DOMAIN is |-> <<Numbers[n]>> \o is[n]])
<1>1. ASSUME NEW is \in Seq(Seq(W))
      PROVE  [n \in DOMAIN is |-> <<Numbers[n]>> \o is[n]] \in Seq(Seq(W))
  <2> DEFINE V == Seq(W)
             line(n) == <<Numbers[n]>> \o is[n]
  <2>1. DOMAIN is = 1..Len(is) /\ Len(is) \in Nat /\ \A n \in 1..Len(is) : is[n] \in V
    OBVIOUS
  <2>2. ASSUME NEW n \in 1..Len(is) PROVE line(n) \in V
    <3>1. Numbers[n] \in W
      <4>1. n \in Nat
        BY <2>1
      <4>2. QED BY <4>1, Zenon DEF Digits
    <3>2. <<Numbers[n]>> \in Seq(W) /\ is[n] \in Seq(W)
      BY <2>1, <3>1
    <3>3. QED BY <3>2, ConcatProperties
  <2> HIDE DEF line, V
  <2>3. [n \in DOMAIN is |-> line(n)] \in [1..Len(is) -> V]
    BY <2>1, <2>2
  <2>4. [n \in DOMAIN is |-> line(n)] \in Seq(V)
    BY <2>1, <2>3, FunctionInSeq
  <2>5. QED BY <2>4, Zenon DEF line, V
<1>2. ASSUME NEW b \in Block(W) PROVE BlockText(b) \in Seq(W)
  <2>1. b.text \in Seq(W) /\ b.items \in Seq(Seq(W))
    BY DEF Block
  <2>2. CASE b.type = "numbered"
    <3> DEFINE lines == [n \in DOMAIN b.items |-> <<Numbers[n]>> \o b.items[n]]
    <3>1. lines \in Seq(Seq(W))
      BY <1>1, <2>1
    <3>2. BlockText(b) = FlattenSeq(lines)
      BY <2>2, Zenon DEF BlockText
    <3> HIDE DEF lines
    <3>3. QED BY <3>1, <3>2, FlattenIsSeq
  <2>3. CASE b.type # "numbered"
    <3>1. BlockText(b) = b.text \o FlattenSeq(b.items)
      BY <2>3, Zenon DEF BlockText
    <3>2. FlattenSeq(b.items) \in Seq(W)
      BY <2>1, FlattenIsSeq
    <3>3. QED BY <2>1, <3>1, <3>2, ConcatProperties
  <2>4. QED BY <2>2, <2>3
<1>3. ASSUME NEW t \in Seq(W), NEW b, b = Paragraph(t) \/ b = Heading(t)
      PROVE  b \in Block(W) /\ BlockText(b) = t
  <2>1. b \in Block(W) /\ b.text = t /\ b.items = <<>> /\ b.type # "numbered"
    <3>1. <<>> \in Seq(Seq(W))
      OBVIOUS
    <3>2. CASE b = Paragraph(t)
      BY <3>1, <3>2 DEF Paragraph, Block
    <3>3. CASE b = Heading(t)
      BY <3>1, <3>3 DEF Heading, Block
    <3>4. QED BY <1>3, <3>2, <3>3
  <2>2. BlockText(b) = t \o FlattenSeq(<<>>)
    BY <2>1, Zenon DEF BlockText
  <2>3. FlattenSeq(<<>>) = <<>>
    BY FlattenFew
  <2>4. t \o <<>> = t
    BY ConcatEmptySeq
  <2>5. QED BY <2>1, <2>2, <2>3, <2>4
<1>4. ASSUME NEW is \in Seq(Seq(W))
      PROVE  /\ Numbered(is) \in Block(W)
             /\ BlockText(Numbered(is))
                  = FlattenSeq([n \in DOMAIN is |-> <<Numbers[n]>> \o is[n]])
  <2>1. /\ Numbered(is) \in Block(W) /\ Numbered(is).type = "numbered"
        /\ Numbered(is).items = is
    BY DEF Numbered, Block
  <2>2. QED BY <2>1, Zenon DEF BlockText
<1>5. QED BY <1>1, <1>2, <1>3, <1>4

(* The text of a document is that of its blocks, one after the other. *)
LEMMA TextIs ==
  ASSUME NEW W, Digits \subseteq W
  PROVE  /\ \A d \in Seq(Block(W)) : Text(d) \in Seq(W)
         /\ \A d, e \in Seq(Block(W)) : Text(d \o e) = Text(d) \o Text(e)
         /\ \A b \in Block(W) : Text(<<b>>) = BlockText(b)
         /\ Text(<<>>) = <<>>
<1> DEFINE V == Seq(W)
           B == Block(W)
           texts(d) == [n \in DOMAIN d |-> BlockText(d[n])]
<1>1. \A b \in B : BlockText(b) \in V
  BY BlockTextIs
<1>2. \A d : Text(d) = FlattenSeq(texts(d))
  BY Zenon DEF Text
<1> HIDE DEF B, V
<1>3. ASSUME NEW d \in Seq(B)
      PROVE  /\ texts(d) \in Seq(V) /\ Len(texts(d)) = Len(d)
             /\ \A n \in 1..Len(d) : texts(d)[n] = BlockText(d[n])
  <2>1. DOMAIN d = 1..Len(d) /\ Len(d) \in Nat /\ \A n \in 1..Len(d) : d[n] \in B
    OBVIOUS
  <2>2. texts(d) \in [1..Len(d) -> V]
    BY <1>1, <2>1
  <2>3. texts(d) \in Seq(V)
    BY <2>1, <2>2, FunctionInSeq
  <2>4. Len(texts(d)) = Len(d)
    BY <2>1, <2>2, FunctionIs
  <2>5. QED BY <2>1, <2>3, <2>4
<1>4. \A d \in Seq(B) : Text(d) \in V
  BY <1>2, <1>3, FlattenIsSeq DEF V
<1>5. ASSUME NEW d \in Seq(B), NEW e \in Seq(B) PROVE Text(d \o e) = Text(d) \o Text(e)
  <2> DEFINE both == d \o e
  <2>1. /\ both \in Seq(B) /\ Len(both) = Len(d) + Len(e)
        /\ \A n \in 1..Len(d) + Len(e) :
             both[n] = IF n <= Len(d) THEN d[n] ELSE e[n - Len(d)]
    BY ConcatProperties
  <2> HIDE DEF both
  <2> DEFINE a == texts(d)
             c == texts(e)
             x == texts(both)
             y == a \o c
  <2>2. /\ a \in Seq(V) /\ Len(a) = Len(d)
        /\ \A n \in 1..Len(d) : a[n] = BlockText(d[n])
    BY <1>3
  <2>3. /\ c \in Seq(V) /\ Len(c) = Len(e)
        /\ \A n \in 1..Len(e) : c[n] = BlockText(e[n])
    BY <1>3
  <2>4. /\ x \in Seq(V) /\ Len(x) = Len(both)
        /\ \A n \in 1..Len(both) : x[n] = BlockText(both[n])
    BY <1>3, <2>1
  <2> HIDE DEF a, c, x, texts
  <2>5. /\ y \in Seq(V) /\ Len(y) = Len(a) + Len(c)
        /\ \A n \in 1..Len(a) + Len(c) : y[n] = IF n <= Len(a) THEN a[n] ELSE c[n - Len(a)]
    <3>1. a \in Seq(V) /\ c \in Seq(V)
      BY <2>2, <2>3
    <3>2. QED BY <3>1, ConcatProperties, Zenon
  <2> HIDE DEF y
  <2>6. Len(d) \in Nat /\ Len(e) \in Nat
    OBVIOUS
  <2>7. ASSUME NEW n \in 1..Len(x) PROVE x[n] = y[n]
    <3>1. CASE n <= Len(d)
      <4>1. n \in 1..Len(d) /\ n \in 1..Len(both) /\ n \in 1..Len(a) + Len(c)
        BY <2>1, <2>2, <2>3, <2>4, <2>6, <3>1
      <4>2. x[n] = BlockText(d[n])
        BY <2>1, <2>4, <3>1, <4>1
      <4>3. y[n] = BlockText(d[n])
        BY <2>2, <2>5, <3>1, <4>1
      <4>4. QED BY <4>2, <4>3
    <3>2. CASE ~(n <= Len(d))
      <4> DEFINE k == n - Len(d)
      <4>1. k \in 1..Len(e) /\ n \in 1..Len(both) /\ n \in 1..Len(a) + Len(c)
        BY <2>1, <2>2, <2>3, <2>4, <2>6, <3>2
      <4>2. both[n] = e[k]
        BY <2>1, <3>2, <4>1, <2>2, <2>3
      <4>3. x[n] = BlockText(e[k])
        BY <2>4, <4>1, <4>2
      <4>4. y[n] = c[k]
        BY <2>2, <2>5, <3>2, <4>1
      <4> HIDE DEF k
      <4>5. y[n] = BlockText(e[k])
        BY <2>3, <4>1, <4>4
      <4>6. QED BY <4>3, <4>5
    <3>3. QED BY <3>1, <3>2
  <2>8. Len(x) = Len(y)
    BY <2>1, <2>2, <2>3, <2>4, <2>5
  <2>9. x = y
    BY <2>4, <2>5, <2>7, <2>8, SeqEqual
  <2>10. FlattenSeq(y) = FlattenSeq(a) \o FlattenSeq(c)
    BY <2>2, <2>3, FlattenConcat DEF V, y
  <2>11. Text(both) = FlattenSeq(x) /\ Text(d) = FlattenSeq(a) /\ Text(e) = FlattenSeq(c)
    BY <1>2, Zenon DEF x, a, c, texts
  <2>12. QED BY <2>9, <2>10, <2>11 DEF both
<1>6. ASSUME NEW b \in B PROVE Text(<<b>>) = BlockText(b)
  <2>1. <<b>> \in Seq(B) /\ Len(<<b>>) = 1 /\ <<b>>[1] = b
    OBVIOUS
  <2> DEFINE one == <<b>>
  <2> HIDE DEF one
  <2> DEFINE x == texts(one)
  <2>2. /\ x \in Seq(V) /\ Len(x) = Len(one)
        /\ \A n \in 1..Len(one) : x[n] = BlockText(one[n])
    BY <1>3, <2>1 DEF one
  <2> HIDE DEF x
  <2>3. x = <<BlockText(b)>>
    <3>1. Len(x) = 1 /\ x[1] = BlockText(b)
      BY <2>1, <2>2 DEF one
    <3>2. QED BY <2>2, <3>1
  <2>4. FlattenSeq(x) = BlockText(b)
    BY <1>1, <2>3, FlattenFew DEF V
  <2>5. QED BY <1>2, <2>4, Zenon DEF one, x
<1>7. Text(<<>>) = <<>>
  <2>1. texts(<<>>) = <<>>
    OBVIOUS
  <2>2. FlattenSeq(<<>>) = <<>>
    BY DEF FlattenSeq
  <2>3. QED BY <1>2, <2>1, <2>2, Zenon
<1>8. QED BY <1>4, <1>5, <1>6, <1>7 DEF V, B

(* Numbered items say what the text from the first marker on says, when    *)
(* each says what stands between its marker and where it stops.            *)
LEMMA ItemsSay ==
  ASSUME NEW W, Digits \subseteq W, NEW t \in Seq(W), NEW rs, IsRun(rs, t), Len(rs) # 0,
         NEW stop, \A n \in 1..Len(rs) : stop[n] \in rs[n].end..Len(t)+1,
         \A n \in 1..Len(rs) : n < Len(rs) => stop[n] = rs[n+1].start,
         NEW is \in Seq(Seq(W)), Len(is) = Len(rs),
         \A n \in 1..Len(rs) : Spelled(is[n]) = Spelled(Part(t, rs[n].end, stop[n]))
  PROVE  Spelled(BlockText(Numbered(is)))
           = Spelled(Part(t, rs[1].start, stop[Len(rs)]))
<1>0. \A n \in 1..Len(rs) :
        /\ n \in {1, 2, 3}
        /\ rs[n].start \in 1..Len(t) /\ rs[n].end \in rs[n].start+1..Len(t)+1
        /\ Spelled(Part(t, rs[n].start, rs[n].end)) = <<Numbers[n]>>
  <2> TAKE n \in 1..Len(rs)
  <2>1. t \in Seq(W) /\ IsRun(rs, t) /\ n \in 1..Len(rs)
    OBVIOUS
  <2>2. QED BY ONLY <2>1, RunSays
<1> DEFINE len == Len(rs)
           first == rs[1].start
           line(n) == <<Numbers[n]>> \o is[n]
           lines == [n \in DOMAIN is |-> <<Numbers[n]>> \o is[n]]
<1>1. len \in Nat /\ len # 0 /\ 1 \in 1..len /\ Len(t) \in Nat
  BY DEF IsRun
<1>2. DOMAIN is = 1..len /\ \A n \in 1..len : is[n] \in Seq(W)
  OBVIOUS
<1>3. lines \in Seq(Seq(W)) /\ BlockText(Numbered(is)) = FlattenSeq(lines)
  BY BlockTextIs
<1>4. Len(lines) = len /\ \A n \in 1..len : lines[n] = line(n)
  <2>1. DOMAIN lines = 1..len
    BY <1>2
  <2>2. DOMAIN lines = 1..Len(lines) /\ Len(lines) \in Nat
    BY <1>3, LenProperties
  <2>3. QED BY <1>1, <1>2, <2>1, <2>2, SameUpto
<1> HIDE DEF lines
<1>5. PICK f : Strung(f, lines, W) /\ FlattenSeq(lines) = f[len]
  BY <1>3, <1>4, FlattenStrings
<1>6. /\ \A n \in 0..len : f[n] \in Seq(W)
      /\ f[0] = <<>>
      /\ \A n \in 1..len : f[n] = f[n-1] \o line(n)
  BY <1>4, <1>5 DEF Strung
<1>7. ASSUME NEW n \in 1..len
      PROVE  /\ first \in 1..Len(t) /\ rs[n].start \in first..Len(t)
             /\ rs[n].end \in rs[n].start..Len(t)+1
             /\ stop[n] \in rs[n].end..Len(t)+1
             /\ Spelled(Part(t, rs[n].start, rs[n].end)) = <<Numbers[n]>>
             /\ n # 1 => rs[n].start = stop[n-1]
             /\ Numbers[n] \in W /\ Value(Numbers[n]) = Numbers[n]
             /\ Numbers[n] \notin {Stop, Comma}
  <2>1. /\ first \in 1..Len(t)
        /\ n \in {1, 2, 3}
        /\ rs[n].start \in 1..Len(t) /\ rs[n].end \in rs[n].start+1..Len(t)+1
        /\ Spelled(Part(t, rs[n].start, rs[n].end)) = <<Numbers[n]>>
    <3>1. first \in 1..Len(t)
      BY <1>1 DEF IsRun, IsMarker
    <3>2. /\ n \in {1, 2, 3}
          /\ rs[n].start \in 1..Len(t) /\ rs[n].end \in rs[n].start+1..Len(t)+1
          /\ Spelled(Part(t, rs[n].start, rs[n].end)) = <<Numbers[n]>>
      BY <1>0
    <3>3. QED BY <3>1, <3>2
  <2>2. n # 1 => first < rs[n].start
    <3>1. n # 1 => 1 < n
      BY <2>1
    <3>2. QED BY <1>1, <3>1 DEF IsRun
  <2>3. stop[n] \in rs[n].end..Len(t)+1
    OBVIOUS
  <2>4. n # 1 => rs[n].start = stop[n-1]
    <3>1. n # 1 => n - 1 \in 1..len /\ n - 1 < len /\ (n - 1) + 1 = n
      BY <1>1
    <3>2. QED BY <3>1
  <2>5. Numbers[n] \in W
    <3>1. n \in Nat
      BY <2>1
    <3>2. QED BY <3>1 DEF Digits
  <2>6. Numbers[n] \in {"1.", "2.", "3."}
    BY <2>1 DEF Numbers
  <2>7. Value(Numbers[n]) = Numbers[n] /\ Numbers[n] \notin {Stop, Comma}
    <3>1. DOMAIN Spoken = {"one", "first", "One", "two", "second", "three"}
      BY DEF Spoken
    <3>2. Numbers[n] \notin DOMAIN Spoken /\ Numbers[n] \notin DOMAIN Lowered
      BY <2>6, <3>1 DEF Lowered
    <3>3. QED BY <2>6, <3>2 DEF Value, FoldToken, Stop, Comma
  <2>8. QED BY <1>1, <2>1, <2>2, <2>3, <2>4, <2>5, <2>7, SMTT(30)
<1> DEFINE upto(n) == IF n = 0 THEN first ELSE stop[n]
           r == [n \in 0..len |-> Spelled(f[n])]
           s == [n \in 0..len |-> Spelled(Part(t, first, upto(n)))]
<1>8. r[0] = s[0]
  <2>1. 0 \in 0..len /\ first \in 1..Len(t) + 1
    BY <1>1, <1>7
  <2>2. Part(t, first, first) = <<>>
    BY <2>1, PartsOfText
  <2>3. QED BY <1>6, <2>1, <2>2
<1>9. ASSUME NEW n \in 1..len, r[n-1] = s[n-1] PROVE r[n] = s[n]
  <2> DEFINE a == rs[n].start
             b == rs[n].end
             c == stop[n]
             before == Part(t, first, a)
             marker == Part(t, a, b)
             item == Part(t, b, c)
  <2>1. n \in 0..len /\ n - 1 \in 0..len /\ n # 0
    BY <1>1
  <2>2. upto(n - 1) = a
    <3>1. CASE n = 1
      BY <3>1
    <3>2. CASE n # 1
      <4>1. n - 1 # 0
        BY <1>1, <3>2
      <4>2. QED BY <1>7, <3>2, <4>1
    <3>3. QED BY <3>1, <3>2
  <2>3. Spelled(f[n-1]) = Spelled(before)
    BY <1>9, <2>1, <2>2
  <2>4. /\ first \in 1..Len(t)+1 /\ a \in first..Len(t)+1 /\ b \in a..Len(t)+1
        /\ c \in b..Len(t)+1 /\ c \in a..Len(t)+1
        /\ a \in 1..Len(t)+1 /\ b \in 1..Len(t)+1 /\ c \in c..Len(t)+1
    BY <1>1, <1>7
  <2> HIDE DEF a, b, c
  <2>5. /\ before \in Seq(W) /\ marker \in Seq(W) /\ item \in Seq(W)
        /\ before \o Part(t, a, c) = Part(t, first, c)
        /\ marker \o item = Part(t, a, c)
    BY <2>4, PartsJoin
  <2> HIDE DEF before, marker, item
  <2>6. marker \o item \in Seq(W)
    BY <2>5, ConcatProperties
  <2>7. Spelled(Part(t, first, c)) = Spelled(before) \o (Spelled(marker) \o Spelled(item))
    <3>1. Spelled(before \o (marker \o item)) = Spelled(before) \o Spelled(marker \o item)
      BY <2>5, <2>6, SpelledConcat
    <3>2. Spelled(marker \o item) = Spelled(marker) \o Spelled(item)
      BY <2>5, SpelledConcat
    <3>3. QED BY <2>5, <3>1, <3>2
  <2>8. Spelled(f[n]) = Spelled(f[n-1]) \o (<<Numbers[n]>> \o Spelled(is[n]))
    <3>1. <<Numbers[n]>> \in Seq(W) /\ is[n] \in Seq(W) /\ f[n-1] \in Seq(W)
      BY <1>2, <1>6, <1>7, <2>1
    <3>2. line(n) \in Seq(W)
      BY <3>1, ConcatProperties
    <3>3. Spelled(<<Numbers[n]>>) = <<Numbers[n]>>
      BY <1>7, SpelledFew
    <3>4. Spelled(line(n)) = <<Numbers[n]>> \o Spelled(is[n])
      BY <3>1, <3>3, SpelledConcat
    <3> HIDE DEF line
    <3>5. Spelled(f[n-1] \o line(n)) = Spelled(f[n-1]) \o Spelled(line(n))
      BY <3>1, <3>2, SpelledConcat
    <3>6. QED BY <1>6, <3>4, <3>5
  <2>9. Spelled(marker) = <<Numbers[n]>> /\ Spelled(item) = Spelled(is[n])
    BY <1>7 DEF marker, item, a, b, c
  <2>10. r[n] = Spelled(f[n]) /\ s[n] = Spelled(Part(t, first, c))
    BY <2>1 DEF c
  <2> HIDE DEF r, s
  <2>11. QED BY <2>3, <2>7, <2>8, <2>9, <2>10
<1> HIDE DEF r, s
<1>10. AgreeStepwise(r, s, len)
  BY <1>8, <1>9, Zenon DEF AgreeStepwise
<1>11. Agree(r, s, len)
  BY <1>1, <1>10, SameIteration, Zenon
<1>12. len \in 0..len
  BY <1>1
<1>13. Spelled(f[len]) = Spelled(Part(t, first, stop[len]))
  <2>1. r[len] = s[len]
    BY <1>11, <1>12 DEF Agree
  <2>2. QED BY <1>1, <1>12, <2>1 DEF r, s
<1>14. QED BY <1>3, <1>5, <1>13
-----------------------------------------------------------------------------
(* A part of what stands before a position is a part of the text. *)
LEMMA PartOfPart ==
  ASSUME NEW T, NEW t \in Seq(T), NEW k \in 1..Len(t)+1, NEW i \in 1..k, NEW j \in i..k
  PROVE  /\ Part(t, 1, k) \in Seq(T) /\ Len(Part(t, 1, k)) = k - 1
         /\ Part(Part(t, 1, k), i, j) = Part(t, i, j)
<1> DEFINE p == Part(t, 1, k)
<1>1. Len(t) \in Nat /\ k \in Nat /\ i \in Nat /\ j \in Nat
  OBVIOUS
<1>2. p \in Seq(T) /\ Len(p) = k - 1
  <2>1. /\ 1 \in Int /\ k - 1 \in Int
        /\ \A n \in 1..k-1 : t[n] \in T
    BY <1>1
  <2>2. /\ SubSeq(t, 1, k - 1) \in Seq(T)
        /\ Len(SubSeq(t, 1, k - 1)) = IF 1 <= k - 1 THEN (k - 1) - 1 + 1 ELSE 0
    BY <2>1, SubSeqProperties
  <2>3. QED BY <1>1, <2>2 DEF Part
<1>3. Part(p, i, j) = Part(t, i, j)
  <2>1. CASE i = j
    <3>1. i \in Int /\ i - 1 \in Int /\ i - 1 < i /\ j - 1 = i - 1
      BY <1>1, <2>1
    <3>2. SubSeq(p, i, i - 1) = <<>> /\ SubSeq(t, i, i - 1) = <<>>
      BY <3>1, SubSeqEmpty
    <3>3. QED BY <2>1, <3>2 DEF Part
  <2>2. CASE i # j
    <3> DEFINE l == k - 1
               n == j - 1
    <3>1. /\ 1 \in 1..Len(t) /\ l \in 1..Len(t)
          /\ i \in 1..l-1+1 /\ n \in 1..l-1+1
          /\ 1 + i - 1 = i /\ 1 + n - 1 = n
      BY <1>1, <2>2
    <3> HIDE DEF l, n
    <3>2. SubSeq(SubSeq(t, 1, l), i, n) = SubSeq(t, 1 + i - 1, 1 + n - 1)
      BY <3>1, SubSeqOfSubSeq
    <3>3. QED BY <3>1, <3>2 DEF Part, l, n
  <2>3. QED BY <2>1, <2>2
<1>4. QED BY <1>2, <1>3

(* The first token after a dot is one of those that follow, or the end.    *)
LEMMA AfterDotIs ==
  ASSUME NEW T, NEW t \in Seq(T), NEW from \in 1..Len(t)+1
  PROVE  AfterDot(t, from) \in from..Len(t)+1
<1> DEFINE dots == {i \in from..Len(t) : t[i] \in Dotted}
           first == CHOOSE i \in dots : \A k \in dots : i <= k
<1>1. AfterDot(t, from) = IF dots = {} THEN Len(t) + 1 ELSE 1 + first
  BY Zenon DEF AfterDot
<1>2. CASE dots = {}
  BY <1>1, <1>2
<1>3. CASE dots # {}
  <2>1. Len(t) \in Nat /\ dots \in SUBSET (1..Len(t))
    OBVIOUS
  <2>2. first \in dots
    BY <1>3, <2>1, FirstAndLast, Zenon
  <2> HIDE DEF first
  <2>3. first \in from..Len(t)
    BY <2>2
  <2>4. QED BY <1>1, <1>3, <2>3
<1>4. QED BY <1>2, <1>3

(* Blocks over the tokens W that can be rendered. *)
Sound(d, W) == /\ d \in Seq(Block(W))
               /\ \A n \in 1..Len(d) : AcceptsBlock(d[n])

(* What can be rendered can be rendered one after the other.               *)
LEMMA SoundConcat ==
  ASSUME NEW W, NEW d, NEW e, Sound(d, W), Sound(e, W)
  PROVE  Sound(d \o e, W)
<1> DEFINE B == Block(W)
           both == d \o e
<1>1. d \in Seq(B) /\ e \in Seq(B)
  BY DEF Sound
<1> HIDE DEF B
<1>2. /\ both \in Seq(B) /\ Len(both) = Len(d) + Len(e)
      /\ \A n \in 1..Len(d) + Len(e) :
           both[n] = IF n <= Len(d) THEN d[n] ELSE e[n - Len(d)]
  BY <1>1, ConcatProperties
<1>3. Len(d) \in Nat /\ Len(e) \in Nat
  BY <1>1
<1> HIDE DEF both
<1>4. ASSUME NEW n \in 1..Len(both) PROVE AcceptsBlock(both[n])
  <2>1. CASE n <= Len(d)
    <3>1. n \in 1..Len(d) /\ both[n] = d[n]
      BY <1>2, <1>3, <2>1
    <3>2. AcceptsBlock(d[n])
      BY <3>1 DEF Sound
    <3>3. QED BY <3>1, <3>2
  <2>2. CASE ~(n <= Len(d))
    <3>1. n - Len(d) \in 1..Len(e) /\ both[n] = e[n - Len(d)]
      BY <1>2, <1>3, <2>2
    <3>2. AcceptsBlock(e[n - Len(d)])
      BY <3>1 DEF Sound
    <3>3. QED BY <3>1, <3>2
  <2>3. QED BY <2>1, <2>2
<1>5. QED BY <1>2, <1>4 DEF Sound, B, both

(* One block that can be rendered, and no block at all. *)
LEMMA SoundFew ==
  ASSUME NEW W, NEW b \in Block(W), AcceptsBlock(b)
  PROVE  Sound(<<b>>, W) /\ Sound(<<>>, W)
<1> DEFINE B == Block(W)
<1>1. b \in B
  OBVIOUS
<1> HIDE DEF B
<1>2. <<b>> \in Seq(B) /\ Len(<<b>>) = 1 /\ <<b>>[1] = b
  BY <1>1
<1>3. <<>> \in Seq(B) /\ Len(<<>>) = 0
  OBVIOUS
<1>4. \A n \in 1..1 : n = 1
  OBVIOUS
<1>5. \A n \in 1..Len(<<b>>) : AcceptsBlock(<<b>>[n])
  BY <1>2, <1>4
<1>6. 1..0 = {}
  OBVIOUS
<1>7. QED BY <1>2, <1>3, <1>5, <1>6 DEF Sound, B

(* A block that is left out when it has no text. *)
LEMMA OneOrNone ==
  ASSUME NEW W, Digits \subseteq W, NEW b \in Block(W), NEW x,
         BlockText(b) = x, x # <<>> => AcceptsBlock(b)
  PROVE  LET d == IF x = <<>> THEN <<>> ELSE <<b>> IN Sound(d, W) /\ Text(d) = x
<1>1. Text(<<b>>) = x /\ Text(<<>>) = <<>>
  BY TextIs
<1>2. <<>> \in Seq(Block(W)) /\ Len(<<>>) = 0 /\ 1..0 = {}
  OBVIOUS
<1>3. Sound(<<>>, W)
  BY <1>2 DEF Sound
<1>4. CASE x = <<>>
  BY <1>1, <1>3, <1>4
<1>5. CASE x # <<>>
  BY <1>1, <1>5, SoundFew
<1>6. QED BY <1>4, <1>5
(* The items of an enumeration: what stands between its markers, trimmed.  *)
StandBetween(is, t, ms, stop) ==
  /\ \A n \in 1..Len(ms) : /\ ms[n].end \in 1..Len(t)+1
                           /\ stop[n] \in ms[n].end..Len(t)+1
                           /\ is[n] = TrimTokens(Part(t, ms[n].end, stop[n]), {Comma})
  /\ \E S : is \in [1..Len(ms) -> S]

(* The items of an enumeration are texts.                                  *)
LEMMA ItemsAre ==
  ASSUME NEW W, NEW t \in Seq(W), NEW ms, IsRun(ms, t), NEW stop, NEW is,
         StandBetween(is, t, ms, stop)
  PROVE  /\ is \in Seq(Seq(W)) /\ Len(is) = Len(ms) /\ DOMAIN is = 1..Len(ms)
         /\ \A n \in 1..Len(ms) :
              Spelled(is[n]) = Spelled(Part(t, ms[n].end, stop[n]))
<1> DEFINE V == Seq(W)
           item(n) == TrimTokens(Part(t, ms[n].end, stop[n]), {Comma})
<1>1. Len(ms) \in Nat /\ DOMAIN ms = 1..Len(ms)
  BY DEF IsRun
<1>2. ASSUME NEW n \in 1..Len(ms)
      PROVE  item(n) \in V /\ Spelled(item(n)) = Spelled(Part(t, ms[n].end, stop[n]))
  <2> DEFINE i == ms[n].end
             j == stop[n]
  <2>1. i \in 1..Len(t)+1 /\ j \in i..Len(t)+1 /\ j \in j..Len(t)+1
    BY DEF StandBetween
  <2> HIDE DEF i, j
  <2>2. Part(t, i, j) \in Seq(W)
    BY <2>1, PartsJoin
  <2>3. {Comma} \in SUBSET {Stop, Comma}
    OBVIOUS
  <2>4. /\ TrimTokens(Part(t, i, j), {Comma}) \in Seq(W)
        /\ Spelled(TrimTokens(Part(t, i, j), {Comma})) = Spelled(Part(t, i, j))
    BY <2>2, <2>3, TrimSpells
  <2>5. QED BY <2>4 DEF i, j
<1> HIDE DEF V, item
<1>3. is \in [1..Len(ms) -> V]
  <2>1. \A n \in 1..Len(ms) : is[n] \in V
    BY <1>2 DEF item, StandBetween
  <2>2. PICK S : is \in [1..Len(ms) -> S]
    BY DEF StandBetween
  <2>3. QED BY <2>1, <2>2
<1>4. is \in Seq(V)
  BY <1>1, <1>3, FunctionInSeq
<1>5. is = [n \in 1..Len(ms) |-> is[n]]
  BY <1>1, <1>3
<1>6. Len(is) = Len(ms) /\ DOMAIN is = 1..Len(ms)
  BY <1>1, <1>5, FunctionIs
<1>7. \A n \in 1..Len(ms) : is[n] = item(n)
  BY <1>1 DEF item, StandBetween
<1>8. QED BY <1>2, <1>4, <1>6, <1>7 DEF V, item

(* The sentence and the heading before an enumeration: the sentence ends   *)
(* with the last dot, and together they say what stands before the first   *)
(* marker.                                                                 *)
LEMMA PrefixSays ==
  ASSUME NEW W, NEW t \in Seq(W), NEW first \in 1..Len(t)+1
  PROVE  LET prefix == Part(t, 1, first)
             dots == {i \in DOMAIN prefix : prefix[i] \in Dotted}
             sentence == IF dots = {} THEN 0
                         ELSE CHOOSE i \in dots : \A k \in dots : k <= i
             before == Part(t, 1, sentence + 1)
             heading == TrimTokens(Part(prefix, sentence + 1, Len(prefix) + 1), {Comma})
         IN /\ before \in Seq(W) /\ heading \in Seq(W)
            /\ Spelled(before) \o Spelled(heading) = Spelled(prefix)
<1> DEFINE prefix == Part(t, 1, first)
           dots == {i \in DOMAIN prefix : prefix[i] \in Dotted}
           last == CHOOSE i \in dots : \A k \in dots : k <= i
           sentence == IF dots = {} THEN 0 ELSE last
           before == Part(t, 1, sentence + 1)
           rest == Part(prefix, sentence + 1, Len(prefix) + 1)
           heading == TrimTokens(rest, {Comma})
<1>1. Len(t) \in Nat /\ first \in Nat /\ 1 \in 1..first /\ first \in 1..first
  OBVIOUS
<1>2. prefix \in Seq(W) /\ Len(prefix) = first - 1
  BY <1>1, PartOfPart
<1>3. sentence \in 0..first-1
  <2>1. CASE dots = {}
    BY <1>1, <2>1
  <2>2. CASE dots # {}
    <3>1. DOMAIN prefix = 1..first-1 /\ first - 1 \in Nat
      BY <1>1, <1>2
    <3>2. dots \in SUBSET (1..first-1)
      BY <3>1
    <3>3. last \in dots
      BY <2>2, <3>1, <3>2, FirstAndLast, Zenon
    <3> HIDE DEF last
    <3>4. last \in 1..first-1
      BY <3>2, <3>3
    <3>5. QED BY <1>1, <2>2, <3>4
  <2>3. QED BY <2>1, <2>2
<1> HIDE DEF sentence
<1>4. /\ sentence + 1 \in 1..first /\ sentence + 1 \in 1..Len(t)+1
      /\ first \in sentence+1..first /\ first \in sentence+1..Len(t)+1
      /\ (first - 1) + 1 = first /\ 1 \in 1..Len(t)+1
  BY <1>1, <1>3
<1>5. rest = Part(t, sentence + 1, first)
  <2>1. rest = Part(prefix, sentence + 1, first)
    BY <1>2, <1>4
  <2>2. QED BY <1>4, <2>1, PartOfPart
<1>6. before \in Seq(W) /\ rest \in Seq(W) /\ before \o rest = prefix
  <2> DEFINE s == sentence + 1
  <2>1. s \in 1..Len(t)+1 /\ first \in s..Len(t)+1 /\ s \in 1..Len(t)+1
    BY <1>4
  <2>2. 1 \in 1..Len(t)+1 /\ first \in first..Len(t)+1
    BY <1>4
  <2>3. rest = Part(t, s, first) /\ before = Part(t, 1, s)
    BY <1>5
  <2> HIDE DEF s, before, rest
  <2>4. Part(t, 1, s) \in Seq(W) /\ Part(t, 1, s) \o Part(t, s, first) = Part(t, 1, first)
    BY <2>1, <2>2, PartsJoin
  <2>5. Part(t, s, first) \in Seq(W)
    BY <2>1, <2>2, PartsJoin
  <2>6. QED BY <2>3, <2>4, <2>5
<1> HIDE DEF before, rest, prefix
<1>7. {Comma} \in SUBSET {Stop, Comma}
  OBVIOUS
<1>8. heading \in Seq(W) /\ Spelled(heading) = Spelled(rest)
  BY <1>6, <1>7, TrimSpells
<1>9. Spelled(before) \o Spelled(rest) = Spelled(prefix)
  BY <1>6, SpelledConcat
<1>10. before \in Seq(W) /\ heading \in Seq(W)
       /\ Spelled(before) \o Spelled(heading) = Spelled(prefix)
  BY <1>6, <1>8, <1>9
<1>11. QED BY <1>10, Zenon DEF heading, before, rest, prefix, sentence
(* A paragraph with an enumeration becomes blocks that can be rendered and *)
(* that say what it said.                                                  *)
LEMMA EnumerationIs ==
  ASSUME NEW W, Digits \subseteq W, NEW t \in Seq(W), Enumeration(t) # <<>>
  PROVE  /\ Sound(Enumeration(t), W)
         /\ Spelled(Text(Enumeration(t))) = Spelled(t)
<1> DEFINE ms == Run(MarkersOf(t))
           len == Len(ms)
           last == AfterDot(t, ms[len].end)
           stop(n) == IF n < len THEN ms[n+1].start ELSE last
           items == [n \in DOMAIN ms |-> TrimTokens(Part(t, ms[n].end, stop(n)), {Comma})]
           first == ms[1].start
           prefix == Part(t, 1, first)
           dots == {i \in DOMAIN prefix : prefix[i] \in Dotted}
           sentence == IF dots = {} THEN 0
                       ELSE CHOOSE i \in dots : \A k \in dots : k <= i
           before == Part(t, 1, sentence + 1)
           heading == TrimTokens(Part(prefix, sentence + 1, Len(prefix) + 1), {Comma})
           after == Part(t, last, Len(t) + 1)
           block(b, nonempty) == IF nonempty = <<>> THEN <<>> ELSE <<b>>
           d1 == block(Paragraph(before), before)
           d2 == block(Heading(heading), heading)
           d3 == <<Numbered(items)>>
           d4 == block(Paragraph(after), after)
<1>1. Enumeration(t) = IF len < 2 \/ \E n \in DOMAIN items : items[n] = <<>> THEN <<>>
                       ELSE d1 \o d2 \o d3 \o d4
  BY Zenon DEF Enumeration, EnumerationBy
<1>2. /\ ~(len < 2) /\ \A n \in DOMAIN items : items[n] # <<>>
      /\ Enumeration(t) = d1 \o d2 \o d3 \o d4
  <2> HIDE DEF d1, d2, d3, d4, items, len
  <2>1. QED BY <1>1, Zenon
<1>3. IsRun(ms, t)
  BY RunIs
<1> HIDE DEF ms
<1>4. len \in Nat /\ len >= 2 /\ Len(t) \in Nat /\ DOMAIN ms = 1..len
  <2>1. len \in Nat /\ DOMAIN ms = 1..len
    BY <1>3 DEF IsRun
  <2>2. ~(len < 2)
    BY <1>2
  <2> HIDE DEF len
  <2>3. len >= 2
    BY <2>1, <2>2
  <2>4. QED BY <2>1, <2>3
<1>5. \A n \in 1..len : /\ ms[n].start \in 1..Len(t) /\ ms[n].end \in ms[n].start+1..Len(t)+1
                        /\ n < len => ms[n].end <= ms[n+1].start
  BY <1>3, RunSays
<1>6. ms[len].end \in 1..Len(t)+1 /\ last \in ms[len].end..Len(t)+1
  <2>1. ms[len].end \in 1..Len(t)+1
    BY <1>4, <1>5
  <2>2. QED BY <2>1, AfterDotIs
<1> DEFINE stops == [n \in 1..len |-> stop(n)]
<1> HIDE DEF last
<1>7. ASSUME NEW n \in 1..len
      PROVE  /\ stops[n] = stop(n)
             /\ ms[n].end \in 1..Len(t)+1 /\ stops[n] \in ms[n].end..Len(t)+1
             /\ n < len => stops[n] = ms[n+1].start
  <2>1. n < len => n + 1 \in 1..len
    BY <1>4
  <2>2. n < len => ms[n+1].start \in 1..Len(t) /\ ms[n].end <= ms[n+1].start
    BY <1>5, <2>1
  <2>3. ms[n].end \in 1..Len(t)+1 /\ ms[n].end \in Nat
    BY <1>4, <1>5, SMTT(30)
  <2>4. CASE n < len
    BY <1>4, <2>2, <2>3, <2>4
  <2>5. CASE ~(n < len)
    <3>1. n = len
      <4> HIDE DEF len
      <4>1. n \in 1..len
        OBVIOUS
      <4>2. QED BY <1>4, <2>5, <4>1
    <3>2. QED BY <1>6, <2>3, <2>5, <3>1
  <2>6. QED BY <2>4, <2>5
<1>8. items = [n \in DOMAIN ms |-> TrimTokens(Part(t, ms[n].end, stops[n]), {Comma})]
  <2>1. \A n \in DOMAIN ms : stop(n) = stops[n]
    BY <1>4, <1>7
  <2> HIDE DEF stop, stops
  <2>2. QED BY <2>1, Zenon
<1> HIDE DEF stops, stop
<1>9. /\ items \in Seq(Seq(W)) /\ Len(items) = len /\ DOMAIN items = 1..len
      /\ \A n \in 1..len : Spelled(items[n]) = Spelled(Part(t, ms[n].end, stops[n]))
  <2>1. \A n \in 1..Len(ms) : ms[n].end \in 1..Len(t)+1 /\ stops[n] \in ms[n].end..Len(t)+1
    BY <1>7
  <2>2. \A n \in 1..Len(ms) : items[n] = TrimTokens(Part(t, ms[n].end, stops[n]), {Comma})
    BY <1>4, <1>8
  <2>3. items \in [1..Len(ms) -> {items[n] : n \in 1..Len(ms)}]
    BY <1>4, <1>8
  <2>4. \E S : items \in [1..Len(ms) -> S]
    BY <2>3
  <2> HIDE DEF items
  <2>5. StandBetween(items, t, ms, stops)
    BY <2>1, <2>2, <2>4 DEF StandBetween
  <2>6. QED BY <1>3, <2>5, ItemsAre
<1> HIDE DEF items
<1>10. Spelled(BlockText(Numbered(items))) = Spelled(Part(t, first, stops[len]))
  <2>1. \A n \in 1..Len(ms) : stops[n] \in ms[n].end..Len(t)+1
    BY <1>7
  <2>2. \A n \in 1..Len(ms) : n < Len(ms) => stops[n] = ms[n+1].start
    BY <1>7
  <2>3. Len(ms) # 0
    BY <1>4
  <2> HIDE DEF first
  <2>4. QED BY <1>3, <1>9, <2>1, <2>2, <2>3, ItemsSay, ZenonT(40) DEF first
<1>11. stops[len] = last /\ first \in 1..Len(t) /\ last \in first..Len(t)+1
  <2>1. len \in 1..len /\ ~(len < len) /\ 1 \in 1..len
    BY <1>4
  <2>2. stops[len] = last
    BY <1>7, <2>1 DEF stop
  <2>3. first \in 1..Len(t)
    BY <1>5, <2>1
  <2>4. ms[len].start >= first
    <3>1. len # 1 /\ 1 < len
      BY <1>4
    <3>2. ms[1].start < ms[len].start
      BY <1>3, <2>1, <3>1 DEF IsRun
    <3>3. QED BY <1>5, <2>1, <3>2
  <2>5. last >= first
    BY <1>4, <1>5, <1>6, <2>1, <2>3, <2>4
  <2>6. QED BY <1>4, <1>5, <1>6, <2>1, <2>2, <2>3, <2>5
<1>12. /\ before \in Seq(W) /\ heading \in Seq(W)
       /\ Spelled(before) \o Spelled(heading) = Spelled(prefix)
  <2>1. first \in 1..Len(t)+1
    BY <1>4, <1>11
  <2> HIDE DEF first
  <2>2. QED BY <2>1, PrefixSays, Zenon
<1> HIDE DEF before, heading, prefix
<1> DEFINE middle == Part(t, first, last)
<1>13. /\ after \in Seq(W) /\ middle \in Seq(W) /\ prefix \in Seq(W)
       /\ prefix \o (middle \o after) = t
  <2>1. /\ first \in 1..Len(t)+1 /\ last \in first..Len(t)+1 /\ last \in 1..Len(t)+1
        /\ Len(t)+1 \in last..Len(t)+1 /\ Len(t)+1 \in first..Len(t)+1
        /\ 1 \in 1..Len(t)+1
    BY <1>4, <1>11
  <2> HIDE DEF first
  <2>2. middle \in Seq(W) /\ middle \o after = Part(t, first, Len(t) + 1)
    BY <2>1, PartsJoin
  <2>3. prefix \in Seq(W) /\ prefix \o Part(t, first, Len(t) + 1) = Part(t, 1, Len(t) + 1)
    BY <2>1, PartsJoin DEF prefix
  <2>4. Part(t, last, Len(t)+1) \o Part(t, Len(t)+1, Len(t)+1) = Part(t, last, Len(t)+1)
        /\ Part(t, last, Len(t)+1) \in Seq(W)
    <3>1. Len(t)+1 \in Len(t)+1..Len(t)+1
      BY <1>4
    <3>2. QED BY <2>1, <3>1, PartsJoin
  <2>5. QED BY <2>2, <2>3, <2>4, PartsOfText
<1> HIDE DEF after, middle
<1>14. Sound(d1, W) /\ Text(d1) = before
  <2>1. Paragraph(before) \in Block(W) /\ BlockText(Paragraph(before)) = before
    BY <1>12, BlockTextIs
  <2>2. before # <<>> => AcceptsBlock(Paragraph(before))
    BY DEF AcceptsBlock, Paragraph
  <2>3. QED BY <2>1, <2>2, OneOrNone
<1>15. Sound(d2, W) /\ Text(d2) = heading
  <2>1. Heading(heading) \in Block(W) /\ BlockText(Heading(heading)) = heading
    BY <1>12, BlockTextIs
  <2>2. heading # <<>> => AcceptsBlock(Heading(heading))
    BY DEF AcceptsBlock, Heading
  <2>3. QED BY <2>1, <2>2, OneOrNone
<1>16. Sound(d4, W) /\ Text(d4) = after
  <2>1. Paragraph(after) \in Block(W) /\ BlockText(Paragraph(after)) = after
    BY <1>13, BlockTextIs
  <2>2. after # <<>> => AcceptsBlock(Paragraph(after))
    BY DEF AcceptsBlock, Paragraph
  <2>3. QED BY <2>1, <2>2, OneOrNone
<1>17. Sound(d3, W) /\ Text(d3) = BlockText(Numbered(items)) /\ Text(d3) \in Seq(W)
  <2>1. Numbered(items) \in Block(W)
    BY <1>9, BlockTextIs
  <2>2. Len(items) >= 2 /\ \A n \in DOMAIN items : items[n] # <<>>
    BY <1>2, <1>4, <1>9
  <2>3. AcceptsBlock(Numbered(items))
    BY <2>2 DEF AcceptsBlock, Numbered
  <2>4. BlockText(Numbered(items)) \in Seq(W)
    BY <2>1, BlockTextIs
  <2>5. QED BY <2>1, <2>3, <2>4, SoundFew, TextIs
<1> HIDE DEF d1, d2, d3, d4
<1>18. Sound(d1 \o d2 \o d3 \o d4, W)
  <2>1. Sound(d1 \o d2, W)
    BY <1>14, <1>15, SoundConcat
  <2>2. Sound(d1 \o d2 \o d3, W)
    BY <2>1, <1>17, SoundConcat
  <2>3. QED BY <2>2, <1>16, SoundConcat
<1>19. Text(d1 \o d2 \o d3 \o d4) = ((before \o heading) \o Text(d3)) \o after
  <2> DEFINE B == Block(W)
  <2>1. d1 \in Seq(B) /\ d2 \in Seq(B) /\ d3 \in Seq(B) /\ d4 \in Seq(B)
    BY <1>14, <1>15, <1>16, <1>17 DEF Sound
  <2>2. \A d, e \in Seq(B) : Text(d \o e) = Text(d) \o Text(e)
    BY TextIs
  <2>3. \A d, e \in Seq(B) : d \o e \in Seq(B)
    BY ConcatProperties
  <2> HIDE DEF B
  <2>4. d1 \o d2 \in Seq(B) /\ Text(d1 \o d2) = before \o heading
    BY <1>14, <1>15, <2>1, <2>2, <2>3
  <2>5. d1 \o d2 \o d3 \in Seq(B) /\ Text(d1 \o d2 \o d3) = (before \o heading) \o Text(d3)
    BY <2>1, <2>2, <2>3, <2>4
  <2>6. QED BY <1>16, <2>1, <2>2, <2>5
<1> DEFINE u == Text(d3)
<1>20. u \in Seq(W) /\ Spelled(u) = Spelled(middle)
  BY <1>10, <1>11, <1>17 DEF middle
<1> HIDE DEF u
<1>21. Spelled(((before \o heading) \o u) \o after)
         = ((Spelled(before) \o Spelled(heading)) \o Spelled(u)) \o Spelled(after)
  <2>1. before \o heading \in Seq(W) /\ (before \o heading) \o u \in Seq(W)
    BY <1>12, <1>20, ConcatProperties
  <2>2. \A x, y \in Seq(W) : Spelled(x \o y) = Spelled(x) \o Spelled(y)
    BY SpelledConcat
  <2>3. Spelled(((before \o heading) \o u) \o after)
          = Spelled((before \o heading) \o u) \o Spelled(after)
    BY <1>13, <2>1, <2>2
  <2>4. Spelled((before \o heading) \o u) = Spelled(before \o heading) \o Spelled(u)
    BY <1>20, <2>1, <2>2
  <2>5. Spelled(before \o heading) = Spelled(before) \o Spelled(heading)
    BY <1>12, <2>2
  <2>6. QED BY <2>3, <2>4, <2>5
<1>22. Spelled(t) = Spelled(prefix) \o (Spelled(middle) \o Spelled(after))
  <2>1. middle \o after \in Seq(W)
    BY <1>13, ConcatProperties
  <2>2. \A x, y \in Seq(W) : Spelled(x \o y) = Spelled(x) \o Spelled(y)
    BY SpelledConcat
  <2>3. QED BY <1>13, <2>1, <2>2, ZenonT(40)
<1>23. (Spelled(prefix) \o Spelled(middle)) \o Spelled(after)
         = Spelled(prefix) \o (Spelled(middle) \o Spelled(after))
  <2> DEFINE V == Values(W)
  <2>1. Spelled(prefix) \in Seq(V) /\ Spelled(middle) \in Seq(V) /\ Spelled(after) \in Seq(V)
    BY <1>13, PiecesAre
  <2>2. \A x, y, z \in Seq(V) : (x \o y) \o z = x \o (y \o z)
    BY ConcatAssociative
  <2>3. QED BY <2>1, <2>2
<1>24. Spelled(Text(Enumeration(t))) = Spelled(t)
  BY <1>2, <1>12, <1>19, <1>20, <1>21, <1>22, <1>23 DEF u
<1>25. QED BY <1>2, <1>18, <1>24
-----------------------------------------------------------------------------
(* The positions of a set, from left to right: they ascend, and the last   *)
(* one is the largest.                                                     *)
LEMMA NthInOrder ==
  ASSUME NEW S \in SUBSET Nat, IsFiniteSet(S)
  PROVE  /\ \A n \in 1..Cardinality(S) : Nth(S, n) \in S
         /\ \A m, n \in 1..Cardinality(S) : m < n => Nth(S, m) < Nth(S, n)
         /\ \A x \in S : (\A y \in S : y <= x) =>
              Cardinality(S) \in Nat \ {0} /\ Nth(S, Cardinality(S)) = x
<1> DEFINE N == Cardinality(S)
           below(x) == {w \in S : w < x}
<1>1. N \in Nat
  BY FS_CardinalityType
<1>2. \A n \in 1..N : Nth(S, n) \in S /\ Cardinality(below(Nth(S, n))) = n - 1
  BY NthIsThere
<1>3. \A x : below(x) \in SUBSET S /\ IsFiniteSet(below(x)) /\ Cardinality(below(x)) \in Nat
  <2>1. \A x : below(x) \in SUBSET S
    OBVIOUS
  <2>2. \A x : IsFiniteSet(below(x))
    BY <2>1, FS_Subset, Zenon
  <2>3. QED BY <2>1, <2>2, FS_CardinalityType, Zenon
<1>4. ASSUME NEW m \in 1..N, NEW n \in 1..N, m < n PROVE Nth(S, m) < Nth(S, n)
  <2> DEFINE x == Nth(S, m)
             y == Nth(S, n)
  <2>1. /\ x \in S /\ y \in S /\ x \in Nat /\ y \in Nat
        /\ Cardinality(below(x)) = m - 1 /\ Cardinality(below(y)) = n - 1
    BY <1>2
  <2> HIDE DEF x, y
  <2>2. SUFFICES ASSUME ~(x < y) PROVE FALSE
    BY DEF x, y
  <2>3. below(y) \in SUBSET below(x)
    <3>1. \A w \in S : w < y => w < x
      <4>1. \A w \in S : w \in Nat
        OBVIOUS
      <4>2. QED BY <2>1, <2>2, <4>1
    <3>2. QED BY <3>1
  <2> HIDE DEF below
  <2>4. Cardinality(below(y)) <= Cardinality(below(x))
    BY <1>3, <2>3, FS_Subset
  <2>5. QED BY <1>1, <1>4, <2>1, <2>4
<1>5. ASSUME NEW x \in S, \A y \in S : y <= x
      PROVE  N \in Nat \ {0} /\ Nth(S, N) = x
  <2>1. N # 0
    BY FS_EmptySet
  <2> DEFINE z == Nth(S, N)
  <2>2. N \in 1..N /\ z \in S /\ Cardinality(below(z)) = N - 1
    BY <1>1, <1>2, <2>1
  <2> HIDE DEF z
  <2>3. CASE z = x
    BY <1>1, <2>1, <2>3 DEF z
  <2>4. CASE z # x
    <3> DEFINE R == S \ {x}
    <3>1. IsFiniteSet(R) /\ Cardinality(R) = N - 1
      BY FS_RemoveElement
    <3>2. below(z) \in SUBSET R /\ z \in R /\ z \notin below(z)
      BY <1>5, <2>2, <2>4
    <3> HIDE DEF R, below
    <3>3. below(z) = R
      BY <2>2, <3>1, <3>2, FS_Subset
    <3>4. QED BY <3>2, <3>3
  <2>5. QED BY <2>3, <2>4
<1>6. QED BY <1>2, <1>4, <1>5

(* The parts of a text between ascending cuts, put together again. *)
Cuts(cut, m, t) == /\ cut[0] = 1
                   /\ \A n \in 0..m : cut[n] \in 1..Len(t)+1
                   /\ \A n \in 1..m : cut[n-1] <= cut[n]

(* Parts between the cuts of a text, put together, are the text again.     *)
LEMMA PartsFlatten ==
  ASSUME NEW T, NEW t \in Seq(T), NEW m \in Nat, NEW cut, Cuts(cut, m, t),
         NEW parts \in Seq(Seq(T)), Len(parts) = m,
         \A n \in 1..m : parts[n] = Part(t, cut[n-1], cut[n])
  PROVE  FlattenSeq(parts) = Part(t, 1, cut[m])
<1> DEFINE g == [n \in 0..m |-> Part(t, 1, cut[n])]
<1>1. g[0] = <<>>
  <2>1. 0 \in 0..m /\ cut[0] = 1 /\ 1 \in 1..Len(t)+1
    BY DEF Cuts
  <2>2. Part(t, 1, 1) = <<>>
    BY <2>1, PartsOfText
  <2>3. QED BY <2>1, <2>2
<1>2. ASSUME NEW n \in 1..m PROVE g[n] = g[n-1] \o parts[n]
  <2>1. n \in 0..m /\ n - 1 \in 0..m
    OBVIOUS
  <2> DEFINE i == cut[n-1]
             j == cut[n]
  <2>2. i \in 1..Len(t)+1 /\ j \in 1..Len(t)+1 /\ i <= j
    BY <2>1 DEF Cuts
  <2> HIDE DEF i, j
  <2>3. 1 \in 1..Len(t)+1 /\ j \in i..Len(t)+1
    BY <2>2
  <2>4. Part(t, 1, i) \o Part(t, i, j) = Part(t, 1, j)
    BY <2>2, <2>3, PartsJoin
  <2>5. g[n] = Part(t, 1, j) /\ g[n-1] = Part(t, 1, i) /\ parts[n] = Part(t, i, j)
    BY <2>1 DEF i, j
  <2>6. QED BY <2>4, <2>5
<1> HIDE DEF g
<1>3. FlattenSeq(parts) = g[m]
  BY <1>1, <1>2, FlattenIs
<1>4. m \in 0..m
  OBVIOUS
<1>5. QED BY <1>3, <1>4 DEF g

(* The sentences of a text lie next to each other and are all of it; none  *)
(* is empty, and none but the first begins with what belongs to the token  *)
(* before it.                                                              *)
LEMMA SentencesAre ==
  ASSUME NEW T, NEW t \in Seq(T), t # <<>>
  PROVE  \E cut : LET ss == Sentences(t)
                      m == Len(ss)
                  IN /\ m \in Nat \ {0} /\ DOMAIN ss = 1..m
                     /\ Cuts(cut, m, t) /\ cut[m] = Len(t) + 1
                     /\ \A n \in 1..m : cut[n-1] < cut[n]
                     /\ \A n \in 1..m : ss[n] = Part(t, cut[n-1], cut[n])
                     /\ \A n \in 1..m-1 : t[cut[n]] \notin Attached
<1> DEFINE len == Len(t)
           ends == {i \in DOMAIN t : /\ t[i] \in Dotted
                                     /\ i = Len(t) \/ t[i+1] \notin Attached}
           cuts == ends \cup {Len(t)}
           N == Cardinality(cuts)
           ss == [n \in 1..N |->
                    Part(t, IF n = 1 THEN 1 ELSE Nth(cuts, n - 1) + 1, Nth(cuts, n) + 1)]
           cut == [n \in 0..N |-> IF n = 0 THEN 1 ELSE Nth(cuts, n) + 1]
<1>1. Sentences(t) = ss
  BY Zenon DEF Sentences, Nth
<1>2. len \in Nat \ {0} /\ DOMAIN t = 1..len
  OBVIOUS
<1>3. cuts \in SUBSET (1..len) /\ len \in cuts
  BY <1>2
<1>a. \A i \in cuts : i # len => t[i+1] \notin Attached
  OBVIOUS
<1> HIDE DEF cuts
<1>4. cuts \in SUBSET Nat /\ IsFiniteSet(cuts)
  <2>1. IsFiniteSet(1..len)
    BY <1>2, FS_Interval
  <2>2. 1..len \subseteq Nat
    BY <1>2
  <2> HIDE DEF len
  <2>3. IsFiniteSet(cuts)
    BY <1>3, <2>1, FS_Subset
  <2>4. QED BY <1>3, <2>2, <2>3
<1>5. \A y \in cuts : y <= len
  BY <1>3
<1>6. /\ N \in Nat \ {0} /\ Nth(cuts, N) = len
      /\ \A n \in 1..N : Nth(cuts, n) \in 1..len
      /\ \A m, n \in 1..N : m < n => Nth(cuts, m) < Nth(cuts, n)
  BY <1>3, <1>4, <1>5, NthInOrder
<1> HIDE DEF N, len
<1>7. Len(ss) = N /\ DOMAIN ss = 1..N
  BY <1>6, FunctionIs
<1>8. cut[0] = 1 /\ cut[N] = len + 1
  BY <1>6
<1>9. ASSUME NEW n \in 1..N
      PROVE  /\ cut[n] \in 1..len+1 /\ cut[n-1] < cut[n]
             /\ ss[n] = Part(t, cut[n-1], cut[n])
  <2>1. /\ n \in 0..N /\ n # 0 /\ n - 1 \in 0..N /\ (n # 1 => n - 1 \in 1..N /\ n - 1 < n)
        /\ (n = 1 <=> n - 1 = 0)
    BY <1>6
  <2>2. cut[n] = Nth(cuts, n) + 1 /\ Nth(cuts, n) \in 1..len
    BY <1>6, <2>1
  <2>3. cut[n-1] = IF n = 1 THEN 1 ELSE Nth(cuts, n - 1) + 1
    BY <2>1
  <2>4. n # 1 => Nth(cuts, n - 1) < Nth(cuts, n) /\ Nth(cuts, n - 1) \in 1..len
    BY <1>6, <2>1
  <2>5. ss[n] = Part(t, IF n = 1 THEN 1 ELSE Nth(cuts, n - 1) + 1, Nth(cuts, n) + 1)
    OBVIOUS
  <2> HIDE DEF cut, ss
  <2>6. cut[n] \in 1..len+1 /\ cut[n-1] < cut[n]
    BY <1>2, <2>2, <2>3, <2>4 DEF len
  <2>7. QED BY <2>2, <2>3, <2>5, <2>6
<1> HIDE DEF cut, ss
<1>10. Cuts(cut, N, t)
  <2>1. \A n \in 0..N : n = 0 \/ n \in 1..N
    BY <1>6
  <2>2. 1 \in 1..len+1
    BY <1>2 DEF len
  <2>3. \A n \in 0..N : cut[n] \in 1..len+1
    BY <1>8, <1>9, <2>1, <2>2
  <2>4. \A n \in 1..N : n - 1 \in 0..N
    BY <1>6
  <2>5. \A n \in 1..N : cut[n-1] <= cut[n]
    BY <1>9, <2>3, <2>4
  <2>6. QED BY <1>8, <2>3, <2>5 DEF Cuts, len
<1>11. ASSUME NEW n \in 1..N-1
       PROVE  t[cut[n]] \notin Attached
  <2>1. n \in 1..N /\ N \in 1..N /\ n < N /\ n \in 0..N /\ n # 0
    BY <1>6
  <2>2. Nth(cuts, n) \in cuts /\ Nth(cuts, n) < len
    BY <1>4, <1>6, <2>1, NthInOrder DEF N
  <2>3. len \in Nat /\ Nth(cuts, n) \in Nat
    BY <1>2, <1>4, <2>2 DEF len
  <2>4. Nth(cuts, n) # len
    BY <2>2, <2>3
  <2>5. cut[n] = Nth(cuts, n) + 1
    BY <2>1 DEF cut
  <2>6. QED BY <1>a, <2>2, <2>4, <2>5
<1>12. QED BY <1>1, <1>6, <1>7, <1>8, <1>9, <1>10, <1>11 DEF len
(* A part of a text that ends after it begins is not empty. *)
LEMMA PartNotEmpty ==
  ASSUME NEW T, NEW t \in Seq(T), NEW i \in 1..Len(t)+1, NEW j \in 1..Len(t)+1, i < j
  PROVE  Part(t, i, j) \in Seq(T) /\ Part(t, i, j) # <<>>
<1>1. /\ i \in Int /\ j - 1 \in Int /\ i <= j - 1 /\ j - 1 - i + 1 # 0
      /\ \A k \in i..j-1 : t[k] \in T
  OBVIOUS
<1> DEFINE l == j - 1
<1>2. /\ i \in Int /\ l \in Int /\ i <= l /\ l - i + 1 # 0
      /\ \A k \in i..l : t[k] \in T
  BY <1>1
<1> HIDE DEF l
<1>3. SubSeq(t, i, l) \in Seq(T) /\ Len(SubSeq(t, i, l)) = IF i <= l THEN l - i + 1 ELSE 0
  BY <1>2, SubSeqProperties
<1>4. Len(SubSeq(t, i, l)) # 0
  BY <1>2, <1>3
<1>5. Len(<<>>) = 0
  OBVIOUS
<1>6. QED BY <1>3, <1>4, <1>5 DEF Part, l

(* It begins with the token at its first position.                         *)
LEMMA PartBegins ==
  ASSUME NEW T, NEW t \in Seq(T), NEW i \in 1..Len(t)+1, NEW j \in 1..Len(t)+1, i < j
  PROVE  Part(t, i, j)[1] = t[i]
<1>1. /\ i \in Int /\ j - 1 \in Int /\ i <= j - 1 /\ j - 1 \in 1..Len(t) /\ i \in 1..Len(t)
      /\ 1 \in 1..(j - 1 - i + 1) /\ i + 1 - 1 = i
      /\ \A k \in i..j-1 : t[k] \in T
  OBVIOUS
<1> DEFINE l == j - 1
<1>2. /\ i \in Int /\ l \in Int /\ i <= l /\ 1 \in 1..(l - i + 1) /\ i + 1 - 1 = i
      /\ \A k \in i..l : t[k] \in T
  BY <1>1
<1> HIDE DEF l
<1>3. \A k \in 1..(l - i + 1) : SubSeq(t, i, l)[k] = t[i + k - 1]
  BY <1>2, SubSeqProperties
<1>4. QED BY <1>2, <1>3 DEF Part, l

(* Adjacent parts of a text, each a paragraph: a document that can be      *)
(* rendered and whose text is the text.                                    *)
InParagraphs(d, cut, m, t) ==
  /\ Cuts(cut, m, t) /\ cut[m] = Len(t) + 1
  /\ \E B : d \in [1..m -> B]
  /\ \A n \in 1..m : /\ cut[n-1] < cut[n]
                     /\ d[n] = Paragraph(Part(t, cut[n-1], cut[n]))

(* Such paragraphs say the text and can be rendered.                       *)
LEMMA ParagraphsOfParts ==
  ASSUME NEW W, Digits \subseteq W, NEW t \in Seq(W), NEW m \in Nat, NEW cut,
         NEW d, InParagraphs(d, cut, m, t)
  PROVE  Sound(d, W) /\ Text(d) = t
<1>0. /\ Cuts(cut, m, t) /\ cut[m] = Len(t) + 1
      /\ \E B : d \in [1..m -> B]
      /\ \A n \in 1..m : /\ cut[n-1] < cut[n]
                         /\ d[n] = Paragraph(Part(t, cut[n-1], cut[n]))
  BY DEF InParagraphs
<1> DEFINE part(n) == Part(t, cut[n-1], cut[n])
           parts == [n \in DOMAIN d |-> BlockText(d[n])]
           V == Seq(W)
<1>1. ASSUME NEW n \in 1..m
      PROVE  part(n) \in V /\ part(n) # <<>>
  <2> DEFINE i == cut[n-1]
             j == cut[n]
  <2>1. n - 1 \in 0..m /\ n \in 0..m
    OBVIOUS
  <2>2. i \in 1..Len(t)+1 /\ j \in 1..Len(t)+1 /\ i < j
    BY <1>0, <2>1 DEF Cuts
  <2> HIDE DEF i, j
  <2>3. QED BY <2>2, PartNotEmpty DEF i, j
<1> HIDE DEF part, V
<1>2. ASSUME NEW n \in 1..m
      PROVE  d[n] \in Block(W) /\ AcceptsBlock(d[n]) /\ BlockText(d[n]) = part(n)
  <2>1. d[n] = Paragraph(part(n))
    BY <1>0 DEF part
  <2>2. \A x \in V : Paragraph(x) \in Block(W) /\ BlockText(Paragraph(x)) = x
    BY BlockTextIs DEF V
  <2>3. \A x : x # <<>> => AcceptsBlock(Paragraph(x))
    BY DEF AcceptsBlock, Paragraph
  <2>4. QED BY <1>1, <2>1, <2>2, <2>3
<1>3. d \in [1..m -> Block(W)]
  <2>1. PICK B : d \in [1..m -> B]
    BY <1>0
  <2>2. QED BY <1>2, <2>1
<1>4. d \in Seq(Block(W)) /\ Len(d) = m
  <2>1. d \in Seq(Block(W))
    BY <1>3, FunctionInSeq
  <2>2. DOMAIN d = 1..Len(d) /\ Len(d) \in Nat
    BY <2>1
  <2>3. DOMAIN d = 1..m
    BY <1>3
  <2>4. QED BY <2>1, <2>2, <2>3, SameUpto
<1>5. Sound(d, W)
  BY <1>2, <1>4 DEF Sound
<1>6. parts \in [1..m -> V]
  BY <1>1, <1>2, <1>3
<1>7. parts \in Seq(V)
  BY <1>6, FunctionInSeq
<1>8. Len(parts) = m
  <2>1. DOMAIN parts = 1..Len(parts) /\ Len(parts) \in Nat
    BY <1>7
  <2>2. DOMAIN parts = 1..m
    BY <1>3
  <2>3. QED BY <2>1, <2>2, SameUpto
<1>9. \A n \in 1..m : parts[n] = Part(t, cut[n-1], cut[n])
  BY <1>2, <1>3 DEF part
<1>10. Text(d) = FlattenSeq(parts)
  BY Zenon DEF Text
<1> HIDE DEF parts
<1>11. FlattenSeq(parts) = Part(t, 1, cut[m])
  BY <1>0, <1>7, <1>8, <1>9, PartsFlatten DEF V
<1>12. QED BY <1>0, <1>5, <1>10, <1>11, PartsOfText

(* splitLongParagraph: paragraphs that together are the text, with every   *)
(* decimal whole.                                                          *)
LEMMA LongParagraphIs ==
  ASSUME NEW W, Digits \subseteq W, NEW t \in Seq(W)
  PROVE  /\ LongParagraph(t) \in Seq(Block(W)) /\ Text(LongParagraph(t)) = t
         /\ t # <<>> => Sound(LongParagraph(t), W) /\ LongParagraph(t) # <<>>
         /\ BeginsWhole(t) => WholeDecimals(LongParagraph(t))
<1> DEFINE ss == Sentences(t)
           complete == Cardinality({n \in DOMAIN ss : Last(ss[n]) \in Dotted})
           len == Len(ss)
           m == (len + 1) \div 2
           pair(n) == IF 2*n <= len THEN ss[2*n - 1] \o ss[2*n] ELSE ss[2*n - 1]
           d == [n \in 1..m |-> Paragraph(pair(n))]
<1>1. LongParagraph(t) = IF complete < 4 THEN <<Paragraph(t)>> ELSE d
  BY Zenon DEF LongParagraph
<1>2. CASE complete < 4
  <2>1. /\ Paragraph(t) \in Block(W) /\ BlockText(Paragraph(t)) = t
        /\ t # <<>> => AcceptsBlock(Paragraph(t))
    <3>1. t # <<>> => AcceptsBlock(Paragraph(t))
      BY DEF AcceptsBlock, Paragraph
    <3>2. QED BY <3>1, BlockTextIs
  <2>2. LongParagraph(t) = <<Paragraph(t)>>
    BY <1>1, <1>2
  <2>3. Text(<<Paragraph(t)>>) = t
    BY <2>1, TextIs
  <2>4. <<Paragraph(t)>> \in Seq(Block(W)) /\ <<Paragraph(t)>> # <<>>
    BY <2>1
  <2>5. t # <<>> => Sound(<<Paragraph(t)>>, W)
    BY <2>1, SoundFew
  <2>6. BeginsWhole(t) => WholeDecimals(<<Paragraph(t)>>)
    BY DEF WholeDecimals, Paragraph
  <2>7. QED BY <2>2, <2>3, <2>4, <2>5, <2>6
<1>3. CASE ~(complete < 4)
  <2>1. t # <<>>
    <3>1. SUFFICES ASSUME t = <<>> PROVE FALSE
      OBVIOUS
    <3>2. ss = <<>>
      BY <3>1 DEF Sentences
    <3>3. {n \in DOMAIN ss : Last(ss[n]) \in Dotted} = {}
      BY <3>2
    <3>4. complete = 0
      BY <3>3, FS_EmptySet
    <3>5. QED BY <1>3, <3>4
  <2>2. PICK cut : /\ len \in Nat \ {0} /\ DOMAIN ss = 1..len
                   /\ Cuts(cut, len, t) /\ cut[len] = Len(t) + 1
                   /\ \A n \in 1..len : cut[n-1] < cut[n]
                   /\ \A n \in 1..len : ss[n] = Part(t, cut[n-1], cut[n])
                   /\ \A n \in 1..len-1 : t[cut[n]] \notin Attached
    BY <2>1, SentencesAre
  <2> HIDE DEF ss
  <2> DEFINE at(n) == IF 2*n <= len THEN 2*n ELSE len
             half == [n \in 0..m |-> cut[at(n)]]
  <2>3. m \in Nat \ {0} /\ 2*m \in {len, len + 1}
    <3> HIDE DEF len
    <3>1. QED BY <2>2
  <2> HIDE DEF m, len
  <2>4. \A n \in 0..len : cut[n] \in 1..Len(t)+1
    BY <2>2 DEF Cuts
  <2>5. ASSUME NEW n \in 1..m
        PROVE  /\ half[n-1] < half[n] /\ pair(n) = Part(t, half[n-1], half[n])
               /\ half[n] \in 1..Len(t)+1 /\ half[n-1] \in 1..Len(t)+1
               /\ half[n-1] = 1 \/ t[half[n-1]] \notin Attached
    <3> DEFINE k == 2*n - 1
    <3>1. /\ k \in 1..len /\ k - 1 \in 0..len /\ k \in 0..len
          /\ n \in 0..m /\ n - 1 \in 0..m
          /\ at(n - 1) = k - 1 /\ 2*n = k + 1
      BY <2>2, <2>3
    <3>2. cut[k-1] \in 1..Len(t)+1 /\ cut[k] \in 1..Len(t)+1 /\ cut[k-1] < cut[k]
          /\ ss[k] = Part(t, cut[k-1], cut[k])
      BY <2>2, <2>4, <3>1
    <3>3. half[n-1] = cut[k-1] /\ half[n] = cut[at(n)]
      BY <3>1
    <3>a. half[n-1] = 1 \/ t[half[n-1]] \notin Attached
      <4>1. k - 1 = 0 \/ k - 1 \in 1..len-1
        BY <2>2, <3>1
      <4>2. cut[0] = 1
        BY <2>2 DEF Cuts
      <4> HIDE DEF k, half, at
      <4>3. QED BY <2>2, <3>3, <4>1, <4>2
    <3>4. CASE k + 1 <= len
      <4>1. /\ k + 1 \in 1..len /\ k + 1 \in 0..len /\ (k + 1) - 1 = k /\ at(n) = k + 1
        BY <2>2, <3>1, <3>4
      <4>2. cut[k+1] \in 1..Len(t)+1 /\ cut[k] < cut[k+1] /\ ss[k+1] = Part(t, cut[k], cut[k+1])
        BY <2>2, <2>4, <4>1
      <4>3. pair(n) = ss[k] \o ss[k+1]
        BY <3>1, <3>4
      <4> DEFINE a == cut[k-1]
                 b == cut[k]
                 c == cut[k+1]
      <4> HIDE DEF a, b, c, k, half, at, pair
      <4>4. a \in 1..Len(t)+1 /\ b \in a..Len(t)+1 /\ c \in b..Len(t)+1 /\ a < c
            /\ c \in 1..Len(t)+1
        BY <3>2, <4>2 DEF a, b, c
      <4>5. Part(t, a, b) \o Part(t, b, c) = Part(t, a, c)
        BY <4>4, PartsJoin
      <4>6. half[n-1] = a /\ half[n] = c /\ pair(n) = Part(t, a, b) \o Part(t, b, c)
        BY <3>2, <3>3, <4>1, <4>2, <4>3 DEF a, b, c
      <4>7. QED BY <3>a, <4>4, <4>5, <4>6
    <3>5. CASE ~(k + 1 <= len)
      <4>1. at(n) = k /\ pair(n) = ss[k]
        BY <2>2, <3>1, <3>5
      <4> HIDE DEF half, at, pair, k
      <4>2. QED BY <3>2, <3>3, <3>a, <4>1
    <3>6. QED BY <3>4, <3>5
  <2>6. half[0] = 1 /\ half[m] = Len(t) + 1
    <3>1. at(0) = 0 /\ at(m) = len /\ 0 \in 0..m /\ m \in 0..m
      BY <2>2, <2>3
    <3> HIDE DEF at
    <3>2. QED BY <2>2, <3>1 DEF Cuts
  <2> HIDE DEF half
  <2>7. Cuts(half, m, t)
    <3>1. \A n \in 0..m : n = 0 \/ n \in 1..m
      BY <2>3
    <3>2. 1 \in 1..Len(t)+1
      OBVIOUS
    <3>3. \A n \in 0..m : half[n] \in 1..Len(t)+1
      BY <2>5, <2>6, <3>1, <3>2
    <3>4. \A n \in 1..m : n - 1 \in 0..m
      BY <2>3
    <3>5. \A n \in 1..m : half[n-1] <= half[n]
      BY <2>5, <3>3, <3>4
    <3>6. QED BY <2>6, <3>3, <3>5 DEF Cuts
  <2>8. DOMAIN d = 1..m /\ \A n \in 1..m : d[n] = Paragraph(Part(t, half[n-1], half[n]))
    <3>1. \A n \in 1..m : d[n] = Paragraph(pair(n))
      OBVIOUS
    <3> HIDE DEF pair
    <3>2. QED BY <2>5, <3>1
  <2>9. \E B : d \in [1..m -> B]
    <3> HIDE DEF pair
    <3>1. d \in [1..m -> {Paragraph(pair(n)) : n \in 1..m}]
      OBVIOUS
    <3>2. QED BY <3>1
  <2>10. Sound(d, W) /\ Text(d) = t
    <3> HIDE DEF d
    <3>1. InParagraphs(d, half, m, t)
      BY <2>5, <2>6, <2>7, <2>8, <2>9 DEF InParagraphs
    <3>2. QED BY <2>3, <3>1, ParagraphsOfParts
  <2>11. d # <<>>
    <3>1. 1 \in DOMAIN d
      BY <2>3, <2>8
    <3> HIDE DEF d
    <3>2. QED BY <3>1
  <2>12. d \in Seq(Block(W))
    BY <2>10 DEF Sound
  <2>13. LongParagraph(t) = d
    BY <1>1, <1>3
  <2>14. ASSUME BeginsWhole(t) PROVE WholeDecimals(d)
    <3>1. ASSUME NEW n \in 1..m
          PROVE  d[n].text # <<>> /\ d[n].text[1] # Tenths /\ d[n].items = <<>>
      <4> DEFINE part == Part(t, half[n-1], half[n])
      <4> HIDE DEF d, part
      <4>1. d[n] = Paragraph(part)
        BY <2>8 DEF part
      <4>2. part # <<>> /\ part[1] = t[half[n-1]]
        BY <2>5, PartNotEmpty, PartBegins DEF part
      <4>3. t[1] # Tenths
        BY <2>1, <2>14 DEF BeginsWhole
      <4>4. part[1] # Tenths
        BY <2>5, <4>2, <4>3 DEF Attached
      <4>5. d[n].text = part /\ d[n].items = <<>>
        BY <4>1 DEF Paragraph
      <4>6. QED BY <4>2, <4>4, <4>5
    <3> HIDE DEF d
    <3>2. QED BY <2>8, <3>1 DEF WholeDecimals, BeginsWhole
  <2> HIDE DEF d
  <2>15. QED BY <2>10, <2>11, <2>12, <2>13, <2>14
<1>4. QED BY <1>2, <1>3
(* What a paragraph is split into says what it said; and when it has a     *)
(* text, all that it is split into can be rendered.                        *)
LEMMA SplitParagraphIs ==
  ASSUME NEW W, Digits \subseteq W, NEW t \in Seq(W)
  PROVE  /\ SplitParagraph(t) \in Seq(Block(W))
         /\ Spelled(Text(SplitParagraph(t))) = Spelled(t)
         /\ t # <<>> => Sound(SplitParagraph(t), W) /\ SplitParagraph(t) # <<>>
<1>1. CASE Enumeration(t) = <<>>
  <2>1. SplitParagraph(t) = LongParagraph(t)
    BY <1>1 DEF SplitParagraph
  <2>2. QED BY <2>1, LongParagraphIs
<1>2. CASE Enumeration(t) # <<>>
  <2>1. SplitParagraph(t) = Enumeration(t)
    BY <1>2 DEF SplitParagraph
  <2>2. Sound(Enumeration(t), W) /\ Spelled(Text(Enumeration(t))) = Spelled(t)
    BY <1>2, EnumerationIs
  <2>3. Enumeration(t) \in Seq(Block(W))
    BY <2>2 DEF Sound
  <2>4. QED BY <1>2, <2>1, <2>2, <2>3
<1>3. QED BY <1>1, <1>2

(* "Makes only mechanical layout repairs ... Wording stays owned by the    *)
(* model" (formatter.go:168), for every paragraph, of any tokens: split    *)
(* into an enumeration, into pairs of sentences or not at all, it keeps    *)
(* all its words and numbers in order (splitOrderedParagraph,              *)
(* splitLongParagraph); and unless it is taken for an enumeration, all its *)
(* decimals stay whole.                                                    *)
THEOREM SplitKeepsWording ==
  ASSUME NEW T, NEW t \in Seq(T)
  PROVE  /\ Spelled(Text(SplitParagraph(t))) = Spelled(t)
         /\ BeginsWhole(t) /\ Enumeration(t) = <<>> => WholeDecimals(SplitParagraph(t))
<1> DEFINE W == T \cup Digits
<1>1. Digits \subseteq W /\ t \in Seq(W)
  OBVIOUS
<1> HIDE DEF W
<1>2. Enumeration(t) = <<>> => SplitParagraph(t) = LongParagraph(t)
  BY DEF SplitParagraph
<1>3. QED BY <1>1, <1>2, LongParagraphIs, SplitParagraphIs

(* The same for a paragraph that is probed: it does not begin with the     *)
(* digits after a dot.                                                     *)
THEOREM WordingKeptForAll ==
  ASSUME probe.of = "paragraph" => BeginsWhole(probe.text) /\ \E T : probe.text \in Seq(T)
  PROVE  WordingKept
BY SplitKeepsWording DEF WordingKept
-----------------------------------------------------------------------------
(* Case folding: what it makes of a token, and what that is compared as.   *)
LEMMA FoldTokenIs ==
  /\ \A w : FoldToken(w) \in {Stop, Comma} <=> w \in {Stop, Comma}
  /\ \A w : Value(FoldToken(w)) = Value(w)
  /\ \A w : w \notin {Stop, Comma} =>
       Value(w) \notin {Stop, Comma} /\ FoldToken(Value(w)) = Value(w)
<1> DEFINE capital == {"A", "B", "One"}
           spoken == {"one", "first", "One", "two", "second", "three"}
<1>1. DOMAIN Lowered = capital /\ DOMAIN Spoken = spoken
  BY DEF Lowered, Spoken
<1>2. /\ FoldToken("A") = "a" /\ FoldToken("B") = "b" /\ FoldToken("One") = "one"
      /\ \A w : w \notin capital => FoldToken(w) = w
  <2>1. Lowered["A"] = "a" /\ Lowered["B"] = "b" /\ Lowered["One"] = "one"
    BY DEF Lowered
  <2>2. \A w : FoldToken(w) = IF w \in capital THEN Lowered[w] ELSE w
    BY <1>1 DEF FoldToken
  <2>3. QED BY <2>1, <2>2
<1>3. /\ \A w : w \notin spoken => Value(w) = FoldToken(w)
      /\ \A w \in spoken : Value(w) \in {"1.", "2.", "3."}
      /\ Value("One") = "1." /\ Value("one") = "1."
  <2>1. Spoken["One"] = 1 /\ Spoken["one"] = 1
    BY DEF Spoken
  <2>2. \A w : Value(w) = IF w \in spoken
                            THEN CASE Spoken[w] = 1 -> "1." [] Spoken[w] = 2 -> "2." [] OTHER -> "3."
                            ELSE FoldToken(w)
    BY <1>1 DEF Value
  <2>3. QED BY <2>1, <2>2
<1>4. \A w : FoldToken(w) \in {Stop, Comma} <=> w \in {Stop, Comma}
  BY <1>2 DEF Stop, Comma
<1>5. \A w : Value(FoldToken(w)) = Value(w)
  <2>1. "A" \notin spoken /\ "B" \notin spoken /\ "a" \notin spoken /\ "b" \notin spoken
        /\ "a" \notin capital /\ "b" \notin capital
    OBVIOUS
  <2> TAKE w
  <2>2. CASE w \notin capital
    BY <1>2, <2>2
  <2>3. CASE w = "A"
    BY <1>2, <1>3, <2>1, <2>3
  <2>4. CASE w = "B"
    BY <1>2, <1>3, <2>1, <2>4
  <2>5. CASE w = "One"
    BY <1>2, <1>3, <2>5
  <2>6. QED BY <2>2, <2>3, <2>4, <2>5
<1>6. ASSUME NEW w, w \notin {Stop, Comma}
      PROVE  Value(w) \notin {Stop, Comma} /\ FoldToken(Value(w)) = Value(w)
  <2>1. CASE w \in spoken
    <3>1. Value(w) \in {"1.", "2.", "3."}
      BY <1>3, <2>1
    <3>2. QED BY <1>2, <3>1 DEF Stop, Comma
  <2>2. CASE w \notin spoken
    <3>1. Value(w) = FoldToken(w)
      BY <1>3, <2>2
    <3>2. FoldToken(FoldToken(w)) = FoldToken(w)
      <4>1. CASE w \in capital
        <5>1. FoldToken(w) \in {"a", "b", "one"}
          BY <1>2, <4>1
        <5>2. FoldToken(w) \notin capital
          BY <5>1
        <5>3. QED BY <1>2, <5>2
      <4>2. CASE w \notin capital
        BY <1>2, <4>2
      <4>3. QED BY <4>1, <4>2
    <3>3. QED BY <1>4, <1>6, <3>1, <3>2
  <2>3. QED BY <2>1, <2>2
<1>7. QED BY <1>4, <1>5, <1>6

(* A text and the text in lower case say the same. *)
Folded(T) == {FoldToken(w) : w \in T}

(* Case folding changes nothing that a text says.                          *)
LEMMA FoldSpells ==
  ASSUME NEW T, NEW t \in Seq(T)
  PROVE  /\ FoldTokens(t) \in Seq(Folded(T))
         /\ Len(FoldTokens(t)) = Len(t)
         /\ Spelled(FoldTokens(t)) = Spelled(t)
         /\ Values(Folded(T)) = Values(T)
<1> DEFINE U == Folded(T)
           f == FoldTokens(t)
<1>1. DOMAIN t = 1..Len(t) /\ Len(t) \in Nat /\ \A i \in 1..Len(t) : t[i] \in T
  OBVIOUS
<1>2. f = [i \in 1..Len(t) |-> FoldToken(t[i])]
  BY <1>1 DEF FoldTokens
<1>3. f \in [1..Len(t) -> U]
  <2>1. \A w \in T : FoldToken(w) \in U
    BY Zenon DEF Folded
  <2> HIDE DEF U
  <2>2. QED BY <1>1, <1>2, <2>1
<1>9. Values(U) = Values(T)
  <2>1. \A w : Value(FoldToken(w)) = Value(w)
    BY FoldTokenIs
  <2>2. QED BY <2>1, Zenon DEF Values, Folded
<1>4. f \in Seq(U)
  BY <1>1, <1>3, FunctionInSeq
<1>5. Len(f) = Len(t) /\ DOMAIN f = 1..Len(t)
  <2>1. DOMAIN f = 1..Len(f) /\ Len(f) \in Nat
    BY <1>4
  <2>2. DOMAIN f = 1..Len(t)
    BY <1>2
  <2>3. QED BY <1>1, <2>1, <2>2, SameUpto
<1>6. Pieces(f) = Pieces(t)
  <2> DEFINE piece(w) == IF w \in {Stop, Comma} THEN <<>> ELSE <<Value(w)>>
  <2>1. \A w : piece(FoldToken(w)) = piece(w)
    BY FoldTokenIs
  <2>2. \A i \in 1..Len(t) : piece(f[i]) = piece(t[i])
    <3> HIDE DEF piece
    <3>1. QED BY <1>2, <2>1
  <2>3. Pieces(f) = [i \in 1..Len(t) |-> piece(f[i])]
    BY <1>5 DEF Pieces
  <2>4. Pieces(t) = [i \in 1..Len(t) |-> piece(t[i])]
    BY <1>1 DEF Pieces
  <2> HIDE DEF piece, f
  <2>5. QED BY <2>2, <2>3, <2>4
<1>7. Spelled(f) = FlattenSeq(Pieces(f)) /\ Spelled(t) = FlattenSeq(Pieces(t))
  BY Zenon DEF Spelled, Pieces
<1>8. QED BY <1>4, <1>5, <1>6, <1>7, <1>9

(* What a text says has neither capitals nor punctuation, and says itself. *)
LEMMA SpelledIsPlain ==
  ASSUME NEW T, NEW t \in Seq(T)
  PROVE  /\ FoldTokens(Spelled(t)) = Spelled(t)
         /\ TrimTokens(Spelled(t), {Stop, Comma}) = Spelled(t)
<1> DEFINE X == {Value(w) : w \in T \ {Stop, Comma}}
           piece(w) == IF w \in {Stop, Comma} THEN <<>> ELSE <<Value(w)>>
           s == Spelled(t)
<1>1. \A v \in X : v \notin {Stop, Comma} /\ FoldToken(v) = v
  BY FoldTokenIs
<1>2. \A w \in T : piece(w) \in Seq(X)
  <2>1. \A w \in T : w \notin {Stop, Comma} => Value(w) \in X
    OBVIOUS
  <2> HIDE DEF X
  <2>2. QED BY <2>1
<1>3. DOMAIN t = 1..Len(t) /\ Len(t) \in Nat /\ \A i \in 1..Len(t) : t[i] \in T
  OBVIOUS
<1>4. Pieces(t) = [i \in 1..Len(t) |-> piece(t[i])]
  BY <1>3 DEF Pieces
<1> HIDE DEF piece, X
<1>5. Pieces(t) \in [1..Len(t) -> Seq(X)]
  BY <1>2, <1>3, <1>4
<1>6. Pieces(t) \in Seq(Seq(X))
  BY <1>3, <1>5, FunctionInSeq
<1>7. s = FlattenSeq(Pieces(t))
  BY Zenon DEF Spelled, Pieces
<1> HIDE DEF s
<1>8. s \in Seq(X)
  BY <1>6, <1>7, FlattenIsSeq
<1>9. DOMAIN s = 1..Len(s) /\ Len(s) \in Nat /\ \A i \in 1..Len(s) : s[i] \in X
  BY <1>8
<1>10. FoldTokens(s) = s
  <2>1. FoldTokens(s) = [i \in 1..Len(s) |-> FoldToken(s[i])]
    BY <1>9 DEF FoldTokens
  <2>2. \A i \in 1..Len(s) : FoldToken(s[i]) = s[i]
    BY <1>1, <1>9
  <2>3. s = [i \in 1..Len(s) |-> s[i]]
    BY <1>8, <1>9
  <2>4. QED BY <2>1, <2>2, <2>3
<1>11. TrimTokens(s, {Stop, Comma}) = s
  <2> DEFINE kept == {i \in DOMAIN s : s[i] \notin {Stop, Comma}}
             from == CHOOSE i \in kept : \A k \in kept : i <= k
             to   == CHOOSE i \in kept : \A k \in kept : k <= i
  <2>1. TrimTokens(s, {Stop, Comma}) = IF kept = {} THEN <<>> ELSE SubSeq(s, from, to)
    BY Zenon DEF TrimTokens
  <2>2. kept = 1..Len(s)
    BY <1>1, <1>9
  <2>3. CASE Len(s) = 0
    <3>1. s = <<>> /\ kept = {}
      BY <1>8, <1>9, <2>2, <2>3
    <3>2. QED BY <2>1, <3>1
  <2>4. CASE Len(s) # 0
    <3>1. kept # {} /\ kept \in SUBSET (1..Len(s)) /\ 1 \in kept /\ Len(s) \in kept
      BY <1>9, <2>2, <2>4
    <3>2. /\ from \in kept /\ \A k \in kept : from <= k
          /\ to \in kept /\ \A k \in kept : k <= to
      BY <1>9, <3>1, FirstAndLast, Zenon
    <3> HIDE DEF from, to
    <3>3. from = 1 /\ to = Len(s)
      <4>1. from \in 1..Len(s) /\ to \in 1..Len(s) /\ from <= 1 /\ Len(s) <= to
        BY <2>2, <3>1, <3>2
      <4>2. \A n \in Nat : \A a, b \in 1..n : a <= 1 /\ n <= b => a = 1 /\ b = n
        OBVIOUS
      <4> HIDE DEF kept
      <4>3. QED BY <1>9, <4>1, <4>2, Zenon
    <3>4. SubSeq(s, 1, Len(s)) = s
      BY <1>8, SubSeqFull
    <3>5. QED BY <2>1, <3>1, <3>3, <3>4
  <2>5. QED BY <2>3, <2>4
<1>12. QED BY <1>10, <1>11 DEF s

(* A text stands within another. *)
Within(u, v, S) == \E x, y \in Seq(S) : v = x \o (u \o y)

(* A text stands within itself, and within what is written around it.      *)
LEMMA WithinMore ==
  ASSUME NEW S, NEW u \in Seq(S)
  PROVE  /\ Within(u, u, S)
         /\ \A v, z \in Seq(S) : Within(u, v, S) => Within(u, v \o z, S) /\ Within(u, z \o v, S)
<1> DEFINE V == Seq(S)
<1>1. /\ \A a, b \in V : a \o b \in V
      /\ \A a, b, c \in V : (a \o b) \o c = a \o (b \o c)
      /\ \A a \in V : <<>> \o a = a /\ a \o <<>> = a
      /\ <<>> \in V
  <2>1. \A a, b \in V : a \o b \in V
    BY ConcatProperties
  <2>2. \A a, b, c \in V : (a \o b) \o c = a \o (b \o c)
    BY ConcatAssociative
  <2>3. \A a \in V : <<>> \o a = a /\ a \o <<>> = a
    BY ConcatEmptySeq
  <2>4. QED BY <2>1, <2>2, <2>3, SMTT(30)
<1>2. \A v : Within(u, v, S) <=> \E x, y \in V : v = x \o (u \o y)
  BY DEF Within
<1>3. u \in V
  OBVIOUS
<1> HIDE DEF V
<1>4. Within(u, u, S)
  <2>1. u = <<>> \o (u \o <<>>)
    BY <1>1, <1>3
  <2>2. QED BY <1>1, <1>2, <2>1
<1>5. ASSUME NEW v \in V, NEW z \in V, Within(u, v, S)
      PROVE  Within(u, v \o z, S) /\ Within(u, z \o v, S)
  <2>1. PICK x \in V, y \in V : v = x \o (u \o y)
    BY <1>2, <1>5
  <2>2. u \o y \in V /\ y \o z \in V /\ z \o x \in V
    BY <1>1, <1>3
  <2>3. v \o z = x \o (u \o (y \o z))
    <3>1. (x \o (u \o y)) \o z = x \o ((u \o y) \o z)
      BY <1>1, <2>2, SMTT(30)
    <3>2. (u \o y) \o z = u \o (y \o z)
      BY <1>1, <1>3
    <3>3. QED BY <2>1, <3>1, <3>2
  <2>4. z \o v = (z \o x) \o (u \o y)
    <3>1. (z \o x) \o (u \o y) = z \o (x \o (u \o y))
      BY <1>1, <2>2, SMTT(30)
    <3>2. QED BY <2>1, <3>1
  <2>5. QED BY <1>2, <2>2, <2>3, <2>4
<1>6. QED BY <1>4, <1>5 DEF V

(* What occurs in a text says something: it is not all punctuation.        *)
LEMMA OccursSays ==
  ASSUME NEW T, NEW h \in Seq(T), NEW p, OccursIn(h, p)
  PROVE  Spelled(h) # <<>>
<1> DEFINE trim == TrimTokens(h, {Stop, Comma})
<1>0. FoldTokens(trim) # <<>>
  BY Zenon DEF OccursIn
<1> DEFINE kept == {i \in DOMAIN h : h[i] \notin {Stop, Comma}}
           from == CHOOSE i \in kept : \A k \in kept : i <= k
           to   == CHOOSE i \in kept : \A k \in kept : k <= i
<1>1. trim = IF kept = {} THEN <<>> ELSE SubSeq(h, from, to)
  BY Zenon DEF TrimTokens
<1>2. kept # {}
  <2>1. SUFFICES ASSUME kept = {} PROVE FALSE
    OBVIOUS
  <2>2. trim = <<>>
    BY <1>1, <2>1
  <2>3. FoldTokens(<<>>) = <<>>
    BY DEF FoldTokens
  <2> HIDE DEF trim
  <2>4. QED BY <1>0, <2>2, <2>3
<1>3. PICK i \in kept : TRUE
  BY <1>2
<1>4. /\ i \in 1..Len(h) /\ Len(h) \in Nat /\ h[i] \notin {Stop, Comma} /\ h[i] \in T
  OBVIOUS
<1>5. /\ 1 \in 1..Len(h)+1 /\ i \in 1..Len(h)+1 /\ i + 1 \in i..Len(h)+1
      /\ i + 1 \in 1..Len(h)+1 /\ Len(h)+1 \in i+1..Len(h)+1 /\ Len(h)+1 \in i..Len(h)+1
      /\ Len(h)+1 \in Len(h)+1..Len(h)+1 /\ Len(h)+1 \in 1..Len(h)+1
  BY <1>4
<1> DEFINE a == Part(h, 1, i)
           b == Part(h, i, i + 1)
           c == Part(h, i + 1, Len(h) + 1)
<1>6. a \in Seq(T) /\ b \in Seq(T) /\ c \in Seq(T)
  BY <1>5, PartsJoin
<1>7. b \o c = Part(h, i, Len(h) + 1) /\ b \o c \in Seq(T)
  <2>1. b \o c = Part(h, i, Len(h) + 1)
    BY <1>5, PartsJoin
  <2>2. Part(h, i, Len(h) + 1) \in Seq(T)
    BY <1>5, PartsJoin
  <2> HIDE DEF b, c
  <2>3. QED BY <2>1, <2>2
<1>8. a \o Part(h, i, Len(h) + 1) = Part(h, 1, Len(h) + 1)
  BY <1>5, PartsJoin
<1>9. Part(h, 1, Len(h) + 1) = h /\ b = <<h[i]>>
  BY <1>4, PartsOfText
<1> HIDE DEF a, b, c
<1>10. Spelled(h) = Spelled(a) \o (Spelled(b) \o Spelled(c))
  <2>1. \A x, y \in Seq(T) : Spelled(x \o y) = Spelled(x) \o Spelled(y)
    BY SpelledConcat
  <2>2. a \o (b \o c) = h
    BY <1>7, <1>8, <1>9
  <2>3. Spelled(a \o (b \o c)) = Spelled(a) \o Spelled(b \o c)
    BY <1>6, <1>7, <2>1
  <2>4. Spelled(b \o c) = Spelled(b) \o Spelled(c)
    BY <1>6, <2>1
  <2>5. QED BY <2>2, <2>3, <2>4
<1>11. Spelled(b) = <<Value(h[i])>>
  BY <1>4, <1>9, SpelledFew
<1> DEFINE V == Values(T)
           x == Spelled(a)
           y == Spelled(b)
           z == Spelled(c)
<1>12. x \in Seq(V) /\ y \in Seq(V) /\ z \in Seq(V) /\ y # <<>>
  <2>1. Spelled(a) \in Seq(V) /\ Spelled(b) \in Seq(V) /\ Spelled(c) \in Seq(V)
    BY <1>6, PiecesAre
  <2>2. Spelled(b) # <<>>
    BY <1>11
  <2>3. QED BY <2>1, <2>2
<1> HIDE DEF x, y, z, V
<1>13. y \o z \in Seq(V) /\ y \o z # <<>>
  BY <1>12, ConcatProperties, ConcatEqualIffEmpty
<1>14. x \o (y \o z) # <<>>
  BY <1>12, <1>13, ConcatEqualIffEmpty
<1>15. QED BY <1>10, <1>14 DEF x, y, z

(* What occurs in a text, case and punctuation aside, is said within what  *)
(* the text says, and says something (textOccursInSource).                 *)
LEMMA OccursWithin ==
  ASSUME NEW T, NEW h \in Seq(T), NEW p \in Seq(T), OccursIn(h, p)
  PROVE  Spelled(h) # <<>> /\ Within(Spelled(h), Spelled(p), Values(T))
<1> DEFINE trim == TrimTokens(h, {Stop, Comma})
           needle == FoldTokens(trim)
           hay == FoldTokens(p)
           U == Folded(T)
           n == Len(needle)
<1>1. /\ needle # <<>>
      /\ \E i \in DOMAIN hay : i + n - 1 <= Len(hay) /\ SubSeq(hay, i, i + n - 1) = needle
  BY Zenon DEF OccursIn
<1>2. trim \in Seq(T) /\ Spelled(trim) = Spelled(h)
  <2>1. {Stop, Comma} \in SUBSET {Stop, Comma}
    OBVIOUS
  <2>2. QED BY <2>1, TrimSpells
<1>3. needle \in Seq(U) /\ Spelled(needle) = Spelled(h)
  <2> HIDE DEF trim, U
  <2>1. QED BY <1>2, FoldSpells DEF U
<1>4. hay \in Seq(U) /\ Spelled(hay) = Spelled(p) /\ Values(U) = Values(T)
  BY FoldSpells
<1>5. Spelled(h) # <<>>
  BY OccursSays
<1>6. Within(Spelled(h), Spelled(p), Values(T))
  <2>1. PICK i \in DOMAIN hay : i + n - 1 <= Len(hay) /\ SubSeq(hay, i, i + n - 1) = needle
    BY <1>1
  <2> HIDE DEF needle, hay, U
  <2>2. n \in Nat \ {0} /\ Len(hay) \in Nat /\ i \in 1..Len(hay)
    BY <1>1, <1>3, <1>4
  <2> HIDE DEF n
  <2> DEFINE j == i + n
             l == Len(hay) + 1
  <2>3. /\ 1 \in 1..l /\ i \in 1..l /\ j \in i..l /\ j \in 1..l /\ l \in j..l /\ l \in i..l
        /\ l \in l..l /\ l \in 1..l
        /\ j - 1 = i + n - 1
    BY <2>1, <2>2
  <2>4. Part(hay, i, j) = needle
    BY <2>1, <2>3 DEF Part
  <2> DEFINE a == Part(hay, 1, i)
             c == Part(hay, j, l)
  <2>5. a \in Seq(U) /\ c \in Seq(U)
    BY <1>4, <2>3, PartsJoin
  <2>6. needle \o c = Part(hay, i, l) /\ a \o Part(hay, i, l) = Part(hay, 1, l)
    BY <1>4, <2>3, <2>4, PartsJoin
  <2>7. Part(hay, 1, l) = hay
    BY <1>4, PartsOfText
  <2>8. needle \o c \in Seq(U)
    BY <1>3, <2>5, ConcatProperties
  <2> HIDE DEF a, c, j, l
  <2>9. Spelled(hay) = Spelled(a) \o (Spelled(needle) \o Spelled(c))
    <3>1. \A x, y \in Seq(U) : Spelled(x \o y) = Spelled(x) \o Spelled(y)
      BY SpelledConcat
    <3>2. a \o (needle \o c) = hay
      BY <2>6, <2>7
    <3>3. Spelled(a \o (needle \o c)) = Spelled(a) \o Spelled(needle \o c)
      BY <2>5, <2>8, <3>1
    <3>4. Spelled(needle \o c) = Spelled(needle) \o Spelled(c)
      BY <1>3, <2>5, <3>1
    <3>5. QED BY <3>2, <3>3, <3>4
  <2>10. Spelled(a) \in Seq(Values(T)) /\ Spelled(c) \in Seq(Values(T))
    <3>1. Spelled(a) \in Seq(Values(U)) /\ Spelled(c) \in Seq(Values(U))
      BY <2>5, PiecesAre
    <3>2. QED BY <1>4, <3>1
  <2>11. QED BY <1>3, <1>4, <2>9, <2>10 DEF Within
<1>7. QED BY <1>5, <1>6

(* What is said within a text occurs in what the text says. *)
LEMMA WithinOccurs ==
  ASSUME NEW T, NEW h \in Seq(T), NEW p \in Seq(T), Spelled(h) # <<>>,
         Within(Spelled(h), Spelled(p), Values(T))
  PROVE  OccursIn(Spelled(h), Spelled(p))
<1> DEFINE V == Values(T)
           u == Spelled(h)
           v == Spelled(p)
<1>1. /\ u \in Seq(V) /\ v \in Seq(V) /\ u # <<>>
  BY PiecesAre
<1>2. FoldTokens(TrimTokens(u, {Stop, Comma})) = u /\ FoldTokens(v) = v
  BY SpelledIsPlain
<1> HIDE DEF u, v, V
<1>3. PICK x \in Seq(V), y \in Seq(V) : v = x \o (u \o y)
  BY DEF Within, u, v, V
<1> DEFINE k == Len(x)
           m == Len(u)
           n == Len(y)
<1>4. k \in Nat /\ m \in Nat \ {0} /\ n \in Nat
  BY <1>1
<1>5. /\ u \o y \in Seq(V) /\ Len(u \o y) = m + n
      /\ \A i \in 1..m+n : (u \o y)[i] = IF i <= m THEN u[i] ELSE y[i - m]
  BY <1>1, ConcatProperties
<1> DEFINE uy == u \o y
<1> HIDE DEF uy
<1>6. uy \in Seq(V) /\ Len(uy) = m + n /\ \A i \in 1..m+n : uy[i] = IF i <= m THEN u[i] ELSE y[i - m]
  BY <1>5 DEF uy
<1>7. /\ Len(v) = k + (m + n)
      /\ \A i \in 1..k+(m+n) : v[i] = IF i <= k THEN x[i] ELSE uy[i - k]
  <2>1. v = x \o uy
    BY <1>3 DEF uy
  <2>2. /\ Len(x \o uy) = Len(x) + Len(uy)
        /\ \A i \in 1..Len(x) + Len(uy) : (x \o uy)[i] = IF i <= Len(x) THEN x[i] ELSE uy[i - Len(x)]
    <3>1. uy \in Seq(V) /\ x \in Seq(V)
      BY <1>6
    <3>2. QED BY <3>1, ConcatProperties, Zenon
  <2>3. QED BY <1>6, <2>1, <2>2
<1> HIDE DEF k, m, n
<1>8. ASSUME NEW i \in 1..m PROVE v[k + i] = u[i]
  <2>1. k + i \in 1..k+(m+n) /\ ~(k + i <= k) /\ (k + i) - k = i /\ i \in 1..m+n /\ i <= m
    BY <1>4
  <2>2. v[k + i] = uy[i]
    BY <1>7, <2>1
  <2>3. QED BY <1>6, <2>1, <2>2
<1> DEFINE i == k + 1
           s == SubSeq(v, i, i + m - 1)
<1>9. i \in 1..Len(v) /\ i + m - 1 <= Len(v) /\ i + m - 1 \in 1..Len(v) /\ DOMAIN v = 1..Len(v)
  BY <1>1, <1>4, <1>7
<1>10. s = u
  <2>1. /\ s \in Seq(V) /\ Len(s) = m
        /\ \A q \in 1..m : s[q] = v[k + q]
    <3> DEFINE e == i + m - 1
    <3>1. i \in Int /\ e \in Int /\ i <= e /\ e - i + 1 = m /\ \A q \in i..e : v[q] \in V
      BY <1>1, <1>4, <1>9
    <3>2. \A q \in 1..m : i + q - 1 = k + q
      BY <1>4
    <3> HIDE DEF i, e
    <3>3. /\ SubSeq(v, i, e) \in Seq(V)
          /\ Len(SubSeq(v, i, e)) = IF i <= e THEN e - i + 1 ELSE 0
          /\ \A q \in 1..e-i+1 : SubSeq(v, i, e)[q] = v[i + q - 1]
      BY <3>1, SubSeqProperties
    <3>4. QED BY <3>1, <3>2, <3>3 DEF e
  <2> HIDE DEF s
  <2>2. QED BY <1>1, <1>8, <2>1, SeqEqual DEF m
<1> HIDE DEF i
<1>11. OccursIn(u, v)
  <2>1. \E q \in DOMAIN v : q + m - 1 <= Len(v) /\ SubSeq(v, q, q + m - 1) = u
    BY <1>9, <1>10
  <2>2. QED BY <1>1, <1>2, <2>1, Zenon DEF OccursIn, m
<1>12. QED BY <1>11 DEF u, v
-----------------------------------------------------------------------------
(* Induction from the last number to the first. *)
LEMMA Downwards ==
  ASSUME NEW N \in Nat, NEW P,
         \A i \in 1..N : (\A j \in i+1..N : j \in P) => i \in P
  PROVE  \A i \in 1..N : i \in P
<1> DEFINE K == {k \in Nat : \A i \in 1..N : i > N - k => i \in P}
<1>1. 0 \in K
  OBVIOUS
<1>2. ASSUME NEW k \in Nat, k \in K PROVE k + 1 \in K
  <2>1. ASSUME NEW i \in 1..N, i > N - (k + 1) PROVE i \in P
    <3>1. \A j \in i+1..N : j \in 1..N /\ j > N - k
      BY <2>1
    <3>2. \A j \in 1..N : j > N - k => j \in P
      BY <1>2
    <3>3. \A j \in i+1..N : j \in P
      BY <3>1, <3>2
    <3>4. QED BY <3>3
  <2>2. QED BY <2>1
<1>3. \A k \in Nat : k \in K
  <2> HIDE DEF K
  <2>1. QED BY <1>1, <1>2, AllNaturals
<1>4. \A i \in 1..N : i > N - N
  OBVIOUS
<1>5. N \in K
  BY <1>3
<1>6. QED BY <1>4, <1>5

(* A text that is written from its end: at each position a part and then   *)
(* what is written from a later position.                                  *)
FromItsEnd(f, part, next, N, M) ==
  f = [i \in 1..M |-> IF i > N THEN <<>> ELSE part[i] \o f[next[i]]]

(* Such a function exists when every jump goes ahead.                      *)
LEMMA JumpsExist ==
  ASSUME NEW S, NEW N \in Nat, NEW M \in Nat, N < M, NEW part \in [1..N -> Seq(S)],
         NEW next \in [1..N -> Nat], \A i \in 1..N : next[i] \in i+1..M
  PROVE  \E f \in [1..M -> Seq(S)] : FromItsEnd(f, part, next, N, M)
<1> DEFINE V == Seq(S)
           from(k) == N + 1 - k
           Upto(f, k) == /\ f \in [from(k)..M -> V]
                         /\ \A i \in from(k)..M :
                              f[i] = IF i > N THEN <<>> ELSE part[i] \o f[next[i]]
           K == {k \in Nat : k <= N => \E f : Upto(f, k)}
<1>1. /\ \A a, b \in V : a \o b \in V
      /\ <<>> \in V
  BY ConcatProperties
<1>2. \A i \in 1..N : part[i] \in V /\ next[i] \in i+1..M
  OBVIOUS
<1> HIDE DEF V
<1>3. 0 \in K
  <2> DEFINE f == [i \in N+1..M |-> <<>>]
  <2>1. from(0) = N + 1
    OBVIOUS
  <2>2. f \in [N+1..M -> V]
    BY <1>1
  <2>3. \A i \in N+1..M : f[i] = <<>> /\ i > N
    OBVIOUS
  <2> HIDE DEF f
  <2>4. Upto(f, 0)
    BY <2>1, <2>2, <2>3
  <2>5. QED BY <2>4
<1> HIDE DEF Upto
<1>4. ASSUME NEW k \in Nat, k \in K PROVE k + 1 \in K
  <2>1. SUFFICES ASSUME k + 1 <= N PROVE \E f : Upto(f, k + 1)
    <3>1. k + 1 \in Nat
      OBVIOUS
    <3>2. QED BY <3>1, Zenon
  <2>2. PICK g : Upto(g, k)
    <3>1. k <= N
      BY <2>1
    <3>2. QED BY <1>4, <3>1, Zenon
  <2> DEFINE p == from(k + 1)
             f == [i \in p..M |-> IF i = p THEN part[p] \o g[next[p]] ELSE g[i]]
  <2>3. /\ p \in 1..N /\ from(k) = p + 1 /\ p + 1 \in 1..M
        /\ \A i \in p..M : i = p \/ i \in p+1..M
    BY <2>1
  <2>4. next[p] \in p+1..M /\ part[p] \in V
    BY <1>2, <2>3
  <2>5. g \in [p+1..M -> V] /\ \A i \in p+1..M : g[i] = IF i > N THEN <<>> ELSE part[i] \o g[next[i]]
    BY <2>2, <2>3 DEF Upto
  <2> HIDE DEF p
  <2>6. part[p] \o g[next[p]] \in V
    BY <1>1, <2>4, <2>5
  <2>7. f \in [p..M -> V]
    <3>1. \A i \in p..M : f[i] \in V
      BY <2>3, <2>5, <2>6
    <3>2. QED BY <3>1
  <2>8. \A i \in p+1..M : f[i] = g[i] /\ i \in p..M /\ i # p
    BY <2>3
  <2>9. f[p] = part[p] \o f[next[p]]
    <3>1. p \in p..M
      BY <2>3
    <3>2. f[p] = part[p] \o g[next[p]]
      BY <3>1
    <3>3. f[next[p]] = g[next[p]]
      BY <2>4, <2>8
    <3>4. QED BY <3>2, <3>3
  <2> HIDE DEF f
  <2>10. ASSUME NEW i \in p..M
         PROVE  f[i] = IF i > N THEN <<>> ELSE part[i] \o f[next[i]]
    <3>1. CASE i = p
      <4>1. ~(p > N)
        BY <2>3
      <4>2. QED BY <2>9, <3>1, <4>1
    <3>2. CASE i \in p+1..M
      <4>1. f[i] = IF i > N THEN <<>> ELSE part[i] \o g[next[i]]
        BY <2>5, <2>8, <3>2
      <4>2. CASE i > N
        BY <4>1, <4>2
      <4>3. CASE ~(i > N)
        <5>1. i \in 1..N
          BY <2>3, <3>2, <4>3
        <5>2. next[i] \in p+1..M
          BY <1>2, <2>3, <3>2, <5>1
        <5>3. f[next[i]] = g[next[i]]
          BY <2>8, <5>2
        <5>4. QED BY <4>1, <4>3, <5>3
      <4>4. QED BY <4>2, <4>3
    <3>3. QED BY <2>3, <3>1, <3>2
  <2>11. Upto(f, k + 1)
    BY <2>7, <2>10 DEF p, Upto
  <2>12. QED BY <2>11
<1>5. \A k \in Nat : k \in K
  <2> HIDE DEF K
  <2>1. QED BY <1>3, <1>4, AllNaturals
<1>6. PICK f : Upto(f, N)
  <2>1. N \in K /\ N <= N
    BY <1>5
  <2>2. QED BY <2>1, Zenon
<1>7. from(N) = 1
  OBVIOUS
<1>8. f \in [1..M -> V] /\ \A i \in 1..M : f[i] = IF i > N THEN <<>> ELSE part[i] \o f[next[i]]
  BY <1>6, <1>7 DEF Upto
<1>9. f = [i \in 1..M |-> IF i > N THEN <<>> ELSE part[i] \o f[next[i]]]
  BY <1>8
<1>10. QED BY <1>8, <1>9, Zenon DEF V, FromItsEnd
-----------------------------------------------------------------------------
(* normalizeFormatterDocument's loop, one round: what a block becomes, and *)
(* what that puts into the document.                                       *)
Taken(doc, source, i) ==
  IF doc[i].type # "heading" THEN [blocks |-> <<doc[i]>>, used |-> 1]
  ELSE NormalizeHeading(doc[i], SubSeq(doc, i + 1, Len(doc)), source)
SplitOf(b) == IF b.type = "paragraph" THEN SplitParagraph(b.text) ELSE <<b>>
Given(h) == IF h.blocks = <<>> THEN <<>> ELSE SplitOf(h.blocks[1])

(* The same, case by case.                                                 *)
IsSaid(doc, source, i) == doc[i].type = "heading" /\ OccursIn(doc[i].text, source)
IsProse(doc, i) == i + 1 \in 1..Len(doc) /\ doc[i+1].type = "paragraph"

TakenAs(h, doc, source, i) ==
  \/ doc[i].type # "heading" /\ h = [blocks |-> <<doc[i]>>, used |-> 1]
  \/ /\ doc[i].type = "heading" /\ ~IsSaid(doc, source, i)
     /\ h = [blocks |-> <<>>, used |-> 1]
  \/ IsSaid(doc, source, i) /\ h = [blocks |-> <<doc[i]>>, used |-> 1]
  \/ /\ IsSaid(doc, source, i) /\ IsProse(doc, i) /\ OccursIn(doc[i].text, doc[i+1].text)
     /\ h = [blocks |-> <<>>, used |-> 1]
  \/ /\ IsSaid(doc, source, i) /\ IsProse(doc, i)
     /\ h = [blocks |-> <<Paragraph(doc[i].text \o doc[i+1].text)>>, used |-> 2]
  \/ /\ IsSaid(doc, source, i)
     /\ h = [blocks |-> <<Paragraph(doc[i].text)>>, used |-> 1]

(* What a round takes is one of these cases.                               *)
LEMMA TakenIs ==
  ASSUME NEW B, NEW doc \in Seq(B), NEW source, NEW i \in 1..Len(doc)
  PROVE  TakenAs(Taken(doc, source, i), doc, source, i)
<1> DEFINE after == SubSeq(doc, i + 1, Len(doc))
           b == doc[i]
           next == after[1]
           h == Taken(doc, source, i)
<1>1. CASE b.type # "heading"
  <2>1. h = [blocks |-> <<b>>, used |-> 1]
    BY <1>1 DEF Taken
  <2>2. QED BY <1>1, <2>1 DEF TakenAs
<1>2. CASE b.type = "heading"
  <2>1. h = NormalizeHeading(b, after, source)
    BY <1>2 DEF Taken
  <2>2. after # <<>> => i + 1 \in 1..Len(doc) /\ next = doc[i+1]
    <3>1. i + 1 \in Int /\ Len(doc) \in Int /\ \A k \in i+1..Len(doc) : doc[k] \in B
      OBVIOUS
    <3>2. /\ after \in Seq(B)
          /\ Len(after) = IF i + 1 <= Len(doc) THEN Len(doc) - (i + 1) + 1 ELSE 0
          /\ \A k \in 1..Len(doc)-(i+1)+1 : after[k] = doc[i + 1 + k - 1]
      BY <3>1, SubSeqProperties
    <3> HIDE DEF after
    <3>3. after # <<>> => Len(after) # 0
      BY <3>2
    <3>4. after # <<>> => i + 1 <= Len(doc)
      BY <3>2, <3>3
    <3>5. i + 1 <= Len(doc) => 1 \in 1..Len(doc)-(i+1)+1 /\ i + 1 + 1 - 1 = i + 1
      BY <3>1
    <3>6. QED BY <3>1, <3>2, <3>4, <3>5
  <2> DEFINE list == after # <<>> /\ next.type \in {"numbered", "bullets"}
             prose == after # <<>> /\ next.type = "paragraph"
             said == OccursIn(b.text, source)
             again == OccursIn(b.text, next.text)
             goes == Continues(next.text)
             joined == [blocks |-> <<Paragraph(b.text \o next.text)>>, used |-> 2]
             alone == [blocks |-> <<Paragraph(b.text)>>, used |-> 1]
             none == [blocks |-> <<>>, used |-> 1]
             kept == [blocks |-> <<b>>, used |-> 1]
  <2>3. /\ ~said => h = none
        /\ said => h = CASE list -> kept
                         [] prose /\ again -> none
                         [] prose /\ ~again /\ goes -> joined
                         [] OTHER -> alone
    <3>1. h = IF ~said THEN none
              ELSE CASE after # <<>> /\ next.type \in {"numbered", "bullets"} -> kept
                     [] after # <<>> /\ next.type = "paragraph" /\ again -> none
                     [] after # <<>> /\ next.type = "paragraph" /\ ~again /\ goes -> joined
                     [] OTHER -> alone
      BY <2>1, Zenon DEF NormalizeHeading
    <3> HIDE DEF h, none, kept, joined, alone, again, goes, said
    <3>2. QED BY <3>1
  <2>4. IsSaid(doc, source, i) <=> said
    BY <1>2 DEF IsSaid
  <2>5. prose => IsProse(doc, i)
    <3> HIDE DEF after
    <3>1. QED BY <2>2 DEF IsProse
  <2>6. prose => (again <=> OccursIn(doc[i].text, doc[i+1].text))
                 /\ joined = [blocks |-> <<Paragraph(doc[i].text \o doc[i+1].text)>>, used |-> 2]
    <3> HIDE DEF after
    <3>1. QED BY <2>2
  <2>7. CASE ~said
    BY <1>2, <2>3, <2>4, <2>7 DEF TakenAs
  <2>8. CASE said
    <3>1. \/ h = kept
          \/ prose /\ again /\ h = none
          \/ prose /\ h = joined
          \/ h = alone
      <4> HIDE DEF h, none, kept, joined, alone, again, goes, said, prose, list
      <4>1. QED BY <2>3, <2>8
    <3>2. QED BY <2>4, <2>5, <2>6, <2>8, <3>1 DEF TakenAs
  <2>9. QED BY <2>7, <2>8
<1>3. QED BY <1>1, <1>2

(* What a block puts into the document: all that its text says, in blocks  *)
(* that can be rendered when it can be.                                    *)
LEMMA SplitOfIs ==
  ASSUME NEW W, Digits \subseteq W, NEW b \in Block(W)
  PROVE  /\ SplitOf(b) \in Seq(Block(W)) /\ Spelled(Text(SplitOf(b))) \in Seq(Values(W))
         /\ b.type \in {"paragraph", "heading"} =>
              Within(Spelled(b.text), Spelled(Text(SplitOf(b))), Values(W))
         /\ AcceptsBlock(b) => Sound(SplitOf(b), W) /\ SplitOf(b) # <<>>
<1> DEFINE s == SplitOf(b)
           V == Values(W)
<1>1. /\ b.text \in Seq(W) /\ b.items \in Seq(Seq(W))
      /\ b.type \in {"paragraph", "heading", "numbered", "bullets"}
  BY DEF Block
<1>2. Spelled(b.text) \in Seq(V)
  BY <1>1, PiecesAre
<1>3. CASE b.type = "paragraph"
  <2>1. s = SplitParagraph(b.text)
    BY <1>3 DEF SplitOf
  <2>2. AcceptsBlock(b) => b.text # <<>>
    BY <1>3 DEF AcceptsBlock
  <2>3. /\ s \in Seq(Block(W)) /\ Spelled(Text(s)) = Spelled(b.text)
        /\ AcceptsBlock(b) => Sound(s, W) /\ s # <<>>
    BY <1>1, <2>1, <2>2, SplitParagraphIs
  <2>4. Within(Spelled(b.text), Spelled(Text(s)), V)
    BY <1>2, <2>3, WithinMore
  <2>5. QED BY <1>2, <2>3, <2>4
<1>4. CASE b.type # "paragraph"
  <2>1. s = <<b>>
    BY <1>4 DEF SplitOf
  <2>2. s \in Seq(Block(W)) /\ s # <<>> /\ Text(s) = BlockText(b)
    BY <2>1, TextIs
  <2>3. AcceptsBlock(b) => Sound(s, W)
    BY <2>1, SoundFew
  <2>4. BlockText(b) \in Seq(W)
    BY BlockTextIs
  <2>5. Spelled(Text(s)) \in Seq(V)
    BY <2>2, <2>4, PiecesAre
  <2>6. ASSUME b.type = "heading" PROVE Within(Spelled(b.text), Spelled(Text(s)), V)
    <3> DEFINE rest == FlattenSeq(b.items)
    <3>1. BlockText(b) = b.text \o rest
      BY <2>6 DEF BlockText
    <3>2. rest \in Seq(W)
      BY <1>1, FlattenIsSeq
    <3> HIDE DEF rest
    <3>3. Spelled(b.text \o rest) = Spelled(b.text) \o Spelled(rest)
      BY <1>1, <3>2, SpelledConcat
    <3>4. Spelled(rest) \in Seq(V)
      BY <3>2, PiecesAre
    <3>5. Within(Spelled(b.text), Spelled(b.text) \o Spelled(rest), V)
      BY <1>2, <3>4, WithinMore
    <3>6. QED BY <2>2, <3>1, <3>3, <3>5
  <2>7. QED BY <1>4, <2>2, <2>3, <2>5, <2>6
<1>5. QED BY <1>3, <1>4

(* A text within a text within a third stands within the third.            *)
LEMMA WithinWithin ==
  ASSUME NEW S, NEW u \in Seq(S), NEW v \in Seq(S), NEW w \in Seq(S),
         Within(u, v, S), Within(v, w, S)
  PROVE  Within(u, w, S)
<1> DEFINE V == Seq(S)
<1>1. PICK x \in V, y \in V : w = x \o (v \o y)
  BY DEF Within
<1>2. v \o y \in V
  BY ConcatProperties
<1> HIDE DEF V
<1>3. Within(u, v \o y, S)
  BY <1>1, WithinMore DEF V
<1>4. QED BY <1>1, <1>2, <1>3, WithinMore DEF V

(* One round of the loop.                                                  *)
LEMMA GivenIs ==
  ASSUME NEW W, Digits \subseteq W, NEW doc \in Seq(Block(W)), NEW source,
         NEW i \in 1..Len(doc), NEW h, TakenAs(h, doc, source, i)
  PROVE  /\ Given(h) \in Seq(Block(W)) /\ Spelled(Text(Given(h))) \in Seq(Values(W))
         /\ h.used \in {1, 2} /\ i + h.used \in i+1..Len(doc)+1
         /\ h.used = 2 => IsProse(doc, i) /\ h.blocks # <<>>
         /\ doc[i].type = "paragraph" =>
              Within(Spelled(doc[i].text), Spelled(Text(Given(h))), Values(W))
         /\ IsSaid(doc, source, i) =>
              \/ Within(Spelled(doc[i].text), Spelled(Text(Given(h))), Values(W))
              \/ IsProse(doc, i) /\ OccursIn(doc[i].text, doc[i+1].text) /\ h.used = 1
         /\ h.blocks = <<>> =>
              /\ doc[i].type = "heading"
              /\ IsSaid(doc, source, i) => IsProse(doc, i) /\ h.used = 1
         /\ (\A n \in 1..Len(doc) : AcceptsBlock(doc[n])) =>
              Sound(Given(h), W) /\ (h.blocks # <<>> => Given(h) # <<>>)
<1> DEFINE B == Block(W)
           V == Values(W)
           b == doc[i]
           next == doc[i+1]
           Kept(c) == Within(Spelled(b.text), Spelled(Text(SplitOf(c))), V)
<1>0. /\ doc \in Seq(B) /\ Len(doc) \in Nat
      /\ \A c \in B : c.text \in Seq(W)
  BY DEF Block
<1>1. b \in B /\ Len(doc) \in Nat /\ b.text \in Seq(W)
  <2> HIDE DEF B
  <2>1. doc[i] \in B
    BY <1>0
  <2>2. QED BY <1>0, <2>1
<1>2. IsProse(doc, i) => i + 1 <= Len(doc) /\ next \in B /\ next.text \in Seq(W)
  <2> HIDE DEF B
  <2>1. IsProse(doc, i) => i + 1 \in 1..Len(doc)
    BY DEF IsProse
  <2>2. QED BY <1>0, <2>1
<1>3. IsSaid(doc, source, i) => b.type = "heading"
  BY DEF IsSaid
<1>4. ASSUME h.blocks = <<>>, h.used = 1, b.type = "heading",
             IsSaid(doc, source, i) => IsProse(doc, i) /\ OccursIn(b.text, next.text)
      PROVE  /\ Given(h) = <<>> /\ Sound(<<>>, W)
             /\ Spelled(Text(<<>>)) \in Seq(V) /\ <<>> \in Seq(B)
  <2>1. Given(h) = <<>>
    BY <1>4 DEF Given
  <2>2. <<>> \in Seq(B) /\ Len(<<>>) = 0 /\ 1..0 = {} /\ <<>> \in Seq(W)
    OBVIOUS
  <2>3. Sound(<<>>, W)
    BY <2>2 DEF Sound
  <2>4. Spelled(Text(<<>>)) \in Seq(V)
    BY <2>2, TextIs, PiecesAre
  <2>5. QED BY <2>1, <2>2, <2>3, <2>4
<1>5. ASSUME NEW c \in B, h.blocks = <<c>>
      PROVE  /\ Given(h) = SplitOf(c) /\ h.blocks # <<>>
             /\ Given(h) \in Seq(B) /\ Spelled(Text(Given(h))) \in Seq(V)
             /\ c.type \in {"paragraph", "heading"} =>
                  Within(Spelled(c.text), Spelled(Text(Given(h))), V)
             /\ AcceptsBlock(c) => Sound(Given(h), W) /\ Given(h) # <<>>
  <2>1. h.blocks # <<>> /\ h.blocks[1] = c
    BY <1>5
  <2>2. Given(h) = SplitOf(c)
    BY <2>1 DEF Given
  <2>3. QED BY <2>1, <2>2, SplitOfIs
<1>6. ASSUME h = [blocks |-> <<b>>, used |-> 1] PROVE h.blocks = <<b>> /\ h.used = 1
  BY <1>6
<1>7. \A t \in Seq(W) : /\ Paragraph(t) \in B /\ Paragraph(t).type = "paragraph"
                        /\ Paragraph(t).text = t
                        /\ t # <<>> => AcceptsBlock(Paragraph(t))
  <2>1. \A t \in Seq(W) : Paragraph(t) \in B
    BY BlockTextIs
  <2>2. QED BY <2>1 DEF Paragraph, AcceptsBlock
<1>8. b.type = "heading" /\ AcceptsBlock(b) => b.text # <<>>
  BY DEF AcceptsBlock
<1> HIDE DEF B, V
<1>9. CASE h = [blocks |-> <<b>>, used |-> 1]
  <2>1. h.blocks = <<b>> /\ h.used = 1
    BY <1>9
  <2>2. i + 1 \in i+1..Len(doc)+1
    BY <1>1
  <2> HIDE DEF b
  <2>3. QED BY <1>1, <1>3, <1>5, <2>1, <2>2 DEF B, V, b
<1>10. CASE /\ h = [blocks |-> <<>>, used |-> 1] /\ b.type = "heading"
            /\ IsSaid(doc, source, i) => IsProse(doc, i) /\ OccursIn(b.text, next.text)
  <2>1. h.blocks = <<>> /\ h.used = 1
    BY <1>10
  <2>2. i + 1 \in i+1..Len(doc)+1
    BY <1>1
  <2>3. /\ Given(h) = <<>> /\ Sound(<<>>, W)
        /\ Spelled(Text(<<>>)) \in Seq(V) /\ <<>> \in Seq(B)
    BY <1>4, <1>10, <2>1
  <2>4. b.type # "paragraph"
    BY <1>10
  <2> HIDE DEF b
  <2>5. QED BY <1>10, <2>1, <2>2, <2>3, <2>4 DEF B, V, b
<1>11. CASE /\ IsSaid(doc, source, i) /\ IsProse(doc, i)
            /\ h = [blocks |-> <<Paragraph(b.text \o next.text)>>, used |-> 2]
  <2> DEFINE t == b.text \o next.text
             c == Paragraph(t)
  <2>1. h.blocks = <<c>> /\ h.used = 2
    BY <1>11
  <2>2. i + 2 \in i+1..Len(doc)+1
    BY <1>1, <1>2, <1>11
  <2>3. t \in Seq(W) /\ Spelled(t) = Spelled(b.text) \o Spelled(next.text)
    BY <1>1, <1>2, <1>11, ConcatProperties, SpelledConcat
  <2>4. Spelled(b.text) \in Seq(V) /\ Spelled(next.text) \in Seq(V) /\ Spelled(t) \in Seq(V)
    BY <1>1, <1>2, <1>11, <2>3, PiecesAre DEF V
  <2>5. Within(Spelled(b.text), Spelled(t), V)
    BY <2>3, <2>4, WithinMore
  <2>6. b.text # <<>> => t # <<>>
    BY <1>1, <1>2, <1>11, ConcatEqualIffEmpty
  <2> HIDE DEF t
  <2>7. c \in B /\ c.type = "paragraph" /\ c.text = t /\ (t # <<>> => AcceptsBlock(c))
    BY <1>7, <2>3
  <2> HIDE DEF c
  <2>8. /\ h.blocks # <<>>
        /\ Given(h) \in Seq(B) /\ Spelled(Text(Given(h))) \in Seq(V)
        /\ Within(Spelled(t), Spelled(Text(Given(h))), V)
        /\ AcceptsBlock(c) => Sound(Given(h), W) /\ Given(h) # <<>>
    BY <1>5, <2>1, <2>7
  <2>9. Within(Spelled(b.text), Spelled(Text(Given(h))), V)
    BY <2>4, <2>5, <2>8, WithinWithin
  <2>10. (\A n \in 1..Len(doc) : AcceptsBlock(doc[n])) => AcceptsBlock(c)
    BY <1>3, <1>8, <1>11, <2>6, <2>7
  <2>11. b.type # "paragraph"
    BY <1>3, <1>11
  <2>12. QED BY <1>11, <2>1, <2>2, <2>8, <2>9, <2>10, <2>11 DEF B, V
<1>12. CASE IsSaid(doc, source, i) /\ h = [blocks |-> <<Paragraph(b.text)>>, used |-> 1]
  <2> DEFINE c == Paragraph(b.text)
  <2>1. h.blocks = <<c>> /\ h.used = 1
    BY <1>12
  <2>2. i + 1 \in i+1..Len(doc)+1
    BY <1>1
  <2>3. c \in B /\ c.type = "paragraph" /\ c.text = b.text
        /\ (b.text # <<>> => AcceptsBlock(c))
    BY <1>1, <1>7
  <2> HIDE DEF c
  <2>4. /\ h.blocks # <<>>
        /\ Given(h) \in Seq(B) /\ Spelled(Text(Given(h))) \in Seq(V)
        /\ Within(Spelled(b.text), Spelled(Text(Given(h))), V)
        /\ AcceptsBlock(c) => Sound(Given(h), W) /\ Given(h) # <<>>
    BY <1>5, <2>1, <2>3
  <2>5. (\A n \in 1..Len(doc) : AcceptsBlock(doc[n])) => AcceptsBlock(c)
    BY <1>3, <1>8, <1>12, <2>3
  <2>6. b.type # "paragraph"
    BY <1>3, <1>12
  <2>7. QED BY <1>12, <2>1, <2>2, <2>4, <2>5, <2>6 DEF B, V
<1>13. QED BY <1>3, <1>9, <1>10, <1>11, <1>12 DEF TakenAs

(* The document is what its first round and the rounds after it give.      *)
Rounds(rest, doc, source, W) ==
  /\ rest \in [1..Len(doc)+1 -> Seq(Block(W))]
  /\ Normalize(doc, source) = rest[1]
  /\ rest[Len(doc)+1] = <<>>
  /\ \A i \in 1..Len(doc) :
       rest[i] = Given(Taken(doc, source, i)) \o rest[i + Taken(doc, source, i).used]

(* The loop has such rounds (normalizeFormatterDocument).                  *)
LEMMA NormalizeIs ==
  ASSUME NEW W, Digits \subseteq W, NEW doc \in Seq(Block(W)), NEW source
  PROVE  \E rest : Rounds(rest, doc, source, W)
<1> DEFINE B == Block(W)
           N == Len(doc)
           M == N + 1
           taken(i) == IF doc[i].type # "heading" THEN [blocks |-> <<doc[i]>>, used |-> 1]
                       ELSE NormalizeHeading(doc[i], SubSeq(doc, i + 1, Len(doc)), source)
           split(b) == IF b.type = "paragraph" THEN SplitParagraph(b.text) ELSE <<b>>
           Round(f, i) ==
             IF i > Len(doc) THEN <<>>
             ELSE LET h == taken(i) IN
                  (IF h.blocks = <<>> THEN <<>> ELSE split(h.blocks[1])) \o f[i + h.used]
           rest == CHOOSE f : f = [i \in 1..Len(doc) + 1 |-> Round(f, i)]
           part == [i \in 1..N |-> Given(Taken(doc, source, i))]
           next == [i \in 1..N |-> i + Taken(doc, source, i).used]
<1>1. Normalize(doc, source) = rest[1]
  BY Zenon DEF Normalize
<1>2. N \in Nat /\ M \in Nat /\ N < M
  OBVIOUS
<1>3. ASSUME NEW i \in 1..N
      PROVE  /\ Given(Taken(doc, source, i)) \in Seq(B)
             /\ i + Taken(doc, source, i).used \in i+1..M
  <2>1. TakenAs(Taken(doc, source, i), doc, source, i)
    BY TakenIs
  <2>2. QED BY <2>1, GivenIs
<1>4. \A i \in 1..N : taken(i) = Taken(doc, source, i)
  BY Zenon DEF Taken
<1>5. \A h : (IF h.blocks = <<>> THEN <<>> ELSE split(h.blocks[1])) = Given(h)
  BY Zenon DEF Given, SplitOf
<1>6. ASSUME NEW f, NEW i
      PROVE  i \in 1..M =>
               Round(f, i) = IF i > N THEN <<>>
                             ELSE Given(Taken(doc, source, i)) \o f[i + Taken(doc, source, i).used]
  <2>1. SUFFICES ASSUME i \in 1..M PROVE
               Round(f, i) = IF i > N THEN <<>>
                             ELSE Given(Taken(doc, source, i)) \o f[i + Taken(doc, source, i).used]
    OBVIOUS
  <2>2. CASE i > N
    BY <2>2
  <2>3. CASE ~(i > N)
    <3> DEFINE h == taken(i)
    <3>1. h = Taken(doc, source, i)
      <4>1. i \in 1..N
        BY <1>2, <2>1, <2>3
      <4>2. QED BY <1>4, <4>1
    <3> HIDE DEF taken
    <3>2. Round(f, i) = (IF h.blocks = <<>> THEN <<>> ELSE split(h.blocks[1])) \o f[i + h.used]
      BY <2>3
    <3> HIDE DEF h, split, Round
    <3>3. Round(f, i) = Given(h) \o f[i + h.used]
      BY <1>5, <3>2
    <3>4. QED BY <2>3, <3>1, <3>3
  <2>4. QED BY <2>2, <2>3
<1> HIDE DEF taken, split, B
<1>7. /\ part \in [1..N -> Seq(B)] /\ next \in [1..N -> Nat]
      /\ \A i \in 1..N : next[i] \in i+1..M
  <2>1. \A i \in 1..N : i + Taken(doc, source, i).used \in Nat
    BY <1>2, <1>3
  <2>2. QED BY <1>3, <2>1
<1>8. \A i \in 1..N : /\ part[i] = Given(Taken(doc, source, i))
                      /\ next[i] = i + Taken(doc, source, i).used
  OBVIOUS
<1> HIDE DEF part, next, N, M
<1>9. PICK f \in [1..M -> Seq(B)] : FromItsEnd(f, part, next, N, M)
  BY <1>2, <1>7, JumpsExist
<1> DEFINE IsRest(g) == g = [i \in 1..M |-> Round(g, i)]
<1> HIDE DEF Round
<1>10. IsRest(f)
  <2>1. \A i \in 1..M : i > N \/ i \in 1..N
    BY <1>2
  <2>2. ASSUME NEW i \in 1..M
        PROVE  (IF i > N THEN <<>> ELSE part[i] \o f[next[i]]) = Round(f, i)
    <3>1. Round(f, i) = IF i > N THEN <<>>
            ELSE Given(Taken(doc, source, i)) \o f[i + Taken(doc, source, i).used]
      BY <1>6
    <3>2. CASE i > N
      BY <3>1, <3>2
    <3>3. CASE ~(i > N)
      <4>1. i \in 1..N
        BY <2>1, <3>3
      <4>2. part[i] = Given(Taken(doc, source, i)) /\ next[i] = i + Taken(doc, source, i).used
        BY <1>8, <4>1
      <4>3. Round(f, i) = Given(Taken(doc, source, i)) \o f[i + Taken(doc, source, i).used]
        BY <3>1, <3>3
      <4>4. Round(f, i) = part[i] \o f[next[i]]
        BY <4>2, <4>3, Zenon
      <4>5. QED BY <3>3, <4>4
    <3>4. QED BY <3>2, <3>3
  <2>3. f = [i \in 1..M |-> IF i > N THEN <<>> ELSE part[i] \o f[next[i]]]
    BY <1>9, Zenon DEF FromItsEnd
  <2>4. QED BY <2>2, <2>3, Zenon
<1>11. rest = CHOOSE g : IsRest(g)
  BY Zenon DEF M, N
<1> HIDE DEF rest
<1>12. IsRest(rest)
  <2> HIDE DEF IsRest
  <2>1. QED BY <1>10, <1>11, Zenon
<1>13. \A i \in 1..M : rest[i] = IF i > N THEN <<>>
               ELSE Given(Taken(doc, source, i)) \o rest[i + Taken(doc, source, i).used]
  <2>1. \A i \in 1..M : rest[i] = Round(rest, i)
    BY <1>12
  <2>2. QED BY <1>6, <2>1
<1>14. rest \in [1..M -> Seq(B)]
  <2>1. rest = [i \in 1..M |-> rest[i]]
    BY <1>12
  <2> DEFINE P == {i \in 1..M : rest[i] \in Seq(B)}
  <2>2. \A i \in 1..M : (\A j \in i+1..M : j \in P) => i \in P
    <3> SUFFICES ASSUME NEW i \in 1..M, \A j \in i+1..M : j \in P PROVE rest[i] \in Seq(B)
      OBVIOUS
    <3>1. CASE i > N
      <4>1. rest[i] = <<>>
        BY <1>13, <3>1
      <4>2. QED BY <4>1
    <3>2. CASE ~(i > N)
      <4>1. i \in 1..N
        BY <1>2, <3>2
      <4> DEFINE g == Given(Taken(doc, source, i))
                 k == i + Taken(doc, source, i).used
      <4>2. g \in Seq(B) /\ k \in i+1..M
        BY <1>3, <4>1
      <4>3. rest[i] = g \o rest[k]
        BY <1>13, <3>2
      <4> HIDE DEF g, k
      <4>4. rest[k] \in Seq(B)
        BY <4>2
      <4>5. QED BY <4>2, <4>3, <4>4, ConcatProperties
    <3>3. QED BY <3>1, <3>2
  <2>3. \A i \in 1..M : i \in P
    <3> HIDE DEF P
    <3>1. QED BY <1>2, <2>2, Downwards
  <2>4. QED BY <2>1, <2>3
<1>15. rest[M] = <<>>
  <2>1. M \in 1..M /\ M > N
    BY <1>2 DEF M
  <2>2. QED BY <1>13, <2>1
<1>16. \A i \in 1..N :
         rest[i] = Given(Taken(doc, source, i)) \o rest[i + Taken(doc, source, i).used]
  <2>1. \A i \in 1..N : i \in 1..M /\ ~(i > N)
    BY <1>2
  <2>2. QED BY <1>13, <2>1
<1>17. Rounds(rest, doc, source, W)
  BY <1>1, <1>14, <1>15, <1>16 DEF Rounds, M, N, B
<1>18. QED BY <1>17

(* What the rounds from the i-th on give holds what they took.             *)
Keeps(r, doc, source, W, i) ==
  /\ doc[i].type = "paragraph" =>
       Within(Spelled(doc[i].text), Spelled(Text(r)), Values(W))
  /\ \A n \in i..Len(doc) : IsSaid(doc, source, n) =>
       Within(Spelled(doc[n].text), Spelled(Text(r)), Values(W))
  /\ (\A n \in 1..Len(doc) : AcceptsBlock(doc[n])) =>
       /\ Sound(r, W)
       /\ \A n \in i..Len(doc) :
            doc[n].type # "heading" \/ IsSaid(doc, source, n) => r # <<>>

(* One more round before them: it takes in one block, or a heading and the *)
(* paragraph that goes on with it.                                         *)
LEMMA RoundKeeps ==
  ASSUME NEW W, Digits \subseteq W, NEW doc \in Seq(Block(W)), NEW source,
         NEW rest, Rounds(rest, doc, source, W), NEW i \in 1..Len(doc),
         \A j \in i+1..Len(doc) : Keeps(rest[j], doc, source, W, j)
  PROVE  Keeps(rest[i], doc, source, W, i)
<1> DEFINE B == Block(W)
           V == Values(W)
           N == Len(doc)
           h == Taken(doc, source, i)
           g == Given(h)
           k == i + h.used
           In(n, d) == Within(Spelled(doc[n].text), Spelled(Text(d)), V)
           good == \A n \in 1..N : AcceptsBlock(doc[n])
<1>1. /\ rest \in [1..N+1 -> Seq(B)] /\ rest[N+1] = <<>> /\ rest[i] = g \o rest[k]
  BY DEF Rounds
<1>2. /\ g \in Seq(B)
      /\ h.used \in {1, 2} /\ k \in i+1..N+1
      /\ h.used = 2 => IsProse(doc, i) /\ h.blocks # <<>>
      /\ doc[i].type = "paragraph" => In(i, g)
      /\ IsSaid(doc, source, i) =>
           \/ In(i, g)
           \/ IsProse(doc, i) /\ OccursIn(doc[i].text, doc[i+1].text) /\ h.used = 1
      /\ h.blocks = <<>> => /\ doc[i].type = "heading"
                            /\ IsSaid(doc, source, i) => IsProse(doc, i) /\ h.used = 1
      /\ good => Sound(g, W) /\ (h.blocks # <<>> => g # <<>>)
  <2>1. TakenAs(h, doc, source, i)
    BY TakenIs
  <2> HIDE DEF h
  <2>2. QED BY <2>1, GivenIs
<1>3. N \in Nat /\ i \in Nat /\ k \in Nat
  BY <1>2
<1>4. \A n \in 1..N : doc[n] \in B /\ doc[n].text \in Seq(W) /\ Spelled(doc[n].text) \in Seq(V)
  <2>1. \A n \in 1..N : doc[n] \in B
    OBVIOUS
  <2>2. \A b \in B : b.text \in Seq(W)
    BY DEF Block
  <2>3. \A t \in Seq(W) : Spelled(t) \in Seq(V)
    BY PiecesAre
  <2> HIDE DEF B
  <2>4. QED BY <2>1, <2>2, <2>3
<1> DEFINE e == rest[k]
<1>5. e \in Seq(B)
  <2> HIDE DEF B
  <2>1. k \in 1..N+1
    BY <1>2, <1>3
  <2>2. QED BY <1>1, <2>1
<1>6. /\ Text(g) \in Seq(W) /\ Text(e) \in Seq(W)
      /\ Spelled(Text(g)) \in Seq(V) /\ Spelled(Text(e)) \in Seq(V)
      /\ Spelled(Text(g \o e)) = Spelled(Text(g)) \o Spelled(Text(e))
  <2>1. Text(g) \in Seq(W) /\ Text(e) \in Seq(W) /\ Text(g \o e) = Text(g) \o Text(e)
    BY <1>2, <1>5, TextIs
  <2>2. QED BY <2>1, PiecesAre, SpelledConcat
<1>7. \A n \in 1..N : In(n, g) \/ In(n, e) => In(n, g \o e)
  <2>1. \A n \in 1..N : In(n, g) => In(n, g \o e)
    <3> SUFFICES ASSUME NEW n \in 1..N, In(n, g) PROVE In(n, g \o e)
      OBVIOUS
    <3>1. Within(Spelled(doc[n].text), Spelled(Text(g)) \o Spelled(Text(e)), V)
      BY <1>4, <1>6, WithinMore
    <3>2. QED BY <1>6, <3>1
  <2>2. \A n \in 1..N : In(n, e) => In(n, g \o e)
    <3> SUFFICES ASSUME NEW n \in 1..N, In(n, e) PROVE In(n, g \o e)
      OBVIOUS
    <3>1. Within(Spelled(doc[n].text), Spelled(Text(g)) \o Spelled(Text(e)), V)
      BY <1>4, <1>6, WithinMore
    <3>2. QED BY <1>6, <3>1
  <2>3. QED BY <2>1, <2>2
<1>8. /\ \A n \in k..N : IsSaid(doc, source, n) => In(n, e)
      /\ k \in 1..N => (doc[k].type = "paragraph" => In(k, e))
      /\ good => Sound(e, W)
      /\ good => \A n \in k..N : doc[n].type # "heading" \/ IsSaid(doc, source, n) => e # <<>>
  <2>1. CASE k \in i+1..N
    BY <2>1 DEF Keeps
  <2>2. CASE k = N + 1
    <3>1. e = <<>> /\ k..N = {} /\ k \notin 1..N
      BY <1>1, <1>3, <2>2
    <3>2. Sound(<<>>, W)
      BY DEF Sound
    <3>3. QED BY <3>1, <3>2
  <2>3. QED BY <1>2, <1>3, <2>1, <2>2
<1>9. \A n \in i..N : n = i \/ n \in k..N \/ (n = i + 1 /\ h.used = 2)
  BY <1>2, <1>3
<1>10. ~(IsProse(doc, i) /\ ~(i + 1 \in 1..N /\ doc[i+1].type = "paragraph"))
  BY DEF IsProse
<1>11. \A n : IsSaid(doc, source, n) => doc[n].type = "heading"
  BY DEF IsSaid
<1>12. \A n \in i..N : n \in 1..N
  BY <1>3
<1>13. ASSUME IsProse(doc, i), OccursIn(doc[i].text, doc[i+1].text), h.used = 1
       PROVE  In(i, e)
  <2>1. k = i + 1 /\ i + 1 \in 1..N /\ In(k, e)
    BY <1>8, <1>10, <1>13
  <2>2. Within(Spelled(doc[i].text), Spelled(doc[k].text), V)
    BY <1>4, <1>13, <2>1, OccursWithin
  <2>3. QED BY <1>4, <1>6, <2>1, <2>2, WithinWithin
<1> HIDE DEF h, k, g, e, In, N, B, V, good
<1>14. \A n \in i..N : IsSaid(doc, source, n) => In(n, g \o e)
  <2> SUFFICES ASSUME NEW n \in i..N, IsSaid(doc, source, n) PROVE In(n, g \o e)
    OBVIOUS
  <2>1. CASE n = i
    BY <1>2, <1>7, <1>12, <1>13, <2>1
  <2>2. CASE n \in k..N
    BY <1>7, <1>8, <1>12, <2>2
  <2>3. CASE n = i + 1 /\ h.used = 2
    BY <1>2, <1>10, <1>11, <2>3
  <2>4. QED BY <1>9, <2>1, <2>2, <2>3
<1>15. doc[i].type = "paragraph" => In(i, g \o e)
  <2>1. i \in 1..N
    BY DEF N
  <2>2. QED BY <1>2, <1>7, <2>1
<1>16. good => Sound(g \o e, W)
  BY <1>2, <1>8, SoundConcat
<1>17. ASSUME good, NEW n \in i..N, doc[n].type # "heading" \/ IsSaid(doc, source, n)
       PROVE  g # <<>> \/ e # <<>>
  <2>1. CASE h.blocks # <<>>
    BY <1>2, <1>17, <2>1
  <2>2. CASE h.blocks = <<>>
    <3>1. h.used = 1
      BY <1>2, <2>2
    <3>2. CASE n = i
      <4>1. IsProse(doc, i)
        BY <1>2, <1>17, <2>2, <3>2
      <4>2. i + 1 \in 1..N /\ doc[i+1].type = "paragraph" /\ k = i + 1
        BY <1>10, <3>1, <4>1 DEF k
      <4>3. k \in k..N /\ doc[k].type # "heading"
        BY <1>3, <4>2
      <4>4. QED BY <1>8, <1>17, <4>3
    <3>3. CASE n \in k..N
      BY <1>8, <1>17, <3>3
    <3>4. QED BY <1>9, <3>1, <3>2, <3>3
  <2>3. QED BY <2>1, <2>2
<1>18. g # <<>> \/ e # <<>> => g \o e # <<>>
  <2>1. Len(g \o e) = Len(g) + Len(e) /\ g \in Seq(B) /\ e \in Seq(B)
    BY <1>2, <1>5, ConcatProperties
  <2>2. \A s \in Seq(B) : Len(s) \in Nat /\ (s # <<>> => Len(s) > 0)
    OBVIOUS
  <2>3. QED BY <2>1, <2>2
<1>19. rest[i] = g \o e
  BY <1>1 DEF e
<1>20. \A n \in i..N : good /\ (doc[n].type # "heading" \/ IsSaid(doc, source, n))
                          => g \o e # <<>>
  BY <1>17, <1>18
<1>21. QED BY <1>14, <1>15, <1>16, <1>19, <1>20 DEF Keeps, In, N, V, good

(* A document that can be rendered still can be after the repairs, unless  *)
(* nothing but headings the speaker never said was in it; and a heading    *)
(* that the speaker did say is still in the text: as a heading, as prose,  *)
(* or in the paragraph that repeats it.  Every document, of any tokens,    *)
(* and every source (normalizeFormatterDocument).                          *)
THEOREM RepairsKeepHeadings ==
  ASSUME NEW W, Digits \subseteq W, NEW doc \in Seq(Block(W)), NEW source
  PROVE  RepairsKeep(doc, source)
<1> DEFINE N == Len(doc)
           B == Block(W)
           repaired == Normalize(doc, source)
           said == {n \in DOMAIN doc : doc[n].type = "heading" => OccursIn(doc[n].text, source)}
<1>1. N \in Nat /\ DOMAIN doc = 1..N
  OBVIOUS
<1>2. PICK rest : Rounds(rest, doc, source, W)
  BY NormalizeIs
<1>3. \A i \in 1..N : Keeps(rest[i], doc, source, W, i)
  <2> DEFINE P == {i \in 1..N : Keeps(rest[i], doc, source, W, i)}
  <2>1. ASSUME NEW i \in 1..N, \A j \in i+1..N : j \in P PROVE i \in P
    <3>1. \A j \in i+1..N : Keeps(rest[j], doc, source, W, j)
      BY <2>1
    <3>2. Keeps(rest[i], doc, source, W, i)
      BY <1>2, <3>1, RoundKeeps
    <3>3. QED BY <3>2
  <2>2. \A i \in 1..N : i \in P
    <3> HIDE DEF P
    <3>1. QED BY <1>1, <2>1, Downwards
  <2>3. QED BY <2>2
<1>4. repaired = rest[1] /\ repaired \in Seq(B)
  <2>1. 1 \in 1..N+1
    BY <1>1
  <2>2. QED BY <1>2, <2>1 DEF Rounds
<1>5. ASSUME N > 0
      PROVE  /\ \A n \in 1..N : IsSaid(doc, source, n) =>
                  Within(Spelled(doc[n].text), Spelled(Text(repaired)), Values(W))
             /\ (\A n \in 1..N : AcceptsBlock(doc[n])) =>
                  /\ Sound(repaired, W)
                  /\ \A n \in 1..N :
                       doc[n].type # "heading" \/ IsSaid(doc, source, n) => repaired # <<>>
  <2>1. Keeps(repaired, doc, source, W, 1)
    BY <1>1, <1>3, <1>4, <1>5
  <2>2. QED BY <2>1 DEF Keeps
<1>6. \A n \in said : n \in 1..N /\ N > 0 /\ (doc[n].type = "heading" => IsSaid(doc, source, n))
  BY <1>1 DEF IsSaid
<1>7. ASSUME Accepts(doc), said # {} PROVE Accepts(repaired)
  <2>1. \A n \in 1..N : AcceptsBlock(doc[n])
    BY <1>1, <1>7 DEF Accepts
  <2>2. PICK n \in said : TRUE
    BY <1>7
  <2> HIDE DEF said, repaired
  <2>3. repaired # <<>> /\ Sound(repaired, W)
    BY <1>5, <1>6, <2>1, <2>2
  <2>4. DOMAIN repaired = 1..Len(repaired)
    BY <1>4
  <2>5. QED BY <2>3, <2>4 DEF Accepts, Sound
<1>8. ASSUME NEW n \in said, doc[n].type = "heading"
      PROVE  OccursIn(Spelled(doc[n].text), Spelled(Text(repaired)))
  <2>1. n \in 1..N /\ N > 0 /\ IsSaid(doc, source, n)
    BY <1>6, <1>8
  <2> HIDE DEF repaired
  <2>2. Within(Spelled(doc[n].text), Spelled(Text(repaired)), Values(W))
    BY <1>5, <2>1
  <2>3. OccursIn(doc[n].text, source)
    BY <2>1 DEF IsSaid
  <2>4. doc[n].text \in Seq(W)
    <3>1. doc[n] \in B
      BY <2>1
    <3>2. QED BY <3>1 DEF Block
  <2>5. Text(repaired) \in Seq(W)
    BY <1>4, TextIs
  <2>6. Spelled(doc[n].text) # <<>>
    BY <2>3, <2>4, OccursSays
  <2>7. QED BY <2>2, <2>4, <2>5, <2>6, WithinOccurs
<1>9. QED BY <1>7, <1>8, Zenon DEF RepairsKeep

(* The same for a document that is probed.                                 *)
THEOREM RepairsKeepDocumentForAll ==
  ASSUME probe.of = "document" => \E T : probe.text \in Seq(Block(T))
  PROVE  RepairsKeepDocument
<1> SUFFICES ASSUME probe.of = "document" PROVE RepairsKeep(probe.text, Source)
  BY DEF RepairsKeepDocument
<1>1. PICK T : probe.text \in Seq(Block(T))
  OBVIOUS
<1> DEFINE W == T \cup Digits
<1>2. Digits \subseteq W /\ T \subseteq W
  OBVIOUS
<1>3. Block(T) \subseteq Block(W)
  <2>1. \A A, C : A \subseteq C => Seq(A) \subseteq Seq(C)
    OBVIOUS
  <2>2. Seq(T) \subseteq Seq(W) /\ Seq(Seq(T)) \subseteq Seq(Seq(W))
    <3> HIDE DEF W
    <3>1. QED BY <1>2, <2>1
  <2> HIDE DEF W
  <2>3. QED BY <2>2 DEF Block
<1>4. probe.text \in Seq(Block(W))
  <2> HIDE DEF W
  <2>1. QED BY <1>1, <1>3
<1>5. QED
  <2> HIDE DEF W
  <2>1. QED BY <1>2, <1>4, RepairsKeepHeadings

-----------------------------------------------------------------------------
(* Where the words of a text stand.                                        *)

(* Every position of a set is the n-th for some n. *)
LEMMA NthReaches ==
  ASSUME NEW S \in SUBSET Nat, IsFiniteSet(S), NEW x \in S
  PROVE  \E n \in 1..Cardinality(S) : Nth(S, n) = x
<1> DEFINE N == Cardinality(S)
           f == [n \in 1..N |-> Nth(S, n)]
<1>1. N \in Nat
  BY FS_CardinalityType
<1>2. /\ \A n \in 1..N : Nth(S, n) \in S
      /\ \A m, n \in 1..N : m < n => Nth(S, m) < Nth(S, n)
  BY NthInOrder
<1>3. \A m, n \in 1..N : Nth(S, m) = Nth(S, n) => m = n
  <2> SUFFICES ASSUME NEW m \in 1..N, NEW n \in 1..N, Nth(S, m) = Nth(S, n), m # n
               PROVE  FALSE
    OBVIOUS
  <2>1. m < n \/ n < m
    BY <1>1
  <2>2. Nth(S, m) \in Nat /\ Nth(S, n) \in Nat
    BY <1>2
  <2>3. QED BY <1>2, <2>1, <2>2
<1>4. f \in Injection(1..N, S)
  BY <1>2, <1>3 DEF Injection, IsInjective
<1>5. IsFiniteSet(1..N) /\ Cardinality(1..N) = N
  BY <1>1, FS_Interval
<1>6. f \in Surjection(1..N, S)
  BY <1>4, <1>5, FS_Injection
<1>7. QED BY <1>6 DEF Surjection

(* The words of the text are one blank apart. *)
Spaced(t) == /\ t # <<>> /\ t[1] # Blank /\ t[Len(t)] # Blank
             /\ \A i \in 1..Len(t) - 1 : t[i] = Blank => t[i+1] # Blank

(* A word ends before a blank, and at the end of the text. *)
Ends(t, i) == i = Len(t) + 1 \/ t[i] = Blank

(* The n-th word begins at s[n] and ends before s[n+1] - 1. *)
Stand(s, t, N) ==
  /\ N \in Nat \ {0} /\ s[1] = 1 /\ s[N+1] = Len(t) + 2
  /\ \A n \in 1..N+1 : s[n] \in Nat \ {0}
  /\ \A n \in 1..N : /\ s[n] + 1 < s[n+1] /\ s[n+1] <= Len(t) + 2
                     /\ Ends(t, s[n+1] - 1)
                     /\ \A k \in s[n]..s[n+1]-2 : t[k] # Blank

(* ws are the words of t, and s is where they stand. *)
StandAs(ws, s, t) == /\ t \in Seq(Nat) /\ Stand(s, t, Len(ws)) /\ DOMAIN ws = 1..Len(ws)
                     /\ \A n \in 1..Len(ws) : ws[n] = Part(t, s[n], s[n+1] - 1)

(* Wherever a word opens one of them stands. *)
Opened(s, t, N) == \A i \in 1..Len(t) : t[i] # Blank /\ (i = 1 \/ t[i-1] = Blank)
                     => \E n \in 1..N : s[n] = i

(* Induction from the first number to the last. *)
LEMMA Upwards ==
  ASSUME NEW N \in Nat, NEW P, 1 \in P, \A i \in 1..N-1 : i \in P => i + 1 \in P
  PROVE  \A i \in 1..N : i \in P
<1> DEFINE S == {n \in Nat : n \in 1..N => n \in P}
<1>1. 0 \in S
  OBVIOUS
<1>2. ASSUME NEW n \in Nat, n \in S PROVE n + 1 \in S
  <2>1. CASE n = 0
    BY <2>1
  <2>2. CASE n # 0
    <3>1. n + 1 \in 1..N => n \in 1..N-1 /\ n \in 1..N
      BY <2>2
    <3>2. QED BY <1>2, <3>1
  <2>3. QED BY <2>1, <2>2
<1>3. \A n \in Nat : n \in S
  <2> HIDE DEF S
  <2>1. QED BY <1>1, <1>2, AllNaturals
<1>4. QED BY <1>3

(* The words stand in their order.                                         *)
LEMMA StandInOrder ==
  ASSUME NEW t, NEW s, NEW N, Stand(s, t, N)
  PROVE  \A a, b \in 1..N : a < b => s[a] < s[b]
<1>1. N \in Nat \ {0} /\ \A n \in 1..N : s[n] \in Nat /\ s[n+1] \in Nat /\ s[n] + 1 < s[n+1]
  BY DEF Stand
<1>2. SUFFICES ASSUME NEW a \in 1..N PROVE \A b \in 1..N : a < b => s[a] < s[b]
  OBVIOUS
<1> DEFINE P == {b \in 1..N : a < b => s[a] < s[b]}
<1>3. 1 \in P
  BY <1>1
<1>4. ASSUME NEW b \in 1..N-1, b \in P PROVE b + 1 \in P
  <2> DEFINE c == b + 1
             u == s[a]
             v == s[b]
             w == s[c]
  <2>1. b \in 1..N /\ c \in 1..N /\ (a < c => a = b \/ a < b)
    BY <1>1
  <2>2. u \in Nat /\ v \in Nat /\ w \in Nat /\ v + 1 < w /\ (a = b => u = v)
    BY <1>1, <2>1
  <2>3. a < b => u < v
    BY <1>4
  <2> HIDE DEF u, v, w, c
  <2>4. a < c => u < w
    BY <2>1, <2>2, <2>3
  <2>5. QED BY <2>1, <2>4 DEF u, w, c
<1>5. \A b \in 1..N : b \in P
  <2> HIDE DEF P
  <2>1. QED BY <1>1, <1>3, <1>4, Upwards
<1>6. QED BY <1>5

(* A position and a later one. *)
LEMMA LaterPosition ==
  \A len \in Nat : \A i \in 1..len : \A e \in i..len :
    i \in Nat \ {0} /\ e \in Nat \ {0} /\ i <= e /\ e <= len
OBVIOUS

(* The letters of a part of a text. *)
LEMMA PartLetters ==
  ASSUME NEW t \in Seq(Nat), NEW i \in 1..Len(t)+1, NEW j \in i..Len(t)+1
  PROVE  /\ Part(t, i, j) \in Seq(Nat) /\ Len(Part(t, i, j)) = j - i
         /\ \A q \in 1..j-i : Part(t, i, j)[q] = t[i + q - 1]
<1>1. /\ i \in Int /\ j - 1 \in Int /\ \A q \in i..j-1 : t[q] \in Nat
      /\ i <= j
  OBVIOUS
<1> DEFINE k == j - 1
<1>2. /\ SubSeq(t, i, k) \in Seq(Nat)
      /\ Len(SubSeq(t, i, k)) = IF i <= k THEN k - i + 1 ELSE 0
      /\ \A q \in 1..k-i+1 : SubSeq(t, i, k)[q] = t[i + q - 1]
  <2>1. i \in Int /\ k \in Int /\ \A q \in i..k : t[q] \in Nat
    BY <1>1
  <2> HIDE DEF k
  <2>2. QED BY <2>1, SubSeqProperties
<1> DEFINE s == SubSeq(t, i, k)
<1> HIDE DEF s
<1>3. s \in Seq(Nat) /\ Len(s) = (IF i <= k THEN k - i + 1 ELSE 0)
      /\ \A q \in 1..k-i+1 : s[q] = t[i + q - 1]
  BY <1>2 DEF s
<1>4. k - i + 1 = j - i /\ (i <= k <=> j - i # 0)
  BY <1>1
<1>5. Len(s) = j - i
  BY <1>1, <1>3, <1>4
<1>6. Part(t, i, j) = s
  BY DEF Part, s, k
<1>7. QED BY <1>3, <1>4, <1>5, <1>6

(* strings.Fields finds the words of a text, and all of them.              *)
LEMMA WordsStand ==
  ASSUME NEW t \in Seq(Nat), Spaced(t)
  PROVE  \E s : StandAs(Words(t), s, t) /\ Opened(s, t, Len(Words(t)))
<1> DEFINE open == {i \in DOMAIN t : t[i] # Blank /\ (i = 1 \/ t[i-1] = Blank)}
           close(i) == CHOOSE e \in i..Len(t) :
                         /\ e = Len(t) \/ t[e+1] = Blank
                         /\ \A k \in i..e : t[k] # Blank
           N == Cardinality(open)
           words == [n \in 1..N |-> SubSeq(t, Nth(open, n), close(Nth(open, n)))]
           s == [n \in 1..N+1 |-> IF n = N + 1 THEN Len(t) + 2 ELSE Nth(open, n)]
<1>1. Words(t) = words
  BY Zenon DEF Words
<1>2. Len(t) \in Nat \ {0} /\ DOMAIN t = 1..Len(t)
  BY DEF Spaced
<1>3. /\ open \in SUBSET Nat /\ IsFiniteSet(open) /\ N \in Nat /\ 1 \in open
      /\ \A i : i \in open <=> i \in 1..Len(t) /\ t[i] # Blank /\ (i = 1 \/ t[i-1] = Blank)
  <2>1. open \in SUBSET (1..Len(t)) /\ 1 \in open
        /\ \A i : i \in open <=> i \in 1..Len(t) /\ t[i] # Blank /\ (i = 1 \/ t[i-1] = Blank)
    BY <1>2 DEF Spaced
  <2> HIDE DEF open
  <2>2. IsFiniteSet(1..Len(t))
    BY <1>2, FS_Interval
  <2>3. IsFiniteSet(open)
    BY <2>1, <2>2, FS_Subset
  <2>4. QED BY <2>1, <2>3, FS_CardinalityType
<1> HIDE DEF open
<1>4. ASSUME NEW i \in open
      PROVE  /\ close(i) \in i..Len(t)
             /\ close(i) = Len(t) \/ t[close(i)+1] = Blank
             /\ \A k \in i..close(i) : t[k] # Blank
  <2> DEFINE E == {e \in i..Len(t) : e = Len(t) \/ t[e+1] = Blank}
             e == SmallestOf(E)
  <2>1. i \in 1..Len(t) /\ t[i] # Blank
    BY <1>3
  <2>2. E \in SUBSET Nat /\ Len(t) \in E
    BY <1>2, <2>1
  <2>3. e \in E /\ \A k \in E : e <= k
    BY <2>2, SmallestIsLeast
  <2> HIDE DEF e
  <2>4. e \in i..Len(t) /\ (e = Len(t) \/ t[e+1] = Blank)
    BY <2>3
  <2>9. i \in Nat /\ e \in Nat /\ i <= e /\ e <= Len(t) /\ Len(t) \in Nat
    BY <1>2, <2>1, <2>4, LaterPosition, Zenon
  <2>5. ASSUME NEW k \in i..e, t[k] = Blank PROVE FALSE
    <3>1. k # i
      BY <2>1, <2>5
    <3> DEFINE l == k - 1
    <3>2. k \in i..e
      OBVIOUS
    <3>3. l \in i..Len(t) /\ l < e /\ l + 1 = k /\ l \in Nat
      BY <2>9, <3>1, <3>2
    <3> HIDE DEF l
    <3>4. l \in E
      BY <2>5, <3>3
    <3>5. e <= l
      BY <2>3, <3>4
    <3>6. QED BY <2>9, <3>3, <3>5
  <2>6. \E c \in i..Len(t) : /\ c = Len(t) \/ t[c+1] = Blank
                            /\ \A k \in i..c : t[k] # Blank
    BY <2>4, <2>5
  <2>7. QED BY <2>6, Zenon
<1> HIDE DEF close
<1>5. /\ \A n \in 1..N : Nth(open, n) \in open
      /\ \A m, n \in 1..N : m < n => Nth(open, m) < Nth(open, n)
      /\ \A i \in open : \E n \in 1..N : Nth(open, n) = i
  BY <1>3, NthInOrder, NthReaches
<1> HIDE DEF N
<1>6. N # 0 /\ Nth(open, 1) = 1
  <2>1. PICK n \in 1..N : Nth(open, n) = 1
    BY <1>3, <1>5
  <2>2. N \in Nat \ {0} /\ 1 \in 1..N /\ (n = 1 \/ 1 < n)
    BY <1>3, <2>1
  <2>3. Nth(open, 1) \in Nat /\ Nth(open, 1) # 0
    BY <1>2, <1>3, <1>5, <2>2
  <2>4. QED BY <1>5, <2>1, <2>2, <2>3
<1>7. ASSUME NEW i \in open, close(i) # Len(t)
      PROVE  close(i) + 2 \in open
  <2> DEFINE c == close(i)
  <2>1. c \in 1..Len(t) - 1 /\ t[c+1] = Blank
    <3>1. i \in 1..Len(t) /\ c \in i..Len(t) /\ c # Len(t) /\ t[c+1] = Blank
      BY <1>3, <1>4, <1>7
    <3> HIDE DEF c
    <3>2. c \in Nat \ {0} /\ c <= Len(t) /\ Len(t) \in Nat
      BY <1>2, <3>1, LaterPosition, Zenon
    <3>3. QED BY <3>1, <3>2
  <2> HIDE DEF c
  <2>2. c + 1 # Len(t) /\ c + 1 \in 1..Len(t) - 1 /\ c + 2 \in 1..Len(t)
        /\ (c + 1) + 1 = c + 2 /\ (c + 2) - 1 = c + 1
    <3>1. t[Len(t)] # Blank /\ Len(t) \in Nat
      BY <1>2 DEF Spaced
    <3>2. c + 1 # Len(t)
      BY <2>1, <3>1
    <3>3. QED BY <2>1, <3>1, <3>2
  <2>3. t[c+2] # Blank
    BY <2>1, <2>2 DEF Spaced
  <2>4. QED BY <1>3, <2>1, <2>2, <2>3 DEF c
<1>8. /\ \A n \in 1..N : s[n] = Nth(open, n) /\ s[n] \in open
      /\ s[N+1] = Len(t) + 2
  <2>1. \A n \in 1..N : n # N + 1 /\ n \in 1..N+1
    BY <1>3
  <2>2. N + 1 \in 1..N+1
    BY <1>3
  <2>3. QED BY <1>5, <2>1, <2>2
<1> HIDE DEF s
<1>9. ASSUME NEW n \in 1..N
      PROVE  s[n+1] = close(s[n]) + 2
  <2> DEFINE i == s[n]
             c == close(i)
  <2>1. i \in open /\ i \in 1..Len(t) /\ c \in i..Len(t) /\ i = Nth(open, n)
    BY <1>3, <1>4, <1>8
  <2>2. c # Len(t) => c + 2 \in open
    BY <1>7, <2>1
  <2>3. \A k \in i..c : t[k] # Blank
    BY <1>4, <2>1
  <2> HIDE DEF i, c
  <2>4. i \in Nat /\ c \in Nat /\ i <= c /\ c <= Len(t)
    BY <1>2, <2>1
  <2>5. \A m \in 1..N : Nth(open, m) > i => m > n
    <3> SUFFICES ASSUME NEW m \in 1..N, Nth(open, m) > i, ~(m > n) PROVE FALSE
      OBVIOUS
    <3>1. m = n \/ m < n
      BY <1>3
    <3>2. Nth(open, m) \in Nat
      BY <1>3, <1>5
    <3>3. QED BY <1>5, <2>1, <2>4, <3>1, <3>2
  <2>6. CASE n = N
    <3>1. c = Len(t)
      <4>1. SUFFICES ASSUME c # Len(t) PROVE FALSE
        OBVIOUS
      <4>2. PICK m \in 1..N : Nth(open, m) = c + 2
        BY <1>5, <2>2, <4>1
      <4>3. m > N
        BY <2>4, <2>5, <2>6, <4>2
      <4>4. QED BY <1>3, <4>3
    <3>2. QED BY <1>8, <2>6, <3>1 DEF i, c
  <2>7. CASE n # N
    <3> DEFINE j == s[n+1]
    <3>1. n + 1 \in 1..N /\ n < n + 1
      BY <1>3, <2>7
    <3>2. j = Nth(open, n+1) /\ j \in open /\ i < j
      BY <1>5, <1>8, <2>1, <3>1
    <3>3. j \in 1..Len(t) /\ (j = 1 \/ t[j-1] = Blank)
      BY <1>3, <3>2
    <3> HIDE DEF j
    <3>12. j \in Nat \ {0} /\ j <= Len(t) /\ Len(t) \in Nat /\ i # 0
      BY <1>2, <2>1, <3>3
    <3>4. j - 1 > c
      <4>1. j # 1 /\ j - 1 >= i /\ j - 1 \in Nat
        BY <2>4, <3>2, <3>12
      <4> DEFINE l == j - 1
      <4>2. t[l] = Blank /\ l >= i /\ l \in Nat
        BY <3>3, <4>1
      <4> HIDE DEF l
      <4>3. l \notin i..c
        BY <2>3, <4>2
      <4>4. l > c
        BY <2>4, <4>2, <4>3
      <4>5. QED BY <4>4 DEF l
    <3>5. c # Len(t)
      BY <2>4, <3>12, <3>4
    <3>6. PICK m \in 1..N : Nth(open, m) = c + 2
      BY <1>5, <2>2, <3>5
    <3>7. m > n
      BY <2>4, <2>5, <3>6
    <3>8. m = n + 1 \/ n + 1 < m
      BY <1>3, <3>7
    <3>9. j <= c + 2
      <4>1. c + 2 \in Nat /\ j \in Nat
        BY <2>4, <3>12
      <4>2. QED BY <1>5, <3>1, <3>2, <3>6, <3>8, <4>1
    <3>10. j = c + 2
      BY <2>4, <3>12, <3>4, <3>9
    <3>11. QED BY <3>10 DEF i, j, c
  <2>8. QED BY <2>6, <2>7
<1>10. ASSUME NEW n \in 1..N
       PROVE  /\ s[n] \in Nat \ {0} /\ s[n] + 1 < s[n+1] /\ s[n+1] <= Len(t) + 2
              /\ Ends(t, s[n+1] - 1)
              /\ \A k \in s[n]..s[n+1]-2 : t[k] # Blank
              /\ words[n] = Part(t, s[n], s[n+1] - 1)
  <2> DEFINE i == s[n]
             c == close(i)
             j == s[n+1]
  <2>1. /\ i \in 1..Len(t) /\ c \in i..Len(t) /\ j = c + 2
        /\ c = Len(t) \/ t[c+1] = Blank
        /\ \A k \in i..c : t[k] # Blank
    BY <1>3, <1>4, <1>8, <1>9
  <2>2. words[n] = SubSeq(t, i, c)
    BY <1>8
  <2> HIDE DEF i, j, c, words
  <2>3. /\ i \in Nat \ {0} /\ i + 1 < j /\ j <= Len(t) + 2 /\ j - 1 = c + 1 /\ j - 2 = c
        /\ (j - 1) - 1 = c
    <3>1. i \in Nat \ {0} /\ c \in Nat \ {0} /\ i <= c /\ c <= Len(t) /\ Len(t) \in Nat
      BY <1>2, <2>1, LaterPosition, Zenon
    <3>2. QED BY <2>1, <3>1
  <2>4. Ends(t, j - 1)
    BY <2>1, <2>3 DEF Ends
  <2>5. words[n] = Part(t, i, j - 1)
    BY <2>2, <2>3 DEF Part
  <2>6. QED BY <2>1, <2>3, <2>4, <2>5 DEF i, j
<1>11. Stand(s, t, N)
  <2>1. N \in Nat \ {0} /\ 1 \in 1..N
    BY <1>3, <1>6
  <2>2. s[1] = 1
    BY <1>6, <1>8, <2>1
  <2>3. \A n \in 1..N+1 : n = N + 1 \/ n \in 1..N
    BY <2>1
  <2>4. Len(t) + 2 \in Nat \ {0}
    BY <1>2
  <2>5. \A n \in 1..N+1 : s[n] \in Nat \ {0}
    BY <1>8, <1>10, <2>3, <2>4
  <2>6. QED BY <1>8, <1>10, <2>1, <2>2, <2>5 DEF Stand
<1>12. Len(words) = N /\ DOMAIN words = 1..N
  BY <1>3, FunctionIs
<1>13. \A i \in 1..Len(t) : t[i] # Blank /\ (i = 1 \/ t[i-1] = Blank)
                => \E n \in 1..N : s[n] = i
  BY <1>3, <1>5, <1>8
<1> HIDE DEF words
<1>14. StandAs(words, s, t) /\ Opened(s, t, Len(words))
  BY <1>10, <1>11, <1>12, <1>13 DEF StandAs, Opened
<1>15. QED BY <1>1, <1>14

(* Case folding of one letter. *)
Low(c) == IF c > Cap THEN c - Cap ELSE c

(* A blank has no other case, and is no letter's. *)
LEMMA LowBlank == \A c \in Nat : Low(c) = Blank <=> c = Blank
BY DEF Low, Cap, Blank

(* Two texts are alike in any case when their letters are. *)
LEMMA FoldAlike ==
  ASSUME NEW a \in Seq(Nat), NEW b \in Seq(Nat)
  PROVE  Fold(a) = Fold(b) <=> /\ Len(a) = Len(b)
                               /\ \A q \in 1..Len(a) : Low(a[q]) = Low(b[q])
<1>1. /\ DOMAIN a = 1..Len(a) /\ Len(a) \in Nat
      /\ DOMAIN b = 1..Len(b) /\ Len(b) \in Nat
  OBVIOUS
<1>2. /\ Fold(a) = [q \in 1..Len(a) |-> Low(a[q])]
      /\ Fold(b) = [q \in 1..Len(b) |-> Low(b[q])]
  BY <1>1 DEF Fold, Low
<1>3. ASSUME Fold(a) = Fold(b)
      PROVE  Len(a) = Len(b) /\ \A q \in 1..Len(a) : Low(a[q]) = Low(b[q])
  <2>1. DOMAIN Fold(a) = 1..Len(a) /\ DOMAIN Fold(b) = 1..Len(b)
    BY <1>2
  <2>2. 1..Len(a) = 1..Len(b)
    BY <1>3, <2>1
  <2>3. Len(a) = Len(b)
    BY <1>1, <2>2, SameUpto
  <2>4. \A q \in 1..Len(a) : Fold(a)[q] = Low(a[q]) /\ Fold(b)[q] = Low(b[q])
    BY <1>2, <2>2
  <2>5. QED BY <1>3, <2>3, <2>4
<1>4. ASSUME Len(a) = Len(b), \A q \in 1..Len(a) : Low(a[q]) = Low(b[q])
      PROVE  Fold(a) = Fold(b)
  <2>1. [q \in 1..Len(a) |-> Low(a[q])] = [q \in 1..Len(a) |-> Low(b[q])]
    BY <1>4
  <2>2. QED BY <1>2, <1>4, <2>1
<1>5. QED BY <1>3, <1>4

(* The letters from i on and before j are a part of t. *)
Span(t, i, j) == t \in Seq(Nat) /\ i \in 1..Len(t)+1 /\ j \in i..Len(t)+1

(* Two parts are alike in any case when their letters are. *)
LEMMA PartsAlike ==
  ASSUME NEW t, NEW i, NEW j, Span(t, i, j), NEW h, NEW k, NEW l, Span(h, k, l)
  PROVE  Fold(Part(t, i, j)) = Fold(Part(h, k, l))
           <=> j - i = l - k /\ \A q \in 1..j-i : Low(t[i+q-1]) = Low(h[k+q-1])
<1> DEFINE a == Part(t, i, j)
           b == Part(h, k, l)
<1>1. /\ a \in Seq(Nat) /\ Len(a) = j - i
      /\ \A q \in 1..j-i : a[q] = t[i + q - 1]
  BY PartLetters DEF Span
<1>2. /\ b \in Seq(Nat) /\ Len(b) = l - k
      /\ \A q \in 1..l-k : b[q] = h[k + q - 1]
  BY PartLetters DEF Span
<1> HIDE DEF a, b
<1>3. Fold(a) = Fold(b) <=> Len(a) = Len(b) /\ \A q \in 1..Len(a) : Low(a[q]) = Low(b[q])
  BY <1>1, <1>2, FoldAlike
<1>4. QED BY <1>1, <1>2, <1>3 DEF a, b

(* The phrase h stands in t at p, in any case, letter by letter. *)
Alike(t, h, p) == /\ p + Len(h) - 1 <= Len(t)
                  /\ \A q \in 1..Len(h) : Low(t[p+q-1]) = Low(h[q])

(* That is where strings.Index finds a candidate (replaceWholePhrase). *)
LEMMA OccursIsAlike ==
  ASSUME NEW t \in Seq(Nat), NEW h \in Seq(Nat), NEW p \in 1..Len(t)
  PROVE  Occurs(t, h, p) <=> Alike(t, h, p)
<1>1. Len(t) \in Nat /\ Len(h) \in Nat /\ p \in Nat
  OBVIOUS
<1>2. CASE ~(p + Len(h) - 1 <= Len(t))
  BY <1>2 DEF Occurs, Alike
<1>3. CASE p + Len(h) - 1 <= Len(t)
  <2> DEFINE j == p + Len(h)
             l == Len(h) + 1
             k == 1
  <2>1. /\ p \in 1..Len(t)+1 /\ j \in p..Len(t)+1 /\ k \in 1..Len(h)+1
        /\ l \in k..Len(h)+1 /\ j - p = Len(h) /\ l - k = Len(h)
        /\ j - 1 = p + Len(h) - 1 /\ \A q \in 1..Len(h) : k + q - 1 = q
    BY <1>1, <1>3
  <2>2. Part(h, k, l) = h
    BY PartsOfText
  <2>3. Part(t, p, j) = SubSeq(t, p, p + Len(h) - 1)
    BY <2>1 DEF Part
  <2> HIDE DEF j, l, k
  <2>4. Fold(Part(t, p, j)) = Fold(Part(h, k, l))
          <=> j - p = l - k /\ \A q \in 1..j-p : Low(t[p+q-1]) = Low(h[k+q-1])
    <3>1. Span(t, p, j) /\ Span(h, k, l)
      BY <2>1, Zenon DEF Span
    <3>2. QED BY <3>1, PartsAlike, SMTT(30)
  <2>6. Fold(SubSeq(t, p, p + Len(h) - 1)) = Fold(h)
          <=> \A q \in 1..Len(h) : Low(t[p+q-1]) = Low(h[q])
    BY <2>1, <2>2, <2>3, <2>4
  <2>7. QED BY <1>3, <2>6 DEF Occurs, Alike
<1>4. QED BY <1>2, <1>3

(* Where two candidates overlap, the phrase overlaps itself. *)
LEMMA NoOverlap ==
  ASSUME NEW t \in Seq(Nat), NEW h \in Seq(Nat), ~OverlapsItself(h),
         NEW p \in 1..Len(t), NEW q \in 1..Len(t), p < q, q < p + Len(h),
         Alike(t, h, p), Alike(t, h, q)
  PROVE  FALSE
<1> DEFINE k == p + Len(h) - q
           f == Len(h) - k + 1
           l == Len(h) + 1
           m == k + 1
<1>1. Len(t) \in Nat /\ Len(h) \in Nat /\ p \in Nat /\ q \in Nat
  OBVIOUS
<1>2. /\ k \in 1..Len(h) - 1 /\ 1 \in 1..Len(h)+1 /\ m \in 1..Len(h)+1
      /\ f \in 1..Len(h)+1 /\ l \in f..Len(h)+1 /\ m - 1 = k /\ l - f = k
      /\ l - 1 = Len(h) /\ p + f = q + 1
  <2> DEFINE n == Len(h)
  <2>1. n \in Nat /\ p \in Nat /\ q \in Nat /\ p < q /\ q < p + n
    BY <1>1
  <2> HIDE DEF n, k, f, l, m
  <2>2. k \in Nat /\ k = p + n - q /\ n \in Nat
    BY <2>1 DEF k, n
  <2>3. k \in 1..n-1
    BY <2>1 DEF k, n
  <2> DEFINE e == n - k + 1
  <2>4. /\ 1 \in 1..n+1 /\ k + 1 \in 1..n+1 /\ e \in 1..n+1 /\ n + 1 \in e..n+1
        /\ (k + 1) - 1 = k /\ (n + 1) - e = k /\ (n + 1) - 1 = n /\ p + e = q + 1
    <3>1. k \in Nat /\ n \in Nat /\ 1 <= k /\ k < n
      BY <2>2, <2>3
    <3>2. /\ 1 \in 1..n+1 /\ k + 1 \in 1..n+1 /\ (k + 1) - 1 = k /\ (n + 1) - 1 = n
      BY <3>1
    <3>3. e \in 1..n+1 /\ n + 1 \in e..n+1 /\ (n + 1) - e = k
      BY <3>1
    <3>4. p + e = q + 1
      BY <2>1, <2>2
    <3> HIDE DEF e
    <3>5. QED BY <3>2, <3>3, <3>4
  <2>5. QED BY <2>3, <2>4 DEF n, f, l, m
<1>3. ASSUME NEW x \in 1..k PROVE Low(h[1+x-1]) = Low(h[f+x-1])
  <2>1. x \in 1..Len(h) /\ f+x-1 \in 1..Len(h) /\ p + (f+x-1) - 1 = q + x - 1 /\ 1+x-1 = x
    <3> DEFINE n == Len(h)
    <3>1. /\ n \in Nat /\ p \in Nat /\ q \in Nat /\ k \in 1..n-1 /\ x \in 1..k
          /\ f = n - k + 1 /\ p + f = q + 1
      BY <1>1, <1>2
    <3> HIDE DEF n, k, f
    <3>2. x \in 1..n /\ f+x-1 \in 1..n /\ 1+x-1 = x
      BY <3>1
    <3>3. p + (f+x-1) - 1 = q + x - 1
      BY <3>1
    <3>4. QED BY <3>2, <3>3 DEF n
  <2> DEFINE y == f+x-1
             z == q + x - 1
  <2>2. x \in 1..Len(h) /\ y \in 1..Len(h) /\ p + y - 1 = z /\ z = q + x - 1
    BY <2>1
  <2> HIDE DEF f, y, z
  <2>3. Low(t[z]) = Low(h[x]) /\ Low(t[z]) = Low(h[y])
    BY <2>2 DEF Alike
  <2>4. QED BY <2>1, <2>3 DEF y
<1>4. Fold(Part(h, 1, m)) = Fold(Part(h, f, l))
  <2> HIDE DEF k, f, l, m
  <2> DEFINE o == 1
  <2>1. /\ Span(h, o, m) /\ Span(h, f, l)
        /\ m - o = l - f /\ \A x \in 1..m-o : Low(h[o+x-1]) = Low(h[f+x-1])
    BY <1>2, <1>3, Zenon DEF Span
  <2> HIDE DEF o
  <2>2. Fold(Part(h, o, m)) = Fold(Part(h, f, l))
    BY <2>1, PartsAlike
  <2>3. QED BY <2>2 DEF o
<1>5. Part(h, 1, m) = SubSeq(h, 1, k) /\ Part(h, f, l) = SubSeq(h, Len(h) - k + 1, Len(h))
  BY <1>2, Zenon DEF Part
<1>6. QED BY <1>2, <1>4, <1>5 DEF OverlapsItself

(* What Stand says of one word, in terms of positions.                     *)
LEMMA WordStands ==
  ASSUME NEW t \in Seq(Nat), NEW s, NEW N, Stand(s, t, N), NEW n \in 1..N
  PROVE  /\ n \in 1..N+1 /\ n + 1 \in 1..N+1
         /\ s[n] \in Nat \ {0} /\ s[n+1] \in Nat \ {0}
         /\ s[n] + 1 < s[n+1] /\ s[n+1] <= Len(t) + 2
         /\ Ends(t, s[n+1] - 1)
         /\ \A k \in s[n]..s[n+1]-2 : t[k] # Blank
<1>1. N \in Nat /\ n \in 1..N+1 /\ n + 1 \in 1..N+1
  BY DEF Stand
<1>2. QED BY <1>1 DEF Stand

(* Every position is of a word, or right after one. *)
LEMMA WordsCover ==
  ASSUME NEW t \in Seq(Nat), NEW s, NEW N, Stand(s, t, N), NEW q \in 1..Len(t)+1
  PROVE  \E n \in 1..N : s[n] <= q /\ q < s[n+1]
<1> DEFINE P == {n \in 1..N+1 : \/ q >= s[n]
                                \/ \E k \in 1..N : s[k] <= q /\ q < s[k+1]}
<1>1. N \in Nat \ {0} /\ s[1] = 1 /\ s[N+1] = Len(t) + 2 /\ N + 1 \in 1..N+1
      /\ 1 \in 1..N+1 /\ N + 1 - 1 = N /\ N + 1 \in Nat
  BY DEF Stand
<1>2. q \in Nat /\ q >= 1 /\ q < Len(t) + 2
  OBVIOUS
<1>3. 1 \in P
  BY <1>1, <1>2
<1>4. ASSUME NEW n \in 1..N, n \in P PROVE n + 1 \in P
  <2>1. /\ n + 1 \in 1..N+1 /\ s[n] \in Nat /\ s[n+1] \in Nat
    BY WordStands
  <2>2. CASE q >= s[n+1]
    BY <2>1, <2>2
  <2>3. CASE ~(q >= s[n+1])
    <3>1. q < s[n+1]
      BY <1>2, <2>1, <2>3
    <3>2. \E k \in 1..N : s[k] <= q /\ q < s[k+1]
      <4>1. CASE q >= s[n]
        <5>1. s[n] <= q
          BY <1>2, <2>1, <4>1
        <5>2. QED BY <3>1, <5>1
      <4>2. CASE ~(q >= s[n])
        BY <1>4, <4>2
      <4>3. QED BY <4>1, <4>2
    <3>3. QED BY <2>1, <3>2
  <2>4. QED BY <2>2, <2>3
<1>5. N + 1 \in P
  <2> DEFINE M == N + 1
  <2>1. M \in Nat /\ M \in 1..M /\ M - 1 = N
    BY <1>1
  <2> HIDE DEF M, P
  <2>2. \A i \in 1..M-1 : i \in P => i + 1 \in P
    BY <1>4, <2>1
  <2>3. \A i \in 1..M : i \in P
    BY <1>3, <2>1, <2>2, Upwards
  <2>4. QED BY <2>1, <2>3 DEF M
<1>6. ~(q >= s[N+1])
  BY <1>1, <1>2
<1>7. QED BY <1>5, <1>6

(* The words of the phrase u stand in t, one after the other from the i-th *)
(* of t on, letter by letter (Replaced).                                   *)
InStep(t, s, h, u, m, i) ==
  \A k \in 1..m+1 : s[i+k-1] = s[i] + u[k] - 1

(* Where the phrase stands as a whole, its words are words of the text.    *)
LEMMA WholeInStep ==
  ASSUME NEW t \in Seq(Nat), NEW s, NEW N, Stand(s, t, N),
         NEW h \in Seq(Nat), NEW u, NEW m, Stand(u, h, m), NEW i \in 1..N,
         Alike(t, h, s[i]), IsWhole(t, h, s[i])
  PROVE  i + m - 1 <= N /\ InStep(t, s, h, u, m, i)
<1> DEFINE p == s[i]
           P == {k \in 1..m+1 : i + k - 1 <= N + 1 /\ s[i+k-1] = p + u[k] - 1}
<1>1. /\ N \in Nat \ {0} /\ s[N+1] = Len(t) + 2
      /\ m \in Nat \ {0} /\ u[1] = 1 /\ u[m+1] = Len(h) + 2
      /\ i \in Nat \ {0} /\ i <= N /\ Len(t) \in Nat /\ Len(h) \in Nat
  BY DEF Stand
<1>2. p \in Nat \ {0} /\ p + Len(h) - 1 <= Len(t)
  BY WordStands DEF Alike
<1> HIDE DEF p
<1>3. 1 \in P
  BY <1>1, <1>2 DEF p
<1>4. ASSUME NEW k \in 1..m, k \in P PROVE k + 1 \in P
  <2> DEFINE n == i + k - 1
             a == s[n]
             b == s[n+1]
             v == u[k]
             w == u[k+1]
             c == p + w - 1
  <2>1. /\ v \in Nat \ {0} /\ w \in Nat \ {0} /\ v + 1 < w /\ w <= Len(h) + 2
        /\ Ends(h, w - 1) /\ \A q \in v..w-2 : h[q] # Blank
    BY WordStands
  <2>2. n \in Nat \ {0} /\ n <= N + 1 /\ a = p + v - 1 /\ n + 1 = i + (k + 1) - 1
        /\ k + 1 \in 1..m+1
    BY <1>1, <1>4
  <2> HIDE DEF n
  <2>3. n \in 1..N
    <3>1. a # Len(t) + 2
      <4> HIDE DEF a, v, w
      <4>1. v <= Len(h)
        BY <1>1, <2>1
      <4>2. a <= Len(t)
        BY <1>1, <1>2, <2>1, <2>2, <4>1
      <4>3. QED BY <1>1, <1>2, <2>1, <2>2, <4>2
    <3>2. n # N + 1
      BY <1>1, <3>1
    <3>3. QED BY <1>1, <2>2, <3>2
  <2>4. /\ a \in Nat \ {0} /\ b \in Nat \ {0} /\ a + 1 < b /\ b <= Len(t) + 2
        /\ Ends(t, b - 1) /\ \A q \in a..b-2 : t[q] # Blank
    BY <2>3, WordStands
  <2> HIDE DEF a, b, v, w
  <2>5. ASSUME NEW q \in v..w-2 PROVE ~Ends(t, p + q - 1)
    <3> DEFINE T == Len(t)
               l == Len(h)
               x == p + q - 1
    <3>0. /\ T \in Nat /\ l \in Nat /\ p \in Nat \ {0} /\ p + l - 1 <= T
          /\ v \in Nat \ {0} /\ w \in Nat \ {0} /\ w <= l + 2 /\ q \in v..w-2
      BY <1>1, <1>2, <2>1
    <3> HIDE DEF T, l
    <3>6. q \in 1..l /\ x \in 1..T /\ x # T + 1
      BY <3>0
    <3>1. q \in 1..Len(h) /\ p + q - 1 \in 1..Len(t) /\ p + q - 1 # Len(t) + 1
      BY <3>6 DEF T, l
    <3>2. Low(t[p+q-1]) = Low(h[q])
      BY <3>1 DEF Alike, p
    <3>3. h[q] \in Nat /\ t[p+q-1] \in Nat /\ h[q] # Blank
      <4>1. h[q] # Blank
        BY <2>1
      <4> HIDE DEF x
      <4>2. x \in 1..Len(t) /\ q \in 1..Len(h)
        BY <3>6 DEF T, l
      <4>3. h[q] \in Nat /\ t[x] \in Nat
        BY <4>2
      <4>4. QED BY <4>1, <4>3 DEF x
    <3>4. t[p+q-1] # Blank
      BY <3>2, <3>3, LowBlank
    <3>5. QED BY <3>1, <3>4 DEF Ends
  <2>6. b >= c
    <3>1. SUFFICES ASSUME b < c PROVE FALSE
      BY <1>2, <2>1, <2>4
    <3> DEFINE q == b - p
    <3>2. q \in v..w-2 /\ p + q - 1 = b - 1
      BY <1>2, <2>1, <2>2, <2>4, <3>1
    <3> HIDE DEF q
    <3>3. QED BY <2>4, <2>5, <3>2
  <2>7. Ends(t, c - 1)
    <3>1. CASE w = Len(h) + 2
      <4>1. c - 1 = p + Len(h)
        BY <1>1, <1>2, <3>1
      <4>2. p + Len(h) > Len(t) \/ t[p + Len(h)] = Blank
        BY DEF IsWhole, p
      <4>3. p + Len(h) > Len(t) => p + Len(h) = Len(t) + 1
        BY <1>1, <1>2
      <4>4. QED BY <4>1, <4>2, <4>3 DEF Ends
    <3>2. CASE w # Len(h) + 2
      <4> DEFINE q == w - 1
      <4>1. q \in 1..Len(h) /\ p + q - 1 = c - 1 /\ p + q - 1 \in 1..Len(t) /\ q # Len(h) + 1
        <5>1. /\ w \in Nat /\ 1 < w /\ w <= Len(h) + 2 /\ w # Len(h) + 2
              /\ Len(h) \in Nat /\ Len(t) \in Nat /\ p \in Nat \ {0} /\ p + Len(h) - 1 <= Len(t)
          BY <1>1, <1>2, <2>1, <3>2
        <5> DEFINE l == Len(h)
                   T == Len(t)
        <5>2. /\ w \in Nat /\ 1 < w /\ w <= l + 2 /\ w # l + 2 /\ l \in Nat /\ T \in Nat
              /\ p \in Nat \ {0} /\ p + l - 1 <= T
          BY <5>1
        <5> HIDE DEF l, T
        <5>3. q \in 1..l /\ p + q - 1 = c - 1 /\ q # l + 1
          BY <5>2
        <5>4. p + q - 1 \in 1..T
          BY <5>2
        <5>5. QED BY <5>3, <5>4 DEF l, T
      <4>2. Ends(h, q)
        BY <2>1
      <4> HIDE DEF q, c
      <4>3. h[q] = Blank /\ h[q] \in Nat /\ t[p+q-1] \in Nat
        BY <4>1, <4>2 DEF Ends
      <4>4. Low(t[p+q-1]) = Low(h[q])
        BY <4>1 DEF Alike, p
      <4>5. t[p+q-1] = Blank
        BY <4>3, <4>4, LowBlank
      <4>6. QED BY <4>1, <4>5 DEF Ends
    <3>3. QED BY <3>1, <3>2
  <2>8. c >= b
    <3>1. SUFFICES ASSUME c < b PROVE FALSE
      BY <1>2, <2>1, <2>4
    <3> DEFINE q == c - 1
    <3>2. q \in a..b-2 /\ q # Len(t) + 1 /\ Ends(t, q)
      BY <1>1, <1>2, <2>1, <2>2, <2>4, <2>7, <3>1
    <3> HIDE DEF q
    <3>3. QED BY <2>4, <3>2 DEF Ends
  <2>9. b = c
    BY <1>2, <2>1, <2>4, <2>6, <2>8
  <2>10. n + 1 <= N + 1
    BY <1>1, <2>3
  <2>11. QED
    BY <2>2, <2>9, <2>10 DEF b, w
<1> HIDE DEF P
<1>5. \A k \in 1..m+1 : k \in P
  <2> DEFINE M == m + 1
  <2>1. M \in Nat /\ M - 1 = m
    BY <1>1
  <2> HIDE DEF M
  <2>2. \A k \in 1..M-1 : k \in P => k + 1 \in P
    BY <1>4, <2>1
  <2>3. \A k \in 1..M : k \in P
    BY <1>3, <2>1, <2>2, Upwards
  <2>4. QED BY <2>3 DEF M
<1>6. i + m - 1 <= N
  <2>1. m + 1 \in 1..m+1
    BY <1>1
  <2>2. i + (m + 1) - 1 <= N + 1
    BY <1>5, <2>1 DEF P
  <2>3. QED BY <1>1, <2>2
<1>7. QED BY <1>5, <1>6 DEF P, p, InStep

(* Two words are alike in any case when their letters are. *)
LEMMA WordLetters ==
  ASSUME NEW ws, NEW s, NEW t, StandAs(ws, s, t),
         NEW hs, NEW u, NEW h, StandAs(hs, u, h),
         NEW n \in 1..Len(ws), NEW k \in 1..Len(hs)
  PROVE  Fold(ws[n]) = Fold(hs[k])
           <=> /\ s[n+1] - s[n] = u[k+1] - u[k]
               /\ \A q \in 1..s[n+1]-1-s[n] : Low(t[s[n]+q-1]) = Low(h[u[k]+q-1])
<1> DEFINE a == s[n]
           b == s[n+1] - 1
           c == u[k]
           d == u[k+1] - 1
<1>1. /\ t \in Seq(Nat) /\ Stand(s, t, Len(ws)) /\ h \in Seq(Nat) /\ Stand(u, h, Len(hs))
      /\ ws[n] = Part(t, a, b) /\ hs[k] = Part(h, c, d)
  BY DEF StandAs
<1>2. /\ s[n] \in Nat \ {0} /\ s[n+1] \in Nat \ {0} /\ s[n] + 1 < s[n+1] /\ s[n+1] <= Len(t) + 2
      /\ u[k] \in Nat \ {0} /\ u[k+1] \in Nat \ {0} /\ u[k] + 1 < u[k+1] /\ u[k+1] <= Len(h) + 2
      /\ Len(t) \in Nat /\ Len(h) \in Nat
  <2> DEFINE N == Len(ws)
             m == Len(hs)
  <2>1. Stand(s, t, N) /\ Stand(u, h, m) /\ n \in 1..N /\ k \in 1..m
    BY <1>1
  <2>2. t \in Seq(Nat) /\ h \in Seq(Nat)
    BY <1>1
  <2> HIDE DEF N, m, a, b, c, d
  <2>3. s[n] \in Nat \ {0} /\ s[n+1] \in Nat \ {0} /\ s[n] + 1 < s[n+1] /\ s[n+1] <= Len(t) + 2
    BY <2>1, <2>2, WordStands
  <2>4. u[k] \in Nat \ {0} /\ u[k+1] \in Nat \ {0} /\ u[k] + 1 < u[k+1] /\ u[k+1] <= Len(h) + 2
    BY <2>1, <2>2, WordStands
  <2>5. QED BY <2>2, <2>3, <2>4
<1>3. /\ a \in 1..Len(t)+1 /\ b \in a..Len(t)+1 /\ c \in 1..Len(h)+1 /\ d \in c..Len(h)+1
      /\ (b - a = d - c <=> s[n+1] - s[n] = u[k+1] - u[k])
  <2> DEFINE x == s[n]
             y == s[n+1]
             v == u[k]
             w == u[k+1]
             lt == Len(t)
             lh == Len(h)
  <2>1. /\ x \in Nat \ {0} /\ y \in Nat \ {0} /\ x + 1 < y /\ y <= lt + 2
        /\ v \in Nat \ {0} /\ w \in Nat \ {0} /\ v + 1 < w /\ w <= lh + 2
        /\ lt \in Nat /\ lh \in Nat
    BY <1>2
  <2> HIDE DEF x, y, v, w, lt, lh
  <2>2. /\ x \in 1..lt+1 /\ y - 1 \in x..lt+1 /\ v \in 1..lh+1 /\ w - 1 \in v..lh+1
    BY <2>1
  <2>3. (y - 1) - x = (w - 1) - v <=> y - x = w - v
    BY <2>1
  <2>4. QED BY <2>2, <2>3 DEF x, y, v, w, lt, lh
<1>4. s[n+1] - 1 - s[n] = b - a
  OBVIOUS
<1> HIDE DEF a, b, c, d
<1>5. Span(t, a, b) /\ Span(h, c, d)
  BY <1>1, <1>3, Zenon DEF Span
<1>6. Fold(Part(t, a, b)) = Fold(Part(h, c, d))
        <=> b - a = d - c /\ \A q \in 1..b-a : Low(t[a+q-1]) = Low(h[c+q-1])
  BY <1>5, PartsAlike
<1>7. QED BY <1>1, <1>3, <1>4, <1>6 DEF a, c

(* The words hs stand in ws, in any case, from the i-th on (Replaced).     *)
PhraseAt(ws, hs, i) == /\ i + Len(hs) - 1 <= Len(ws)
                       /\ \A k \in 1..Len(hs) : Fold(ws[i+k-1]) = Fold(hs[k])

(* There is room for the phrase h from the i-th word of t on.              *)
Fits(t, s, N, h, u, m, i) ==
  /\ t \in Seq(Nat) /\ Stand(s, t, N) /\ h \in Seq(Nat) /\ Stand(u, h, m)
  /\ i \in 1..N /\ i + m - 1 <= N

(* What Stand says of the k-th word of a phrase that fits.                 *)
StepAt(t, s, N, h, u, m, i, k) ==
  /\ i + k - 1 \in 1..N /\ (i + k - 1) + 1 = i + (k + 1) - 1 /\ i + (k + 1) - 1 = i + k
  /\ (i + k - 1) + 1 = i + k /\ i \in Nat /\ k \in Nat /\ N \in Nat /\ m \in Nat
  /\ s[i] \in Nat \ {0} /\ s[i+k-1] \in Nat \ {0} /\ s[i+k] \in Nat \ {0}
  /\ s[i+k-1] + 1 < s[i+k] /\ s[i+k] <= Len(t) + 2
  /\ u[k] \in Nat \ {0} /\ u[k+1] \in Nat \ {0} /\ u[k] + 1 < u[k+1]
  /\ u[k+1] <= Len(h) + 2

(* It says so of each of them. *)
LEMMA StepOfPhrase ==
  ASSUME NEW t, NEW s, NEW N, NEW h, NEW u, NEW m, NEW i, Fits(t, s, N, h, u, m, i)
  PROVE  \A k \in 1..m : StepAt(t, s, N, h, u, m, i, k)
<1> TAKE k \in 1..m
<1>0. /\ t \in Seq(Nat) /\ Stand(s, t, N) /\ h \in Seq(Nat) /\ Stand(u, h, m)
      /\ i \in 1..N /\ i + m - 1 <= N
  BY DEF Fits
<1>1. N \in Nat /\ m \in Nat
  BY <1>0 DEF Stand
<1> DEFINE n == i + k - 1
<1>2. /\ n \in 1..N /\ n + 1 = i + (k + 1) - 1 /\ i + (k + 1) - 1 = i + k
      /\ i \in Nat /\ k \in Nat
  BY <1>0, <1>1
<1> HIDE DEF n
<1>3. /\ s[n] \in Nat \ {0} /\ s[n+1] \in Nat \ {0} /\ s[n] + 1 < s[n+1]
      /\ s[n+1] <= Len(t) + 2
  BY <1>0, <1>2, WordStands
<1>4. /\ u[k] \in Nat \ {0} /\ u[k+1] \in Nat \ {0} /\ u[k] + 1 < u[k+1]
      /\ u[k+1] <= Len(h) + 2 /\ s[i] \in Nat \ {0}
  BY <1>0, WordStands
<1>5. s[n+1] = s[i+k]
  BY <1>2
<1>6. QED BY <1>1, <1>2, <1>3, <1>4, <1>5 DEF n, StepAt

(* A phrase that stands as a whole is one by words.                        *)
LEMMA WholeIsPhrase ==
  ASSUME NEW ws, NEW s, NEW t, StandAs(ws, s, t), NEW hs, NEW u, NEW h, StandAs(hs, u, h),
         NEW i \in 1..Len(ws), Alike(t, h, s[i]), IsWhole(t, h, s[i])
  PROVE  PhraseAt(ws, hs, i)
<1> DEFINE N == Len(ws)
           m == Len(hs)
           p == s[i]
<1>1. /\ t \in Seq(Nat) /\ Stand(s, t, N) /\ h \in Seq(Nat) /\ Stand(u, h, m)
  BY DEF StandAs
<1>2. i + m - 1 <= N /\ InStep(t, s, h, u, m, i)
  BY <1>1, WholeInStep
<1>9. Fits(t, s, N, h, u, m, i)
  BY <1>1, <1>2, Zenon DEF Fits
<1> HIDE DEF N, m
<1>3. ASSUME NEW k \in 1..m PROVE Fold(ws[i+k-1]) = Fold(hs[k])
  <2> DEFINE n == i + k - 1
  <2>1. /\ n \in 1..N /\ n + 1 = i + (k + 1) - 1 /\ k \in Nat /\ m \in Nat
        /\ p \in Nat \ {0} /\ s[n] \in Nat \ {0} /\ s[i+k] \in Nat \ {0} /\ i + (k+1) - 1 = i + k
        /\ s[n] + 1 < s[i+k]
        /\ u[k] \in Nat \ {0} /\ u[k+1] \in Nat \ {0} /\ u[k] + 1 < u[k+1]
        /\ u[k+1] <= Len(h) + 2
    <3>0. StepAt(t, s, N, h, u, m, i, k)
      BY <1>9, StepOfPhrase
    <3>1. /\ n \in 1..N /\ n + 1 = i + (k + 1) - 1 /\ k \in Nat /\ m \in Nat
          /\ i + (k+1) - 1 = i + k
      BY <3>0 DEF StepAt
    <3>2. /\ p \in Nat \ {0} /\ s[n] \in Nat \ {0} /\ s[i+k] \in Nat \ {0}
          /\ s[n] + 1 < s[i+k]
      BY <3>0 DEF StepAt
    <3>3. /\ u[k] \in Nat \ {0} /\ u[k+1] \in Nat \ {0} /\ u[k] + 1 < u[k+1]
          /\ u[k+1] <= Len(h) + 2
      BY <3>0 DEF StepAt
    <3>4. QED BY <3>1, <3>2, <3>3
  <2>2. s[n] = p + u[k] - 1
    <3>1. k \in 1..m+1
      BY <2>1
    <3>2. QED BY <1>2, <3>1 DEF InStep
  <2>3. s[n+1] = p + u[k+1] - 1
    <3>1. k + 1 \in 1..m+1
      BY <2>1
    <3>2. QED BY <1>2, <2>1, <3>1 DEF InStep
  <2> DEFINE a == s[n]
             b == s[n+1]
             v == u[k]
             w == u[k+1]
             l == Len(h)
  <2>7. /\ a = p + v - 1 /\ b = p + w - 1 /\ p \in Nat \ {0} /\ v \in Nat \ {0}
        /\ w \in Nat \ {0} /\ w <= l + 2 /\ l \in Nat
    BY <1>1, <2>1, <2>2, <2>3
  <2> HIDE DEF n, p, a, b, v, w, l
  <2>4. b - a = w - v
    BY <2>7
  <2>5. ASSUME NEW q \in 1..b-1-a PROVE Low(t[a+q-1]) = Low(h[v+q-1])
    <3> DEFINE r == v + q - 1
    <3>2. r \in 1..l /\ p + r - 1 = a + q - 1
      BY <2>7
    <3> HIDE DEF r
    <3>3. Low(t[p+r-1]) = Low(h[r])
      BY <3>2 DEF Alike, p, l
    <3>4. QED BY <3>2, <3>3 DEF r
  <2>6. Fold(ws[n]) = Fold(hs[k])
    BY <2>1, <2>4, <2>5, WordLetters DEF N, m, a, b, v, w
  <2>8. QED BY <2>6 DEF n
<1>4. QED BY <1>2, <1>3 DEF PhraseAt, N, m

(* A phrase by words stands as a whole, and reaches to where they end.     *)
LEMMA PhraseIsWhole ==
  ASSUME NEW ws, NEW s, NEW t, StandAs(ws, s, t), NEW hs, NEW u, NEW h, StandAs(hs, u, h),
         NEW i \in 1..Len(ws), PhraseAt(ws, hs, i)
  PROVE  /\ Alike(t, h, s[i]) /\ IsWhole(t, h, s[i])
         /\ i + Len(hs) \in 1..Len(ws)+1 /\ s[i] + Len(h) = s[i + Len(hs)] - 1
<1> DEFINE N == Len(ws)
           m == Len(hs)
           p == s[i]
           P == {k \in 1..m+1 : s[i+k-1] = p + u[k] - 1}
<1>1. /\ t \in Seq(Nat) /\ Stand(s, t, N) /\ h \in Seq(Nat) /\ Stand(u, h, m)
      /\ N \in Nat \ {0} /\ m \in Nat \ {0} /\ i \in Nat \ {0}
      /\ Len(t) \in Nat /\ Len(h) \in Nat /\ u[1] = 1 /\ u[m+1] = Len(h) + 2
  BY DEF StandAs, Stand
<1>2. /\ i + m - 1 <= N
      /\ \A k \in 1..m : Fold(ws[i+k-1]) = Fold(hs[k])
  BY DEF PhraseAt
<1>3. p \in Nat \ {0} /\ p + 1 < s[i+1] /\ s[i+1] <= Len(t) + 2 /\ s[i+1] \in Nat
  BY <1>1, WordStands
<1> HIDE DEF N, m, p
<1>13. Fits(t, s, N, h, u, m, i)
  BY <1>1, <1>2, Zenon DEF Fits, N
<1>4. ASSUME NEW k \in 1..m
      PROVE  /\ s[i+k] - s[i+k-1] = u[k+1] - u[k]
             /\ \A q \in 1..u[k+1]-1-u[k] : Low(t[s[i+k-1]+q-1]) = Low(h[u[k]+q-1])
  <2> DEFINE n == i + k - 1
  <2>1. /\ n \in 1..N /\ n + 1 = i + k
        /\ s[n] \in Nat \ {0} /\ s[i+k] \in Nat \ {0} /\ s[n] + 1 < s[i+k]
        /\ u[k] \in Nat \ {0} /\ u[k+1] \in Nat \ {0} /\ u[k] + 1 < u[k+1]
    <3>1. StepAt(t, s, N, h, u, m, i, k)
      BY <1>13, StepOfPhrase
    <3>2. QED BY <3>1 DEF StepAt
  <2>2. Fold(ws[n]) = Fold(hs[k])
    BY <1>2
  <2> HIDE DEF n
  <2>3. /\ s[n+1] - s[n] = u[k+1] - u[k]
        /\ \A q \in 1..s[n+1]-1-s[n] : Low(t[s[n]+q-1]) = Low(h[u[k]+q-1])
    BY <2>1, <2>2, WordLetters DEF N, m
  <2>4. s[n+1] - 1 - s[n] = u[k+1] - 1 - u[k]
    <3> DEFINE a == s[n]
               b == s[n+1]
               v == u[k]
               w == u[k+1]
    <3>1. a \in Nat /\ b \in Nat /\ v \in Nat /\ w \in Nat /\ b - a = w - v
      BY <2>1, <2>3
    <3> HIDE DEF a, b, v, w
    <3>2. b - 1 - a = w - 1 - v
      BY <3>1
    <3>3. QED BY <3>2 DEF a, b, v, w
  <2>5. QED BY <2>1, <2>3, <2>4 DEF n
<1>5. 1 \in P
  BY <1>1, <1>3 DEF p
<1>6. ASSUME NEW k \in 1..m, k \in P PROVE k + 1 \in P
  <2>1. /\ i + (k + 1) - 1 = i + k /\ k + 1 \in 1..m+1
        /\ s[i+k-1] \in Nat \ {0} /\ s[i+k] \in Nat \ {0}
        /\ u[k] \in Nat \ {0} /\ u[k+1] \in Nat \ {0}
    <3>1. StepAt(t, s, N, h, u, m, i, k)
      BY <1>13, StepOfPhrase
    <3>2. /\ i + (k + 1) - 1 = i + k /\ k \in Nat /\ m \in Nat
          /\ s[i+k-1] \in Nat \ {0} /\ s[i+k] \in Nat \ {0}
          /\ u[k] \in Nat \ {0} /\ u[k+1] \in Nat \ {0}
      BY <3>1 DEF StepAt
    <3>3. QED BY <3>2
  <2>2. s[i+k-1] = p + u[k] - 1
    BY <1>6
  <2>3. s[i+k] - s[i+k-1] = u[k+1] - u[k]
    BY <1>4
  <2>4. s[i+k] = p + u[k+1] - 1
    <3> DEFINE a == s[i+k-1]
               b == s[i+k]
               v == u[k]
               w == u[k+1]
    <3>1. /\ a \in Nat /\ b \in Nat /\ v \in Nat /\ w \in Nat /\ p \in Nat
          /\ b - a = w - v /\ a = p + v - 1
      BY <1>3, <2>1, <2>2, <2>3
    <3> HIDE DEF a, b, v, w
    <3>2. b = p + w - 1
      BY <3>1
    <3>3. QED BY <3>2 DEF b, w
  <2>5. QED BY <2>1, <2>4
<1>7. \A k \in 1..m+1 : s[i+k-1] = p + u[k] - 1
  <2> DEFINE M == m + 1
  <2>1. M \in Nat /\ M - 1 = m
    BY <1>1
  <2> HIDE DEF M, P
  <2>2. \A k \in 1..M-1 : k \in P => k + 1 \in P
    BY <1>6, <2>1
  <2>3. \A k \in 1..M : k \in P
    BY <1>5, <2>1, <2>2, Upwards
  <2>4. QED BY <2>3 DEF M, P
<1>8. i + m \in 1..N+1 /\ s[i+m] = p + Len(h) + 1
  <2>1. m + 1 \in 1..m+1 /\ i + (m + 1) - 1 = i + m /\ i + m \in 1..N+1
    BY <1>1, <1>2
  <2>2. s[i+m] = p + u[m+1] - 1
    BY <1>7, <2>1
  <2>3. p + (Len(h) + 2) - 1 = p + Len(h) + 1
    BY <1>1, <1>3
  <2>4. QED BY <1>1, <2>1, <2>2, <2>3
<1>9. s[i+m] <= Len(t) + 2 /\ Ends(t, s[i+m] - 1)
  <2> DEFINE l == i + m - 1
  <2>1. l \in 1..N /\ l + 1 = i + m
    BY <1>1, <1>2
  <2> HIDE DEF l
  <2>2. s[l+1] <= Len(t) + 2 /\ Ends(t, s[l+1] - 1)
    BY <1>1, <2>1, WordStands
  <2>3. QED BY <2>1, <2>2
<1>10. p + Len(h) - 1 <= Len(t) /\ s[i+m] - 1 = p + Len(h)
  BY <1>1, <1>3, <1>8, <1>9
<1>11. ASSUME NEW q \in 1..Len(h) PROVE Low(t[p+q-1]) = Low(h[q])
  <2>1. q \in 1..Len(h)+1 /\ q \in Nat
    BY <1>1
  <2>2. PICK k \in 1..m : u[k] <= q /\ q < u[k+1]
    BY <1>1, <2>1, WordsCover
  <2>3. k \in 1..m+1 /\ k + 1 \in 1..m+1 /\ i + (k + 1) - 1 = i + k
    BY <1>1
  <2>4. s[i+k-1] = p + u[k] - 1 /\ s[i+k] = p + u[k+1] - 1
    BY <1>7, <2>3
  <2>5. u[k] \in Nat \ {0} /\ u[k+1] \in Nat \ {0} /\ Ends(h, u[k+1] - 1)
    BY <1>1, WordStands
  <2>6. CASE q = u[k+1] - 1
    <3>1. h[q] = Blank
      <4>1. Ends(h, q)
        BY <2>5, <2>6, Zenon
      <4>2. q # Len(h) + 1
        BY <1>1
      <4>3. QED BY <4>1, <4>2 DEF Ends
    <3>2. Ends(t, s[i+k] - 1)
      <4> DEFINE n == i + k - 1
      <4>1. n \in 1..N /\ n + 1 = i + k
        BY <1>1, <1>2
      <4> HIDE DEF n
      <4>2. Ends(t, s[n+1] - 1)
        BY <1>1, <4>1, WordStands
      <4>3. QED BY <4>1, <4>2
    <3>3. s[i+k] - 1 = p + q - 1 /\ p + q - 1 # Len(t) + 1
      <4> DEFINE b == s[i+k]
                 w == u[k+1]
                 l == Len(h)
                 T == Len(t)
      <4>1. /\ w \in Nat \ {0} /\ p \in Nat \ {0} /\ b = p + w - 1 /\ q = w - 1
            /\ l \in Nat /\ T \in Nat /\ p + l - 1 <= T /\ q \in Nat /\ q <= l
        <5>1. w \in Nat \ {0} /\ p \in Nat \ {0} /\ q = w - 1
          BY <1>3, <2>5, <2>6
        <5>2. b = p + w - 1
          BY <2>4
        <5>3. l \in Nat /\ T \in Nat /\ p + l - 1 <= T /\ q \in Nat /\ q <= l
          BY <1>1, <1>10
        <5>4. QED BY <5>1, <5>2, <5>3
      <4> HIDE DEF b, w, l, T
      <4>2. b - 1 = p + q - 1 /\ p + q - 1 # T + 1
        BY <4>1
      <4>3. QED BY <4>2 DEF b, T
    <3>4. Ends(t, p + q - 1)
      BY <3>2, <3>3, Zenon
    <3>5. t[p+q-1] = Blank
      BY <3>3, <3>4 DEF Ends
    <3>6. QED BY <3>1, <3>5
  <2>7. CASE q # u[k+1] - 1
    <3> DEFINE r == q - u[k] + 1
    <3>1. /\ r \in 1..u[k+1]-1-u[k] /\ u[k] + r - 1 = q
          /\ s[i+k-1] + r - 1 = p + q - 1
      <4> DEFINE a == s[i+k-1]
                 v == u[k]
                 w == u[k+1]
      <4>1. /\ v \in Nat \ {0} /\ w \in Nat \ {0} /\ p \in Nat \ {0} /\ a = p + v - 1
            /\ q \in Nat /\ v <= q /\ q < w /\ q # w - 1
        BY <1>3, <2>1, <2>2, <2>4, <2>5, <2>7
      <4> HIDE DEF a, v, w
      <4>2. LET e == q - v + 1 IN
              e \in 1..w-1-v /\ v + e - 1 = q /\ a + e - 1 = p + q - 1
        BY <4>1
      <4>3. QED BY <4>2 DEF a, v, w
    <3> HIDE DEF r
    <3>2. Low(t[s[i+k-1]+r-1]) = Low(h[u[k]+r-1])
      BY <1>4, <3>1
    <3>3. QED BY <3>1, <3>2
  <2>8. QED BY <2>6, <2>7
<1>12. p = 1 \/ t[p-1] = Blank
  <2>1. CASE i = 1
    BY <1>1, <2>1 DEF p, Stand
  <2>2. CASE i # 1
    <3> DEFINE l == i - 1
    <3>1. l \in 1..N /\ l + 1 = i
      BY <1>1, <2>2 DEF N
    <3> HIDE DEF l
    <3>2. Ends(t, s[l+1] - 1)
      BY <1>1, <3>1, WordStands
    <3>3. Ends(t, p - 1)
      BY <3>1, <3>2 DEF p
    <3>4. p - 1 # Len(t) + 1
      BY <1>1, <1>3
    <3>5. QED BY <3>3, <3>4 DEF Ends
  <2>3. QED BY <2>1, <2>2
<1>14. p + Len(h) > Len(t) \/ t[p + Len(h)] = Blank
  <2>1. Ends(t, p + Len(h))
    BY <1>9, <1>10
  <2>2. QED BY <1>1, <1>3, <2>1 DEF Ends
<1>15. Alike(t, h, p) /\ IsWhole(t, h, p)
  BY <1>10, <1>11, <1>12, <1>14 DEF Alike, IsWhole
<1>16. QED BY <1>8, <1>10, <1>15 DEF p, m, N
-----------------------------------------------------------------------------
(* The text f is written from its end, and every jump goes ahead.          *)
Ahead(f, part, next, N, M, S) ==
  /\ FromItsEnd(f, part, next, N, M)
  /\ N \in Nat /\ M \in Nat /\ N < M /\ part \in [1..N -> Seq(S)]
  /\ next \in [1..N -> Nat] /\ \A i \in 1..N : next[i] \in i+1..M

(* What f says at each position.                                           *)
Unfolds(f, part, next, N, M, S) ==
  /\ f \in [1..M -> Seq(S)]
  /\ \A i \in 1..N : f[i] = part[i] \o f[next[i]]
  /\ \A i \in 1..M : i > N => f[i] = <<>>

(* A text that is written from its end is one from every position.         *)
LEMMA FromItsEndIs ==
  ASSUME NEW S, NEW N, NEW M, NEW part, NEW next, NEW f, Ahead(f, part, next, N, M, S)
  PROVE  Unfolds(f, part, next, N, M, S)
<1>0. /\ N \in Nat /\ M \in Nat /\ N < M /\ part \in [1..N -> Seq(S)]
      /\ next \in [1..N -> Nat] /\ \A i \in 1..N : next[i] \in i+1..M
  BY DEF Ahead
<1>1. f = [i \in 1..M |-> IF i > N THEN <<>> ELSE part[i] \o f[next[i]]]
  BY Zenon DEF FromItsEnd, Ahead
<1>2. /\ \A i \in 1..N : i \in 1..M /\ ~(i > N)
      /\ \A i \in 1..M : i > N \/ i \in 1..N
  BY <1>0
<1>3. \A i \in 1..N : f[i] = part[i] \o f[next[i]]
  BY <1>1, <1>2
<1>4. \A i \in 1..M : i > N => f[i] = <<>>
  BY <1>1
<1> DEFINE P == {i \in 1..M : f[i] \in Seq(S)}
<1>5. ASSUME NEW i \in 1..M, \A j \in i+1..M : j \in P PROVE f[i] \in Seq(S)
  <2>1. CASE i > N
    <3>1. f[i] = <<>>
      BY <1>4, <2>1
    <3>2. QED BY <3>1
  <2>2. CASE ~(i > N)
    <3> DEFINE g == part[i]
               k == next[i]
    <3>1. i \in 1..N
      BY <1>2, <2>2
    <3>2. g \in Seq(S) /\ k \in i+1..M
      BY <1>0, <3>1
    <3>3. f[i] = g \o f[k]
      BY <1>3, <3>1
    <3>4. f[k] \in Seq(S)
      BY <1>5, <3>2
    <3> HIDE DEF g, k
    <3>5. QED BY <3>2, <3>3, <3>4, ConcatProperties
  <2>3. QED BY <2>1, <2>2
<1>6. \A i \in 1..M : i \in P
  <2>1. \A i \in 1..M : (\A j \in i+1..M : j \in P) => i \in P
    BY <1>5
  <2> HIDE DEF P
  <2>2. QED BY <1>0, <2>1, Downwards
<1>7. f \in [1..M -> Seq(S)]
  <2>1. f = [i \in 1..M |-> f[i]]
    BY <1>1
  <2>2. QED BY <1>6, <2>1
<1>8. QED BY <1>3, <1>4, <1>7 DEF Unfolds

(* What replaceWholePhrase makes of the text from each position on.        *)
Rewritten(f, t, h, r) ==
  /\ f \in [1..Len(t)+1 -> Seq(Nat)]
  /\ ReplaceWholePhrase(t, h, r) = f[1] /\ f[Len(t)+1] = <<>>
  /\ \A i \in 1..Len(t) :
       f[i] = IF Occurs(t, h, i)
              THEN (IF IsWhole(t, h, i) THEN r ELSE Part(t, i, i + Len(h))) \o f[i+Len(h)]
              ELSE <<t[i]>> \o f[i+1]

(* The loop writes such texts (replaceWholePhrase).                        *)
LEMMA ReplaceIs ==
  ASSUME NEW t \in Seq(Nat), NEW h \in Seq(Nat), h # <<>>, NEW r \in Seq(Nat)
  PROVE  \E f : Rewritten(f, t, h, r)
<1> DEFINE N == Len(t)
           M == N + 1
           n == Len(h)
           Round(f, i) ==
             IF i > Len(t) THEN <<>>
             ELSE IF Occurs(t, h, i)
               THEN (IF IsWhole(t, h, i) THEN r ELSE SubSeq(t, i, i + Len(h) - 1))
                    \o f[i + Len(h)]
               ELSE <<t[i]>> \o f[i+1]
           rest == CHOOSE f : f = [i \in 1..Len(t) + 1 |-> Round(f, i)]
           part == [i \in 1..N |->
                      IF Occurs(t, h, i)
                      THEN IF IsWhole(t, h, i) THEN r ELSE Part(t, i, i + n)
                      ELSE <<t[i]>>]
           next == [i \in 1..N |-> IF Occurs(t, h, i) THEN i + n ELSE i + 1]
           IsRest(g) == g = [i \in 1..M |-> Round(g, i)]
<1>1. ReplaceWholePhrase(t, h, r) = rest[1]
  BY Zenon DEF ReplaceWholePhrase
<1>2. N \in Nat /\ M \in Nat /\ N < M /\ M = N + 1 /\ n \in Nat \ {0}
  OBVIOUS
<1>3. ASSUME NEW i \in 1..N, Occurs(t, h, i)
      PROVE  /\ i + n \in i+1..M /\ Part(t, i, i + n) \in Seq(Nat)
             /\ SubSeq(t, i, i + n - 1) = Part(t, i, i + n)
  <2>1. i + n - 1 <= N
    BY <1>3 DEF Occurs
  <2>2. i + n \in i+1..M /\ i + n \in i..Len(t)+1 /\ i \in 1..Len(t)+1
    BY <1>2, <2>1
  <2>3. Part(t, i, i + n) \in Seq(Nat)
    <3> DEFINE j == i + n
    <3>1. j \in i..Len(t)+1 /\ i \in 1..Len(t)+1
      BY <2>2
    <3> HIDE DEF j
    <3>2. Part(t, i, j) \in Seq(Nat)
      BY <3>1, PartLetters
    <3>3. QED BY <3>2 DEF j
  <2>4. SubSeq(t, i, i + n - 1) = Part(t, i, i + n)
    BY DEF Part
  <2>5. QED BY <2>2, <2>3, <2>4
<1>4. \A i \in 1..N : t[i] \in Nat /\ <<t[i]>> \in Seq(Nat) /\ i + 1 \in i+1..M
  OBVIOUS
<1>5. /\ part \in [1..N -> Seq(Nat)] /\ next \in [1..N -> Nat]
      /\ \A i \in 1..N : next[i] \in i+1..M
  <2>1. ASSUME NEW i \in 1..N
        PROVE  (IF Occurs(t, h, i)
                THEN IF IsWhole(t, h, i) THEN r ELSE Part(t, i, i + n)
                ELSE <<t[i]>>) \in Seq(Nat)
    <3> HIDE DEF N, n, M
    <3>1. QED BY <1>3, <1>4
  <2>2. ASSUME NEW i \in 1..N
        PROVE  (IF Occurs(t, h, i) THEN i + n ELSE i + 1) \in i+1..M
    <3> HIDE DEF N, n, M
    <3>1. QED BY <1>3, <1>4
  <2>3. \A i \in 1..N : \A j \in i+1..M : j \in Nat
    BY <1>2
  <2> HIDE DEF N, n, M
  <2>4. QED BY <2>1, <2>2, <2>3
<1>6. /\ \A i \in 1..N : part[i] = IF Occurs(t, h, i)
                                   THEN IF IsWhole(t, h, i) THEN r ELSE Part(t, i, i + n)
                                   ELSE <<t[i]>>
      /\ \A i \in 1..N : next[i] = IF Occurs(t, h, i) THEN i + n ELSE i + 1
  OBVIOUS
<1>7. \A i \in 1..M : i > N \/ i \in 1..N
  BY <1>2
<1>8. ASSUME NEW f, NEW i \in 1..M
      PROVE  Round(f, i) = IF i > N THEN <<>> ELSE part[i] \o f[next[i]]
  <2>1. CASE i > N
    BY <2>1
  <2>2. CASE ~(i > N)
    <3>1. i \in 1..N
      BY <1>7, <2>2
    <3>2. CASE Occurs(t, h, i)
      <4>1. part[i] = (IF IsWhole(t, h, i) THEN r ELSE Part(t, i, i + n)) /\ next[i] = i + n
        BY <1>6, <3>1, <3>2
      <4>2. Round(f, i) = (IF IsWhole(t, h, i) THEN r ELSE SubSeq(t, i, i + n - 1)) \o f[i + n]
        BY <2>2, <3>2
      <4>3. SubSeq(t, i, i + n - 1) = Part(t, i, i + n)
        BY <1>3, <3>1, <3>2
      <4> HIDE DEF Round, part, next, N, M, n
      <4>4. Round(f, i) = part[i] \o f[next[i]]
        BY <4>1, <4>2, <4>3, Zenon
      <4>5. QED BY <2>2, <4>4
    <3>3. CASE ~Occurs(t, h, i)
      <4>1. part[i] = <<t[i]>> /\ next[i] = i + 1
        BY <1>6, <3>1, <3>3
      <4>2. Round(f, i) = <<t[i]>> \o f[i+1]
        BY <2>2, <3>3
      <4> HIDE DEF Round, part, next, N, M, n
      <4>4. Round(f, i) = part[i] \o f[next[i]]
        BY <4>1, <4>2, Zenon
      <4>5. QED BY <2>2, <4>4
    <3>4. QED BY <3>2, <3>3
  <2>3. QED BY <2>1, <2>2
<1>9. rest = CHOOSE g : IsRest(g)
  OBVIOUS
<1> HIDE DEF part, next, N, M, Round, n
<1>10. \A g : IsRest(g) <=> FromItsEnd(g, part, next, N, M)
  BY <1>8, Zenon DEF FromItsEnd
<1>11. \E f : FromItsEnd(f, part, next, N, M)
  BY <1>2, <1>5, JumpsExist
<1> HIDE DEF rest, IsRest
<1> DEFINE S == Nat
<1>12. Ahead(rest, part, next, N, M, S)
  BY <1>2, <1>5, <1>9, <1>10, <1>11, Zenon DEF Ahead
<1>13. /\ rest \in [1..M -> Seq(Nat)]
       /\ \A i \in 1..N : rest[i] = part[i] \o rest[next[i]]
       /\ \A i \in 1..M : i > N => rest[i] = <<>>
  <2> HIDE DEF S
  <2>1. /\ rest \in [1..M -> Seq(S)]
        /\ \A i \in 1..N : rest[i] = part[i] \o rest[next[i]]
        /\ \A i \in 1..M : i > N => rest[i] = <<>>
    <3>1. Unfolds(rest, part, next, N, M, S)
      BY <1>12, FromItsEndIs
    <3>2. QED BY <3>1, Zenon DEF Unfolds
  <2>2. QED BY <2>1 DEF S
<1>14. \A i \in 1..N :
       rest[i] = IF Occurs(t, h, i)
              THEN (IF IsWhole(t, h, i) THEN r ELSE Part(t, i, i + n)) \o rest[i+n]
              ELSE <<t[i]>> \o rest[i+1]
  <2> TAKE i \in 1..N
  <2>1. CASE Occurs(t, h, i)
    <3>1. part[i] = (IF IsWhole(t, h, i) THEN r ELSE Part(t, i, i + n)) /\ next[i] = i + n
      BY <1>6, <2>1
    <3>2. rest[i] = (IF IsWhole(t, h, i) THEN r ELSE Part(t, i, i + n)) \o rest[i+n]
      BY <1>13, <3>1, Zenon
    <3>3. QED BY <2>1, <3>2, Zenon
  <2>2. CASE ~Occurs(t, h, i)
    <3>1. part[i] = <<t[i]>> /\ next[i] = i + 1
      BY <1>6, <2>2
    <3>2. rest[i] = <<t[i]>> \o rest[i+1]
      BY <1>13, <3>1, Zenon
    <3>3. QED BY <2>2, <3>2, Zenon
  <2>3. QED BY <2>1, <2>2
<1>15. rest[M] = <<>>
  BY <1>2, <1>13
<1>16. Rewritten(rest, t, h, r)
  BY <1>1, <1>13, <1>14, <1>15, Zenon DEF Rewritten, N, M, n
<1>17. QED BY <1>16

(* What Replaced makes of the words from each one on.                      *)
Reworded(f, ws, hs, r) ==
  /\ f \in [1..Len(ws)+Len(hs) -> Seq(Seq(Nat))]
  /\ Replaced(ws, hs, r) = f[1]
  /\ \A i \in 1..Len(ws)+Len(hs) : i > Len(ws) => f[i] = <<>>
  /\ \A i \in 1..Len(ws) :
       f[i] = IF PhraseAt(ws, hs, i) THEN <<r>> \o f[i+Len(hs)] ELSE <<ws[i]>> \o f[i+1]

(* Replaced writes such lists. *)
LEMMA ReplacedIs ==
  ASSUME NEW ws \in Seq(Seq(Nat)), NEW hs \in Seq(Seq(Nat)), hs # <<>>, NEW r \in Seq(Nat)
  PROVE  \E f : Reworded(f, ws, hs, r)
<1> DEFINE N == Len(ws)
           n == Len(hs)
           M == N + n
           at(i) == /\ i + n - 1 <= Len(ws)
                    /\ \A k \in 1..n : Fold(ws[i + k - 1]) = Fold(hs[k])
           Round(f, i) ==
             IF i > Len(ws) THEN <<>>
             ELSE IF at(i) THEN <<r>> \o f[i + n] ELSE <<ws[i]>> \o f[i+1]
           rest == CHOOSE f : f = [i \in 1..Len(ws) + n |-> Round(f, i)]
           part == [i \in 1..N |-> IF PhraseAt(ws, hs, i) THEN <<r>> ELSE <<ws[i]>>]
           next == [i \in 1..N |-> IF PhraseAt(ws, hs, i) THEN i + n ELSE i + 1]
           IsRest(g) == g = [i \in 1..M |-> Round(g, i)]
           S == Seq(Nat)
<1>1. Replaced(ws, hs, r) = rest[1]
  BY Zenon DEF Replaced
<1>2. N \in Nat /\ M \in Nat /\ N < M /\ n \in Nat \ {0} /\ M = N + n
  OBVIOUS
<1>3. \A i \in 1..N : at(i) <=> PhraseAt(ws, hs, i)
  BY Zenon DEF PhraseAt
<1>4. /\ \A i \in 1..N : ws[i] \in S
      /\ r \in S
  OBVIOUS
<1> HIDE DEF N, n, M, at, S
<1>5. /\ part \in [1..N -> Seq(S)] /\ next \in [1..N -> Nat]
      /\ \A i \in 1..N : next[i] \in i+1..M
  <2>1. \A i \in 1..N : i + n \in i+1..M /\ i + 1 \in i+1..M
    BY <1>2
  <2>2. \A i \in 1..N : \A j \in i+1..M : j \in Nat
    BY <1>2
  <2>3. \A i \in 1..N : (IF PhraseAt(ws, hs, i) THEN i + n ELSE i + 1) \in i+1..M
    BY <2>1
  <2>4. \A i \in 1..N : (IF PhraseAt(ws, hs, i) THEN <<r>> ELSE <<ws[i]>>) \in Seq(S)
    BY <1>4
  <2>5. QED BY <2>2, <2>3, <2>4
<1>6. /\ \A i \in 1..N : part[i] = IF PhraseAt(ws, hs, i) THEN <<r>> ELSE <<ws[i]>>
      /\ \A i \in 1..N : next[i] = IF PhraseAt(ws, hs, i) THEN i + n ELSE i + 1
  OBVIOUS
<1>7. \A i \in 1..M : i > N \/ i \in 1..N
  BY <1>2
<1> HIDE DEF part, next
<1>8. ASSUME NEW f, NEW i \in 1..M
      PROVE  Round(f, i) = IF i > N THEN <<>> ELSE part[i] \o f[next[i]]
  <2>1. CASE i > N
    BY <2>1 DEF N
  <2>2. CASE ~(i > N)
    <3>1. i \in 1..N
      BY <1>7, <2>2
    <3>2. CASE PhraseAt(ws, hs, i)
      <4>1. part[i] = <<r>> /\ next[i] = i + n /\ at(i)
        BY <1>3, <1>6, <3>1, <3>2
      <4>2. Round(f, i) = <<r>> \o f[i + n]
        BY <2>2, <4>1 DEF N
      <4> HIDE DEF Round
      <4>4. Round(f, i) = part[i] \o f[next[i]]
        BY <4>1, <4>2, Zenon
      <4>5. QED BY <2>2, <4>4
    <3>3. CASE ~PhraseAt(ws, hs, i)
      <4>1. part[i] = <<ws[i]>> /\ next[i] = i + 1 /\ ~at(i)
        BY <1>3, <1>6, <3>1, <3>3
      <4>2. Round(f, i) = <<ws[i]>> \o f[i+1]
        BY <2>2, <4>1 DEF N
      <4> HIDE DEF Round
      <4>4. Round(f, i) = part[i] \o f[next[i]]
        BY <4>1, <4>2, Zenon
      <4>5. QED BY <2>2, <4>4
    <3>4. QED BY <3>2, <3>3
  <2>3. QED BY <2>1, <2>2
<1>9. rest = CHOOSE g : IsRest(g)
  BY Zenon DEF M, N
<1> HIDE DEF Round
<1>10. \A g : IsRest(g) <=> FromItsEnd(g, part, next, N, M)
  BY <1>8, Zenon DEF FromItsEnd
<1>11. \E f : FromItsEnd(f, part, next, N, M)
  BY <1>2, <1>5, JumpsExist
<1> HIDE DEF rest, IsRest
<1>12. Ahead(rest, part, next, N, M, S)
  BY <1>2, <1>5, <1>9, <1>10, <1>11, Zenon DEF Ahead
<1>13. Unfolds(rest, part, next, N, M, S)
  BY <1>12, FromItsEndIs
<1>14. /\ rest \in [1..M -> Seq(S)]
       /\ \A i \in 1..N : rest[i] = part[i] \o rest[next[i]]
       /\ \A i \in 1..M : i > N => rest[i] = <<>>
  BY <1>13, Zenon DEF Unfolds
<1>15. \A i \in 1..N :
       rest[i] = IF PhraseAt(ws, hs, i) THEN <<r>> \o rest[i+n] ELSE <<ws[i]>> \o rest[i+1]
  <2> TAKE i \in 1..N
  <2>1. CASE PhraseAt(ws, hs, i)
    <3>1. part[i] = <<r>> /\ next[i] = i + n
      BY <1>6, <2>1
    <3>2. rest[i] = <<r>> \o rest[i+n]
      BY <1>14, <3>1, Zenon
    <3>3. QED BY <2>1, <3>2, Zenon
  <2>2. CASE ~PhraseAt(ws, hs, i)
    <3>1. part[i] = <<ws[i]>> /\ next[i] = i + 1
      BY <1>6, <2>2
    <3>2. rest[i] = <<ws[i]>> \o rest[i+1]
      BY <1>14, <3>1, Zenon
    <3>3. QED BY <2>2, <3>2, Zenon
  <2>3. QED BY <2>1, <2>2
<1>16. Reworded(rest, ws, hs, r)
  BY <1>1, <1>14, <1>15, Zenon DEF Reworded, N, M, n, S
<1>17. QED BY <1>16

-----------------------------------------------------------------------------
(* Three texts in a row. *)
LEMMA ConcatOfTexts == \A x, y, z \in Seq(Nat) : (x \o y) \o z = x \o (y \o z)
<1> DEFINE T == Nat
<1> HIDE DEF T
<1>1. \A x, y, z \in Seq(T) : (x \o y) \o z = x \o (y \o z)
  BY ConcatAssociative
<1>2. QED BY <1>1 DEF T

(* A whole phrase begins at p. *)
Whole(t, h, p) == p \in 1..Len(t) /\ Alike(t, h, p) /\ IsWhole(t, h, p)

(* No whole phrase begins from p on and before q. *)
NoneBefore(t, h, p, q) == \A x \in p..q-1 : ~Whole(t, h, x)

(* Before a candidate, and before the end, the text is kept.               *)
LEMMA KeptUptoOne ==
  ASSUME NEW t \in Seq(Nat), NEW h \in Seq(Nat), h # <<>>, ~OverlapsItself(h),
         NEW r \in Seq(Nat), NEW f, Rewritten(f, t, h, r), NEW q \in 1..Len(t)+1,
         q = Len(t) + 1 \/ Whole(t, h, q)
  PROVE  \A p \in 1..q : NoneBefore(t, h, p, q) => f[p] = Part(t, p, q) \o f[q]
<1> DEFINE n == Len(h)
           L == Len(t)
           P == {p \in 1..q : NoneBefore(t, h, p, q) => f[p] = Part(t, p, q) \o f[q]}
<1>1. n \in Nat \ {0} /\ L \in Nat /\ q \in Nat \ {0} /\ q <= L + 1
  OBVIOUS
<1>2. \A p \in 1..L+1 : f[p] \in Seq(Nat)
  BY DEF Rewritten
<1>3. \A p \in 1..L :
       f[p] = IF Occurs(t, h, p)
              THEN (IF IsWhole(t, h, p) THEN r ELSE Part(t, p, p + n)) \o f[p+n]
              ELSE <<t[p]>> \o f[p+1]
  BY DEF Rewritten
<1>4. \A p \in 1..q : p \in 1..L+1 /\ q \in p..L+1
  BY <1>1
<1> HIDE DEF n, L
<1>5. ASSUME NEW p \in 1..q, \A k \in p+1..q : k \in P, NoneBefore(t, h, p, q)
      PROVE  f[p] = Part(t, p, q) \o f[q]
  <2>1. CASE p = q
    <3>1. Part(t, q, q) = <<>>
      BY PartsOfText DEF L
    <3>2. <<>> \o f[q] = f[q]
      BY <1>2, <1>4, ConcatEmptySeq
    <3>3. QED BY <2>1, <3>1, <3>2
  <2>2. CASE p # q
    <3>1. p \in 1..L /\ p \in Nat /\ p < q /\ p \in p..q-1
      BY <1>1, <2>2
    <3>2. ~Whole(t, h, p)
      BY <1>5, <3>1 DEF NoneBefore
    <3>3. ASSUME NEW k \in p+1..q, f[p] = Part(t, p, k) \o f[k]
          PROVE  f[p] = Part(t, p, q) \o f[q]
      <4>1. k \in 1..L+1 /\ k \in p..L+1 /\ p \in 1..L+1 /\ q \in k..L+1 /\ k \in 1..q
        BY <1>1, <3>1
      <4>2. \A x \in k..q-1 : x \in p..q-1
        BY <1>1, <3>1
      <4>3. NoneBefore(t, h, k, q)
        BY <1>5, <4>2 DEF NoneBefore
      <4>4. f[k] = Part(t, k, q) \o f[q]
        BY <1>5, <4>3
      <4> DEFINE a == Part(t, p, k)
      <4>5. /\ a \in Seq(Nat) /\ Part(t, k, q) \in Seq(Nat) /\ f[q] \in Seq(Nat)
            /\ a \o Part(t, k, q) = Part(t, p, q)
        <5>1. Part(t, p, k) \in Seq(Nat) /\ Part(t, p, k) \o Part(t, k, q) = Part(t, p, q)
          BY <4>1, PartsJoin DEF L
        <5>2. Part(t, k, q) \in Seq(Nat)
          BY <4>1, PartLetters DEF L
        <5>3. QED BY <1>2, <1>4, <3>3, <5>1, <5>2
      <4> DEFINE b == Part(t, k, q)
                 c == f[q]
      <4>6. a \in Seq(Nat) /\ b \in Seq(Nat) /\ c \in Seq(Nat)
        BY <4>5
      <4> HIDE DEF a, b, c
      <4>7. (a \o b) \o c = a \o (b \o c)
        <5> DEFINE V == Seq(Nat)
        <5>1. a \in V /\ b \in V /\ c \in V
          BY <4>6
        <5>2. \A x, y, z \in V : (x \o y) \o z = x \o (y \o z)
          BY ConcatOfTexts
        <5> HIDE DEF V
        <5>3. QED BY <5>1, <5>2
      <4>8. QED BY <3>3, <4>4, <4>5, <4>7, Zenon DEF a, b, c
    <3>4. CASE Occurs(t, h, p)
      <4>1. Alike(t, h, p)
        BY <3>1, <3>4, OccursIsAlike DEF L
      <4>2. ~IsWhole(t, h, p)
        BY <3>1, <3>2, <4>1 DEF Whole, L
      <4>3. f[p] = Part(t, p, p + n) \o f[p+n]
        BY <1>3, <3>1, <3>4, <4>2
      <4>4. p + n <= q
        <5>1. CASE q = L + 1
          <6>1. p + n - 1 <= L
            BY <4>1 DEF Alike, n, L
          <6>2. QED BY <1>1, <3>1, <5>1, <6>1
        <5>2. CASE Whole(t, h, q)
          <6>1. q \in 1..L /\ Alike(t, h, q)
            BY <5>2 DEF Whole, L
          <6>2. ~(q < p + n)
            BY <3>1, <4>1, <6>1, NoOverlap DEF n, L
          <6>3. QED BY <1>1, <3>1, <6>2
        <5>3. QED BY <5>1, <5>2 DEF L
      <4> DEFINE k == p + n
      <4>5. k \in p+1..q
        BY <1>1, <3>1, <4>4
      <4> HIDE DEF k
      <4>6. QED BY <3>3, <4>3, <4>5 DEF k
    <3>5. CASE ~Occurs(t, h, p)
      <4> DEFINE k == p + 1
      <4>1. k \in p+1..q
        BY <1>1, <3>1
      <4>2. Part(t, p, k) = <<t[p]>>
        BY <3>1, PartsOfText DEF L
      <4>3. f[p] = Part(t, p, k) \o f[k]
        BY <1>3, <3>1, <3>5, <4>2
      <4> HIDE DEF k
      <4>4. QED BY <3>3, <4>1, <4>3
    <3>6. QED BY <3>4, <3>5
  <2>3. QED BY <2>1, <2>2
<1>6. \A p \in 1..q : p \in P
  <2>1. \A p \in 1..q : (\A k \in p+1..q : k \in P) => p \in P
    BY <1>5
  <2> HIDE DEF P
  <2>2. QED BY <1>1, <2>1, Downwards
<1>7. QED BY <1>6

(* Where no whole phrase begins the text is kept.                          *)
LEMMA Kept ==
  ASSUME NEW t \in Seq(Nat), NEW h \in Seq(Nat), h # <<>>, ~OverlapsItself(h),
         NEW r \in Seq(Nat), NEW f, Rewritten(f, t, h, r),
         NEW j \in 1..Len(t)+1, NEW p \in 1..j, NoneBefore(t, h, p, j)
  PROVE  f[p] = Part(t, p, j) \o f[j]
<1> DEFINE L == Len(t)
           Q == {x \in j..L+1 : x = L + 1 \/ Whole(t, h, x)}
           q == SmallestOf(Q)
<1>1. L \in Nat /\ j \in Nat \ {0} /\ p \in Nat \ {0} /\ j <= L + 1 /\ p <= j
  OBVIOUS
<1>2. Q \in SUBSET Nat /\ L + 1 \in Q
  BY <1>1
<1>3. q \in Q /\ \A x \in Q : q <= x
  BY <1>2, SmallestIsLeast
<1> HIDE DEF q
<1>4. q \in j..L+1 /\ (q = L + 1 \/ Whole(t, h, q))
  BY <1>3
<1>5. ASSUME NEW x \in j..q-1 PROVE ~Whole(t, h, x)
  <2>1. x \in j..L+1 /\ ~(q <= x)
    BY <1>1, <1>4
  <2>2. x \notin Q
    BY <1>3, <2>1
  <2>3. QED BY <2>1, <2>2
<1> HIDE DEF Q
<1>6. NoneBefore(t, h, j, q) /\ NoneBefore(t, h, p, q)
  <2>1. \A x \in p..q-1 : x \in p..j-1 \/ x \in j..q-1
    BY <1>1, <1>4
  <2>2. QED BY <1>5, <2>1 DEF NoneBefore
<1>7. q \in 1..L+1 /\ j \in 1..q /\ p \in 1..q /\ p \in 1..L+1 /\ j \in p..L+1
  BY <1>1, <1>4
<1>8. \A x \in 1..q : NoneBefore(t, h, x, q) => f[x] = Part(t, x, q) \o f[q]
  BY <1>4, <1>7, KeptUptoOne DEF L
<1>9. f[j] = Part(t, j, q) \o f[q] /\ f[p] = Part(t, p, q) \o f[q]
  BY <1>6, <1>7, <1>8
<1> DEFINE a == Part(t, p, j)
           b == Part(t, j, q)
           c == f[q]
<1>10. a \in Seq(Nat) /\ a \o b = Part(t, p, q)
  BY <1>4, <1>7, PartsJoin DEF L
<1>11. b \in Seq(Nat)
  BY <1>4, <1>7, PartLetters DEF L
<1>12. c \in Seq(Nat)
  BY <1>7 DEF Rewritten, L
<1> HIDE DEF a, b, c
<1>13. (a \o b) \o c = a \o (b \o c)
  <2> DEFINE V == Seq(Nat)
  <2>1. a \in V /\ b \in V /\ c \in V
    BY <1>10, <1>11, <1>12
  <2>2. \A x, y, z \in V : (x \o y) \o z = x \o (y \o z)
    BY ConcatOfTexts
  <2> HIDE DEF V
  <2>3. QED BY <2>1, <2>2
<1>14. QED BY <1>9, <1>10, <1>13, Zenon DEF a, b, c
-----------------------------------------------------------------------------
(* Each word after a blank. *)
Led(v) == [n \in DOMAIN v |-> <<Blank>> \o v[n]]

(* What follows a word when the words v do. *)
After(v) == IF v = <<>> THEN <<>> ELSE <<Blank>> \o Join(v)

(* strings.Join, from the first word on.                                   *)
LEMMA JoinIs ==
  ASSUME NEW w \in Seq(Nat), NEW v \in Seq(Seq(Nat))
  PROVE  /\ Led(v) \in Seq(Seq(Nat)) /\ Led(<<w>> \o v) = <<<<Blank>> \o w>> \o Led(v)
         /\ Join(<<w>> \o v) = w \o FlattenSeq(Led(v)) /\ FlattenSeq(Led(v)) \in Seq(Nat)
<1> DEFINE S == Seq(Nat)
           N == Len(v)
           x == <<w>> \o v
           J == [n \in DOMAIN x |-> IF n = 1 THEN x[n] ELSE <<Blank>> \o x[n]]
<1>1. N \in Nat /\ DOMAIN v = 1..N /\ v \in [1..N -> S]
  OBVIOUS
<1>2. Blank \in Nat /\ <<Blank>> \in S
  BY DEF Blank
<1>3. \A u \in S : <<Blank>> \o u \in S
  BY <1>2, ConcatProperties
<1>4. /\ DOMAIN x = 1..N+1 /\ x[1] = w
      /\ \A n \in 2..N+1 : x[n] = v[n-1]
  OBVIOUS
<1> HIDE DEF S, N, x
<1>5. Led(v) \in Seq(S)
  <2>1. Led(v) = [n \in 1..N |-> <<Blank>> \o v[n]]
    BY <1>1 DEF Led
  <2>2. Led(v) \in [1..N -> S]
    BY <1>1, <1>3, <2>1
  <2>3. QED BY <1>1, <2>2, SeqDef
<1>6. \A n \in 1..N : Led(v)[n] = <<Blank>> \o v[n]
  BY <1>1 DEF Led
<1>7. Len(Led(v)) = N
  <2>1. DOMAIN Led(v) = 1..N
    BY <1>1 DEF Led
  <2>2. QED BY <1>1, <1>5, <2>1
<1> DEFINE lv == Led(v)
           bw == <<Blank>> \o w
<1>8. lv \in Seq(S) /\ Len(lv) = N /\ bw \in S /\ w \in S
  BY <1>3, <1>5, <1>7 DEF S
<1> HIDE DEF lv, bw
<1>9. /\ DOMAIN (<<bw>> \o lv) = 1..N+1 /\ (<<bw>> \o lv)[1] = bw
      /\ \A n \in 2..N+1 : (<<bw>> \o lv)[n] = lv[n-1]
  BY <1>8
<1>10. /\ DOMAIN (<<w>> \o lv) = 1..N+1 /\ (<<w>> \o lv)[1] = w
       /\ \A n \in 2..N+1 : (<<w>> \o lv)[n] = lv[n-1]
  BY <1>8
<1>11. \A n \in 1..N+1 : n = 1 \/ (n \in 2..N+1 /\ n - 1 \in 1..N /\ n # 1)
  BY <1>1
<1>12. Led(x) = <<bw>> \o lv
  <2>1. Led(x) = [n \in 1..N+1 |-> <<Blank>> \o x[n]]
    BY <1>4 DEF Led
  <2>2. \A n \in 1..N+1 : <<Blank>> \o x[n] = (<<bw>> \o lv)[n]
    BY <1>4, <1>6, <1>9, <1>11 DEF lv, bw
  <2>3. <<bw>> \o lv = [n \in 1..N+1 |-> (<<bw>> \o lv)[n]]
    BY <1>8, <1>9
  <2>4. QED BY <2>1, <2>2, <2>3, Zenon
<1>13. J = <<w>> \o lv
  <2>1. J = [n \in 1..N+1 |-> IF n = 1 THEN x[n] ELSE <<Blank>> \o x[n]]
    BY <1>4
  <2>2. \A n \in 1..N+1 : (IF n = 1 THEN x[n] ELSE <<Blank>> \o x[n]) = (<<w>> \o lv)[n]
    BY <1>4, <1>6, <1>10, <1>11 DEF lv
  <2>3. <<w>> \o lv = [n \in 1..N+1 |-> (<<w>> \o lv)[n]]
    BY <1>8, <1>10
  <2> HIDE DEF J
  <2>4. QED BY <2>1, <2>2, <2>3, Zenon
<1>14. Join(x) = FlattenSeq(J)
  BY Zenon DEF Join
<1>15. FlattenSeq(<<w>> \o lv) = FlattenSeq(<<w>>) \o FlattenSeq(lv)
  <2>1. <<w>> \in Seq(Seq(Nat)) /\ lv \in Seq(Seq(Nat))
    BY <1>8 DEF S
  <2> DEFINE y == <<w>>
  <2> HIDE DEF y
  <2>2. y \in Seq(Seq(Nat)) /\ lv \in Seq(Seq(Nat))
    BY <2>1 DEF y
  <2>3. FlattenSeq(y \o lv) = FlattenSeq(y) \o FlattenSeq(lv)
    BY <2>2, FlattenConcat
  <2>4. QED BY <2>3 DEF y
<1>16. FlattenSeq(<<w>>) = w
  BY FlattenFew
<1>17. FlattenSeq(lv) \in Seq(Nat)
  <2>1. lv \in Seq(Seq(Nat))
    BY <1>8 DEF S
  <2>2. PICK f : Strung(f, lv, Nat) /\ FlattenSeq(lv) = f[Len(lv)]
    BY <2>1, FlattenStrings
  <2>3. Len(lv) \in 0..Len(lv)
    BY <2>1
  <2>4. QED BY <2>2, <2>3 DEF Strung
<1> HIDE DEF J
<1>18. QED BY <1>5, <1>12, <1>13, <1>14, <1>15, <1>16, <1>17, Zenon DEF lv, bw, x, S

(* Joined words are the first one and what follows it. *)
LEMMA JoinFrom ==
  ASSUME NEW w \in Seq(Nat), NEW v \in Seq(Seq(Nat))
  PROVE  Join(<<w>> \o v) = w \o After(v)
<1>1. Join(<<w>> \o v) = w \o FlattenSeq(Led(v))
  BY JoinIs
<1>2. CASE v = <<>>
  <2>1. Led(v) = <<>>
    BY <1>2 DEF Led
  <2>2. FlattenSeq(<<>>) = <<>>
    BY DEF FlattenSeq
  <2>3. QED BY <1>1, <1>2, <2>1, <2>2 DEF After
<1>3. CASE v # <<>>
  <2> DEFINE u == Head(v)
             y == Tail(v)
             ly == Led(y)
             bu == <<Blank>> \o u
             fl == FlattenSeq(ly)
             b == <<Blank>>
  <2>1. u \in Seq(Nat) /\ y \in Seq(Seq(Nat)) /\ v = <<u>> \o y
    <3> DEFINE S == Seq(Nat)
    <3>1. v \in Seq(S) /\ v # <<>>
      BY <1>3
    <3> HIDE DEF S
    <3>2. Head(v) \in S /\ Tail(v) \in Seq(S) /\ v = <<Head(v)>> \o Tail(v)
      BY <3>1, HeadTailProperties
    <3>3. QED BY <3>2 DEF S
  <2> HIDE DEF u, y
  <2>2. /\ ly \in Seq(Seq(Nat)) /\ Led(v) = <<bu>> \o ly /\ Join(v) = u \o fl
        /\ fl \in Seq(Nat)
    BY <2>1, JoinIs
  <2>3. bu \in Seq(Nat) /\ b \in Seq(Nat)
    <3>1. b \in Seq(Nat)
      BY DEF Blank
    <3>2. \A p, q \in Seq(Nat) : p \o q \in Seq(Nat)
      BY ConcatProperties
    <3>3. QED BY <2>1, <3>1, <3>2
  <2> HIDE DEF ly, bu, fl
  <2>4. FlattenSeq(<<bu>> \o ly) = FlattenSeq(<<bu>>) \o FlattenSeq(ly)
    <3> DEFINE s == <<bu>>
    <3>1. s \in Seq(Seq(Nat))
      BY <2>3
    <3> HIDE DEF s
    <3>2. FlattenSeq(s \o ly) = FlattenSeq(s) \o FlattenSeq(ly)
      BY <2>2, <3>1, FlattenConcat
    <3>3. QED BY <3>2 DEF s
  <2>5. FlattenSeq(<<bu>>) = bu
    BY <2>3, FlattenFew
  <2>6. FlattenSeq(Led(v)) = bu \o fl
    BY <2>2, <2>4, <2>5 DEF fl
  <2>7. bu \o fl = b \o (u \o fl)
    <3>1. bu = b \o u
      BY DEF bu
    <3> HIDE DEF b
    <3>2. QED BY <2>1, <2>2, <2>3, <3>1, ConcatOfTexts
  <2>8. After(v) = b \o Join(v)
    BY <1>3 DEF After
  <2> HIDE DEF b
  <2>9. QED BY <1>1, <2>2, <2>6, <2>7, <2>8, Zenon
<1>4. QED BY <1>2, <1>3

(* Exactly the whole words of a phrase are replaced (replaceWholePhrase).  *)
THEOREM WholeWordsReplaced ==
  ASSUME NEW t \in Seq(Nat), NEW h \in Seq(Nat), NEW r \in Seq(Nat),
         Spaced(t), Spaced(h), ~OverlapsItself(h)
  PROVE  ReplaceWholePhrase(t, h, r) = Join(Replaced(Words(t), Words(h), r))
<1> DEFINE ws == Words(t)
           hs == Words(h)
           N == Len(ws)
           m == Len(hs)
           L == Len(t)
<1>1. PICK s : StandAs(ws, s, t) /\ Opened(s, t, N)
  BY WordsStand
<1>2. PICK u : StandAs(hs, u, h)
  BY WordsStand
<1>3. Stand(s, t, N) /\ Stand(u, h, m)
  BY <1>1, <1>2 DEF StandAs
<1>4. ws \in Seq(Seq(Nat)) /\ hs \in Seq(Seq(Nat)) /\ N \in Nat \ {0} /\ m \in Nat \ {0}
  <2>1. N \in Nat \ {0} /\ m \in Nat \ {0}
    BY <1>3 DEF Stand
  <2>2. QED BY <2>1, WordsAreTexts
<1>5. h # <<>> /\ h[1] # Blank /\ L \in Nat /\ Len(h) \in Nat \ {0}
  BY DEF Spaced
<1> HIDE DEF ws, hs, L
<1>6. PICK f : Rewritten(f, t, h, r)
  BY <1>5, ReplaceIs
<1>7. PICK g : Reworded(g, ws, hs, r)
  <2>1. hs # <<>>
    BY <1>4
  <2>2. QED BY <1>4, <2>1, ReplacedIs
<1>8. /\ f \in [1..L+1 -> Seq(Nat)] /\ ReplaceWholePhrase(t, h, r) = f[1] /\ f[L+1] = <<>>
      /\ \A p \in 1..L :
           f[p] = IF Occurs(t, h, p)
                  THEN (IF IsWhole(t, h, p) THEN r ELSE Part(t, p, p + Len(h))) \o f[p+Len(h)]
                  ELSE <<t[p]>> \o f[p+1]
  BY <1>6, Zenon DEF Rewritten, L
<1>9. /\ g \in [1..N+m -> Seq(Seq(Nat))] /\ Replaced(ws, hs, r) = g[1]
      /\ \A n \in 1..N+m : n > N => g[n] = <<>>
      /\ \A n \in 1..N :
           g[n] = IF PhraseAt(ws, hs, n) THEN <<r>> \o g[n+m] ELSE <<ws[n]>> \o g[n+1]
  BY <1>7, Zenon DEF Reworded, N, m
<1> HIDE DEF N, m
(* A whole phrase begins where a word does. *)
<1>10. \A x : Whole(t, h, x) => \E n \in 1..N : s[n] = x
  <2> SUFFICES ASSUME NEW x, Whole(t, h, x) PROVE \E n \in 1..N : s[n] = x
    OBVIOUS
  <2>1. x \in 1..L /\ Alike(t, h, x) /\ (x = 1 \/ t[x-1] = Blank)
    BY DEF Whole, IsWhole, L
  <2>2. Low(t[x]) = Low(h[1])
    <3>1. 1 \in 1..Len(h) /\ x + 1 - 1 = x
      BY <1>5, <2>1
    <3>2. Low(t[x+1-1]) = Low(h[1])
      BY <2>1, <3>1 DEF Alike
    <3>3. QED BY <3>1, <3>2
  <2>3. t[x] \in Nat /\ h[1] \in Nat
    BY <1>5, <2>1 DEF L
  <2>4. t[x] # Blank
    BY <1>5, <2>2, <2>3, LowBlank
  <2>5. QED BY <1>1, <2>1, <2>4 DEF Opened, L
(* The words stand in their order. *)
<1>11. ASSUME NEW n \in 1..N
       PROVE  /\ s[n] \in 1..L /\ s[n+1] - 1 \in 1..L+1 /\ s[n] \in 1..s[n+1]-1
              /\ s[n+1] \in Nat /\ s[n] + 1 < s[n+1] /\ Ends(t, s[n+1] - 1)
  <2> DEFINE a == s[n]
             b == s[n+1]
  <2>1. /\ a \in Nat \ {0} /\ b \in Nat \ {0} /\ a + 1 < b /\ b <= L + 2
        /\ Ends(t, b - 1)
    BY <1>3, WordStands DEF L
  <2> HIDE DEF a, b
  <2>2. a \in 1..L /\ b - 1 \in 1..L+1 /\ a \in 1..b-1
    BY <1>5, <2>1
  <2>3. QED BY <2>1, <2>2 DEF a, b
(* What follows a word: a blank and the next word, or the end. *)
<1>12. ASSUME NEW n \in 1..N, n # N, f[s[n+1]] = Join(g[n+1])
       PROVE  f[s[n+1]-1] = After(g[n+1])
  <2>1. n + 1 \in 1..N
    BY <1>4, <1>12
  <2> DEFINE b == s[n+1]
             x == b - 1
  <2>2. b \in 1..L /\ x \in 1..L /\ x + 1 = b /\ Ends(t, x)
    <3>1. b \in 1..L /\ b \in Nat /\ b - 1 \in 1..L+1 /\ Ends(t, x)
      BY <1>11, <2>1
    <3> HIDE DEF b
    <3>2. QED BY <1>5, <3>1
  <2> HIDE DEF b, x
  <2>3. t[x] = Blank
    <3>1. x # L + 1
      BY <1>5, <2>2
    <3>2. QED BY <2>2, <3>1 DEF Ends, L
  <2>4. ~Occurs(t, h, x)
    <3>1. SUFFICES ASSUME Alike(t, h, x) PROVE FALSE
      BY <2>2, OccursIsAlike DEF L
    <3>2. 1 \in 1..Len(h) /\ x + 1 - 1 = x
      BY <1>5, <2>2
    <3>3. Low(t[x+1-1]) = Low(h[1])
      BY <3>1, <3>2 DEF Alike
    <3>4. Low(t[x]) = Low(h[1]) /\ t[x] \in Nat /\ h[1] \in Nat
      BY <1>5, <2>2, <3>2, <3>3 DEF L
    <3>5. QED BY <1>5, <2>3, <3>4, LowBlank
  <2>5. f[x] = <<Blank>> \o f[b]
    BY <1>8, <2>2, <2>3, <2>4
  <2>6. g[n+1] # <<>>
    <3> DEFINE k == n + 1
    <3>1. k \in 1..N
      BY <2>1
    <3> HIDE DEF k
    <3>2. /\ \A y \in Seq(Seq(Nat)) : \A w : <<w>> \o y # <<>>
          /\ k + m \in 1..N+m /\ k + 1 \in 1..N+m
      <4>1. \A y \in Seq(Seq(Nat)) : \A w : <<w>> \o y # <<>>
        OBVIOUS
      <4>2. QED BY <1>4, <3>1, <4>1
    <3>3. g[k+m] \in Seq(Seq(Nat)) /\ g[k+1] \in Seq(Seq(Nat))
      BY <1>9, <3>2
    <3>4. g[k] = <<r>> \o g[k+m] \/ g[k] = <<ws[k]>> \o g[k+1]
      BY <1>9, <3>1
    <3>5. g[k] # <<>>
      BY <3>2, <3>3, <3>4, Zenon
    <3>6. QED BY <3>5 DEF k
  <2>7. f[b] = Join(g[n+1])
    BY <1>12 DEF b
  <2>8. f[x] = After(g[n+1])
    BY <2>5, <2>6, <2>7, Zenon DEF After
  <2>9. QED BY <2>8 DEF x, b
<1>13. f[s[N+1]-1] = After(g[N+1])
  <2>1. s[N+1] - 1 = L + 1
    BY <1>3, <1>5 DEF Stand, L
  <2>2. g[N+1] = <<>>
    <3>1. N + 1 \in 1..N+m /\ N + 1 > N
      BY <1>4
    <3>2. QED BY <1>9, <3>1
  <2>3. QED BY <1>8, <2>1, <2>2 DEF After
<1> DEFINE P == {n \in 1..N : f[s[n]] = Join(g[n])}
<1>14. ASSUME NEW n \in 1..N, \A k \in n+1..N : k \in P
       PROVE  f[s[n]] = Join(g[n])
  <2>1. ASSUME NEW k \in n+1..N+1 PROVE f[s[k]-1] = After(g[k])
    <3> DEFINE l == k - 1
    <3>1. l \in 1..N /\ l + 1 = k /\ k \in 2..N+1
      BY <1>4
    <3> HIDE DEF l
    <3>2. CASE k = N + 1
      BY <1>13, <3>2
    <3>3. CASE k # N + 1
      <4>1. k \in n+1..N /\ l # N
        BY <1>4, <3>1, <3>3
      <4>2. f[s[l+1]] = Join(g[l+1])
        BY <1>14, <3>1, <4>1
      <4>3. f[s[l+1]-1] = After(g[l+1])
        BY <1>12, <3>1, <4>1, <4>2
      <4>4. QED BY <3>1, <4>3
    <3>4. QED BY <3>2, <3>3
  <2>2. s[n] \in 1..L
    BY <1>11
  <2>3. CASE PhraseAt(ws, hs, n)
    <3> DEFINE p == s[n]
               k == n + m
    <3>1. /\ Alike(t, h, p) /\ IsWhole(t, h, p)
          /\ k \in 1..N+1 /\ p + Len(h) = s[k] - 1
      <4>1. n \in 1..Len(ws)
        BY DEF N
      <4>2. QED BY <1>1, <1>2, <2>3, <4>1, PhraseIsWhole DEF N, m
    <3>2. p \in 1..L /\ Occurs(t, h, p)
      <4>1. p \in 1..Len(t)
        BY <2>2 DEF L
      <4> HIDE DEF p
      <4>2. Occurs(t, h, p)
        BY <3>1, <4>1, OccursIsAlike
      <4>3. QED BY <4>1, <4>2 DEF L
    <3> HIDE DEF p
    <3>3. f[p] = r \o f[p+Len(h)]
      BY <1>8, <3>1, <3>2
    <3>4. k \in n+1..N+1 /\ k \in 1..N+m
      BY <1>4, <3>1
    <3> HIDE DEF k
    <3>5. f[s[k]-1] = After(g[k])
      BY <2>1, <3>4
    <3>6. g[n] = <<r>> \o g[k]
      BY <1>9, <2>3 DEF k
    <3>7. g[k] \in Seq(Seq(Nat))
      BY <1>9, <3>4
    <3>8. Join(<<r>> \o g[k]) = r \o After(g[k])
      BY <3>7, JoinFrom
    <3>9. QED BY <3>1, <3>3, <3>5, <3>6, <3>8, Zenon DEF p
  <2>4. CASE ~PhraseAt(ws, hs, n)
    <3> DEFINE p == s[n]
               k == n + 1
               j == s[k] - 1
    <3>1. /\ p \in 1..L /\ j \in 1..L+1 /\ p \in 1..j /\ s[k] \in Nat /\ p + 1 < s[k]
      BY <1>11
    <3>2. NoneBefore(t, h, p, j)
      <4> SUFFICES ASSUME NEW x \in p..j-1, Whole(t, h, x) PROVE FALSE
        BY DEF NoneBefore
      <4>1. PICK l \in 1..N : s[l] = x
        BY <1>10
      <4>2. l = n
        <5>1. \A a, b \in 1..N : a < b => s[a] < s[b]
          BY <1>3, StandInOrder
        <5>2. l < n \/ l = n \/ n < l
          BY <1>4
        <5>3. CASE l < n
          <6>1. x < p
            BY <4>1, <5>1, <5>3
          <6>2. QED BY <3>1, <6>1
        <5>4. CASE n < l
          <6>1. k \in 1..N /\ (k = l \/ k < l)
            BY <1>4, <5>4
          <6>2. x \in 1..L
            BY DEF Whole, L
          <6>3. s[k] = x \/ s[k] < x
            BY <4>1, <5>1, <6>1
          <6> DEFINE b == s[k]
          <6>4. b \in Nat /\ x \in Nat /\ p \in Nat /\ (b = x \/ b < x) /\ x \in p..b-1-1
            BY <3>1, <6>2, <6>3
          <6> HIDE DEF b, p, k
          <6>5. QED BY <6>4
        <5>5. QED BY <5>2, <5>3, <5>4
      <4>3. Alike(t, h, p) /\ IsWhole(t, h, p)
        BY <4>1, <4>2 DEF Whole
      <4>4. n \in 1..Len(ws)
        BY DEF N
      <4>5. PhraseAt(ws, hs, n)
        BY <1>1, <1>2, <4>3, <4>4, WholeIsPhrase
      <4>6. QED BY <2>4, <4>5
    <3>3. f[p] = Part(t, p, j) \o f[j]
      <4>1. j \in 1..Len(t)+1 /\ p \in 1..j
        BY <3>1 DEF L
      <4> HIDE DEF p, j
      <4>2. QED BY <1>5, <1>6, <3>2, <4>1, Kept
    <3>4. ws[n] = Part(t, p, j)
      BY <1>1 DEF StandAs, N
    <3>5. k \in n+1..N+1 /\ k \in 1..N+m
      BY <1>4
    <3>6. f[j] = After(g[k])
      BY <2>1, <3>5
    <3>7. g[n] = <<ws[n]>> \o g[k]
      BY <1>9, <2>4
    <3>8. g[k] \in Seq(Seq(Nat)) /\ ws[n] \in Seq(Nat)
      <4>1. g[k] \in Seq(Seq(Nat))
        BY <1>9, <3>5
      <4>2. ws[n] \in Seq(Nat)
        <5> DEFINE S == Seq(Nat)
        <5> HIDE DEF S
        <5>1. ws \in Seq(S) /\ n \in 1..Len(ws)
          BY <1>4 DEF S, N
        <5>2. ws[n] \in S
          BY <5>1
        <5>3. QED BY <5>2 DEF S
      <4>3. QED BY <4>1, <4>2
    <3> HIDE DEF k, j
    <3>9. Join(<<ws[n]>> \o g[k]) = ws[n] \o After(g[k])
      BY <3>8, JoinFrom
    <3>10. QED BY <3>3, <3>4, <3>6, <3>7, <3>9, Zenon DEF p
  <2>5. QED BY <2>3, <2>4
<1>15. \A n \in 1..N : n \in P
  <2>1. \A n \in 1..N : (\A k \in n+1..N : k \in P) => n \in P
    BY <1>14
  <2> HIDE DEF P
  <2>2. N \in Nat
    BY <1>4
  <2>3. QED BY <2>1, <2>2, Downwards
<1>16. 1 \in 1..N /\ s[1] = 1
  BY <1>3, <1>4 DEF Stand
<1>17. f[1] = Join(g[1])
  BY <1>15, <1>16
<1>18. QED BY <1>8, <1>9, <1>17 DEF ws, hs

(* The same for a text that is probed, whatever its words and the phrase.  *)
THEOREM WordsReplacedForAll ==
  ASSUME probe.of = "replace" => /\ probe.text \in Seq(Nat) /\ Spaced(probe.text)
                                 /\ probe.heard \in Seq(Nat) /\ Spaced(probe.heard)
  PROVE  WordsReplaced
<1> DEFINE t == probe.text
           h == probe.heard
           r == <<9>>
<1>1. SUFFICES ASSUME probe.of = "replace", ~OverlapsItself(h)
               PROVE  ReplaceWholePhrase(t, h, r) = Join(Replaced(Words(t), Words(h), r))
  BY Zenon DEF WordsReplaced
<1>2. /\ t \in Seq(Nat) /\ h \in Seq(Nat) /\ r \in Seq(Nat)
      /\ Spaced(t) /\ Spaced(h)
  BY <1>1
<1> HIDE DEF t, h, r
<1>3. QED BY <1>1, <1>2, WholeWordsReplaced
=============================================================================
