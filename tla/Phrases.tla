------------------------------- MODULE Phrases -------------------------------
(***************************************************************************)
(* The text algorithms of internal/dictation/vocabulary.go: whole-phrase   *)
(* replacement, the order of corrections, the keyterms for the provider,   *)
(* and what is learned from a corrected transcript.                        *)
(*                                                                         *)
(* A text is a sequence of runes: Blank is whatever separates words, a     *)
(* number up to Cap a letter, and that number plus Cap its capital.  Lower *)
(* case keeps the length of a text here; for the few letters for which it  *)
(* does not, the code's byte offsets go wrong, which is not modelled.      *)
(***************************************************************************)
EXTENDS Integers, SequencesExt

Blank == 0
Cap == 10

Fold(t) == [i \in DOMAIN t |-> IF t[i] > Cap THEN t[i] - Cap ELSE t[i]]

(* compactVocabularyText: letters only, in lower case. *)
Compact(t) == SelectSeq(Fold(t), LAMBDA c : c # Blank)

(* The n-th of the positions S, from left to right. *)
Nth(S, n) == CHOOSE i \in S : Cardinality({k \in S : k < i}) = n - 1

(* strings.Fields: the words of a text. *)
Words(t) ==
  LET open == {i \in DOMAIN t : t[i] # Blank /\ (i = 1 \/ t[i-1] = Blank)}
      close(i) == CHOOSE e \in i..Len(t) :
                    /\ e = Len(t) \/ t[e+1] = Blank
                    /\ \A k \in i..e : t[k] # Blank
  IN [n \in 1..Cardinality(open) |->
        SubSeq(t, Nth(open, n), close(Nth(open, n)))]

(* strings.Join with a blank. *)
Join(words) ==
  FlattenSeq([n \in DOMAIN words |->
                IF n = 1 THEN words[n] ELSE <<Blank>> \o words[n]])

-----------------------------------------------------------------------------
(* replaceWholePhrase. *)
Occurs(t, h, i) == /\ i + Len(h) - 1 <= Len(t)
                   /\ Fold(SubSeq(t, i, i + Len(h) - 1)) = Fold(h)

(* Mutant of IsWhole: only the end of the word is looked at. *)
IsWholeAfter(t, h, i) == i + Len(h) > Len(t) \/ t[i + Len(h)] = Blank

IsWhole(t, h, i) == /\ i = 1 \/ t[i-1] = Blank
                    /\ i + Len(h) > Len(t) \/ t[i + Len(h)] = Blank

OccursWhole(t, h) == \E i \in DOMAIN t : Occurs(t, h, i) /\ IsWhole(t, h, i)

(* A candidate that is no whole phrase is stepped over like one that is.   *)
ReplaceWholePhrase(t, h, r) ==
  LET rest[i \in 1..Len(t) + 1] ==
        IF i > Len(t) THEN <<>>
        ELSE IF Occurs(t, h, i)
          THEN (IF IsWhole(t, h, i) THEN r ELSE SubSeq(t, i, i + Len(h) - 1))
               \o rest[i + Len(h)]
          ELSE <<t[i]>> \o rest[i+1]
  IN IF h = <<>> THEN t ELSE rest[1]

-----------------------------------------------------------------------------
(* An entry: [canonical, aliases], the aliases in the order learned.       *)
Less(a, b) == \E k \in DOMAIN b :
  /\ \A i \in 1..k - 1 : i \in DOMAIN a /\ a[i] = b[i]
  /\ k \notin DOMAIN a \/ a[k] < b[k]

(* sort.SliceStable: m is the n-th when n - 1 come before it. *)
Stably(cs, Before(_, _)) ==
  LET earlier(m, n) == \/ Before(cs[m], cs[n])
                       \/ ~Before(cs[n], cs[m]) /\ m < n
      rank == [m \in DOMAIN cs |->
                 Cardinality({k \in DOMAIN cs : earlier(k, m)}) + 1]
  IN [n \in DOMAIN cs |-> cs[CHOOSE m \in DOMAIN cs : rank[m] = n]]

(* List: by canonical spelling in lower case. *)
Listing(entries) ==
  Stably(entries, LAMBDA e, f : Less(Fold(e.canonical), Fold(f.canonical)))

Corrections(entries) ==
  LET of(e) == [n \in 1..Len(e.aliases) + 1 |->
                  [heard |-> (<<e.canonical>> \o e.aliases)[n],
                   canonical |-> e.canonical]]
      list == Listing(entries)
  IN FlattenSeq([n \in DOMAIN list |-> of(list[n])])

(* Mutant of LongestFirst: corrections are applied as listed. *)
AsListed(cs) == cs

(* By the length of what was heard. *)
LongestFirst(cs) == Stably(cs, LAMBDA c, d : Len(c.heard) > Len(d.heard))

Apply(t, entries) ==
  LET cs == LongestFirst(Corrections(entries))
      written[n \in 0..Len(cs)] ==
        IF n = 0 THEN t
        ELSE ReplaceWholePhrase(written[n-1], cs[n].heard, cs[n].canonical)
  IN written[Len(cs)]

(* Keyterms, then mergeKeyterms with the configured ones: the first limit  *)
(* different spellings of at most maxWords words and under maxRunes runes. *)
Keyterms(entries, maxRunes, maxWords) ==
  LET list == Listing(entries)
      fit == {n \in DOMAIN list : /\ Len(list[n].canonical) < maxRunes
                                  /\ Len(Words(list[n].canonical)) \in 1..maxWords}
  IN [n \in 1..Cardinality(fit) |-> list[Nth(fit, n)].canonical]

(* Mutant of MergeKeyterms: repeated terms count against the limit. *)
MergeThenCut(configured, terms, limit) ==
  LET all == configured \o terms
      cut == SubSeq(all, 1, IF Len(all) < limit THEN Len(all) ELSE limit)
  IN FoldLeft(LAMBDA merged, t :
                IF t = <<>> \/ \E n \in DOMAIN merged : Fold(merged[n]) = Fold(t)
                THEN merged ELSE Append(merged, t), <<>>, cut)

MergeKeyterms(configured, terms, limit) ==
  LET all == configured \o terms
      merged[n \in 0..Len(all)] ==
        IF n = 0 THEN <<>>
        ELSE LET before == merged[n-1] IN
             IF \/ Len(before) >= limit
                \/ all[n] = <<>>
                \/ \E k \in DOMAIN before : Fold(before[k]) = Fold(all[n])
             THEN before ELSE Append(before, all[n])
  IN merged[Len(all)]

-----------------------------------------------------------------------------
(* similarity: an edit distance, row by row, over the longer length.       *)
SmallestOf(S) == CHOOSE x \in S : \A y \in S : x <= y

(* Mutant of NextRow: a replaced letter costs as much as two steps. *)
NextRowIndel(prev, c, b) ==
  LET row[j \in 0..Len(b)] ==
        IF j = 0 THEN <<prev[1] + 1>>
        ELSE LET before == row[j-1] IN
             Append(before, SmallestOf({before[j] + 1, prev[j+1] + 1,
                                        prev[j] + (IF b[j] = c THEN 0 ELSE 2)}))
  IN row[Len(b)]

NextRow(prev, c, b) ==
  LET row[j \in 0..Len(b)] ==
        IF j = 0 THEN <<prev[1] + 1>>
        ELSE LET before == row[j-1] IN
             Append(before, SmallestOf({before[j] + 1, prev[j+1] + 1,
                                        prev[j] + (IF b[j] = c THEN 0 ELSE 1)}))
  IN row[Len(b)]

Distance(a, b) ==
  LET rows[i \in 0..Len(a)] ==
        IF i = 0 THEN [j \in 1..Len(b) + 1 |-> j - 1]
        ELSE NextRow(rows[i-1], a[i], b)
  IN rows[Len(a)][Len(b) + 1]

LongerOf(a, b) == IF Len(a) > Len(b) THEN Len(a) ELSE Len(b)

(* Mutant of Close: the score has to be above 0.80. *)
CloseAbove(a, b) == 5 * Distance(a, b) < LongerOf(a, b)

(* score >= 0.80 *)
Close(a, b) == 5 * Distance(a, b) <= LongerOf(a, b)

(* The phrases of up to max words, shorter first, then from left to right. *)
Windows(t, max) ==
  LET words == Words(t)
      upto == [n \in 1..SmallestOf({max, Len(words)}) |-> [i \in 1..Len(words) - n + 1 |->
                 Join(SubSeq(words, i, i + n - 1))]]
  IN FlattenSeq(upto)

(* The best alias for a folded canonical spelling: the closest, then the   *)
(* shortest, then the first; none below the score.                         *)
BestAlias(folded, windows) ==
  LET d(w) == Distance(folded, Compact(w))
      m(w) == LongerOf(folded, Compact(w))
      eligible(w) == Compact(w) \notin {<<>>, folded} /\ Close(folded, Compact(w))
      better(v, w) == \/ w = <<>>
                      \/ d(v) * m(w) < d(w) * m(v)
                      \/ d(v) * m(w) = d(w) * m(v) /\ Len(v) < Len(w)
      best[n \in 0..Len(windows)] ==
        IF n = 0 THEN <<>>
        ELSE LET current == best[n-1] IN
             IF eligible(windows[n]) /\ better(windows[n], current)
             THEN windows[n] ELSE current
  IN best[Len(windows)]

(* containsWholePhrase compares compacted texts, which have no blanks left *)
(* to look for: only the whole text contains a phrase.                     *)
StandsIn(raw, phrase) == Compact(raw) = Compact(phrase)

(* LearnFromCorrection: what it has LearnAlias store, in order.            *)
Learned(raw, corrected) ==
  LET best(c) ==
        IF Len(Compact(c)) < 4 \/ StandsIn(raw, c) THEN <<>>
        ELSE BestAlias(Compact(c), Windows(raw, 3))
      phrases == Windows(corrected, 3)
      taught == {n \in DOMAIN phrases : best(phrases[n]) # <<>>}
  IN [n \in 1..Cardinality(taught) |->
        [canonical |-> phrases[Nth(taught, n)],
         alias     |-> best(phrases[Nth(taught, n)])]]

(* LearnFromSelection: one phrase of up to five words, one alias or none.  *)
LearnedFromSelection(raw, selected) ==
  LET c == Join(Words(selected))
      alias == BestAlias(Compact(c), Windows(raw, 5))
  IN IF Len(Words(selected)) \notin 1..5 \/ Len(Compact(c)) < 4 \/ alias = <<>>
       THEN <<>> ELSE <<[canonical |-> c, alias |-> alias]>>
=============================================================================
