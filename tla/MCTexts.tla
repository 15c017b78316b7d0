------------------------------- MODULE MCTexts -------------------------------
(***************************************************************************)
(* Vocabulary, Formatter and Deadlines for TLC: a behaviour either edits   *)
(* the vocabulary, or is one probe of the algorithms.                      *)
(***************************************************************************)
EXTENDS Vocabulary, Formatter, Deadlines

CONSTANTS MaxWords,    \* bound: words in a transcript that is probed
          MaxTokens,   \* bound: tokens in a paragraph that is probed
          MaxClauses   \* bound: clauses in a paragraph that is probed

VARIABLE probe

(* Two spellings one letter apart, their capitals, and other words.        *)
Jainam == <<1, 2, 3, 4, 5>>
Jainem == <<1, 2, 3, 4, 6>>
Ada    == <<8, 9, 8, 9>>
Short  == <<7>>
Misspelled == {Jainem, <<1, 2, 3, Blank, 4, 6>>}

Capitals(t) == [i \in DOMAIN t |-> IF t[i] = Blank THEN Blank ELSE t[i] + Cap]

MCTerms == {Capitals(Jainam), Jainam, Ada, Capitals(Ada \o <<Blank>> \o Jainam)}

TextsOf(words, max) ==
  {Join(ws) : ws \in UNION {[1..n -> words] : n \in 1..max}}

MCEdits ==
  {<<Jainem, <<1, 2, 3, 4>>>>,
   <<Ada \o <<Blank>> \o Jainem, Ada \o <<Blank>> \o Capitals(Jainam)>>}

None == [of |-> "none"]

(* A paragraph the formatter may answer with: Tenths follow a number, and  *)
(* a comma or a full stop stands alone.  Short ones from all tokens, and   *)
(* longer ones from clauses.                                               *)
Tokens == {"a", "A", "One", "two", "1.", "2.", Tenths, Stop, Comma}
WellFormed(t) ==
  /\ t[1] \notin Attached
  /\ \A i \in 2..Len(t) : /\ t[i] = Tenths => t[i-1] \in Written
                          /\ t[i] \in {Stop, Comma} => t[i-1] \notin Attached \ {Tenths}
Clauses == {<<"A", "b", Stop>>, <<"b">>, <<"One", Comma, "a">>, <<"two", Comma>>,
            <<"1.", Tenths>>, <<"2.", "a", Comma>>}
Paragraphs ==
  {t \in UNION {[1..n -> Tokens] : n \in 1..MaxTokens} : WellFormed(t)}
  \cup {FlattenSeq(cs) : cs \in UNION {[1..n -> Clauses] : n \in 1..MaxClauses}}

Blocks == {Paragraph(t) : t \in {<<"a">>, <<"A", "b", Stop>>, <<"b", "a">>}}
          \cup {Heading(t) : t \in {<<"a">>, <<"A", "b">>, <<"c">>}}
          \cup {Numbered(<<<<"a">>, <<"b">>>>), Bullets(<<<<"b">>>>)}

Letters(max) == UNION {[1..n -> {1, 2, 2 + Cap}] : n \in 0..max}

Probes ==
  [of : {"replace"}, text : TextsOf({<<1>>, <<1, 2>>, <<2, 1>>, <<1, 1>>}, MaxWords),
   heard : TextsOf({<<1>>, <<1, 2>>, <<1 + Cap, 1>>}, 2)]
  \cup [of : {"distance"}, text : Letters(3), heard : Letters(3)]
  \cup UNION {[of : {"correct"}, heard : {h},
                text : TextsOf({h, Ada, Short}, 2), next : TextsOf({h, Ada, Short}, 3)] :
                 h \in Misspelled}
  \cup [of : {"paragraph"}, text : Paragraphs]
  \cup [of : {"document"},
        text : UNION {[1..n -> Blocks] : n \in 1..3}]
  \cup [of : {"retry"}, file : [maxAttempts : {0, 5}, initialSecs : {-1, 0, 1, 7},
                                maxSecs : {-1, 0, 2, 60}]]
  \cup [of : {"wav"}, writes : UNION {[1..n -> {0, 3, 60, 100}] : n \in 0..4}]

TextsInit == /\ VocabularyInit
             /\ probe \in {None} \cup Probes

TextsNext == /\ probe = None /\ VocabularyNext
             /\ UNCHANGED probe

TextsSpec == TextsInit /\ [][TextsNext]_<<vocabularyVars, probe>>
-----------------------------------------------------------------------------

(* replaceWholePhrase by words: the words of a phrase that does not overlap *)
(* itself, from left to right.                                             *)
Replaced(words, heard, r) ==
  LET n == Len(heard)
      at(i) == /\ i + n - 1 <= Len(words)
               /\ \A k \in 1..n : Fold(words[i + k - 1]) = Fold(heard[k])
      rest[i \in 1..Len(words) + n] ==
        IF i > Len(words) THEN <<>>
        ELSE IF at(i) THEN <<r>> \o rest[i + n] ELSE <<words[i]>> \o rest[i+1]
  IN rest[1]

OverlapsItself(h) == \E k \in 1..Len(h) - 1 :
  Fold(SubSeq(h, 1, k)) = Fold(SubSeq(h, Len(h) - k + 1, Len(h)))

(* "Advance past the candidate so repeated phrases separated by one space  *)
(* or punctuation remain independently eligible" (vocabulary.go:424):      *)
(* exactly the whole words that make up a phrase are replaced, wherever    *)
(* the same letters occur inside other words (replaceWholePhrase).         *)
WordsReplaced == probe.of = "replace" /\ ~OverlapsItself(probe.heard) =>
  ReplaceWholePhrase(probe.text, probe.heard, <<9>>) =
    Join(Replaced(Words(probe.text), Words(probe.heard), <<9>>))

(* The least cost of an alignment: pairs of positions in order, one for a  *)
(* pair of different letters and one for each letter without a partner.    *)
LeastAlignment(a, b) ==
  LET inOrder(m) == \A p, q \in m : p[1] < q[1] <=> p[2] < q[2]
      cost(m) == Cardinality({p \in m : a[p[1]] # b[p[2]]})
                 + Len(a) + Len(b) - 2 * Cardinality(m)
      aligned == {m \in SUBSET ((1..Len(a)) \X (1..Len(b))) :
                    inOrder(m) /\ \A p, q \in m : p[1] = q[1] => p = q}
  IN SmallestOf({cost(m) : m \in aligned})

(* similarity's two rows, swapped after each letter, end with the edit     *)
(* distance.                                                               *)
DistanceIsEditDistance == probe.of = "distance" =>
  Distance(probe.text, probe.heard) = LeastAlignment(probe.text, probe.heard)

(* The vocabulary after a correction, from an empty one.                   *)
Taught(raw, corrected) ==
  FoldLeft(LAMBDA list, l : AddAlias(Listing(list), l.canonical, l.alias),
           <<>>, Learned(raw, corrected))

Corrected(t, heard) ==
  Join(Replaced(Words(t), Words(heard), Capitals(Jainam)))

(* Nothing the user left alone is close to another phrase of the text;     *)
(* when something is, it is learned as well (OnlyChangesAreLearned).       *)
RestUnlike(raw, corrected) ==
  \A c \in ToSet(Windows(corrected, 3)) \cap ToSet(Windows(raw, 3)) :
    Len(Compact(c)) < 4 \/ BestAlias(Compact(c), Windows(raw, 3)) = <<>>

(* What a correction teaches corrects the next transcript that is heard    *)
(* the same way: the misspelling, wherever it stood, is written as the     *)
(* user wrote it and nothing else changes (LearnFromCorrection, Apply).    *)
CorrectionTakesEffect == probe.of = "correct" =>
  LET corrected == Corrected(probe.text, probe.heard) IN
  corrected # probe.text /\ RestUnlike(probe.text, corrected) =>
    Apply(probe.next, Taught(probe.text, corrected))
      = Corrected(probe.next, probe.heard)

(* vocabulary.go:260: "LearnFromCorrection extracts high-similarity        *)
(* changed phrases": what stands in the transcript and in its correction   *)
(* alike is not given an alias.                                            *)
OnlyChangesAreLearned == probe.of = "correct" =>
  \A l \in ToSet(Learned(probe.text, Corrected(probe.text, probe.heard))) :
    l.canonical \notin ToSet(Windows(probe.text, 3))

(* "The first limit different terms": configured keyterms first, none      *)
(* twice in any case, and none left out while there is room, for all that  *)
(* the vocabulary may hold; blank ones do not count (Keyterms,             *)
(* mergeKeyterms).                                                         *)
FoldAll(ts) == {Fold(t) : t \in ToSet(ts)}
Complete(merged, configured, terms, limit) ==
  /\ Cardinality(FoldAll(merged)) = Len(merged)
  /\ Len(merged) =
       SmallestOf({limit, Cardinality((FoldAll(configured) \cup FoldAll(terms)) \ {<<>>})})
KeytermsComplete == \A limit \in 1..3 :
  LET configured == <<Capitals(Ada), <<>>, Ada>>
      terms == Keyterms(entries, 6, 1)
  IN Complete(MergeKeyterms(configured, terms, limit), configured, terms, limit)

-----------------------------------------------------------------------------
(* The words and numbers of blocks in order, case and punctuation aside; a *)
(* numbered item begins with its number.                                   *)
Value(w) == IF w \in DOMAIN Spoken
              THEN CASE Spoken[w] = 1 -> "1." [] Spoken[w] = 2 -> "2." [] OTHER -> "3."
              ELSE FoldToken(w)
Spelled(t) == FlattenSeq([i \in DOMAIN t |-> IF t[i] \in {Stop, Comma} THEN <<>>
                                             ELSE <<Value(t[i])>>])
Numbers == <<"1.", "2.", "3.">>
BlockText(b) ==
  IF b.type = "numbered"
    THEN FlattenSeq([n \in DOMAIN b.items |-> <<Numbers[n]>> \o b.items[n]])
    ELSE b.text \o FlattenSeq(b.items)
Text(doc) == FlattenSeq([n \in DOMAIN doc |-> BlockText(doc[n])])

(* No decimal is cut in two: no text of the document begins with the       *)
(* digits that belong after a number's dot.                                *)
BeginsWhole(t) == t = <<>> \/ t[1] # Tenths
WholeDecimals(doc) == \A b \in DOMAIN doc :
  /\ BeginsWhole(doc[b].text)
  /\ \A n \in DOMAIN doc[b].items : BeginsWhole(doc[b].items[n])

(* "Makes only mechanical layout repairs ... Wording stays owned by the    *)
(* model" (formatter.go:168): a paragraph keeps all its words and numbers  *)
(* in order, whether it is split into an enumeration, into pairs of        *)
(* sentences, or not at all; only markers become numbers, and each becomes *)
(* its own (splitOrderedParagraph).  A paragraph that goes in pairs of     *)
(* sentences keeps its decimals whole (splitLongParagraph); one that is    *)
(* taken for an enumeration may not (DecimalsLeftAlone).                   *)
WordingKept == probe.of = "paragraph" =>
  /\ Spelled(Text(SplitParagraph(probe.text))) = Spelled(probe.text)
  /\ Enumeration(probe.text) = <<>> => WholeDecimals(SplitParagraph(probe.text))

(* src/README.md:174-177: "It requires at least two consecutive, non-empty *)
(* entries, so ordinary prose and decimal numbers are left alone": no      *)
(* repair takes a decimal apart.  orderedMarkers (formatter.go:330) takes  *)
(* the 1. of 1.5 for a marker.                                             *)
DecimalsLeftAlone == probe.of = "paragraph" =>
  WholeDecimals(SplitParagraph(probe.text))

Source == <<"A", "b", "a", Comma, "one", Stop, "b", "a", "two", Comma, "a">>

(* What the repairs of a document keep, when the source is what was said.  *)
RepairsKeep(doc, source) ==
  LET repaired == Normalize(doc, source)
      said == {n \in DOMAIN doc : doc[n].type = "heading" => OccursIn(doc[n].text, source)}
  IN /\ Accepts(doc) /\ said # {} => Accepts(repaired)
     /\ \A n \in said : doc[n].type = "heading" =>
          OccursIn(Spelled(doc[n].text), Spelled(Text(repaired)))

(* A document that can be rendered still can be after the repairs, unless  *)
(* nothing but headings the speaker never said was in it; and a heading    *)
(* that the speaker did say is still in the text: as a heading, as prose,  *)
(* or in the paragraph that repeats it (normalizeFormatterDocument).       *)
RepairsKeepDocument ==
  probe.of = "document" => RepairsKeep(probe.text, Source)

-----------------------------------------------------------------------------
(* No configuration file makes a wait vanish: whatever is missing, zero or *)
(* negative in it, the backoff before the next attempt doubles from the    *)
(* initial time up to the maximum, as long as a Duration can hold the      *)
(* doubled time (LoadConfig, fail).                                        *)
BackoffDoubles == probe.of = "retry" =>
  LET cfg == LoadConfig(probe.file) IN
  \A n \in 1..cfg.maxAttempts - 1 :
    LET wait == cfg.initialSecs * 2^(n-1) IN
    Second * wait < 2^(WordBits - 1) =>
      /\ RetryDelay(cfg, n) = Second * SmallestOf({wait, cfg.maxSecs})
      /\ RetryDelay(cfg, n) > 0

(* A recording that a crash left with its placeholder header gets the very *)
(* header that Close would have written, and both are true to the file     *)
(* while its size fits the counter (wavWriter, repairWAV).                 *)
RepairedLikeClosed == probe.of = "wav" =>
  LET size == FileSize(probe.writes)
      header == RepairedHeader(size)
  IN /\ header = ClosedHeader(probe.writes)
     /\ size - 8 < 2^SizeBits =>
          header = [data |-> size - HeaderBytes, riff |-> size - 8]
=============================================================================
