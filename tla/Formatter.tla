------------------------------ MODULE Formatter ------------------------------
(***************************************************************************)
(* What internal/dictation/formatter.go does to the block document a local *)
(* model answers with: mechanical repairs (normalizeFormatterDocument),    *)
(* and validation and rendering (renderFormatterDocument).                 *)
(*                                                                         *)
(* A text is a sequence of tokens: words, punctuation, which stands right  *)
(* after its word, and written numbers with their dot.  The decimal 1.5 is *)
(* the written number "1." with Tenths glued to it.  Markdown markers,     *)
(* which normalizePlainText removes, do not occur in the texts here.       *)
(***************************************************************************)
EXTENDS Integers, SequencesExt

Lowered == [A |-> "a", B |-> "b", One |-> "one"]
Spoken  == [one |-> 1, first |-> 1, One |-> 1, two |-> 2, second |-> 2,
            three |-> 3]
Written == {"1.", "2.", "3."}
WrittenValue(w) == CASE w = "1." -> 1 [] w = "2." -> 2 [] OTHER -> 3
Tenths  == "5"
Stop    == "."
Comma   == ","
Attached == {Stop, Comma, Tenths}
Dotted == {Stop} \cup Written

FoldToken(w) == IF w \in DOMAIN Lowered THEN Lowered[w] ELSE w
FoldTokens(t) == [i \in DOMAIN t |-> FoldToken(t[i])]

(* strings.Trim with a set of punctuation. *)
TrimTokens(t, cut) ==
  LET kept == {i \in DOMAIN t : t[i] \notin cut}
      from == CHOOSE i \in kept : \A k \in kept : i <= k
      to   == CHOOSE i \in kept : \A k \in kept : k <= i
  IN IF kept = {} THEN <<>> ELSE SubSeq(t, from, to)

Part(t, from, upto) == SubSeq(t, from, upto - 1)

Paragraph(t) == [type |-> "paragraph", text |-> t, items |-> <<>>]
Heading(t)   == [type |-> "heading", text |-> t, items |-> <<>>]
Numbered(is) == [type |-> "numbered", text |-> <<>>, items |-> is]
Bullets(is)  == [type |-> "bullets", text |-> <<>>, items |-> is]

-----------------------------------------------------------------------------
(* orderedMarkers: [start, end, value], end the first token after it.      *)
MarkersOf(t) ==
  LET at(i) == i \in DOMAIN t
      written == {[start |-> i, end |-> i + 1, value |-> WrittenValue(t[i])] :
                    i \in {k \in DOMAIN t : t[k] \in Written}}
      tenths == {[start |-> i, end |-> i + 2, value |-> 5] :
                   i \in {k \in DOMAIN t : t[k] = Tenths /\ at(k+1) /\ t[k+1] = Stop}}
      spoken == {[start |-> i, end |-> i + 2, value |-> Spoken[t[i]]] :
                   i \in {k \in DOMAIN t : /\ t[k] \in DOMAIN Spoken
                                           /\ at(k+1)
                                           /\ t[k+1] \in {Stop, Comma}}}
      all == written \cup tenths \cup spoken
      nth(n) == CHOOSE m \in all :
                  Cardinality({k \in all : k.start < m.start}) = n - 1
  IN [n \in 1..Cardinality(all) |-> nth(n)]

(* Mutant of Run: the values need not ascend. *)
RunOfAny(ms) == ms

(* The markers 1, 2, ... that the paragraph's markers begin with. *)
Run(ms) ==
  LET ascends(n) == \A k \in 1..n : ms[k].value = k
      length == CHOOSE n \in 0..Len(ms) :
                  /\ ascends(n) /\ (n = Len(ms) \/ ~ascends(n + 1))
  IN SubSeq(ms, 1, length)

(* firstSentenceBoundary: the first token after the next dot, whatever the *)
(* dot belongs to.                                                         *)
AfterDot(t, from) ==
  LET dots == {i \in from..Len(t) : t[i] \in Dotted} IN
  IF dots = {} THEN Len(t) + 1
  ELSE 1 + CHOOSE i \in dots : \A k \in dots : i <= k

(* splitOrderedParagraph: the blocks of a paragraph that contains an       *)
(* enumeration, or none when it does not.                                  *)
EnumerationBy(t, ms) ==
  LET last == AfterDot(t, ms[Len(ms)].end)
      stop(n) == IF n < Len(ms) THEN ms[n+1].start ELSE last
      items == [n \in DOMAIN ms |->
                  TrimTokens(Part(t, ms[n].end, stop(n)), {Comma})]
      prefix == Part(t, 1, ms[1].start)
      dots == {i \in DOMAIN prefix : prefix[i] \in Dotted}
      sentence == IF dots = {} THEN 0
                  ELSE CHOOSE i \in dots : \A k \in dots : k <= i
      heading == TrimTokens(Part(prefix, sentence + 1, Len(prefix) + 1), {Comma})
      block(b, nonempty) == IF nonempty = <<>> THEN <<>> ELSE <<b>>
  IN IF Len(ms) < 2 \/ \E n \in DOMAIN items : items[n] = <<>> THEN <<>>
     ELSE block(Paragraph(Part(t, 1, sentence + 1)), Part(t, 1, sentence + 1))
          \o block(Heading(heading), heading)
          \o <<Numbered(items)>>
          \o block(Paragraph(Part(t, last, Len(t) + 1)), Part(t, last, Len(t) + 1))

Enumeration(t) == EnumerationBy(t, Run(MarkersOf(t)))

(* The sentences of a text: up to each dot that a blank or the end follows. *)
Sentences(t) ==
  LET ends == {i \in DOMAIN t : /\ t[i] \in Dotted
                                /\ i = Len(t) \/ t[i+1] \notin Attached}
      cuts == ends \cup {Len(t)}
      nth(n) == CHOOSE i \in cuts : Cardinality({k \in cuts : k < i}) = n - 1
  IN IF t = <<>> THEN <<>>
     ELSE [n \in 1..Cardinality(cuts) |->
             Part(t, IF n = 1 THEN 1 ELSE nth(n-1) + 1, nth(n) + 1)]

(* Mutant of LongParagraph: an odd last sentence is forgotten. *)
LongPairsOnly(t) ==
  LET ss == Sentences(t)
      complete == Cardinality({n \in DOMAIN ss : Last(ss[n]) \in Dotted})
  IN IF complete < 4 THEN <<Paragraph(t)>>
     ELSE [n \in 1..Len(ss) \div 2 |-> Paragraph(ss[2*n - 1] \o ss[2*n])]

(* splitLongParagraph: four complete sentences or more go in pairs. *)
LongParagraph(t) ==
  LET ss == Sentences(t)
      complete == Cardinality({n \in DOMAIN ss : Last(ss[n]) \in Dotted})
  IN IF complete < 4 THEN <<Paragraph(t)>>
     ELSE [n \in 1..(Len(ss) + 1) \div 2 |->
             Paragraph(IF 2*n <= Len(ss) THEN ss[2*n - 1] \o ss[2*n]
                                         ELSE ss[2*n - 1])]

SplitParagraph(t) == IF Enumeration(t) = <<>> THEN LongParagraph(t)
                                              ELSE Enumeration(t)

-----------------------------------------------------------------------------
(* textOccursInSource. *)
OccursIn(t, source) ==
  LET needle == FoldTokens(TrimTokens(t, {Stop, Comma}))
      hay == FoldTokens(source)
  IN /\ needle # <<>>
     /\ \E i \in DOMAIN hay : /\ i + Len(needle) - 1 <= Len(hay)
                              /\ SubSeq(hay, i, i + Len(needle) - 1) = needle

(* startsParagraphContinuation: it begins with a lower-case letter. *)
Continues(t) == t # <<>> /\ t[1] \notin DOMAIN Lowered
                         /\ t[1] \notin Written \cup Attached

(* Mutant of NormalizeHeading: a heading that is prose is dropped. *)
DropsProse(b, after, source) ==
  CASE after # <<>> /\ after[1].type \in {"numbered", "bullets"}
       /\ OccursIn(b.text, source) -> [blocks |-> <<b>>, used |-> 1]
    [] OTHER -> [blocks |-> <<>>, used |-> 1]

(* What a heading becomes, and how many blocks that takes in: it stays     *)
(* before a list, is dropped when the speaker has not said it or the next  *)
(* paragraph has it, and is prose otherwise, joined with its continuation. *)
NormalizeHeading(b, after, source) ==
  LET next == after[1] IN
  IF ~OccursIn(b.text, source) THEN [blocks |-> <<>>, used |-> 1] ELSE
  CASE after # <<>> /\ next.type \in {"numbered", "bullets"} ->
         [blocks |-> <<b>>, used |-> 1]
    [] after # <<>> /\ next.type = "paragraph"
       /\ OccursIn(b.text, next.text) -> [blocks |-> <<>>, used |-> 1]
    [] after # <<>> /\ next.type = "paragraph"
       /\ ~OccursIn(b.text, next.text) /\ Continues(next.text) ->
         [blocks |-> <<Paragraph(b.text \o next.text)>>, used |-> 2]
    [] OTHER -> [blocks |-> <<Paragraph(b.text)>>, used |-> 1]

(* normalizeFormatterDocument: every paragraph, once a heading has become   *)
(* one, is split.                                                          *)
Normalize(doc, source) ==
  LET taken(i) == IF doc[i].type # "heading" THEN [blocks |-> <<doc[i]>>, used |-> 1]
                  ELSE NormalizeHeading(doc[i], SubSeq(doc, i + 1, Len(doc)), source)
      split(b) == IF b.type = "paragraph" THEN SplitParagraph(b.text) ELSE <<b>>
      rest[i \in 1..Len(doc) + 1] ==
        IF i > Len(doc) THEN <<>>
        ELSE LET h == taken(i) IN
             (IF h.blocks = <<>> THEN <<>> ELSE split(h.blocks[1])) \o rest[i + h.used]
  IN rest[1]

-----------------------------------------------------------------------------
(* renderFormatterDocument: what it accepts ...                            *)
AcceptsBlock(b) ==
  \/ b.type \in {"paragraph", "heading"} /\ b.items = <<>> /\ b.text # <<>>
  \/ /\ b.type \in {"numbered", "bullets"}
     /\ b.text = <<>> /\ Len(b.items) >= 2
     /\ \A n \in DOMAIN b.items : b.items[n] # <<>>

Accepts(doc) == doc # <<>> /\ \A n \in DOMAIN doc : AcceptsBlock(doc[n])

(* ... and the lines it makes of it, each with its number or none.  A      *)
(* marker the model wrote into an item is replaced by the rendered one.    *)
Unmarked(item) ==
  IF Len(item) > 1 /\ item[1] \in Written /\ item[2] \notin Attached
    THEN Tail(item) ELSE item

Line(n, t) == [number |-> n, text |-> t]

Render(doc) ==
  LET lines(b) ==
        CASE b.type \in {"paragraph", "heading"} -> <<Line(0, b.text)>>
          [] OTHER -> [n \in DOMAIN b.items |->
                         Line(IF b.type = "numbered" THEN n ELSE 0,
                              Unmarked(b.items[n]))]
  IN FlattenSeq([k \in DOMAIN doc |-> lines(doc[k])])

(* FormatWithOllama: a document that is not accepted leaves the text as it *)
(* was.                                                                    *)
FormatText(doc, source) ==
  LET repaired == Normalize(doc, source) IN
  IF Accepts(repaired) THEN Render(repaired) ELSE <<Line(0, source)>>
=============================================================================
