----------------------------- MODULE Vocabulary -----------------------------
(***************************************************************************)
(* The vocabulary store (VocabularyStore in                                *)
(* internal/dictation/vocabulary.go): one JSON file, every operation under *)
(* s.mu and every save a rename, so a crash leaves the file before or      *)
(* after an operation.  A corrected transcript teaches several aliases,    *)
(* one addCanonical each: other commands and a crash come between them.    *)
(***************************************************************************)
EXTENDS Phrases

CONSTANTS
  Terms,        \* what the user adds as canonical spellings
  Edits,        \* <<raw, corrected>>: transcripts and their corrections
  MaxEntries    \* bound: entries from which nothing more is added

ASSUME VocabularyAssumption == /\ Terms \subseteq Seq(Nat)
                               /\ Edits \subseteq Seq(Nat) \X Seq(Nat)

VARIABLES
  entries,    \* the file
  pending     \* what LearnFromCorrection has found and not stored yet

vocabularyVars == <<entries, pending>>

SameTerm(c, d) == Fold(c) = Fold(d)

(* Mutant of AddAlias: an entry is found by its exact spelling only. *)
AddAliasExact(list, c, alias) ==
  LET known == {n \in DOMAIN list : list[n].canonical = c}
      fresh == <<alias>>
  IN IF known = {} THEN Append(list, [canonical |-> c,
                        aliases |-> IF alias = <<>> THEN <<>> ELSE fresh])
     ELSE LET n == SmallestOf(known) IN
       IF alias = <<>> THEN list
       ELSE [list EXCEPT ![n].aliases = Append(@, alias)]

(* addCanonical: an alias joins the entry that is spelled alike in any     *)
(* case, once; without such an entry there is a new one.  The entries that *)
(* normalizeVocabularyEntry goes over first are its own work, which it     *)
(* leaves as they are; those of the older format, with one Heard and one   *)
(* Replacement, are written by no version that is modelled.                *)
AddAlias(list, c, alias) ==
  LET known == {n \in DOMAIN list : SameTerm(list[n].canonical, c)}
      proper == IF alias = <<>> \/ SameTerm(alias, c) THEN <<>> ELSE <<alias>>
  IN IF known = {} THEN Append(list, [canonical |-> c, aliases |-> proper])
     ELSE LET n == SmallestOf(known)
              taken == \E m \in DOMAIN list[n].aliases :
                         SameTerm(list[n].aliases[m], alias)
          IN IF proper = <<>> \/ taken THEN list
             ELSE [list EXCEPT ![n].aliases = Append(@, alias)]

AddCanonical(c) ==
  /\ Len(entries) < MaxEntries
  /\ entries' = AddAlias(Listing(entries), c, <<>>)
  /\ UNCHANGED pending

Delete(n) ==
  /\ entries' = RemoveAt(Listing(entries), n)
  /\ UNCHANGED pending

(* CorrectHistory holds lifecycleMu: one correction at a time. *)
LearnFromCorrection(raw, corrected) ==
  /\ pending = <<>> /\ Len(entries) < MaxEntries
  /\ pending' = Learned(raw, corrected)
  /\ UNCHANGED entries

LearnAlias ==
  /\ pending # <<>>
  /\ entries' = AddAlias(Listing(entries), Head(pending).canonical,
                         Head(pending).alias)
  /\ pending' = Tail(pending)

LearnFromSelection(raw, selected) ==
  LET found == LearnedFromSelection(raw, selected) IN
  /\ found # <<>> /\ Len(entries) < MaxEntries
  /\ entries' = AddAlias(Listing(entries), found[1].canonical, found[1].alias)
  /\ UNCHANGED pending

Crash == /\ pending # <<>> /\ pending' = <<>>
         /\ UNCHANGED entries

VocabularyInit == entries = <<>> /\ pending = <<>>

VocabularyNext ==
  \/ \E c \in Terms : AddCanonical(c)
  \/ \E n \in DOMAIN entries : Delete(n)
  \/ \E e \in Edits : \/ LearnFromCorrection(e[1], e[2])
                      \/ LearnFromSelection(e[1], e[2])
  \/ LearnAlias
  \/ Crash
-----------------------------------------------------------------------------
(* One entry per spelling in any case, and under it one alias per spelling *)
(* other than its own, however commands and learning interleave            *)
(* (addCanonical, addAlias).                                               *)
UniqueEntries ==
  /\ \A m, n \in DOMAIN entries :
       SameTerm(entries[m].canonical, entries[n].canonical) => m = n
  /\ \A n \in DOMAIN entries :
       LET all == <<entries[n].canonical>> \o entries[n].aliases IN
       \A i, k \in DOMAIN all : SameTerm(all[i], all[k]) => i = k

HeardBy(e) == {e.canonical} \cup ToSet(e.aliases)

(* vocabulary.go:194: "Longest phrases run first, which makes a full name  *)
(* win over a short name".  A transcript that is what one entry hears is   *)
(* written as that entry has it, although other entries hear parts of it;  *)
(* but only when no correction changes that spelling, for what one         *)
(* correction writes is what the next one reads (Apply).                   *)
FullNameWins == \A e \in ToSet(entries) : \A h \in HeardBy(e) :
  /\ \A f \in ToSet(entries) \ {e} : \A o \in HeardBy(f) : ~SameTerm(o, h)
  /\ \A c \in ToSet(Corrections(entries)) :
       ReplaceWholePhrase(e.canonical, c.heard, c.canonical) = e.canonical
  => Apply(h, entries) = e.canonical
=============================================================================
