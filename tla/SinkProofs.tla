----------------------------- MODULE SinkProofs -----------------------------
(***************************************************************************)
(* Proofs about the telemetry outbox, for any number of events, lost       *)
(* answers, failed removals and crashes: nothing is lost, the remote sees events in order,  *)
(* duplicates have a cause, and no wake-up is lost.                        *)
(***************************************************************************)
EXTENDS LangfuseSink, WellFoundedInduction, TLAPS

(* The next event to be queued is younger than all that were. *)
QueueInv ==
  /\ writing # NoEvent => \A d \in queued : d < writing
  /\ queueDir \subseteq queued /\ entries \subseteq queued
  /\ \A e \in Events : received[e] > 0 => e \in queued

(* Between the answer and the removal the remote has the event. *)
RemoveInv == drainPc = "remove" => received[First(entries)] > 0

Draining == drainPc \in {"next", "export", "remove"}

(* What drain has passed is done with; what it has not listed is younger. *)
PassedInv ==
  Draining => \A d \in queued \ entries :
    received[d] > 0 \/ d \in expired \/ \A e \in entries : e < d

(* What may have kept an answered export from ending in a removal.         *)
Failures == lostAcks + crashes + unremoved

(* An event that is on disk, or about to be exported, has a failure to     *)
(* account for each time the remote has it already.                        *)
CopiesInv ==
  /\ \A e \in queueDir : \/ received[e] <= Failures
                         \/ drainPc = "remove" /\ e = First(entries)
  /\ drainPc = "export" => received[First(entries)] <= Failures

(* Whatever the current drain will not see has left a token, or the remote *)
(* has it.                                                                 *)
WakeInv ==
  /\ Draining \/ drainPc = "wait" =>
       \/ trigger \/ waking \/ failed
       \/ \A e \in queueDir \ entries : received[e] > 0
  /\ drainPc = "wait" => entries = {}

SinkInv == /\ SinkTypeOK /\ QueueInv /\ RemoveInv
           /\ ExportedOrKept /\ PassedInv /\ InOrder
           /\ CopiesInv /\ DuplicatesExplained /\ WakeInv
-----------------------------------------------------------------------------
(* First is the least element: < is well-founded on the naturals. *)
LEMMA FirstIsLeast ==
  ASSUME NEW S \in SUBSET Nat, S # {}
  PROVE  /\ First(S) \in S
         /\ \A d \in S : First(S) <= d
<1> DEFINE R == OpToRel(<, Nat)
<1>1. \A x, y \in Nat : x < y => <<x, y>> \in R
  BY DEF OpToRel
<1>2. IsWellFoundedOn(R, Nat)
  BY NatLessThanWellFounded, Zenon
<1> HIDE DEF R
<1>3. PICK x \in S : \A y \in S : ~(<<y, x>> \in R)
  BY <1>2, WFMin, Zenon
<1>4. \A y \in S : x <= y
  <2> SUFFICES ASSUME NEW y \in S PROVE x <= y
    OBVIOUS
  <2>1. x \in Nat /\ y \in Nat
    OBVIOUS
  <2>2. ~(y < x)
    BY <1>1, <1>3, <2>1, Zenon
  <2>3. QED BY <2>1, <2>2
<1>5. QED BY <1>4, Zenon DEF First

(* The entry drain works on. *)
LEMMA Current ==
  ASSUME SinkTypeOK, entries # {}
  PROVE  /\ First(entries) \in entries /\ First(entries) \in Events
         /\ \A d \in entries : First(entries) <= d
<1>1. entries \in SUBSET Nat
  BY SinkAssumption DEF SinkTypeOK, Events
<1>2. First(entries) \in entries /\ \A d \in entries : First(entries) <= d
  BY <1>1, FirstIsLeast, Zenon
<1>3. QED BY <1>2 DEF SinkTypeOK

(* Facts about numbers that the leaves need. *)
LEMMA Numbers ==
  ASSUME SinkTypeOK
  PROVE  /\ Events \subseteq Nat /\ NoEvent \notin Events
         /\ \A e \in Events : received[e] \in Nat
         /\ lostAcks \in Nat /\ crashes \in Nat /\ unremoved \in Nat
BY SinkAssumption DEF SinkTypeOK, Events, NoEvent

(* What one acknowledged or unacknowledged export does to received. *)
LEMMA OneMore ==
  ASSUME SinkTypeOK, entries # {}, Received(First(entries))
  PROVE  /\ received' \in [Events -> Nat]
         /\ received'[First(entries)] = received[First(entries)] + 1
         /\ \A e \in Events : e # First(entries) => received'[e] = received[e]
         /\ \A e \in Events : received'[e] >= received[e]
<1>1. First(entries) \in Events
  BY Current
<1> DEFINE x == First(entries)
<1> HIDE DEF x
<1>2. received \in [Events -> Nat] /\ x \in Events
      /\ received' = [received EXCEPT ![x] = received[x] + 1]
  BY <1>1 DEF SinkTypeOK, Received, x
<1>3. /\ received' \in [Events -> Nat]
      /\ received'[x] = received[x] + 1
      /\ \A e \in Events : e # x => received'[e] = received[e]
  BY <1>2
<1>4. \A e \in Events : received'[e] >= received[e]
  <2> SUFFICES ASSUME NEW e \in Events PROVE received'[e] >= received[e]
    OBVIOUS
  <2>1. received[e] \in Nat /\ received'[e] \in Nat
    BY <1>2, <1>3
  <2>2. CASE e = x BY <1>3, <2>1, <2>2
  <2>3. CASE e # x BY <1>3, <2>1, <2>3
  <2>4. QED BY <2>2, <2>3
<1>5. QED BY <1>3, <1>4 DEF x
-----------------------------------------------------------------------------
LEMMA TypeStep ==
  ASSUME SinkTypeOK, SinkNext
  PROVE  SinkTypeOK'
<1> USE DEF SinkTypeOK
<1>1. ASSUME NEW e \in Events, QueueWrite(e) PROVE SinkTypeOK'
  BY <1>1 DEF QueueWrite, drainVars, sinkHistory
<1>2. ASSUME NEW e \in Events, CleanupEvent(e) PROVE SinkTypeOK'
  BY <1>2 DEF CleanupEvent, writerVars, drainVars
<1>3. CASE QueueRename
  BY <1>3 DEF QueueRename, drainVars
<1>4. CASE Wake
  BY <1>4 DEF Wake, drainVars, sinkHistory
<1>5. CASE TakeTrigger
  BY <1>5 DEF TakeTrigger, writerVars, sinkHistory, DrainPcs
<1>6. CASE Tick
  BY <1>6 DEF Tick, writerVars, sinkHistory, DrainPcs
<1>7. CASE ReadDir
  BY <1>7 DEF ReadDir, writerVars, sinkHistory, DrainPcs
<1>8. CASE ReadEntry
  BY <1>8 DEF ReadEntry, writerVars, sinkHistory, DrainPcs
<1>9. CASE ExportAcked
  <2>1. drainPc = "export" /\ entries # {}
    BY <1>9 DEF ExportAcked
  <2>2. received' \in [Events -> Nat]
    BY <1>9, <2>1, OneMore DEF ExportAcked
  <2>3. QED BY <1>9, <2>1, <2>2 DEF ExportAcked, writerVars, DrainPcs
<1>10. CASE ExportFails
  BY <1>10 DEF ExportFails, GiveUp, writerVars, sinkHistory, DrainPcs
<1>11. CASE ExportUnacked
  <2>1. drainPc = "export" /\ entries # {}
    BY <1>11 DEF ExportUnacked
  <2>2. received' \in [Events -> Nat]
    BY <1>11, <2>1, OneMore DEF ExportUnacked
  <2>3. QED BY <1>11, <2>1, <2>2 DEF ExportUnacked, GiveUp, writerVars, DrainPcs
<1>12. CASE RemoveEntry
  BY <1>12 DEF RemoveEntry, writerVars, sinkHistory, DrainPcs
<1>a. CASE RemoveFails
  <2>1. unremoved' \in Nat
    BY <1>a DEF RemoveFails
  <2>2. QED BY <1>a, <2>1 DEF RemoveFails, writerVars, DrainPcs
<1>13. CASE CrashSink
  <2>1. crashes' \in Nat
    BY <1>13 DEF CrashSink
  <2>2. QED BY <1>13, <2>1, Zenon DEF CrashSink, DrainPcs
<1>14. CASE StartSink
  BY <1>14 DEF StartSink, writerVars, sinkHistory, DrainPcs
<1>15. QED
  BY <1>1, <1>2, <1>3, <1>4, <1>5, <1>6, <1>7, <1>8, <1>9, <1>10, <1>11, <1>12,
     <1>a, <1>13, <1>14 DEF SinkNext, DrainStep

LEMMA QueueStep ==
  ASSUME SinkTypeOK, QueueInv, SinkNext
  PROVE  QueueInv'
<1> USE DEF QueueInv
<1>1. ASSUME NEW e \in Events, QueueWrite(e) PROVE QueueInv'
  BY <1>1 DEF QueueWrite, drainVars, sinkHistory
<1>2. ASSUME NEW e \in Events, CleanupEvent(e) PROVE QueueInv'
  BY <1>2 DEF CleanupEvent, writerVars, drainVars
<1>3. CASE QueueRename
  BY <1>3 DEF QueueRename, drainVars
<1>4. CASE Wake
  BY <1>4 DEF Wake, drainVars, sinkHistory
<1>5. CASE TakeTrigger \/ Tick \/ StartSink
  BY <1>5 DEF TakeTrigger, Tick, StartSink, writerVars, sinkHistory
<1>6. CASE ReadDir
  BY <1>6 DEF ReadDir, writerVars, sinkHistory
<1>7. CASE ReadEntry
  BY <1>7 DEF ReadEntry, writerVars, sinkHistory
<1>8. CASE ExportAcked \/ ExportUnacked
  <2>1. entries # {} /\ Received(First(entries))
    BY <1>8 DEF ExportAcked, ExportUnacked, SinkTypeOK
  <2>2. First(entries) \in queued
    BY <2>1, Current
  <2>3. \A e \in Events : e # First(entries) => received'[e] = received[e]
    BY <2>1, OneMore
  <2>4. /\ UNCHANGED <<writing, queueDir, queued>>
        /\ entries' \subseteq entries
    BY <1>8 DEF ExportAcked, ExportUnacked, GiveUp, writerVars
  <2>5. QED BY <2>2, <2>3, <2>4
<1>9. CASE ExportFails
  BY <1>9 DEF ExportFails, GiveUp, writerVars, sinkHistory
<1>10. CASE RemoveEntry \/ RemoveFails
  BY <1>10 DEF RemoveEntry, RemoveFails, writerVars, sinkHistory
<1>11. CASE CrashSink
  BY <1>11 DEF CrashSink
<1>12. QED
  BY <1>1, <1>2, <1>3, <1>4, <1>5, <1>6, <1>7, <1>8, <1>9, <1>10, <1>11
  DEF SinkNext, DrainStep

(* Steps after which a copy stays where it was: the remote loses nothing. *)
LEMMA ReceivedGrows ==
  ASSUME SinkTypeOK, SinkNext
  PROVE  \A e \in Events : received[e] > 0 => received'[e] > 0
<1>1. CASE ExportAcked \/ ExportUnacked
  <2>1. entries # {} /\ Received(First(entries))
    BY <1>1 DEF ExportAcked, ExportUnacked, SinkTypeOK
  <2>2. SinkTypeOK' BY TypeStep
  <2> SUFFICES ASSUME NEW e \in Events, received[e] > 0 PROVE received'[e] > 0
    OBVIOUS
  <2>3. received[e] \in Nat /\ received'[e] \in Nat
    BY <2>2 DEF SinkTypeOK
  <2>4. received'[e] >= received[e]
    BY <2>1, OneMore
  <2>5. QED BY <2>3, <2>4
<1>2. CASE ~(ExportAcked \/ ExportUnacked)
  <2>1. received' = received
    BY <1>2 DEF SinkNext, DrainStep, QueueWrite, CleanupEvent, QueueRename, Wake,
      TakeTrigger, Tick, ReadDir, ReadEntry, ExportFails, RemoveEntry, RemoveFails, CrashSink,
      StartSink, sinkHistory
  <2>2. QED BY <2>1
<1>3. QED BY <1>1, <1>2

LEMMA RemoveStep ==
  ASSUME SinkTypeOK, RemoveInv, SinkNext
  PROVE  RemoveInv'
<1> USE DEF RemoveInv
<1>1. CASE ExportAcked
  <2>1. entries # {} /\ Received(First(entries)) /\ entries' = entries
    BY <1>1 DEF ExportAcked, SinkTypeOK
  <2>2. received'[First(entries)] = received[First(entries)] + 1
    BY <2>1, OneMore
  <2>3. received[First(entries)] \in Nat
    BY <2>1, Current, Numbers
  <2>4. received'[First(entries)] > 0
    BY <2>2, <2>3
  <2>5. QED BY <2>1, <2>4
<1>2. CASE ~ExportAcked
  <2>1. drainPc' = "remove" => drainPc = "remove" /\ UNCHANGED <<entries, received>>
    BY <1>2 DEF SinkNext, DrainStep, QueueWrite, CleanupEvent, QueueRename, Wake,
      TakeTrigger, Tick, ReadDir, ReadEntry, ExportFails, ExportUnacked, GiveUp,
      RemoveEntry, RemoveFails, CrashSink, StartSink, sinkHistory, drainVars
  <2>2. QED BY <2>1
<1>3. QED BY <1>1, <1>2
-----------------------------------------------------------------------------
(* Nothing is lost. *)
LEMMA KeptStep ==
  ASSUME SinkTypeOK, QueueInv, RemoveInv, ExportedOrKept, SinkNext
  PROVE  ExportedOrKept'
<1> SUFFICES ASSUME NEW e \in queued'
             PROVE  e \in queueDir' \cup expired' \/ received'[e] > 0
  BY DEF ExportedOrKept
<1>1. e \in Events
  BY TypeStep DEF SinkTypeOK
<1>2. CASE received[e] > 0
  BY <1>1, <1>2, ReceivedGrows
<1>3. CASE QueueRename
  BY <1>2, <1>3, <1>1, ReceivedGrows DEF QueueRename, ExportedOrKept
<1>4. ASSUME NEW d \in Events, CleanupEvent(d)
      PROVE  e \in queueDir' \cup expired' \/ received'[e] > 0
  BY <1>4 DEF CleanupEvent, ExportedOrKept
<1>5. CASE RemoveEntry
  BY <1>2, <1>5 DEF RemoveEntry, RemoveInv, ExportedOrKept, sinkHistory
<1>6. ASSUME ~QueueRename, ~RemoveEntry, ~ \E d \in Events : CleanupEvent(d)
      PROVE  UNCHANGED <<queueDir, queued, expired>>
  BY <1>6 DEF SinkNext, DrainStep, QueueWrite, Wake, TakeTrigger, Tick, ReadDir,
    ReadEntry, ExportAcked, ExportFails, ExportUnacked, GiveUp, RemoveFails, CrashSink,
    StartSink, sinkHistory
<1>7. QED
  BY <1>1, <1>2, <1>3, <1>4, <1>5, <1>6 DEF ExportedOrKept

(* A drain never leaves an event behind that it has passed: ReadDir lists  *)
(* everything that is left, ReadEntry skips only what Cleanup removed, and *)
(* RemoveEntry and RemoveFails what the remote has.                        *)
LEMMA PassedStep ==
  ASSUME SinkTypeOK, QueueInv, RemoveInv, ExportedOrKept, PassedInv, SinkNext
  PROVE  PassedInv'
<1> SUFFICES ASSUME Draining', NEW d \in queued' \ entries'
             PROVE  \/ received'[d] > 0 \/ d \in expired'
                    \/ \A e \in entries' : e < d
  BY DEF PassedInv
<1>0. d \in Events
  BY TypeStep DEF SinkTypeOK
<1>1. CASE received[d] > 0
  BY <1>0, <1>1, ReceivedGrows
<1>2. CASE ReadDir
  BY <1>1, <1>2 DEF ReadDir, ExportedOrKept, writerVars, sinkHistory
<1>3. CASE QueueRename
  <2>1. Draining /\ entries' = entries
    BY <1>3 DEF QueueRename, Draining, drainVars
  <2>2. CASE d = writing
    BY <1>3, <2>1, <2>2 DEF QueueRename, QueueInv
  <2>3. CASE d # writing
    BY <1>1, <1>3, <2>1, <2>3 DEF QueueRename, PassedInv
  <2>4. QED BY <2>2, <2>3
<1>4. CASE ReadEntry
  <2>1. Draining /\ UNCHANGED <<queued, expired>> /\ entries' \subseteq entries
    BY <1>4 DEF ReadEntry, Draining, writerVars, sinkHistory
  <2>2. CASE d \in entries
    BY <1>1, <1>4, <2>1, <2>2 DEF ReadEntry, ExportedOrKept
  <2>3. CASE d \notin entries
    BY <1>1, <2>1, <2>3 DEF PassedInv
  <2>4. QED BY <2>2, <2>3
<1>5. CASE RemoveEntry \/ RemoveFails
  <2>1. Draining /\ UNCHANGED <<queued, expired>> /\ entries' \subseteq entries
    BY <1>5 DEF RemoveEntry, RemoveFails, Draining, writerVars, sinkHistory
  <2>2. CASE d \in entries
    BY <1>1, <1>5, <2>2 DEF RemoveEntry, RemoveFails, RemoveInv
  <2>3. CASE d \notin entries
    BY <1>1, <2>1, <2>3 DEF PassedInv
  <2>4. QED BY <2>2, <2>3
<1>6. ASSUME NEW e \in Events, CleanupEvent(e)
      PROVE  \/ received'[d] > 0 \/ d \in expired' \/ \A c \in entries' : c < d
  BY <1>1, <1>6 DEF CleanupEvent, Draining, PassedInv, drainVars
<1>7. ASSUME ~ReadDir, ~QueueRename, ~ReadEntry, ~RemoveEntry, ~RemoveFails,
             ~ \E e \in Events : CleanupEvent(e)
      PROVE  Draining /\ UNCHANGED <<queued, entries, expired>>
  BY <1>7 DEF SinkNext, DrainStep, QueueWrite, Wake, TakeTrigger, Tick, ExportAcked,
    ExportFails, ExportUnacked, GiveUp, CrashSink, StartSink, Draining, drainVars,
    sinkHistory
<1>8. CASE Draining /\ UNCHANGED <<queued, entries, expired>>
  BY <1>1, <1>8 DEF PassedInv
<1>9. QED BY <1>2, <1>3, <1>4, <1>5, <1>6, <1>7, <1>8

(* What is exported is the oldest event of the listing, and what the drain *)
(* has passed is done with.                                                *)
LEMMA OrderStep ==
  ASSUME SinkTypeOK, QueueInv, PassedInv, InOrder, SinkNext
  PROVE  InOrder'
<1> SUFFICES ASSUME NEW e \in queued', received'[e] > 0, NEW d \in queued', d < e
             PROVE  received'[d] > 0 \/ d \in expired'
  BY DEF InOrder
<1>0. e \in Events /\ d \in Events
  BY TypeStep DEF SinkTypeOK
<1>1. expired \subseteq expired'
  BY DEF SinkNext, DrainStep, QueueWrite, CleanupEvent, QueueRename, Wake, TakeTrigger,
    Tick, ReadDir, ReadEntry, ExportAcked, ExportFails, ExportUnacked, RemoveEntry,
    RemoveFails, CrashSink, StartSink, sinkHistory
<1>2. CASE received[d] > 0 \/ d \in expired
  BY <1>0, <1>1, <1>2, ReceivedGrows
<1>3. CASE ExportAcked \/ ExportUnacked
  <2>1. /\ Draining /\ entries # {} /\ Received(First(entries))
        /\ queued' = queued
    BY <1>3 DEF ExportAcked, ExportUnacked, SinkTypeOK, Draining
  <2>2. CASE e = First(entries)
    <3>1. e \in entries /\ \A c \in entries : e <= c
      BY <2>1, <2>2, Current
    <3>2. e \in Nat /\ d \in Nat /\ ~(e <= d) /\ ~(e < d)
      BY <1>0, Numbers
    <3>3. d \notin entries
      BY <3>1, <3>2
    <3>4. QED BY <1>2, <2>1, <3>1, <3>2, <3>3 DEF PassedInv
  <2>3. CASE e # First(entries)
    BY <1>0, <1>2, <2>1, <2>3, OneMore DEF InOrder
  <2>4. QED BY <2>2, <2>3
<1>4. CASE QueueRename
  <2>1. received' = received /\ e \in queued
    BY <1>0, <1>4 DEF QueueRename, QueueInv
  <2>2. CASE d \in queued
    BY <1>2, <2>1, <2>2 DEF InOrder
  <2>3. CASE d \notin queued
    <3>1. d = writing /\ writing # NoEvent
      BY <1>4, <2>3 DEF QueueRename
    <3>2. e < d
      BY <2>1, <3>1 DEF QueueInv
    <3>3. e \in Nat /\ d \in Nat
      BY <1>0, Numbers
    <3>4. QED BY <3>2, <3>3
  <2>4. QED BY <2>2, <2>3
<1>5. ASSUME ~(ExportAcked \/ ExportUnacked), ~QueueRename
      PROVE  UNCHANGED <<queued, received>>
  BY <1>5 DEF SinkNext, DrainStep, QueueWrite, CleanupEvent, Wake, TakeTrigger, Tick,
    ReadDir, ReadEntry, ExportFails, RemoveEntry, RemoveFails, CrashSink, StartSink, sinkHistory
<1>6. CASE UNCHANGED <<queued, received>>
  BY <1>2, <1>6 DEF InOrder
<1>7. QED BY <1>3, <1>4, <1>5, <1>6
-----------------------------------------------------------------------------
(* The number of copies is bounded by the failures so far. *)
LEMMA FailuresGrow ==
  ASSUME SinkTypeOK, SinkNext
  PROVE  /\ Failures \in Nat /\ Failures' \in Nat /\ Failures <= Failures'
         /\ CrashSink \/ ExportUnacked \/ RemoveFails => Failures' = Failures + 1
<1>1. /\ lostAcks \in Nat /\ crashes \in Nat /\ unremoved \in Nat
      /\ lostAcks' \in Nat /\ crashes' \in Nat /\ unremoved' \in Nat
  BY TypeStep DEF SinkTypeOK
<1>2. CASE CrashSink
  BY <1>1, <1>2 DEF CrashSink, Failures
<1>3. CASE ExportUnacked
  BY <1>1, <1>3 DEF ExportUnacked, Failures
<1>a. CASE RemoveFails
  BY <1>1, <1>a DEF RemoveFails, Failures
<1>4. CASE ~CrashSink /\ ~ExportUnacked /\ ~RemoveFails
  <2>1. UNCHANGED <<lostAcks, crashes, unremoved>>
    BY <1>4 DEF SinkNext, DrainStep, QueueWrite, CleanupEvent, QueueRename, Wake,
      TakeTrigger, Tick, ReadDir, ReadEntry, ExportAcked, ExportFails, RemoveEntry,
      RemoveFails, StartSink, sinkHistory
  <2>2. QED BY <1>1, <1>4, <2>1 DEF Failures
<1>5. QED BY <1>2, <1>3, <1>a, <1>4

(* What an export adds; every other step leaves received alone. *)
LEMMA CopiesGrow ==
  ASSUME SinkTypeOK, SinkNext, NEW e \in Events
  PROVE  /\ received[e] \in Nat /\ received'[e] \in Nat
         /\ \/ received'[e] = received[e]
            \/ /\ ExportAcked \/ ExportUnacked
               /\ drainPc = "export" /\ e = First(entries)
               /\ received'[e] = received[e] + 1
<1>1. received[e] \in Nat /\ received'[e] \in Nat
  BY TypeStep DEF SinkTypeOK
<1>2. CASE ExportAcked \/ ExportUnacked
  <2>1. drainPc = "export" /\ entries # {} /\ Received(First(entries))
    BY <1>2 DEF ExportAcked, ExportUnacked, SinkTypeOK
  <2>2. QED BY <1>1, <1>2, <2>1, OneMore
<1>3. CASE ~(ExportAcked \/ ExportUnacked)
  <2>1. received' = received
    BY <1>3 DEF SinkNext, DrainStep, QueueWrite, CleanupEvent, QueueRename, Wake,
      TakeTrigger, Tick, ReadDir, ReadEntry, ExportFails, RemoveEntry, RemoveFails, CrashSink,
      StartSink, sinkHistory
  <2>2. QED BY <1>1, <2>1
<1>4. QED BY <1>2, <1>3

LEMMA DuplicatesStep ==
  ASSUME SinkTypeOK, CopiesInv, DuplicatesExplained, SinkNext
  PROVE  DuplicatesExplained'
<1> SUFFICES ASSUME NEW e \in Events
             PROVE  received'[e] <= 1 + lostAcks' + crashes' + unremoved'
  BY DEF DuplicatesExplained
<1>1. received[e] \in Nat /\ received'[e] \in Nat
  BY CopiesGrow
<1>2. /\ lostAcks \in Nat /\ crashes \in Nat /\ unremoved \in Nat
      /\ lostAcks' \in Nat /\ crashes' \in Nat /\ unremoved' \in Nat
  BY TypeStep DEF SinkTypeOK
<1>3. Failures \in Nat /\ Failures' \in Nat /\ Failures <= Failures'
  BY FailuresGrow
<1>4. /\ 1 + lostAcks + crashes + unremoved = 1 + Failures
      /\ 1 + lostAcks' + crashes' + unremoved' = 1 + Failures'
  BY <1>2 DEF Failures
<1>5. received'[e] <= 1 + Failures'
  <2>1. CASE received'[e] = received[e]
    <3>1. received[e] <= 1 + Failures
      BY <1>4 DEF DuplicatesExplained
    <3>2. QED BY <1>1, <1>3, <2>1, <3>1
  <2>2. CASE /\ drainPc = "export" /\ e = First(entries)
             /\ received'[e] = received[e] + 1
    <3>1. received[e] <= Failures
      BY <2>2 DEF CopiesInv
    <3>2. QED BY <1>1, <1>3, <2>2, <3>1
  <2>3. QED BY <2>1, <2>2, CopiesGrow
<1>6. QED BY <1>4, <1>5

(* A copy that is still on disk is paid for: removal waits for the answer, *)
(* and what keeps the removal from happening is counted.                   *)
LEMMA CopiesStep ==
  ASSUME SinkTypeOK, QueueInv, CopiesInv, DuplicatesExplained, SinkNext
  PROVE  CopiesInv'
<1>1. /\ Failures \in Nat /\ Failures' \in Nat /\ Failures <= Failures'
      /\ CrashSink \/ ExportUnacked \/ RemoveFails => Failures' = Failures + 1
  BY FailuresGrow
<1>2. ASSUME NEW e \in queueDir'
      PROVE  \/ received'[e] <= Failures'
             \/ drainPc' = "remove" /\ e = First(entries')
  <2>1. e \in Events
    BY TypeStep DEF SinkTypeOK
  <2>2. received[e] \in Nat /\ received'[e] \in Nat
    BY <2>1, CopiesGrow
  <2>3. CASE ExportAcked /\ e = First(entries)
    BY <2>3 DEF ExportAcked
  <2>4. CASE ExportUnacked /\ e = First(entries)
    <3>1. received[e] <= Failures
      BY <2>4 DEF CopiesInv, ExportUnacked
    <3>2. received'[e] <= received[e] + 1
      BY <2>1, <2>2, CopiesGrow
    <3>3. QED BY <1>1, <2>2, <2>4, <3>1, <3>2
  <2>5. CASE /\ ~(ExportAcked /\ e = First(entries))
             /\ ~(ExportUnacked /\ e = First(entries))
    <3>1. received'[e] = received[e]
      BY <2>1, <2>5, CopiesGrow
    <3>2. CASE QueueRename
      <4>1. e \in queueDir \/ e = writing
        BY <3>2 DEF QueueRename
      <4>2. CASE e \in queueDir
        BY <1>1, <2>2, <3>1, <3>2, <4>2 DEF QueueRename, CopiesInv, drainVars
      <4>3. CASE e = writing
        <5>1. e \notin queued
          <6> SUFFICES ASSUME e \in queued PROVE FALSE
            OBVIOUS
          <6>1. writing # NoEvent /\ e < e
            BY <3>2, <4>3 DEF QueueRename, QueueInv
          <6>2. e \in Nat
            BY <2>1, Numbers
          <6>3. QED BY <6>1, <6>2
        <5>2. ~(received[e] > 0)
          BY <2>1, <5>1 DEF QueueInv
        <5>3. QED BY <1>1, <2>2, <3>1, <5>2
      <4>4. QED BY <4>1, <4>2, <4>3
    <3>3. CASE ~QueueRename
      <4>1. e \in queueDir
        BY <3>3 DEF SinkNext, DrainStep, QueueWrite, CleanupEvent, Wake, TakeTrigger,
          Tick, ReadDir, ReadEntry, ExportAcked, ExportFails, ExportUnacked,
          RemoveEntry, RemoveFails, CrashSink, StartSink, sinkHistory
      <4>2. CASE received[e] <= Failures
        BY <1>1, <2>2, <3>1, <4>2
      <4>3. CASE drainPc = "remove" /\ e = First(entries)
        <5>1. CASE CrashSink \/ RemoveFails
          <6>1. received[e] <= 1 + lostAcks + crashes + unremoved
            BY <2>1 DEF DuplicatesExplained
          <6>a. 1 + lostAcks + crashes + unremoved = 1 + Failures
            BY Numbers DEF Failures
          <6>2. QED BY <1>1, <2>2, <3>1, <5>1, <6>1, <6>a
        <5>2. CASE RemoveEntry
          BY <4>3, <5>2 DEF RemoveEntry
        <5>3. CASE ~CrashSink /\ ~RemoveEntry /\ ~RemoveFails
          <6>1. UNCHANGED drainVars
            BY <3>3, <4>3, <5>3 DEF SinkNext, DrainStep, QueueWrite, CleanupEvent,
              Wake, TakeTrigger, Tick, ReadDir, ReadEntry, ExportAcked, ExportFails,
              ExportUnacked, StartSink
          <6>2. QED BY <4>3, <6>1 DEF drainVars
        <5>4. QED BY <5>1, <5>2, <5>3
      <4>4. QED BY <4>1, <4>2, <4>3 DEF CopiesInv
    <3>4. QED BY <3>2, <3>3
  <2>6. QED BY <2>3, <2>4, <2>5
<1>3. ASSUME drainPc' = "export"
      PROVE  received'[First(entries')] <= Failures'
  <2>1. SinkTypeOK'
    BY TypeStep
  <2>2. CASE drainPc = "export"
    <3>1. UNCHANGED <<entries, received>>
      BY <1>3, <2>2 DEF SinkNext, DrainStep, QueueWrite, CleanupEvent, QueueRename,
        Wake, TakeTrigger, Tick, ReadDir, ReadEntry, ExportAcked, ExportFails,
        ExportUnacked, GiveUp, RemoveEntry, RemoveFails, CrashSink, StartSink, drainVars, sinkHistory
    <3>2. entries # {}
      BY <2>2 DEF SinkTypeOK
    <3>3. received[First(entries)] \in Nat /\ received[First(entries)] <= Failures
      BY <2>2, <3>2, Current, Numbers DEF CopiesInv
    <3>4. QED BY <1>1, <3>1, <3>3
  <2>3. CASE drainPc # "export"
    <3>1. ReadEntry
      BY <1>3, <2>3 DEF SinkNext, DrainStep, QueueWrite, CleanupEvent, QueueRename,
        Wake, TakeTrigger, Tick, ReadDir, ExportAcked, ExportFails, ExportUnacked,
        GiveUp, RemoveEntry, RemoveFails, CrashSink, StartSink, drainVars
    <3>2. /\ drainPc = "next" /\ First(entries) \in queueDir
          /\ UNCHANGED <<entries, received, Failures>>
      BY <1>3, <3>1 DEF ReadEntry, sinkHistory, Failures
    <3>3. QED BY <3>2 DEF CopiesInv
  <2>4. QED BY <2>2, <2>3
<1>4. QED BY <1>2, <1>3 DEF CopiesInv

(* The token is taken before the listing, so an event that the listing     *)
(* misses still has its own token to come.                                 *)
LEMMA WakeStep ==
  ASSUME SinkTypeOK, RemoveInv, WakeInv, SinkNext
  PROVE  WakeInv'
<1> USE DEF WakeInv, Draining
<1>0. queueDir \subseteq Events /\ \A e \in Events : received[e] > 0 => received'[e] > 0
  BY ReceivedGrows DEF SinkTypeOK
<1>1. ASSUME NEW e \in Events, QueueWrite(e) PROVE WakeInv'
  BY <1>1 DEF QueueWrite, drainVars, sinkHistory
<1>2. ASSUME NEW e \in Events, CleanupEvent(e) PROVE WakeInv'
  BY <1>2 DEF CleanupEvent, writerVars, drainVars
<1>3. CASE QueueRename
  BY <1>3 DEF QueueRename, drainVars
<1>4. CASE Wake
  BY <1>4 DEF Wake, drainVars, sinkHistory
<1>5. CASE TakeTrigger \/ Tick \/ StartSink
  BY <1>5 DEF TakeTrigger, Tick, StartSink, writerVars, sinkHistory
<1>6. CASE ReadDir
  BY <1>6 DEF ReadDir, sinkHistory
<1>7. CASE ReadEntry
  BY <1>7 DEF ReadEntry, writerVars, sinkHistory
<1>8. CASE ExportAcked
  BY <1>0, <1>8 DEF ExportAcked, writerVars
<1>9. CASE ExportFails \/ ExportUnacked
  BY <1>9 DEF ExportFails, ExportUnacked, GiveUp
<1>10. CASE RemoveEntry
  BY <1>10 DEF RemoveEntry, writerVars, sinkHistory
<1>a. CASE RemoveFails
  BY <1>a DEF RemoveFails, writerVars, RemoveInv
<1>11. CASE CrashSink
  BY <1>11 DEF CrashSink
<1>12. QED
  BY <1>1, <1>2, <1>3, <1>4, <1>5, <1>6, <1>7, <1>8, <1>9, <1>10, <1>a,
     <1>11
  DEF SinkNext, DrainStep
-----------------------------------------------------------------------------
LEMMA SinkInitially == SinkInit => SinkInv
<1> SUFFICES ASSUME SinkInit PROVE SinkInv
  OBVIOUS
<1>1. SinkTypeOK
  BY DEF SinkInit, SinkTypeOK, DrainPcs, NoEvent
<1>2. QueueInv /\ RemoveInv /\ ExportedOrKept /\ PassedInv /\ InOrder /\ WakeInv
  BY DEF SinkInit, QueueInv, RemoveInv, ExportedOrKept, PassedInv, InOrder, WakeInv,
    Draining
<1>3. CopiesInv /\ DuplicatesExplained
  BY DEF SinkInit, CopiesInv, DuplicatesExplained
<1>4. QED BY <1>1, <1>2, <1>3 DEF SinkInv

LEMMA SinkStep == SinkInv /\ [SinkNext]_sinkVars => SinkInv'
<1> SUFFICES ASSUME SinkInv, [SinkNext]_sinkVars PROVE SinkInv'
  OBVIOUS
<1> USE DEF SinkInv
<1>1. CASE SinkNext
  <2>1. SinkTypeOK' /\ QueueInv' /\ RemoveInv'
    BY <1>1, TypeStep, QueueStep, RemoveStep
  <2>2. ExportedOrKept' /\ PassedInv' /\ InOrder'
    BY <1>1, KeptStep, PassedStep, OrderStep
  <2>3. CopiesInv' /\ DuplicatesExplained' /\ WakeInv'
    BY <1>1, CopiesStep, DuplicatesStep, WakeStep
  <2>4. QED BY <2>1, <2>2, <2>3
<1>2. CASE UNCHANGED sinkVars
  <2> USE <1>2 DEF sinkVars, writerVars, drainVars, sinkHistory
  <2>1. SinkTypeOK'
    BY DEF SinkTypeOK
  <2>2. QueueInv' /\ RemoveInv' /\ WakeInv'
    BY DEF QueueInv, RemoveInv, WakeInv, Draining
  <2>3. ExportedOrKept' /\ PassedInv' /\ InOrder'
    BY DEF ExportedOrKept, PassedInv, InOrder, Draining
  <2>4. CopiesInv' /\ DuplicatesExplained'
    BY DEF CopiesInv, DuplicatesExplained, Failures
  <2>5. QED BY <2>1, <2>2, <2>3, <2>4
<1>3. QED BY <1>1, <1>2

(* The inductive invariant of the outbox. *)
THEOREM SinkInvariant == SinkSpec => []SinkInv
BY SinkInitially, SinkStep, PTL DEF SinkSpec

(* Type correctness of the outbox (LangfuseSink and its queue directory). *)
THEOREM SinkTypes == SinkSpec => []SinkTypeOK
<1>1. SinkInv => SinkTypeOK BY DEF SinkInv
<1>2. QED BY <1>1, SinkInvariant, PTL

(* No event is lost: a queued event is on disk, exported, or expired. *)
THEOREM NothingLost == SinkSpec => []ExportedOrKept
<1>1. SinkInv => ExportedOrKept BY DEF SinkInv
<1>2. QED BY <1>1, SinkInvariant, PTL

(* The remote never gets an event before an earlier one that is kept. *)
THEOREM ExportedInOrder == SinkSpec => []InOrder
<1>1. SinkInv => InOrder BY DEF SinkInv
<1>2. QED BY <1>1, SinkInvariant, PTL

(* Each further copy of an event has a lost answer, a crash or a failed    *)
(* removal to blame.                                                       *)
THEOREM CopiesExplained == SinkSpec => []DuplicatesExplained
<1>1. SinkInv => DuplicatesExplained BY DEF SinkInv
<1>2. QED BY <1>1, SinkInvariant, PTL

(* The exporter never sleeps on an event that the remote has not got       *)
(* without a token or a failed export.                                     *)
THEOREM ExporterWakes == SinkSpec => []NoLostWakeup
<1>1. SinkInv => NoLostWakeup
  BY DEF SinkInv, WakeInv, SinkTypeOK, NoLostWakeup
<1>2. QED BY <1>1, SinkInvariant, PTL
=============================================================================
