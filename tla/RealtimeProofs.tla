--------------------------- MODULE RealtimeProofs ---------------------------
(***************************************************************************)
(* Proofs about one realtime dictation, for any channel capacity and any   *)
(* number of chunks, early segments and errors: the text has no gap, and   *)
(* it is complete unless the remote or the capture goroutine broke the     *)
(* protocol.                                                               *)
(***************************************************************************)
EXTENDS Realtime, TLAPS

(* Segments that follow one another, from chunk n on. *)
Linked(s) == \A i \in 2..Len(s) : s[i][1] = s[i-1][2]
Chain(s, n) == Linked(s) /\ (s # <<>> => s[1][1] = n)
EndOf(s, n) == IF s = <<>> THEN n ELSE s[Len(s)][2]

(* Where the text of each stage ends. *)
Taken == EndOf(result, 0)
Queued == EndOf(committed, Taken)
Read == EndOf(held, Queued)

(* The events es lead from chunk n to chunk c: f[i] is where the text ends *)
(* after the first i of them.                                              *)
Steps(es, f) == \A i \in 1..Len(es) :
  IF es[i] = Error THEN f[i] = f[i-1]
                   ELSE es[i][1] = f[i-1] /\ f[i] = es[i][2]
Leads(es, n, c) == \E f \in [0..Len(es) -> Nat] :
  f[0] = n /\ f[Len(es)] = c /\ Steps(es, f)

(* From the first word on, result, committed, held and net hold one text   *)
(* without a gap, up to what the remote has covered.                       *)
ChainInv == /\ Chain(result, 0) /\ Chain(committed, Taken) /\ Chain(held, Queued)
            /\ Leads(net, Read, covered)

(* Nothing is taken before Commit waits for it. *)
Early == {"recording", "stopping", "committing", "waiting"}
EarlyInv == stop \in Early => result = <<>>

(* Chunks are sent one by one while the connection lives. *)
SentInv == /\ covered <= sent /\ sent <= spoken
           /\ capture = "sending" => sent < spoken
           /\ conn # "dead" => spoken <= (IF capture = "sending" THEN sent + 1 ELSE sent)

(* Once Commit has asked, and unless the capture goroutine was late, all   *)
(* that was spoken has been sent.                                          *)
AskedInv == /\ stop \in {"recording", "stopping"} => ~late
            /\ asked => stop \notin {"recording", "stopping", "committing"}
            /\ stop \notin {"recording", "stopping"} /\ ~late => capture = "ended"
            /\ asked /\ ~late => sent = spoken

(* When the remote only answers, it answers with everything. *)
AllEnd(s) == \A i \in 1..Len(s) : asked /\ s[i][2] = spoken
NetEnd == \A i \in 1..Len(net) : net[i] # Error => asked /\ net[i][2] = spoken
CompleteInv == unasked = 0 /\ ~late =>
  AllEnd(result) /\ AllEnd(committed) /\ AllEnd(held) /\ NetEnd

RealtimeInv == /\ RealtimeTypeOK /\ SentInv
               /\ EarlyInv /\ ChainInv /\ AskedInv /\ CompleteInv
-----------------------------------------------------------------------------
(* A segment that starts where the text ends makes it longer. *)
LEMMA ChainAppend ==
  ASSUME NEW s \in Seq(Segment), NEW g \in Segment, NEW n \in Nat,
         Chain(s, n), g[1] = EndOf(s, n)
  PROVE  /\ Append(s, g) \in Seq(Segment) /\ Chain(Append(s, g), n)
         /\ EndOf(Append(s, g), n) = g[2]
<1> DEFINE t == Append(s, g)
<1>1. /\ t \in Seq(Segment) /\ Len(t) = Len(s) + 1 /\ t[Len(s) + 1] = g
      /\ \A i \in 1..Len(s) : t[i] = s[i]
      /\ t # <<>> /\ Len(s) \in Nat
  OBVIOUS
<1> HIDE DEF t
<1>2. EndOf(t, n) = g[2]
  BY <1>1 DEF EndOf
<1>3. CASE s = <<>>
  <2>1. Len(s) = 0 /\ Len(t) = 1 /\ t[1] = g
    BY <1>1, <1>3
  <2>2. QED BY <1>1, <1>2, <1>3, <2>1 DEF Chain, Linked, EndOf, t
<1>4. CASE s # <<>>
  <2>1. Len(s) >= 1 /\ t[1] = s[1]
    BY <1>1, <1>4
  <2>2. ASSUME NEW i \in 2..Len(t) PROVE t[i][1] = t[i-1][2]
    <3>1. CASE i = Len(s) + 1
      BY <1>1, <1>4, <2>1, <3>1 DEF EndOf
    <3>2. CASE i # Len(s) + 1
      <4>1. i \in 2..Len(s) /\ i \in 1..Len(s) /\ i - 1 \in 1..Len(s)
        BY <1>1, <3>2
      <4>2. QED BY <1>1, <4>1 DEF Chain, Linked
    <3>3. QED BY <3>1, <3>2
  <2>3. QED BY <1>1, <1>2, <1>4, <2>1, <2>2 DEF Chain, Linked, t
<1>5. QED BY <1>3, <1>4

(* Taking the first segment leaves a text that starts where it ends. *)
LEMMA ChainTail ==
  ASSUME NEW s \in Seq(Segment), s # <<>>, NEW n \in Nat, Chain(s, n)
  PROVE  /\ Head(s) \in Segment /\ Head(s)[1] = n
         /\ Tail(s) \in Seq(Segment) /\ Chain(Tail(s), Head(s)[2])
         /\ EndOf(Tail(s), Head(s)[2]) = EndOf(s, n)
<1> DEFINE t == Tail(s)
<1>1. /\ t \in Seq(Segment) /\ Len(t) = Len(s) - 1 /\ Len(s) \in Nat /\ Len(s) >= 1
      /\ \A i \in 1..Len(t) : t[i] = s[i+1]
      /\ Head(s) = s[1] /\ Head(s) \in Segment
  OBVIOUS
<1> HIDE DEF t
<1>2. Linked(t)
  <2> SUFFICES ASSUME NEW i \in 2..Len(t) PROVE t[i][1] = t[i-1][2]
    BY DEF Linked
  <2>1. /\ i \in 1..Len(t) /\ i - 1 \in 1..Len(t)
        /\ i + 1 \in 2..Len(s) /\ (i - 1) + 1 = i /\ (i + 1) - 1 = i
    BY <1>1
  <2>2. t[i] = s[i+1] /\ t[i-1] = s[i]
    BY <1>1, <2>1
  <2>3. s[i+1][1] = s[i][2]
    BY <2>1 DEF Chain, Linked
  <2>4. QED BY <2>2, <2>3
<1>3. CASE t = <<>>
  <2>1. Len(t) = 0 /\ Len(s) = 1
    BY <1>1, <1>3
  <2>2. QED BY <1>1, <1>2, <1>3, <2>1 DEF Chain, EndOf, t
<1>4. CASE t # <<>>
  <2>1. Len(t) >= 1 /\ 2 \in 2..Len(s) /\ 1 \in 1..Len(t) /\ Len(t) \in 1..Len(t)
    BY <1>1, <1>4
  <2>2. t[1] = s[2] /\ t[Len(t)] = s[Len(s)]
    BY <1>1, <2>1
  <2>3. s[2][1] = s[1][2]
    BY <2>1 DEF Chain, Linked
  <2>4. QED BY <1>1, <1>2, <1>4, <2>2, <2>3 DEF Chain, EndOf, t
<1>5. QED BY <1>3, <1>4

Event == Segment \cup {Error}

(* One more event at the end of the network. *)
LEMMA LeadsAppend ==
  ASSUME NEW es \in Seq(Event), NEW n \in Nat, NEW c \in Nat, NEW d \in Nat,
         NEW e \in Event, Leads(es, n, c),
         IF e = Error THEN d = c ELSE e[1] = c /\ e[2] = d
  PROVE  Leads(Append(es, e), n, d)
<1> DEFINE t == Append(es, e)  L == Len(es)
<1>1. /\ t \in Seq(Event) /\ Len(t) = L + 1 /\ t[L + 1] = e /\ L \in Nat
      /\ \A i \in 1..L : t[i] = es[i]
  OBVIOUS
<1>2. PICK f \in [0..L -> Nat] : f[0] = n /\ f[L] = c /\ Steps(es, f)
  BY DEF Leads
<1> DEFINE g == [i \in 0..(L + 1) |-> IF i = L + 1 THEN d ELSE f[i]]
<1>3. /\ g \in [0..Len(t) -> Nat] /\ g[0] = n /\ g[Len(t)] = d /\ g[L] = c
      /\ \A i \in 0..L : g[i] = f[i]
  BY <1>1, <1>2
<1> HIDE DEF t, g
<1>4. Steps(t, g)
  <2> SUFFICES ASSUME NEW i \in 1..Len(t)
               PROVE  IF t[i] = Error THEN g[i] = g[i-1]
                                      ELSE t[i][1] = g[i-1] /\ g[i] = t[i][2]
    BY DEF Steps
  <2>1. CASE i = L + 1
    <3>1. i - 1 = L /\ t[i] = e /\ g[i] = d
      BY <1>1, <1>3, <2>1
    <3>2. QED BY <1>3, <3>1
  <2>2. CASE i # L + 1
    <3>1. i \in 1..L /\ i \in 0..L /\ i - 1 \in 0..L
      BY <1>1, <2>2
    <3>2. t[i] = es[i] /\ g[i] = f[i] /\ g[i-1] = f[i-1]
      BY <1>1, <1>3, <3>1
    <3>3. QED BY <1>2, <3>1, <3>2 DEF Steps
  <2>3. QED BY <2>1, <2>2
<1>5. Leads(t, n, d)
  BY <1>3, <1>4 DEF Leads
<1>6. QED BY <1>5 DEF t

(* The reader takes the first event: the rest leads on from there. *)
LEMMA LeadsTail ==
  ASSUME NEW es \in Seq(Event), es # <<>>, NEW n \in Nat, NEW c \in Nat,
         Leads(es, n, c)
  PROVE  /\ Head(es) \in Event /\ Tail(es) \in Seq(Event)
         /\ Head(es) = Error => Leads(Tail(es), n, c)
         /\ Head(es) # Error => Head(es)[1] = n /\ Leads(Tail(es), Head(es)[2], c)
<1> DEFINE t == Tail(es)  L == Len(t)
<1>1. /\ t \in Seq(Event) /\ L \in Nat /\ Len(es) = L + 1
      /\ \A i \in 1..L : t[i] = es[i+1]
      /\ Head(es) = es[1] /\ Head(es) \in Event
  OBVIOUS
<1>2. PICK f \in [0..(L + 1) -> Nat] : f[0] = n /\ f[L + 1] = c /\ Steps(es, f)
  BY <1>1 DEF Leads
<1> DEFINE g == [i \in 0..L |-> f[i + 1]]
<1> HIDE DEF t
<1>3. /\ g \in [0..L -> Nat] /\ g[0] = f[1] /\ g[L] = c
      /\ \A i \in 0..L : g[i] = f[i + 1]
  BY <1>1, <1>2
<1> HIDE DEF g
<1>4. Steps(t, g)
  <2> SUFFICES ASSUME NEW i \in 1..L
               PROVE  IF t[i] = Error THEN g[i] = g[i-1]
                                      ELSE t[i][1] = g[i-1] /\ g[i] = t[i][2]
    BY DEF Steps
  <2>1. /\ i + 1 \in 1..(L + 1) /\ i \in 0..L /\ i - 1 \in 0..L
        /\ (i - 1) + 1 = i /\ (i + 1) - 1 = i
    BY <1>1
  <2>2. t[i] = es[i+1] /\ g[i] = f[i+1] /\ g[i-1] = f[i]
    BY <1>1, <1>3, <2>1
  <2>3. IF es[i+1] = Error THEN f[i+1] = f[i]
                           ELSE es[i+1][1] = f[i] /\ f[i+1] = es[i+1][2]
    BY <1>1, <1>2, <2>1 DEF Steps
  <2>4. QED BY <2>2, <2>3
<1>5. Leads(t, f[1], c)
  BY <1>3, <1>4 DEF Leads
<1>6. 1 \in 1..Len(es) /\ 1 - 1 = 0
  BY <1>1
<1>7. IF es[1] = Error THEN f[1] = n ELSE es[1][1] = n /\ f[1] = es[1][2]
  BY <1>2, <1>6 DEF Steps
<1>8. QED BY <1>1, <1>5, <1>7 DEF t
-----------------------------------------------------------------------------
LEMMA EventTypes == Segment \subseteq Event /\ Event = Segment \cup {Error}
BY DEF Event

LEMMA SegmentEnds == \A g \in Segment : g[1] \in Nat /\ g[2] \in Nat
BY RealtimeAssumption DEF Segment

LEMMA EndOfNat ==
  ASSUME NEW s \in Seq(Segment), NEW n \in Nat
  PROVE  EndOf(s, n) \in Nat
<1>1. CASE s = <<>>
  BY <1>1 DEF EndOf
<1>2. CASE s # <<>>
  <2>1. Len(s) \in 1..Len(s)
    BY <1>2
  <2>2. s[Len(s)] \in Segment
    BY <2>1
  <2>3. QED BY <1>2, <2>2, SegmentEnds DEF EndOf
<1>3. QED BY <1>1, <1>2

(* A new segment of the remote ends within what has been spoken. *)
LEMMA NewSegment ==
  ASSUME RealtimeTypeOK, SentInv, NEW to \in covered + 1 .. sent
  PROVE  /\ to \in 0..MaxChunks /\ to \in Nat /\ <<covered, to>> \in Segment
         /\ <<covered, to>> # Error
         /\ <<covered, to>>[1] = covered /\ <<covered, to>>[2] = to
<1>1. covered \in 0..MaxChunks /\ sent \in 0..MaxChunks /\ MaxChunks \in Nat
  BY RealtimeAssumption DEF RealtimeTypeOK
<1>2. to \in 0..MaxChunks /\ to \in Nat
  BY <1>1
<1>3. <<covered, to>> \in Segment
  BY <1>1, <1>2 DEF Segment
<1>4. QED BY <1>2, <1>3 DEF Error

(* One segment more. *)
LEMMA OneMore ==
  ASSUME NEW s \in Seq(Segment), NEW g \in Segment
  PROVE  /\ Append(s, g) \in Seq(Segment) /\ Len(Append(s, g)) = Len(s) + 1
         /\ <<g>> \in Seq(Segment) /\ Len(<<g>>) = 1 /\ <<g>>[1] = g
         /\ Len(s) \in Nat
OBVIOUS

(* What a blocked reader holds is one segment, the next of the channel. *)
LEMMA HeldJoins ==
  ASSUME RealtimeTypeOK, reader = "blocked"
  PROVE  /\ held[1] \in Segment /\ held # <<>> /\ Len(held) = 1
         /\ committed \o held = Append(committed, held[1])
<1>1. held \in Seq(Segment) /\ Len(held) = 1 /\ committed \in Seq(Segment)
  BY DEF RealtimeTypeOK
<1>2. held[1] \in Segment /\ held # <<>>
  BY <1>1
<1>3. held = <<held[1]>>
  <2>1. 1..Len(held) = {1}
    BY <1>1
  <2>2. held = [i \in {1} |-> held[1]]
    BY <1>1, <2>1
  <2>3. QED BY <1>2, <2>2
<1>4. committed \o <<held[1]>> = Append(committed, held[1])
  BY <1>1, <1>2
<1>5. QED BY <1>1, <1>2, <1>3, <1>4

LEMMA StepType ==
  ASSUME RealtimeTypeOK, SentInv, [RealtimeNext]_realtimeVars
  PROVE  RealtimeTypeOK'
<1> USE RealtimeAssumption DEF RealtimeTypeOK
<1> USE DEF captureVars, remoteVars, readerVars, stopVars
<1>1. CASE UNCHANGED realtimeVars BY <1>1 DEF realtimeVars
<1>2. CASE CaptureChunk BY <1>2 DEF CaptureChunk
<1>3. CASE Send BY <1>3 DEF Send, SentInv
<1>4. CASE CaptureEnds BY <1>4 DEF CaptureEnds
<1>5. CASE RemoteCommits
  <2>1. PICK to \in covered + 1 .. sent :
           net' = Append(net, <<covered, to>>) /\ covered' = to
    BY <1>5 DEF RemoteCommits
  <2>2. to \in 0..MaxChunks /\ <<covered, to>> \in Segment \cup {Error}
    BY <2>1, NewSegment
  <2>3. net' \in Seq(Segment \cup {Error}) /\ covered' \in 0..MaxChunks
    BY <2>1, <2>2
  <2>4. unasked' \in 0..MaxUnasked
    BY <1>5 DEF RemoteCommits
  <2>5. QED BY <1>5, <2>3, <2>4 DEF RemoteCommits
<1>6. CASE RemoteErrs
  <2>1. net' \in Seq(Segment \cup {Error}) /\ failures' \in 0..MaxErrors
    BY <1>6 DEF RemoteErrs
  <2>2. QED BY <1>6, <2>1 DEF RemoteErrs
<1>7. CASE NetworkChanges BY <1>7 DEF NetworkChanges
<1>8. CASE ReadSegment
  <2>1. net # <<>> /\ Head(net) \in Segment /\ net' \in Seq(Segment \cup {Error})
    BY <1>8 DEF ReadSegment
  <2>2. CASE HasRoom
    <3>1. committed' \in Seq(Segment) /\ Len(committed') = Len(committed) + 1
      BY <1>8, <2>1, <2>2, OneMore DEF ReadSegment
    <3>3. Len(committed') <= ChannelCap
      BY <2>2, <3>1 DEF HasRoom
    <3>2. QED BY <1>8, <2>1, <2>2, <3>1, <3>3 DEF ReadSegment
  <2>3. CASE ~HasRoom
    <3>1. held' \in Seq(Segment) /\ Len(held') = 1 /\ reader' = "blocked"
      BY <1>8, <2>1, <2>3, OneMore DEF ReadSegment
    <3>2. QED BY <1>8, <2>1, <2>3, <3>1 DEF ReadSegment
  <2>4. QED BY <2>2, <2>3
<1>9. CASE ReaderResumes
  <2>1. committed' = Append(committed, held[1]) /\ held[1] \in Segment
    BY <1>9, HeldJoins DEF ReaderResumes
  <2>5. committed' \in Seq(Segment) /\ Len(committed') = Len(committed) + 1
    BY <2>1, OneMore
  <2>2. Len(committed') <= ChannelCap
    BY <1>9, <2>5 DEF ReaderResumes, HasRoom
  <2>3. held' \in Seq(Segment) /\ Len(held') = 0 /\ reader' = "reading"
    BY <1>9 DEF ReaderResumes
  <2>4. QED BY <1>9, <2>2, <2>3, <2>5 DEF ReaderResumes
<1>10. CASE ReadError
  <2>1. net' \in Seq(Segment \cup {Error})
    BY <1>10 DEF ReadError
  <2>2. QED BY <1>10, <2>1 DEF ReadError
<1>11. CASE ReaderEnds BY <1>11 DEF ReaderEnds
<1>12. CASE Stop BY <1>12 DEF Stop
<1>13. CASE StopWaits BY <1>13 DEF StopWaits
<1>14. CASE CommitWrites BY <1>14 DEF CommitWrites
<1>15. CASE CommitFails BY <1>15 DEF CommitFails
<1>16. CASE TakeFirst
  <2>1. /\ Head(committed) \in Segment
        /\ committed' \in Seq(Segment) /\ Len(committed') <= ChannelCap
    BY <1>16 DEF TakeFirst
  <2>2. result' \in Seq(Segment)
    BY <1>16, <2>1 DEF TakeFirst
  <2>3. QED BY <1>16, <2>1, <2>2 DEF TakeFirst
<1>17. CASE TakeError BY <1>17 DEF TakeError
<1>18. CASE DeadlinePasses BY <1>18 DEF DeadlinePasses
<1>19. CASE TakeMore
  <2>1. /\ Head(committed) \in Segment
        /\ committed' \in Seq(Segment) /\ Len(committed') <= ChannelCap
    BY <1>19 DEF TakeMore
  <2>2. result' \in Seq(Segment)
    BY <1>19, <2>1 DEF TakeMore
  <2>3. QED BY <1>19, <2>1, <2>2 DEF TakeMore
<1>20. CASE WindowEnds BY <1>20 DEF WindowEnds
<1>21. CASE Close BY <1>21 DEF Close
<1>22. QED
  BY <1>1, <1>2, <1>3, <1>4, <1>5, <1>6, <1>7, <1>8, <1>9, <1>10, <1>11, <1>12,
     <1>13, <1>14, <1>15, <1>16, <1>17, <1>18, <1>19, <1>20, <1>21
  DEF RealtimeNext, Reader, Finalize

LEMMA StepSent ==
  ASSUME RealtimeTypeOK, SentInv, [RealtimeNext]_realtimeVars
  PROVE  SentInv'
<1> USE RealtimeAssumption DEF RealtimeTypeOK, SentInv
<1> USE DEF captureVars, remoteVars, readerVars, stopVars
<1>1. CASE CaptureChunk BY <1>1 DEF CaptureChunk
<1>2. CASE Send BY <1>2 DEF Send
<1>3. CASE CaptureEnds BY <1>3 DEF CaptureEnds
<1>4. CASE RemoteCommits
  <2>1. PICK to \in covered + 1 .. sent : covered' = to
    BY <1>4 DEF RemoteCommits
  <2>2. QED BY <1>4, <2>1 DEF RemoteCommits
<1>5. CASE NetworkChanges \/ CommitFails \/ Close
  BY <1>5 DEF NetworkChanges, CommitFails, Close
<1>6. CASE UNCHANGED <<captureVars, conn, covered>>
  BY <1>6
<1>7. QED
  BY <1>1, <1>2, <1>3, <1>4, <1>5, <1>6
  DEF RealtimeNext, realtimeVars, Reader, Finalize, RemoteErrs, ReadSegment,
      ReaderResumes, ReadError, ReaderEnds, Stop, StopWaits, CommitWrites,
      TakeFirst, TakeError, DeadlinePasses, TakeMore, WindowEnds

LEMMA StepEarly ==
  ASSUME RealtimeTypeOK, EarlyInv, [RealtimeNext]_realtimeVars
  PROVE  EarlyInv'
<1> USE DEF EarlyInv, Early, captureVars, remoteVars, readerVars, stopVars
<1>1. CASE Stop \/ StopWaits \/ CommitWrites
  BY <1>1 DEF Stop, StopWaits, CommitWrites
<1>2. CASE CommitFails \/ TakeFirst \/ TakeError \/ DeadlinePasses
  BY <1>2 DEF CommitFails, TakeFirst, TakeError, DeadlinePasses
<1>3. CASE TakeMore \/ WindowEnds \/ Close
  BY <1>3 DEF TakeMore, WindowEnds, Close
<1>4. CASE UNCHANGED <<stop, result>>
  BY <1>4
<1>5. QED
  BY <1>1, <1>2, <1>3, <1>4
  DEF RealtimeNext, realtimeVars, Reader, Finalize, CaptureChunk, Send,
      CaptureEnds, RemoteCommits, RemoteErrs, NetworkChanges, ReadSegment,
      ReaderResumes, ReadError, ReaderEnds

LEMMA StepAsked ==
  ASSUME RealtimeTypeOK, SentInv, AskedInv, [RealtimeNext]_realtimeVars
  PROVE  AskedInv'
<1> USE RealtimeAssumption DEF RealtimeTypeOK, AskedInv
<1> USE DEF captureVars, remoteVars, readerVars, stopVars
<1>1. CASE CaptureChunk BY <1>1 DEF CaptureChunk
<1>2. CASE Send BY <1>2 DEF Send
<1>3. CASE CaptureEnds BY <1>3 DEF CaptureEnds
<1>4. CASE Stop BY <1>4 DEF Stop
<1>10. CASE StopWaits
  <2>1. ~asked /\ asked' = asked /\ stop' = "committing" /\ capture' = capture
    BY <1>10 DEF StopWaits
  <2>2. ~late' => capture' = "ended"
    BY <1>10, <2>1 DEF StopWaits
  <2>3. QED BY <2>1, <2>2
<1>5. CASE CommitWrites
  <2>1. ~late => spoken <= sent /\ sent <= spoken
    BY <1>5 DEF CommitWrites, SentInv
  <2>2. ~late => sent = spoken
    BY <2>1
  <2>3. QED BY <1>5, <2>2 DEF CommitWrites
<1>6. CASE CommitFails \/ TakeFirst \/ TakeError \/ DeadlinePasses
  BY <1>6 DEF CommitFails, TakeFirst, TakeError, DeadlinePasses
<1>7. CASE TakeMore \/ WindowEnds \/ Close
  BY <1>7 DEF TakeMore, WindowEnds, Close
<1>8. CASE UNCHANGED <<captureVars, asked, stop, late>>
  BY <1>8
<1>9. QED
  BY <1>1, <1>2, <1>3, <1>4, <1>5, <1>6, <1>7, <1>8, <1>10
  DEF RealtimeNext, realtimeVars, Reader, Finalize, RemoteCommits, RemoteErrs,
      NetworkChanges, ReadSegment, ReaderResumes, ReadError, ReaderEnds

(* The text stays in one piece on its way through the four stages. *)
LEMMA StepChain ==
  ASSUME RealtimeTypeOK, SentInv, EarlyInv, ChainInv, [RealtimeNext]_realtimeVars
  PROVE  ChainInv'
<1>1. /\ result \in Seq(Segment) /\ committed \in Seq(Segment)
      /\ held \in Seq(Segment) /\ net \in Seq(Event)
      /\ covered \in Nat /\ Taken \in Nat /\ Queued \in Nat /\ Read \in Nat
  <2>1. covered \in Nat /\ 0 \in Nat
    BY RealtimeAssumption DEF RealtimeTypeOK
  <2>2. QED BY <2>1, EndOfNat DEF RealtimeTypeOK, Event, Taken, Queued, Read
<1>2. /\ Chain(result, 0) /\ Chain(committed, Taken) /\ Chain(held, Queued)
      /\ Leads(net, Read, covered)
  BY DEF ChainInv
<1>3. CASE UNCHANGED <<result, committed, held, net, covered>>
  BY <1>3, <1>2 DEF ChainInv, Taken, Queued, Read
<1>4. CASE RemoteCommits
  <2>1. PICK to \in covered + 1 .. sent :
           net' = Append(net, <<covered, to>>) /\ covered' = to
    BY <1>4 DEF RemoteCommits
  <2>2. /\ <<covered, to>> \in Event /\ <<covered, to>> # Error /\ to \in Nat
        /\ <<covered, to>>[1] = covered /\ <<covered, to>>[2] = to
    BY NewSegment DEF Event
  <2>3. Leads(net', Read, covered')
    BY <1>1, <1>2, <2>1, <2>2, LeadsAppend
  <2>4. result' = result /\ committed' = committed /\ held' = held
    BY <1>4 DEF RemoteCommits, readerVars, stopVars
  <2>5. QED BY <1>2, <2>3, <2>4 DEF ChainInv, Taken, Queued, Read
<1>5. CASE RemoteErrs
  <2>1. net' = Append(net, Error) /\ covered' = covered
    BY <1>5 DEF RemoteErrs
  <2>2. Error \in Event
    BY DEF Event
  <2>3. Leads(net', Read, covered')
    BY <1>1, <1>2, <2>1, <2>2, LeadsAppend
  <2>4. result' = result /\ committed' = committed /\ held' = held
    BY <1>5 DEF RemoteErrs, readerVars, stopVars
  <2>5. QED BY <1>2, <2>3, <2>4 DEF ChainInv, Taken, Queued, Read
<1>6. CASE ReadSegment
  <2>1. /\ net # <<>> /\ Head(net) # Error /\ net' = Tail(net)
        /\ covered' = covered /\ result' = result /\ reader = "reading"
    BY <1>6 DEF ReadSegment, stopVars
  <2>2. /\ Head(net) \in Segment /\ Head(net)[1] = Read
        /\ Leads(net', Head(net)[2], covered')
    BY <1>1, <1>2, <2>1, LeadsTail DEF Event
  <2>3. CASE HasRoom
    <3>1. committed' = Append(committed, Head(net)) /\ held' = held
      BY <1>6, <2>3 DEF ReadSegment
    <3>2. held = <<>>
      BY <1>1, <2>1 DEF RealtimeTypeOK
    <3>3. Read = Queued /\ Queued = EndOf(committed, Taken)
      BY <3>2 DEF Read, Queued, EndOf
    <3>4. /\ Chain(committed', Taken)
          /\ EndOf(committed', Taken) = Head(net)[2]
      BY <1>1, <1>2, <2>2, <3>1, <3>3, ChainAppend
    <3>5. Taken' = Taken /\ Queued' = Head(net)[2]
      BY <2>1, <3>4 DEF Taken, Queued
    <3>6. Read' = Head(net)[2] /\ Chain(held', Queued')
      BY <3>1, <3>2, <3>5 DEF Read, EndOf, Chain, Linked
    <3>7. QED BY <1>2, <2>1, <2>2, <3>4, <3>5, <3>6 DEF ChainInv
  <2>4. CASE ~HasRoom
    <3>1. held' = <<Head(net)>> /\ committed' = committed
      BY <1>6, <2>4 DEF ReadSegment
    <3>2. held = <<>>
      BY <1>1, <2>1 DEF RealtimeTypeOK
    <3>3. held' = Append(held, Head(net)) /\ Read = EndOf(held, Queued)
      BY <3>1, <3>2 DEF Read
    <3>4. Chain(held', Queued) /\ EndOf(held', Queued) = Head(net)[2]
      BY <1>1, <1>2, <2>2, <3>3, ChainAppend
    <3>5. Taken' = Taken /\ Queued' = Queued /\ Read' = Head(net)[2]
      BY <2>1, <3>1, <3>4 DEF Taken, Queued, Read
    <3>6. QED BY <1>2, <2>1, <2>2, <3>1, <3>4, <3>5 DEF ChainInv
  <2>5. QED BY <2>3, <2>4
<1>7. CASE ReaderResumes
  <2>1. /\ reader = "blocked" /\ committed' = committed \o held /\ held' = <<>>
        /\ net' = net /\ covered' = covered /\ result' = result
    BY <1>7 DEF ReaderResumes, remoteVars, stopVars
  <2>2. /\ held[1] \in Segment /\ held # <<>> /\ Len(held) = 1
        /\ committed' = Append(committed, held[1])
    BY <2>1, HeldJoins
  <2>3. held[1][1] = Queued /\ held[1][2] = Read
    BY <1>2, <2>2 DEF Chain, Read, EndOf
  <2>4. Chain(committed', Taken) /\ EndOf(committed', Taken) = Read
    BY <1>1, <1>2, <2>2, <2>3, ChainAppend DEF Queued
  <2>5. Taken' = Taken /\ Queued' = Read
    BY <2>1, <2>4 DEF Taken, Queued
  <2>6. Read' = Read /\ Chain(held', Queued')
    BY <2>1, <2>5 DEF Read, EndOf, Chain, Linked
  <2>7. QED BY <1>2, <2>1, <2>4, <2>5, <2>6 DEF ChainInv
<1>8. CASE ReadError
  <2>1. /\ net # <<>> /\ Head(net) = Error /\ net' = Tail(net)
        /\ UNCHANGED <<covered, result, committed, held>>
    BY <1>8 DEF ReadError, stopVars
  <2>2. Leads(net', Read, covered')
    BY <1>1, <1>2, <2>1, LeadsTail
  <2>3. QED BY <1>2, <2>1, <2>2 DEF ChainInv, Taken, Queued, Read
<1>9. ASSUME result' = Append(result, Head(committed)), committed # <<>>,
             committed' = Tail(committed), UNCHANGED <<held, net, covered>>
      PROVE  ChainInv'
  <2>1. /\ Head(committed) \in Segment /\ Head(committed)[1] = Taken
        /\ Chain(committed', Head(committed)[2])
        /\ EndOf(committed', Head(committed)[2]) = Queued
    BY <1>1, <1>2, <1>9, ChainTail DEF Queued
  <2>2. Chain(result', 0) /\ Taken' = Head(committed)[2]
    BY <1>1, <1>2, <1>9, <2>1, ChainAppend DEF Taken
  <2>3. Queued' = Queued /\ Read' = Read
    BY <1>9, <2>1, <2>2 DEF Queued, Read
  <2>4. QED BY <1>2, <1>9, <2>1, <2>2, <2>3 DEF ChainInv
<1>10. CASE TakeFirst
  <2>1. result = <<>> /\ result' = <<Head(committed)>>
    BY <1>10 DEF TakeFirst, EarlyInv, Early
  <2>2. result' = Append(result, Head(committed))
    BY <2>1
  <2>3. QED BY <1>9, <1>10, <2>2 DEF TakeFirst, remoteVars
<1>11. CASE TakeMore
  BY <1>9, <1>11 DEF TakeMore, remoteVars
<1>12. QED
  BY <1>3, <1>4, <1>5, <1>6, <1>7, <1>8, <1>10, <1>11
  DEF RealtimeNext, realtimeVars, captureVars, remoteVars, readerVars, stopVars,
      Reader, Finalize, CaptureChunk, Send, CaptureEnds, NetworkChanges,
      ReaderEnds, Stop, StopWaits, CommitWrites, CommitFails, TakeError,
      DeadlinePasses, WindowEnds, Close

(* Segments that end where everything spoken ends, kept one by one. *)
LEMMA AllEndAppend ==
  ASSUME NEW s \in Seq(Segment), NEW g \in Segment, AllEnd(s),
         asked, g[2] = spoken
  PROVE  AllEnd(Append(s, g))
<1>1. /\ Len(Append(s, g)) = Len(s) + 1 /\ Append(s, g)[Len(s) + 1] = g
      /\ \A i \in 1..Len(s) : Append(s, g)[i] = s[i]
      /\ Len(s) \in Nat
  OBVIOUS
<1>2. \A i \in 1..(Len(s) + 1) : i \in 1..Len(s) \/ i = Len(s) + 1
  BY <1>1
<1>3. QED BY <1>1, <1>2 DEF AllEnd

LEMMA AllEndTail ==
  ASSUME NEW s \in Seq(Segment), s # <<>>, AllEnd(s)
  PROVE  Head(s) \in Segment /\ asked /\ Head(s)[2] = spoken /\ AllEnd(Tail(s))
<1>1. /\ Len(Tail(s)) = Len(s) - 1 /\ Len(s) \in Nat /\ Len(s) >= 1
      /\ Head(s) = s[1] /\ Head(s) \in Segment
      /\ \A i \in 1..Len(Tail(s)) : Tail(s)[i] = s[i+1]
  OBVIOUS
<1>2. 1 \in 1..Len(s) /\ \A i \in 1..(Len(s) - 1) : i + 1 \in 1..Len(s)
  BY <1>1
<1>3. QED BY <1>1, <1>2 DEF AllEnd

LEMMA NetTail ==
  ASSUME RealtimeTypeOK, net # <<>>, NetEnd
  PROVE  /\ Head(net) # Error => /\ Head(net) \in Segment /\ asked
                                /\ Head(net)[2] = spoken
         /\ \A i \in 1..Len(Tail(net)) :
              Tail(net)[i] # Error => asked /\ Tail(net)[i][2] = spoken
<1>0. net \in Seq(Segment \cup {Error})
  BY DEF RealtimeTypeOK
<1>1. /\ Len(Tail(net)) = Len(net) - 1 /\ Len(net) \in Nat /\ Len(net) >= 1
      /\ Head(net) = net[1] /\ Head(net) \in Segment \cup {Error}
      /\ \A i \in 1..Len(Tail(net)) : Tail(net)[i] = net[i+1]
  BY <1>0
<1>2. 1 \in 1..Len(net) /\ \A i \in 1..(Len(net) - 1) : i + 1 \in 1..Len(net)
  BY <1>1
<1>3. QED BY <1>1, <1>2 DEF NetEnd

(* The commit request is what lets the remote answer with everything. *)
LEMMA StepComplete ==
  ASSUME RealtimeTypeOK, SentInv, EarlyInv, AskedInv, CompleteInv,
         [RealtimeNext]_realtimeVars
  PROVE  CompleteInv'
<1>1. /\ result \in Seq(Segment) /\ committed \in Seq(Segment)
      /\ held \in Seq(Segment) /\ net \in Seq(Segment \cup {Error})
      /\ Len(net) \in Nat /\ unasked \in Nat
  BY RealtimeAssumption DEF RealtimeTypeOK
<1>2. CASE UNCHANGED <<result, committed, held, net, unasked, late, asked, spoken>>
  BY <1>2 DEF CompleteInv, AllEnd, NetEnd
<1>3. CASE CaptureChunk
  <2>1. UNCHANGED <<result, committed, held, net, unasked, late, asked>>
        /\ capture = "reading"
    BY <1>3 DEF CaptureChunk, remoteVars, readerVars, stopVars
  <2>2. ~late => ~asked
    BY <2>1 DEF AskedInv
  <2>3. QED BY <2>1, <2>2 DEF CompleteInv, AllEnd, NetEnd
<1>4. CASE RemoteCommits
  <2>1. PICK to \in covered + 1 .. sent :
          /\ asked => to = sent
          /\ net' = Append(net, <<covered, to>>)
    BY <1>4 DEF RemoteCommits
  <2>2. UNCHANGED <<result, committed, held, late, asked, spoken>>
    BY <1>4 DEF RemoteCommits, captureVars, readerVars, stopVars
  <2>3. CASE ~asked
    <3>1. unasked' # 0
      BY <1>1, <1>4, <2>3 DEF RemoteCommits
    <3>2. QED BY <3>1 DEF CompleteInv
  <2>4. CASE asked
    <3>1. unasked' = unasked
      BY <1>4, <2>4 DEF RemoteCommits
    <3>2. <<covered, to>> \in Segment /\ <<covered, to>>[2] = to
      BY NewSegment
    <3>3. /\ Len(net') = Len(net) + 1 /\ net'[Len(net) + 1] = <<covered, to>>
          /\ \A i \in 1..Len(net) : net'[i] = net[i]
      BY <1>1, <2>1, <3>2
    <3>4. \A i \in 1..Len(net') : i \in 1..Len(net) \/ i = Len(net) + 1
      BY <1>1, <3>3
    <3>5. ~late => to = spoken
      BY <2>1, <2>4 DEF AskedInv
    <3>6. NetEnd /\ ~late => NetEnd'
      BY <2>2, <2>4, <3>2, <3>3, <3>4, <3>5 DEF NetEnd
    <3>7. QED BY <2>2, <3>1, <3>6 DEF CompleteInv, AllEnd
  <2>5. QED BY <2>3, <2>4
<1>5. CASE RemoteErrs
  <2>1. net' = Append(net, Error)
        /\ UNCHANGED <<result, committed, held, unasked, late, asked, spoken>>
    BY <1>5 DEF RemoteErrs, captureVars, readerVars, stopVars
  <2>2. /\ Len(net') = Len(net) + 1 /\ net'[Len(net) + 1] = Error
        /\ \A i \in 1..Len(net) : net'[i] = net[i]
    BY <1>1, <2>1
  <2>3. \A i \in 1..Len(net') : i \in 1..Len(net) \/ i = Len(net) + 1
    BY <1>1, <2>2
  <2>4. NetEnd => NetEnd'
    BY <2>1, <2>2, <2>3 DEF NetEnd
  <2>5. QED BY <2>1, <2>4 DEF CompleteInv, AllEnd
<1> DEFINE Kept == UNCHANGED <<unasked, late, asked, spoken>>
<1>6. CASE ReadSegment \/ ReadError
  <2>1. Kept /\ result' = result /\ net # <<>> /\ net' = Tail(net)
    BY <1>6 DEF ReadSegment, ReadError, captureVars, stopVars
  <2>2. NetEnd => NetEnd'
    BY <2>1, NetTail DEF NetEnd
  <2>3. CASE ReadError
    BY <2>1, <2>2, <2>3 DEF ReadError, CompleteInv, AllEnd
  <2>4. CASE ReadSegment /\ HasRoom
    <3>1. committed' = Append(committed, Head(net)) /\ held' = held
      BY <2>4 DEF ReadSegment
    <3>2. NetEnd /\ AllEnd(committed) => AllEnd(committed')
      BY <1>1, <2>1, <2>4, <3>1, NetTail, AllEndAppend DEF ReadSegment
    <3>3. NetEnd /\ AllEnd(committed) => AllEnd(committed)'
      BY <2>1, <3>2 DEF AllEnd
    <3>4. QED BY <2>1, <2>2, <3>1, <3>3 DEF CompleteInv, AllEnd
  <2>5. CASE ReadSegment /\ ~HasRoom
    <3>1. held' = <<Head(net)>> /\ committed' = committed
      BY <2>5 DEF ReadSegment
    <3>2. NetEnd => AllEnd(held)'
      BY <1>1, <2>1, <2>5, <3>1, NetTail, OneMore DEF ReadSegment, AllEnd
    <3>3. QED BY <2>1, <2>2, <3>1, <3>2 DEF CompleteInv, AllEnd
  <2>6. QED BY <1>6, <2>3, <2>4, <2>5
<1>7. CASE ReaderResumes
  <2>1. /\ Kept /\ result' = result /\ net' = net /\ held' = <<>>
        /\ reader = "blocked" /\ committed' = committed \o held
    BY <1>7 DEF ReaderResumes, captureVars, remoteVars, stopVars
  <2>2. /\ held[1] \in Segment /\ 1 \in 1..Len(held)
        /\ committed' = Append(committed, held[1])
    BY <2>1, HeldJoins
  <2>7. AllEnd(held) => asked /\ held[1][2] = spoken
    BY <2>2 DEF AllEnd
  <2>3. AllEnd(committed) /\ AllEnd(held) => AllEnd(committed')
    BY <1>1, <2>2, <2>7, AllEndAppend
  <2>4. AllEnd(committed) /\ AllEnd(held) => AllEnd(committed)'
    BY <2>1, <2>3 DEF AllEnd
  <2>5. AllEnd(held)' /\ (NetEnd => NetEnd')
    BY <2>1 DEF AllEnd, NetEnd
  <2>6. QED BY <2>1, <2>4, <2>5 DEF CompleteInv, AllEnd
<1>8. CASE TakeFirst \/ TakeMore
  <2>1. /\ Kept /\ net' = net /\ held' = held
        /\ committed # <<>> /\ committed' = Tail(committed)
    BY <1>8 DEF TakeFirst, TakeMore, captureVars, remoteVars
  <2>2. result' = Append(result, Head(committed))
    <3>1. CASE TakeFirst
      <4>1. result = <<>> /\ result' = <<Head(committed)>>
        BY <3>1 DEF TakeFirst, EarlyInv, Early
      <4>2. QED BY <4>1
    <3>2. CASE TakeMore BY <3>2 DEF TakeMore
    <3>3. QED BY <1>8, <3>1, <3>2
  <2>3. AllEnd(committed) /\ AllEnd(result)
          => AllEnd(committed') /\ AllEnd(result')
    BY <1>1, <2>1, <2>2, AllEndTail, AllEndAppend
  <2>4. AllEnd(committed) /\ AllEnd(result)
          => AllEnd(committed)' /\ AllEnd(result)'
    BY <2>1, <2>3 DEF AllEnd
  <2>5. QED BY <2>1, <2>4 DEF CompleteInv, AllEnd, NetEnd
<1>9. CASE StopWaits
  <2>1. /\ ~late /\ UNCHANGED <<result, committed, held, net, unasked, asked, spoken>>
    BY <1>9 DEF StopWaits, AskedInv, captureVars, remoteVars, readerVars
  <2>2. QED BY <2>1 DEF CompleteInv, AllEnd, NetEnd
<1>10. CASE CommitWrites
  <2>1. /\ asked'
        /\ UNCHANGED <<result, committed, held, net, unasked, late, spoken>>
    BY <1>10 DEF CommitWrites, captureVars, readerVars
  <2>2. QED BY <2>1 DEF CompleteInv, AllEnd, NetEnd
<1>11. QED
  BY <1>2, <1>3, <1>4, <1>5, <1>6, <1>7, <1>8, <1>9, <1>10
  DEF RealtimeNext, realtimeVars, captureVars, remoteVars, readerVars, stopVars,
      Reader, Finalize, Send, CaptureEnds, NetworkChanges, ReaderEnds, Stop,
      CommitFails, TakeError, DeadlinePasses, WindowEnds, Close
-----------------------------------------------------------------------------
LEMMA RealtimeInitInv == RealtimeInit => RealtimeInv
<1> SUFFICES ASSUME RealtimeInit PROVE RealtimeInv
  OBVIOUS
<1> USE RealtimeAssumption DEF RealtimeInit
<1>1. RealtimeTypeOK
  <2>1. <<>> \in Seq(Segment) /\ <<>> \in Seq(Segment \cup {Error}) /\ Len(<<>>) = 0
    OBVIOUS
  <2>2. 0 \in 0..MaxChunks /\ 0 \in 0..MaxUnasked /\ 0 \in 0..MaxErrors
        /\ 0 <= ChannelCap
    OBVIOUS
  <2>3. /\ held \in Seq(Segment) /\ Len(held) = (IF reader = "blocked" THEN 1 ELSE 0)
        /\ committed \in Seq(Segment) /\ Len(committed) <= ChannelCap
        /\ result \in Seq(Segment) /\ net \in Seq(Segment \cup {Error})
    BY <2>1, <2>2
  <2>4. /\ asked \in BOOLEAN /\ errs \in BOOLEAN /\ late \in BOOLEAN
        /\ spoken \in 0..MaxChunks /\ sent \in 0..MaxChunks
        /\ covered \in 0..MaxChunks /\ unasked \in 0..MaxUnasked
        /\ failures \in 0..MaxErrors
    BY <2>2
  <2>5. QED BY <2>3, <2>4 DEF RealtimeTypeOK
<1>2. SentInv /\ EarlyInv /\ AskedInv
  BY DEF SentInv, EarlyInv, AskedInv
<1>3. Taken = 0 /\ Queued = 0 /\ Read = 0
  BY DEF Taken, Queued, Read, EndOf
<1>4. Leads(net, 0, 0)
  <2> DEFINE f == [i \in 0..0 |-> 0]
  <2>1. Len(net) = 0 /\ f \in [0..0 -> Nat] /\ f[0] = 0
    OBVIOUS
  <2> HIDE DEF f
  <2>2. Steps(net, f)
    BY <2>1 DEF Steps
  <2>3. QED BY <2>1, <2>2 DEF Leads
<1>5. ChainInv
  BY <1>3, <1>4 DEF ChainInv, Chain, Linked
<1>6. CompleteInv
  BY DEF CompleteInv, AllEnd, NetEnd
<1>7. QED BY <1>1, <1>2, <1>5, <1>6 DEF RealtimeInv

(* The invariant of one realtime dictation, for any capacity and bounds. *)
THEOREM RealtimeInvariant == RealtimeSpec => []RealtimeInv
<1>1. RealtimeInv /\ [RealtimeNext]_realtimeVars => RealtimeInv'
  BY StepType, StepSent, StepEarly, StepAsked, StepChain, StepComplete
  DEF RealtimeInv
<1>2. QED BY <1>1, RealtimeInitInv, PTL DEF RealtimeSpec

(* The variables of one realtime dictation keep their types: r.committed   *)
(* never exceeds its capacity, and read() holds one segment exactly when   *)
(* it waits for room.                                                      *)
THEOREM RealtimeTypes == RealtimeSpec => []RealtimeTypeOK
<1>1. RealtimeInv => RealtimeTypeOK
  BY DEF RealtimeInv
<1>2. QED BY <1>1, RealtimeInvariant, PTL

(* The text Commit returns has no gap and starts with the first word. *)
THEOREM TextUnbroken == RealtimeSpec => []NoGapInTranscript
<1>1. RealtimeInv => NoGapInTranscript
  BY DEF RealtimeInv, ChainInv, Chain, Linked, NoGapInTranscript
<1>2. QED BY <1>1, RealtimeInvariant, PTL

(* A remote that commits only on request and a capture goroutine that ends *)
(* within 2 s give a text of everything that was recorded.                 *)
THEOREM TextComplete == RealtimeSpec => []TranscriptComplete
<1>1. RealtimeInv => TranscriptComplete
  <2> SUFFICES ASSUME RealtimeInv, result # <<>>, unasked = 0, ~late
               PROVE  result[Len(result)][2] = spoken
    BY DEF TranscriptComplete
  <2>1. result \in Seq(Segment) /\ AllEnd(result)
    BY DEF RealtimeInv, RealtimeTypeOK, CompleteInv
  <2>2. Len(result) \in 1..Len(result)
    BY <2>1
  <2>3. QED BY <2>1, <2>2 DEF AllEnd
<1>2. QED BY <1>1, RealtimeInvariant, PTL
=============================================================================
