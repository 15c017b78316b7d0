----------------------------- MODULE MCBackground -----------------------------
(***************************************************************************)
(* The two parts that talk to a remote service in the background, for TLC: *)
(* a behaviour is one dictation of Realtime or a life of LangfuseSink,     *)
(* which share no state.  What waits for its turn stays as it began, where *)
(* nothing is enabled that Realtime is fair to.                            *)
(***************************************************************************)
EXTENDS LangfuseSink, Realtime

VARIABLE part

BackgroundInit == /\ part \in {"dictation", "outbox"}
                  /\ RealtimeInit /\ SinkInit

BackgroundNext ==
  /\ \/ part = "dictation" /\ RealtimeNext /\ UNCHANGED sinkVars
     \/ part = "outbox" /\ SinkNext /\ UNCHANGED realtimeVars
  /\ UNCHANGED part

BackgroundSpec ==
  /\ BackgroundInit /\ [][BackgroundNext]_<<part, realtimeVars, sinkVars>>
  /\ RealtimeFairness
=============================================================================
