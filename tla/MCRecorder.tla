------------------------------ MODULE MCRecorder ------------------------------
(* Small instances of Recorder (with Pipeline) for TLC. *)
EXTENDS Recorder
=============================================================================
