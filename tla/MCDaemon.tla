------------------------------ MODULE MCDaemon ------------------------------
(* Small instances of Daemon (with Recorder and Pipeline) for TLC. *)
EXTENDS Daemon
=============================================================================
