---------------------------- MODULE MCSocketWorker ----------------------------
(* Small instances of the worker and its watchdog. *)
EXTENDS SocketWorker

MCPollFrames == {1, 2}
=============================================================================
