---------------------------- MODULE MCNativeClient ----------------------------
(* The instance of NativeClient for TLC: buffers shorter than the traffic,    *)
(* and connections that break while a batch of several lines is being sent.   *)
EXTENDS NativeClient
=============================================================================
