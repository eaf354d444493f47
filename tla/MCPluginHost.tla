---------------------------- MODULE MCPluginHost ----------------------------
(* Three callers and three threads in succession: a crashed load may keep a *)
(* caller for good, and the other two replace the thread it lost.            *)
EXTENDS PluginHost

CONSTANTS c1, c2, c3
=============================================================================
