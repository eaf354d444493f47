---------------------------- MODULE MCSocketBroker ----------------------------
(* The instance of SocketBroker for TLC: two plugins and two overlapping      *)
(* natives compete for tables one entry short of what they ask for.           *)
EXTENDS SocketBroker
=============================================================================
