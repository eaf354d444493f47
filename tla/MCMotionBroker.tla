---------------------------- MODULE MCMotionBroker ----------------------------
(* The instance of MotionBroker for TLC.  The longest interval is the         *)
(* shortest lease, as in the code (1 Hz and 1000 ms).                         *)
EXTENDS MotionBroker

MCLeaseTimes == {2}
MCIntervals == {1, 2}
=============================================================================
