---------------------------- MODULE MCMotionRenewal ----------------------------
(* The instance of MotionRenewal for TLC, with the times of MCMotionBroker.   *)
EXTENDS MotionRenewal

MCLeaseTimes == {2}
MCIntervals == {1, 2}
================================================================================
