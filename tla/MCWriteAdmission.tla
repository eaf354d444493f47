---------------------------- MODULE MCWriteAdmission ----------------------------
(* Three reserved jobs of which two may be pending, which the depth decides,  *)
(* and two regular ones that together are too large, which the bytes decide.  *)
EXTENDS WriteAdmission

CONSTANTS e1, e2, e3, w1, w2

MCBytes == [j \in Jobs |-> IF j = w2 THEN 2 ELSE 1]
MCMaxDepth == [kind \in BOOLEAN |-> 2]
MCMaxBytes == [kind \in BOOLEAN |-> IF kind THEN 3 ELSE 2]
=============================================================================
