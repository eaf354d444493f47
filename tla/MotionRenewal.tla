----------------------------- MODULE MotionRenewal -----------------------------
(***************************************************************************)
(* MotionBroker with a history variable that remembers under which lease   *)
(* the parked sample of a companion was queued: leaked holds the           *)
(* companions whose parked sample was queued under a lease that has lapsed *)
(* since and that a later motion.subscribe has renewed.                    *)
(***************************************************************************)
EXTENDS MotionBroker

VARIABLE leaked

renewalVars == <<vars, leaked>>

\* The step renews a lease that is over, and the lane keeps its sample.
Renews(c) == client[c].lease = 0 /\ client'[c].lease > 0

KeepsSample(c) == client[c].parked # None /\ client'[c].parked = client[c].parked

RenewalInit == Init /\ leaked = {}

RenewalNext ==
  /\ Next
  /\ leaked' = {c \in Companions : KeepsSample(c) /\ (c \in leaked \/ Renews(c))}

RenewalSpec == RenewalInit /\ [][RenewalNext]_renewalVars

\* A lease expires without leaking a queued sample into a renewal
\* (bmfSocketBridge.test.ts:557): what a flush takes from the lane was not
\* queued under a lease that has lapsed.
NoLeakIntoRenewal ==
  [][\A c \in leaked : forwarded'[c] # client[c].parked]_renewalVars
================================================================================
