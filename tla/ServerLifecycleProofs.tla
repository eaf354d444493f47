------------------------ MODULE ServerLifecycleProofs ------------------------
(***************************************************************************)
(* Proofs about ServerLifecycle for any number of processes and of starts  *)
(* in flight.                                                              *)
(***************************************************************************)
EXTENDS ServerLifecycle, TLAPS

USE ProcessesAssumption

(***************************************************************************)
(* The shape of the state                                                  *)
(***************************************************************************)

\* What an event or a stop does to the flags keeps their shape.
LEMMA FlagsTyped ==
  ASSUME TypeOK, BeginStop \/ EndStop \/ Ignore
  PROVE  /\ started' \in BOOLEAN /\ starting' \in BOOLEAN /\ stopping' \in BOOLEAN
         /\ stopper' \in {"none", "unloading", "waiting"}
         /\ update' \in {"none", "saving", "stopping", "stopped"}
         /\ overlapped' \in BOOLEAN
<1>1. CASE BeginStop
  BY <1>1 DEF TypeOK, BeginStop
<1>2. CASE EndStop
  BY <1>2 DEF TypeOK, EndStop
<1>3. CASE Ignore
  BY <1>3 DEF TypeOK, Ignore, flags
<1> QED
  BY <1>1, <1>2, <1>3

\* An event of a process begins a stop, ends one or is ignored.
LEMMA Events == (ExitEvent => BeginStop \/ EndStop \/ Ignore) /\ (ClosedEvent => BeginStop \/ EndStop \/ Ignore)
BY DEF ExitEvent, ClosedEvent

LEMMA TypeStep == TypeOK /\ [Next]_vars => TypeOK'
<1> SUFFICES ASSUME TypeOK, [Next]_vars PROVE TypeOK'
  OBVIOUS
<1>1. ASSUME NEW s \in Starts, Start(s), update' \in {"none", update} PROVE TypeOK'
  BY <1>1 DEF TypeOK, Start
<1>2. ASSUME NEW s \in Starts, Bind(s) \/ LaunchFails(s) PROVE TypeOK'
  BY <1>2 DEF TypeOK, Bind, LaunchFails, flags
<1>3. ASSUME NEW s \in Starts, NEW p \in Processes, Spawn(s, p) PROVE TypeOK'
  BY <1>3 DEF TypeOK, Spawn, flags, Alive
<1>4. CASE StopCommand \/ StopTimesOut
  <2>1. BeginStop \/ EndStop
    BY <1>4 DEF StopCommand, StopTimesOut
  <2>2. UNCHANGED <<launch, child, process, heard, doomed, bridged>>
    BY <1>4 DEF StopCommand, StopTimesOut
  <2> QED
    BY <2>1, <2>2, FlagsTyped DEF TypeOK
<1>5. CASE Unloaded
  BY <1>5 DEF TypeOK, Unloaded
<1>6. ASSUME NEW p \in Processes, Boots(p) \/ Dies(p) PROVE TypeOK'
  BY <1>6 DEF TypeOK, Boots, Dies, flags, Alive
<1>7. ASSUME NEW p \in Processes, ShutsDown(p) PROVE TypeOK'
  <2>1. BeginStop \/ EndStop \/ Ignore
    BY <1>7, Events DEF ShutsDown
  <2>2. process' \in [Processes -> {"unborn", "dead", "gone"} \cup Alive]
    BY <1>7 DEF TypeOK, ShutsDown, Alive
  <2> QED
    BY <1>7, <2>1, <2>2, FlagsTyped DEF TypeOK, ShutsDown
<1>8. ASSUME NEW p \in Processes, Closed(p) PROVE TypeOK'
  <2>1. BeginStop \/ EndStop \/ Ignore
    BY <1>8, Events DEF Closed
  <2>2. process' \in [Processes -> {"unborn", "dead", "gone"} \cup Alive]
    BY <1>8 DEF TypeOK, Closed, Alive
  <2> QED
    BY <1>8, <2>1, <2>2, FlagsTyped DEF TypeOK, Closed
<1>9. CASE UpdateCommand \/ UpdateBegins \/ UpdateStops
  BY <1>9 DEF TypeOK, UpdateCommand, UpdateBegins, UpdateStops, flags, MayStop
<1>10. CASE UNCHANGED vars
  BY <1>10 DEF TypeOK, vars
<1> QED
  BY <1>1, <1>2, <1>3, <1>4, <1>5, <1>6, <1>7, <1>8, <1>9, <1>10 DEF Next, StartCommand, UpdateStarts

\* The state keeps its shape for any number of processes and starts.
THEOREM LifecycleTypeCorrect == Spec => []TypeOK
<1>1. Init => TypeOK
  BY DEF Init, TypeOK
<1> QED
  BY <1>1, TypeStep, PTL DEF Spec

(***************************************************************************)
(* The flags are truthful                                                  *)
(***************************************************************************)

\* FlagsTruthful in two parts.
Watched == started => stopping \/ \E p \in heard : Around(p)

ChildHeard == child # NoChild => child \in heard /\ Around(child)

\* A step that loses no process and starts none keeps both parts.
LEMMA TruthKept ==
  ASSUME Watched, ChildHeard, child' = child, heard' = heard,
         \A p \in Processes : Around(p) => Around(p)',
         heard \subseteq Processes, child \in Processes \cup {NoChild},
         started' => started /\ (stopping' \/ ~stopping)
  PROVE  Watched' /\ ChildHeard'
BY DEF Watched, ChildHeard

\* An event keeps or drops `started`, and drops it when a stop ends.
LEMMA EventFlags ==
  ASSUME TypeOK, BeginStop \/ EndStop \/ Ignore
  PROVE  started' => started /\ (stopping' \/ ~stopping)
BY DEF TypeOK, BeginStop, EndStop, Ignore, flags

\* 'closed' leaves a started server only to a stop that runs.
LEMMA ClosedFlags ==
  ASSUME TypeOK, ClosedEvent
  PROVE  started' => stopping'
<1>1. CASE started /\ ExitEvent
  BY <1>1 DEF TypeOK, ExitEvent, BeginStop, EndStop, Ignore, MayStop, flags
<1>2. CASE ~started /\ (BeginStop \/ Ignore)
  BY <1>2 DEF TypeOK, BeginStop, Ignore, flags
<1> QED
  BY <1>1, <1>2 DEF ClosedEvent

LEMMA TruthStep == TypeOK /\ FlagsTruthful /\ [Next]_vars => FlagsTruthful'
<1> SUFFICES ASSUME TypeOK, Watched, ChildHeard, [Next]_vars PROVE Watched' /\ ChildHeard'
  BY DEF FlagsTruthful, Watched, ChildHeard
<1> heard \subseteq Processes /\ child \in Processes \cup {NoChild}
  BY DEF TypeOK
<1>1. ASSUME UNCHANGED <<child, process, heard>>, started' => started /\ (stopping' \/ ~stopping)
      PROVE  Watched' /\ ChildHeard'
  <2>1. \A p \in Processes : Around(p) => Around(p)'
    BY <1>1 DEF Around
  <2> QED
    BY <1>1, <2>1, TruthKept
<1>2. ASSUME NEW s \in Starts, StartCommand(s) \/ Bind(s) \/ LaunchFails(s) \/ UpdateStarts(s)
      PROVE  Watched' /\ ChildHeard'
  BY <1>1, <1>2 DEF StartCommand, Bind, LaunchFails, UpdateStarts, Start, flags, TypeOK
<1>3. ASSUME NEW s \in Starts, NEW p \in Processes, Spawn(s, p) PROVE Watched' /\ ChildHeard'
  <2>1. \A q \in Processes : Around(q) => Around(q)'
    BY <1>3 DEF TypeOK, Spawn, Around, Alive
  <2>2. Around(p)' /\ p \in heard' /\ child' = p /\ heard \subseteq heard'
    BY <1>3 DEF TypeOK, Spawn, Around, Alive
  <2>3. started' = started /\ stopping' = stopping
    BY <1>3 DEF Spawn, flags
  <2> QED
    BY <2>1, <2>2, <2>3 DEF Watched, ChildHeard
<1>4. CASE StopCommand \/ StopTimesOut
  <2>1. BeginStop \/ EndStop
    BY <1>4 DEF StopCommand, StopTimesOut
  <2>2. UNCHANGED <<child, process, heard>>
    BY <1>4 DEF StopCommand, StopTimesOut
  <2> QED
    BY <1>1, <2>1, <2>2, EventFlags
<1>5. CASE Unloaded
  BY <1>1, <1>5 DEF Unloaded, TypeOK
<1>6. ASSUME NEW p \in Processes, Boots(p) PROVE Watched' /\ ChildHeard'
  <2>1. /\ \A q \in Processes : Around(q) => Around(q)'
        /\ Around(p)'
    BY <1>6 DEF TypeOK, Boots, Around, Alive
  <2>2. /\ child' = child /\ heard' = heard /\ stopping' = stopping
        /\ started' => started \/ p \in heard
    BY <1>6 DEF Boots
  <2> QED
    BY <2>1, <2>2 DEF Watched, ChildHeard
<1>7. ASSUME NEW p \in Processes, ShutsDown(p) \/ Dies(p) PROVE Watched' /\ ChildHeard'
  <2>1. \A q \in Processes : Around(q) => Around(q)'
    BY <1>7 DEF TypeOK, ShutsDown, Dies, Around, Alive
  <2>2. BeginStop \/ EndStop \/ Ignore
    BY <1>7, Events DEF ShutsDown, Dies, Ignore
  <2>3. child' = child /\ heard' = heard
    BY <1>7 DEF ShutsDown, Dies
  <2> QED
    BY <2>1, <2>2, <2>3, EventFlags, TruthKept
<1>8. ASSUME NEW p \in Processes, Closed(p) PROVE Watched' /\ ChildHeard'
  <2>1. started' => stopping'
    BY <1>8, ClosedFlags DEF Closed
  <2>2. child' = NoChild
    BY <1>8 DEF Closed
  <2> QED
    BY <2>1, <2>2 DEF Watched, ChildHeard
<1>9. CASE UpdateCommand \/ UpdateBegins \/ UpdateStops
  BY <1>1, <1>9 DEF UpdateCommand, UpdateBegins, UpdateStops, flags, TypeOK
<1>10. CASE UNCHANGED vars
  BY <1>1, <1>10 DEF vars
<1> QED
  BY <1>2, <1>3, <1>4, <1>5, <1>6, <1>7, <1>8, <1>9, <1>10 DEF Next

\* Whatever commands, crashes and late exits meet, Omegga listens to the server
\* it says has started and to the one stop() would kill.
THEOREM FlagsTruthfulHolds == Spec => []FlagsTruthful
<1>1. Init => FlagsTruthful
  BY DEF Init, FlagsTruthful
<1> QED
  BY <1>1, TruthStep, LifecycleTypeCorrect, PTL DEF Spec

(***************************************************************************)
(* No server is lost                                                       *)
(***************************************************************************)

\* Nothing is around while a start is in flight, and no second start is.
Alone ==
  ~overlapped =>
    /\ Launching => \A p \in Processes : ~Around(p)
    /\ \A s, t \in Starts : launch[s] # "none" /\ launch[t] # "none" => s = t

\* A start that waits for the bridge to listen has made it.
Bridging == ~overlapped => \A s \in Starts : launch[s] = "binding" => bridged

IInv == OneServer /\ Alone /\ Bridging

\* A step that brings no process and no start keeps the invariant.
LEMMA AloneKept ==
  ASSUME IInv, overlapped => overlapped', child' = child, bridged' = bridged, launch' = launch,
         \A p \in Processes : Around(p)' => Around(p)
  PROVE  IInv'
<1>1. Launching' <=> Launching
  BY DEF Launching
<1> QED
  BY <1>1 DEF IInv, OneServer, Alone, Bridging

\* An event never takes an overlap back.
LEMMA EventOverlap ==
  ASSUME TypeOK, BeginStop \/ EndStop \/ Ignore
  PROVE  overlapped => overlapped'
BY DEF BeginStop, EndStop, Ignore

LEMMA StartKeeps ==
  ASSUME TypeOK, IInv, NEW s \in Starts, Start(s)
  PROVE  IInv'
<1> SUFFICES ASSUME ~overlapped' PROVE IInv'
  BY DEF IInv, OneServer, Alone, Bridging
<1>1. ~overlapped /\ ~Launching /\ \A p \in Processes : ~Around(p)
  BY DEF Start
<1>2. \A p \in Processes : ~Around(p)'
  BY <1>1 DEF Start, Around
<1>3. launch' = [launch EXCEPT ![s] = "loading"]
  BY DEF Start
<1>4. \A t \in Starts : launch'[t] # "none" => t = s
  BY <1>1, <1>3 DEF Launching, TypeOK
<1>5. launch'[s] = "loading"
  BY <1>3 DEF TypeOK
<1> QED
  BY <1>2, <1>4, <1>5 DEF IInv, OneServer, Alone, Bridging

LEMMA BindKeeps ==
  ASSUME TypeOK, IInv, NEW s \in Starts, Bind(s) \/ LaunchFails(s)
  PROVE  IInv'
<1> SUFFICES ASSUME ~overlapped' PROVE IInv'
  BY DEF IInv, OneServer, Alone, Bridging
<1>1. ~overlapped /\ launch[s] # "none"
  BY DEF Bind, LaunchFails
<1>2. \A t \in Starts : launch'[t] # "none" => launch[t] # "none"
  BY <1>1 DEF Bind, LaunchFails, TypeOK
<1>3. \A p \in Processes : ~Around(p)
  BY <1>1 DEF IInv, Alone, Launching
<1>4. \A p \in Processes : ~Around(p)'
  BY <1>3 DEF Bind, LaunchFails, Around
<1>5. \A t \in Starts : launch'[t] = "binding" => bridged'
  BY <1>1 DEF IInv, Bridging, Bind, LaunchFails, TypeOK
<1> QED
  BY <1>1, <1>2, <1>4, <1>5 DEF IInv, OneServer, Alone, Bridging

LEMMA SpawnKeeps ==
  ASSUME TypeOK, IInv, NEW s \in Starts, NEW p \in Processes, Spawn(s, p)
  PROVE  IInv'
<1> SUFFICES ASSUME ~overlapped' PROVE IInv'
  BY DEF IInv, OneServer, Alone, Bridging
<1>1. ~overlapped /\ launch[s] = "binding" /\ child' = p /\ bridged' = bridged
  BY DEF Spawn
<1>2. bridged /\ \A q \in Processes : ~Around(q)
  BY <1>1 DEF IInv, Alone, Bridging, Launching
<1>3. \A t \in Starts : launch'[t] = "none"
  BY <1>1 DEF IInv, Alone, Spawn, TypeOK
<1>4. \A q \in Processes : Around(q)' => q = p
  BY <1>2 DEF Spawn, Around, TypeOK
<1> QED
  BY <1>1, <1>2, <1>3, <1>4 DEF IInv, OneServer, Alone, Bridging, Launching

\* The listener whose cleanup() takes the child and the bridge is the child's.
LEMMA ClosedKeeps ==
  ASSUME TypeOK, IInv, NEW p \in Processes, Closed(p)
  PROVE  IInv'
<1> SUFFICES ASSUME ~overlapped' PROVE IInv'
  BY DEF IInv, OneServer, Alone, Bridging
<1>1. ~overlapped
  BY Events, EventOverlap DEF Closed
<1>2. Around(p)
  BY DEF Closed, Around
<1>3. \A s \in Starts : launch[s] = "none"
  BY <1>1, <1>2 DEF IInv, Alone, Launching
<1>4. \A q \in Processes : Around(q) => q = p
  BY <1>1, <1>2 DEF IInv, OneServer
<1>5. \A q \in Processes : ~Around(q)'
  BY <1>4 DEF Closed, Around, TypeOK, Alive
<1>6. launch' = launch
  BY DEF Closed
<1> QED
  BY <1>3, <1>5, <1>6 DEF IInv, OneServer, Alone, Bridging

LEMMA IInvStep == TypeOK /\ IInv /\ [Next]_vars => IInv'
<1> SUFFICES ASSUME TypeOK, IInv, [Next]_vars PROVE IInv'
  OBVIOUS
<1>1. ASSUME NEW s \in Starts, StartCommand(s) \/ UpdateStarts(s) PROVE IInv'
  BY <1>1, StartKeeps DEF StartCommand, UpdateStarts
<1>2. ASSUME NEW s \in Starts, Bind(s) \/ LaunchFails(s) PROVE IInv'
  BY <1>2, BindKeeps
<1>3. ASSUME NEW s \in Starts, NEW p \in Processes, Spawn(s, p) PROVE IInv'
  BY <1>3, SpawnKeeps
<1>4. ASSUME UNCHANGED <<child, process, launch, bridged>>, overlapped => overlapped' PROVE IInv'
  <2>1. \A p \in Processes : Around(p)' => Around(p)
    BY <1>4 DEF Around
  <2> QED
    BY <1>4, <2>1, AloneKept
<1>5. CASE StopCommand \/ StopTimesOut
  <2>1. (BeginStop \/ EndStop) /\ UNCHANGED <<child, process, launch, bridged>>
    BY <1>5 DEF StopCommand, StopTimesOut
  <2> QED
    BY <1>4, <2>1, EventOverlap
<1>6. CASE Unloaded \/ UpdateCommand \/ UpdateBegins \/ UpdateStops
  BY <1>4, <1>6 DEF Unloaded, UpdateCommand, UpdateBegins, UpdateStops
<1>7. ASSUME NEW p \in Processes, Boots(p) \/ ShutsDown(p) \/ Dies(p) PROVE IInv'
  <2>1. \A q \in Processes : Around(q)' => Around(q)
    BY <1>7 DEF TypeOK, Boots, ShutsDown, Dies, Around, Alive
  <2>2. overlapped => overlapped'
    BY <1>7, Events, EventOverlap DEF Boots, ShutsDown, Dies
  <2>3. UNCHANGED <<child, launch, bridged>>
    BY <1>7 DEF Boots, ShutsDown, Dies
  <2> QED
    BY <2>1, <2>2, <2>3, AloneKept
<1>8. ASSUME NEW p \in Processes, Closed(p) PROVE IInv'
  BY <1>8, ClosedKeeps
<1>9. CASE UNCHANGED vars
  BY <1>4, <1>9 DEF vars
<1> QED
  BY <1>1, <1>2, <1>3, <1>5, <1>6, <1>7, <1>8, <1>9 DEF Next

\* While no command overlapped another, the only process that still runs is the
\* one stop() kills, and its bridge is up.
THEOREM OneServerHolds == Spec => []OneServer
<1>1. Init => IInv
  <2> SUFFICES ASSUME Init PROVE IInv
    OBVIOUS
  <2>1. \A p \in Processes : ~Around(p)
    BY DEF Init, Around, Alive
  <2>2. \A s \in Starts : launch[s] = "none"
    BY DEF Init
  <2> QED
    BY <2>1, <2>2 DEF IInv, OneServer, Alone, Bridging
<1>2. IInv => OneServer
  BY DEF IInv
<1> QED
  BY <1>1, <1>2, IInvStep, LifecycleTypeCorrect, PTL DEF Spec

=============================================================================
