-------------------------- MODULE PluginHostProofs --------------------------
(***************************************************************************)
(* Proofs about PluginHost for any number of callers and threads.  The     *)
(* inductive invariant is that of a plugin without emitConfig: with it,    *)
(* two loads may both find no worker.                                      *)
(***************************************************************************)
EXTENDS PluginHost, TLAPS

\* No load waits for a file.
NoConfig == \A c \in Callers : op[c].pc # "config"

\* Who waits, waits for a thread that was made.
Owned == \A c \in Callers : op[c].pc # "idle" => op[c].worker \in Workers /\ thread[op[c].worker] # "unborn"

\* One load at most waits for the answers of a worker.
OneLoad ==
  \A c, d \in Callers :
    op[c].pc \in Loading /\ op[d].pc \in Loading /\ op[c].worker = op[d].worker => c = d

\* Before its load has got so far, the current worker hears nothing.
Unheard == \A c \in Callers : op[c].pc \in {"name", "load"} /\ op[c].worker = current => listeners = 0

\* The current worker is a thread that was made.
Made == current # 0 => thread[current] # "unborn"

IInv == Made /\ TypeOK /\ Reachable /\ HeardOnce /\ NoConfig /\ Owned /\ OneLoad /\ Unheard

\* The state after Init is one of them.
LEMMA InitIInv == Init => IInv
<1> SUFFICES ASSUME Init PROVE IInv
  OBVIOUS
<1>1. \A c \in Callers : op[c] = Idle /\ op[c].pc = "idle"
  BY DEF Init, Idle
<1>2. Idle \in [pc : {"idle", "config"} \cup Loading \cup Stopping \cup Ending, worker : Workers \cup {0}]
  BY DEF Idle
<1>3. TypeOK
  BY <1>2 DEF Init, TypeOK
<1>4. Reachable /\ HeardOnce
  BY DEF Init, Reachable, HeardOnce
<1>5. NoConfig /\ Owned /\ OneLoad /\ Unheard
  BY <1>1 DEF NoConfig, Owned, OneLoad, Unheard, Loading
<1>6. QED
  BY <1>3, <1>4, <1>5 DEF IInv, Init, Made

\* A thread that was made stays made.
LEMMA MadeKept ==
  ASSUME IInv, current' = current \/ current' = 0, \A w \in Workers : thread[w] # "unborn" => thread'[w] # "unborn"
  PROVE  Made'
  BY DEF IInv, TypeOK, Made

\* A worker is made only when there is none, for a load that then is its only
\* one.
LEMMA LoadIInv ==
  ASSUME IInv, ~emitConfig, NEW c \in Callers, Load(c), UNCHANGED emitConfig
  PROVE  IInv'
<1>1. PICK w \in Workers :
        /\ thread[w] = "unborn"
        /\ thread' = [thread EXCEPT ![w] = "live"]
        /\ current' = w
        /\ op' = [op EXCEPT ![c] = [pc |-> "name", worker |-> w]]
  BY DEF Load, CreateWorker, Goes
<1>2. current = 0 /\ commands' = FALSE /\ UNCHANGED <<listeners>>
  BY DEF Load, MayLoad
<1>3. listeners = 0
  BY <1>2 DEF IInv, HeardOnce
<1>4. TypeOK'
  BY <1>1, <1>2 DEF IInv, TypeOK, Loading
<1>5. Reachable'
  BY <1>1, <1>2, WorkersAssumption DEF IInv, TypeOK, Reachable
<1>6. HeardOnce'
  BY <1>2, <1>3 DEF HeardOnce
<1>7. \A d \in Callers : d # c => op'[d] = op[d]
  BY <1>1 DEF IInv, TypeOK
<1>8. op'[c] = [pc |-> "name", worker |-> w]
  BY <1>1 DEF IInv, TypeOK
<1>9. \A d \in Callers : d # c /\ op[d].pc # "idle" => op[d].worker # w
  BY <1>1 DEF IInv, Owned
<1>10. NoConfig' /\ Owned'
  BY <1>1, <1>7, <1>8 DEF IInv, TypeOK, NoConfig, Owned
<1>11. OneLoad'
  BY <1>7, <1>8, <1>9 DEF IInv, OneLoad, Loading
<1>12. Unheard'
  BY <1>2, <1>3 DEF Unheard
<1>13. Made'
  BY <1>1 DEF IInv, TypeOK, Made
<1>14. QED
  BY <1>4, <1>5, <1>6, <1>10, <1>11, <1>12, <1>13 DEF IInv

\* A stop that waits may learn that it comes before what load has just sent.
Overtaken(d) == op[d].pc = "stop" /\ op'[d] = [pc |-> "stopFirst", worker |-> op[d].worker]

\* What a step of one caller leaves alone, when it keeps its worker or ends.
LEMMA OneCallerMoves ==
  ASSUME IInv, NEW c \in Callers, NEW r, op'[c] = r,
         \A d \in Callers : d # c => op'[d] = op[d] \/ Overtaken(d),
         r = Idle \/ (r.pc \in Loading \cup Stopping \cup Ending /\ r.worker \in Workers /\ thread[r.worker] # "unborn"),
         r.pc \in Loading => op[c].pc \in Loading /\ op[c].worker = r.worker,
         \A w \in Workers : thread[w] # "unborn" => thread'[w] # "unborn"
  PROVE  NoConfig' /\ Owned' /\ OneLoad'
<1>1. \A d \in Callers : d # c => \/ op'[d] = op[d]
                                  \/ /\ op'[d].pc = "stopFirst" /\ op[d].pc = "stop"
                                     /\ op'[d].worker = op[d].worker
  <2> SUFFICES ASSUME NEW d \in Callers, d # c, op'[d] # op[d]
               PROVE  op'[d].pc = "stopFirst" /\ op[d].pc = "stop" /\ op'[d].worker = op[d].worker
    OBVIOUS
  <2>1. Overtaken(d)
    OBVIOUS
  <2> QED BY <2>1 DEF Overtaken
<1>2. NoConfig'
  BY <1>1 DEF IInv, NoConfig, Idle, Loading, Stopping, Ending
<1>3. Owned'
  BY <1>1 DEF IInv, Owned, Idle, Loading, Stopping, Ending
<1>4. \A d \in Callers : op'[d].pc \in Loading => op[d].pc \in Loading /\ op[d].worker = op'[d].worker
  BY <1>1 DEF Idle, Loading
<1>5. OneLoad'
  BY <1>4 DEF IInv, OneLoad
<1>6. QED
  BY <1>2, <1>3, <1>5

\* The same, when nobody else moves.
LEMMA OnlyCallerMoves ==
  ASSUME IInv, NEW c \in Callers, NEW r, op' = [op EXCEPT ![c] = r],
         r = Idle \/ (r.pc \in Loading \cup Stopping \cup Ending /\ r.worker \in Workers /\ thread[r.worker] # "unborn"),
         r.pc \in Loading => op[c].pc \in Loading /\ op[c].worker = r.worker,
         \A w \in Workers : thread[w] # "unborn" => thread'[w] # "unborn"
  PROVE  NoConfig' /\ Owned' /\ OneLoad'
<1>1. op'[c] = r /\ \A d \in Callers : d # c => op'[d] = op[d]
  BY DEF IInv, TypeOK
<1>2. QED
  BY <1>1, OneCallerMoves

\* What load does to the callers when it sends its next message.
LEMMA SendsMoves ==
  ASSUME TypeOK, NEW c \in Callers, NEW pc \in {"load", "start"}, Sends(c, pc)
  PROVE  /\ op'[c] = [pc |-> pc, worker |-> op[c].worker]
         /\ \A d \in Callers : d # c => op'[d] = op[d] \/ Overtaken(d)
         /\ op' \in [Callers -> [pc : {"idle", "config"} \cup Loading \cup Stopping \cup Ending, worker : Workers \cup {0}]]
<1> DEFINE T == [pc : {"idle", "config"} \cup Loading \cup Stopping \cup Ending, worker : Workers \cup {0}]
<1>1. op'[c] = [pc |-> pc, worker |-> op[c].worker]
  BY DEF Sends
<1>2. \A d \in Callers : d # c => op'[d] = op[d] \/ Overtaken(d)
  BY DEF Sends, Overtaken
<1>3. [pc |-> pc, worker |-> op[c].worker] \in T
  BY DEF TypeOK, Loading
<1>4. \A d \in Callers : op[d] \in T /\ op[d].worker \in Workers \cup {0}
  BY DEF TypeOK
<1>5. \A d \in Callers : [pc |-> "stopFirst", worker |-> op[d].worker] \in T
  BY <1>4 DEF Stopping
<1>6. \A d \in Callers : op'[d] \in T
  BY <1>1, <1>2, <1>3, <1>4, <1>5 DEF Overtaken
<1>7. op' = [d \in Callers |-> op'[d]]
  BY DEF Sends
<1>8. QED
  BY <1>1, <1>2, <1>6, <1>7

\* The steps of load after the thread is made.
LEMMA LoadStepsIInv ==
  ASSUME IInv, NEW c \in Callers, Named(c) \/ Loaded(c) \/ Started(c) \/ LoadFails(c), UNCHANGED emitConfig
  PROVE  IInv'
<1> DEFINE w == op[c].worker
<1>1. /\ current = w /\ w \in Workers /\ thread[w] \in {"live", "gone"} /\ w # 0
      /\ op[c].pc \in Loading
      /\ UNCHANGED <<current>>
  BY DEF IInv, TypeOK, Named, Loaded, Started, LoadFails, InTurn, Heard, At, Loading
<1>2. \A d \in Callers : op[d].pc \in Loading /\ op[d].worker = current => d = c
  BY <1>1 DEF IInv, OneLoad
<1>3. CASE Named(c)
  <2>0. Sends(c, "load")
    BY <1>3 DEF Named
  <2>0a. /\ op'[c] = [pc |-> "load", worker |-> w]
         /\ \A d \in Callers : d # c => op'[d] = op[d] \/ Overtaken(d)
         /\ op' \in [Callers -> [pc : {"idle", "config"} \cup Loading \cup Stopping \cup Ending, worker : Workers \cup {0}]]
    BY <2>0, SendsMoves DEF IInv
  <2>1. UNCHANGED <<thread, listeners, commands>>
        /\ op[c].pc = "name"
    BY <1>3 DEF Named, Goes, At
  <2>2. NoConfig' /\ Owned' /\ OneLoad'
    <3> DEFINE r == [pc |-> "load", worker |-> w]
    <3>1. r.pc = "load" /\ r.worker = w
      OBVIOUS
    <3> HIDE DEF r
    <3>2. op'[c] = r /\ \A d \in Callers : d # c => op'[d] = op[d] \/ Overtaken(d)
      BY <2>0a DEF r
    <3>3. \A v \in Workers : thread[v] # "unborn" => thread'[v] # "unborn"
      BY <2>1
    <3> QED BY <1>1, <3>1, <3>2, <3>3, OneCallerMoves DEF Loading
  <2>3. TypeOK' /\ Reachable' /\ HeardOnce'
    BY <1>1, <2>0a, <2>1 DEF IInv, TypeOK, Reachable, HeardOnce
  <2>4. Unheard'
    <3>2. listeners = 0
      BY <1>1, <2>1 DEF IInv, Unheard
    <3> QED BY <2>1, <3>2 DEF Unheard
  <2>5. Made'
    BY <1>1, <2>1, MadeKept
  <2> QED BY <2>2, <2>3, <2>4, <2>5 DEF IInv
<1>4. CASE Loaded(c)
  <2>0. Sends(c, "start")
    BY <1>4 DEF Loaded
  <2>0a. /\ op'[c] = [pc |-> "start", worker |-> w]
         /\ \A d \in Callers : d # c => op'[d] = op[d] \/ Overtaken(d)
         /\ op' \in [Callers -> [pc : {"idle", "config"} \cup Loading \cup Stopping \cup Ending, worker : Workers \cup {0}]]
    BY <2>0, SendsMoves DEF IInv
  <2>1. UNCHANGED <<thread, commands>>
        /\ op[c].pc = "load" /\ listeners' = listeners + 1
    BY <1>4 DEF Loaded, Goes, At
  <2>2. NoConfig' /\ Owned' /\ OneLoad'
    <3> DEFINE r == [pc |-> "start", worker |-> w]
    <3>1. r.pc = "start" /\ r.worker = w
      OBVIOUS
    <3> HIDE DEF r
    <3>2. op'[c] = r /\ \A d \in Callers : d # c => op'[d] = op[d] \/ Overtaken(d)
      BY <2>0a DEF r
    <3>3. \A v \in Workers : thread[v] # "unborn" => thread'[v] # "unborn"
      BY <2>1
    <3> QED BY <1>1, <3>1, <3>2, <3>3, OneCallerMoves DEF Loading
  <2>3. listeners = 0
    BY <1>1, <2>1 DEF IInv, Unheard
  <2>4. TypeOK' /\ Reachable' /\ HeardOnce'
    BY <1>1, <2>0a, <2>1, <2>3 DEF IInv, TypeOK, Reachable, HeardOnce
  <2>5. Unheard'
    <3>1. op'[c].pc = "start"
      BY <2>0a
    <3>2. \A d \in Callers : d # c => op'[d] = op[d] \/ op'[d].pc = "stopFirst"
      BY <2>0a DEF Overtaken
    <3>3. \A d \in Callers : ~(op'[d].pc \in {"name", "load"} /\ op'[d].worker = current)
      BY <1>2, <3>1, <3>2 DEF Loading
    <3> QED BY <1>1, <3>3 DEF Unheard
  <2>6. Made'
    BY <1>1, <2>1, MadeKept
  <2> QED BY <2>2, <2>4, <2>5, <2>6 DEF IInv
<1>5. CASE Started(c)
  <2>1. op' = [op EXCEPT ![c] = Idle] /\ UNCHANGED <<thread, listeners>> /\ commands' \in BOOLEAN
    BY <1>5 DEF Started
  <2>2. NoConfig' /\ Owned' /\ OneLoad'
    <3>1. Idle.pc \notin Loading
      BY DEF Idle, Loading
    <3>2. \A v \in Workers : thread[v] # "unborn" => thread'[v] # "unborn"
      BY <2>1
    <3> QED BY <2>1, <3>1, <3>2, OnlyCallerMoves
  <2>3. TypeOK' /\ Reachable' /\ HeardOnce'
    BY <1>1, <2>1 DEF IInv, TypeOK, Reachable, HeardOnce, Idle
  <2>4. Unheard'
    <3>1. op'[c].pc = "idle" /\ \A d \in Callers : d # c => op'[d] = op[d]
      BY <2>1 DEF IInv, TypeOK, Idle
    <3> QED BY <1>1, <2>1, <3>1 DEF IInv, Unheard
  <2>5. Made'
    BY <1>1, <2>1, MadeKept
  <2> QED BY <2>2, <2>3, <2>4, <2>5 DEF IInv
<1>6. CASE LoadFails(c)
  <2>1. /\ op' = [op EXCEPT ![c] = [pc |-> "undo", worker |-> w]] /\ UNCHANGED <<listeners, commands>>
        /\ thread' = [thread EXCEPT ![w] = IF @ = "live" THEN "gone" ELSE @]
    BY <1>6 DEF LoadFails, Goes, Terminated
  <2>2. \A v \in Workers : (thread[v] # "unborn" => thread'[v] # "unborn")
                           /\ (thread'[v] \in {"live", "gone"} => thread[v] \in {"live", "gone"})
    BY <1>1, <2>1 DEF IInv, TypeOK
  <2>3. NoConfig' /\ Owned' /\ OneLoad'
    <3> DEFINE r == [pc |-> "undo", worker |-> w]
    <3>1. r.pc = "undo" /\ r.worker = w
      OBVIOUS
    <3> HIDE DEF r
    <3>2. op' = [op EXCEPT ![c] = r]
      BY <2>1 DEF r
    <3> QED BY <1>1, <2>2, <3>1, <3>2, OnlyCallerMoves DEF Loading, Ending
  <2>4. TypeOK'
    BY <1>1, <2>1 DEF IInv, TypeOK, Ending
  <2>5. Reachable' /\ HeardOnce'
    BY <1>1, <2>1, <2>2 DEF IInv, Reachable, HeardOnce
  <2>6. Unheard'
    <3>1. op'[c].pc = "undo" /\ \A d \in Callers : d # c => op'[d] = op[d]
      BY <2>1 DEF IInv, TypeOK
    <3> QED BY <1>1, <2>1, <3>1 DEF IInv, Unheard
  <2>7. Made'
    BY <1>1, <2>2, MadeKept
  <2> QED BY <2>3, <2>4, <2>5, <2>6, <2>7 DEF IInv
<1>7. QED
  BY <1>3, <1>4, <1>5, <1>6

\* A registered command needs a worker that is heard.
LEMMA WorkerStepsIInv ==
  ASSUME IInv, NEW w \in Workers, Registers(w) \/ Crash(w), UNCHANGED emitConfig
  PROVE  IInv'
<1>1. UNCHANGED <<current, listeners, op>>
  BY DEF Registers, Crash
<1>2. \A v \in Workers : /\ (thread[v] # "unborn" => thread'[v] # "unborn")
                         /\ (thread'[v] \in {"live", "gone"} => thread[v] \in {"live", "gone"})
  BY DEF IInv, TypeOK, Registers, Crash
<1>3. TypeOK'
  <2>1. CASE Registers(w)
    BY <2>1 DEF IInv, TypeOK, Registers
  <2>2. CASE Crash(w)
    BY <2>2 DEF IInv, TypeOK, Crash
  <2> QED BY <2>1, <2>2
<1>4. Reachable'
  BY <1>1, <1>2 DEF IInv, Reachable
<1>5. current = 0 => commands' = commands
  BY WorkersAssumption DEF Registers, Crash, InTurn, Heard
<1>6. HeardOnce'
  BY <1>1, <1>5 DEF IInv, HeardOnce
<1>7. NoConfig' /\ OneLoad' /\ Unheard'
  BY <1>1 DEF IInv, NoConfig, OneLoad, Unheard
<1>8. Owned'
  BY <1>1, <1>2 DEF IInv, Owned
<1>9. Made'
  BY <1>1, <1>2, MadeKept
<1>10. QED
  BY <1>3, <1>4, <1>6, <1>7, <1>8, <1>9 DEF IInv

\* An exit event is always that of the current worker.
LEMMA ExitIInv ==
  ASSUME IInv, NEW w \in Workers, Exit(w), UNCHANGED emitConfig
  PROVE  IInv'
<1>1. current = w
  BY DEF IInv, Reachable, Exit
<1>2. /\ current' = 0 /\ commands' = FALSE /\ listeners' = 0
      /\ thread' = [thread EXCEPT ![w] = "buried"] /\ UNCHANGED op
  BY <1>1 DEF IInv, TypeOK, HeardOnce, Exit, TearDown, Off
<1>3. TypeOK'
  BY <1>2 DEF IInv, TypeOK
<1>4. Reachable' /\ HeardOnce'
  BY <1>1, <1>2 DEF IInv, TypeOK, Reachable, HeardOnce
<1>5. NoConfig' /\ Owned' /\ OneLoad' /\ Unheard'
  BY <1>2 DEF IInv, TypeOK, NoConfig, Owned, OneLoad, Unheard
<1>6. Made'
  BY <1>2 DEF Made
<1>7. QED
  BY <1>3, <1>4, <1>5, <1>6 DEF IInv

\* The steps of unload, and the end of a load that failed.
LEMMA UnloadIInv ==
  ASSUME IInv, NEW c \in Callers, Unload(c) \/ Stopped(c) \/ StopTimesOut(c) \/ Ended(c), UNCHANGED emitConfig
  PROVE  IInv'
<1>1. CASE Unload(c)
  <2> DEFINE r == [pc |-> "stop", worker |-> current]
  <2>1. op' = [op EXCEPT ![c] = r] /\ current \in Workers /\ op[c].pc = "idle"
        /\ UNCHANGED <<current, thread, listeners, commands>>
    BY <1>1 DEF IInv, TypeOK, Unload, Goes, At
  <2>2. thread[current] # "unborn"
    BY <1>1 DEF Unload, IInv, Made
  <2>3. r.pc = "stop" /\ r.worker = current
    OBVIOUS
  <2>4. TypeOK'
    BY <2>1 DEF IInv, TypeOK, Stopping
  <2> HIDE DEF r
  <2>5. NoConfig' /\ Owned' /\ OneLoad'
    BY <2>1, <2>2, <2>3, OnlyCallerMoves DEF Loading, Stopping
  <2>6. \A d \in Callers : d # c => op'[d] = op[d]
    BY <2>1 DEF IInv, TypeOK
  <2>7. op'[c] = r
    BY <2>1 DEF IInv, TypeOK
  <2>8. Unheard'
    BY <2>1, <2>3, <2>6, <2>7 DEF IInv, Unheard
  <2> QED BY <2>1, <2>4, <2>5, <2>8 DEF IInv, Made, Reachable, HeardOnce
<1>2. CASE Ended(c)
  <2>1. op' = [op EXCEPT ![c] = Idle]
        /\ UNCHANGED <<current, thread, listeners, commands>>
    BY <1>2 DEF Ended
  <2>2. Idle.pc \notin Loading
    BY DEF Idle, Loading
  <2>3. NoConfig' /\ Owned' /\ OneLoad'
    BY <2>1, <2>2, OnlyCallerMoves
  <2>4. TypeOK'
    BY <2>1 DEF IInv, TypeOK, Idle
  <2>5. op'[c].pc = "idle" /\ \A d \in Callers : d # c => op'[d] = op[d]
    BY <2>1 DEF IInv, TypeOK, Idle
  <2>6. Unheard'
    BY <2>1, <2>5 DEF IInv, Unheard
  <2> QED BY <2>1, <2>3, <2>4, <2>6 DEF IInv, Made, Reachable, HeardOnce
<1>3. CASE Stopped(c) \/ StopTimesOut(c)
  <2> DEFINE w == op[c].worker
  <2>1. op[c].pc \in Stopping /\ Finally(c)
    BY <1>3 DEF Stopped, StopTimesOut
  <2>2. w \in Workers /\ thread[w] # "unborn"
    BY <2>1 DEF IInv, Owned, Stopping
  <2>3. thread' = [thread EXCEPT ![w] = IF @ = "live" THEN "gone" ELSE @]
        /\ UNCHANGED <<current>> /\ commands' = FALSE
        /\ listeners' = IF listeners = 0 THEN 0 ELSE listeners - 1
    BY <2>1 DEF Finally, Terminated, Off
  <2>4. \A v \in Workers : /\ (thread[v] # "unborn" => thread'[v] # "unborn")
                           /\ (thread'[v] \in {"live", "gone"} => thread[v] \in {"live", "gone"})
    BY <2>2, <2>3 DEF IInv, TypeOK
  <2>5. PICK r : /\ op' = [op EXCEPT ![c] = r]
                 /\ r = Idle \/ (r.pc = "kill" /\ r.worker = w /\ r = [pc |-> "kill", worker |-> w])
    BY <2>1 DEF Finally, Goes
  <2>6. r.pc \notin Loading
    BY <2>5 DEF Idle, Loading
  <2>7. NoConfig' /\ Owned' /\ OneLoad'
    BY <2>2, <2>4, <2>5, <2>6, OnlyCallerMoves DEF Ending
  <2>8. TypeOK'
    <3>1. op' \in [Callers -> [pc : {"idle", "config"} \cup Loading \cup Stopping \cup Ending, worker : Workers \cup {0}]]
      BY <2>2, <2>5 DEF IInv, TypeOK, Idle, Ending
    <3>2. thread' \in [Workers -> {"unborn", "live", "gone", "buried"}]
      BY <2>3 DEF IInv, TypeOK
    <3>3. listeners' \in Nat
      BY <2>3 DEF IInv, TypeOK
    <3> QED BY <2>3, <3>1, <3>2, <3>3 DEF IInv, TypeOK
  <2>9. Reachable'
    BY <2>3, <2>4 DEF IInv, Reachable
  <2>10. listeners' <= 1 /\ (listeners = 0 => listeners' = 0)
    BY <2>3 DEF IInv, TypeOK, HeardOnce
  <2>11. HeardOnce'
    BY <2>3, <2>10 DEF IInv, HeardOnce
  <2>12. Unheard'
    <3>1. op'[c].pc \notin {"name", "load"} /\ \A d \in Callers : d # c => op'[d] = op[d]
      BY <2>5, <2>6 DEF IInv, TypeOK, Loading
    <3> QED BY <2>3, <2>10, <3>1 DEF IInv, Unheard
  <2>13. Made'
    BY <2>3, <2>4, MadeKept
  <2> QED BY <2>7, <2>8, <2>9, <2>11, <2>12, <2>13 DEF IInv
<1>4. QED
  BY <1>1, <1>2, <1>3

\* What plugin.json says is read once.
LEMMA EmitConfigKept == [Next]_vars => emitConfig' = emitConfig
<1>1. ASSUME NEW c \in Callers, CallerStep(c) PROVE emitConfig' = emitConfig
  BY <1>1 DEF CallerStep, Load, ConfigWritten, ConfigFails, Named, Loaded, Started, LoadFails, Unload,
              Stopped, StopTimesOut, Ended, Finally
<1>2. ASSUME NEW w \in Workers, WorkerStep(w) PROVE emitConfig' = emitConfig
  BY <1>2 DEF WorkerStep, Registers, Crash, Exit
<1>3. QED
  BY <1>1, <1>2 DEF Next, vars

\* Every step keeps the invariant; a load never waits for a file here.
LEMMA NextIInv ==
  ASSUME IInv, ~emitConfig, [Next]_vars
  PROVE  IInv'
<1>0. UNCHANGED emitConfig
  BY EmitConfigKept
<1>1. CASE UNCHANGED vars
  BY <1>1 DEF vars, IInv, Made, TypeOK, Reachable, HeardOnce, NoConfig, Owned, OneLoad, Unheard
<1>2. ASSUME NEW c \in Callers, CallerStep(c) PROVE IInv'
  <2>1. ~ConfigWritten(c) /\ ~ConfigFails(c)
    BY DEF IInv, NoConfig, ConfigWritten, ConfigFails, At
  <2>2. CASE Load(c)
    BY <1>0, <2>2, LoadIInv
  <2>3. CASE Named(c) \/ Loaded(c) \/ Started(c) \/ LoadFails(c)
    BY <1>0, <2>3, LoadStepsIInv
  <2>4. CASE Unload(c) \/ Stopped(c) \/ StopTimesOut(c) \/ Ended(c)
    BY <1>0, <2>4, UnloadIInv
  <2>5. QED
    BY <1>2, <2>1, <2>2, <2>3, <2>4 DEF CallerStep
<1>3. ASSUME NEW w \in Workers, WorkerStep(w) PROVE IInv'
  BY <1>0, <1>3, WorkerStepsIInv, ExitIInv DEF WorkerStep
<1>4. QED
  BY <1>1, <1>2, <1>3 DEF Next

\* The invariant of a plugin that does not emit its configuration.
PlainIInv == ~emitConfig => IInv

\* Whether it does never changes.
LEMMA SpecPlainIInv == Spec => []PlainIInv
<1>1. Init => PlainIInv
  BY InitIInv DEF PlainIInv
<1>2. PlainIInv /\ [Next]_vars => PlainIInv'
  <2> SUFFICES ASSUME PlainIInv, [Next]_vars, ~emitConfig' PROVE IInv'
    BY DEF PlainIInv
  <2>1. emitConfig' = emitConfig
    BY EmitConfigKept
  <2> QED
    BY <2>1, NextIInv DEF PlainIInv
<1>3. QED
  BY <1>1, <1>2, PTL DEF Spec

-----------------------------------------------------------------------------
\* The caller's state after a step has its type.
LEMMA GoesType ==
  ASSUME TypeOK, NEW c \in Callers, NEW pc \in {"config"} \cup Loading \cup Stopping \cup Ending,
         NEW w \in Workers \cup {0}, Goes(c, pc, w)
  PROVE  op' \in [Callers -> [pc : {"idle", "config"} \cup Loading \cup Stopping \cup Ending, worker : Workers \cup {0}]]
BY DEF TypeOK, Goes

LEMMA IdleType ==
  ASSUME TypeOK, NEW c \in Callers, op' = [op EXCEPT ![c] = Idle]
  PROVE  op' \in [Callers -> [pc : {"idle", "config"} \cup Loading \cup Stopping \cup Ending, worker : Workers \cup {0}]]
BY DEF TypeOK, Idle

\* Taking a listener away leaves a number.
LEMMA OffType ==
  ASSUME TypeOK, Off
  PROVE  listeners' \in Nat
<1>1. listeners \in Nat
  BY DEF TypeOK
<1>2. QED
  BY <1>1 DEF Off

\* Steps that make or end threads keep the type, whatever they overlap.
LEMMA ThreadType ==
  ASSUME TypeOK, NEW w, thread' = Terminated(w)
  PROVE  thread' \in [Workers -> {"unborn", "live", "gone", "buried"}]
BY DEF TypeOK, Terminated

LEMMA CreateType ==
  ASSUME TypeOK, NEW c \in Callers, CreateWorker(c)
  PROVE  /\ current' \in Workers \cup {0}
         /\ thread' \in [Workers -> {"unborn", "live", "gone", "buried"}]
         /\ op' \in [Callers -> [pc : {"idle", "config"} \cup Loading \cup Stopping \cup Ending, worker : Workers \cup {0}]]
<1>1. PICK w \in Workers : thread' = [thread EXCEPT ![w] = "live"] /\ current' = w /\ Goes(c, "name", w)
  BY DEF CreateWorker
<1>2. "name" \in Loading
  BY DEF Loading
<1>3. QED
  BY <1>1, <1>2, GoesType DEF TypeOK

LEMMA CallerType ==
  ASSUME TypeOK, NEW c \in Callers, CallerStep(c), UNCHANGED emitConfig
  PROVE  TypeOK'
<1> DEFINE w == op[c].worker
<1> w \in Workers \cup {0}
  BY DEF TypeOK
<1>1. CASE Load(c)
  <2>1. CASE emitConfig
    <3>1. Goes(c, "config", 0)
      BY <1>1, <2>1 DEF Load
    <3> QED BY <1>1, <2>1, <3>1, GoesType DEF Load, TypeOK
  <2>2. CASE ~emitConfig
    BY <1>1, <2>2, CreateType DEF Load, TypeOK
  <2> QED BY <2>1, <2>2
<1>2. CASE ConfigWritten(c)
  BY <1>2, CreateType DEF ConfigWritten, TypeOK
<1>3. CASE ConfigFails(c) \/ Ended(c) \/ Started(c)
  BY <1>3, IdleType DEF ConfigFails, Ended, Started, TypeOK
<1>4. CASE Named(c)
  <2>1. Sends(c, "load")
    BY <1>4 DEF Named
  <2>2. op' \in [Callers -> [pc : {"idle", "config"} \cup Loading \cup Stopping \cup Ending, worker : Workers \cup {0}]]
    BY <2>1, SendsMoves
  <2> QED BY <1>4, <2>2 DEF Named, TypeOK
<1>5. CASE Loaded(c)
  <2>1. Sends(c, "start")
    BY <1>5 DEF Loaded
  <2>2. op' \in [Callers -> [pc : {"idle", "config"} \cup Loading \cup Stopping \cup Ending, worker : Workers \cup {0}]]
    BY <2>1, SendsMoves
  <2> QED BY <1>5, <2>2 DEF Loaded, TypeOK
<1>6. CASE LoadFails(c)
  <2>1. Goes(c, "undo", w) /\ thread' = Terminated(w)
    BY <1>6 DEF LoadFails
  <2>2. op' \in [Callers -> [pc : {"idle", "config"} \cup Loading \cup Stopping \cup Ending, worker : Workers \cup {0}]]
    BY <2>1, GoesType DEF Ending
  <2> QED BY <1>6, <2>1, <2>2, ThreadType DEF LoadFails, TypeOK
<1>7. CASE Unload(c)
  <2>1. Goes(c, "stop", current) /\ current \in Workers \cup {0}
    BY <1>7 DEF Unload, TypeOK
  <2> QED BY <1>7, <2>1, GoesType DEF Unload, TypeOK, Stopping
<1>8. CASE Stopped(c) \/ StopTimesOut(c)
  <2>1. Finally(c)
    BY <1>8 DEF Stopped, StopTimesOut
  <2>2. op' = [op EXCEPT ![c] = Idle] \/ Goes(c, "kill", w)
    BY <2>1 DEF Finally
  <2>3. op' \in [Callers -> [pc : {"idle", "config"} \cup Loading \cup Stopping \cup Ending, worker : Workers \cup {0}]]
    BY <2>2, IdleType, GoesType DEF Ending
  <2>4. listeners' \in Nat /\ commands' \in BOOLEAN /\ thread' = Terminated(w)
    BY <2>1, OffType DEF Finally
  <2> QED BY <2>1, <2>3, <2>4, ThreadType DEF Finally, TypeOK
<1>9. QED
  BY <1>1, <1>2, <1>3, <1>4, <1>5, <1>6, <1>7, <1>8 DEF CallerStep

LEMMA WorkerType ==
  ASSUME TypeOK, NEW w \in Workers, WorkerStep(w), UNCHANGED emitConfig
  PROVE  TypeOK'
<1>1. CASE Registers(w)
  BY <1>1 DEF TypeOK, Registers
<1>2. CASE Crash(w)
  BY <1>2 DEF TypeOK, Crash
<1>3. CASE Exit(w)
  <2>1. thread' \in [Workers -> {"unborn", "live", "gone", "buried"}]
        /\ UNCHANGED op
    BY <1>3 DEF TypeOK, Exit
  <2>2. current' \in Workers \cup {0} /\ commands' \in BOOLEAN /\ listeners' \in Nat
    <3>1. CASE current = w
      BY <1>3, <3>1, OffType DEF Exit, TearDown
    <3>2. CASE current # w
      BY <1>3, <3>2 DEF Exit, TypeOK
    <3> QED BY <3>1, <3>2
  <2> QED BY <2>1, <2>2 DEF TypeOK
<1>4. QED
  BY <1>1, <1>2, <1>3 DEF WorkerStep

\* The fields of the plugin and its callers keep their shape.
THEOREM PluginTypeCorrect == Spec => []TypeOK
<1>1. Init => TypeOK
  <2> SUFFICES ASSUME Init PROVE TypeOK
    OBVIOUS
  <2>1. Idle \in [pc : {"idle", "config"} \cup Loading \cup Stopping \cup Ending, worker : Workers \cup {0}]
    BY DEF Idle
  <2> QED BY <2>1 DEF Init, TypeOK
<1>2. TypeOK /\ [Next]_vars => TypeOK'
  <2> SUFFICES ASSUME TypeOK, [Next]_vars PROVE TypeOK'
    OBVIOUS
  <2>1. CASE UNCHANGED vars
    BY <2>1 DEF vars, TypeOK
  <2> QED
    BY <2>1, CallerType, WorkerType, EmitConfigKept DEF Next
<1>3. QED
  BY <1>1, <1>2, PTL DEF Spec

\* A plugin thread that has not ended is the one the host can reach, however
\* many callers load and unload it at the same time.
THEOREM OneThreadHolds == Spec => []OneThread
<1>1. PlainIInv => OneThread
  BY DEF PlainIInv, IInv, OneThread
<1>2. QED
  BY <1>1, SpecPlainIInv, PTL

\* Events reach a plugin at most once, and none that is down.
THEOREM EventsOnceHolds == Spec => []EventsOnce
<1>1. PlainIInv => EventsOnce
  BY DEF PlainIInv, IInv, EventsOnce
<1>2. QED
  BY <1>1, SpecPlainIInv, PTL
=============================================================================
