----------------------------- MODULE PluginHost -----------------------------
(***************************************************************************)
(* One plugin of Omegga that runs in a worker thread (plugin_node_safe.ts  *)
(* with the handlers of its worker, plugin_node_safe/worker.ts), loaded    *)
(* and unloaded by callers that do not know of each other: the web UI's    *)
(* sessions, the terminal, the start and the stop of Omegga.               *)
(*                                                                         *)
(* The host is one event loop: what it does between two awaits is one      *)
(* action.  A thread may end at any time by itself; what it had posted     *)
(* before may still be handled until its exit event is.  So an answer is   *)
(* posted and handled in one action, and there are no channels; the order  *)
(* in which the worker takes what it was sent is kept by the guards.       *)
(***************************************************************************)
EXTENDS Integers, FiniteSets

CONSTANTS
  Callers,
  Workers      \* the threads that may be made: 1..n for a bound n

ASSUME WorkersAssumption == Workers \subseteq Nat \ {0}

VARIABLES
  emitConfig,  \* pluginConfig.emitConfig: load writes the configuration to a file
  current,     \* #worker: a worker, or 0
  thread,      \* worker -> "unborn", "live", "gone" (exit event to come), "buried"
  listeners,   \* how often eventPassthrough listens to '*'
  commands,    \* some command is registered
  op           \* caller -> where its load or unload waits, and for which worker

vars == <<emitConfig, current, thread, listeners, commands, op>>

Idle == [pc |-> "idle", worker |-> 0]
Loading == {"name", "load", "start"}   \* load awaits the answer to this action
Ending == {"undo", "kill"}             \* load, or unload, awaits terminate()
\* unload awaits the answer to stop; stopFirst: sent before what load waits for
Stopping == {"stop", "stopFirst"}
At(c, pc) == op[c].pc = pc
Goes(c, pc, w) == op' = [op EXCEPT ![c] = [pc |-> pc, worker |-> w]]

TypeOK ==
  /\ emitConfig \in BOOLEAN
  /\ current \in Workers \cup {0}
  /\ thread \in [Workers -> {"unborn", "live", "gone", "buried"}]
  /\ listeners \in Nat /\ commands \in BOOLEAN
  /\ op \in [Callers -> [pc : {"idle", "config"} \cup Loading \cup Stopping \cup Ending,
                          worker : Workers \cup {0}]]

Init ==
  /\ emitConfig \in BOOLEAN
  /\ current = 0 /\ thread = [w \in Workers |-> "unborn"]
  /\ listeners = 0 /\ commands = FALSE
  /\ op = [c \in Callers |-> Idle]

-----------------------------------------------------------------------------
\* omegga.off removes one registration, if there is one.
Off == listeners' = IF listeners = 0 THEN 0 ELSE listeners - 1

\* terminate(): the thread ends, its exit event comes later.
Terminated(w) == [thread EXCEPT ![w] = IF @ = "live" THEN "gone" ELSE @]

\* createWorker, then the first emit of load.
CreateWorker(c) ==
  \E w \in Workers :
    /\ thread[w] = "unborn" /\ \A v \in Workers : v < w => thread[v] # "unborn"
    /\ thread' = [thread EXCEPT ![w] = "live"]
    /\ current' = w
    /\ Goes(c, "name", w)

\* Seeded fault: load does not look whether there is a worker.
MutantMayLoad == TRUE

MayLoad == current = 0

\* load up to its first real await: getConfig is synchronous underneath, the
\* file that emitConfig asks for is not.
Load(c) ==
  /\ At(c, "idle") /\ MayLoad
  /\ commands' = FALSE
  /\ IF emitConfig
       THEN Goes(c, "config", 0) /\ UNCHANGED <<current, thread>>
       ELSE CreateWorker(c)
  /\ UNCHANGED <<listeners, emitConfig>>

ConfigWritten(c) ==
  /\ At(c, "config")
  /\ CreateWorker(c)
  /\ UNCHANGED <<listeners, commands, emitConfig>>

ConfigFails(c) ==
  /\ At(c, "config")
  /\ op' = [op EXCEPT ![c] = Idle]
  /\ UNCHANGED <<current, thread, listeners, commands, emitConfig>>

\* A message of a worker is handled if it is the current one and its exit has
\* not been.
Heard(w) == w # 0 /\ current = w /\ thread[w] \in {"live", "gone"}

\* The worker has been sent more of its load than these actions.
Past(actions, w) == \A c \in Callers : op[c].worker = w => op[c].pc \notin actions

\* load sends its next message.  A stop on its way to the same worker is
\* answered before it: without an instance of the plugin the worker does not wait.
Sends(c, pc) ==
  LET w == op[c].worker IN
  op' = [d \in Callers |->
          IF d = c THEN [pc |-> pc, worker |-> w]
          ELSE IF op[d] = [pc |-> "stop", worker |-> w] THEN [pc |-> "stopFirst", worker |-> w]
          ELSE op[d]]

\* What the worker says of load's last message.
InTurn(w) == Heard(w) /\ \A c \in Callers : op[c] # [pc |-> "stopFirst", worker |-> w]

\* load goes on with an answer to name, load or start.
Named(c) ==
  /\ At(c, "name") /\ Heard(op[c].worker)
  /\ Sends(c, "load")
  /\ UNCHANGED <<current, thread, listeners, commands, emitConfig>>

Loaded(c) ==
  /\ At(c, "load") /\ InTurn(op[c].worker)
  /\ listeners' = listeners + 1
  /\ Sends(c, "start")
  /\ UNCHANGED <<current, thread, commands, emitConfig>>

Started(c) ==
  /\ At(c, "start") /\ InTurn(op[c].worker)
  /\ commands' \in BOOLEAN
  /\ op' = [op EXCEPT ![c] = Idle]
  /\ UNCHANGED <<current, thread, listeners, emitConfig>>

\* createVm or init fails: load terminates the worker it made.
LoadFails(c) ==
  /\ op[c].pc \in {"load", "start"} /\ InTurn(op[c].worker)
  /\ thread' = Terminated(op[c].worker)
  /\ Goes(c, "undo", op[c].worker)
  /\ UNCHANGED <<current, listeners, commands, emitConfig>>

\* The worker's command.registers message, any time after init.
Registers(w) ==
  /\ InTurn(w) /\ Past({"name", "load"}, w) /\ commands' = TRUE
  /\ UNCHANGED <<current, thread, listeners, op, emitConfig>>

-----------------------------------------------------------------------------
Unload(c) ==
  /\ At(c, "idle") /\ current # 0
  /\ Goes(c, "stop", current)
  /\ UNCHANGED <<current, thread, listeners, commands, emitConfig>>

\* unload's finally and what follows, after an answer or after the timer.
Finally(c) ==
  LET w == op[c].worker IN
  /\ Off /\ commands' = FALSE
  /\ thread' = Terminated(w)
  /\ IF thread[w] = "buried" THEN op' = [op EXCEPT ![c] = Idle] ELSE Goes(c, "kill", w)
  /\ UNCHANGED <<current, emitConfig>>

\* The answer to stop: that to name has come before it.
Stopped(c) ==
  /\ op[c].pc \in Stopping /\ Heard(op[c].worker) /\ Past({"name"}, op[c].worker)
  /\ Finally(c)

\* Seeded fault: no timer races the stop.
MutantStopTimesOut(c) == Stopped(c)

\* Five seconds without an answer.
StopTimesOut(c) == op[c].pc \in Stopping /\ Finally(c)

\* terminate() resolves with the exit event.
Ended(c) ==
  /\ op[c].pc \in Ending /\ thread[op[c].worker] = "buried"
  /\ op' = [op EXCEPT ![c] = Idle]
  /\ UNCHANGED <<current, thread, listeners, commands, emitConfig>>

-----------------------------------------------------------------------------
\* The thread ends by itself: an uncaught error, process.exit.
Crash(w) ==
  /\ thread[w] = "live"
  /\ thread' = [thread EXCEPT ![w] = "gone"]
  /\ UNCHANGED <<current, listeners, commands, op, emitConfig>>

\* Seeded fault: the exit handler leaves the registration in place.
MutantTearDown == current' = 0 /\ commands' = FALSE /\ UNCHANGED listeners

TearDown == current' = 0 /\ commands' = FALSE /\ Off

\* The exit event: a late exit of an old worker changes nothing else.
Exit(w) ==
  /\ thread[w] = "gone"
  /\ thread' = [thread EXCEPT ![w] = "buried"]
  /\ IF current = w THEN TearDown ELSE UNCHANGED <<current, listeners, commands>>
  /\ UNCHANGED <<op, emitConfig>>

-----------------------------------------------------------------------------
CallerStep(c) ==
  \/ Load(c) \/ ConfigWritten(c) \/ ConfigFails(c) \/ Named(c) \/ Loaded(c) \/ Started(c)
  \/ LoadFails(c) \/ Unload(c) \/ Stopped(c) \/ StopTimesOut(c) \/ Ended(c)

WorkerStep(w) == Registers(w) \/ Crash(w) \/ Exit(w)

Next ==
  \/ \E c \in Callers : CallerStep(c)
  \/ \E w \in Workers : WorkerStep(w)

Spec == Init /\ [][Next]_vars

\* The timer of unload fires, a terminated thread ends, the event loop turns.
Fairness ==
  /\ \A c \in Callers : WF_vars(StopTimesOut(c)) /\ WF_vars(Ended(c))
  /\ \A w \in Workers : WF_vars(Exit(w))
FairSpec == Spec /\ Fairness

-----------------------------------------------------------------------------
(* Properties.  The first two are about plugins without emitConfig: with   *)
(* it two loads may both pass MayLoad before either makes its thread.      *)

\* No thread outlives its handle: a plugin thread that has not ended is the
\* one the host can reach, whatever loads, unloads and crashes overlap (the
\* guard of load and the exit handler).
Reachable == \A w \in Workers : thread[w] \in {"live", "gone"} => w = current
OneThread == ~emitConfig => Reachable

\* Omegga's events reach a plugin at most once each, and a plugin that is down
\* neither hears events nor owns commands: load registers the passthrough and
\* the commands at one await, unload, failure and exit undo them at others.
HeardOnce ==
  /\ listeners <= 1
  /\ current = 0 => listeners = 0 /\ ~commands
EventsOnce == ~emitConfig => HeardOnce

\* An unload ends, and its worker with it, whether the plugin answers the stop,
\* hangs, has crashed or is unloaded by somebody else meanwhile.
UnloadEnds ==
  \A c \in Callers, w \in Workers :
    op[c].pc \in Stopping /\ op[c].worker = w ~> At(c, "idle") /\ thread[w] = "buried"
=============================================================================
