--------------------------- MODULE ServerLifecycle ---------------------------
(***************************************************************************)
(* How the Omegga runtime starts, watches and stops the Brickadia server:  *)
(* Omegga.start and Omegga.stop (omegga/server.ts) with their three flags, *)
(* the child process and its listeners (brickadia/server.ts), and the      *)
(* commands that drive them (cli/terminal.ts, router/server.ts,            *)
(* metrics.ts).  Every await is a step of its own, so two starts, a start  *)
(* and a stop, or an old process's exit may meet.                          *)
(***************************************************************************)
EXTENDS Integers

CONSTANTS
  MaxProcesses,  \* bound: how many server processes are ever spawned
  Starts,        \* bound: the calls of start() that may run at once
  NoChild        \* #child is null

Processes == 1..MaxProcesses

ASSUME ProcessesAssumption == MaxProcesses \in Nat \ {0} /\ NoChild \notin Processes

VARIABLES
  started, starting, stopping,  \* the flags of Omegga
  stopper,     \* where the one stop() that runs stands
  launch,      \* where each start() that runs stands
  update,      \* where the update procedure stands
  child,       \* BrickadiaServer.#child
  process,     \* the life of each process; "dead": its exit event is to come
  heard,       \* the processes whose exit and output Omegga listens to
  doomed,      \* the processes that will be killed by force
  bridged,     \* the socket bridge of the running server listens
  overlapped   \* history: a start met a server, a start or a stop; or a stop met a start

flags == <<started, starting, stopping, stopper>>
vars == <<started, starting, stopping, stopper, launch, update, child, process,
          heard, doomed, bridged, overlapped>>

Alive == {"booting", "up", "closing"}

\* A process that was spawned and whose exit event has not been handled.
Around(p) == process[p] \in Alive \cup {"dead"}

Launching == \E s \in Starts : launch[s] # "none"

Init ==
  /\ started = FALSE /\ starting = FALSE /\ stopping = FALSE
  /\ stopper = "none"
  /\ launch = [s \in Starts |-> "none"]
  /\ update = "none"
  /\ child = NoChild
  /\ process = [p \in Processes |-> "unborn"]
  /\ heard = {} /\ doomed = {}
  /\ bridged = FALSE
  /\ overlapped = FALSE

(***************************************************************************)
(* start()                                                                 *)
(***************************************************************************)

\* Omegga.start runs to its first await: the web server, then the plugins.
Start(s) ==
  /\ launch[s] = "none"
  /\ starting' = TRUE
  /\ launch' = [launch EXCEPT ![s] = "loading"]
  /\ overlapped' = (overlapped \/ stopping \/ Launching \/ \E p \in Processes : Around(p))
  /\ UNCHANGED <<started, stopping, stopper, child, process, heard, doomed, bridged>>

\* The start commands and a restart of a stopped server ask the flags first.
StartCommand(s) ==
  /\ ~starting /\ ~started /\ ~stopping
  /\ Start(s)
  /\ UNCHANGED update

\* BrickadiaServer.start replaces the bridges and waits for the new one to listen.
Bind(s) ==
  /\ launch[s] = "loading"
  /\ launch' = [launch EXCEPT ![s] = "binding"]
  /\ bridged' = TRUE
  /\ UNCHANGED <<flags, update, child, process, heard, doomed, overlapped>>

\* The process is spawned and its listeners are attached.
Spawn(s, p) ==
  /\ launch[s] = "binding"
  /\ process[p] = "unborn" /\ \A q \in 1..(p - 1) : process[q] # "unborn"
  /\ launch' = [launch EXCEPT ![s] = "none"]
  /\ process' = [process EXCEPT ![p] = "booting"]
  /\ child' = p
  /\ heard' = heard \cup {p}
  /\ UNCHANGED <<flags, update, doomed, bridged, overlapped>>

\* The web server, a plugin, the install or the bridge throws: `starting` stays.
LaunchFails(s) ==
  /\ launch[s] # "none"
  /\ launch' = [launch EXCEPT ![s] = "none"]
  /\ UNCHANGED <<flags, update, child, process, heard, doomed, bridged, overlapped>>

(***************************************************************************)
(* stop()                                                                  *)
(***************************************************************************)

MayStop == (started \/ starting) /\ ~stopping

\* stop() passes its guards and runs to its first await, the plugins' unload.
BeginStop ==
  /\ stopping' = TRUE /\ stopper' = "unloading"
  /\ overlapped' = (overlapped \/ Launching)
  /\ UNCHANGED <<started, starting, update>>

\* stop() comes back: the flags are reset, and an update that waited goes on.
EndStop ==
  /\ started' = FALSE /\ starting' = FALSE /\ stopping' = FALSE
  /\ stopper' = "none"
  /\ update' = IF update = "stopping" THEN "stopped" ELSE update
  /\ UNCHANGED overlapped

Ignore == UNCHANGED <<flags, update, overlapped>>

StopCommand ==
  /\ MayStop /\ BeginStop
  /\ UNCHANGED <<launch, child, process, heard, doomed, bridged>>

\* Seeded fault: a server that has not said it started is not asked to stop.
MutantUnloaded ==
  /\ stopper = "unloading"
  /\ stopper' = "waiting"
  /\ doomed' = IF child = NoChild \/ ~started THEN doomed ELSE doomed \cup {child}
  /\ UNCHANGED <<started, starting, stopping, launch, update, child, process, heard,
                 bridged, overlapped>>

\* BrickadiaServer.stop asks the child to exit and has it killed in 5 seconds.
Unloaded ==
  /\ stopper = "unloading"
  /\ stopper' = "waiting"
  /\ doomed' = IF child = NoChild THEN doomed ELSE doomed \cup {child}
  /\ UNCHANGED <<started, starting, stopping, launch, update, child, process, heard,
                 bridged, overlapped>>

\* Seeded fault: a stop that gives up cleans up as if the server had gone.
MutantStopTimesOut ==
  /\ stopper = "waiting"
  /\ EndStop
  /\ child' = NoChild /\ heard' = heard \ {child} /\ bridged' = FALSE
  /\ UNCHANGED <<launch, process, doomed>>

\* Ten seconds without an exit event.
StopTimesOut ==
  /\ stopper = "waiting"
  /\ EndStop
  /\ UNCHANGED <<launch, child, process, heard, doomed, bridged>>

(***************************************************************************)
(* What the server process does, and the events Omegga makes of it         *)
(***************************************************************************)

\* The 'exit' event ends a stop that waits for it, or begins one.
ExitEvent ==
  \/ stopper = "waiting" /\ EndStop
  \/ MayStop /\ BeginStop
  \/ stopper # "waiting" /\ ~MayStop /\ Ignore

\* Seeded fault: 'closed' only ends the stop that waits for it.
MutantClosedEvent ==
  \/ started /\ stopper = "waiting" /\ EndStop
  \/ ~(started /\ stopper = "waiting") /\ Ignore

\* The 'closed' event emits 'exit' if the server had started, else it stops.
ClosedEvent ==
  \/ started /\ ExitEvent
  \/ ~started /\ MayStop /\ BeginStop
  \/ ~started /\ ~MayStop /\ Ignore

\* A line that says the host's credentials are valid: the first one ends the
\* boot, and each later change of the AuthState emits 'start' again.
Boots(p) ==
  /\ process[p] \in {"booting", "up"}
  /\ process' = [process EXCEPT ![p] = "up"]
  /\ started' = (started \/ p \in heard)
  /\ starting' = (starting /\ p \notin heard)
  /\ UNCHANGED <<stopping, stopper, launch, update, child, heard, doomed, bridged, overlapped>>

\* "LogExit: Game engine shut down", printed before the process has ended.
ShutsDown(p) ==
  /\ process[p] \in {"booting", "up"}
  /\ process' = [process EXCEPT ![p] = "closing"]
  /\ IF p \in heard THEN ExitEvent ELSE Ignore
  /\ UNCHANGED <<launch, child, heard, doomed, bridged>>

\* The process ends: it shut down, crashed, or was killed.
Dies(p) ==
  /\ process[p] \in Alive
  /\ process' = [process EXCEPT ![p] = "dead"]
  /\ UNCHANGED <<flags, launch, update, child, heard, doomed, bridged, overlapped>>

\* exitListener: 'closed', then cleanup() of whatever the current child is.
Closed(p) ==
  /\ process[p] = "dead" /\ p \in heard
  /\ process' = [process EXCEPT ![p] = "gone"]
  /\ ClosedEvent
  /\ child' = NoChild
  /\ heard' = heard \ {child}
  /\ bridged' = (bridged /\ child = NoChild)
  /\ UNCHANGED <<launch, doomed>>

(***************************************************************************)
(* update: stop, download, start                                           *)
(***************************************************************************)

\* The update command and the web's update.run; nothing to stop, nothing to start.
UpdateCommand ==
  /\ update = "none"
  /\ started /\ ~starting /\ ~stopping
  /\ stopping' = TRUE /\ stopper' = "unloading"
  /\ update' = "stopping"
  /\ overlapped' = (overlapped \/ Launching)
  /\ UNCHANGED <<started, starting, launch, child, process, heard, doomed, bridged>>

\* The automatic update has passed exitOnStop and saves the server.
UpdateBegins ==
  /\ update = "none"
  /\ started /\ ~stopping
  /\ update' = "saving"
  /\ UNCHANGED <<flags, launch, child, process, heard, doomed, bridged, overlapped>>

\* Its stop() may return at once, when another stop runs or has run.
UpdateStops ==
  /\ update = "saving"
  /\ stopping' = (stopping \/ MayStop)
  /\ stopper' = IF MayStop THEN "unloading" ELSE stopper
  /\ update' = IF MayStop THEN "stopping" ELSE "stopped"
  /\ overlapped' = (overlapped \/ (MayStop /\ Launching))
  /\ UNCHANGED <<started, starting, launch, child, process, heard, doomed, bridged>>

\* After the download start() is called without a look at the flags.
UpdateStarts(s) ==
  /\ update = "stopped"
  /\ update' = "none"
  /\ Start(s)

Next ==
  \/ \E s \in Starts : StartCommand(s) \/ Bind(s) \/ LaunchFails(s) \/ UpdateStarts(s)
  \/ \E s \in Starts, p \in Processes : Spawn(s, p)
  \/ StopCommand \/ Unloaded \/ StopTimesOut
  \/ \E p \in Processes : Boots(p) \/ ShutsDown(p) \/ Dies(p) \/ Closed(p)
  \/ UpdateCommand \/ UpdateBegins \/ UpdateStops

Spec == Init /\ [][Next]_vars

\* Unload ends and timers fire; a doomed process is killed, its end is reported.
FairSpec ==
  /\ Spec
  /\ WF_vars(Unloaded) /\ WF_vars(StopTimesOut)
  /\ \A p \in Processes : WF_vars(p \in doomed /\ Dies(p)) /\ WF_vars(Closed(p))

(***************************************************************************)
(* Properties                                                              *)
(***************************************************************************)

\* The shape of the state, with and without overlapping commands.
TypeOK ==
  /\ started \in BOOLEAN /\ starting \in BOOLEAN /\ stopping \in BOOLEAN
  /\ stopper \in {"none", "unloading", "waiting"}
  /\ launch \in [Starts -> {"none", "loading", "binding"}]
  /\ update \in {"none", "saving", "stopping", "stopped"}
  /\ child \in Processes \cup {NoChild}
  /\ process \in [Processes -> {"unborn", "dead", "gone"} \cup Alive]
  /\ heard \in SUBSET Processes
  /\ doomed \in SUBSET Processes
  /\ bridged \in BOOLEAN
  /\ overlapped \in BOOLEAN

\* The flags do not lie, whatever commands, crashes and late exits meet: while
\* Omegga says that a server has started, and no stop runs, it still listens to
\* one whose exit event will correct it; and #child, which stop() kills, is a
\* process it listens to and whose exit it has not handled.
FlagsTruthful ==
  /\ started /\ ~stopping => \E p \in heard : Around(p)
  /\ child # NoChild => child \in heard /\ Around(child)

\* While no command overlapped another, no server is lost: every process that
\* still runs is the one that stop() kills and cleanup() will be called for, so
\* there is at most one, and its socket bridge is up.
OneServer ==
  ~overlapped => \A p \in Processes : Around(p) => child = p /\ bridged

\* Every stop ends, whether or not the server's exit is seen, and a stop that
\* no start met leaves no server behind, even if it gave up waiting.
StopCompletes ==
  /\ stopping ~> ~stopping
  /\ (stopping /\ ~overlapped) ~> (overlapped \/ \A p \in Processes : ~Around(p))

=============================================================================
