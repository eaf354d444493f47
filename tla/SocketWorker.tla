----------------------------- MODULE SocketWorker -----------------------------
(***************************************************************************)
(* The socket worker of the BMF Lua runtime (bmf/runtime.lua) and the      *)
(* watchdog that restarts it.  The worker is a chain of one-shot callbacks *)
(* on UE4SS's EngineTick: a delayed link counts frames, is then queued for *)
(* dispatch, runs one poll and registers its successor.  A restart starts  *)
(* a chain of a new generation; links of older generations are dropped     *)
(* when they run.  The watchdog is a second chain of the same kind that    *)
(* compares the age of the last poll with a limit.                         *)
(*                                                                         *)
(* A link is lost when the delayed-to-dispatch trampoline or the           *)
(* game-thread guard refuses it: neither chain passes an on_refused        *)
(* handler, so nothing but the link changes.  Wall time is counted in      *)
(* frames; a hitch is one frame longer than the stale limit.               *)
(***************************************************************************)
EXTENDS Integers, FiniteSets

CONSTANTS
  PollFrames,       \* the frames a poll may ask for (idle backoff included)
  WatchdogFrames,   \* the watchdog interval in frames
  FirstWatchdog,    \* min(1000 ms, interval) in frames: the first check
  StaleFrames,      \* watchdog_stale_ms in frames
  DelayedAfter,     \* BMF_SOCKET_WORKER_DELAYED_AFTER_RESTARTS
  DelayedFallback,  \* BMF_ALLOW_DELAYED_WORKER_FALLBACK
  MaxDisturbances,  \* bound: hitches, refusals, lost links and pump errors
  MaxGeneration     \* bound: worker starts

ASSUME FrameAssumption ==
  /\ WatchdogFrames \in Nat \ {0} /\ FirstWatchdog \in 1..WatchdogFrames
  /\ StaleFrames \in Nat
  /\ PollFrames \subseteq 1..StaleFrames /\ PollFrames # {}
  /\ \A f \in PollFrames : f < WatchdogFrames  \* 100 ms at most, and 1000 ms at least
ASSUME WorkerAssumption ==
  /\ DelayedAfter \in Nat \ {0} /\ DelayedFallback \in BOOLEAN
  /\ MaxDisturbances \in Nat /\ MaxGeneration \in Nat \ {0}

Watchdog == 0
Generations == 1..MaxGeneration
Chains == {Watchdog} \cup Generations
LongestDelay == CHOOSE n \in PollFrames \cup {WatchdogFrames} :
                  \A m \in PollFrames \cup {WatchdogFrames} : m <= n

VARIABLES
  delayed,           \* chain -> frames left -> links in the delayed vector
  queued,            \* chain -> links in the EngineTick queue
  generation,        \* socket_worker_generation
  workerStarted,     \* socket_worker_started
  workerMode,        \* socket_worker_mode
  tunnelStarted,     \* game_command_tunnel.worker_started
  watchdogStarted,   \* socket_worker_watchdog_started
  consecutiveStale,  \* watchdog_consecutive_stale
  age,               \* frames since the last poll (or the start)
  polls,             \* history: polls in the current frame
  disturbances       \* disturbances so far

linkVars == <<delayed, queued>>
startVars == <<generation, workerStarted, workerMode, tunnelStarted>>
watchdogVars == <<watchdogStarted, consecutiveStale>>
frameVars == <<linkVars, startVars, watchdogVars, age, polls, disturbances>>

Modes == {"stopped", "failed", "EngineTickOneShotChain"}

\* The links of chain c, wherever they are.
Links(c) == {link \in (1..LongestDelay) \X (1..2) : delayed[c][link[1]] >= link[2]}
LinkCount(c) == queued[c] + Cardinality(Links(c))

\* How many of the two registrations were refused.
Refusals(a, b) == (IF a THEN 1 ELSE 0) + (IF b THEN 1 ELSE 0)

\* n more disturbances happen.
Disturb(n) ==
  disturbances + n <= MaxDisturbances /\ disturbances' = disturbances + n

NoLinks == [f \in 1..LongestDelay |-> 0]

\* start_socket_transport, once per process: it starts the worker and the
\* watchdog, and either registration may be refused.
WorkerInit ==
  /\ generation = 1
  /\ \E refused \in BOOLEAN, workerRefused \in BOOLEAN, first \in PollFrames :
       /\ workerRefused => DelayedFallback
       /\ workerStarted = (DelayedFallback /\ ~workerRefused)
       /\ watchdogStarted = ~refused
       /\ disturbances = Refusals(refused, workerRefused)
       /\ disturbances <= MaxDisturbances
       /\ delayed = [c \in Chains |->
            IF c = Watchdog /\ ~refused THEN [NoLinks EXCEPT ![FirstWatchdog] = 1]
            ELSE IF c = 1 /\ workerStarted THEN [NoLinks EXCEPT ![first] = 1]
            ELSE NoLinks]
  /\ workerMode = IF workerStarted THEN "EngineTickOneShotChain" ELSE "stopped"
  /\ queued = [c \in Chains |-> 0]
  /\ tunnelStarted = FALSE
  /\ consecutiveStale = 0
  /\ age = 0
  /\ polls = 0

-----------------------------------------------------------------------------
(* The engine: frames, and links that never run.                            *)

\* One frame: every delayed link counts down, the due ones are queued.  The
\* queue is drained before the next frame.
Pass(elapsed) ==
  /\ \A c \in Chains : queued[c] = 0
  /\ delayed' = [c \in Chains |-> [f \in 1..LongestDelay |->
       IF f < LongestDelay THEN delayed[c][f + 1] ELSE 0]]
  /\ queued' = [c \in Chains |-> delayed[c][1]]
  /\ age' = IF age + elapsed > StaleFrames THEN StaleFrames + 1 ELSE age + elapsed
  /\ polls' = 0
  /\ UNCHANGED <<startVars, watchdogVars>>

Frame == Pass(1) /\ UNCHANGED disturbances

\* The server stalls for longer than the stale limit.
Hitch == Pass(StaleFrames + 1) /\ Disturb(1)

\* The trampoline or the game-thread guard refuses the link of chain c.
LinkLost(c) ==
  /\ queued[c] > 0 /\ Disturb(1)
  /\ queued' = [queued EXCEPT ![c] = @ - 1]
  /\ UNCHANGED <<delayed, startVars, watchdogVars, age, polls>>

-----------------------------------------------------------------------------
(* The worker: poll_socket_messages.                                        *)

\* Seeded fault: a superseded link polls like the current one.
MutantCurrent(g) == g \in Generations

Current(g) == g = generation

DropStaleLink(g) ==
  /\ queued[g] > 0 /\ ~Current(g)
  /\ queued' = [queued EXCEPT ![g] = @ - 1]
  /\ UNCHANGED <<delayed, startVars, watchdogVars, age, polls, disturbances>>

\* The link of the current generation drains the socket.
Polled(g) ==
  /\ queued[g] > 0 /\ Current(g)
  /\ queued' = [queued EXCEPT ![g] = @ - 1]
  /\ age' = 0 /\ polls' = polls + 1
  /\ UNCHANGED <<generation, watchdogVars>>

Poll(g) ==
  /\ Polled(g)
  /\ tunnelStarted' = TRUE
  /\ IF workerStarted
       THEN \E f \in PollFrames : delayed' = [delayed EXCEPT ![g][f] = @ + 1]
       ELSE UNCHANGED delayed
  /\ UNCHANGED <<workerStarted, workerMode, disturbances>>

\* The successor cannot be registered: the chain ends.
PollUnscheduled(g) ==
  /\ Polled(g) /\ workerStarted /\ Disturb(1)
  /\ workerStarted' = FALSE /\ workerMode' = "stopped" /\ tunnelStarted' = FALSE
  /\ UNCHANGED delayed

\* The pump throws: the worker fails closed.
PollFailed(g) ==
  /\ Polled(g) /\ Disturb(1)
  /\ workerStarted' = FALSE /\ workerMode' = "failed" /\ tunnelStarted' = FALSE
  /\ UNCHANGED delayed

-----------------------------------------------------------------------------
(* The watchdog.                                                            *)

\* Seeded faults: an old heartbeat counts as stale too early, or a stopped
\* worker does not count as stale.
MutantStale == ~workerStarted \/ age >= StaleFrames - 1
MutantStaleStopped == workerStarted /\ age > StaleFrames

\* socket_worker_is_stale.
Stale == ~workerStarted \/ age > StaleFrames

\* Seeded fault: the new chain keeps the generation of the old one.
MutantNextGeneration == generation

NextGeneration == generation + 1

\* start_socket_worker gets past the fallback test.
StartsChain(forced) == forced \/ DelayedFallback

\* The watchdog link: leaves its queue and registers its successor.
WatchdogLink(links, refused) ==
  IF refused THEN links ELSE [links EXCEPT ![Watchdog][WatchdogFrames] = @ + 1]

WatchdogRuns(refused) ==
  /\ queued[Watchdog] > 0 /\ watchdogStarted
  /\ queued' = [queued EXCEPT ![Watchdog] = @ - 1]
  /\ watchdogStarted' = ~refused
  /\ UNCHANGED <<age, polls>>

WatchdogQuiet(refused) ==
  /\ ~Stale
  /\ WatchdogRuns(refused) /\ Disturb(Refusals(refused, FALSE))
  /\ consecutiveStale' = 0
  /\ delayed' = WatchdogLink(delayed, refused)
  /\ UNCHANGED startVars

\* restart_socket_worker: an unforced start first tries the retired native
\* loop, which resets the tunnel worker; a forced one goes to the chain.
WatchdogRestarts(refused, workerRefused) ==
  LET stale == IF consecutiveStale < DelayedAfter THEN consecutiveStale + 1 ELSE DelayedAfter
      forced == stale >= DelayedAfter
      chain == StartsChain(forced)
  IN  /\ Stale /\ generation < MaxGeneration
      /\ WatchdogRuns(refused)
      /\ workerRefused => chain
      /\ Disturb(Refusals(refused, workerRefused))
      /\ consecutiveStale' = stale
      /\ generation' = NextGeneration
      /\ tunnelStarted' = (forced /\ tunnelStarted)
      /\ IF chain /\ ~workerRefused
           THEN /\ workerStarted' = TRUE /\ workerMode' = "EngineTickOneShotChain"
                /\ \E f \in PollFrames : delayed' =
                     WatchdogLink([delayed EXCEPT ![NextGeneration][f] = @ + 1], refused)
           ELSE /\ workerStarted' = FALSE /\ workerMode' = "stopped"
                /\ delayed' = WatchdogLink(delayed, refused)

RunWatchdog ==
  \E refused \in BOOLEAN :
    \/ WatchdogQuiet(refused)
    \/ \E workerRefused \in BOOLEAN : WatchdogRestarts(refused, workerRefused)

RunLink(g) == DropStaleLink(g) \/ Poll(g) \/ PollUnscheduled(g) \/ PollFailed(g)

WorkerNext ==
  \/ Frame \/ Hitch \/ RunWatchdog
  \/ \E c \in Chains : LinkLost(c)
  \/ \E g \in Generations : RunLink(g)

WorkerSpec == WorkerInit /\ [][WorkerNext]_frameVars

\* The engine keeps ticking and drains its queue in every tick.
FairWorkerSpec ==
  /\ WorkerSpec /\ WF_frameVars(Frame) /\ WF_frameVars(RunWatchdog)
  /\ \A g \in Generations : WF_frameVars(RunLink(g))

-----------------------------------------------------------------------------
(* Properties.                                                              *)

WorkerTypeOK ==
  /\ delayed \in [Chains -> [1..LongestDelay -> Nat]]
  /\ queued \in [Chains -> Nat]
  /\ generation \in Generations
  /\ workerStarted \in BOOLEAN /\ tunnelStarted \in BOOLEAN
  /\ workerMode \in Modes
  /\ watchdogStarted \in BOOLEAN /\ consecutiveStale \in 0..DelayedAfter
  /\ age \in 0..(StaleFrames + 1) /\ polls \in Nat
  /\ disturbances \in 0..MaxDisturbances

\* Each chain has at most one link outstanding, a stopped worker has none, and
\* the watchdog has none once it stopped.
OneLink ==
  /\ \A c \in Chains : LinkCount(c) <= 1
  /\ ~workerStarted => LinkCount(generation) = 0
  /\ ~watchdogStarted => LinkCount(Watchdog) = 0

\* However the generations overlap, a frame polls the socket at most once.
OnePollPerFrame == polls <= 1

\* Only disturbances cost restarts: a worker that polls is left alone, and one
\* disturbance starts at most DelayedAfter new generations.
RestartsPaid == generation <= 1 + DelayedAfter * (disturbances + IF DelayedFallback THEN 0 ELSE 1)

\* The socket is polled again and again: no hitch, refusal or lost link stops it for
\* good, unless it is the watchdog's own chain that breaks.  Nothing is asked of a
\* run with a pump error: game-command-tunnel.md:140-143 wants a new process then.
\* (The watchdog starts a chain all the same; the other properties cover those runs.)
Recovers == []<>(age = 0) \/ <>(LinkCount(Watchdog) = 0) \/ <>(workerMode = "failed")
=============================================================================
