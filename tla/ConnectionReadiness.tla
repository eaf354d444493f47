------------------------- MODULE ConnectionReadiness -------------------------
(***************************************************************************)
(* The per-connection readiness tracker of the BMF Lua runtime             *)
(* (bmf/connection_readiness.lua).  For every player UUID it keeps the     *)
(* connection generation that is current and one entry per generation ever *)
(* seen.  Player snapshots (sync), native callability probes (note_check), *)
(* identity mismatches (invalidate_paths) and repairs arrive in any order. *)
(* Telemetry counters and free-text reasons are left out.                  *)
(***************************************************************************)
EXTENDS Integers, FiniteSets

CONSTANTS
  Uuids,          \* normalized player UUIDs
  Generations,    \* connection generations, positive integers
  Paths,          \* plain UObject paths a snapshot may carry
  NoPath,         \* the blank path
  InvalidPath,    \* a path plain_path refuses (too long, control bytes, address)
  Names,          \* normalized player names
  NoName,         \* a snapshot record with no usable name
  RepairWindow,   \* window_ms of repair_decision, in clock units
  MaxTime         \* bound on the clock

ASSUME GenerationAssumption == Generations \subseteq Nat \ {0}
ASSUME PathAssumption ==
  NoPath \notin Paths /\ InvalidPath \notin Paths /\ NoPath # InvalidPath
ASSUME NameAssumption == NoName \notin Names
ASSUME ClockAssumption == RepairWindow \in Nat \ {0} /\ MaxTime \in Nat

VARIABLES
  currentGeneration,  \* uuid -> current generation, 0 when none is
  entries,            \* uuid -> generation -> entry
  proven,             \* history: the paths a probe proved callable and that
                      \* the entry has held without a break since that probe
  now                 \* os.time()

vars == <<currentGeneration, entries, proven, now>>

NoProof == [controllerPath |-> NoPath, playerStatePath |-> NoPath]

LiveStates == {"joined", "controller_resolved", "native_callable"}

\* "absent" stands for a generation that has no entry yet.
EntryStates == LiveStates \cup {"disconnected", "absent"}

Entry ==
  [state : EntryStates,
   controllerPath : Paths \cup {NoPath},
   playerStatePath : Paths \cup {NoPath},
   identityName : Names \cup {NoName},
   pathsValidated : BOOLEAN,
   pathPreserved : BOOLEAN,
   repairNextAllowed : Nat]

FreshEntry ==
  [state |-> "absent", controllerPath |-> NoPath, playerStatePath |-> NoPath,
   identityName |-> NoName, pathsValidated |-> FALSE, pathPreserved |-> FALSE,
   repairNextAllowed |-> 0]

\* What a player snapshot says of one player.
PlayerRecord ==
  [generation : Generations,
   controllerPath : Paths \cup {NoPath, InvalidPath},
   playerStatePath : Paths \cup {NoPath, InvalidPath},
   name : Names \cup {NoName}]

HasPaths(e) == e.controllerPath # NoPath /\ e.playerStatePath # NoPath

PathsOf(e) ==
  [controllerPath |-> e.controllerPath, playerStatePath |-> e.playerStatePath]

\* Seeded fault: only the controller path is cleared.
MutantClearPaths(e) ==
  [e EXCEPT !.controllerPath = NoPath, !.pathsValidated = FALSE, !.pathPreserved = FALSE]

ClearPaths(e) ==
  [e EXCEPT !.controllerPath = NoPath, !.playerStatePath = NoPath,
            !.pathsValidated = FALSE, !.pathPreserved = FALSE]

\* Seeded fault: a reconnect starts with a fresh repair window.
MutantDisconnect(e) ==
  IF e.state = "absent" THEN e
  ELSE [ClearPaths(e) EXCEPT !.state = "disconnected", !.repairNextAllowed = 0]

Disconnect(e) ==
  IF e.state = "absent" THEN e ELSE [ClearPaths(e) EXCEPT !.state = "disconnected"]

-----------------------------------------------------------------------------
(* sync: what one record does to the entry of its generation.               *)

Complete(p) == p.controllerPath \in Paths /\ p.playerStatePath \in Paths

\* A snapshot that omits both paths keeps paths a probe validated earlier,
\* provided the name still matches.
Preserves(e, p) ==
  /\ p.controllerPath = NoPath /\ p.playerStatePath = NoPath
  /\ e.identityName # NoName /\ e.identityName = p.name
  /\ e.pathsValidated
  /\ HasPaths(e)

\* Seeded fault: a changed player state path goes unnoticed.
MutantPathsChange(e, p) ==
  IF Complete(p)
    THEN e.controllerPath # p.controllerPath \/ (e.identityName # NoName /\ e.identityName # p.name)
    ELSE ~Preserves(e, p) /\ (e.controllerPath # NoPath \/ e.playerStatePath # NoPath)

PathsChange(e, p) ==
  IF Complete(p)
    THEN \/ e.controllerPath # p.controllerPath
         \/ e.playerStatePath # p.playerStatePath
         \/ e.identityName # NoName /\ e.identityName # p.name
    ELSE ~Preserves(e, p) /\ (e.controllerPath # NoPath \/ e.playerStatePath # NoPath)

SyncedPaths(e, p) ==
  CASE Complete(p) ->
         [e EXCEPT !.controllerPath = p.controllerPath,
                   !.playerStatePath = p.playerStatePath,
                   !.identityName = p.name,
                   !.pathPreserved = FALSE,
                   !.pathsValidated = @ /\ ~PathsChange(e, p)]
    [] Preserves(e, p) -> [e EXCEPT !.pathPreserved = TRUE]
    [] OTHER -> [ClearPaths(e) EXCEPT !.identityName = p.name]

\* Seeded fault: a snapshot with complete paths counts as a successful probe.
MutantSyncedState(e, p) ==
  IF HasPaths(SyncedPaths(e, p)) THEN "native_callable" ELSE "joined"

SyncedState(e, p) ==
  IF HasPaths(SyncedPaths(e, p))
    THEN IF PathsChange(e, p) \/ e.state \in {"joined", "absent"}
           THEN "controller_resolved" ELSE e.state
    ELSE "joined"

SyncedEntry(e, p) == [SyncedPaths(e, p) EXCEPT !.state = SyncedState(e, p)]

\* Seeded fault: the previous generation is left as it was.
MutantSyncedBucket(bucket, p) ==
  [bucket EXCEPT ![p.generation] = SyncedEntry(@, p)]

\* The bucket of a listed player: the record's generation is current, every
\* other generation is disconnected.
SyncedBucket(bucket, p) ==
  [g \in Generations |-> IF g = p.generation THEN SyncedEntry(bucket[g], p)
                                             ELSE Disconnect(bucket[g])]

\* The bucket of a player the snapshot does not list.
UnlistedBucket(bucket, current) ==
  [g \in Generations |-> IF g = current THEN Disconnect(bucket[g]) ELSE bucket[g]]

\* A proof ends as soon as the entry holds other paths, or none.
ForgetBrokenProofs ==
  proven' = [u \in Uuids |-> [g \in Generations |->
    IF proven[u][g] = PathsOf(entries'[u][g]) THEN proven[u][g] ELSE NoProof]]

Init ==
  /\ currentGeneration = [u \in Uuids |-> 0]
  /\ entries = [u \in Uuids |-> [g \in Generations |-> FreshEntry]]
  /\ proven = [u \in Uuids |-> [g \in Generations |-> NoProof]]
  /\ now = 0

\* sync(players): a snapshot names every listed player once.
Sync ==
  \E listed \in SUBSET Uuids : \E snapshot \in [listed -> PlayerRecord] :
    /\ entries' = [u \in Uuids |->
         IF u \in listed THEN SyncedBucket(entries[u], snapshot[u])
                         ELSE UnlistedBucket(entries[u], currentGeneration[u])]
    /\ currentGeneration' = [u \in Uuids |->
         IF u \in listed THEN snapshot[u].generation ELSE 0]
    /\ ForgetBrokenProofs
    /\ UNCHANGED now

-----------------------------------------------------------------------------
(* Queries and updates of one session.                                      *)

\* current(): the session is known, current and not disconnected.
Current(u, g) == currentGeneration[u] = g /\ entries[u][g].state \in LiveStates

\* execution_decision() for an operation whose deadline has not passed.
ExecutionDecision(u, g) ==
  IF ~Current(u, g) THEN "reject"
  ELSE IF entries[u][g].state = "native_callable" THEN "execute" ELSE "wait"

\* note_check(ok): a probe proved the controller callable.
NoteCallable(u, g) ==
  /\ currentGeneration[u] = g
  /\ HasPaths(entries[u][g])
  /\ entries' = [entries EXCEPT ![u][g].state = "native_callable",
                                ![u][g].pathsValidated = TRUE]
  /\ proven' = [proven EXCEPT ![u][g] = PathsOf(entries[u][g])]
  /\ UNCHANGED <<currentGeneration, now>>

\* note_check(not ok): the probe failed; the paths stay.
NoteNotCallable(u, g) ==
  /\ currentGeneration[u] = g
  /\ entries' = [entries EXCEPT ![u][g].state =
       IF HasPaths(entries[u][g]) THEN "controller_resolved" ELSE "joined"]
  /\ UNCHANGED <<currentGeneration, proven, now>>

\* invalidate(): the connection is over, whichever generation it names.
Invalidate(u, g) ==
  /\ entries[u][g].state # "absent"
  /\ entries' = [entries EXCEPT ![u][g] = Disconnect(@)]
  /\ currentGeneration' = [currentGeneration EXCEPT ![u] = IF @ = g THEN 0 ELSE @]
  /\ ForgetBrokenProofs
  /\ UNCHANGED now

\* invalidate_paths(): live objects contradicted the stored paths.
InvalidatePaths(u, g) ==
  /\ Current(u, g)
  /\ entries' = [entries EXCEPT ![u][g] = [ClearPaths(@) EXCEPT !.state = "joined"]]
  /\ ForgetBrokenProofs
  /\ UNCHANGED <<currentGeneration, now>>

\* note_path_reuse(): preserved paths resolved to the exact player again.
NotePathReuse(u, g) ==
  /\ currentGeneration[u] = g
  /\ entries[u][g].pathsValidated /\ entries[u][g].pathPreserved
  /\ entries' = [entries EXCEPT ![u][g].pathPreserved = FALSE]
  /\ UNCHANGED <<currentGeneration, proven, now>>

\* repair_decision() that allows a broad controller scan.
RepairAttempt(u, g) ==
  /\ Current(u, g)
  /\ entries[u][g].repairNextAllowed <= now
  /\ entries' = [entries EXCEPT ![u][g].repairNextAllowed = now + RepairWindow]
  /\ UNCHANGED <<currentGeneration, proven, now>>

Tick == now < MaxTime /\ now' = now + 1 /\ UNCHANGED <<currentGeneration, entries, proven>>

SessionStep(u, g) ==
  \/ NoteCallable(u, g)
  \/ NoteNotCallable(u, g)
  \/ Invalidate(u, g)
  \/ InvalidatePaths(u, g)
  \/ NotePathReuse(u, g)
  \/ RepairAttempt(u, g)

Next == Sync \/ Tick \/ \E u \in Uuids, g \in Generations : SessionStep(u, g)

Spec == Init /\ [][Next]_vars

-----------------------------------------------------------------------------
(* Properties.                                                              *)

\* Every variable has the shape the tracker tables have.
TypeOK ==
  /\ currentGeneration \in [Uuids -> Generations \cup {0}]
  /\ entries \in [Uuids -> [Generations -> Entry]]
  /\ proven \in [Uuids -> [Generations -> [controllerPath : Paths \cup {NoPath},
                                           playerStatePath : Paths \cup {NoPath}]]]
  /\ now \in Nat

\* A generation is live exactly when it is the current one: a superseded or
\* unlisted connection is never left executable, and the current one is never
\* a disconnected entry (sync closes every other generation, and the ones the
\* snapshot stopped listing).
LiveIsCurrent ==
  \A u \in Uuids, g \in Generations :
    entries[u][g].state \in LiveStates <=> currentGeneration[u] = g

\* Paths come and go as a pair, and only a resolved or callable entry of the
\* current generation holds them: no stale path of an old connection survives.
PathsMatchState ==
  \A u \in Uuids, g \in Generations : LET e == entries[u][g] IN
    IF e.state \in {"controller_resolved", "native_callable"}
      THEN HasPaths(e)
      ELSE e.controllerPath = NoPath /\ e.playerStatePath = NoPath

\* Trust is earned: an entry whose paths count as validated (and so any entry
\* that is native_callable, or whose paths a blank snapshot preserved) still
\* holds exactly the paths a probe proved, with no disconnection, invalidation
\* or path change in between.
TrustIsProven ==
  \A u \in Uuids, g \in Generations : LET e == entries[u][g] IN
    /\ e.state = "native_callable" => e.pathsValidated
    /\ e.pathPreserved => e.pathsValidated
    /\ e.pathsValidated => HasPaths(e) /\ proven[u][g] = PathsOf(e)

\* Reconnecting, losing paths or a new snapshot never shortens the repair
\* window: a session's next broad scan is allowed only after the last window.
RepairWindowHeld ==
  [][\A u \in Uuids, g \in Generations :
       entries'[u][g].repairNextAllowed # entries[u][g].repairNextAllowed =>
         /\ entries[u][g].repairNextAllowed <= now
         /\ entries'[u][g].repairNextAllowed = now + RepairWindow]_vars

-----------------------------------------------------------------------------
(* The tracker implements the session abstraction the scheduler relies on.  *)

CurrentSessions ==
  {s \in Uuids \X Generations : Current(s[1], s[2])}

ExecutableSessions ==
  {s \in Uuids \X Generations : ExecutionDecision(s[1], s[2]) = "execute"}

Abstract == INSTANCE SessionReadiness
  WITH Sessions <- Uuids \X Generations,
       current <- CurrentSessions, executable <- ExecutableSessions

\* Sessions become executable one at a time and only by a probe of a session
\* that is current; every other change only takes sessions away or resets them.
ImplementsSessionReadiness == Abstract!Spec
=============================================================================
