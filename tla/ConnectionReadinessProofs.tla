---------------------- MODULE ConnectionReadinessProofs ----------------------
(***************************************************************************)
(* Proofs about the readiness tracker, for every set of players,           *)
(* generations, paths and names.  The invariant is inductive because the   *)
(* three parts feed each other: a disconnected entry has no paths          *)
(* (PathsMatchState), so sync can only resurrect it as joined or           *)
(* controller_resolved (LiveIsCurrent), never as a trusted one             *)
(* (TrustIsProven).                                                        *)
(***************************************************************************)
EXTENDS ConnectionReadiness, TLAPS

\* PathsMatchState and TrustIsProven for one entry.
EntryPathsMatch(e) ==
  IF e.state \in {"controller_resolved", "native_callable"}
    THEN HasPaths(e)
    ELSE e.controllerPath = NoPath /\ e.playerStatePath = NoPath

EntryTrust(e) ==
  /\ e.state = "native_callable" => e.pathsValidated
  /\ e.pathPreserved => e.pathsValidated
  /\ e.pathsValidated => HasPaths(e)

\* Validated paths are those the history variable remembers.
EntryProven(e, proof) == e.pathsValidated => proof = PathsOf(e)

EntryGood(e, proof) == EntryPathsMatch(e) /\ EntryTrust(e) /\ EntryProven(e, proof)

\* The inductive invariant of the tracker, entry by entry.
IInv ==
  /\ TypeOK
  /\ LiveIsCurrent
  /\ \A u \in Uuids, g \in Generations : EntryGood(entries[u][g], proven[u][g])

\* Disconnecting an entry leaves it dead, without paths and without trust.
LEMMA DisconnectGood ==
  ASSUME NEW e \in Entry, EntryPathsMatch(e), EntryTrust(e)
  PROVE  /\ Disconnect(e) \in Entry
         /\ Disconnect(e).state \notin LiveStates
         /\ EntryPathsMatch(Disconnect(e))
         /\ EntryTrust(Disconnect(e))
         /\ ~Disconnect(e).pathsValidated
BY PathAssumption
DEF Entry, EntryStates, LiveStates, Disconnect, ClearPaths, HasPaths,
    EntryPathsMatch, EntryTrust

\* A snapshot record revives an entry, and an entry it leaves trusted kept
\* the paths it was trusted with.
LEMMA SyncedGood ==
  ASSUME NEW e \in Entry, NEW p \in PlayerRecord, EntryPathsMatch(e), EntryTrust(e)
  PROVE  /\ SyncedEntry(e, p) \in Entry
         /\ SyncedEntry(e, p).state \in LiveStates
         /\ EntryPathsMatch(SyncedEntry(e, p))
         /\ EntryTrust(SyncedEntry(e, p))
         /\ SyncedEntry(e, p).pathsValidated =>
              e.pathsValidated /\ PathsOf(SyncedEntry(e, p)) = PathsOf(e)
<1> DEFINE s == SyncedPaths(e, p)
<1> USE DEF Entry, EntryStates, PlayerRecord
<1>0. SyncedEntry(e, p) = [s EXCEPT !.state = SyncedState(e, p)]
  BY DEF SyncedEntry
<1>1. CASE Complete(p)
  <2>0. PathsChange(e, p) \in BOOLEAN
    BY <1>1 DEF PathsChange
  <2>1. s = [e EXCEPT !.controllerPath = p.controllerPath,
                      !.playerStatePath = p.playerStatePath,
                      !.identityName = p.name,
                      !.pathPreserved = FALSE,
                      !.pathsValidated = @ /\ ~PathsChange(e, p)]
    BY <1>1, PathAssumption DEF SyncedPaths, Complete, Preserves
  <2>2. /\ s \in Entry /\ HasPaths(s) /\ s.state = e.state /\ ~s.pathPreserved
        /\ s.pathsValidated <=> (e.pathsValidated /\ ~PathsChange(e, p))
    <3>1. /\ s.state = e.state /\ ~s.pathPreserved /\ HasPaths(s)
          /\ s.pathsValidated = (e.pathsValidated /\ ~PathsChange(e, p))
      BY <1>1, <2>1, PathAssumption DEF Complete, HasPaths
    <3>2. (e.pathsValidated /\ ~PathsChange(e, p)) \in BOOLEAN
      OBVIOUS
    <3>3. s \in Entry
      BY <1>1, <2>1, <3>2 DEF Complete
    <3>4. QED
      BY <3>1, <3>3
  <2>3. CASE PathsChange(e, p)
    <3>1. SyncedState(e, p) = "controller_resolved"
      BY <2>2, <2>3 DEF SyncedState
    <3>2. QED
      BY <1>0, <2>2, <2>3, <3>1 DEF LiveStates, EntryPathsMatch, EntryTrust, HasPaths
  <2>4. CASE ~PathsChange(e, p)
    <3>1. /\ PathsOf(s) = PathsOf(e) /\ HasPaths(e)
          /\ e.state \in {"controller_resolved", "native_callable"}
      BY <1>1, <2>1, <2>2, <2>4, PathAssumption
      DEF PathsChange, PathsOf, HasPaths, Complete, EntryPathsMatch
    <3>2. SyncedState(e, p) = e.state
      BY <2>2, <2>4, <3>1 DEF SyncedState
    <3>3. QED
      BY <1>0, <2>2, <2>4, <3>1, <3>2
      DEF LiveStates, EntryPathsMatch, EntryTrust, HasPaths, PathsOf
  <2>5. QED
    BY <2>3, <2>4
<1>2. CASE ~Complete(p) /\ Preserves(e, p)
  <2>1. s = [e EXCEPT !.pathPreserved = TRUE]
    BY <1>2 DEF SyncedPaths
  <2>2. ~PathsChange(e, p) /\ HasPaths(e) /\ e.pathsValidated
        /\ e.state \in {"controller_resolved", "native_callable"}
    BY <1>2 DEF PathsChange, Preserves, EntryPathsMatch, HasPaths
  <2>3. SyncedState(e, p) = e.state
    BY <2>1, <2>2 DEF SyncedState, HasPaths
  <2>4. QED
    BY <1>0, <2>1, <2>2, <2>3 DEF LiveStates, EntryPathsMatch, EntryTrust, HasPaths, PathsOf
<1>3. CASE ~Complete(p) /\ ~Preserves(e, p)
  <2>1. s = [ClearPaths(e) EXCEPT !.identityName = p.name]
    BY <1>3 DEF SyncedPaths
  <2>2. SyncedState(e, p) = "joined"
    BY <2>1 DEF SyncedState, HasPaths, ClearPaths
  <2>3. QED
    BY <1>0, <2>1, <2>2 DEF ClearPaths, LiveStates, EntryPathsMatch, EntryTrust, HasPaths
<1>4. QED
  BY <1>1, <1>2, <1>3

-----------------------------------------------------------------------------

\* The tracker starts with no session and every entry absent.
LEMMA InitInv == Init => IInv
BY GenerationAssumption, PathAssumption, NameAssumption
DEF Init, IInv, TypeOK, LiveIsCurrent, EntryGood, EntryPathsMatch, EntryTrust,
    EntryProven, Entry, EntryStates, LiveStates, FreshEntry, HasPaths, PathsOf, NoProof

\* When an entry is replaced by one that earns no new trust, forgetting the
\* broken proofs keeps it proven.
LEMMA ForgetKeepsProven ==
  ASSUME IInv, TypeOK', ForgetBrokenProofs,
         NEW u \in Uuids, NEW g \in Generations,
         entries'[u][g].pathsValidated =>
           entries[u][g].pathsValidated
             /\ PathsOf(entries'[u][g]) = PathsOf(entries[u][g])
  PROVE  EntryProven(entries'[u][g], proven'[u][g])
BY DEF IInv, TypeOK, ForgetBrokenProofs, EntryGood, EntryProven

\* A forgotten proof is still a pair of paths.
LEMMA ForgetTypeOK ==
  ASSUME TypeOK, ForgetBrokenProofs
  PROVE  proven' \in [Uuids -> [Generations -> [controllerPath : Paths \cup {NoPath},
                                              playerStatePath : Paths \cup {NoPath}]]]
BY DEF TypeOK, ForgetBrokenProofs, NoProof

\* The snapshot step, entry by entry: the listed generation is synced, every
\* other one of the bucket is closed.
LEMMA SyncInv == IInv /\ Sync => IInv'
<1> SUFFICES ASSUME IInv, Sync PROVE IInv'
  OBVIOUS
<1>0. PICK listed \in SUBSET Uuids : \E snapshot \in [listed -> PlayerRecord] :
        /\ entries' = [u \in Uuids |->
             IF u \in listed THEN SyncedBucket(entries[u], snapshot[u])
                             ELSE UnlistedBucket(entries[u], currentGeneration[u])]
        /\ currentGeneration' = [u \in Uuids |->
             IF u \in listed THEN snapshot[u].generation ELSE 0]
        /\ ForgetBrokenProofs
        /\ UNCHANGED now
  BY DEF Sync
<1>1. PICK snapshot \in [listed -> PlayerRecord] :
        /\ entries' = [u \in Uuids |->
             IF u \in listed THEN SyncedBucket(entries[u], snapshot[u])
                             ELSE UnlistedBucket(entries[u], currentGeneration[u])]
        /\ currentGeneration' = [u \in Uuids |->
             IF u \in listed THEN snapshot[u].generation ELSE 0]
        /\ ForgetBrokenProofs
        /\ UNCHANGED now
  BY <1>0
<1>2. ASSUME NEW u \in Uuids, NEW g \in Generations
      PROVE  /\ entries'[u][g] \in Entry
             /\ EntryPathsMatch(entries'[u][g])
             /\ EntryTrust(entries'[u][g])
             /\ entries'[u][g].state \in LiveStates <=> currentGeneration'[u] = g
             /\ entries'[u][g].pathsValidated =>
                  entries[u][g].pathsValidated
                    /\ PathsOf(entries'[u][g]) = PathsOf(entries[u][g])
  <2> DEFINE e == entries[u][g]
  <2>1. e \in Entry /\ EntryPathsMatch(e) /\ EntryTrust(e)
        /\ (e.state \in LiveStates <=> currentGeneration[u] = g)
    BY DEF IInv, TypeOK, EntryGood, LiveIsCurrent
  <2>2. g # 0
    BY GenerationAssumption
  <2>3. CASE u \in listed /\ g = snapshot[u].generation
    <3>1. snapshot[u] \in PlayerRecord
      BY <2>3
    <3>2. entries'[u][g] = SyncedEntry(e, snapshot[u]) /\ currentGeneration'[u] = g
      BY <1>1, <2>3 DEF SyncedBucket
    <3>3. QED
      BY <2>1, <3>1, <3>2, SyncedGood
  <2>4. CASE u \in listed /\ g # snapshot[u].generation
    <3>1. entries'[u][g] = Disconnect(e) /\ currentGeneration'[u] # g
      BY <1>1, <2>4 DEF SyncedBucket
    <3>2. QED
      BY <2>1, <3>1, DisconnectGood
  <2>5. CASE u \notin listed /\ g = currentGeneration[u]
    <3>1. entries'[u][g] = Disconnect(e) /\ currentGeneration'[u] # g
      BY <1>1, <2>2, <2>5 DEF UnlistedBucket
    <3>2. QED
      BY <2>1, <3>1, DisconnectGood
  <2>6. CASE u \notin listed /\ g # currentGeneration[u]
    <3>1. entries'[u][g] = e /\ currentGeneration'[u] # g
      BY <1>1, <2>2, <2>6 DEF UnlistedBucket
    <3>2. QED
      BY <2>1, <2>6, <3>1
  <2>7. QED
    BY <2>3, <2>4, <2>5, <2>6
<1>3. TypeOK'
  <2>1. currentGeneration' \in [Uuids -> Generations \cup {0}]
    BY <1>1 DEF PlayerRecord
  <2>2. entries' \in [Uuids -> [Generations -> Entry]]
    <3>1. \A u \in Uuids : entries'[u] = [g \in Generations |-> entries'[u][g]]
      BY <1>1 DEF SyncedBucket, UnlistedBucket
    <3>2. entries' = [u \in Uuids |-> entries'[u]]
      BY <1>1
    <3>3. \A u \in Uuids : entries'[u] \in [Generations -> Entry]
      <4>1. SUFFICES ASSUME NEW u \in Uuids PROVE entries'[u] \in [Generations -> Entry]
        OBVIOUS
      <4>2. \A g \in Generations : entries'[u][g] \in Entry
        BY <1>2
      <4>3. entries'[u] = [g \in Generations |-> entries'[u][g]]
        BY <3>1
      <4>4. QED
        BY <4>2, <4>3
    <3>4. QED
      BY <3>2, <3>3
  <2>3. QED
    BY <1>1, <2>1, <2>2, ForgetTypeOK DEF IInv, TypeOK
<1>4. LiveIsCurrent'
  BY <1>2 DEF LiveIsCurrent
<1>5. ASSUME NEW u \in Uuids, NEW g \in Generations
      PROVE  EntryGood(entries'[u][g], proven'[u][g])
  BY <1>1, <1>2, <1>3, ForgetKeepsProven DEF EntryGood
<1>6. QED
  BY <1>3, <1>4, <1>5 DEF IInv

\* One session changes its own entry: the invariant is kept when the new entry
\* is good, as live as its generation is current, and proven.
LEMMA EntryStepInv ==
  ASSUME IInv, NEW u \in Uuids, NEW g \in Generations, NEW e \in Entry,
         entries' = [entries EXCEPT ![u][g] = e],
         EntryPathsMatch(e), EntryTrust(e),
         e.state \in LiveStates <=> currentGeneration'[u] = g,
         \/ UNCHANGED currentGeneration
         \/ currentGeneration[u] = g /\ currentGeneration' = [currentGeneration EXCEPT ![u] = 0],
         proven' \in [Uuids -> [Generations -> [controllerPath : Paths \cup {NoPath},
                                              playerStatePath : Paths \cup {NoPath}]]],
         \A v \in Uuids, h \in Generations : EntryProven(entries'[v][h], proven'[v][h]),
         now' \in Nat
  PROVE  IInv'
<1>1. TypeOK'
  BY DEF IInv, TypeOK
<1>2. ASSUME NEW v \in Uuids, NEW h \in Generations
      PROVE  entries'[v][h] = IF v = u /\ h = g THEN e ELSE entries[v][h]
  BY DEF IInv, TypeOK
<1>3. LiveIsCurrent'
  <2>1. SUFFICES ASSUME NEW v \in Uuids, NEW h \in Generations
                 PROVE  entries'[v][h].state \in LiveStates <=> currentGeneration'[v] = h
    BY DEF LiveIsCurrent
  <2>2. h # 0
    BY GenerationAssumption
  <2>3. entries[v][h].state \in LiveStates <=> currentGeneration[v] = h
    BY DEF IInv, LiveIsCurrent
  <2>4. CASE v = u /\ h = g
    BY <1>2, <2>4
  <2>5. CASE ~(v = u /\ h = g)
    BY <1>2, <2>2, <2>3, <2>5 DEF IInv, TypeOK
  <2>6. QED
    BY <2>4, <2>5
<1>4. \A v \in Uuids, h \in Generations : EntryGood(entries'[v][h], proven'[v][h])
  BY <1>2 DEF IInv, EntryGood
<1>5. QED
  BY <1>1, <1>3, <1>4 DEF IInv

\* The facts every session step starts from.
LEMMA SessionFacts ==
  ASSUME IInv, NEW u \in Uuids, NEW g \in Generations
  PROVE  /\ entries[u][g] \in Entry
         /\ EntryPathsMatch(entries[u][g]) /\ EntryTrust(entries[u][g])
         /\ EntryProven(entries[u][g], proven[u][g])
         /\ entries[u][g].state \in LiveStates <=> currentGeneration[u] = g
         /\ g # 0
         /\ now \in Nat
BY GenerationAssumption DEF IInv, TypeOK, EntryGood, LiveIsCurrent

\* A session step that earns no trust: the entry keeps only what it held, and
\* ForgetBrokenProofs, or a history left alone, keeps it proven.
LEMMA QuietStepInv ==
  ASSUME IInv, NEW u \in Uuids, NEW g \in Generations, NEW e \in Entry,
         entries' = [entries EXCEPT ![u][g] = e],
         EntryPathsMatch(e), EntryTrust(e),
         e.state \in LiveStates <=> currentGeneration'[u] = g,
         e.pathsValidated =>
           entries[u][g].pathsValidated /\ PathsOf(e) = PathsOf(entries[u][g]),
         \/ UNCHANGED currentGeneration
         \/ currentGeneration[u] = g /\ currentGeneration' = [currentGeneration EXCEPT ![u] = 0],
         ForgetBrokenProofs \/ UNCHANGED proven,
         now' \in Nat
  PROVE  IInv'
<1>1. proven' \in [Uuids -> [Generations -> [controllerPath : Paths \cup {NoPath},
                                           playerStatePath : Paths \cup {NoPath}]]]
  BY ForgetTypeOK DEF IInv, TypeOK
<1>2. ASSUME NEW v \in Uuids, NEW h \in Generations
      PROVE  EntryProven(entries'[v][h], proven'[v][h])
  <2>1. entries'[v][h] = IF v = u /\ h = g THEN e ELSE entries[v][h]
    BY DEF IInv, TypeOK
  <2>2. /\ EntryProven(entries[v][h], proven[v][h])
        /\ entries'[v][h].pathsValidated =>
             entries[v][h].pathsValidated /\ PathsOf(entries'[v][h]) = PathsOf(entries[v][h])
    BY <2>1 DEF IInv, EntryGood
  <2>3. CASE UNCHANGED proven
    BY <2>2, <2>3 DEF EntryProven
  <2>4. CASE ForgetBrokenProofs
    BY <2>2, <2>4 DEF ForgetBrokenProofs, EntryProven
  <2>5. QED
    BY <2>3, <2>4
<1>3. QED
  BY <1>1, <1>2, EntryStepInv

\* A probe that succeeds proves the paths the entry holds.
CallableEntry(e) == [e EXCEPT !.state = "native_callable", !.pathsValidated = TRUE]

LEMMA CallableGood ==
  ASSUME NEW e \in Entry, HasPaths(e)
  PROVE  /\ CallableEntry(e) \in Entry /\ CallableEntry(e).state \in LiveStates
         /\ EntryPathsMatch(CallableEntry(e)) /\ EntryTrust(CallableEntry(e))
         /\ EntryProven(CallableEntry(e), PathsOf(e))
BY DEF CallableEntry, Entry, EntryStates, LiveStates, EntryPathsMatch, EntryTrust, EntryProven,
   HasPaths, PathsOf

LEMMA NoteCallableInv ==
  ASSUME IInv, NEW u \in Uuids, NEW g \in Generations, NoteCallable(u, g)
  PROVE  IInv'
<1>1. PICK n : n = CallableEntry(entries[u][g])
  OBVIOUS
<1>2. n \in Entry /\ n.state \in LiveStates
      /\ EntryPathsMatch(n) /\ EntryTrust(n) /\ EntryProven(n, PathsOf(entries[u][g]))
  <2>1. entries[u][g] \in Entry /\ HasPaths(entries[u][g])
    BY SessionFacts DEF NoteCallable
  <2>2. QED
    BY <1>1, <2>1, CallableGood
<1>3. /\ entries' = [entries EXCEPT ![u][g] = n]
      /\ UNCHANGED <<currentGeneration, now>> /\ currentGeneration[u] = g
      /\ proven' = [proven EXCEPT ![u][g] = PathsOf(entries[u][g])]
  BY <1>1 DEF NoteCallable, CallableEntry, IInv, TypeOK
<1>4. PathsOf(entries[u][g]) \in [controllerPath : Paths \cup {NoPath},
                                 playerStatePath : Paths \cup {NoPath}]
  <2>1. entries[u][g] \in Entry
    BY SessionFacts
  <2>2. QED
    BY <2>1 DEF Entry, PathsOf
<1>5. proven' \in [Uuids -> [Generations -> [controllerPath : Paths \cup {NoPath},
                                           playerStatePath : Paths \cup {NoPath}]]]
  BY <1>3, <1>4 DEF IInv, TypeOK
<1>6. ASSUME NEW v \in Uuids, NEW h \in Generations
      PROVE  EntryProven(entries'[v][h], proven'[v][h])
  <2>1. CASE v = u /\ h = g
    BY <1>2, <1>3, <2>1 DEF IInv, TypeOK
  <2>2. CASE ~(v = u /\ h = g)
    BY <1>3, <2>2 DEF IInv, TypeOK, EntryGood
  <2>3. QED
    BY <2>1, <2>2
<1>7. now' \in Nat /\ UNCHANGED currentGeneration
      /\ (n.state \in LiveStates <=> currentGeneration'[u] = g)
  BY <1>2, <1>3 DEF IInv, TypeOK
<1>8. QED
  BY <1>2, <1>3, <1>5, <1>6, <1>7, EntryStepInv

\* A probe that fails takes the callable state away and leaves the paths.
NotCallableEntry(e) ==
  [e EXCEPT !.state = IF HasPaths(e) THEN "controller_resolved" ELSE "joined"]

LEMMA NotCallableGood ==
  ASSUME NEW e \in Entry, EntryPathsMatch(e), EntryTrust(e), e.state \in LiveStates
  PROVE  /\ NotCallableEntry(e) \in Entry /\ NotCallableEntry(e).state \in LiveStates
         /\ EntryPathsMatch(NotCallableEntry(e)) /\ EntryTrust(NotCallableEntry(e))
         /\ NotCallableEntry(e).pathsValidated =>
              e.pathsValidated /\ PathsOf(NotCallableEntry(e)) = PathsOf(e)
BY DEF NotCallableEntry, Entry, EntryStates, LiveStates, EntryPathsMatch, EntryTrust, HasPaths, PathsOf

LEMMA NoteNotCallableInv ==
  ASSUME IInv, NEW u \in Uuids, NEW g \in Generations, NoteNotCallable(u, g)
  PROVE  IInv'
<1>1. PICK n : n = NotCallableEntry(entries[u][g])
  OBVIOUS
<1>2. n \in Entry /\ n.state \in LiveStates /\ EntryPathsMatch(n) /\ EntryTrust(n)
      /\ (n.pathsValidated =>
            entries[u][g].pathsValidated /\ PathsOf(n) = PathsOf(entries[u][g]))
  <2>1. /\ entries[u][g] \in Entry /\ EntryPathsMatch(entries[u][g])
        /\ EntryTrust(entries[u][g]) /\ entries[u][g].state \in LiveStates
    BY SessionFacts DEF NoteNotCallable
  <2>2. QED
    BY <1>1, <2>1, NotCallableGood
<1>3. /\ entries' = [entries EXCEPT ![u][g] = n]
      /\ UNCHANGED currentGeneration /\ UNCHANGED proven /\ now' \in Nat
      /\ (n.state \in LiveStates <=> currentGeneration'[u] = g)
  BY <1>1, <1>2 DEF NoteNotCallable, NotCallableEntry, IInv, TypeOK
<1>4. QED
  BY <1>2, <1>3, QuietStepInv

\* Invalidating a connection closes its entry and gives up its generation.
LEMMA InvalidateInv ==
  ASSUME IInv, NEW u \in Uuids, NEW g \in Generations, Invalidate(u, g)
  PROVE  IInv'
<1>1. PICK n : n = Disconnect(entries[u][g])
  OBVIOUS
<1>2. /\ n \in Entry /\ n.state \notin LiveStates
      /\ EntryPathsMatch(n) /\ EntryTrust(n) /\ ~n.pathsValidated
  <2>1. entries[u][g] \in Entry /\ EntryPathsMatch(entries[u][g]) /\ EntryTrust(entries[u][g])
    BY SessionFacts
  <2>2. QED
    BY <1>1, <2>1, DisconnectGood
<1>3. /\ entries' = [entries EXCEPT ![u][g] = n] /\ ForgetBrokenProofs /\ now' \in Nat
      /\ currentGeneration' =
           [currentGeneration EXCEPT ![u] = IF @ = g THEN 0 ELSE @]
  BY <1>1 DEF Invalidate, IInv, TypeOK
<1>4. currentGeneration \in [Uuids -> Generations \cup {0}] /\ g # 0
  BY SessionFacts DEF IInv, TypeOK
<1>5. currentGeneration'[u] # g
  BY <1>3, <1>4
<1>6. \/ UNCHANGED currentGeneration
      \/ currentGeneration[u] = g /\ currentGeneration' = [currentGeneration EXCEPT ![u] = 0]
  <2>1. CASE currentGeneration[u] = g
    BY <1>3, <2>1
  <2>2. CASE currentGeneration[u] # g
    BY <1>3, <1>4, <2>2
  <2>3. QED
    BY <2>1, <2>2
<1>7. QED
  BY <1>2, <1>3, <1>5, <1>6, QuietStepInv

\* Contradicted paths are dropped; the session stays, as merely joined.
ClearedEntry(e) == [ClearPaths(e) EXCEPT !.state = "joined"]

LEMMA ClearedGood ==
  ASSUME NEW e \in Entry
  PROVE  /\ ClearedEntry(e) \in Entry /\ ClearedEntry(e).state \in LiveStates
         /\ EntryPathsMatch(ClearedEntry(e)) /\ EntryTrust(ClearedEntry(e))
         /\ ~ClearedEntry(e).pathsValidated
BY PathAssumption
DEF ClearedEntry, Entry, EntryStates, LiveStates, EntryPathsMatch, EntryTrust, HasPaths, ClearPaths

LEMMA InvalidatePathsInv ==
  ASSUME IInv, NEW u \in Uuids, NEW g \in Generations, InvalidatePaths(u, g)
  PROVE  IInv'
<1>1. PICK n : n = ClearedEntry(entries[u][g])
  OBVIOUS
<1>2. /\ n \in Entry /\ n.state \in LiveStates
      /\ EntryPathsMatch(n) /\ EntryTrust(n) /\ ~n.pathsValidated
  <2>1. entries[u][g] \in Entry
    BY SessionFacts
  <2>2. QED
    BY <1>1, <2>1, ClearedGood
<1>3. /\ entries' = [entries EXCEPT ![u][g] = n] /\ ForgetBrokenProofs /\ now' \in Nat
      /\ UNCHANGED currentGeneration
      /\ (n.state \in LiveStates <=> currentGeneration'[u] = g)
  BY <1>1, <1>2, SessionFacts DEF InvalidatePaths, ClearedEntry, Current, IInv, TypeOK
<1>4. QED
  BY <1>2, <1>3, QuietStepInv

\* Steps that only touch a flag or the repair window.
ReusedEntry(e) == [e EXCEPT !.pathPreserved = FALSE]
RepairedEntry(e, t) == [e EXCEPT !.repairNextAllowed = t]

LEMMA BookkeepingGood ==
  ASSUME NEW e \in Entry, EntryPathsMatch(e), EntryTrust(e), NEW t \in Nat,
         NEW n \in {ReusedEntry(e), RepairedEntry(e, t)}
  PROVE  /\ n \in Entry /\ n.state = e.state
         /\ EntryPathsMatch(n) /\ EntryTrust(n)
         /\ n.pathsValidated => e.pathsValidated /\ PathsOf(n) = PathsOf(e)
BY DEF ReusedEntry, RepairedEntry, Entry, EntryPathsMatch, EntryTrust, HasPaths, PathsOf

LEMMA NotePathReuseInv ==
  ASSUME IInv, NEW u \in Uuids, NEW g \in Generations, NotePathReuse(u, g)
  PROVE  IInv'
<1>1. PICK n : n = ReusedEntry(entries[u][g])
  OBVIOUS
<1>2. /\ n \in Entry /\ n.state = entries[u][g].state /\ EntryPathsMatch(n) /\ EntryTrust(n)
      /\ (n.pathsValidated =>
            entries[u][g].pathsValidated /\ PathsOf(n) = PathsOf(entries[u][g]))
  <2>1. entries[u][g] \in Entry /\ EntryPathsMatch(entries[u][g]) /\ EntryTrust(entries[u][g])
    BY SessionFacts
  <2>2. n \in {ReusedEntry(entries[u][g]), RepairedEntry(entries[u][g], 0)}
    BY <1>1
  <2>3. QED
    BY <2>1, <2>2, BookkeepingGood
<1>3. /\ entries' = [entries EXCEPT ![u][g] = n]
      /\ UNCHANGED currentGeneration /\ UNCHANGED proven /\ now' \in Nat
      /\ (n.state \in LiveStates <=> currentGeneration'[u] = g)
  BY <1>1, <1>2, SessionFacts DEF NotePathReuse, ReusedEntry, IInv, TypeOK
<1>4. QED
  BY <1>2, <1>3, QuietStepInv

LEMMA RepairAttemptInv ==
  ASSUME IInv, NEW u \in Uuids, NEW g \in Generations, RepairAttempt(u, g)
  PROVE  IInv'
<1>0. now + RepairWindow \in Nat
  BY ClockAssumption, SessionFacts
<1>1. PICK n : n = RepairedEntry(entries[u][g], now + RepairWindow)
  OBVIOUS
<1>2. /\ n \in Entry /\ n.state = entries[u][g].state /\ EntryPathsMatch(n) /\ EntryTrust(n)
      /\ (n.pathsValidated =>
            entries[u][g].pathsValidated /\ PathsOf(n) = PathsOf(entries[u][g]))
  <2>1. entries[u][g] \in Entry /\ EntryPathsMatch(entries[u][g]) /\ EntryTrust(entries[u][g])
    BY SessionFacts
  <2>2. n \in {ReusedEntry(entries[u][g]), RepairedEntry(entries[u][g], now + RepairWindow)}
    BY <1>1
  <2>3. QED
    BY <1>0, <2>1, <2>2, BookkeepingGood
<1>3. /\ entries' = [entries EXCEPT ![u][g] = n]
      /\ UNCHANGED currentGeneration /\ UNCHANGED proven /\ now' \in Nat
      /\ (n.state \in LiveStates <=> currentGeneration'[u] = g)
  BY <1>1, <1>2, SessionFacts DEF RepairAttempt, RepairedEntry, IInv, TypeOK
<1>4. QED
  BY <1>2, <1>3, QuietStepInv

\* Every step of the tracker keeps the invariant.
LEMMA NextInv == IInv /\ [Next]_vars => IInv'
<1> SUFFICES ASSUME IInv, [Next]_vars PROVE IInv'
  OBVIOUS
<1>1. CASE Sync
  BY <1>1, SyncInv
<1>2. CASE Tick
  BY <1>2 DEF Tick, IInv, TypeOK, LiveIsCurrent, EntryGood, EntryProven
<1>3. ASSUME NEW u \in Uuids, NEW g \in Generations, SessionStep(u, g)
      PROVE  IInv'
  BY <1>3, NoteCallableInv, NoteNotCallableInv, InvalidateInv, InvalidatePathsInv,
     NotePathReuseInv, RepairAttemptInv DEF SessionStep
<1>4. CASE UNCHANGED vars
  BY <1>4 DEF vars, IInv, TypeOK, LiveIsCurrent, EntryGood, EntryProven
<1>5. QED
  BY <1>1, <1>2, <1>3, <1>4 DEF Next

\* The strengthened invariant holds in every reachable state.
LEMMA Invariant == Spec => []IInv
BY InitInv, NextInv, PTL DEF Spec

-----------------------------------------------------------------------------

\* Every tracker table keeps its shape, whatever order the calls come in.
THEOREM TypeCorrect == Spec => []TypeOK
<1>1. IInv => TypeOK
  BY DEF IInv
<1>2. QED
  BY <1>1, Invariant, PTL

\* A connection generation is live exactly when it is the current one, so a
\* superseded connection is never left executable.
THEOREM LiveIsCurrentHolds == Spec => []LiveIsCurrent
<1>1. IInv => LiveIsCurrent
  BY DEF IInv
<1>2. QED
  BY <1>1, Invariant, PTL

\* Stored paths come and go as a pair and only with a state that needs them.
THEOREM PathsMatchStateHolds == Spec => []PathsMatchState
<1>1. IInv => PathsMatchState
  BY DEF IInv, PathsMatchState, EntryGood, EntryPathsMatch
<1>2. QED
  BY <1>1, Invariant, PTL

\* An entry that counts as validated still holds exactly the paths that a
\* probe proved callable, with no break since.
THEOREM TrustIsProvenHolds == Spec => []TrustIsProven
<1>1. IInv => TrustIsProven
  BY DEF IInv, TrustIsProven, EntryGood, EntryTrust, EntryProven
<1>2. QED
  BY <1>1, Invariant, PTL

-----------------------------------------------------------------------------
(* What a step does to each entry.                                          *)

\* The repair window of an entry, and who becomes callable.
WindowStep(u, g) ==
  entries'[u][g].repairNextAllowed # entries[u][g].repairNextAllowed =>
    /\ entries[u][g].repairNextAllowed <= now
    /\ entries'[u][g].repairNextAllowed = now + RepairWindow

NobodyProven ==
  \A u \in Uuids, g \in Generations :
    entries'[u][g].state = "native_callable" => entries[u][g].state = "native_callable"

LEMMA SyncedKeeps ==
  ASSUME NEW e \in Entry, NEW p \in PlayerRecord
  PROVE  /\ SyncedEntry(e, p).repairNextAllowed = e.repairNextAllowed
         /\ SyncedEntry(e, p).state = "native_callable" => e.state = "native_callable"
<1> DEFINE s == SyncedPaths(e, p)
<1>1. s \in Entry /\ s.repairNextAllowed = e.repairNextAllowed
  <2>1. CASE Complete(p)
    BY <2>1 DEF SyncedPaths, Entry, PlayerRecord, Complete
  <2>2. CASE ~Complete(p) /\ Preserves(e, p)
    BY <2>2 DEF SyncedPaths, Entry
  <2>3. CASE ~Complete(p) /\ ~Preserves(e, p)
    BY <2>3 DEF SyncedPaths, ClearPaths, Entry, PlayerRecord
  <2> QED BY <2>1, <2>2, <2>3
<1>2. SyncedState(e, p) \in {"joined", "controller_resolved", e.state}
  BY DEF SyncedState
<1> HIDE DEF s
<1>3. SyncedEntry(e, p) = [s EXCEPT !.state = SyncedState(e, p)]
  BY DEF SyncedEntry, s
<1>4. SyncedEntry(e, p).repairNextAllowed = s.repairNextAllowed
      /\ SyncedEntry(e, p).state = SyncedState(e, p)
  BY <1>1, <1>3 DEF Entry
<1> QED BY <1>1, <1>2, <1>4

LEMMA DisconnectKeeps ==
  ASSUME NEW e \in Entry
  PROVE  /\ Disconnect(e).repairNextAllowed = e.repairNextAllowed
         /\ Disconnect(e).state # "native_callable"
BY DEF Disconnect, ClearPaths, Entry

LEMMA SyncKeeps ==
  ASSUME IInv, Sync, NEW u \in Uuids, NEW g \in Generations
  PROVE  /\ entries'[u][g].repairNextAllowed = entries[u][g].repairNextAllowed
         /\ entries'[u][g].state = "native_callable" => entries[u][g].state = "native_callable"
<1>1. PICK listed \in SUBSET Uuids : \E snapshot \in [listed -> PlayerRecord] :
        entries' = [v \in Uuids |->
             IF v \in listed THEN SyncedBucket(entries[v], snapshot[v])
                             ELSE UnlistedBucket(entries[v], currentGeneration[v])]
  BY DEF Sync
<1>2. PICK snapshot \in [listed -> PlayerRecord] :
        entries' = [v \in Uuids |->
             IF v \in listed THEN SyncedBucket(entries[v], snapshot[v])
                             ELSE UnlistedBucket(entries[v], currentGeneration[v])]
  BY <1>1
<1> DEFINE e == entries[u][g]
<1>3. e \in Entry
  BY SessionFacts
<1>4. CASE u \in listed
  <2>1. snapshot[u] \in PlayerRecord
    BY <1>4
  <2>2. entries'[u][g] = SyncedEntry(e, snapshot[u]) \/ entries'[u][g] = Disconnect(e)
    BY <1>2, <1>4 DEF SyncedBucket
  <2> QED BY <1>3, <2>1, <2>2, SyncedKeeps, DisconnectKeeps
<1>5. CASE u \notin listed
  <2>1. entries'[u][g] = e \/ entries'[u][g] = Disconnect(e)
    BY <1>2, <1>5 DEF UnlistedBucket
  <2> QED BY <1>3, <2>1, DisconnectKeeps
<1> QED BY <1>4, <1>5

\* One session's own step, as an update of its entry.
LEMMA SessionUpdate ==
  ASSUME IInv, NEW u \in Uuids, NEW g \in Generations, SessionStep(u, g)
  PROVE  \E n : /\ entries' = [entries EXCEPT ![u][g] = n]
                /\ NoteCallable(u, g) \/ (n.state = "native_callable" => entries[u][g].state = "native_callable")
                /\ n.repairNextAllowed # entries[u][g].repairNextAllowed =>
                     /\ entries[u][g].repairNextAllowed <= now
                     /\ n.repairNextAllowed = now + RepairWindow
<1> DEFINE e == entries[u][g]
<1>1. /\ e \in Entry /\ now + RepairWindow \in Nat
      /\ entries \in [Uuids -> [Generations -> Entry]]
  BY SessionFacts, ClockAssumption DEF IInv, TypeOK
<1>2. CASE NoteCallable(u, g)
  <2>1. entries' = [entries EXCEPT ![u][g] = CallableEntry(e)]
    BY <1>1, <1>2 DEF NoteCallable, CallableEntry
  <2>2. CallableEntry(e).repairNextAllowed = e.repairNextAllowed
    BY <1>1 DEF CallableEntry, Entry
  <2> HIDE DEF e
  <2> QED BY <1>2, <2>1, <2>2 DEF e
<1>3. CASE NoteNotCallable(u, g)
  <2>1. entries' = [entries EXCEPT ![u][g] = NotCallableEntry(e)]
    BY <1>1, <1>3 DEF NoteNotCallable, NotCallableEntry
  <2>2. NotCallableEntry(e).repairNextAllowed = e.repairNextAllowed
        /\ NotCallableEntry(e).state # "native_callable"
    BY <1>1 DEF NotCallableEntry, Entry
  <2> HIDE DEF e
  <2> QED BY <2>1, <2>2 DEF e
<1>4. CASE Invalidate(u, g)
  <2>1. entries' = [entries EXCEPT ![u][g] = Disconnect(e)]
    BY <1>1, <1>4 DEF Invalidate
  <2>2. Disconnect(e).repairNextAllowed = e.repairNextAllowed
        /\ Disconnect(e).state # "native_callable"
    BY <1>1, DisconnectKeeps
  <2> HIDE DEF e
  <2> QED BY <2>1, <2>2 DEF e
<1>5. CASE InvalidatePaths(u, g)
  <2>1. entries' = [entries EXCEPT ![u][g] = ClearedEntry(e)]
    BY <1>1, <1>5 DEF InvalidatePaths, ClearedEntry
  <2>2. ClearedEntry(e).repairNextAllowed = e.repairNextAllowed
        /\ ClearedEntry(e).state # "native_callable"
    BY <1>1 DEF ClearedEntry, ClearPaths, Entry
  <2> HIDE DEF e
  <2> QED BY <2>1, <2>2 DEF e
<1>6. CASE NotePathReuse(u, g)
  <2>1. entries' = [entries EXCEPT ![u][g] = ReusedEntry(e)]
    BY <1>1, <1>6 DEF NotePathReuse, ReusedEntry
  <2>2. ReusedEntry(e).repairNextAllowed = e.repairNextAllowed /\ ReusedEntry(e).state = e.state
    BY <1>1 DEF ReusedEntry, Entry
  <2> HIDE DEF e
  <2> QED BY <2>1, <2>2 DEF e
<1>7. CASE RepairAttempt(u, g)
  <2>1. entries' = [entries EXCEPT ![u][g] = RepairedEntry(e, now + RepairWindow)]
        /\ e.repairNextAllowed <= now
    BY <1>1, <1>7 DEF RepairAttempt, RepairedEntry
  <2>2. RepairedEntry(e, now + RepairWindow).repairNextAllowed = now + RepairWindow
        /\ RepairedEntry(e, now + RepairWindow).state = e.state
    BY <1>1 DEF RepairedEntry, Entry
  <2> HIDE DEF e
  <2> QED BY <2>1, <2>2 DEF e
<1> QED BY <1>2, <1>3, <1>4, <1>5, <1>6, <1>7 DEF SessionStep

LEMMA EntrySteps ==
  ASSUME IInv, [Next]_vars
  PROVE  /\ \A u \in Uuids, g \in Generations : WindowStep(u, g)
         /\ NobodyProven \/ \E u \in Uuids, g \in Generations : NoteCallable(u, g)
<1>1. CASE Sync
  BY <1>1, SyncKeeps DEF WindowStep, NobodyProven
<1>2. CASE UNCHANGED entries
  BY <1>2 DEF WindowStep, NobodyProven
<1>3. ASSUME NEW u \in Uuids, NEW g \in Generations, SessionStep(u, g)
      PROVE  /\ \A v \in Uuids, h \in Generations : WindowStep(v, h)
             /\ NobodyProven \/ NoteCallable(u, g)
  <2>1. PICK n : /\ entries' = [entries EXCEPT ![u][g] = n]
                 /\ NoteCallable(u, g) \/ (n.state = "native_callable" => entries[u][g].state = "native_callable")
                 /\ n.repairNextAllowed # entries[u][g].repairNextAllowed =>
                      /\ entries[u][g].repairNextAllowed <= now
                      /\ n.repairNextAllowed = now + RepairWindow
    BY <1>3, SessionUpdate
  <2>2. \A v \in Uuids, h \in Generations :
          entries'[v][h] = IF v = u /\ h = g THEN n ELSE entries[v][h]
    BY <2>1 DEF IInv, TypeOK
  <2> QED BY <2>1, <2>2 DEF WindowStep, NobodyProven
<1>4. CASE Tick \/ UNCHANGED vars
  BY <1>2, <1>4 DEF Tick, vars
<1> QED BY <1>1, <1>3, <1>4 DEF Next

\* No reconnection, snapshot or lost path shortens a repair window.
THEOREM RepairWindowHeldHolds == Spec => RepairWindowHeld
<1>1. IInv /\ [Next]_vars =>
        [\A u \in Uuids, g \in Generations :
           entries'[u][g].repairNextAllowed # entries[u][g].repairNextAllowed =>
             /\ entries[u][g].repairNextAllowed <= now
             /\ entries'[u][g].repairNextAllowed = now + RepairWindow]_vars
  BY EntrySteps, Zenon DEF WindowStep
<1> QED BY <1>1, Invariant, PTL DEF Spec, RepairWindowHeld

-----------------------------------------------------------------------------
(* The tracker implements SessionReadiness.                                 *)

LEMMA SessionSets ==
  ASSUME IInv
  PROVE  /\ CurrentSessions = {s \in Uuids \X Generations : currentGeneration[s[1]] = s[2]}
         /\ ExecutableSessions =
              {s \in Uuids \X Generations : entries[s[1]][s[2]].state = "native_callable"}
<1>1. ASSUME NEW s \in Uuids \X Generations
      PROVE  /\ Current(s[1], s[2]) <=> currentGeneration[s[1]] = s[2]
             /\ ExecutionDecision(s[1], s[2]) = "execute" <=>
                  entries[s[1]][s[2]].state = "native_callable"
  <2>1. entries[s[1]][s[2]].state \in LiveStates <=> currentGeneration[s[1]] = s[2]
    BY SessionFacts
  <2> QED BY <2>1 DEF Current, ExecutionDecision, LiveStates
<1> QED BY <1>1 DEF CurrentSessions, ExecutableSessions

LEMMA InitSessions == Init => Abstract!Init
<1> SUFFICES ASSUME Init PROVE Abstract!Init
  OBVIOUS
<1>1. \A s \in Uuids \X Generations : ~Current(s[1], s[2])
  BY DEF Init, Current, FreshEntry, LiveStates
<1> QED BY <1>1 DEF Abstract!Init, CurrentSessions, ExecutableSessions, ExecutionDecision

LEMMA SessionsStep == IInv /\ [Next]_vars => Abstract!Next
<1> SUFFICES ASSUME IInv, [Next]_vars PROVE Abstract!Next
  OBVIOUS
<1>1. IInv'
  BY NextInv
<1>2. /\ CurrentSessions = {s \in Uuids \X Generations : currentGeneration[s[1]] = s[2]}
      /\ ExecutableSessions =
           {s \in Uuids \X Generations : entries[s[1]][s[2]].state = "native_callable"}
  BY SessionSets
<1>3. /\ CurrentSessions' = {s \in Uuids \X Generations : currentGeneration'[s[1]] = s[2]}
      /\ ExecutableSessions' =
           {s \in Uuids \X Generations : entries'[s[1]][s[2]].state = "native_callable"}
  <2>1. ASSUME NEW s \in Uuids \X Generations
        PROVE  /\ Current(s[1], s[2])' <=> currentGeneration'[s[1]] = s[2]
               /\ (ExecutionDecision(s[1], s[2]) = "execute")' <=>
                    entries'[s[1]][s[2]].state = "native_callable"
    <3>1. entries'[s[1]][s[2]].state \in LiveStates <=> currentGeneration'[s[1]] = s[2]
      BY <1>1 DEF IInv, LiveIsCurrent
    <3> QED BY <3>1 DEF Current, ExecutionDecision, LiveStates
  <2> QED BY <2>1 DEF CurrentSessions, ExecutableSessions
<1>4. CASE NobodyProven
  <2>1. ExecutableSessions' \subseteq ExecutableSessions
    BY <1>1, <1>2, <1>3, <1>4 DEF NobodyProven
  <2>2. ExecutableSessions' \subseteq CurrentSessions'
    BY DEF ExecutableSessions, CurrentSessions, ExecutionDecision
  <2>3. CurrentSessions' \subseteq Uuids \X Generations
    BY DEF CurrentSessions
  <2>4. Abstract!Change
    BY <2>1, <2>2, <2>3 DEF Abstract!Change
  <2> QED BY <2>4 DEF Abstract!Next
<1>5. ASSUME NEW u \in Uuids, NEW g \in Generations, NoteCallable(u, g) PROVE Abstract!Next
  <2>1. /\ currentGeneration[u] = g /\ currentGeneration' = currentGeneration
        /\ entries' = [entries EXCEPT ![u][g] = CallableEntry(entries[u][g])]
        /\ CallableEntry(entries[u][g]).state = "native_callable"
    <3>1. entries[u][g] \in Entry /\ entries \in [Uuids -> [Generations -> Entry]]
      BY SessionFacts DEF IInv, TypeOK
    <3> QED BY <1>5, <3>1 DEF NoteCallable, CallableEntry, Entry
  <2>2. <<u, g>> \in CurrentSessions
    BY <1>2, <2>1
  <2>3. CurrentSessions' = CurrentSessions
    BY <1>1, <1>2, <1>3, <2>1
  <2>4. ExecutableSessions' = ExecutableSessions \cup {<<u, g>>}
    <3>1. \A v \in Uuids, h \in Generations :
            entries'[v][h].state = IF v = u /\ h = g THEN "native_callable" ELSE entries[v][h].state
      BY <2>1 DEF IInv, TypeOK
    <3> QED BY <1>1, <1>2, <1>3, <3>1
  <2>5. Abstract!Prove(<<u, g>>)
    BY <2>2, <2>3, <2>4 DEF Abstract!Prove
  <2> QED BY <2>5 DEF Abstract!Next
<1> QED BY <1>4, <1>5, EntrySteps

\* Whatever the order of snapshots, probes and invalidations, the scheduler may
\* rely on SessionReadiness: only a probe of a current session makes it callable.
THEOREM ImplementsSessionReadinessHolds == Spec => ImplementsSessionReadiness
<1>1. Spec => Abstract!Init
  BY InitSessions DEF Spec
<1>2. IInv /\ [Next]_vars => [Abstract!Next]_<<CurrentSessions, ExecutableSessions>>
  BY SessionsStep
<1> QED BY <1>1, <1>2, Invariant, PTL DEF Spec, ImplementsSessionReadiness, Abstract!Spec, Abstract!vars
=============================================================================
