--------------------------- MODULE SocketScheduler ---------------------------
(***************************************************************************)
(* The unified socket scheduler of the BMF Lua runtime (bmf/runtime.lua).  *)
(* Two transports share one bounded admission queue and one dispatch slot  *)
(* per pump tick: "direct" socket commands and the game command "tunnel",  *)
(* each with an interactive and a bulk lane.  A terminal result is         *)
(* remembered by request id (and, on the tunnel, by idempotency key) so    *)
(* that a repeated request is answered and not executed again.             *)
(*                                                                         *)
(* The runtime is single threaded: a callback is one atomic step.  Replies *)
(* that change no scheduler state (acks, replays, unrecorded tunnel        *)
(* rejections) are stuttering steps.                                       *)
(***************************************************************************)
EXTENDS Integers, FiniteSets, SequencesExt

CONSTANTS
  Ids,             \* request ids
  Keys,            \* idempotency keys
  NoKey,           \* the blank idempotency key
  Sessions,        \* (player UUID, connection generation) pairs
  NoSession,       \* the session of a direct command
  Payloads,        \* command text; line, sender name and operation type
  Envelopes,       \* the requests clients may send, any number of times
  Malformed,       \* the envelopes admission refuses for their content
  NoEnvelope,
  NoResult,
  NoId,
  MaxQueue,        \* max_queue: both transports together
  MaxBytes,        \* max_bytes: both transports together
  MaxTransport,    \* transport -> max_direct_queue / max_queue of the tunnel
  MaxLane,         \* transport -> class -> class limit
  MaxTunnelBytes,  \* max_bytes of the tunnel
  Retention,       \* transport -> completed_retention
  CooldownTicks,   \* ceil(interval_ms / poll_interval_ms)
  RetryTicks,      \* the delays defer_retry may compute, in ticks
  Interval,        \* interval_ms, in clock units
  MaxLosses,       \* bound: how often the pump chain may break
  MaxTime          \* bound: the last clock value

Transports == {"direct", "tunnel"}
Classes == {"interactive", "bulk"}

EnvelopeShape ==
  [transport : Transports, class : Classes, id : Ids, key : Keys \cup {NoKey},
   payload : Payloads, session : Sessions \cup {NoSession}, deadline : Nat, bytes : Nat]

TerminalStates ==
  {"completed", "injected", "rejected", "expired", "outcome_unknown"}

Result == [env : Envelopes, state : TerminalStates]

ASSUME EnvelopeAssumption ==
  /\ Envelopes \subseteq EnvelopeShape
  /\ Malformed \subseteq Envelopes
  /\ \A e \in Envelopes : e.transport = "direct" => e.key = NoKey /\ e.session = NoSession
ASSUME SentinelAssumption ==
  /\ NoKey \notin Keys /\ NoSession \notin Sessions /\ NoId \notin Ids
  /\ NoEnvelope \notin Envelopes /\ NoResult \notin Result
ASSUME LimitAssumption ==
  /\ MaxQueue \in Nat /\ MaxBytes \in Nat /\ MaxTunnelBytes \in Nat
  /\ MaxTransport \in [Transports -> Nat]
  /\ MaxLane \in [Transports -> [Classes -> Nat]]
  /\ Retention \in [Transports -> Nat \ {0}]
ASSUME TimeAssumption ==
  /\ CooldownTicks \in Nat \ {0} /\ RetryTicks \subseteq Nat \ {0}
  /\ Interval \in Nat /\ MaxLosses \in Nat /\ MaxTime \in Nat

VARIABLES
  queue,         \* transport -> class -> FIFO of waiting requests
  queuedCount,   \* transport -> direct_queued_count / queued_count
  queuedBytes,   \* transport -> direct_queued_bytes / queued_bytes
  active,        \* transport -> active_by_id
  activeKey,     \* active_by_idempotency_key, as the id of the request
  completed,     \* transport -> completed_by_id
  completedKey,  \* completed_by_idempotency_key, as the id of the entry
  order,         \* transport -> completed_order, oldest first
  cursor,        \* fairness_cursor
  cooldown,      \* cooldown_ticks
  live,          \* the sessions the readiness tracker calls current
  workerUp,      \* a pump link is pending
  losses,        \* pump chain breaks so far
  now,           \* the clock
  ran            \* history: transport -> id -> dispatches since last forgotten

queueVars == <<queue, queuedCount, queuedBytes>>
cacheVars == <<active, activeKey, completed, completedKey, order, ran>>
paceVars == <<cursor, cooldown>>
workerVars == <<workerUp, losses>>
vars == <<queueVars, cacheVars, paceVars, workerVars, live, now>>

\* A queued request; wait is readinessNotBeforeTick less the current tick.
Request == [env : Envelopes, wait : Nat]

Expired(e) == now >= e.deadline

Live(e) == e.session \in live

TotalDepth == queuedCount["direct"] + queuedCount["tunnel"]
TotalBytes == queuedBytes["direct"] + queuedBytes["tunnel"]

Init ==
  /\ queue = [t \in Transports |-> [c \in Classes |-> <<>>]]
  /\ queuedCount = [t \in Transports |-> 0]
  /\ queuedBytes = [t \in Transports |-> 0]
  /\ active = [t \in Transports |-> [id \in Ids |-> NoEnvelope]]
  /\ activeKey = [k \in Keys |-> NoId]
  /\ completed = [t \in Transports |-> [id \in Ids |-> NoResult]]
  /\ completedKey = [k \in Keys |-> NoId]
  /\ order = [t \in Transports |-> <<>>]
  /\ cursor = 1
  /\ cooldown = 0
  /\ live = {}
  /\ workerUp = TRUE
  /\ losses = 0
  /\ now = 0
  /\ ran = [t \in Transports |-> [id \in Ids |-> 0]]

-----------------------------------------------------------------------------
(* Terminal results and the bounded replay caches.                          *)

\* The last n elements of s.
Newest(s, n) == SubSeq(s, Len(s) - n + 1, Len(s))

IdsOf(batch) == {batch[i].id : i \in DOMAIN batch}

\* completed_by_id of t with the batch, before anything is forgotten.
Remembering(t, batch, state) ==
  [id \in Ids |-> IF id \in IdsOf(batch)
                    THEN [env |-> CHOOSE e \in ToSet(batch) : e.id = id, state |-> state]
                    ELSE completed[t][id]]

\* The ids of batch that t does not remember yet, in the order of the batch.
Unseen(t, batch) ==
  LET unseen[n \in 0..Len(batch)] ==
        IF n = 0 THEN <<>>
        ELSE IF completed[t][batch[n].id] = NoResult
               THEN Append(unseen[n - 1], batch[n].id) ELSE unseen[n - 1]
  IN  unseen[Len(batch)]

\* Seeded fault: one id more than the retention is kept.
MutantRetention(t, batch) ==
  LET all == order[t] \o Unseen(t, batch)
  IN  IF batch = <<>> THEN {order[t]}
      ELSE {Newest(all, n) : n \in {m \in 1..Len(all) : m <= Retention[t] + 1}}

\* Seeded fault: the newest results are forgotten first.
MutantForgetNewest(t, batch) ==
  LET all == order[t] \o Unseen(t, batch)
  IN  IF batch = <<>> THEN {order[t]}
      ELSE {SubSeq(all, 1, n) : n \in {m \in 1..Len(all) : m <= Retention[t]}}

\* The orders remember_result may leave: at most Retention ids, fewer when the
\* byte budget asks for it, the oldest forgotten first.
RetainedOrders(t, batch) ==
  LET all == order[t] \o Unseen(t, batch)
  IN  IF batch = <<>> THEN {order[t]}
      ELSE {Newest(all, n) : n \in {m \in 1..Len(all) : m <= Retention[t]}}

\* Seeded fault: the key of a forgotten result is not cleared.
MutantKeyIndex(results, finished, retained) ==
  [k \in Keys |->
     LET fresh == {id \in finished \cap retained : results[id].env.key = k}
     IN  IF fresh # {} THEN CHOOSE id \in fresh : TRUE ELSE completedKey[k]]

\* An idempotency key points to the request just finished with it, if any.
KeyIndex(results, finished, retained) ==
  [k \in Keys |->
     LET fresh == {id \in finished \cap retained : results[id].env.key = k}
     IN  IF fresh # {} THEN CHOOSE id \in fresh : TRUE
         ELSE IF completedKey[k] \in retained THEN completedKey[k] ELSE NoId]

\* send_terminal for the requests of batch (a sequence per transport): they
\* stop being active and their results are remembered.
Finish(batch, state, dispatched) ==
  \E direct \in RetainedOrders("direct", batch["direct"]),
     tunnel \in RetainedOrders("tunnel", batch["tunnel"]) :
    LET newOrder == [t \in Transports |-> IF t = "direct" THEN direct ELSE tunnel]
        retained(t) == ToSet(newOrder[t])
        finished(t) == IdsOf(batch[t])
        results(t) == Remembering(t, batch[t], state)
    IN  /\ order' = newOrder
        /\ completed' = [t \in Transports |-> [id \in Ids |->
             IF id \in retained(t) THEN results(t)[id] ELSE NoResult]]
        /\ completedKey' = KeyIndex(results("tunnel"), finished("tunnel"), retained("tunnel"))
        /\ active' = [t \in Transports |-> [id \in Ids |->
             IF id \in finished(t) THEN NoEnvelope ELSE active[t][id]]]
        /\ activeKey' = [k \in Keys |->
             IF activeKey[k] \in finished("tunnel") THEN NoId ELSE activeKey[k]]
        /\ ran' = [t \in Transports |-> [id \in Ids |->
             IF results(t)[id] # NoResult /\ id \notin retained(t) THEN 0
             ELSE IF dispatched /\ id \in finished(t) THEN ran[t][id] + 1 ELSE ran[t][id]]]

FinishOne(e, state, dispatched) ==
  Finish([t \in Transports |-> IF t = e.transport THEN <<e>> ELSE <<>>], state, dispatched)

-----------------------------------------------------------------------------
(* Ingress: what the pump admits, rejects or leaves alone.                  *)

\* Seeded fault: an active duplicate is taken for a new request.
MutantNewIgnoresActive(e) == completed[e.transport][e.id] = NoResult

\* Seeded fault: a remembered duplicate is taken for a new request.
MutantNewIgnoresCompleted(e) == active[e.transport][e.id] = NoEnvelope

\* Neither active nor remembered: the id is admitted or rejected as new.
New(e) ==
  active[e.transport][e.id] = NoEnvelope /\ completed[e.transport][e.id] = NoResult

\* Seeded fault: a key is free as soon as its request is answered.
MutantKeyFree(e) == e.key # NoKey => activeKey[e.key] = NoId

\* The idempotency key belongs to no active and no remembered request.
KeyFree(e) ==
  e.key # NoKey => activeKey[e.key] = NoId /\ completedKey[e.key] = NoId

HasRoom(e) ==
  /\ TotalDepth < MaxQueue
  /\ queuedCount[e.transport] < MaxTransport[e.transport]
  /\ Len(queue[e.transport][e.class]) < MaxLane[e.transport][e.class]
  /\ TotalBytes + e.bytes <= MaxBytes
  /\ e.transport = "tunnel" => queuedBytes["tunnel"] + e.bytes <= MaxTunnelBytes

Enqueue(e) ==
  /\ queue' = [queue EXCEPT ![e.transport][e.class] = Append(@, [env |-> e, wait |-> 0])]
  /\ queuedCount' = [queuedCount EXCEPT ![e.transport] = @ + 1]
  /\ queuedBytes' = [queuedBytes EXCEPT ![e.transport] = @ + e.bytes]
  /\ active' = [active EXCEPT ![e.transport][e.id] = e]
  /\ activeKey' = [k \in Keys |-> IF k = e.key THEN e.id ELSE activeKey[k]]
  /\ UNCHANGED <<completed, completedKey, order, ran, paceVars, workerVars, live, now>>

\* admit_direct accepts the command.
AdmitDirect(e) ==
  /\ workerUp /\ e.transport = "direct"
  /\ New(e) /\ e \notin Malformed /\ ~Expired(e) /\ HasRoom(e)
  /\ Enqueue(e)

\* admit_direct refuses a new id: the refusal is a terminal result and is
\* remembered like any other.
RejectDirect(e) ==
  /\ workerUp /\ e.transport = "direct" /\ New(e)
  /\ \/ e \in Malformed /\ FinishOne(e, "rejected", FALSE)
     \/ e \notin Malformed /\ Expired(e) /\ FinishOne(e, "expired", FALSE)
     \/ e \notin Malformed /\ ~Expired(e) /\ ~HasRoom(e) /\ FinishOne(e, "rejected", FALSE)
  /\ UNCHANGED <<queueVars, paceVars, workerVars, live, now>>

\* process_tunnel_request accepts the request; a refusal is only answered.
AdmitTunnel(e) ==
  /\ workerUp /\ e.transport = "tunnel"
  /\ Live(e) /\ New(e) /\ KeyFree(e) /\ e \notin Malformed /\ HasRoom(e)
  /\ now + (queuedCount["tunnel"] + 1) * Interval < e.deadline
  /\ Enqueue(e)

-----------------------------------------------------------------------------
(* Dispatch: execute_one, at most one request per tick.                     *)

Slots ==
  << <<"direct", "interactive">>, <<"tunnel", "interactive">>,
     <<"direct", "interactive">>, <<"tunnel", "interactive">>,
     <<"direct", "interactive">>, <<"tunnel", "interactive">>,
     <<"direct", "interactive">>, <<"tunnel", "interactive">>,
     <<"direct", "bulk">>, <<"tunnel", "bulk">> >>

SlotCount == 10

\* The tick of note_tunnel_tick: the cooldown and every deferral age by one.
CooledDown == IF cooldown > 0 THEN cooldown - 1 ELSE 0

Aged(lane) ==
  [i \in DOMAIN lane |-> [lane[i] EXCEPT !.wait = IF @ > 0 THEN @ - 1 ELSE 0]]

AgedQueue == [t \in Transports |-> [c \in Classes |-> Aged(queue[t][c])]]

Runnable(i) ==
  /\ queue[Slots[i][1]][Slots[i][2]] # <<>>
  /\ Slots[i][1] = "tunnel" => CooledDown = 0

\* select_next_lane: the first runnable slot at or after the cursor.
Selected(i) ==
  /\ Runnable(i)
  /\ \A j \in 1..SlotCount :
       Runnable(j) => (i - cursor) % SlotCount <= (j - cursor) % SlotCount

\* Seeded fault: the cursor stays where it is.
MutantStuckCursor(i) == i

NextCursor(i) == (i % SlotCount) + 1

IdleTick ==
  /\ workerUp
  /\ \A i \in 1..SlotCount : ~Runnable(i)
  /\ queue' = AgedQueue
  /\ cooldown' = CooledDown
  /\ UNCHANGED <<queuedCount, queuedBytes, cacheVars, cursor, workerVars, live, now>>

\* Seeded fault: the byte budget is not given back.
MutantDequeue(t, c) ==
  /\ queue' = [AgedQueue EXCEPT ![t][c] = Tail(@)]
  /\ queuedCount' = [queuedCount EXCEPT ![t] = @ - 1]
  /\ UNCHANGED queuedBytes

\* The request at the head of the lane leaves it.
Dequeue(t, c) ==
  /\ queue' = [AgedQueue EXCEPT ![t][c] = Tail(@)]
  /\ queuedCount' = [queuedCount EXCEPT ![t] = @ - 1]
  /\ queuedBytes' = [queuedBytes EXCEPT ![t] = @ - Head(queue[t][c]).env.bytes]

\* Seeded fault: the deadline is looked at after the dispatch.
MutantRunDirect(e) ==
  \/ Expired(e) /\ FinishOne(e, "expired", TRUE)
  \/ ~Expired(e) /\ \E s \in {"completed", "outcome_unknown"} : FinishOne(e, s, TRUE)

\* execute_direct: a late command is not dispatched; a dispatch that throws
\* leaves its outcome unknown.  A command that was executed is completed, whatever
\* its own verdict (the code says failed when that is bad).
RunDirect(e) ==
  \/ Expired(e) /\ FinishOne(e, "expired", FALSE)
  \/ ~Expired(e) /\ \E s \in {"completed", "outcome_unknown"} : FinishOne(e, s, TRUE)

ServeDirect(i) ==
  LET c == Slots[i][2]
  IN  /\ workerUp /\ Slots[i][1] = "direct"
      /\ cursor' = NextCursor(i) /\ Selected(i)
      /\ Dequeue("direct", c)
      /\ RunDirect(Head(queue["direct"][c]).env)
      /\ cooldown' = CooledDown
      /\ UNCHANGED <<workerVars, live, now>>

\* requeue: back to the tail of its lane, accepted as before.
Requeue(c, wait) ==
  /\ queue' = [AgedQueue EXCEPT !["tunnel"][c] =
       Append(Tail(@), [Head(@) EXCEPT !.wait = wait])]
  /\ UNCHANGED <<queuedCount, queuedBytes, cacheVars>>

\* The ready request e is executed, unless the deadline passes or the session
\* changes under the probe, the ack cannot be sent or the drain fails first.
DispatchTunnel(e) ==
  \/ \E s \in {"rejected", "expired"} : FinishOne(e, s, FALSE)
  \/ \E s \in {"injected", "rejected", "outcome_unknown"} : FinishOne(e, s, TRUE)

\* drain_once of the head of a tunnel lane.
DrainTunnel(c) ==
  LET r == Head(Aged(queue["tunnel"][c]))
  IN  \/ /\ r.wait > 0 /\ ~Expired(r.env)
         /\ Requeue(c, r.wait)
      \/ /\ Expired(r.env)
         /\ Dequeue("tunnel", c) /\ FinishOne(r.env, "expired", FALSE)
      \/ /\ r.wait = 0 /\ ~Expired(r.env) /\ ~Live(r.env)
         /\ Dequeue("tunnel", c) /\ FinishOne(r.env, "rejected", FALSE)
      \/ /\ r.wait = 0 /\ ~Expired(r.env) /\ Live(r.env)
         /\ \E wait \in RetryTicks : Requeue(c, wait)
      \/ /\ r.wait = 0 /\ ~Expired(r.env) /\ Live(r.env)
         /\ Dequeue("tunnel", c) /\ DispatchTunnel(r.env)

ServeTunnel(i) ==
  /\ workerUp /\ Slots[i][1] = "tunnel"
  /\ cursor' = NextCursor(i) /\ Selected(i)
  /\ DrainTunnel(Slots[i][2])
  /\ cooldown' = CooldownTicks
  /\ UNCHANGED <<workerVars, live, now>>

ExecuteOne == IdleTick \/ \E i \in 1..SlotCount : ServeDirect(i) \/ ServeTunnel(i)

-----------------------------------------------------------------------------
(* What happens around the pump.                                            *)

\* publish_player_cache: readiness is synchronised with a player snapshot and
\* the deferred requests of sessions listed with both paths are woken.
Sync ==
  \E listed \in SUBSET Sessions : \E resolved \in SUBSET listed :
    LET woken(r) == r.wait > 0 /\ r.env.session \in resolved
        wake(lane) == [i \in DOMAIN lane |->
                         IF woken(lane[i]) THEN [lane[i] EXCEPT !.wait = 0] ELSE lane[i]]
        anyWoken == \E c \in Classes : \E i \in DOMAIN queue["tunnel"][c] :
                      woken(queue["tunnel"][c][i])
    IN  /\ live' = listed
        /\ queue' = [queue EXCEPT !["tunnel"] = [c \in Classes |-> wake(@[c])]]
        /\ cooldown' = IF anyWoken THEN 0 ELSE cooldown
        /\ UNCHANGED <<queuedCount, queuedBytes, cacheVars, cursor, workerVars, now>>

\* A pump error: fail_closed ends every queued request of both transports.
FailClosed ==
  LET envs(lane) == [i \in DOMAIN lane |-> lane[i].env]
      batch == [t \in Transports |->
                  envs(queue[t]["interactive"]) \o envs(queue[t]["bulk"])]
  IN  /\ workerUp /\ losses < MaxLosses
      /\ Finish(batch, "rejected", FALSE)
      /\ queue' = [t \in Transports |-> [c \in Classes |-> <<>>]]
      /\ queuedCount' = [t \in Transports |-> 0]
      /\ queuedBytes' = [t \in Transports |-> 0]
      /\ workerUp' = FALSE /\ losses' = losses + 1
      /\ UNCHANGED <<paceVars, live, now>>

\* The successor link is refused or never runs: the queues stay as they are.
ChainLost ==
  /\ workerUp /\ losses < MaxLosses
  /\ workerUp' = FALSE /\ losses' = losses + 1
  /\ UNCHANGED <<queueVars, cacheVars, paceVars, live, now>>

\* The watchdog starts a new chain.
Restart ==
  /\ ~workerUp /\ workerUp' = TRUE
  /\ UNCHANGED <<queueVars, cacheVars, paceVars, losses, live, now>>

AdvanceClock ==
  /\ now < MaxTime /\ now' = now + 1
  /\ UNCHANGED <<queueVars, cacheVars, paceVars, workerVars, live>>

Ingress == \E e \in Envelopes : AdmitDirect(e) \/ RejectDirect(e) \/ AdmitTunnel(e)

Next == Ingress \/ ExecuteOne \/ Sync \/ FailClosed \/ ChainLost \/ Restart \/ AdvanceClock

Spec == Init /\ [][Next]_vars

\* The pump runs every few frames while it is up, the watchdog polls on a
\* chain of its own, and time passes.
FairSpec == Spec /\ WF_vars(ExecuteOne) /\ WF_vars(Restart) /\ WF_vars(AdvanceClock)

-----------------------------------------------------------------------------
(* Properties.                                                              *)

\* The bytes of the requests waiting in a lane.
BytesIn(lane) ==
  LET sum[n \in 0..Len(lane)] == IF n = 0 THEN 0 ELSE sum[n - 1] + lane[n].env.bytes
  IN  sum[Len(lane)]

\* Every variable has the shape of the tables it stands for.
TypeOK ==
  /\ queue \in [Transports -> [Classes -> Seq(Request)]]
  /\ queuedCount \in [Transports -> Nat]
  /\ queuedBytes \in [Transports -> Nat]
  /\ active \in [Transports -> [Ids -> Envelopes \cup {NoEnvelope}]]
  /\ activeKey \in [Keys -> Ids \cup {NoId}]
  /\ completed \in [Transports -> [Ids -> Result \cup {NoResult}]]
  /\ completedKey \in [Keys -> Ids \cup {NoId}]
  /\ order \in [Transports -> Seq(Ids)]
  /\ cursor \in 1..SlotCount
  /\ cooldown \in Nat
  /\ live \subseteq Sessions
  /\ workerUp \in BOOLEAN
  /\ losses \in Nat
  /\ now \in Nat
  /\ ran \in [Transports -> [Ids -> Nat]]

\* The shared budgets hold with the counters the code keeps by hand: each
\* counter equals what is really queued, through dequeues, requeues and drains.
Bounded ==
  /\ \A t \in Transports :
       /\ queuedCount[t] = Len(queue[t]["interactive"]) + Len(queue[t]["bulk"])
       /\ queuedBytes[t] = BytesIn(queue[t]["interactive"]) + BytesIn(queue[t]["bulk"])
       /\ queuedCount[t] <= MaxTransport[t]
       /\ \A c \in Classes : Len(queue[t][c]) <= MaxLane[t][c]
  /\ TotalDepth <= MaxQueue /\ TotalBytes <= MaxBytes
  /\ queuedBytes["tunnel"] <= MaxTunnelBytes

\* Accepted work has exactly one home: an id is active exactly when one queued
\* request carries it, and it is never both active and already answered.
OneHome ==
  \A t \in Transports :
    /\ \A c \in Classes : \A i \in DOMAIN queue[t][c] :
         LET e == queue[t][c][i].env
         IN  /\ active[t][e.id] = e /\ e.transport = t /\ e.class = c
             /\ \A j \in DOMAIN queue[t][c] : queue[t][c][j].env.id = e.id => i = j
    /\ \A id \in Ids : active[t][id] # NoEnvelope =>
         LET e == active[t][id]
         IN  /\ e.id = id /\ completed[t][id] = NoResult
             /\ \E i \in DOMAIN queue[t][e.class] : queue[t][e.class][i].env = e

\* The derived tables agree with the id tables: a key names at most one request,
\* active or remembered, and the eviction order lists exactly the remembered
\* ids, each once, within the retention.
CachesCoherent ==
  /\ \A k \in Keys, id \in Ids :
       /\ activeKey[k] = id <=>
            active["tunnel"][id] # NoEnvelope /\ active["tunnel"][id].key = k
       /\ completedKey[k] = id <=>
            completed["tunnel"][id] # NoResult /\ completed["tunnel"][id].env.key = k
       /\ activeKey[k] = id => completedKey[k] = NoId
  /\ \A t \in Transports :
       /\ ToSet(order[t]) = {id \in Ids : completed[t][id] # NoResult}
       /\ IsInjective(order[t])
       /\ Len(order[t]) <= Retention[t]

\* No request is executed twice while its id is remembered, and no two ids
\* sharing an idempotency key are both executed while both are remembered.
AtMostOnce ==
  /\ \A t \in Transports, id \in Ids :
       /\ ran[t][id] <= 1
       /\ ran[t][id] = 1 => completed[t][id] # NoResult
  /\ \A i, j \in Ids : \A k \in Keys :
       /\ ran["tunnel"][i] = 1 /\ completed["tunnel"][i].env.key = k
       /\ ran["tunnel"][j] = 1 /\ completed["tunnel"][j].env.key = k
       => i = j

\* A replay never lies about execution: a success was executed once, an
\* expiry never was.
HonestResults ==
  \A t \in Transports, id \in Ids : completed[t][id] # NoResult =>
    /\ completed[t][id].state \in {"completed", "injected", "outcome_unknown"}
         => ran[t][id] = 1
    /\ completed[t][id].state = "expired" => ran[t][id] = 0

\* Accepted work never vanishes: an active request stays active until the step
\* that remembers a result of its own envelope.  Only a pump failure, which
\* answers the whole queue at once, may end more requests than the cache keeps.
\* And a remembered result is replayed as it is until it is forgotten.
AnswersStand ==
  [][\A t \in Transports, id \in Ids :
       /\ active[t][id] # NoEnvelope /\ active'[t][id] # active[t][id] =>
            \/ completed'[t][id] # NoResult /\ completed'[t][id].env = active[t][id]
            \/ workerUp /\ ~workerUp' /\ active'[t][id] = NoEnvelope
       /\ completed[t][id] # NoResult =>
            completed'[t][id] \in {completed[t][id], NoResult}]_vars

\* Where a request may wait: the lanes of the ids that some envelope uses.
Places ==
  {[transport |-> e.transport, class |-> e.class, id |-> e.id] : e \in Envelopes \ Malformed}
Waits(p) ==
  LET e == active[p.transport][p.id] IN e # NoEnvelope /\ e.class = p.class

\* A probe has just put the request off.  Its deadline is past the bound of the
\* clock, so that this can go on for ever.
JustDeferred(p) ==
  LET lane == queue[p.transport][p.class]
  IN  \E i \in DOMAIN lane :
        lane[i].env.id = p.id /\ lane[i].env.deadline > MaxTime /\ lane[i].wait \in RetryTicks

\* A lane has requests again and again; the other class has, on both transports.
Steady(t, c) == []<>(queue[t][c] # <<>>)
Crowded(p) ==
  p.transport = "tunnel" /\ \E c \in Classes \ {p.class} : Steady("tunnel", c) /\ Steady("direct", c)

\* No accepted request is forgotten, whatever the load, the cooldown, the deferrals
\* and the pump restarts: it is answered, or looked at and put off until its
\* deadline.  The cooldown makes one exception.  A tunnel slot that comes round
\* while it runs is passed over, so a tunnel request may be passed over for ever,
\* its deadline too, while the other class is steady on both transports; a lighter
\* load cannot do that.
Answered ==
  \A p \in Places : (Waits(p) ~> ~Waits(p) \/ JustDeferred(p)) \/ Crowded(p)

-----------------------------------------------------------------------------
(* The scheduler implements the abstract delivery of each request name.     *)

StatusOf(t, id) ==
  IF active[t][id] # NoEnvelope THEN "accepted"
  ELSE IF completed[t][id] = NoResult THEN "unknown"
  ELSE IF ran[t][id] > 0 THEN "executed" ELSE "refused"

Abstract == INSTANCE RequestDelivery
  WITH Requests <- Transports \X Ids,
       status <- [r \in Transports \X Ids |-> StatusOf(r[1], r[2])]

\* Queues, lanes, deadlines, deferrals, evictions and pump failures never let
\* a request run unaccepted, twice while remembered, or two in one step.
ImplementsRequestDelivery == Abstract!Spec
=============================================================================
