---------------------------- MODULE MotionBroker ----------------------------
(***************************************************************************)
(* The player-motion feed of the Omegga socket broker (the motion half of  *)
(* bmfSocketBridge.ts, with motionLatestValueLane.ts).  One native client  *)
(* advertises a schema generation and streams samples; companion clients   *)
(* hold timed leases on one player each.  A sample is written to a         *)
(* companion at once, or parked in its one-place lane until the rate limit *)
(* (a timer) or the socket buffer (a drain event) lets it out.             *)
(* Clock readings are kept as the time left or the time gone by.           *)
(***************************************************************************)
EXTENDS Integers

CONSTANTS
  Companions,    \* companion sockets
  Natives,       \* native sockets that may advertise a schema
  Players,       \* player ids
  Generations,   \* schema generations
  LeaseTimes,    \* accepted lease lengths
  MaxLease,      \* MAX_MOTION_LEASE_MS
  Intervals,     \* accepted times between two forwarded samples
  MaxInterval,   \* the interval of MIN_MOTION_RATE_HZ
  MaxSamples,    \* bound on the samples that arrive
  None           \* no player, no generation, no source, no sample

ASSUME NoneAssumption == None \notin Players \cup Generations \cup Natives
ASSUME TimeAssumption ==
  /\ MaxLease \in Nat /\ LeaseTimes \subseteq 1..MaxLease
  /\ MaxInterval \in Nat /\ Intervals \subseteq 1..MaxInterval /\ MaxInterval \in Intervals
  /\ MaxSamples \in Nat

VARIABLES
  schema,     \* generation of #motionSchema, or None
  source,     \* #motionSchemaSource
  client,     \* companion -> its ClientState
  forwarded,  \* history: companion -> the last sample written to its socket
  arrived     \* history: the samples that have arrived

vars == <<schema, source, client, forwarded, arrived>>

NoLease == -1   \* motionLeaseExpiresAtMs = 0
NoTimer == -1   \* motionRateTimer = null

Sample == [number : 1..MaxSamples, player : Players, generation : Generations]

Client ==
  [attached : BOOLEAN,        \* an authenticated companion of #clients
   destroyed : BOOLEAN,       \* socket.destroyed, its close event to come
   needDrain : BOOLEAN,       \* socket.writableNeedDrain
   player : Players \cup {None},
   lease : {NoLease} \cup 0..MaxLease,   \* time left, 0 once over
   interval : Intervals,
   since : 0..MaxInterval, \* time since motionLastForwardedAtMs, capped
   timer : {NoTimer} \cup 0..MaxInterval,    \* time left, 0 once due
   backpressured : BOOLEAN,   \* motionLane.#backpressured
   parked : Sample \cup {None}] \* motionLane.#pendingPayload

FreshClient ==
  [attached |-> FALSE, destroyed |-> FALSE, needDrain |-> FALSE, player |-> None,
   lease |-> NoLease, interval |-> MaxInterval, since |-> MaxInterval,
   timer |-> NoTimer, backpressured |-> FALSE, parked |-> None]

Init ==
  /\ schema = None /\ source = None
  /\ client = [c \in Companions |-> FreshClient]
  /\ forwarded = [c \in Companions |-> None]
  /\ arrived = 0

-----------------------------------------------------------------------------
(* Steps of one client's state.                                             *)

ClearLane(m) == [m EXCEPT !.backpressured = FALSE, !.parked = None]

\* Seeded fault: the rate timer is cancelled but the lane keeps its sample.
MutantCleared(m) ==
  [m EXCEPT !.timer = NoTimer, !.lease = NoLease, !.player = None,
            !.interval = MaxInterval, !.since = MaxInterval]

\* clearCompanionMotionClient
Cleared(m) ==
  [ClearLane(m) EXCEPT !.timer = NoTimer, !.lease = NoLease, !.player = None,
                       !.interval = MaxInterval, !.since = MaxInterval]

RateDelay(m) == IF m.since < m.interval THEN m.interval - m.since ELSE 0

\* scheduleMotionLaneFlush: an armed timer is left alone.
Scheduled(m) == IF m.timer = NoTimer THEN [m EXCEPT !.timer = RateDelay(m)] ELSE m

\* Seeded fault: the lane takes any write for a full buffer.
MutantWritten(m, full) ==
  [m EXCEPT !.needDrain = full, !.backpressured = TRUE, !.since = 0]

\* socket.write of a sample; full says whether it filled the socket buffer.
Written(m, full) ==
  [m EXCEPT !.needDrain = full, !.backpressured = full, !.since = 0]

\* Seeded fault: a sample overtakes the one parked in the lane.
MutantMustPark(m) == m.backpressured \/ m.needDrain \/ RateDelay(m) > 0

MustPark(m) ==
  m.backpressured \/ m.needDrain \/ RateDelay(m) > 0 \/ m.parked # None

Parked(m, s) ==
  IF RateDelay(m) > 0 THEN Scheduled([m EXCEPT !.parked = s])
                      ELSE [m EXCEPT !.parked = s]

Listens(m, s) == m.attached /\ ~m.destroyed /\ m.player = s.player

\* sendMotionEvent, hasActiveMotionLease and offerMotionPayload for one client.
Offered(m, s, full) ==
  CASE ~Listens(m, s) -> m
    [] Listens(m, s) /\ m.lease <= 0 -> Cleared(m)
    [] Listens(m, s) /\ m.lease > 0 ->
         IF MustPark(m) THEN Parked(m, s) ELSE Written(m, full)

Sends(m, s) == Listens(m, s) /\ m.lease > 0 /\ ~MustPark(m)

\* flushMotionLane hands the parked sample to the socket.
Flushes(m) ==
  /\ schema # None /\ m.lease > 0
  /\ ~m.destroyed /\ ~m.needDrain
  /\ RateDelay(m) = 0

\* Seeded fault: a flush that comes too early for the rate is just dropped.
MutantFlushed(m, full) ==
  CASE schema = None \/ m.lease = NoLease -> ClearLane(m)
    [] schema # None /\ (m.lease = 0 \/ (m.lease > 0 /\ m.destroyed)) -> Cleared(m)
    [] Flushes(m) -> IF m.parked = None THEN [m EXCEPT !.backpressured = FALSE]
                                        ELSE [Written(m, full) EXCEPT !.parked = None]
    [] OTHER -> m

\* flushMotionLane
Flushed(m, full) ==
  CASE schema = None \/ m.lease = NoLease -> ClearLane(m)
    [] schema # None /\ (m.lease = 0 \/ (m.lease > 0 /\ m.destroyed)) -> Cleared(m)
    [] Flushes(m) -> IF m.parked = None THEN [m EXCEPT !.backpressured = FALSE]
                                        ELSE [Written(m, full) EXCEPT !.parked = None]
    [] OTHER -> IF m.needDrain THEN m ELSE Scheduled(m)

-----------------------------------------------------------------------------
(* The schema and its native source.                                        *)

\* publishMotionSchema writes to every companion and may fill some sockets.
Published(clients) ==
  \E full \in SUBSET {c \in Companions : clients[c].attached /\ ~clients[c].destroyed} :
    client' = [c \in Companions |->
                 [clients[c] EXCEPT !.needDrain = @ \/ c \in full]]

AllCleared == [c \in Companions |-> Cleared(client[c])]

NothingForwarded == UNCHANGED <<forwarded, arrived>>

SetMotionSchemaUnavailable ==
  /\ schema' = None /\ source' = None
  /\ Published(AllCleared)
  /\ NothingForwarded

\* Seeded fault: a new generation leaves the companions' leases alone.
MutantAfterAdvertisement(n, g) == client

AfterAdvertisement(n, g) ==
  IF schema = g /\ source = n THEN client ELSE AllCleared

\* handleMotionSchemaAdvertisement: a second source is ignored.
Advertise(n, g) ==
  /\ source \in {None, n}
  /\ schema' = g /\ source' = n
  /\ Published(AfterAdvertisement(n, g))
  /\ NothingForwarded

\* The source withdraws its schema, or its socket is removed.
Withdraw(n) == source = n /\ SetMotionSchemaUnavailable

-----------------------------------------------------------------------------
(* Companions.                                                              *)

\* A reply (hello.ack, subscribe.ack, pong) is written to a companion.
Replied(c, m) ==
  /\ \E full \in BOOLEAN : client' = [client EXCEPT ![c] = [m EXCEPT !.needDrain = @ \/ full]]
  /\ NothingForwarded
  /\ UNCHANGED <<schema, source>>

Active(c) == client[c].attached /\ ~client[c].destroyed

\* hello of a companion on a new socket.
Connect(c) ==
  /\ ~client[c].attached
  /\ \E full \in BOOLEAN :
       client' = [client EXCEPT ![c] = [FreshClient EXCEPT !.attached = TRUE, !.needDrain = full]]
  /\ forwarded' = [forwarded EXCEPT ![c] = None]
  /\ UNCHANGED <<schema, source, arrived>>

\* Seeded fault: changing the player keeps what the lane holds.
MutantSubscribed(m, p, lease, interval) ==
  [m EXCEPT !.player = p, !.lease = lease, !.interval = interval]

\* The accepted branch of motion.subscribe: another player clears the client.
Subscribed(m, p, lease, interval) ==
  [(IF m.player \in {None, p} THEN m ELSE Cleared(m))
     EXCEPT !.player = p, !.lease = lease, !.interval = interval]

Subscribe(c, p) ==
  /\ Active(c)
  /\ IF schema = None
       THEN Replied(c, Cleared(client[c]))
       ELSE \E lease \in LeaseTimes, interval \in Intervals :
              Replied(c, Subscribed(client[c], p, lease, interval))

\* motion.unsubscribe, and a subscription refused for its player id or version.
Unsubscribe(c) == Active(c) /\ Replied(c, Cleared(client[c]))

Ping(c) == Active(c) /\ Replied(c, client[c])

\* The socket is destroyed; its close event removes it later.
Break(c) ==
  /\ Active(c)
  /\ client' = [client EXCEPT ![c].destroyed = TRUE]
  /\ NothingForwarded
  /\ UNCHANGED <<schema, source>>

\* removeClient, by the close event.
Remove(c) ==
  /\ client[c].attached /\ client[c].destroyed
  /\ client' = [client EXCEPT ![c] = FreshClient]
  /\ NothingForwarded
  /\ UNCHANGED <<schema, source>>

\* stop(): every client and the schema are gone.
Stop ==
  /\ schema' = None /\ source' = None
  /\ client' = [c \in Companions |-> FreshClient]
  /\ NothingForwarded

-----------------------------------------------------------------------------
(* Samples and time.                                                        *)

\* Seeded fault: the sample's generation is not compared with the schema's.
MutantMatchesActiveSchema(g) == schema # None

MatchesActiveSchema(g) == schema = g

\* A motion event of a native: it is offered to every companion, or dropped.
SampleArrives(p, g) ==
  /\ arrived < MaxSamples
  /\ arrived' = arrived + 1
  /\ LET s == [number |-> arrived + 1, player |-> p, generation |-> g]
         sent == {c \in Companions : Sends(client[c], s)} IN
       IF MatchesActiveSchema(g)
         THEN /\ \E full \in SUBSET sent :
                   client' = [c \in Companions |-> Offered(client[c], s, c \in full)]
              /\ forwarded' = [c \in Companions |-> IF c \in sent THEN s ELSE forwarded[c]]
         ELSE UNCHANGED <<client, forwarded>>
  /\ UNCHANGED <<schema, source>>

Flush(c, m) ==
  /\ \E full \in IF Flushes(m) /\ m.parked # None THEN BOOLEAN ELSE {FALSE} :
       client' = [client EXCEPT ![c] = Flushed(m, full)]
  /\ forwarded' = [forwarded EXCEPT ![c] =
       IF Flushes(m) /\ m.parked # None THEN m.parked ELSE @]
  /\ UNCHANGED <<schema, source, arrived>>

TimerFires(c) == client[c].timer = 0 /\ Flush(c, [client[c] EXCEPT !.timer = NoTimer])

\* The companion has read what was written: the socket emits drain.
Drain(c) == Active(c) /\ client[c].needDrain /\ Flush(c, [client[c] EXCEPT !.needDrain = FALSE])

Elapsed(t) == IF t > 0 THEN t - 1 ELSE t

Tick ==
  /\ client' = [c \in Companions |->
       [client[c] EXCEPT !.lease = Elapsed(@), !.timer = Elapsed(@),
                         !.since = IF @ < MaxInterval THEN @ + 1 ELSE @]]
  /\ client' # client
  /\ NothingForwarded
  /\ UNCHANGED <<schema, source>>

ClientStep(c) ==
  \/ Connect(c) \/ Break(c) \/ Remove(c)
  \/ Unsubscribe(c) \/ Ping(c) \/ (\E p \in Players : Subscribe(c, p))
  \/ TimerFires(c) \/ Drain(c)

Next ==
  \/ \E c \in Companions : ClientStep(c)
  \/ \E n \in Natives : Withdraw(n) \/ (\E g \in Generations : Advertise(n, g))
  \/ \E p \in Players, g \in Generations : SampleArrives(p, g)
  \/ Stop
  \/ Tick

Spec == Init /\ [][Next]_vars

\* Time passes, due timers fire, a closed socket is removed, and a connected
\* companion goes on reading its socket.
FairSpec ==
  /\ Spec /\ WF_vars(Tick)
  /\ \A c \in Companions : WF_vars(TimerFires(c)) /\ WF_vars(Drain(c)) /\ WF_vars(Remove(c))

-----------------------------------------------------------------------------
(* Properties.                                                              *)

\* Every variable has the shape the broker's fields have.
TypeOK ==
  /\ schema \in Generations \cup {None} /\ source \in Natives \cup {None}
  /\ client \in [Companions -> Client]
  /\ forwarded \in [Companions -> Sample \cup {None}]
  /\ arrived \in 0..MaxSamples

\* Leases, lanes and timers never outlive what they stand on: a lease needs a
\* schema and a player, a parked sample or a timer needs a lease, and the
\* parked sample is of the leased player and the advertised generation
\* (schema changes, withdrawals and player changes clear the client).
LaneIsCurrent ==
  \A c \in Companions : LET m == client[c] IN
    /\ (m.lease = NoLease) <=> (m.player = None)
    /\ m.lease # NoLease => schema # None /\ m.attached
    /\ m.timer # NoTimer => m.lease # NoLease
    /\ m.parked # None =>
         m.lease # NoLease /\ m.parked.player = m.player /\ m.parked.generation = schema

\* No lost wakeup: whatever interleaving of writes, drains, timers and rate
\* changes parked a sample, something is pending that will flush it: the rate
\* timer, the drain event of a full socket, or the removal of a dead one.
NoLostWakeup ==
  \A c \in Companions : LET m == client[c] IN
    m.parked # None => m.timer # NoTimer \/ m.needDrain \/ m.destroyed

\* A sample reaches a companion only while a lease on its player is unexpired,
\* in the generation now advertised, and never after a newer one.  The lease is
\* the one of the moment (hasActiveMotionLease): whether it is also the lease
\* the sample was queued under is NoLeakIntoRenewal of MotionRenewal.
ForwardsScoped ==
  [][\A c \in Companions : forwarded'[c] \notin {forwarded[c], None} =>
       /\ client[c].lease > 0
       /\ forwarded'[c].player = client[c].player
       /\ forwarded'[c].generation = schema
       /\ forwarded[c] # None => forwarded[c].number < forwarded'[c].number]_vars

\* A sample never stays parked: it is forwarded, replaced or dropped.
ParkedLeaves ==
  \A c \in Companions : \A k \in 1..MaxSamples :
    LET Holds == client[c].parked # None /\ client[c].parked.number = k
    IN  Holds ~> ~Holds
=============================================================================
