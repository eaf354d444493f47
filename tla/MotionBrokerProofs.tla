-------------------------- MODULE MotionBrokerProofs --------------------------
(***************************************************************************)
(* The motion feed's invariants, for any companions, natives, players,     *)
(* generations, leases and rates.  The inductive invariant IInv says of    *)
(* every client, against the advertised generation, that it is Good: its   *)
(* lane, lease and timer are current, and a lane that waits has something  *)
(* pending that will flush it.  A lane waits also when it holds nothing    *)
(* but is backpressured: that is the strengthening NoLostWakeup needs.     *)
(* Numbers orders what was forwarded before what is parked.                *)
(***************************************************************************)
EXTENDS MotionBroker, TLAPS

\* LaneIsCurrent of one client, against generation g.
Current(m, g) ==
  /\ m \in Client
  /\ (m.lease = NoLease) <=> (m.player = None)
  /\ m.lease # NoLease => g # None /\ m.attached
  /\ m.timer # NoTimer => m.lease # NoLease
  /\ m.parked # None =>
       m.lease # NoLease /\ m.parked.player = m.player /\ m.parked.generation = g

Waits(m) == m.parked # None \/ m.backpressured

Wakes(m) == m.timer # NoTimer \/ m.needDrain \/ m.destroyed

Good(m, g) == Current(m, g) /\ (Waits(m) => Wakes(m))

Elapse(m) ==
  [m EXCEPT !.lease = Elapsed(@), !.timer = Elapsed(@),
            !.since = IF @ < MaxInterval THEN @ + 1 ELSE @]

LEMMA Times ==
  /\ MaxInterval \in 0..MaxInterval /\ MaxInterval \in Intervals /\ 0 \in 0..MaxInterval
  /\ \A lease \in LeaseTimes : lease \in 0..MaxLease /\ lease > 0
BY TimeAssumption

LEMMA FreshGood == ASSUME NEW g PROVE Good(FreshClient, g)
BY Times DEF Good, Current, Waits, Wakes, FreshClient, Client, NoLease, NoTimer

LEMMA ClearLaneFields ==
  ASSUME NEW m \in Client
  PROVE  /\ ClearLane(m) \in Client
         /\ ~Waits(ClearLane(m))
         /\ \A g : Current(m, g) => Current(ClearLane(m), g)
BY DEF ClearLane, Client, Waits, Current

LEMMA ClearedFields ==
  ASSUME NEW m \in Client
  PROVE  /\ Cleared(m) \in Client
         /\ Cleared(m).attached = m.attached /\ Cleared(m).player = None
         /\ \A g : Good(Cleared(m), g)
<1> DEFINE n == ClearLane(m)
<1>1. n \in Client /\ n.attached = m.attached /\ n.parked = None /\ ~n.backpressured
  BY DEF ClearLane, Client
<1>2. Cleared(m) = [n EXCEPT !.timer = NoTimer, !.lease = NoLease, !.player = None,
                             !.interval = MaxInterval, !.since = MaxInterval]
  BY DEF Cleared
<1> HIDE DEF n
<1>3. Cleared(m) \in Client
  BY <1>1, <1>2, Times DEF Client
<1>4. /\ Cleared(m).attached = m.attached /\ Cleared(m).parked = None
      /\ ~Cleared(m).backpressured /\ Cleared(m).player = None
      /\ Cleared(m).lease = NoLease /\ Cleared(m).timer = NoTimer
  BY <1>1, <1>2 DEF Client
<1> QED
  BY <1>3, <1>4 DEF Good, Current, Waits

\* A write to the companion's socket at most fills its buffer.
LEMMA FilledGood ==
  ASSUME NEW g, NEW m, Good(m, g), NEW b \in BOOLEAN
  PROVE  Good([m EXCEPT !.needDrain = @ \/ b], g)
BY DEF Good, Current, Waits, Wakes, Client

LEMMA SubscribedGood ==
  ASSUME NEW g, g # None, NEW m, Good(m, g), m.attached,
         NEW p \in Players, NEW lease \in LeaseTimes, NEW interval \in Intervals
  PROVE  Good(Subscribed(m, p, lease, interval), g)
<1> DEFINE k == IF m.player \in {None, p} THEN m ELSE Cleared(m)
<1>1. m \in Client
  BY DEF Good, Current
<1>2. Good(k, g) /\ k.attached /\ k.player \in {None, p}
  <2>1. CASE m.player \in {None, p}
    BY <2>1
  <2>2. CASE m.player \notin {None, p}
    BY <1>1, <2>2, ClearedFields
  <2> QED
    BY <2>1, <2>2
<1>3. p # None /\ lease \in 0..MaxLease /\ lease > 0
  BY NoneAssumption, Times
<1>4. Subscribed(m, p, lease, interval) =
        [k EXCEPT !.player = p, !.lease = lease, !.interval = interval]
  BY DEF Subscribed
<1> DEFINE new == Subscribed(m, p, lease, interval)
<1> HIDE DEF k
<1>5. k \in Client
  BY <1>2 DEF Good, Current
<1>6. new \in Client /\ new.lease # NoLease
  <2>1. lease \in {NoLease} \cup 0..MaxLease /\ lease # NoLease /\ p \in Players \cup {None}
    BY <1>3 DEF NoLease
  <2> QED
    BY <1>4, <1>5, <2>1 DEF Client
<1>7. /\ new.player = p /\ new.attached = k.attached /\ new.timer = k.timer
      /\ new.parked = k.parked /\ new.backpressured = k.backpressured
      /\ new.needDrain = k.needDrain /\ new.destroyed = k.destroyed
  BY <1>4, <1>5 DEF Client
<1>8. k.parked # None => k.player = p
  BY <1>2 DEF Good, Current
<1> HIDE DEF new
<1>9. Good(new, g)
  BY <1>2, <1>3, <1>6, <1>7, <1>8 DEF Good, Current, Waits, Wakes
<1> QED
  BY <1>9 DEF new

LEMMA RateDelayType ==
  ASSUME NEW m \in Client
  PROVE  RateDelay(m) \in 0..MaxInterval
<1>1. m.since \in 0..MaxInterval /\ m.interval \in Intervals
  BY DEF Client
<1>2. \A i \in Intervals, t \in 0..MaxInterval :
        (IF t < i THEN i - t ELSE 0) \in 0..MaxInterval
  BY TimeAssumption
<1> QED
  BY <1>1, <1>2 DEF RateDelay

LEMMA ScheduledFields ==
  ASSUME NEW m \in Client, RateDelay(m) > 0
  PROVE  /\ Scheduled(m) \in Client /\ Scheduled(m).timer # NoTimer
         /\ \A g : m.lease # NoLease /\ Current(m, g) => Current(Scheduled(m), g)
<1>1. RateDelay(m) \in 0..MaxInterval /\ RateDelay(m) # NoTimer
  BY RateDelayType DEF NoTimer
<1> DEFINE d == RateDelay(m)
<1>2. Scheduled(m) = IF m.timer = NoTimer THEN [m EXCEPT !.timer = d] ELSE m
  BY DEF Scheduled
<1> HIDE DEF d
<1>3. d \in {NoTimer} \cup 0..MaxInterval /\ d # NoTimer
  BY <1>1 DEF d
<1>4. Scheduled(m) \in Client /\ Scheduled(m).timer # NoTimer
  BY <1>2, <1>3 DEF Client
<1>5. /\ Scheduled(m).lease = m.lease /\ Scheduled(m).player = m.player
      /\ Scheduled(m).attached = m.attached /\ Scheduled(m).parked = m.parked
  BY <1>2, <1>3 DEF Client
<1> QED
  BY <1>4, <1>5 DEF Current

LEMMA OfferedGood ==
  ASSUME NEW g, NEW m, Good(m, g), NEW s \in Sample, s.generation = g, NEW full \in BOOLEAN
  PROVE  Good(Offered(m, s, full), g)
<1>1. m \in Client /\ RateDelay(m) \in 0..MaxInterval
  BY RateDelayType DEF Good, Current
<1>2. CASE ~Listens(m, s)
  BY <1>2 DEF Offered
<1>3. CASE Listens(m, s) /\ m.lease <= 0
  <2>1. ~(m.lease > 0)
    BY <1>1, <1>3 DEF Client, NoLease
  <2>2. Offered(m, s, full) = Cleared(m)
    BY <1>3, <2>1 DEF Offered
  <2> QED
    BY <1>1, <2>2, ClearedFields
<1>4. CASE Listens(m, s) /\ m.lease > 0 /\ ~MustPark(m)
  <2>1. Offered(m, s, full) = Written(m, full) /\ m.parked = None
    BY <1>1, <1>4 DEF Offered, Client, MustPark
  <2> QED
    BY <1>1, <2>1, Times DEF Good, Current, Waits, Wakes, Written, Client
<1>5. CASE Listens(m, s) /\ m.lease > 0 /\ MustPark(m)
  <2>1. Offered(m, s, full) = Parked(m, s)
    BY <1>1, <1>5 DEF Offered, Client
  <2> DEFINE k == [m EXCEPT !.parked = s]
  <2>2. k \in Client /\ RateDelay(k) = RateDelay(m) /\ k.lease # NoLease
    BY <1>1, <1>5 DEF Client, RateDelay, NoLease
  <2>3. Current(k, g) /\ (Wakes(m) => Wakes(k))
    BY <1>1, <1>5 DEF Good, Current, Wakes, Listens, Client, NoLease
  <2>4. CASE RateDelay(m) > 0
    <3>1. Offered(m, s, full) = Scheduled(k)
      BY <2>1, <2>4 DEF Parked
    <3> HIDE DEF k
    <3> QED
      BY <2>2, <2>3, <2>4, <3>1, ScheduledFields DEF Good, Wakes
  <2>5. CASE ~(RateDelay(m) > 0)
    <3>1. Offered(m, s, full) = k /\ (Waits(m) \/ Wakes(m))
      BY <1>5, <2>1, <2>5 DEF Parked, MustPark, Waits, Wakes
    <3> HIDE DEF k
    <3> QED
      BY <2>3, <3>1 DEF Good
  <2> QED
    BY <2>4, <2>5
<1> QED
  BY <1>1, <1>2, <1>3, <1>4, <1>5 DEF Client, NoLease

\* A flush leaves nothing waiting unwoken, even if its trigger was the last wakeup.
LEMMA FlushedGood ==
  ASSUME NEW m, Current(m, schema), NEW full \in BOOLEAN
  PROVE  Good(Flushed(m, full), schema)
<1>1. m \in Client /\ RateDelay(m) \in 0..MaxInterval
  BY RateDelayType DEF Current
<1>2. CASE schema = None \/ m.lease = NoLease
  <2>1. Flushed(m, full) = ClearLane(m)
    BY <1>1, <1>2 DEF Flushed, Flushes, Client, NoLease
  <2> QED
    BY <1>1, <2>1, ClearLaneFields DEF Good
<1>3. CASE schema # None /\ (m.lease = 0 \/ (m.lease > 0 /\ m.destroyed))
  <2>1. Flushed(m, full) = Cleared(m)
    BY <1>1, <1>3 DEF Flushed, Flushes, Client, NoLease
  <2> QED
    BY <1>1, <2>1, ClearedFields
<1>4. CASE Flushes(m)
  <2>1. Flushed(m, full) = IF m.parked = None THEN [m EXCEPT !.backpressured = FALSE]
                           ELSE [Written(m, full) EXCEPT !.parked = None]
    BY <1>1, <1>4 DEF Flushed, Flushes, Client, NoLease
  <2> QED
    BY <1>1, <2>1, Times DEF Good, Current, Waits, Wakes, Written, Client
<1>5. CASE schema # None /\ m.lease > 0 /\ ~m.destroyed /\ ~Flushes(m)
  <2>1. Flushed(m, full) = IF m.needDrain THEN m ELSE Scheduled(m)
    BY <1>1, <1>5 DEF Flushed, Client, NoLease
  <2>2. m.needDrain \/ RateDelay(m) > 0
    BY <1>1, <1>5 DEF Flushes
  <2>3. CASE m.needDrain
    BY <2>1, <2>3 DEF Good, Wakes
  <2>4. CASE ~m.needDrain
    BY <1>1, <1>5, <2>1, <2>2, <2>4, ScheduledFields DEF Good, Wakes, NoLease, Client
  <2> QED
    BY <2>3, <2>4
<1> QED
  BY <1>1, <1>2, <1>3, <1>4, <1>5 DEF Client, NoLease

LEMMA ElapseGood ==
  ASSUME NEW g, NEW m, Good(m, g)
  PROVE  Good(Elapse(m), g)
<1> DEFINE lease == Elapsed(m.lease)
           timer == Elapsed(m.timer)
           since == IF m.since < MaxInterval THEN m.since + 1 ELSE m.since
<1>1. m \in Client
  BY DEF Good, Current
<1>2. /\ lease \in {NoLease} \cup 0..MaxLease /\ (lease = NoLease <=> m.lease = NoLease)
      /\ timer \in {NoTimer} \cup 0..MaxInterval /\ (timer = NoTimer <=> m.timer = NoTimer)
      /\ since \in 0..MaxInterval
  BY <1>1, TimeAssumption DEF Elapsed, Client, NoLease, NoTimer
<1>3. Elapse(m) = [m EXCEPT !.lease = lease, !.timer = timer, !.since = since]
  BY <1>1 DEF Elapse, Client
<1> HIDE DEF lease, timer, since
<1> QED
  BY <1>1, <1>2, <1>3 DEF Good, Current, Waits, Wakes, Client

-----------------------------------------------------------------------------
(* The inductive invariant.                                                 *)

Shape ==
  /\ schema \in Generations \cup {None} /\ source \in Natives \cup {None}
  /\ forwarded \in [Companions -> Sample \cup {None}]
  /\ arrived \in 0..MaxSamples

Clients ==
  /\ client \in [Companions -> Client]
  /\ \A c \in Companions : Good(client[c], schema)

IInv == Shape /\ Clients

LEMMA InitIInv == Init => IInv
<1> SUFFICES ASSUME Init PROVE IInv
  OBVIOUS
<1>1. Shape
  BY TimeAssumption DEF Init, Shape
<1>2. Clients
  BY FreshGood DEF Init, Clients, Good, Current
<1> QED
  BY <1>1, <1>2 DEF IInv

\* Writing the schema to the companions keeps good clients good.
LEMMA PublishedClients ==
  ASSUME NEW clients, NEW g, \A c \in Companions : Good(clients[c], g),
         Published(clients)
  PROVE  /\ client' \in [Companions -> Client]
         /\ \A c \in Companions : Good(client'[c], g)
<1>1. PICK full \in SUBSET {c \in Companions : clients[c].attached /\ ~clients[c].destroyed} :
        client' = [c \in Companions |-> [clients[c] EXCEPT !.needDrain = @ \/ c \in full]]
  BY DEF Published
<1>2. ASSUME NEW c \in Companions PROVE Good(client'[c], g)
  <2>1. (c \in full) \in BOOLEAN
    OBVIOUS
  <2> QED
    BY <1>1, <2>1, FilledGood
<1> QED
  BY <1>1, <1>2 DEF Good, Current

\* So does replacing one client by a good one.
LEMMA OneClient ==
  ASSUME Clients, NEW c \in Companions, NEW m, Good(m, schema),
         client' = [client EXCEPT ![c] = m], schema' = schema
  PROVE  Clients'
<1>1. m \in Client
  BY DEF Good, Current
<1> QED
  BY <1>1 DEF Clients

LEMMA RepliedClients ==
  ASSUME Clients, NEW c \in Companions, NEW m, Good(m, schema), Replied(c, m)
  PROVE  Clients'
<1>1. PICK full \in BOOLEAN :
        client' = [client EXCEPT ![c] = [m EXCEPT !.needDrain = @ \/ full]]
  BY DEF Replied
<1>2. Good([m EXCEPT !.needDrain = @ \/ full], schema)
  BY FilledGood
<1>3. schema' = schema
  BY DEF Replied
<1> QED
  BY <1>1, <1>2, <1>3, OneClient

LEMMA FlushClients ==
  ASSUME Clients, NEW c \in Companions, NEW m, Current(m, schema), Flush(c, m)
  PROVE  Clients'
<1>1. PICK full \in BOOLEAN : client' = [client EXCEPT ![c] = Flushed(m, full)]
  BY DEF Flush
<1>2. schema' = schema
  BY DEF Flush
<1> QED
  BY <1>1, <1>2, FlushedGood, OneClient

LEMMA StepClients == IInv /\ Next => Clients'
<1> SUFFICES ASSUME IInv, Next PROVE Clients'
  OBVIOUS
<1>1. ASSUME NEW c \in Companions PROVE Good(client[c], schema) /\ client[c] \in Client
  BY <1>1 DEF IInv, Clients
<1>2. ASSUME NEW c \in Companions, NEW g PROVE Good(AllCleared[c], g)
  BY <1>1, <1>2, ClearedFields DEF AllCleared
<1>3. SetMotionSchemaUnavailable => Clients'
  BY <1>2, PublishedClients DEF SetMotionSchemaUnavailable, Clients
<1>4. CASE \E c \in Companions : ClientStep(c)
  <2>1. PICK c \in Companions : ClientStep(c)
    BY <1>4
  <2> DEFINE m == client[c]
  <2>2. Good(m, schema) /\ m \in Client
    BY <1>1
  <2>3. CASE Connect(c)
    <3>1. PICK full \in BOOLEAN : client' =
            [client EXCEPT ![c] = [FreshClient EXCEPT !.attached = TRUE, !.needDrain = full]]
      BY <2>3 DEF Connect
    <3>2. Good([FreshClient EXCEPT !.attached = TRUE, !.needDrain = full], schema)
      BY Times DEF Good, Current, Waits, Wakes, FreshClient, Client, NoLease, NoTimer
    <3> QED
      BY <2>3, <3>1, <3>2, OneClient DEF Connect, IInv
  <2>4. CASE Break(c)
    <3>1. Good([m EXCEPT !.destroyed = TRUE], schema)
      BY <2>2 DEF Good, Current, Waits, Wakes, Client
    <3>2. client' = [client EXCEPT ![c] = [m EXCEPT !.destroyed = TRUE]]
      BY <2>4 DEF Break
    <3> QED
      BY <2>4, <3>1, <3>2, OneClient DEF Break, IInv
  <2>5. CASE Remove(c)
    BY <2>5, FreshGood, OneClient DEF Remove, IInv
  <2>6. CASE Unsubscribe(c)
    BY <2>2, <2>6, ClearedFields, RepliedClients DEF Unsubscribe, IInv
  <2>7. CASE Ping(c)
    BY <2>2, <2>7, RepliedClients DEF Ping, IInv
  <2>8. ASSUME NEW p \in Players, Subscribe(c, p) PROVE Clients'
    <3>1. CASE schema = None
      BY <2>2, <2>8, <3>1, ClearedFields, RepliedClients DEF Subscribe, IInv
    <3>2. CASE schema # None
      <4>1. PICK lease \in LeaseTimes, interval \in Intervals :
              Replied(c, Subscribed(m, p, lease, interval))
        BY <2>8, <3>2 DEF Subscribe
      <4>2. Good(Subscribed(m, p, lease, interval), schema)
        BY <2>2, <2>8, <3>2, SubscribedGood DEF Subscribe, Active
      <4> QED
        BY <4>1, <4>2, RepliedClients DEF IInv
    <3> QED
      BY <3>1, <3>2
  <2>9. CASE TimerFires(c)
    <3>1. Current([m EXCEPT !.timer = NoTimer], schema)
      BY <2>2 DEF Good, Current, Client
    <3> QED
      BY <2>9, <3>1, FlushClients DEF TimerFires, IInv
  <2>10. CASE Drain(c)
    <3>1. Current([m EXCEPT !.needDrain = FALSE], schema)
      BY <2>2 DEF Good, Current, Client
    <3> QED
      BY <2>10, <3>1, FlushClients DEF Drain, IInv
  <2> QED
    BY <2>1, <2>3, <2>4, <2>5, <2>6, <2>7, <2>8, <2>9, <2>10 DEF ClientStep
<1>5. ASSUME NEW n \in Natives, Withdraw(n) PROVE Clients'
  BY <1>3, <1>5 DEF Withdraw
<1>6. ASSUME NEW n \in Natives, NEW g \in Generations, Advertise(n, g) PROVE Clients'
  <2>1. schema' = g /\ Published(AfterAdvertisement(n, g))
    BY <1>6 DEF Advertise
  <2>2. ASSUME NEW c \in Companions PROVE Good(AfterAdvertisement(n, g)[c], g)
    BY <1>1, <1>2, <2>2 DEF AfterAdvertisement
  <2> QED
    BY <2>1, <2>2, PublishedClients DEF Clients
<1>7. ASSUME NEW p \in Players, NEW g \in Generations, SampleArrives(p, g) PROVE Clients'
  <2> DEFINE s == [number |-> arrived + 1, player |-> p, generation |-> g]
             sent == {c \in Companions : Sends(client[c], s)}
  <2>1. s \in Sample /\ s.generation = g
    BY <1>7, TimeAssumption DEF SampleArrives, Sample, IInv, Shape
  <2>2. schema' = schema
    BY <1>7 DEF SampleArrives
  <2>3. CASE schema = g
    <3>1. PICK full \in SUBSET sent :
            client' = [c \in Companions |-> Offered(client[c], s, c \in full)]
      BY <1>7, <2>3 DEF SampleArrives, MatchesActiveSchema
    <3>2. ASSUME NEW c \in Companions PROVE Good(client'[c], schema)
      <4>1. (c \in full) \in BOOLEAN
        OBVIOUS
      <4> HIDE DEF s, sent
      <4> QED
        BY <1>1, <2>1, <2>3, <3>1, <4>1, OfferedGood
    <3> HIDE DEF s, sent
    <3> QED
      BY <2>2, <3>1, <3>2 DEF Clients, Good, Current
  <2>4. CASE schema # g
    BY <1>7, <2>2, <2>4 DEF SampleArrives, MatchesActiveSchema, IInv, Clients
  <2> QED
    BY <2>3, <2>4
<1>8. CASE Stop
  BY <1>8, FreshGood DEF Stop, Clients, Good, Current
<1>9. CASE Tick
  <2>1. client' = [c \in Companions |-> Elapse(client[c])] /\ schema' = schema
    BY <1>9 DEF Tick, Elapse
  <2>2. ASSUME NEW c \in Companions PROVE Good(client'[c], schema)
    BY <1>1, <2>1, <2>2, ElapseGood
  <2> QED
    BY <2>1, <2>2 DEF Clients, Good, Current
<1> QED
  BY <1>4, <1>5, <1>6, <1>7, <1>8, <1>9 DEF Next

LEMMA StepShape == IInv /\ Next => Shape'
<1> SUFFICES ASSUME IInv, Next PROVE Shape'
  OBVIOUS
<1> DEFINE Kept == NothingForwarded /\ schema' \in Generations \cup {None}
                                   /\ source' \in Natives \cup {None}
<1>1. Kept => Shape'
  BY DEF NothingForwarded, Shape, IInv
<1>2. schema \in Generations \cup {None} /\ source \in Natives \cup {None}
  BY DEF IInv, Shape
<1>3. ASSUME NEW c \in Companions, NEW m \in Client, Flush(c, m) PROVE Shape'
  <2>1. m.parked \in Sample \cup {None}
    BY DEF Client
  <2>2. forwarded' \in [Companions -> Sample \cup {None}]
    BY <1>3, <2>1 DEF Flush, IInv, Shape
  <2> QED
    BY <1>3, <2>2 DEF Flush, IInv, Shape
<1>4. CASE \E c \in Companions : ClientStep(c)
  <2>1. PICK c \in Companions : ClientStep(c)
    BY <1>4
  <2> DEFINE m == client[c]
  <2>2. m \in Client
    BY DEF IInv, Clients
  <2>3. CASE Connect(c)
    BY <2>3 DEF Connect, IInv, Shape
  <2>4. CASE Break(c) \/ Remove(c) \/ Unsubscribe(c) \/ Ping(c) \/ \E p \in Players : Subscribe(c, p)
    <3>1. Kept
      BY <1>2, <2>4 DEF Break, Remove, Unsubscribe, Ping, Subscribe, Replied
    <3> QED
      BY <1>1, <3>1
  <2>5. CASE TimerFires(c)
    <3>1. [m EXCEPT !.timer = NoTimer] \in Client
      BY <2>2 DEF Client
    <3> QED
      BY <1>3, <2>5, <3>1 DEF TimerFires
  <2>6. CASE Drain(c)
    <3>1. [m EXCEPT !.needDrain = FALSE] \in Client
      BY <2>2 DEF Client
    <3> QED
      BY <1>3, <2>6, <3>1 DEF Drain
  <2> QED
    BY <2>1, <2>3, <2>4, <2>5, <2>6 DEF ClientStep
<1>5. ASSUME NEW n \in Natives, Withdraw(n) \/ \E g \in Generations : Advertise(n, g) PROVE Shape'
  <2>1. Kept
    BY <1>5 DEF Withdraw, SetMotionSchemaUnavailable, Advertise
  <2> QED
    BY <1>1, <2>1
<1>6. ASSUME NEW p \in Players, NEW g \in Generations, SampleArrives(p, g) PROVE Shape'
  <2> DEFINE s == [number |-> arrived + 1, player |-> p, generation |-> g]
  <2>1. s \in Sample /\ arrived' \in 0..MaxSamples
    BY <1>6, TimeAssumption DEF SampleArrives, Sample, IInv, Shape
  <2>2. forwarded' \in [Companions -> Sample \cup {None}]
    <3>1. CASE MatchesActiveSchema(g)
      BY <1>6, <2>1, <3>1 DEF SampleArrives, IInv, Shape
    <3>2. CASE ~MatchesActiveSchema(g)
      BY <1>6, <3>2 DEF SampleArrives, IInv, Shape
    <3> QED
      BY <3>1, <3>2
  <2> QED
    BY <1>2, <1>6, <2>1, <2>2 DEF SampleArrives, Shape
<1>7. CASE Stop \/ Tick
  <2>1. Kept
    BY <1>2, <1>7 DEF Stop, Tick
  <2> QED
    BY <1>1, <2>1
<1> QED
  BY <1>4, <1>5, <1>6, <1>7 DEF Next

LEMMA StepIInv == IInv /\ [Next]_vars => IInv'
<1>1. IInv /\ UNCHANGED vars => IInv'
  BY DEF IInv, Shape, Clients, vars
<1> QED
  BY <1>1, StepShape, StepClients DEF IInv

LEMMA Invariant == Spec => []IInv
BY InitIInv, StepIInv, PTL DEF Spec

\* The broker's fields keep their shape.
THEOREM MotionTypeCorrect == Spec => []TypeOK
<1>1. IInv => TypeOK
  BY DEF IInv, Shape, Clients, TypeOK
<1> QED
  BY <1>1, Invariant, PTL

\* A companion's lease, timer and parked sample are those of the player it
\* leases and of the generation that is advertised.
THEOREM LaneIsCurrentHolds == Spec => []LaneIsCurrent
<1>1. IInv => LaneIsCurrent
  BY DEF IInv, Clients, Good, Current, LaneIsCurrent
<1> QED
  BY <1>1, Invariant, PTL

\* A parked sample always has a timer, a drain or a removal to wake it.
THEOREM NoLostWakeupHolds == Spec => []NoLostWakeup
<1>1. IInv => NoLostWakeup
  BY DEF IInv, Clients, Good, Waits, Wakes, NoLostWakeup
<1> QED
  BY <1>1, Invariant, PTL

-----------------------------------------------------------------------------
(* The order of forwarded samples.                                          *)

Ordered(k, f, n) ==
  /\ f # None => f.number <= n
  /\ k # None => k.number <= n
  /\ f # None /\ k # None => f.number < k.number

Numbers == \A c \in Companions : Ordered(client[c].parked, forwarded[c], arrived)

LEMMA ClearedParked == ASSUME NEW m \in Client PROVE Cleared(m).parked = None
<1> DEFINE n == ClearLane(m)
<1>1. n \in Client /\ n.parked = None
  BY DEF ClearLane, Client
<1>2. Cleared(m) = [n EXCEPT !.timer = NoTimer, !.lease = NoLease, !.player = None,
                             !.interval = MaxInterval, !.since = MaxInterval]
  BY DEF Cleared
<1> HIDE DEF n
<1> QED
  BY <1>1, <1>2 DEF Client

LEMMA ScheduledParked == ASSUME NEW m \in Client PROVE Scheduled(m).parked = m.parked
BY DEF Scheduled, Client

LEMMA OfferedParked ==
  ASSUME NEW m \in Client, NEW s \in Sample, NEW full \in BOOLEAN
  PROVE  IF Sends(m, s) THEN Offered(m, s, full).parked = None
                        ELSE Offered(m, s, full).parked \in {m.parked, s, None}
<1>1. CASE Sends(m, s)
  <2>1. Offered(m, s, full) = Written(m, full) /\ m.parked = None
    BY <1>1 DEF Offered, Sends, MustPark, Client, NoLease
  <2> QED
    BY <1>1, <2>1 DEF Written, Client
<1>2. CASE ~Listens(m, s)
  BY <1>2 DEF Offered, Sends
<1>3. CASE Listens(m, s) /\ ~(m.lease > 0)
  <2>1. m.lease <= 0
    BY <1>3 DEF Client, NoLease
  <2>2. Offered(m, s, full) = Cleared(m)
    BY <1>3, <2>1 DEF Offered
  <2> QED
    BY <1>3, <2>2, ClearedParked DEF Sends
<1>4. CASE Listens(m, s) /\ m.lease > 0 /\ MustPark(m)
  <2> DEFINE k == [m EXCEPT !.parked = s]
  <2>1. k \in Client /\ k.parked = s
    BY DEF Client
  <2>2. Offered(m, s, full) \in {k, Scheduled(k)}
    BY <1>4 DEF Offered, Parked, Client, NoLease
  <2> HIDE DEF k
  <2> QED
    BY <1>4, <2>1, <2>2, ScheduledParked DEF Sends
<1> QED
  BY <1>1, <1>2, <1>3, <1>4 DEF Sends

LEMMA FlushedParked ==
  ASSUME NEW m \in Client, NEW full \in BOOLEAN
  PROVE  IF Flushes(m) THEN Flushed(m, full).parked = None
                       ELSE Flushed(m, full).parked \in {m.parked, None}
<1>1. CASE Flushes(m)
  <2>1. Flushed(m, full) = IF m.parked = None THEN [m EXCEPT !.backpressured = FALSE]
                           ELSE [Written(m, full) EXCEPT !.parked = None]
    BY <1>1 DEF Flushed, Flushes, Client, NoLease
  <2> QED
    BY <1>1, <2>1 DEF Written, Client
<1>2. CASE schema = None \/ m.lease = NoLease
  <2>1. Flushed(m, full) = ClearLane(m) /\ ~Flushes(m)
    BY <1>2 DEF Flushed, Flushes, Client, NoLease
  <2> QED
    BY <2>1 DEF ClearLane, Client
<1>3. CASE schema # None /\ (m.lease = 0 \/ (m.lease > 0 /\ m.destroyed))
  <2>1. Flushed(m, full) = Cleared(m) /\ ~Flushes(m)
    BY <1>3 DEF Flushed, Flushes, Client, NoLease
  <2> QED
    BY <2>1, ClearedParked
<1>4. CASE schema # None /\ m.lease > 0 /\ ~m.destroyed /\ ~Flushes(m)
  <2>1. Flushed(m, full) \in {m, Scheduled(m)}
    BY <1>4 DEF Flushed, Client, NoLease
  <2> QED
    BY <1>4, <2>1, ScheduledParked
<1> QED
  BY <1>1, <1>2, <1>3, <1>4 DEF Client, NoLease

\* Steps that forward nothing and park nothing new.
LEMMA NumbersKept ==
  ASSUME Numbers, UNCHANGED <<forwarded, arrived>>,
         \A c \in Companions : client'[c].parked \in {client[c].parked, None}
  PROVE  Numbers'
BY DEF Numbers, Ordered

LEMMA PublishedParked ==
  ASSUME NEW clients, \A c \in Companions : clients[c] \in Client, Published(clients)
  PROVE  \A c \in Companions : client'[c].parked = clients[c].parked
BY DEF Published, Client

LEMMA FlushNumbers ==
  ASSUME Numbers, Shape, Clients, NEW c \in Companions, NEW m \in Client,
         m.parked = client[c].parked, Flush(c, m)
  PROVE  Numbers'
<1>1. PICK full \in BOOLEAN : client' = [client EXCEPT ![c] = Flushed(m, full)]
  BY DEF Flush
<1>2. /\ forwarded' = [forwarded EXCEPT ![c] =
           IF Flushes(m) /\ m.parked # None THEN m.parked ELSE @]
      /\ arrived' = arrived
  BY DEF Flush
<1>3. client'[c].parked = Flushed(m, full).parked
  BY <1>1 DEF Clients
<1>4. forwarded'[c] = IF Flushes(m) /\ m.parked # None THEN m.parked ELSE forwarded[c]
  BY <1>2 DEF Shape
<1>5. Ordered(m.parked, forwarded[c], arrived)
  BY DEF Numbers
<1>6. Ordered(client'[c].parked, forwarded'[c], arrived')
  BY <1>2, <1>3, <1>4, <1>5, FlushedParked DEF Ordered
<1>7. ASSUME NEW d \in Companions \ {c}
      PROVE  client'[d] = client[d] /\ forwarded'[d] = forwarded[d]
  BY <1>1, <1>2 DEF Clients, Shape
<1> QED
  BY <1>2, <1>6, <1>7 DEF Numbers

LEMMA SampleNumbers ==
  ASSUME Numbers, Shape, Clients, NEW p \in Players, NEW g \in Generations,
         SampleArrives(p, g)
  PROVE  Numbers'
<1> DEFINE s == [number |-> arrived + 1, player |-> p, generation |-> g]
           sent == {c \in Companions : Sends(client[c], s)}
<1>1. s \in Sample /\ arrived' = arrived + 1 /\ arrived \in Nat /\ s.number = arrived + 1
  BY TimeAssumption DEF SampleArrives, Sample, Shape
<1>2. CASE ~MatchesActiveSchema(g)
  <2>1. UNCHANGED <<client, forwarded>>
    BY <1>2 DEF SampleArrives
  <2>2. ASSUME NEW k \in Sample PROVE k.number \in Nat
    BY TimeAssumption DEF Sample
  <2>3. ASSUME NEW c \in Companions
        PROVE client[c].parked \in Sample \cup {None} /\ forwarded[c] \in Sample \cup {None}
    BY DEF Clients, Shape, Client
  <2> QED
    BY <1>1, <2>1, <2>2, <2>3 DEF Numbers, Ordered
<1>3. CASE MatchesActiveSchema(g)
  <2>1. PICK full \in SUBSET sent :
          client' = [c \in Companions |-> Offered(client[c], s, c \in full)]
    BY <1>3 DEF SampleArrives
  <2>2. forwarded' = [c \in Companions |-> IF c \in sent THEN s ELSE forwarded[c]]
    BY <1>3 DEF SampleArrives
  <2>3. ASSUME NEW c \in Companions
        PROVE  Ordered(client'[c].parked, forwarded'[c], arrived')
    <3>1. client[c] \in Client /\ (c \in full) \in BOOLEAN
      BY DEF Clients
    <3>2. IF c \in sent THEN client'[c].parked = None
                        ELSE client'[c].parked \in {client[c].parked, s, None}
      BY <1>1, <2>1, <3>1, OfferedParked
    <3>3. forwarded'[c] = IF c \in sent THEN s ELSE forwarded[c]
      BY <2>2
    <3>4. /\ client[c].parked = None \/ client[c].parked.number \in Nat
          /\ forwarded[c] = None \/ forwarded[c].number \in Nat
      BY <3>1, TimeAssumption DEF Shape, Client, Sample
    <3>5. Ordered(client[c].parked, forwarded[c], arrived)
      BY DEF Numbers
    <3> HIDE DEF s, sent
    <3> QED
      BY <1>1, <3>2, <3>3, <3>4, <3>5 DEF Ordered
  <2> QED
    BY <2>3 DEF Numbers
<1> QED
  BY <1>2, <1>3

LEMMA StepNumbers == IInv /\ Numbers /\ Next => Numbers'
<1> SUFFICES ASSUME IInv, Numbers, Next PROVE Numbers'
  OBVIOUS
<1>1. Shape /\ Clients /\ \A c \in Companions : client[c] \in Client
  BY DEF IInv, Clients
<1> DEFINE Kept ==
      \A c \in Companions : client'[c].parked \in {client[c].parked, None}
<1>2. NothingForwarded /\ Kept => Numbers'
  BY NumbersKept DEF NothingForwarded
<1>3. \A c \in Companions : AllCleared[c] \in Client /\ AllCleared[c].parked = None
  BY <1>1, ClearedFields, ClearedParked DEF AllCleared
<1>4. ASSUME NEW c \in Companions, NEW m \in Client, Replied(c, m),
             m.parked \in {client[c].parked, None}
      PROVE  Numbers'
  <2>1. PICK full \in BOOLEAN :
          client' = [client EXCEPT ![c] = [m EXCEPT !.needDrain = @ \/ full]]
    BY <1>4 DEF Replied
  <2>2. client'[c].parked = m.parked
    BY <1>1, <2>1 DEF Clients, Client
  <2>3. Kept
    BY <1>1, <1>4, <2>1, <2>2 DEF Clients
  <2> QED
    BY <1>2, <1>4, <2>3 DEF Replied
<1>5. CASE \E c \in Companions : ClientStep(c)
  <2>1. PICK c \in Companions : ClientStep(c)
    BY <1>5
  <2> DEFINE m == client[c]
  <2>2. m \in Client
    BY <1>1
  <2>3. CASE Connect(c)
    <3>1. PICK full \in BOOLEAN : client' =
            [client EXCEPT ![c] = [FreshClient EXCEPT !.attached = TRUE, !.needDrain = full]]
      BY <2>3 DEF Connect
    <3>2. client'[c].parked = None /\ forwarded'[c] = None /\ arrived' = arrived
      BY <1>1, <2>3, <3>1 DEF Connect, FreshClient, Clients, Shape
    <3>3. \A d \in Companions \ {c} : client'[d] = client[d] /\ forwarded'[d] = forwarded[d]
      BY <1>1, <2>3, <3>1 DEF Connect, Clients, Shape
    <3> QED
      BY <3>2, <3>3 DEF Numbers, Ordered
  <2>4. CASE Break(c)
    <3>1. Kept
      BY <1>1, <2>4 DEF Break, Clients, Client
    <3> QED
      BY <1>2, <2>4, <3>1 DEF Break
  <2>5. CASE Remove(c)
    <3>1. Kept
      BY <1>1, <2>5 DEF Remove, Clients, FreshClient
    <3> QED
      BY <1>2, <2>5, <3>1 DEF Remove
  <2>6. CASE Unsubscribe(c) \/ Ping(c)
    BY <1>4, <2>2, <2>6, ClearedFields, ClearedParked DEF Unsubscribe, Ping
  <2>7. ASSUME NEW p \in Players, Subscribe(c, p) PROVE Numbers'
    <3>1. CASE schema = None
      BY <1>4, <2>2, <2>7, <3>1, ClearedFields, ClearedParked DEF Subscribe
    <3>2. CASE schema # None
      <4>1. PICK lease \in LeaseTimes, interval \in Intervals :
              Replied(c, Subscribed(m, p, lease, interval))
        BY <2>7, <3>2 DEF Subscribe
      <4> DEFINE k == IF m.player \in {None, p} THEN m ELSE Cleared(m)
      <4>2. k \in Client /\ k.parked \in {m.parked, None}
        BY <2>2, ClearedFields, ClearedParked
      <4>3. Subscribed(m, p, lease, interval) =
              [k EXCEPT !.player = p, !.lease = lease, !.interval = interval]
        BY DEF Subscribed
      <4> HIDE DEF k
      <4>4. Subscribed(m, p, lease, interval).parked \in {m.parked, None}
        BY <4>2, <4>3 DEF Client
      <4>5. Good(Subscribed(m, p, lease, interval), schema)
        BY <1>1, <2>7, <3>2, SubscribedGood DEF Subscribe, Active, Clients
      <4> QED
        BY <1>4, <4>1, <4>4, <4>5 DEF Good, Current
    <3> QED
      BY <3>1, <3>2
  <2>8. CASE TimerFires(c)
    <3>1. [m EXCEPT !.timer = NoTimer] \in Client /\ [m EXCEPT !.timer = NoTimer].parked = m.parked
      BY <2>2 DEF Client
    <3> QED
      BY <1>1, <2>8, <3>1, FlushNumbers DEF TimerFires
  <2>9. CASE Drain(c)
    <3>1. [m EXCEPT !.needDrain = FALSE] \in Client /\ [m EXCEPT !.needDrain = FALSE].parked = m.parked
      BY <2>2 DEF Client
    <3> QED
      BY <1>1, <2>9, <3>1, FlushNumbers DEF Drain
  <2> QED
    BY <2>1, <2>3, <2>4, <2>5, <2>6, <2>7, <2>8, <2>9 DEF ClientStep
<1>6. ASSUME SetMotionSchemaUnavailable PROVE Numbers'
  <2>1. Published(AllCleared)
    BY <1>6 DEF SetMotionSchemaUnavailable
  <2>2. Kept
    BY <1>3, <2>1, PublishedParked
  <2> QED
    BY <1>2, <1>6, <2>2 DEF SetMotionSchemaUnavailable
<1>7. ASSUME NEW n \in Natives, NEW g \in Generations, Advertise(n, g) PROVE Numbers'
  <2>1. Published(AfterAdvertisement(n, g))
    BY <1>7 DEF Advertise
  <2>2. AfterAdvertisement(n, g) \in {client, AllCleared}
    BY DEF AfterAdvertisement
  <2>3. \A c \in Companions : client'[c].parked = AfterAdvertisement(n, g)[c].parked
    BY <1>1, <1>3, <2>1, <2>2, PublishedParked
  <2>4. Kept
    BY <1>3, <2>2, <2>3
  <2> QED
    BY <1>2, <1>7, <2>4 DEF Advertise
<1>8. CASE Stop
  <2>1. Kept
    BY <1>8 DEF Stop, FreshClient
  <2> QED
    BY <1>2, <1>8, <2>1 DEF Stop
<1>9. CASE Tick
  <2>1. Kept
    BY <1>1, <1>9 DEF Tick, Client
  <2> QED
    BY <1>2, <1>9, <2>1 DEF Tick
<1> QED
  BY <1>1, <1>5, <1>6, <1>7, <1>8, <1>9, SampleNumbers DEF Next, Withdraw

LEMMA NumbersHold == Spec => []Numbers
<1>1. Init => Numbers
  <2>1. FreshClient.parked = None
    BY DEF FreshClient
  <2> QED
    BY <2>1 DEF Init, Numbers, Ordered
<1>2. Numbers /\ UNCHANGED vars => Numbers'
  BY DEF Numbers, vars
<1> QED
  BY <1>1, <1>2, StepNumbers, Invariant, PTL DEF Spec

\* What a flush or an arriving sample forwards is in scope and in order.
LEMMA StepForwards ==
  ASSUME IInv, Numbers, Next, NEW c \in Companions, forwarded'[c] \notin {forwarded[c], None}
  PROVE  /\ client[c].lease > 0
         /\ forwarded'[c].player = client[c].player
         /\ forwarded'[c].generation = schema
         /\ forwarded[c] # None => forwarded[c].number < forwarded'[c].number
<1> DEFINE Goal ==
      /\ client[c].lease > 0
      /\ forwarded'[c].player = client[c].player
      /\ forwarded'[c].generation = schema
      /\ forwarded[c] # None => forwarded[c].number < forwarded'[c].number
<1>1. /\ client[c] \in Client /\ Current(client[c], schema)
      /\ Ordered(client[c].parked, forwarded[c], arrived)
  BY DEF IInv, Clients, Good, Numbers
<1>2. forwarded \in [Companions -> Sample \cup {None}] /\ arrived \in Nat
  BY TimeAssumption DEF IInv, Shape
<1>3. ASSUME NEW d \in Companions, NEW m \in Client, Flush(d, m),
             m.parked = client[d].parked, m.lease = client[d].lease
      PROVE  Goal
  <2>1. forwarded' = [forwarded EXCEPT ![d] =
          IF Flushes(m) /\ m.parked # None THEN m.parked ELSE @]
    BY <1>3 DEF Flush
  <2>2. d = c /\ Flushes(m) /\ m.parked # None /\ forwarded'[c] = client[c].parked
    BY <1>2, <1>3, <2>1
  <2> QED
    BY <1>1, <1>3, <2>2 DEF Flushes, Current, Ordered
<1>4. ASSUME NEW p \in Players, NEW g \in Generations, SampleArrives(p, g) PROVE Goal
  <2> DEFINE s == [number |-> arrived + 1, player |-> p, generation |-> g]
             sent == {d \in Companions : Sends(client[d], s)}
  <2>1. MatchesActiveSchema(g) /\ c \in sent /\ forwarded'[c] = s
    BY <1>4 DEF SampleArrives
  <2>2. client[c].lease > 0 /\ client[c].player = s.player
    BY <2>1 DEF Sends, Listens
  <2>3. forwarded[c] # None => forwarded[c].number \in Nat /\ forwarded[c].number <= arrived
    BY <1>1, <1>2, TimeAssumption DEF Sample, Ordered
  <2> QED
    BY <1>2, <2>1, <2>2, <2>3 DEF MatchesActiveSchema
<1>5. ASSUME NEW d \in Companions, ClientStep(d) PROVE Goal
  <2> DEFINE m == client[d]
  <2>1. m \in Client
    BY DEF IInv, Clients
  <2>2. ~Connect(d)
    BY <1>2 DEF Connect
  <2>3. ~(Break(d) \/ Remove(d) \/ Unsubscribe(d) \/ Ping(d) \/ \E p \in Players : Subscribe(d, p))
    BY DEF Break, Remove, Unsubscribe, Ping, Subscribe, Replied, NothingForwarded
  <2>4. CASE TimerFires(d)
    <3> DEFINE k == [m EXCEPT !.timer = NoTimer]
    <3>1. k \in Client /\ k.parked = m.parked /\ k.lease = m.lease
      BY <2>1 DEF Client
    <3>2. Flush(d, k)
      BY <2>4 DEF TimerFires
    <3> HIDE DEF k
    <3> QED
      BY <1>3, <3>1, <3>2
  <2>5. CASE Drain(d)
    <3> DEFINE k == [m EXCEPT !.needDrain = FALSE]
    <3>1. k \in Client /\ k.parked = m.parked /\ k.lease = m.lease
      BY <2>1 DEF Client
    <3>2. Flush(d, k)
      BY <2>5 DEF Drain
    <3> HIDE DEF k
    <3> QED
      BY <1>3, <3>1, <3>2
  <2> QED
    BY <1>5, <2>2, <2>3, <2>4, <2>5 DEF ClientStep
<1>6. ~(Stop \/ Tick \/ \E n \in Natives : Withdraw(n) \/ \E g \in Generations : Advertise(n, g))
  BY DEF Stop, Tick, Withdraw, Advertise, SetMotionSchemaUnavailable, NothingForwarded
<1> QED
  BY <1>4, <1>5, <1>6 DEF Next

\* A companion is sent only samples of its leased player and the advertised
\* generation, under an unexpired lease, and each newer than the last.
THEOREM ForwardsScopedHolds == Spec => ForwardsScoped
<1>1. IInv /\ Numbers /\ [Next]_vars =>
        [\A c \in Companions : forwarded'[c] \notin {forwarded[c], None} =>
           /\ client[c].lease > 0
           /\ forwarded'[c].player = client[c].player
           /\ forwarded'[c].generation = schema
           /\ forwarded[c] # None => forwarded[c].number < forwarded'[c].number]_vars
  BY StepForwards
<1> QED
  BY <1>1, Invariant, NumbersHold, PTL DEF Spec, ForwardsScoped
===============================================================================
