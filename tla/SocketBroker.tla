---------------------------- MODULE SocketBroker ----------------------------
(***************************************************************************)
(* The Omegga socket broker's two request tables (bmfSocketBridge.ts): the *)
(* commands Omegga itself sends to the game, and the routes of the tunnel  *)
(* requests plugins send through it.  Every entry holds a timer and names  *)
(* the native socket it was written to.  Sockets open, are destroyed, and  *)
(* are removed by a later close event; the natives say anything at any     *)
(* time.  A refused request changes no table, so it is no step here.       *)
(***************************************************************************)
EXTENDS Integers, FiniteSets, Sequences, SequencesExt

CONSTANTS
  Plugins,      \* plugin sockets
  Natives,      \* native sockets: reconnects of the game overlap
  Ids,          \* tunnel request ids
  Commands,     \* calls of execCommand
  MaxRoutes,    \* MAX_PENDING_TUNNEL_ROUTES
  MaxPending,   \* maxPendingCommands
  None

ASSUME SocketAssumption ==
  /\ Plugins \cap Natives = {}
  /\ None \notin Natives /\ None \notin [origin : Plugins, native : Natives]
ASSUME BoundAssumption == MaxRoutes \in Nat /\ MaxPending \in Nat

VARIABLES
  socket,     \* socket -> "closed" (no client), "open" or "destroyed"
  order,      \* #bmfClients, oldest first
  routes,     \* id -> its entry in #pendingTunnelRoutes, or None
  timers,     \* id -> the armed route timers, each with what it captured
  command,    \* call -> "idle", "pending" or how its promise was settled
  target,     \* call -> native of its #pendingCommands entry, or None
  armed,      \* the calls whose response timer is armed
  owed        \* history: plugin -> <<id, native>> of its unanswered requests

tables == <<routes, timers, owed>>
calls == <<command, target, armed>>
vars == <<socket, order, tables, calls>>

Sockets == Plugins \cup Natives
Route == [origin : Plugins, native : Natives]
Settled == {"resolved", "timed_out", "disconnected", "stopped"}

Routed == {id \in Ids : routes[id] # None}
Pending == {k \in Commands : command[k] = "pending"}

Init ==
  /\ socket = [s \in Sockets |-> "closed"] /\ order = <<>>
  /\ routes = [id \in Ids |-> None] /\ timers = [id \in Ids |-> {}]
  /\ command = [k \in Commands |-> "idle"] /\ target = [k \in Commands |-> None]
  /\ armed = {}
  /\ owed = [p \in Plugins |-> {}]

-----------------------------------------------------------------------------
(* Sockets.                                                                 *)

Writable(s) == socket[s] = "open"

\* firstWritableBmfClient: the oldest native that can be written to.
FirstWritable(n) ==
  \E i \in 1..Len(order) : order[i] = n /\ Writable(n) /\ \A j \in 1..(i - 1) : ~Writable(order[j])

\* hello: a line behind a failed one may authenticate a destroyed socket.
Connect(s) ==
  /\ socket[s] = "closed"
  /\ socket' \in {[socket EXCEPT ![s] = "open"], [socket EXCEPT ![s] = "destroyed"]}
  /\ order' = IF s \in Natives THEN Append(order, s) ELSE order
  /\ UNCHANGED <<tables, calls>>

\* An error, an overfull input buffer, or the peer's end: the close is to come.
Break(s) ==
  /\ Writable(s)
  /\ socket' = [socket EXCEPT ![s] = "destroyed"]
  /\ UNCHANGED <<order, tables, calls>>

\* The request a route carries: its id and the native that holds it.
Carries(id) == <<id, routes[id].native>>

\* A terminal about each of these requests is written to its route's origin.
Answer(answered) ==
  owed' = [p \in Plugins |->
    owed[p] \ {a \in answered : routes[a[1]].origin = p /\ Writable(p)}]

\* Routes leave the table with their timers.
DropRoutes(dropped) ==
  /\ routes' = [id \in Ids |-> IF id \in dropped THEN None ELSE routes[id]]
  /\ timers' = [id \in Ids |-> IF id \in dropped THEN timers[id] \ {routes[id]} ELSE timers[id]]

\* Pending calls are settled and leave the table with their timers.
Settle(settled, outcome) ==
  /\ command' = [k \in Commands |-> IF k \in settled THEN outcome ELSE command[k]]
  /\ target' = [k \in Commands |-> IF k \in settled THEN None ELSE target[k]]
  /\ armed' = armed \ settled

\* Seeded fault: only the routes towards a lost native are dropped.
MutantRoutesOf(s) == {id \in Routed : routes[id].native = s}

RoutesOf(s) == {id \in Routed : s \in {routes[id].origin, routes[id].native}}

\* Seeded fault: the calls of a lost native are left to their timers.
MutantCallsOf(s) == {}

CallsOf(s) == {k \in Pending : target[k] = s}

\* The list of natives without this one.
Without(s) ==
  IF s \in ToSet(order) THEN RemoveAt(order, CHOOSE i \in 1..Len(order) : order[i] = s)
                        ELSE order

\* removeClient: the origins of a lost native's routes hear outcome_unknown.
RemoveClient(s) ==
  /\ socket[s] = "destroyed"
  /\ socket' = [socket EXCEPT ![s] = "closed"]
  /\ order' = Without(s)
  /\ Settle(CallsOf(s), "disconnected")
  /\ DropRoutes(RoutesOf(s))
  /\ IF s \in Plugins THEN owed' = [owed EXCEPT ![s] = {}]
                      ELSE Answer({Carries(id) : id \in RoutesOf(s)})

-----------------------------------------------------------------------------
(* Tunnel requests.                                                         *)

HasRoom(table, limit) == Cardinality(table) < limit

\* Seeded fault: an id in use is routed again.
MutantFresh(id) == TRUE

Fresh(id) == id \notin Routed

\* Seeded fault: the two ends are swapped.
MutantNewRoute(p, n) == [origin |-> n, native |-> p]

NewRoute(p, n) == [origin |-> p, native |-> n]

\* routeTunnelRequest, where it forwards: a known id, a full table, a passed
\* deadline or the lack of a native is refused.
Request(p, id) ==
  /\ Writable(p)
  /\ Fresh(id)
  /\ HasRoom(Routed, MaxRoutes)
  /\ \E n \in Natives :
       /\ FirstWritable(n)
       /\ routes' = [routes EXCEPT ![id] = NewRoute(p, n)]
       /\ timers' = [timers EXCEPT ![id] = @ \cup {NewRoute(p, n)}]
       /\ owed' = [owed EXCEPT ![p] = @ \cup {<<id, n>>}]
  /\ UNCHANGED <<socket, order, calls>>

\* Seeded fault: any native may answer.
MutantAccepts(n, id) == id \in Routed

Accepts(n, id) == id \in Routed /\ routes[id].native = n

\* Seeded fault: the result is passed on and its timer cleared, the entry stays.
MutantFinishRoute(id) ==
  UNCHANGED routes /\ timers' = [timers EXCEPT ![id] = @ \ {routes[id]}]

FinishRoute(id) == DropRoutes({id})

\* routeTunnelResponse to a tunnel.result; an ack is only passed on.
Result(n, id) ==
  /\ Writable(n)
  /\ Accepts(n, id)
  /\ FinishRoute(id)
  /\ Answer({<<id, n>>})
  /\ UNCHANGED <<socket, order, calls>>

\* The route timer: it answers only for the route it was armed for.
RouteTimeout(id) ==
  \E t \in timers[id] :
    /\ IF routes[id] = t
         THEN routes' = [routes EXCEPT ![id] = None] /\ Answer({Carries(id)})
         ELSE UNCHANGED <<routes, owed>>
    /\ timers' = [timers EXCEPT ![id] = @ \ {t}]
    /\ UNCHANGED <<socket, order, calls>>

-----------------------------------------------------------------------------
(* Omegga's own commands.                                                   *)

\* execCommand, where it writes: a full table, a passed deadline or the lack
\* of a writable native rejects the promise at once.
ExecCommand(k) ==
  /\ command[k] # "pending"
  /\ HasRoom(Pending, MaxPending)
  /\ \E n \in Natives : FirstWritable(n) /\ target' = [target EXCEPT ![k] = n]
  /\ command' = [command EXCEPT ![k] = "pending"]
  /\ armed' = armed \cup {k}
  /\ UNCHANGED <<socket, order, tables>>

\* resolvePendingCommand: a response is taken from any native.
Response(n, k) ==
  /\ Writable(n)
  /\ k \in Pending
  /\ Settle({k}, "resolved")
  /\ UNCHANGED <<socket, order, tables>>

\* Seeded fault: the timer rejects the promise but leaves the entry behind.
MutantExpire(k) == armed' = armed \ {k} /\ UNCHANGED <<command, target>>

Expire(k) == Settle({k}, "timed_out")

CommandTimeout(k) == k \in armed /\ Expire(k) /\ UNCHANGED <<socket, order, tables>>

\* stop(): nothing is told to plugins, whose sockets are destroyed too.
Stop ==
  /\ Settle(Pending, "stopped")
  /\ DropRoutes(Routed)
  /\ socket' = [s \in Sockets |-> "closed"] /\ order' = <<>>
  /\ owed' = [p \in Plugins |-> {}]

Next ==
  \/ \E s \in Sockets : Connect(s) \/ Break(s) \/ RemoveClient(s)
  \/ \E p \in Plugins, id \in Ids : Request(p, id)
  \/ \E n \in Natives, id \in Ids : Result(n, id)
  \/ \E id \in Ids : RouteTimeout(id)
  \/ \E k \in Commands : ExecCommand(k) \/ CommandTimeout(k)
  \/ \E n \in Natives, k \in Commands : Response(n, k)
  \/ Stop

Spec == Init /\ [][Next]_vars

\* Node runs every armed timer and delivers the close event of every socket.
FairSpec ==
  /\ Spec
  /\ \A s \in Sockets : WF_vars(RemoveClient(s))
  /\ \A id \in Ids : WF_vars(RouteTimeout(id))
  /\ \A k \in Commands : WF_vars(CommandTimeout(k))

-----------------------------------------------------------------------------
(* Properties.                                                              *)

\* Every variable has the shape the broker's tables have.
TypeOK ==
  /\ socket \in [Sockets -> {"closed", "open", "destroyed"}]
  /\ order \in Seq(Natives)
  /\ routes \in [Ids -> Route \cup {None}]
  /\ timers \in [Ids -> SUBSET Route]
  /\ command \in [Commands -> {"idle", "pending"} \cup Settled]
  /\ target \in [Commands -> Natives \cup {None}]
  /\ armed \subseteq Commands
  /\ owed \in [Plugins -> SUBSET (Ids \X Natives)]

\* Whatever order sockets break, close and reconnect in, every route joins two
\* attached sockets and has exactly its own timer armed, no timer outlives its
\* route, and the native list holds each attached native once.
RoutesAttached ==
  /\ \A id \in Ids :
       /\ timers[id] = {routes[id]} \ {None}
       /\ id \in Routed => "closed" \notin {socket[routes[id].origin], socket[routes[id].native]}
  /\ {n \in Natives : socket[n] # "closed"} = ToSet(order)
  /\ \A i, j \in 1..Len(order) : order[i] = order[j] => i = j

\* One terminal each: a plugin that can still be written to is owed an answer
\* for exactly the requests whose route leads back to it; none is forgotten,
\* none is answered twice (a result, a timeout and a disconnection race), and
\* none by a native that does not hold it.
OwedIsRouted ==
  \A p \in Plugins : Writable(p) =>
    \A id \in Ids, n \in Natives :
      <<id, n>> \in owed[p] <=> routes[id] = [origin |-> p, native |-> n]

\* A call is pending exactly while its timer is armed, and waits on a native
\* that is still attached.
CallsAttached ==
  /\ armed = Pending
  /\ \A k \in Commands :
       IF k \in Pending THEN target[k] \in Natives /\ socket[target[k]] # "closed"
                        ELSE target[k] = None

\* The tables agree with the sockets and the timers: an entry leaves with its
\* timer and before its socket, whichever of them ends it.
TablesAgree == RoutesAttached /\ CallsAttached

\* The pending tables never exceed their limits.
Bounded == Cardinality(Routed) <= MaxRoutes /\ Cardinality(Pending) <= MaxPending

\* Every route is taken down again, which answers its plugin (OwedIsRouted)
\* unless that goes away, and every call of execCommand settles.
EverySettles ==
  /\ \A id \in Ids : (id \in Routed) ~> (id \notin Routed)
  /\ \A k \in Commands : (k \in Pending) ~> (k \notin Pending)
=============================================================================
