-------------------------- MODULE SocketBrokerProofs --------------------------
(***************************************************************************)
(* Proofs about both ends of the bridge's socket, for any limits and       *)
(* bounds.                                                                 *)
(*                                                                         *)
(* The broker's request tables, for any plugins, natives and ids: the      *)
(* invariant adds to the checked ones that a plugin that is gone is owed   *)
(* nothing, which a reconnect of it starts from.                           *)
(*                                                                         *)
(* The native client: the lines of each direction rise from the one that   *)
(* was taken last to the one that was offered last, through all the queues *)
(* they cross, and a connection that is not up holds none for the broker   *)
(* while the client runs.                                                  *)
(***************************************************************************)
EXTENDS SocketBroker, NativeClient, SequenceTheorems, FiniteSetTheorems, TLAPS

-----------------------------------------------------------------------------
(* Sequences without repetitions.                                           *)

\* What taking one element out of a sequence without repetitions leaves.
LEMMA RemoveOne ==
  ASSUME NEW S, NEW s \in Seq(S), NEW n \in 1..Len(s),
         \A i, k \in 1..Len(s) : s[i] = s[k] => i = k
  PROVE  /\ RemoveAt(s, n) \in Seq(S)
         /\ ToSet(RemoveAt(s, n)) = ToSet(s) \ {s[n]}
         /\ \A i, k \in 1..Len(RemoveAt(s, n)) :
              RemoveAt(s, n)[i] = RemoveAt(s, n)[k] => i = k
<1> DEFINE t == RemoveAt(s, n)
           a == SubSeq(s, 1, n - 1)
           b == SubSeq(s, n + 1, Len(s))
<1>1. t = a \o b
  BY DEF RemoveAt
<1>2. /\ a \in Seq(S) /\ Len(a) = n - 1 /\ b \in Seq(S) /\ Len(b) = Len(s) - n
      /\ \A i \in 1..(n - 1) : a[i] = s[i]
      /\ \A i \in 1..(Len(s) - n) : b[i] = s[n + i]
  OBVIOUS
<1> HIDE DEF t, a, b
<1>3. t \in Seq(S) /\ Len(t) = Len(s) - 1
  <2>1. a \in Seq(S) /\ b \in Seq(S)
    BY <1>2
  <2>2. a \o b \in Seq(S) /\ Len(a \o b) = Len(a) + Len(b)
    BY <2>1, ConcatProperties
  <2>3. Len(a) + Len(b) = Len(s) - 1
    BY <1>2
  <2> QED BY <1>1, <2>2, <2>3
<1>4. \A i \in 1..(Len(s) - 1) : t[i] = IF i < n THEN s[i] ELSE s[i + 1]
  <2>1. \A i \in 1..(n - 1) : t[i] = s[i]
    BY <1>1, <1>2
  <2>2. ASSUME NEW i \in n..(Len(s) - 1) PROVE t[i] = s[i + 1]
    <3>1. /\ i \in 1..(Len(a) + Len(b)) /\ ~(i <= Len(a))
          /\ i - Len(a) \in 1..(Len(s) - n) /\ n + (i - Len(a)) = i + 1
      BY <1>2
    <3>2. (a \o b)[i] = b[i - Len(a)]
      BY <1>2, <3>1, ConcatProperties
    <3> QED BY <1>1, <1>2, <3>1, <3>2
  <2> QED BY <2>1, <2>2
<1>5. ToSet(t) = ToSet(s) \ {s[n]}
  <2>1. ASSUME NEW x \in ToSet(t) PROVE x \in ToSet(s) \ {s[n]}
    <3>1. PICK i \in 1..(Len(s) - 1) : x = t[i]
      BY <2>1, <1>3 DEF ToSet
    <3> QED BY <3>1, <1>4 DEF ToSet
  <2>2. ASSUME NEW x \in ToSet(s) \ {s[n]} PROVE x \in ToSet(t)
    <3>1. PICK i \in 1..Len(s) : x = s[i] /\ i # n
      BY <2>2 DEF ToSet
    <3>2. CASE i < n
      <4>1. i \in 1..(Len(s) - 1) /\ t[i] = x
        BY <3>1, <3>2, <1>4
      <4> QED BY <4>1, <1>3 DEF ToSet
    <3>3. CASE i > n
      <4>1. i - 1 \in 1..(Len(s) - 1) /\ ~(i - 1 < n) /\ (i - 1) + 1 = i
        BY <3>1, <3>3
      <4>2. t[i - 1] = x
        BY <4>1, <3>1, <1>4
      <4> QED BY <4>1, <4>2, <1>3 DEF ToSet
    <3> QED BY <3>1, <3>2, <3>3
  <2> QED BY <2>1, <2>2
<1>6. ASSUME NEW i \in 1..Len(t), NEW k \in 1..Len(t), t[i] = t[k] PROVE i = k
  <2> DEFINE at(x) == IF x < n THEN x ELSE x + 1
  <2>1. /\ at(i) \in 1..Len(s) /\ t[i] = s[at(i)]
        /\ at(k) \in 1..Len(s) /\ t[k] = s[at(k)]
    BY <1>3, <1>4
  <2>2. at(i) = at(k)
    BY <1>6, <2>1
  <2> QED BY <2>2, <1>3
<1> QED BY <1>3, <1>5, <1>6 DEF t

\* What appending a new element to such a sequence leaves.
LEMMA AppendOne ==
  ASSUME NEW S, NEW s \in Seq(S), NEW e \in S, e \notin ToSet(s),
         \A i, k \in 1..Len(s) : s[i] = s[k] => i = k
  PROVE  /\ Append(s, e) \in Seq(S) /\ Append(s, e) # <<>>
         /\ ToSet(Append(s, e)) = ToSet(s) \cup {e}
         /\ \A i, k \in 1..Len(Append(s, e)) :
              Append(s, e)[i] = Append(s, e)[k] => i = k
<1> DEFINE t == Append(s, e)
<1>1. /\ t \in Seq(S) /\ Len(t) = Len(s) + 1 /\ Len(s) \in Nat
      /\ \A i \in 1..Len(s) : t[i] = s[i] /\ t[Len(s) + 1] = e
  OBVIOUS
<1>2. t[Len(s) + 1] = e
  OBVIOUS
<1> HIDE DEF t
<1>3. ToSet(t) = ToSet(s) \cup {e}
  BY <1>1, <1>2 DEF ToSet
<1>4. \A i \in 1..Len(s) : s[i] # e
  BY DEF ToSet
<1>5. \A i, k \in 1..Len(t) : t[i] = t[k] => i = k
  BY <1>1, <1>2, <1>4
<1>6. t # <<>>
  BY <1>1
<1> QED BY <1>1, <1>3, <1>5, <1>6 DEF t

-----------------------------------------------------------------------------
(* The invariant.                                                           *)

OwedIsLive == \A p \in Plugins : socket[p] = "closed" => owed[p] = {}

IInv == TypeOK /\ RoutesAttached /\ OwedIsRouted /\ OwedIsLive /\ CallsAttached

LEMMA InitIInv == Init => IInv
<1> SUFFICES ASSUME Init PROVE IInv
  OBVIOUS
<1>1. order \in Seq(Natives) /\ ToSet(order) = {} /\ Len(order) = 0
  BY DEF Init, ToSet
<1>2. TypeOK
  BY <1>1 DEF Init, TypeOK
<1>3. RoutesAttached
  BY <1>1 DEF Init, RoutesAttached, Routed, Sockets
<1>4. OwedIsRouted
  BY SocketAssumption DEF Init, OwedIsRouted, Writable, Sockets
<1>5. OwedIsLive /\ CallsAttached
  BY DEF Init, OwedIsLive, CallsAttached, Pending
<1> QED BY <1>2, <1>3, <1>4, <1>5 DEF IInv

-----------------------------------------------------------------------------
(* Sockets.                                                                 *)

LEMMA ConnectIInv == ASSUME IInv, NEW s \in Sockets, Connect(s) PROVE IInv'
<1> USE DEF IInv
<1>1. PICK state \in {"open", "destroyed"} : socket' = [socket EXCEPT ![s] = state]
  BY DEF Connect
<1>2. /\ socket[s] = "closed" /\ order' = IF s \in Natives THEN Append(order, s) ELSE order
      /\ UNCHANGED <<tables, calls>>
  BY DEF Connect
<1>3. /\ socket' \in [Sockets -> {"closed", "open", "destroyed"}] /\ socket'[s] = state
      /\ \A r \in Sockets : r # s => socket'[r] = socket[r]
  BY <1>1 DEF TypeOK
<1>4. /\ order' \in Seq(Natives) /\ {n \in Natives : socket'[n] # "closed"} = ToSet(order')
      /\ \A i, j \in 1..Len(order') : order'[i] = order'[j] => i = j
  <2>1. CASE s \in Natives
    <3>1. s \notin ToSet(order) /\ order' = Append(order, s)
      BY <1>2, <2>1 DEF RoutesAttached
    <3>2. /\ order' \in Seq(Natives) /\ ToSet(order') = ToSet(order) \cup {s}
          /\ \A i, j \in 1..Len(order') : order'[i] = order'[j] => i = j
      BY <2>1, <3>1, AppendOne DEF TypeOK, RoutesAttached
    <3> QED BY <1>3, <2>1, <3>2 DEF RoutesAttached, Sockets
  <2>2. CASE s \notin Natives
    BY <1>2, <1>3, <2>2 DEF TypeOK, RoutesAttached, Sockets
  <2> QED BY <2>1, <2>2
<1>5. TypeOK'
  BY <1>2, <1>3, <1>4 DEF TypeOK, tables, calls
<1>6. RoutesAttached'
  BY <1>2, <1>3, <1>4 DEF TypeOK, RoutesAttached, tables, Routed, Route, Sockets
<1>7. OwedIsRouted'
  <2>1. ASSUME NEW p \in Plugins, Writable(p)', NEW id \in Ids, NEW n \in Natives
        PROVE  <<id, n>> \in owed'[p] <=> routes'[id] = [origin |-> p, native |-> n]
    <3>1. CASE p = s
      <4>1. owed[p] = {}
        BY <1>2, <3>1 DEF OwedIsLive
      <4>2. routes[id] # [origin |-> p, native |-> n]
        BY <1>2, <3>1, SocketAssumption DEF RoutesAttached, Routed, Route
      <4> QED BY <1>2, <4>1, <4>2 DEF tables
    <3>2. CASE p # s
      BY <1>2, <1>3, <2>1, <3>2 DEF OwedIsRouted, Writable, tables, Sockets
    <3> QED BY <3>1, <3>2
  <2> QED BY <2>1 DEF OwedIsRouted
<1>8. OwedIsLive'
  BY <1>2, <1>3 DEF OwedIsLive, tables, Sockets
<1>9. CallsAttached'
  BY <1>2, <1>3 DEF CallsAttached, calls, Pending, Sockets
<1> QED BY <1>5, <1>6, <1>7, <1>8, <1>9

LEMMA BreakIInv == ASSUME IInv, NEW s \in Sockets, Break(s) PROVE IInv'
<1> USE DEF IInv
<1>1. /\ socket' \in [Sockets -> {"closed", "open", "destroyed"}]
      /\ socket[s] = "open" /\ socket'[s] = "destroyed"
      /\ \A r \in Sockets : r # s => socket'[r] = socket[r]
      /\ UNCHANGED <<order, tables, calls>>
  BY DEF Break, Writable, TypeOK
<1>2. \A r \in Sockets : (socket'[r] = "closed" <=> socket[r] = "closed") /\ (Writable(r)' => Writable(r))
  BY <1>1 DEF Writable
<1>3. TypeOK'
  BY <1>1 DEF TypeOK, tables, calls
<1>4. RoutesAttached'
  BY <1>1, <1>2 DEF TypeOK, RoutesAttached, tables, Routed, Route, Sockets
<1>5. OwedIsRouted'
  BY <1>1, <1>2 DEF OwedIsRouted, tables, Sockets
<1>6. OwedIsLive'
  BY <1>1, <1>2 DEF OwedIsLive, tables, Sockets
<1>7. CallsAttached'
  BY <1>1, <1>2 DEF CallsAttached, calls, Pending, Sockets
<1> QED BY <1>3, <1>4, <1>5, <1>6, <1>7

-----------------------------------------------------------------------------
(* What the common parts of the operations do.                              *)

\* Dropped routes leave with exactly their timers.
LEMMA Dropped ==
  ASSUME TypeOK, RoutesAttached, NEW D \in SUBSET Routed, DropRoutes(D)
  PROVE  /\ routes' \in [Ids -> Route \cup {None}] /\ timers' \in [Ids -> SUBSET Route]
         /\ \A id \in Ids : /\ routes'[id] = IF id \in D THEN None ELSE routes[id]
                            /\ timers'[id] = {routes'[id]} \ {None}
<1>1. \A id \in Ids : /\ routes'[id] = IF id \in D THEN None ELSE routes[id]
                      /\ timers'[id] = IF id \in D THEN timers[id] \ {routes[id]} ELSE timers[id]
  BY DEF DropRoutes
<1>2. \A id \in Ids : routes[id] \in Route \cup {None} /\ timers[id] = {routes[id]} \ {None}
  BY DEF TypeOK, RoutesAttached
<1>3. \A id \in Ids : timers'[id] = {routes'[id]} \ {None}
  BY <1>1, <1>2
<1>4. routes' \in [Ids -> Route \cup {None}]
  <2>1. \A id \in Ids : (IF id \in D THEN None ELSE routes[id]) \in Route \cup {None}
    BY <1>2
  <2> QED BY <2>1 DEF DropRoutes
<1>5. timers' \in [Ids -> SUBSET Route]
  <2>1. \A id \in Ids :
          (IF id \in D THEN timers[id] \ {routes[id]} ELSE timers[id]) \in SUBSET Route
    BY DEF TypeOK
  <2> QED BY <2>1 DEF DropRoutes
<1> QED BY <1>1, <1>3, <1>4, <1>5

\* Settled calls leave the table with their timers.
LEMMA CallsSettled ==
  ASSUME TypeOK, CallsAttached, NEW K \in SUBSET Pending, NEW outcome \in Settled,
         Settle(K, outcome)
  PROVE  /\ command' \in [Commands -> {"idle", "pending"} \cup Settled]
         /\ target' \in [Commands -> Natives \cup {None}] /\ armed' \subseteq Commands
         /\ Pending' = Pending \ K /\ armed' = Pending'
         /\ \A k \in Commands : target'[k] = IF k \in K THEN None ELSE target[k]
<1>1. command' \in [Commands -> {"idle", "pending"} \cup Settled]
  BY DEF Settle, TypeOK
<1>2. target' \in [Commands -> Natives \cup {None}] /\ armed' \subseteq Commands
  BY DEF Settle, TypeOK
<1>3. \A k \in Commands : /\ command'[k] = IF k \in K THEN outcome ELSE command[k]
                          /\ target'[k] = IF k \in K THEN None ELSE target[k]
  BY DEF Settle
<1>4. Pending' = Pending \ K
  BY <1>3 DEF Pending, Settled
<1>5. armed' = Pending'
  BY <1>4 DEF Settle, CallsAttached
<1> QED BY <1>1, <1>2, <1>3, <1>4, <1>5

\* When routes are dropped and answered in one step, who is still owed what.
LEMMA Answered ==
  ASSUME IInv, NEW D \in SUBSET Routed, Answer({Carries(id) : id \in D}),
         \A id \in Ids : routes'[id] = IF id \in D THEN None ELSE routes[id],
         \A p \in Plugins : Writable(p)' => Writable(p)
  PROVE  /\ owed' \in [Plugins -> SUBSET (Ids \X Natives)]
         /\ \A p \in Plugins : owed'[p] \subseteq owed[p]
         /\ OwedIsRouted'
<1>1. \A p \in Plugins : owed'[p] =
        owed[p] \ {a \in {Carries(id) : id \in D} : routes[a[1]].origin = p /\ Writable(p)}
  BY DEF Answer
<1>2. owed' \in [Plugins -> SUBSET (Ids \X Natives)]
  BY DEF Answer, IInv, TypeOK
<1>3. ASSUME NEW p \in Plugins, Writable(p)', NEW id \in Ids, NEW n \in Natives
      PROVE  <<id, n>> \in owed'[p] <=> routes'[id] = [origin |-> p, native |-> n]
  <2>1. Writable(p) /\ (<<id, n>> \in owed[p] <=> routes[id] = [origin |-> p, native |-> n])
    BY <1>3 DEF IInv, OwedIsRouted
  <2>2. routes'[id] = IF id \in D THEN None ELSE routes[id]
    OBVIOUS
  <2>3. None # [origin |-> p, native |-> n]
    BY SocketAssumption
  <2>4. CASE id \in D
    <3>1. ASSUME routes[id] = [origin |-> p, native |-> n] PROVE <<id, n>> \notin owed'[p]
      <4>1. Carries(id) = <<id, n>> /\ routes[id].origin = p
        BY <3>1 DEF Carries
      <4> QED BY <1>1, <2>1, <2>4, <4>1
    <3>2. <<id, n>> \in owed'[p] => <<id, n>> \in owed[p]
      BY <1>1
    <3> QED BY <2>1, <2>2, <2>3, <2>4, <3>1, <3>2
  <2>5. CASE id \notin D
    <3>1. \A i \in D : Carries(i) # <<id, n>>
      BY <2>5 DEF Carries
    <3>2. <<id, n>> \in owed'[p] <=> <<id, n>> \in owed[p]
      BY <1>1, <3>1
    <3> QED BY <2>1, <2>2, <2>5, <3>2
  <2> QED BY <2>4, <2>5
<1> QED BY <1>1, <1>2, <1>3 DEF OwedIsRouted

\* The client list loses one native at most.
LEMMA Removed ==
  ASSUME TypeOK, RoutesAttached, NEW s \in Sockets
  PROVE  /\ Without(s) \in Seq(Natives) /\ ToSet(Without(s)) = ToSet(order) \ {s}
         /\ \A i, j \in 1..Len(Without(s)) : Without(s)[i] = Without(s)[j] => i = j
<1>1. CASE s \notin ToSet(order)
  BY <1>1 DEF Without, TypeOK, RoutesAttached
<1>2. CASE s \in ToSet(order)
  <2> DEFINE i == CHOOSE x \in 1..Len(order) : order[x] = s
  <2>1. i \in 1..Len(order) /\ order[i] = s
    BY <1>2 DEF ToSet, TypeOK
  <2>2. Without(s) = RemoveAt(order, i)
    BY <1>2 DEF Without
  <2>3. order \in Seq(Natives) /\ \A x, y \in 1..Len(order) : order[x] = order[y] => x = y
    BY DEF TypeOK, RoutesAttached
  <2> HIDE DEF i
  <2>4. /\ RemoveAt(order, i) \in Seq(Natives)
        /\ ToSet(RemoveAt(order, i)) = ToSet(order) \ {order[i]}
        /\ \A x, y \in 1..Len(RemoveAt(order, i)) :
             RemoveAt(order, i)[x] = RemoveAt(order, i)[y] => x = y
    BY ONLY <2>1, <2>3, RemoveOne
  <2> QED BY <2>1, <2>2, <2>4
<1> QED BY <1>1, <1>2

LEMMA RemoveClientIInv == ASSUME IInv, NEW s \in Sockets, RemoveClient(s) PROVE IInv'
<1> USE DEF IInv
<1>1. /\ socket' \in [Sockets -> {"closed", "open", "destroyed"}]
      /\ socket[s] = "destroyed" /\ socket'[s] = "closed"
      /\ \A r \in Sockets : r # s => socket'[r] = socket[r]
  BY DEF RemoveClient, TypeOK
<1>2. /\ order' = Without(s) /\ Settle(CallsOf(s), "disconnected") /\ DropRoutes(RoutesOf(s))
  BY DEF RemoveClient
<1>3. RoutesOf(s) \in SUBSET Routed /\ CallsOf(s) \in SUBSET Pending /\ "disconnected" \in Settled
  BY DEF RoutesOf, CallsOf, Settled
<1>4. /\ routes' \in [Ids -> Route \cup {None}] /\ timers' \in [Ids -> SUBSET Route]
      /\ \A id \in Ids : /\ routes'[id] = IF id \in RoutesOf(s) THEN None ELSE routes[id]
                         /\ timers'[id] = {routes'[id]} \ {None}
  BY <1>2, <1>3, Dropped
<1>5. /\ command' \in [Commands -> {"idle", "pending"} \cup Settled]
      /\ target' \in [Commands -> Natives \cup {None}] /\ armed' \subseteq Commands
      /\ Pending' = Pending \ CallsOf(s) /\ armed' = Pending'
      /\ \A k \in Commands : target'[k] = IF k \in CallsOf(s) THEN None ELSE target[k]
  BY <1>2, <1>3, CallsSettled
<1>6. /\ order' \in Seq(Natives) /\ {n \in Natives : socket'[n] # "closed"} = ToSet(order')
      /\ \A i, j \in 1..Len(order') : order'[i] = order'[j] => i = j
  <2>1. ToSet(order') = ToSet(order) \ {s}
    BY <1>2, Removed
  <2>2. {n \in Natives : socket'[n] # "closed"} = {n \in Natives : socket[n] # "closed"} \ {s}
    BY <1>1 DEF Sockets
  <2> QED BY <1>2, <2>1, <2>2, Removed DEF RoutesAttached
<1>7. /\ owed' \in [Plugins -> SUBSET (Ids \X Natives)]
      /\ \A p \in Plugins : owed'[p] \subseteq owed[p] /\ (p = s => owed'[p] = {})
      /\ OwedIsRouted'
  <2>1. CASE s \in Plugins
    <3>1. owed' = [owed EXCEPT ![s] = {}]
      BY <2>1 DEF RemoveClient
    <3>2. ASSUME NEW p \in Plugins, Writable(p)', NEW id \in Ids, NEW n \in Natives
          PROVE  <<id, n>> \in owed'[p] <=> routes'[id] = [origin |-> p, native |-> n]
      <4>1. p # s /\ Writable(p)
        BY <1>1, <2>1, <3>2 DEF Writable, Sockets
      <4>2. <<id, n>> \in owed'[p] <=> routes[id] = [origin |-> p, native |-> n]
        BY <3>1, <4>1 DEF OwedIsRouted, TypeOK
      <4>3. routes[id] = [origin |-> p, native |-> n] => id \notin RoutesOf(s)
        BY <2>1, <4>1, SocketAssumption DEF RoutesOf
      <4>4. None # [origin |-> p, native |-> n]
        BY SocketAssumption
      <4> QED BY <1>4, <4>2, <4>3, <4>4
    <3>3. OwedIsRouted'
      BY <3>2 DEF OwedIsRouted
    <3> QED BY <2>1, <3>1, <3>3 DEF TypeOK
  <2>2. CASE s \notin Plugins
    <3>1. Answer({Carries(id) : id \in RoutesOf(s)})
      BY <2>2 DEF RemoveClient
    <3>2. \A p \in Plugins : Writable(p)' => Writable(p)
      BY <1>1, <2>2 DEF Writable, Sockets
    <3> QED BY <1>3, <1>4, <2>2, <3>1, <3>2, Answered
  <2> QED BY <2>1, <2>2
<1>8. TypeOK'
  BY <1>1, <1>4, <1>5, <1>6, <1>7 DEF TypeOK
<1>9. RoutesAttached'
  <2>1. ASSUME NEW id \in Ids, id \in Routed'
        PROVE  "closed" \notin {socket'[routes'[id].origin], socket'[routes'[id].native]}
    <3>1. routes'[id] = routes[id] /\ id \in Routed /\ id \notin RoutesOf(s)
      BY <1>4, <2>1 DEF Routed
    <3>2. routes[id] \in Route /\ s \notin {routes[id].origin, routes[id].native}
      BY <3>1 DEF Routed, RoutesOf, TypeOK
    <3> QED BY <1>1, <3>1, <3>2 DEF RoutesAttached, Route, Sockets
  <2> QED BY <1>4, <1>6, <2>1 DEF RoutesAttached
<1>10. OwedIsLive'
  BY <1>1, <1>7 DEF OwedIsLive, Sockets
<1>11. CallsAttached'
  <2>1. ASSUME NEW k \in Commands
        PROVE  IF k \in Pending' THEN target'[k] \in Natives /\ socket'[target'[k]] # "closed"
                                 ELSE target'[k] = None
    <3>1. CASE k \in Pending'
      <4>1. k \in Pending /\ k \notin CallsOf(s) /\ target'[k] = target[k]
        BY <1>5, <3>1
      <4>2. target[k] \in Natives /\ socket[target[k]] # "closed" /\ target[k] # s
        BY <4>1 DEF CallsOf, CallsAttached
      <4> QED BY <1>1, <3>1, <4>1, <4>2 DEF Sockets
    <3>2. CASE k \notin Pending'
      BY <1>5, <3>2 DEF CallsAttached
    <3> QED BY <3>1, <3>2
  <2> QED BY <1>5, <2>1 DEF CallsAttached
<1> QED BY <1>7, <1>8, <1>9, <1>10, <1>11

-----------------------------------------------------------------------------
(* Requests and commands.                                                   *)

LEMMA RequestIInv ==
  ASSUME IInv, NEW p \in Plugins, NEW id \in Ids, Request(p, id) PROVE IInv'
<1> USE DEF IInv
<1>1. PICK n \in Natives :
        /\ FirstWritable(n)
        /\ routes' = [routes EXCEPT ![id] = NewRoute(p, n)]
        /\ timers' = [timers EXCEPT ![id] = @ \cup {NewRoute(p, n)}]
        /\ owed' = [owed EXCEPT ![p] = @ \cup {<<id, n>>}]
  BY DEF Request
<1>2. /\ Writable(p) /\ Writable(n) /\ id \notin Routed /\ UNCHANGED <<socket, order, calls>>
  BY <1>1 DEF Request, FirstWritable, Fresh
<1>3. /\ NewRoute(p, n) = [origin |-> p, native |-> n] /\ NewRoute(p, n) \in Route
      /\ NewRoute(p, n) # None /\ routes[id] = None
  BY <1>2, SocketAssumption DEF NewRoute, Route, Routed
<1>4. TypeOK'
  BY <1>1, <1>2, <1>3 DEF TypeOK, calls
<1>5. RoutesAttached'
  <2>1. ASSUME NEW i \in Ids
        PROVE  /\ timers'[i] = {routes'[i]} \ {None}
               /\ i \in Routed' => "closed" \notin {socket'[routes'[i].origin], socket'[routes'[i].native]}
    <3>1. CASE i = id
      <4>1. timers[id] = {} /\ routes'[i] = NewRoute(p, n) /\ timers'[i] = {NewRoute(p, n)}
        BY <1>1, <1>3, <3>1 DEF RoutesAttached, TypeOK
      <4>2. routes'[i].origin = p /\ routes'[i].native = n
        BY <1>3, <4>1
      <4> QED BY <1>2, <1>3, <4>1, <4>2 DEF Writable
    <3>2. CASE i # id
      BY <1>1, <1>2, <3>2 DEF RoutesAttached, TypeOK, Routed
    <3> QED BY <3>1, <3>2
  <2> QED BY <1>2, <2>1 DEF RoutesAttached
<1>6. OwedIsRouted'
  <2>1. ASSUME NEW q \in Plugins, Writable(q)', NEW i \in Ids, NEW m \in Natives
        PROVE  <<i, m>> \in owed'[q] <=> routes'[i] = [origin |-> q, native |-> m]
    <3>1. Writable(q) /\ (<<i, m>> \in owed[q] <=> routes[i] = [origin |-> q, native |-> m])
      BY <1>2, <2>1 DEF OwedIsRouted, Writable
    <3>2. owed'[q] = IF q = p THEN owed[q] \cup {<<id, n>>} ELSE owed[q]
      BY <1>1 DEF TypeOK
    <3>3. routes'[i] = IF i = id THEN [origin |-> p, native |-> n] ELSE routes[i]
      BY <1>1, <1>3 DEF TypeOK
    <3>4. i = id => <<i, m>> \notin owed[q]
      BY <1>3, <3>1, SocketAssumption
    <3>5. [origin |-> p, native |-> n] = [origin |-> q, native |-> m] <=> p = q /\ n = m
      OBVIOUS
    <3> QED BY <3>1, <3>2, <3>3, <3>4, <3>5
  <2> QED BY <2>1 DEF OwedIsRouted
<1>7. OwedIsLive'
  BY <1>1, <1>2 DEF OwedIsLive, Writable, TypeOK
<1>8. CallsAttached'
  BY <1>2 DEF CallsAttached, calls, Pending
<1> QED BY <1>4, <1>5, <1>6, <1>7, <1>8

\* A result, a timeout: one routed request leaves, answered.
LEMMA RouteEnds ==
  ASSUME IInv, NEW id \in Routed, DropRoutes({id}), Answer({Carries(id)}),
         UNCHANGED <<socket, order, calls>>
  PROVE  IInv'
<1> USE DEF IInv
<1>1. {id} \in SUBSET Routed /\ Routed \subseteq Ids
  BY DEF Routed
<1>2. /\ routes' \in [Ids -> Route \cup {None}] /\ timers' \in [Ids -> SUBSET Route]
      /\ \A i \in Ids : /\ routes'[i] = IF i \in {id} THEN None ELSE routes[i]
                        /\ timers'[i] = {routes'[i]} \ {None}
  BY <1>1, Dropped
<1>3. /\ owed' \in [Plugins -> SUBSET (Ids \X Natives)]
      /\ \A p \in Plugins : owed'[p] \subseteq owed[p]
      /\ OwedIsRouted'
  <2>1. {Carries(i) : i \in {id}} = {Carries(id)}
    OBVIOUS
  <2>2. \A p \in Plugins : Writable(p)' => Writable(p)
    BY DEF Writable
  <2> QED BY <1>1, <1>2, <2>1, <2>2, Answered
<1>4. TypeOK'
  BY <1>2, <1>3 DEF TypeOK, calls
<1>5. RoutesAttached'
  BY <1>2 DEF RoutesAttached, Routed
<1>6. OwedIsLive'
  BY <1>3 DEF OwedIsLive
<1>7. CallsAttached'
  BY DEF CallsAttached, calls, Pending
<1> QED BY <1>3, <1>4, <1>5, <1>6, <1>7

LEMMA ResultIInv ==
  ASSUME IInv, NEW n \in Natives, NEW id \in Ids, Result(n, id) PROVE IInv'
<1>1. id \in Routed /\ Carries(id) = <<id, n>>
  BY DEF Result, Accepts, Carries
<1> QED BY <1>1, RouteEnds DEF Result, FinishRoute

LEMMA RouteTimeoutIInv == ASSUME IInv, NEW id \in Ids, RouteTimeout(id) PROVE IInv'
<1>1. PICK t \in timers[id] :
        /\ IF routes[id] = t
             THEN routes' = [routes EXCEPT ![id] = None] /\ Answer({Carries(id)})
             ELSE UNCHANGED <<routes, owed>>
        /\ timers' = [timers EXCEPT ![id] = @ \ {t}]
        /\ UNCHANGED <<socket, order, calls>>
  BY DEF RouteTimeout
<1>2. routes[id] = t /\ id \in Routed
  BY <1>1 DEF IInv, RoutesAttached, Routed
<1>3. DropRoutes({id})
  BY <1>1, <1>2 DEF DropRoutes, IInv, TypeOK
<1> QED BY <1>1, <1>2, <1>3, RouteEnds

\* The commands of Omegga leave sockets and routes alone.
LEMMA CallStep ==
  ASSUME IInv, UNCHANGED <<socket, order, tables>>,
         command' \in [Commands -> {"idle", "pending"} \cup Settled],
         target' \in [Commands -> Natives \cup {None}], armed' \subseteq Commands,
         CallsAttached'
  PROVE  IInv'
<1> USE DEF IInv, tables
<1>1. TypeOK'
  BY DEF TypeOK
<1>2. RoutesAttached'
  BY DEF RoutesAttached, Routed
<1>3. OwedIsRouted' /\ OwedIsLive'
  BY DEF OwedIsRouted, OwedIsLive, Writable
<1> QED BY <1>1, <1>2, <1>3

LEMMA ExecCommandIInv == ASSUME IInv, NEW k \in Commands, ExecCommand(k) PROVE IInv'
<1>1. PICK n \in Natives : FirstWritable(n) /\ target' = [target EXCEPT ![k] = n]
  BY DEF ExecCommand
<1>2. /\ command' = [command EXCEPT ![k] = "pending"] /\ armed' = armed \cup {k}
      /\ UNCHANGED <<socket, order, tables>> /\ socket[n] = "open"
  BY <1>1 DEF ExecCommand, FirstWritable, Writable
<1>3. /\ command' \in [Commands -> {"idle", "pending"} \cup Settled]
      /\ target' \in [Commands -> Natives \cup {None}] /\ armed' \subseteq Commands
  BY <1>1, <1>2 DEF IInv, TypeOK
<1>4. Pending' = Pending \cup {k}
  BY <1>2 DEF IInv, TypeOK, Pending
<1>5. CallsAttached'
  BY <1>1, <1>2, <1>4 DEF IInv, TypeOK, CallsAttached
<1> QED BY <1>2, <1>3, <1>5, CallStep

LEMMA SettleIInv ==
  ASSUME IInv, NEW k \in Pending, NEW outcome \in Settled, Settle({k}, outcome),
         UNCHANGED <<socket, order, tables>>
  PROVE  IInv'
<1>1. /\ command' \in [Commands -> {"idle", "pending"} \cup Settled]
      /\ target' \in [Commands -> Natives \cup {None}] /\ armed' \subseteq Commands
      /\ Pending' = Pending \ {k} /\ armed' = Pending'
      /\ \A c \in Commands : target'[c] = IF c \in {k} THEN None ELSE target[c]
  <2>1. {k} \in SUBSET Pending
    OBVIOUS
  <2> QED BY <2>1, CallsSettled DEF IInv
<1>2. CallsAttached'
  BY <1>1 DEF IInv, CallsAttached
<1> QED BY <1>1, <1>2, CallStep

LEMMA StopIInv == ASSUME IInv, Stop PROVE IInv'
<1> USE DEF IInv
<1>1. /\ socket' = [s \in Sockets |-> "closed"] /\ order' = <<>> /\ owed' = [p \in Plugins |-> {}]
  BY DEF Stop
<1>2. /\ routes' \in [Ids -> Route \cup {None}] /\ timers' \in [Ids -> SUBSET Route]
      /\ \A id \in Ids : /\ routes'[id] = IF id \in Routed THEN None ELSE routes[id]
                         /\ timers'[id] = {routes'[id]} \ {None}
  BY Dropped DEF Stop
<1>3. /\ command' \in [Commands -> {"idle", "pending"} \cup Settled]
      /\ target' \in [Commands -> Natives \cup {None}] /\ armed' \subseteq Commands
      /\ Pending' = Pending \ Pending /\ armed' = Pending'
      /\ \A k \in Commands : target'[k] = IF k \in Pending THEN None ELSE target[k]
  <2>1. Pending \in SUBSET Pending /\ "stopped" \in Settled /\ Settle(Pending, "stopped")
    BY DEF Stop, Settled
  <2> QED BY <2>1, CallsSettled
<1>4. \A id \in Ids : routes'[id] = None
  BY <1>2 DEF Routed
<1>5. order' \in Seq(Natives) /\ Len(order') = 0 /\ ToSet(order') = {}
  BY <1>1 DEF ToSet
<1>6. TypeOK'
  BY <1>1, <1>2, <1>3, <1>5 DEF TypeOK
<1>7. RoutesAttached'
  BY <1>1, <1>2, <1>4, <1>5 DEF RoutesAttached, Routed, Sockets
<1>8. OwedIsRouted' /\ OwedIsLive'
  BY <1>1 DEF OwedIsRouted, OwedIsLive, Writable, Sockets
<1>9. CallsAttached'
  BY <1>3 DEF CallsAttached
<1> QED BY <1>6, <1>7, <1>8, <1>9

LEMMA NextIInv == IInv /\ [Next]_vars => IInv'
<1> SUFFICES ASSUME IInv, [Next]_vars PROVE IInv'
  OBVIOUS
<1>1. ASSUME NEW n \in Natives, NEW k \in Commands, Response(n, k) PROVE IInv'
  BY <1>1, SettleIInv DEF Response, Settled
<1>2. ASSUME NEW k \in Commands, CommandTimeout(k) PROVE IInv'
  <2>1. k \in Pending
    BY <1>2 DEF CommandTimeout, IInv, CallsAttached
  <2> QED BY <1>2, <2>1, SettleIInv DEF CommandTimeout, Expire, Settled
<1>3. CASE UNCHANGED vars
  BY <1>3 DEF vars, tables, calls, IInv, TypeOK, RoutesAttached, OwedIsRouted, OwedIsLive,
              CallsAttached, Routed, Pending, Writable
<1> QED BY <1>1, <1>2, <1>3, ConnectIInv, BreakIInv, RemoveClientIInv, RequestIInv, ResultIInv,
           RouteTimeoutIInv, ExecCommandIInv, StopIInv DEF Next

LEMMA Invariant == Spec => []IInv
  BY InitIInv, NextIInv, PTL DEF Spec

\* The broker's tables keep their shape for any plugins, natives, ids and limits.
THEOREM BrokerTypeCorrect == Spec => []TypeOK
  BY Invariant, PTL DEF IInv

\* Every route joins two attached sockets and every call waits on one, each with
\* exactly its own timer, and the native list is the attached natives
\* (bmfSocketBridge.ts: #pendingTunnelRoutes, #pendingCommands, #bmfClients).
THEOREM TablesAgreeHolds == Spec => []TablesAgree
  BY Invariant, PTL DEF IInv, TablesAgree

\* A plugin is owed an answer for exactly the requests routed back to it, by the
\* native each was sent to (bmfSocketBridge.ts: routeTunnelRequest,
\* routeTunnelResponse, removeClient).
THEOREM OwedIsRoutedHolds == Spec => []OwedIsRouted
  BY Invariant, PTL DEF IInv

-----------------------------------------------------------------------------
(* The limits.                                                              *)

Limited(table, limit) == IsFiniteSet(table) /\ Cardinality(table) <= limit

BInv == Limited(Routed, MaxRoutes) /\ Limited(Pending, MaxPending)

\* A table that loses entries stays within its limit.
LEMMA LimitedSubset ==
  ASSUME NEW S, NEW T \in SUBSET S, NEW limit \in Nat, Limited(S, limit)
  PROVE  Limited(T, limit)
<1>1. IsFiniteSet(T) /\ Cardinality(T) <= Cardinality(S)
  BY FS_Subset DEF Limited
<1>2. Cardinality(S) \in Nat /\ Cardinality(T) \in Nat
  BY <1>1, FS_CardinalityType DEF Limited
<1> QED BY <1>1, <1>2 DEF Limited

\* A table with room may gain one entry.
LEMMA LimitedAdd ==
  ASSUME NEW S, NEW e, NEW limit \in Nat, Limited(S, limit), HasRoom(S, limit)
  PROVE  Limited(S \cup {e}, limit)
<1>1. Cardinality(S) \in Nat
  BY FS_CardinalityType DEF Limited
<1>2. IsFiniteSet(S \cup {e}) /\ Cardinality(S \cup {e}) = IF e \in S THEN Cardinality(S) ELSE Cardinality(S) + 1
  BY FS_AddElement DEF Limited
<1> QED BY <1>1, <1>2 DEF Limited, HasRoom

\* A step of a table that stays within its limit.
LEMMA LimitedStep ==
  ASSUME NEW S, NEW T, NEW E, NEW limit \in Nat, Limited(S, limit),
         T \subseteq S \/ (HasRoom(S, limit) /\ \E e \in E : T \subseteq S \cup {e})
  PROVE  Limited(T, limit)
<1>1. CASE T \subseteq S
  <2>1. T \in SUBSET S
    BY <1>1
  <2> QED BY <2>1, LimitedSubset
<1>2. CASE HasRoom(S, limit) /\ \E e \in E : T \subseteq S \cup {e}
  <2>1. PICK e \in E : T \subseteq S \cup {e}
    BY <1>2
  <2>2. Limited(S \cup {e}, limit)
    BY <1>2, LimitedAdd
  <2>3. T \in SUBSET (S \cup {e})
    BY <2>1
  <2> QED BY <2>2, <2>3, LimitedSubset
<1> QED BY <1>1, <1>2

\* The routes and the calls that a step may add.
LEMMA TableSteps ==
  ASSUME IInv, [Next]_vars
  PROVE  /\ \/ Routed' \subseteq Routed
            \/ HasRoom(Routed, MaxRoutes) /\ \E id \in Ids : Routed' \subseteq Routed \cup {id}
         /\ \/ Pending' \subseteq Pending
            \/ HasRoom(Pending, MaxPending) /\ \E k \in Commands : Pending' \subseteq Pending \cup {k}
<1> USE DEF IInv
<1>1. ASSUME NEW D, DropRoutes(D) PROVE Routed' \subseteq Routed
  BY <1>1 DEF DropRoutes, Routed
<1>2. ASSUME NEW K, NEW outcome \in Settled, Settle(K, outcome) PROVE Pending' \subseteq Pending
  BY <1>2 DEF Settle, Settled, Pending
<1>3. ASSUME NEW p \in Plugins, NEW id \in Ids, Request(p, id)
      PROVE  HasRoom(Routed, MaxRoutes) /\ Routed' \subseteq Routed \cup {id} /\ Pending' = Pending
  BY <1>3 DEF Request, Routed, Pending, calls, TypeOK
<1>4. ASSUME NEW k \in Commands, ExecCommand(k)
      PROVE  HasRoom(Pending, MaxPending) /\ Pending' \subseteq Pending \cup {k} /\ Routed' = Routed
  BY <1>4 DEF ExecCommand, Routed, Pending, tables, TypeOK
<1>5. ASSUME NEW id \in Ids, RouteTimeout(id) PROVE Routed' \subseteq Routed /\ Pending' = Pending
  BY <1>5 DEF RouteTimeout, Routed, Pending, calls, TypeOK
<1>6. ASSUME NEW s \in Sockets, Connect(s) \/ Break(s) PROVE Routed' = Routed /\ Pending' = Pending
  BY <1>6 DEF Connect, Break, Routed, Pending, tables, calls
<1>7. ASSUME NEW s \in Sockets, RemoveClient(s) PROVE Routed' \subseteq Routed /\ Pending' \subseteq Pending
  BY <1>1, <1>2, <1>7 DEF RemoveClient, Settled
<1>8. ASSUME NEW n \in Natives, NEW id \in Ids, Result(n, id)
      PROVE  Routed' \subseteq Routed /\ Pending' = Pending
  BY <1>1, <1>8 DEF Result, FinishRoute, Pending, calls
<1>9. ASSUME NEW n \in Natives, NEW k \in Commands, Response(n, k)
      PROVE  Routed' = Routed /\ Pending' \subseteq Pending
  BY <1>2, <1>9 DEF Response, Settled, Routed, tables
<1>10. ASSUME NEW k \in Commands, CommandTimeout(k) PROVE Routed' = Routed /\ Pending' \subseteq Pending
  BY <1>2, <1>10 DEF CommandTimeout, Expire, Settled, Routed, tables
<1>11. CASE Stop
  BY <1>1, <1>2, <1>11 DEF Stop, Settled
<1>12. CASE UNCHANGED vars
  BY <1>12 DEF vars, tables, calls, Routed, Pending
<1> QED BY <1>3, <1>4, <1>5, <1>6, <1>7, <1>8, <1>9, <1>10, <1>11, <1>12 DEF Next

\* Neither table ever exceeds its limit (bmfSocketBridge.ts:
\* MAX_PENDING_TUNNEL_ROUTES, maxPendingCommands).
THEOREM BoundedHolds == Spec => []Bounded
<1>1. Init => BInv
  <2>1. Init => Routed = {} /\ Pending = {}
    BY DEF Init, Routed, Pending
  <2> QED BY <2>1, FS_EmptySet, BoundAssumption DEF BInv, Limited
<1>2. IInv /\ BInv /\ [Next]_vars => BInv'
  <2> SUFFICES ASSUME IInv, BInv, [Next]_vars PROVE BInv'
    OBVIOUS
  <2>1. Limited(Routed, MaxRoutes) /\ Limited(Pending, MaxPending)
        /\ MaxRoutes \in Nat /\ MaxPending \in Nat
    BY BoundAssumption DEF BInv
  <2>2. Limited(Routed', MaxRoutes)
    <3>1. Routed' \subseteq Routed
          \/ (HasRoom(Routed, MaxRoutes) /\ \E id \in Ids : Routed' \subseteq Routed \cup {id})
      BY TableSteps
    <3> QED BY ONLY <2>1, <3>1, LimitedStep
  <2>3. Limited(Pending', MaxPending)
    <3>1. Pending' \subseteq Pending
          \/ (HasRoom(Pending, MaxPending) /\ \E k \in Commands : Pending' \subseteq Pending \cup {k})
      BY TableSteps
    <3> QED BY ONLY <2>1, <3>1, LimitedStep
  <2> QED BY <2>2, <2>3 DEF BInv, Limited
<1>3. BInv => Bounded
  BY DEF BInv, Limited, Bounded
<1> QED BY <1>1, <1>2, <1>3, Invariant, PTL DEF Spec

-----------------------------------------------------------------------------
(* The native client: lines in order.                                       *)

Rising(s) == \A i, j \in 1..Len(s) : i < j => s[i] < s[j]

\* The lines of a rising queue after one of the operations of the client.
LEMMA Lines ==
  ASSUME NEW s \in Seq(Nat)
  PROVE  /\ Len(s) \in Nat /\ ToSet(s) = {s[i] : i \in 1..Len(s)} /\ ToSet(s) \subseteq Nat
         /\ (s = <<>> <=> ToSet(s) = {})
BY DEF ToSet

LEMMA NoLines == Rising(<<>>) /\ ToSet(<<>>) = {} /\ <<>> \in Seq(Nat) /\ Len(<<>>) = 0
BY DEF Rising, ToSet

LEMMA FirstTaken ==
  ASSUME NEW s \in Seq(Nat), s # <<>>, Rising(s)
  PROVE  /\ Tail(s) \in Seq(Nat) /\ Rising(Tail(s)) /\ Len(Tail(s)) = Len(s) - 1
         /\ Head(s) \in Nat /\ ToSet(s) = {Head(s)} \cup ToSet(Tail(s))
         /\ \A y \in ToSet(Tail(s)) : Head(s) < y
<1>1. /\ Tail(s) \in Seq(Nat) /\ Len(Tail(s)) = Len(s) - 1 /\ Head(s) = s[1] /\ Len(s) \in Nat \ {0}
      /\ \A i \in 1..(Len(s) - 1) : Tail(s)[i] = s[i + 1]
      /\ \A i \in 1..Len(s) : s[i] \in Nat
  OBVIOUS
<1> DEFINE t == Tail(s)
<1>2. t \in Seq(Nat) /\ Len(t) = Len(s) - 1 /\ \A i \in 1..(Len(s) - 1) : t[i] = s[i + 1]
  BY <1>1
<1> HIDE DEF t
<1>3. Rising(t)
  BY <1>1, <1>2 DEF Rising
<1>4. ToSet(t) = {t[i] : i \in 1..(Len(s) - 1)} /\ ToSet(s) = {s[i] : i \in 1..Len(s)}
  BY <1>2, Lines
<1>5. ASSUME NEW y \in ToSet(t) PROVE s[1] < y /\ y \in ToSet(s)
  <2>1. PICK i \in 1..(Len(s) - 1) : y = t[i]
    BY <1>4
  <2>2. i + 1 \in 1..Len(s) /\ 1 \in 1..Len(s) /\ 1 < i + 1 /\ y = s[i + 1]
    BY <1>1, <1>2, <2>1
  <2> QED BY <1>4, <2>2 DEF Rising
<1>6. ASSUME NEW y \in ToSet(s), y # s[1] PROVE y \in ToSet(t)
  <2>1. PICK i \in 1..Len(s) : y = s[i]
    BY <1>4
  <2>2. i - 1 \in 1..(Len(s) - 1) /\ (i - 1) + 1 = i
    BY <1>1, <1>6, <2>1
  <2> QED BY <1>2, <1>4, <2>1, <2>2
<1>7. s[1] \in ToSet(s)
  BY <1>1, <1>4
<1> QED BY <1>1, <1>2, <1>3, <1>5, <1>6, <1>7 DEF t

LEMMA LastAdded ==
  ASSUME NEW s \in Seq(Nat), Rising(s), NEW n \in Nat, \A y \in ToSet(s) : y < n
  PROVE  /\ Append(s, n) \in Seq(Nat) /\ Rising(Append(s, n)) /\ Len(Append(s, n)) = Len(s) + 1
         /\ ToSet(Append(s, n)) = ToSet(s) \cup {n} /\ Append(s, n) # <<>>
         /\ Head(Append(s, n)) = IF s = <<>> THEN n ELSE Head(s)
<1> DEFINE t == Append(s, n)
<1>1. /\ t \in Seq(Nat) /\ Len(t) = Len(s) + 1 /\ Len(s) \in Nat /\ t # <<>>
      /\ \A i \in 1..Len(s) : t[i] = s[i] /\ s[i] \in Nat
      /\ t[Len(s) + 1] = n
      /\ Head(t) = t[1] /\ (s # <<>> => Head(s) = s[1] /\ 1 \in 1..Len(s))
      /\ (s = <<>> => Len(s) = 0)
  <2>1. t \in Seq(Nat) /\ Len(t) = Len(s) + 1 /\ Len(s) \in Nat
    OBVIOUS
  <2>2. \A i \in 1..Len(s) : t[i] = s[i] /\ s[i] \in Nat
    OBVIOUS
  <2>3. t[Len(s) + 1] = n
    OBVIOUS
  <2>4. (s # <<>> => Head(s) = s[1] /\ 1 \in 1..Len(s)) /\ (s = <<>> => Len(s) = 0)
    OBVIOUS
  <2> HIDE DEF t
  <2>5. t # <<>> /\ Head(t) = t[1]
    BY <2>1
  <2> QED BY <2>1, <2>2, <2>3, <2>4, <2>5
<1> HIDE DEF t
<1>2. ToSet(t) = {t[i] : i \in 1..(Len(s) + 1)} /\ ToSet(s) = {s[i] : i \in 1..Len(s)}
  BY <1>1, Lines
<1>3. ToSet(t) = ToSet(s) \cup {n}
  <2>1. \A i \in 1..(Len(s) + 1) : i \in 1..Len(s) \/ i = Len(s) + 1
    BY <1>1
  <2>2. 1..Len(s) \subseteq 1..(Len(s) + 1) /\ Len(s) + 1 \in 1..(Len(s) + 1)
    BY <1>1
  <2> QED BY <1>1, <1>2, <2>1, <2>2
<1>4. \A i \in 1..Len(s) : s[i] < n
  BY <1>2
<1>5. Rising(t)
  <2> SUFFICES ASSUME NEW i \in 1..(Len(s) + 1), NEW j \in 1..(Len(s) + 1), i < j PROVE t[i] < t[j]
    BY <1>1 DEF Rising
  <2>1. i \in 1..Len(s) /\ (j \in 1..Len(s) \/ j = Len(s) + 1)
    BY <1>1
  <2> QED BY <1>1, <1>4, <2>1 DEF Rising
<1> QED BY <1>1, <1>3, <1>5 DEF t

LEMMA FirstAdded ==
  ASSUME NEW s \in Seq(Nat), Rising(s), NEW n \in Nat, \A y \in ToSet(s) : n < y
  PROVE  /\ <<n>> \o s \in Seq(Nat) /\ Rising(<<n>> \o s) /\ ToSet(<<n>> \o s) = {n} \cup ToSet(s)
<1> DEFINE t == <<n>> \o s
<1>1. /\ t \in Seq(Nat) /\ Len(t) = 1 + Len(s) /\ Len(s) \in Nat /\ t[1] = n
      /\ \A i \in 1..Len(s) : t[i + 1] = s[i] /\ s[i] \in Nat
  <2>1. /\ t \in Seq(Nat) /\ Len(t) = 1 + Len(s) /\ Len(s) \in Nat
        /\ \A i \in 1..(1 + Len(s)) : t[i] = IF i <= 1 THEN <<n>>[i] ELSE s[i - 1]
    <3>1. <<n>> \in Seq(Nat) /\ Len(<<n>>) = 1 /\ s \in Seq(Nat)
      OBVIOUS
    <3> QED BY <3>1, ConcatProperties
  <2> HIDE DEF t
  <2>2. ASSUME NEW i \in 1..Len(s) PROVE t[i + 1] = s[i] /\ s[i] \in Nat
    <3>1. i + 1 \in 1..(1 + Len(s)) /\ ~(i + 1 <= 1) /\ (i + 1) - 1 = i
      BY <2>1
    <3> QED BY <2>1, <3>1
  <2>3. t[1] = n
    BY <2>1
  <2> QED BY <2>1, <2>2, <2>3
<1> HIDE DEF t
<1>2. ToSet(t) = {t[i] : i \in 1..(1 + Len(s))} /\ ToSet(s) = {s[i] : i \in 1..Len(s)}
  BY <1>1, Lines
<1>3. \A i \in 1..(1 + Len(s)) : i = 1 \/ (i - 1 \in 1..Len(s) /\ (i - 1) + 1 = i)
  BY <1>1
<1>4. ToSet(t) = {n} \cup ToSet(s)
  <2>1. ASSUME NEW y \in ToSet(t) PROVE y \in {n} \cup ToSet(s)
    <3>1. PICK i \in 1..(1 + Len(s)) : y = t[i]
      BY <1>2
    <3>2. i = 1 \/ (i - 1 \in 1..Len(s) /\ t[i] = s[i - 1])
      <4>1. CASE i = 1
        BY <4>1
      <4>2. CASE i # 1
        <5>1. i - 1 \in 1..Len(s) /\ (i - 1) + 1 = i
          BY <1>3, <4>2
        <5>2. t[(i - 1) + 1] = s[i - 1]
          BY <1>1, <5>1
        <5> QED BY <5>1, <5>2
      <4> QED BY <4>1, <4>2
    <3> QED BY <1>1, <1>2, <3>1, <3>2
  <2>2. ASSUME NEW y \in ToSet(s) PROVE y \in ToSet(t)
    <3>1. PICK i \in 1..Len(s) : y = s[i]
      BY <1>2
    <3>2. i + 1 \in 1..(1 + Len(s)) /\ t[i + 1] = y
      BY <1>1, <3>1
    <3> QED BY <1>2, <3>2
  <2>3. n \in ToSet(t)
    BY <1>1, <1>2
  <2> QED BY <2>1, <2>2, <2>3
<1>5. Rising(t)
  <2> SUFFICES ASSUME NEW i \in 1..(1 + Len(s)), NEW j \in 1..(1 + Len(s)), i < j PROVE t[i] < t[j]
    BY <1>1 DEF Rising
  <2>1. j - 1 \in 1..Len(s) /\ t[j] = s[j - 1]
    <3>1. j - 1 \in 1..Len(s) /\ (j - 1) + 1 = j
      BY <1>1
    <3>2. t[(j - 1) + 1] = s[j - 1]
      BY <1>1, <3>1
    <3> QED BY <3>1, <3>2
  <2>2. CASE i = 1
    <3>1. s[j - 1] \in ToSet(s)
      BY <1>2, <2>1
    <3> QED BY <1>1, <2>1, <2>2, <3>1
  <2>3. CASE i # 1
    <3>1. i - 1 \in 1..Len(s) /\ (i - 1) + 1 = i /\ i - 1 < j - 1
      BY <1>1, <2>3
    <3>2. t[(i - 1) + 1] = s[i - 1]
      BY <1>1, <3>1
    <3>3. s[i - 1] < s[j - 1]
      BY <2>1, <3>1 DEF Rising
    <3> QED BY <2>1, <3>1, <3>2, <3>3
  <2> QED BY <2>2, <2>3
<1> QED BY <1>1, <1>4, <1>5 DEF t

LEMMA SomeTaken ==
  ASSUME NEW s \in Seq(Nat), Rising(s), NEW n \in 1..Len(s)
  PROVE  /\ SubSeq(s, n + 1, Len(s)) \in Seq(Nat) /\ Rising(SubSeq(s, n + 1, Len(s)))
         /\ Len(SubSeq(s, n + 1, Len(s))) <= Len(s)
         /\ s[n] \in ToSet(s)
         /\ ToSet(SubSeq(s, n + 1, Len(s))) = {y \in ToSet(s) : s[n] < y}
<1> DEFINE t == SubSeq(s, n + 1, Len(s))
<1>1. /\ t \in Seq(Nat) /\ Len(t) = Len(s) - n /\ Len(s) \in Nat /\ n \in Nat
      /\ \A i \in 1..(Len(s) - n) : t[i] = s[i + n]
      /\ \A i \in 1..Len(s) : s[i] \in Nat
  OBVIOUS
<1> HIDE DEF t
<1>2. ToSet(t) = {t[i] : i \in 1..(Len(s) - n)} /\ ToSet(s) = {s[i] : i \in 1..Len(s)}
  BY <1>1, Lines
<1>3. \A i \in 1..(Len(s) - n) : i + n \in 1..Len(s) /\ n < i + n
  BY <1>1
<1>4. Rising(t)
  <2> SUFFICES ASSUME NEW i \in 1..(Len(s) - n), NEW j \in 1..(Len(s) - n), i < j PROVE t[i] < t[j]
    BY <1>1 DEF Rising
  <2>1. i + n \in 1..Len(s) /\ j + n \in 1..Len(s) /\ i + n < j + n
    BY <1>1
  <2>2. s[i + n] < s[j + n]
    BY <2>1 DEF Rising
  <2> QED BY <1>1, <2>2
<1>5. ASSUME NEW y \in ToSet(t) PROVE y \in ToSet(s) /\ s[n] < y
  <2>1. PICK i \in 1..(Len(s) - n) : y = s[i + n]
    BY <1>1, <1>2
  <2> QED BY <1>2, <1>3, <2>1 DEF Rising
<1>6. ASSUME NEW y \in ToSet(s), s[n] < y PROVE y \in ToSet(t)
  <2>1. PICK i \in 1..Len(s) : y = s[i]
    BY <1>2
  <2>2. ~(i <= n)
    <3>1. SUFFICES ASSUME i <= n PROVE FALSE
      OBVIOUS
    <3>2. i = n \/ s[i] < s[n]
      BY <1>1, <3>1 DEF Rising
    <3> QED BY <1>1, <1>6, <2>1, <3>2
  <2>3. i - n \in 1..(Len(s) - n) /\ (i - n) + n = i
    BY <1>1, <2>2
  <2>4. t[i - n] = s[(i - n) + n]
    BY <1>1, <2>3
  <2> QED BY <1>2, <2>1, <2>3, <2>4
<1>7. Len(t) <= Len(s) /\ s[n] \in ToSet(s)
  BY <1>1, <1>2
<1> QED BY <1>1, <1>4, <1>5, <1>6, <1>7 DEF t

LEMMA LinesIn ==
  ASSUME NEW s \in Seq(Nat), NEW T, ToSet(s) \subseteq T
  PROVE  s \in Seq(T)
BY DEF ToSet

\* The strengthening: each direction is in order from end to end, a batch is
\* sent in one go, and a client that runs has lines on a connection only.
ResultsInv ==
  /\ {outbound, batch, wire} \subseteq Seq(Nat)
  /\ Rising(outbound) /\ Rising(batch) /\ Rising(wire)
  /\ \A x \in ToSet(wire), y \in ToSet(batch) \cup ToSet(outbound) : x < y
  /\ \A x \in ToSet(batch), y \in ToSet(outbound) : x < y
  /\ \A x \in Outgoing : heard < x /\ x <= sent
  /\ heard <= sent

RequestsInv ==
  /\ {inbound, inwire} \subseteq Seq(Nat)
  /\ Rising(inbound) /\ Rising(inwire)
  /\ \A x \in ToSet(inbound), y \in ToSet(inwire) : x < y
  /\ \A x \in Incoming : handed < x /\ x <= asked
  /\ handed <= asked

ThreadInv ==
  /\ batch # <<>> => worker = "sending"
  /\ worker \in {"none", "starting", "connect", "pause", "exited"} => conn = "none"
  /\ worker \in {"loop", "sending", "select"} => conn # "none"
  /\ worker = "close" => conn = "broken" \/ ~running
  /\ conn = "none" => inwire = <<>>
  /\ wire # <<>> => conn = "up" \/ (~running /\ worker # "none") \/ game = "stopped"
  /\ running => worker # "none" /\ game \in {"running", "terminated"}

ClientInv == ClientTypeOK /\ ResultsInv /\ RequestsInv /\ ThreadInv

\* What a step may do to the lines for the broker.
ResultsMove ==
  /\ ResultsInv'
  /\ \A n \in Outgoing \ Outgoing' : n <= heard' \/ conn = "broken" \/ conn' = "broken"
  /\ \/ UNCHANGED <<sent, heard>>
     \/ sent' = sent + 1 /\ heard' = heard
     \/ heard' \in (heard + 1)..sent /\ sent' = sent

LEMMA ResultsStep == ClientInv /\ [ClientNext]_clientVars => ResultsMove
<1> SUFFICES ASSUME ClientInv, [ClientNext]_clientVars PROVE ResultsMove
  OBVIOUS
<1>1. /\ outbound \in Seq(Nat) /\ batch \in Seq(Nat) /\ wire \in Seq(Nat)
      /\ sent \in Nat /\ heard \in Nat /\ heard <= sent
      /\ Rising(outbound) /\ Rising(batch) /\ Rising(wire)
      /\ \A x \in ToSet(wire), y \in ToSet(batch) \cup ToSet(outbound) : x < y
      /\ \A x \in ToSet(batch), y \in ToSet(outbound) : x < y
      /\ \A x \in ToSet(wire) \cup ToSet(batch) \cup ToSet(outbound) : heard < x /\ x <= sent /\ x \in Nat
  <2>1. /\ outbound \in Seq(Nat) /\ batch \in Seq(Nat) /\ wire \in Seq(Nat)
        /\ sent \in Nat /\ heard \in Nat
    BY DEF ClientInv, ResultsInv, ClientTypeOK
  <2>2. \A x \in ToSet(wire) \cup ToSet(batch) \cup ToSet(outbound) : x \in Nat
    BY <2>1, Lines
  <2> QED BY <2>1, <2>2 DEF ClientInv, ResultsInv, Outgoing
<1>2. CASE UNCHANGED <<outbound, batch, wire, sent, heard>>
  BY <1>2 DEF ClientInv, ResultsInv, ResultsMove, Outgoing
<1>3. CASE SendLine
  <2>1. /\ sent' = sent + 1 /\ outbound' = Append(outbound, sent + 1)
        /\ UNCHANGED <<batch, wire, heard>>
    BY <1>3 DEF SendLine, linkVars
  <2>2. \A y \in ToSet(outbound) : y < sent + 1
    BY <1>1
  <2>3. /\ outbound' \in Seq(Nat) /\ Rising(outbound')
        /\ ToSet(outbound') = ToSet(outbound) \cup {sent + 1}
    <3>1. sent + 1 \in Nat
      BY <1>1
    <3> QED BY <1>1, <2>1, <2>2, <3>1, LastAdded
  <2>4. ResultsInv'
    <3>1. heard < sent + 1 \/ heard >= sent + 1
      BY <1>1
    <3>2. \A x \in Outgoing' : heard' < x /\ x <= sent'
      <4> SUFFICES ASSUME NEW x \in Outgoing' PROVE heard < x /\ x <= sent + 1
        BY <2>1
      <4>1. x = sent + 1 \/ (heard < x /\ x <= sent /\ x \in Nat)
        BY <1>1, <2>1, <2>3 DEF Outgoing
      <4>2. heard <= sent
        BY DEF ClientInv, ResultsInv
      <4> QED BY <1>1, <4>1, <4>2
    <3>3. heard' <= sent'
      BY <1>1, <2>1 DEF ClientInv, ResultsInv
    <3>4. /\ {outbound', batch', wire'} \subseteq Seq(Nat)
          /\ Rising(outbound') /\ Rising(batch') /\ Rising(wire')
          /\ \A x \in ToSet(wire'), y \in ToSet(batch') \cup ToSet(outbound') : x < y
          /\ \A x \in ToSet(batch'), y \in ToSet(outbound') : x < y
      BY <1>1, <2>1, <2>2, <2>3
    <3> QED BY <3>2, <3>3, <3>4 DEF ResultsInv
  <2> QED BY <2>1, <2>3, <2>4 DEF ResultsMove, Outgoing
<1>4. CASE ConnectSucceeds
  <2>1. wire' = <<>> /\ wire = <<>> /\ UNCHANGED <<outbound, batch, sent, heard>>
    BY <1>4 DEF ConnectSucceeds, Goes, countVars, ClientInv, ThreadInv
  <2> QED BY <1>2, <2>1
<1>5. CASE Swap
  <2>1. /\ batch = <<>> /\ batch' = outbound /\ outbound' = <<>>
        /\ UNCHANGED <<wire, sent, heard>>
    BY <1>5 DEF Swap, Goes, countVars, linkVars, ClientInv, ThreadInv
  <2>2. Outgoing' = Outgoing
    BY <2>1, NoLines DEF Outgoing
  <2>3. ResultsInv'
    BY <1>1, <2>1, NoLines DEF ResultsInv, Outgoing
  <2> QED BY <2>1, <2>2, <2>3 DEF ResultsMove
<1>6. CASE Send
  <2>1. /\ batch # <<>> /\ wire' = Append(wire, Head(batch)) /\ batch' = Tail(batch)
        /\ UNCHANGED <<outbound, sent, heard>>
    BY <1>6 DEF Send, Goes, countVars
  <2>2. /\ Tail(batch) \in Seq(Nat) /\ Rising(Tail(batch)) /\ Head(batch) \in Nat
        /\ ToSet(batch) = {Head(batch)} \cup ToSet(Tail(batch))
        /\ \A y \in ToSet(Tail(batch)) : Head(batch) < y
    BY <1>1, <2>1, FirstTaken
  <2>3. \A y \in ToSet(wire) : y < Head(batch)
    BY <1>1, <2>2
  <2>4. /\ wire' \in Seq(Nat) /\ Rising(wire') /\ ToSet(wire') = ToSet(wire) \cup {Head(batch)}
    BY <1>1, <2>1, <2>2, <2>3, LastAdded
  <2>5. Outgoing' = Outgoing
    BY <2>1, <2>2, <2>4 DEF Outgoing
  <2>6. ResultsInv'
    BY <1>1, <2>1, <2>2, <2>4 DEF ResultsInv, Outgoing
  <2> QED BY <2>1, <2>5, <2>6 DEF ResultsMove
<1>7. CASE Swallowed
  <2>1. /\ batch # <<>> /\ batch' = Tail(batch) /\ conn = "broken"
        /\ UNCHANGED <<outbound, wire, sent, heard>>
    BY <1>7 DEF Swallowed, Goes, countVars, linkVars
  <2>2. /\ Tail(batch) \in Seq(Nat) /\ Rising(Tail(batch))
        /\ ToSet(batch) = {Head(batch)} \cup ToSet(Tail(batch))
    BY <1>1, <2>1, FirstTaken
  <2>3. ResultsInv'
    BY <1>1, <2>1, <2>2 DEF ResultsInv, Outgoing
  <2> QED BY <2>1, <2>3 DEF ResultsMove
<1>8. CASE SendFails
  <2>1. /\ batch # <<>> /\ conn = "broken" /\ batch' = <<>>
        /\ outbound' = <<Head(batch)>> \o outbound /\ UNCHANGED <<wire, sent, heard>>
    BY <1>8 DEF SendFails, Requeued, Goes, countVars, linkVars
  <2>2. Head(batch) \in Nat /\ Head(batch) \in ToSet(batch)
    BY <1>1, <2>1, FirstTaken
  <2>3. \A y \in ToSet(outbound) : Head(batch) < y
    BY <1>1, <2>2
  <2>4. /\ outbound' \in Seq(Nat) /\ Rising(outbound')
        /\ ToSet(outbound') = {Head(batch)} \cup ToSet(outbound)
    BY <1>1, <2>1, <2>2, <2>3, FirstAdded
  <2>5. ResultsInv'
    BY <1>1, <2>1, <2>2, <2>4, NoLines DEF ResultsInv, Outgoing
  <2> QED BY <2>1, <2>5 DEF ResultsMove
<1>9. CASE BrokerReads
  <2>1. /\ wire # <<>> /\ heard' = Head(wire) /\ wire' = Tail(wire)
        /\ UNCHANGED <<outbound, batch, sent>>
    BY <1>9 DEF BrokerReads
  <2>2. /\ Tail(wire) \in Seq(Nat) /\ Rising(Tail(wire)) /\ Head(wire) \in Nat
        /\ ToSet(wire) = {Head(wire)} \cup ToSet(Tail(wire))
        /\ \A y \in ToSet(Tail(wire)) : Head(wire) < y
    BY <1>1, <2>1, FirstTaken
  <2>3. heard' \in (heard + 1)..sent
    BY <1>1, <2>1, <2>2
  <2>4. ResultsInv'
    BY <1>1, <2>1, <2>2 DEF ResultsInv, Outgoing
  <2>5. \A n \in Outgoing \ Outgoing' : n <= heard'
    BY <2>1, <2>2 DEF Outgoing
  <2> QED BY <2>1, <2>3, <2>4, <2>5 DEF ResultsMove
<1>10. CASE Breaks
  <2>1. wire' = <<>> /\ conn' = "broken" /\ UNCHANGED <<outbound, batch, sent, heard>>
    BY <1>10 DEF Breaks, countVars
  <2>2. ResultsInv'
    BY <1>1, <2>1, NoLines DEF ResultsInv, Outgoing
  <2> QED BY <2>1, <2>2 DEF ResultsMove
<1>11. CASE Start \/ StartTerminates \/ Receive \/ StopRuntime \/ Joined \/ BrokerSends
  BY <1>2, <1>11 DEF Start, StartTerminates, Receive, StopRuntime, Joined, BrokerSends, linkVars, countVars
<1>12. CASE \/ Begin \/ StartupFails \/ ConnectFails \/ Return \/ Pause \/ Leave
            \/ AllSent \/ SelectTimesOut \/ Recv \/ RecvEnds \/ Close
  BY <1>2, <1>12 DEF Begin, StartupFails, ConnectFails, Return, Pause, Leave, AllSent,
       SelectTimesOut, Recv, RecvEnds, Close, Goes, linkVars, countVars
<1>13. CASE UNCHANGED clientVars
  BY <1>2, <1>13 DEF clientVars
<1> QED BY <1>3, <1>4, <1>5, <1>6, <1>7, <1>8, <1>9, <1>10, <1>11, <1>12, <1>13
       DEF ClientNext, WorkerStep

\* What a step may do to the lines for Lua.
RequestsMove ==
  /\ RequestsInv'
  /\ \A n \in Incoming \ Incoming' :
       n <= handed' \/ conn' = "none" \/ (Len(inbound) = InCap /\ n = Head(inbound))
  /\ \/ UNCHANGED <<asked, handed>>
     \/ asked' = asked + 1 /\ handed' = handed
     \/ handed' \in (handed + 1)..asked /\ asked' = asked

LEMMA RequestsStep == ClientInv /\ [ClientNext]_clientVars => RequestsMove
<1> SUFFICES ASSUME ClientInv, [ClientNext]_clientVars PROVE RequestsMove
  OBVIOUS
<1>1. /\ inbound \in Seq(Nat) /\ inwire \in Seq(Nat) /\ Len(inbound) <= InCap
      /\ asked \in Nat /\ handed \in Nat /\ handed <= asked
      /\ Rising(inbound) /\ Rising(inwire)
      /\ \A x \in ToSet(inbound), y \in ToSet(inwire) : x < y
      /\ \A x \in ToSet(inbound) \cup ToSet(inwire) : handed < x /\ x <= asked /\ x \in Nat
  <2>1. inbound \in Seq(Nat) /\ inwire \in Seq(Nat) /\ asked \in Nat /\ handed \in Nat
    BY DEF ClientInv, RequestsInv, ClientTypeOK
  <2>2. \A x \in ToSet(inbound) \cup ToSet(inwire) : x \in Nat
    BY <2>1, Lines
  <2> QED BY <2>1, <2>2 DEF ClientInv, RequestsInv, Incoming, ClientTypeOK
<1>2. CASE UNCHANGED <<inbound, inwire, asked, handed>>
  BY <1>2 DEF ClientInv, RequestsInv, RequestsMove, Incoming
<1>3. CASE Receive
  <2>1. PICK n \in 1..Len(inbound) :
          handed' = inbound[n] /\ inbound' = SubSeq(inbound, n + 1, Len(inbound))
    BY <1>3 DEF Receive
  <2>2. UNCHANGED <<inwire, asked>>
    BY <1>3 DEF Receive, linkVars
  <2>3. /\ inbound' \in Seq(Nat) /\ Rising(inbound') /\ handed' \in ToSet(inbound)
        /\ ToSet(inbound') = {y \in ToSet(inbound) : handed' < y}
    BY <1>1, <2>1, SomeTaken
  <2>4. handed' \in (handed + 1)..asked
    BY <1>1, <2>3
  <2>5. RequestsInv'
    BY <1>1, <2>2, <2>3, <2>4 DEF RequestsInv, Incoming
  <2>6. \A y \in Incoming \ Incoming' : y <= handed'
    BY <1>1, <2>2, <2>3 DEF Incoming
  <2> QED BY <2>2, <2>4, <2>5, <2>6 DEF RequestsMove
<1>4. CASE ConnectSucceeds
  <2>1. inwire' = <<>> /\ inwire = <<>> /\ UNCHANGED <<inbound, asked, handed>>
    BY <1>4 DEF ConnectSucceeds, Goes, countVars, ClientInv, ThreadInv
  <2> QED BY <1>2, <2>1
<1>5. CASE Recv
  <2>1. /\ inwire # <<>> /\ inwire' = Tail(inwire) /\ UNCHANGED <<asked, handed>>
        /\ inbound' = Pushed(Head(inwire))
    BY <1>5 DEF Recv, Goes, countVars
  <2> DEFINE line == Head(inwire)
             longer == Append(inbound, line)
  <2>2. /\ Tail(inwire) \in Seq(Nat) /\ Rising(Tail(inwire)) /\ line \in Nat
        /\ ToSet(inwire) = {line} \cup ToSet(Tail(inwire))
        /\ \A y \in ToSet(Tail(inwire)) : line < y
    BY <1>1, <2>1, FirstTaken
  <2>3. \A y \in ToSet(inbound) : y < line
    BY <1>1, <2>2
  <2>4. /\ longer \in Seq(Nat) /\ Rising(longer) /\ longer # <<>>
        /\ ToSet(longer) = ToSet(inbound) \cup {line}
        /\ Head(longer) = IF inbound = <<>> THEN line ELSE Head(inbound)
    BY <1>1, <2>2, <2>3, LastAdded
  <2>5. inbound' = IF Len(inbound) + 1 > InCap THEN Tail(longer) ELSE longer
    BY <2>1 DEF Pushed
  <2> HIDE DEF line, longer
  <2>6. /\ Tail(longer) \in Seq(Nat) /\ Rising(Tail(longer))
        /\ ToSet(longer) = {Head(longer)} \cup ToSet(Tail(longer))
    BY <2>4, FirstTaken
  <2>7. /\ inbound' \in Seq(Nat) /\ Rising(inbound')
        /\ ToSet(inbound') \subseteq ToSet(inbound) \cup {line}
    BY <2>4, <2>5, <2>6
  <2>8. RequestsInv'
    <3>1. \A x \in ToSet(inbound'), y \in ToSet(inwire') : x < y
      BY <1>1, <2>1, <2>2, <2>7
    <3>2. \A x \in Incoming' : handed' < x /\ x <= asked'
      BY <1>1, <2>1, <2>2, <2>7 DEF Incoming
    <3> QED BY <1>1, <2>1, <2>2, <2>7, <3>1, <3>2 DEF RequestsInv
  <2>9. ASSUME NEW n \in Incoming \ Incoming' PROVE Len(inbound) = InCap /\ n = Head(inbound)
    <3>1. n \in ToSet(longer) \cup ToSet(inwire') /\ n \notin ToSet(inbound') /\ n \notin ToSet(inwire')
      BY <2>1, <2>2, <2>4 DEF Incoming
    <3>2. Len(inbound) + 1 > InCap /\ n = Head(longer)
      BY <2>5, <2>6, <3>1
    <3>3. Len(inbound) \in Nat /\ InCap \in Nat \ {0}
      BY <1>1, BoundsAssumption
    <3>4. Len(inbound) = InCap /\ inbound # <<>>
      BY <1>1, <3>2, <3>3
    <3> QED BY <2>4, <3>2, <3>4
  <2> QED BY <2>1, <2>8, <2>9 DEF RequestsMove
<1>6. CASE Close
  <2>1. inwire' = <<>> /\ conn' = "none" /\ UNCHANGED <<inbound, asked, handed>>
    BY <1>6 DEF Close, Goes, countVars
  <2>2. RequestsInv'
    BY <1>1, <2>1, NoLines DEF RequestsInv, Incoming
  <2> QED BY <2>1, <2>2 DEF RequestsMove
<1>7. CASE BrokerSends
  <2>1. /\ asked' = asked + 1 /\ inwire' = Append(inwire, asked + 1) /\ UNCHANGED <<inbound, handed>>
    BY <1>7 DEF BrokerSends
  <2>2. asked + 1 \in Nat /\ \A y \in ToSet(inwire) : y < asked + 1
    BY <1>1
  <2>3. inwire' \in Seq(Nat) /\ Rising(inwire') /\ ToSet(inwire') = ToSet(inwire) \cup {asked + 1}
    BY <1>1, <2>1, <2>2, LastAdded
  <2>4. \A x \in Incoming' : handed' < x /\ x <= asked'
    <3> SUFFICES ASSUME NEW x \in Incoming' PROVE handed < x /\ x <= asked + 1
      BY <2>1
    <3>1. x = asked + 1 \/ (handed < x /\ x <= asked /\ x \in Nat)
      BY <1>1, <2>1, <2>3 DEF Incoming
    <3> QED BY <1>1, <3>1
  <2>5. \A x \in ToSet(inbound'), y \in ToSet(inwire') : x < y
    <3> SUFFICES ASSUME NEW x \in ToSet(inbound), NEW y \in ToSet(inwire') PROVE x < y
      BY <2>1
    <3>1. x \in Nat /\ x <= asked
      BY <1>1
    <3>2. y = asked + 1 \/ y \in ToSet(inwire)
      BY <2>3
    <3> QED BY <1>1, <3>1, <3>2
  <2>6. RequestsInv'
    BY <1>1, <2>1, <2>3, <2>4, <2>5 DEF RequestsInv
  <2> QED BY <2>1, <2>3, <2>6 DEF RequestsMove, Incoming
<1>8. CASE Start \/ StartTerminates \/ SendLine \/ StopRuntime \/ Joined \/ BrokerReads \/ Breaks
  BY <1>2, <1>8 DEF Start, StartTerminates, SendLine, StopRuntime, Joined, BrokerReads, Breaks, linkVars, countVars
<1>9. CASE \/ Begin \/ StartupFails \/ ConnectFails \/ Return \/ Pause \/ Leave \/ Swap \/ Send
           \/ Swallowed \/ SendFails \/ AllSent \/ SelectTimesOut \/ RecvEnds
  BY <1>2, <1>9 DEF Begin, StartupFails, ConnectFails, Return, Pause, Leave, Swap, Send,
       Swallowed, SendFails, AllSent, SelectTimesOut, RecvEnds, Goes, linkVars, countVars
<1>10. CASE UNCHANGED clientVars
  BY <1>2, <1>10 DEF clientVars
<1> QED BY <1>3, <1>4, <1>5, <1>6, <1>7, <1>8, <1>9, <1>10 DEF ClientNext, WorkerStep

LEMMA ThreadStep == ClientInv /\ [ClientNext]_clientVars => ThreadInv'
<1> SUFFICES ASSUME ClientInv, [ClientNext]_clientVars PROVE ThreadInv'
  OBVIOUS
<1>1. ThreadInv /\ game \in {"running", "joining", "stopped", "terminated"} /\ running \in BOOLEAN
      /\ conn \in {"none", "up", "broken"}
  BY DEF ClientInv, ClientTypeOK
<1>2. CASE Start \/ StartTerminates \/ SendLine \/ Receive \/ StopRuntime \/ Joined
  BY <1>1, <1>2 DEF ThreadInv, Start, StartTerminates, SendLine, Receive, StopRuntime, Joined,
       linkVars, countVars, threadVars
<1>3. CASE Begin \/ StartupFails \/ ConnectSucceeds \/ ConnectFails \/ Return \/ Pause
  BY <1>1, <1>3 DEF ThreadInv, Begin, StartupFails, ConnectSucceeds, ConnectFails, Return, Pause,
       Goes, linkVars, countVars
<1>4. CASE Leave \/ Swap \/ AllSent \/ SelectTimesOut \/ RecvEnds \/ Close
  BY <1>1, <1>4 DEF ThreadInv, Leave, Leaves, Swap, AllSent, SelectTimesOut, RecvEnds, Close,
       Goes, linkVars, countVars
<1>5. CASE Send \/ Swallowed \/ SendFails
  BY <1>1, <1>5 DEF ThreadInv, Send, Swallowed, SendFails, Goes, linkVars, countVars
<1>6. CASE Recv
  BY <1>1, <1>6 DEF ThreadInv, Recv, Goes, countVars
<1>7. CASE BrokerSends
  BY <1>1, <1>7 DEF ThreadInv, BrokerSends, threadVars
<1>8. CASE BrokerReads
  <2>1. wire # <<>> /\ UNCHANGED <<threadVars, batch, conn, inwire>>
    BY <1>8 DEF BrokerReads
  <2> QED BY <1>1, <2>1 DEF ThreadInv, threadVars
<1>9. CASE Breaks
  BY <1>1, <1>9 DEF ThreadInv, Breaks, threadVars
<1>10. CASE UNCHANGED clientVars
  BY <1>1, <1>10 DEF ThreadInv, clientVars
<1> QED BY <1>2, <1>3, <1>4, <1>5, <1>6, <1>7, <1>8, <1>9, <1>10 DEF ClientNext, WorkerStep

LEMMA ClientTypeStep == ClientInv /\ [ClientNext]_clientVars /\ ResultsMove /\ RequestsMove => ClientTypeOK'
<1> SUFFICES ASSUME ClientInv, [ClientNext]_clientVars, ResultsMove, RequestsMove
             PROVE  ClientTypeOK'
  OBVIOUS
<1>1. /\ sent \in Nat /\ heard \in Nat /\ asked \in Nat /\ handed \in Nat /\ breaks \in Nat
      /\ WireCap \in Nat \ {0} /\ InCap \in Nat \ {0}
  BY BoundsAssumption DEF ClientInv, ClientTypeOK
<1>2. /\ wire \in Seq(Nat) /\ inwire \in Seq(Nat) /\ inbound \in Seq(Nat)
      /\ Len(wire) <= WireCap /\ Len(inwire) <= WireCap /\ Len(inbound) <= InCap
  BY DEF ClientInv, ClientTypeOK, ResultsInv, RequestsInv
<1>3. {sent', heard', asked', handed'} \subseteq Nat
  BY <1>1 DEF ResultsMove, RequestsMove
<1>4. {outbound', batch', wire'} \subseteq Seq(1..sent')
  <2>1. /\ outbound' \in Seq(Nat) /\ batch' \in Seq(Nat) /\ wire' \in Seq(Nat)
        /\ \A x \in ToSet(wire') \cup ToSet(batch') \cup ToSet(outbound') : heard' < x /\ x <= sent'
    BY DEF ResultsMove, ResultsInv, Outgoing
  <2>2. \A x \in ToSet(wire') \cup ToSet(batch') \cup ToSet(outbound') : x \in Nat
    BY <2>1, Lines
  <2>3. ToSet(wire') \cup ToSet(batch') \cup ToSet(outbound') \subseteq 1..sent'
    BY <1>3, <2>1, <2>2
  <2> QED BY <2>1, <2>3, LinesIn
<1>5. {inbound', inwire'} \subseteq Seq(1..asked')
  <2>1. /\ inbound' \in Seq(Nat) /\ inwire' \in Seq(Nat)
        /\ \A x \in ToSet(inbound') \cup ToSet(inwire') : handed' < x /\ x <= asked'
    BY DEF RequestsMove, RequestsInv, Incoming
  <2>2. \A x \in ToSet(inbound') \cup ToSet(inwire') : x \in Nat
    BY <2>1, Lines
  <2>3. ToSet(inbound') \cup ToSet(inwire') \subseteq 1..asked'
    BY <1>3, <2>1, <2>2
  <2> QED BY <2>1, <2>3, LinesIn
<1>6. Len(wire') <= WireCap
  <2>1. CASE Send
    <3>1. Len(wire) < WireCap /\ wire' = Append(wire, Head(batch))
      BY <2>1 DEF Send
    <3> QED BY <1>1, <1>2, <3>1
  <2>2. CASE BrokerReads
    <3>1. wire # <<>> /\ wire' = Tail(wire)
      BY <2>2 DEF BrokerReads
    <3>2. Len(wire') = Len(wire) - 1 /\ Len(wire) \in Nat
      BY <1>2, <3>1
    <3> QED BY <1>1, <1>2, <3>2
  <2>3. CASE ConnectSucceeds \/ Breaks
    BY <1>1, <2>3, NoLines DEF ConnectSucceeds, Breaks
  <2>4. CASE wire' = wire
    BY <1>2, <2>4
  <2> QED BY <2>1, <2>2, <2>3, <2>4 DEF ClientNext, WorkerStep, Start, StartTerminates, SendLine,
        Receive, StopRuntime, Joined, Begin, StartupFails, ConnectFails, Return, Pause, Leave, Swap,
        Swallowed, SendFails, AllSent, SelectTimesOut, Recv, RecvEnds, Close, BrokerSends,
        linkVars, clientVars
<1>7. Len(inwire') <= WireCap
  <2>1. CASE BrokerSends
    <3>1. Len(inwire) < WireCap /\ inwire' = Append(inwire, asked')
      BY <2>1 DEF BrokerSends
    <3> QED BY <1>1, <1>2, <3>1
  <2>2. CASE Recv
    <3>1. inwire # <<>> /\ inwire' = Tail(inwire)
      BY <2>2 DEF Recv
    <3>2. Len(inwire') = Len(inwire) - 1 /\ Len(inwire) \in Nat
      BY <1>2, <3>1
    <3> QED BY <1>1, <1>2, <3>2
  <2>3. CASE ConnectSucceeds \/ Close
    BY <1>1, <2>3, NoLines DEF ConnectSucceeds, Close
  <2>4. CASE inwire' = inwire
    BY <1>2, <2>4
  <2> QED BY <2>1, <2>2, <2>3, <2>4 DEF ClientNext, WorkerStep, Start, StartTerminates, SendLine,
        Receive, StopRuntime, Joined, Begin, StartupFails, ConnectFails, Return, Pause, Leave, Swap,
        Send, Swallowed, SendFails, AllSent, SelectTimesOut, RecvEnds, BrokerReads, Breaks,
        linkVars, clientVars
<1>8. Len(inbound') <= InCap
  <2>1. CASE Receive
    <3>1. PICK n \in 1..Len(inbound) : inbound' = SubSeq(inbound, n + 1, Len(inbound))
      BY <2>1 DEF Receive
    <3>2. Len(inbound') <= Len(inbound) /\ Len(inbound') \in Nat /\ Len(inbound) \in Nat
      BY <1>2, <3>1
    <3> QED BY <1>1, <1>2, <3>2
  <2>2. CASE Recv
    <3>1. inwire # <<>> /\ inbound' = Pushed(Head(inwire))
      BY <2>2 DEF Recv
    <3> DEFINE longer == Append(inbound, Head(inwire))
    <3>2. /\ Len(longer) = Len(inbound) + 1 /\ longer \in Seq(Nat) /\ longer # <<>>
          /\ Len(inbound) \in Nat
      <4> DEFINE line == Head(inwire)
      <4>1. line \in Nat
        BY <1>2, <3>1
      <4> HIDE DEF line
      <4>2. Append(inbound, line) \in Seq(Nat) /\ Len(Append(inbound, line)) = Len(inbound) + 1
        BY <1>2, <4>1
      <4>3. Append(inbound, line) # <<>> /\ Len(inbound) \in Nat
        <5>1. Len(inbound) \in Nat /\ Len(Append(inbound, line)) # 0
          BY <1>2, <4>2
        <5> QED BY <5>1, NoLines
      <4> QED BY <4>2, <4>3 DEF line
    <3>3. inbound' = IF Len(inbound) + 1 > InCap THEN Tail(longer) ELSE longer
      BY <3>1 DEF Pushed
    <3> HIDE DEF longer
    <3>4. Len(Tail(longer)) = Len(inbound)
      BY <3>2
    <3> QED BY <1>1, <1>2, <3>2, <3>3, <3>4
  <2>3. CASE inbound' = inbound
    BY <1>2, <2>3
  <2> QED BY <2>1, <2>2, <2>3 DEF ClientNext, WorkerStep, Start, StartTerminates, SendLine,
        StopRuntime, Joined, Begin, StartupFails, ConnectSucceeds, ConnectFails, Return, Pause, Leave,
        Swap, Send, Swallowed, SendFails, AllSent, SelectTimesOut, RecvEnds, Close, BrokerSends,
        BrokerReads, Breaks, clientVars
<1>9. /\ game' \in {"running", "joining", "stopped", "terminated"} /\ running' \in BOOLEAN
      /\ worker' \in {"none", "starting", "connect", "loop", "sending", "select", "close", "pause", "exited"}
      /\ conn' \in {"none", "up", "broken"} /\ breaks' \in Nat
  <2>1. /\ game \in {"running", "joining", "stopped", "terminated"} /\ running \in BOOLEAN
        /\ worker \in {"none", "starting", "connect", "loop", "sending", "select", "close", "pause", "exited"}
        /\ conn \in {"none", "up", "broken"}
    BY DEF ClientInv, ClientTypeOK
  <2>2. CASE Start \/ StartTerminates \/ SendLine \/ Receive \/ StopRuntime \/ Joined
    BY <1>1, <2>1, <2>2 DEF Start, StartTerminates, SendLine, Receive, StopRuntime, Joined,
         linkVars, threadVars
  <2>3. CASE Begin \/ StartupFails \/ ConnectSucceeds \/ ConnectFails \/ Return \/ Pause
    <3>1. CASE Begin \/ StartupFails
      BY <1>1, <2>1, <3>1 DEF Begin, StartupFails, Goes, linkVars
    <3>2. CASE ConnectSucceeds
      BY <1>1, <2>1, <3>2 DEF ConnectSucceeds, Goes
    <3>3. CASE ConnectFails
      BY <1>1, <2>1, <3>3 DEF ConnectFails, Goes
    <3>4. CASE Return \/ Pause
      BY <1>1, <2>1, <3>4 DEF Return, Pause, Goes, linkVars
    <3> QED BY <2>3, <3>1, <3>2, <3>3, <3>4
  <2>4. CASE Leave \/ Swap \/ AllSent \/ SelectTimesOut \/ RecvEnds \/ Close
    BY <1>1, <2>1, <2>4 DEF Leave, Swap, AllSent, SelectTimesOut, RecvEnds, Close, Goes, linkVars
  <2>5. CASE Send \/ Swallowed \/ SendFails \/ Recv
    BY <1>1, <2>1, <2>5 DEF Send, Swallowed, SendFails, Recv, Goes, linkVars
  <2>6. CASE BrokerSends \/ BrokerReads \/ Breaks
    BY <1>1, <2>1, <2>6 DEF BrokerSends, BrokerReads, Breaks, threadVars
  <2>7. CASE UNCHANGED clientVars
    BY <1>1, <2>1, <2>7 DEF clientVars
  <2> QED BY <2>2, <2>3, <2>4, <2>5, <2>6, <2>7 DEF ClientNext, WorkerStep
<1> QED BY <1>3, <1>4, <1>5, <1>6, <1>7, <1>8, <1>9 DEF ClientTypeOK

LEMMA ClientInitInv == ClientInit => ClientInv
<1> SUFFICES ASSUME ClientInit PROVE ClientInv
  OBVIOUS
<1>1. /\ outbound = <<>> /\ batch = <<>> /\ inbound = <<>> /\ wire = <<>> /\ inwire = <<>>
      /\ sent = 0 /\ heard = 0 /\ asked = 0 /\ handed = 0 /\ breaks = 0 /\ conn = "none"
      /\ running = FALSE /\ game = "running" /\ worker = "none"
  BY DEF ClientInit
<1>2. Outgoing = {} /\ Incoming = {}
  BY <1>1, NoLines DEF Outgoing, Incoming
<1>3. <<>> \in Seq(1..0) /\ WireCap \in Nat \ {0} /\ InCap \in Nat \ {0}
  BY BoundsAssumption
<1>4. ClientTypeOK
  <2>1. {outbound, batch, wire} \subseteq Seq(1..sent) /\ {inbound, inwire} \subseteq Seq(1..asked)
    BY <1>1, <1>3
  <2>2. Len(wire) <= WireCap /\ Len(inwire) <= WireCap /\ Len(inbound) <= InCap
    BY <1>1, <1>3, NoLines
  <2>3. {sent, heard, asked, handed, breaks} \subseteq Nat
    BY <1>1
  <2>4. /\ game \in {"running", "joining", "stopped", "terminated"} /\ running \in BOOLEAN
        /\ worker \in {"none", "starting", "connect", "loop", "sending", "select", "close", "pause", "exited"}
        /\ conn \in {"none", "up", "broken"}
    BY <1>1
  <2> QED BY <2>1, <2>2, <2>3, <2>4 DEF ClientTypeOK
<1>5. ResultsInv /\ RequestsInv
  BY <1>1, <1>2, NoLines DEF ResultsInv, RequestsInv
<1>6. ThreadInv
  BY <1>1 DEF ThreadInv
<1> QED BY <1>4, <1>5, <1>6 DEF ClientInv

LEMMA ClientMoves == ClientInv /\ [ClientNext]_clientVars => ClientInv' /\ ResultsMove /\ RequestsMove
BY ResultsStep, RequestsStep, ThreadStep, ClientTypeStep DEF ResultsMove, RequestsMove, ClientInv

THEOREM ClientInvariance == ClientSpec => []ClientInv
<1>1. ClientInv /\ [ClientNext]_clientVars => ClientInv'
  BY ClientMoves
<1> QED BY <1>1, ClientInitInv, PTL DEF ClientSpec

\* The queues of the client hold numbered lines within their limits.
THEOREM ClientTypeCorrect == ClientSpec => []ClientTypeOK
<1>1. ClientInv => ClientTypeOK
  BY DEF ClientInv
<1> QED BY <1>1, ClientInvariance, PTL

\* Nothing is lost without a break, a closed connection or a full queue.
THEOREM LossIsAccountedHolds == ClientSpec => LossIsAccounted
<1>1. ClientInv /\ [ClientNext]_clientVars =>
        [/\ \A n \in Outgoing \ Outgoing' : n <= heard' \/ conn = "broken" \/ conn' = "broken"
         /\ \A n \in Incoming \ Incoming' :
              n <= handed' \/ conn' = "none" \/ (Len(inbound) = InCap /\ n = Head(inbound))]_clientVars
  BY ClientMoves, Zenon DEF ResultsMove, RequestsMove
<1> QED BY <1>1, ClientInvariance, PTL DEF ClientSpec, LossIsAccounted

\* The broker and Lua each see a channel that may lose lines, whatever the
\* sizes of the queues and the number of breaks.
THEOREM ImplementsChannelsHolds == ClientSpec => ImplementsChannels
<1>1. ClientInit => Results!Init /\ Requests!Init
  BY DEF ClientInit, Results!Init, Requests!Init
<1>2. ClientInv /\ [ClientNext]_clientVars => [Results!Offer \/ Results!Take]_<<sent, heard>>
  BY ClientMoves DEF ResultsMove, Results!Offer, Results!Take
<1>3. ClientInv /\ [ClientNext]_clientVars => [Requests!Offer \/ Requests!Take]_<<asked, handed>>
  BY ClientMoves DEF RequestsMove, Requests!Offer, Requests!Take
<1> QED BY <1>1, <1>2, <1>3, ClientInvariance, PTL
        DEF ClientSpec, ImplementsChannels, Results!Spec, Requests!Spec
=============================================================================
