------------------------ MODULE SocketSchedulerProofs ------------------------
(***************************************************************************)
(* Proofs about the game side of the socket: the scheduler, then the       *)
(* worker that pumps it and the watchdog that restarts the worker.         *)
(*                                                                         *)
(* The scheduler's invariant joins what the runs check to the types of its *)
(* tables; its steps then fall into four kinds (nothing is answered or     *)
(* admitted, one request is admitted, one is answered, all are), and each  *)
(* theorem on steps is one look at the four.  The sums over a lane and     *)
(* over a batch are recursive functions on intervals, for which Induction  *)
(* is derived from the well-foundedness of finite sets.                    *)
(*                                                                         *)
(* The worker's invariant says where the one link of each chain is.  What  *)
(* a disturbance pays for is a potential: the restarts still Needed are    *)
(* none while the poll comes before the heartbeat is stale, or before the  *)
(* next check.                                                             *)
(***************************************************************************)
EXTENDS SocketScheduler, SocketWorker, SequenceTheorems, FiniteSetTheorems, TLAPS

-----------------------------------------------------------------------------
(* Sums over a lane.                                                        *)

\* Induction up to N, from the well-foundedness of finite intervals.
LEMMA Induction ==
  ASSUME NEW N \in Nat, NEW X, 0 \in X, \A n \in 1..N : n - 1 \in X => n \in X
  PROVE  0..N \subseteq X
<1> SUFFICES ASSUME NEW m \in 0..N, m \notin X PROVE FALSE
  OBVIOUS
<1> DEFINE S == 1..N
           T == {1..i : i \in {i \in 1..N : i \notin X}}
<1>1. T \subseteq SUBSET S /\ T # {}
  <2>1. ASSUME NEW i \in 1..N PROVE 1..i \subseteq S
    OBVIOUS
  <2>2. 1..m \in T
    OBVIOUS
  <2> QED BY <2>1, <2>2
<1>2. IsWellFoundedOn(StrictSubsetOrdering(S), SUBSET S)
  <2>1. IsFiniteSet(S)
    BY FS_Interval
  <2> QED BY <2>1, FS_StrictSubsetOrderingWellFounded, FS_FiniteSubsetsOfFinite
<1>3. PICK lower \in T : \A other \in T : <<other, lower>> \notin StrictSubsetOrdering(S)
  BY <1>1, <1>2, WFMin
<1>4. PICK i \in 1..N : i \notin X /\ lower = 1..i
  OBVIOUS
<1>5. i - 1 \notin X /\ i - 1 \in 1..N
  <2>1. i - 1 \notin X
    BY <1>4
  <2> QED BY <1>4, <2>1
<1>6. 1..(i-1) \in T /\ 1..(i-1) \subseteq 1..i /\ i \in 1..i /\ i \notin 1..(i-1)
  BY <1>5
<1> QED BY <1>1, <1>3, <1>4, <1>6 DEF StrictSubsetOrdering

\* Two functions with the same steps grow by the same amount.
LEMMA SameGrowth ==
  ASSUME NEW N \in Nat, NEW f \in [0..N -> Int], NEW g \in [0..N -> Int],
         \A n \in 1..N : f[n] - f[n - 1] = g[n] - g[n - 1]
  PROVE  f[N] - f[0] = g[N] - g[0]
<1> DEFINE X == {n \in 0..N : f[n] - f[0] = g[n] - g[0]}
<1>1. 0 \in X
  OBVIOUS
<1>2. ASSUME NEW n \in 1..N, n - 1 \in X PROVE n \in X
  <2>1. n \in 0..N /\ n - 1 \in 0..N
    OBVIOUS
  <2>2. f[n - 1] - f[0] = g[n - 1] - g[0] /\ f[n] - f[n - 1] = g[n] - g[n - 1]
    BY <1>2
  <2>3. f[n] \in Int /\ f[n - 1] \in Int /\ g[n] \in Int /\ g[n - 1] \in Int
        /\ f[0] \in Int /\ g[0] \in Int
    BY <2>1
  <2>4. f[n] - f[0] = g[n] - g[0]
    <3> DEFINE a == f[n]  b == f[n - 1]  c == f[0]  p == g[n]  q == g[n - 1]  r == g[0]
    <3>1. a \in Int /\ b \in Int /\ c \in Int /\ p \in Int /\ q \in Int /\ r \in Int
      BY <2>3
    <3>2. b - c = q - r /\ a - b = p - q
      BY <2>2
    <3> HIDE DEF X, a, b, c, p, q, r
    <3>3. a - c = p - r
      BY <3>1, <3>2
    <3> QED BY <3>3 DEF a, c, p, r
  <2> QED BY <2>1, <2>4
<1>3. 0..N \subseteq X
  <2> HIDE DEF X
  <2> QED BY <1>1, <1>2, Induction
<1> QED BY <1>3

\* f adds up the bytes of the requests of lane, one after the other.
Sums(f, lane) ==
  /\ f \in [0..Len(lane) -> Nat]
  /\ f[0] = 0
  /\ \A n \in 1..Len(lane) : f[n] = f[n - 1] + lane[n].env.bytes

LEMMA BytesOfRequest ==
  ASSUME NEW r \in Request PROVE r.env.bytes \in Nat
BY EnvelopeAssumption DEF Request, EnvelopeShape

\* BytesIn is the last of the partial sums of its lane.
LEMMA BytesInSums ==
  ASSUME NEW lane \in Seq(Request)
  PROVE  \E f : Sums(f, lane) /\ BytesIn(lane) = f[Len(lane)]
<1> DEFINE N == Len(lane)
           w(n) == lane[n].env.bytes
           Rec(f) == f = [n \in 0..N |-> IF n = 0 THEN 0 ELSE f[n - 1] + w(n)]
           Upto(n, f) == /\ f \in [0..n -> Nat]
                         /\ f[0] = 0
                         /\ \A i \in 1..n : f[i] = f[i - 1] + w(i)
           X == {n \in 0..N : \E f : Upto(n, f)}
<1>1. N \in Nat /\ \A n \in 1..N : w(n) \in Nat
  BY BytesOfRequest
<1>2. 0 \in X
  <2>1. Upto(0, [i \in 0..0 |-> 0])
    OBVIOUS
  <2>2. 0 \in 0..N
    BY <1>1
  <2> HIDE DEF Upto
  <2> QED BY <2>1, <2>2
<1>3. ASSUME NEW n \in 1..N, n - 1 \in X PROVE n \in X
  <2>1. PICK f : Upto(n - 1, f)
    BY <1>3
  <2> DEFINE g == [i \in 0..n |-> IF i = n THEN f[n - 1] + w(n) ELSE f[i]]
  <2>2. w(n) \in Nat /\ f[n - 1] \in Nat
    BY <1>1, <2>1
  <2>3. g \in [0..n -> Nat] /\ g[0] = 0
    <3> HIDE DEF w
    <3> QED BY <1>1, <2>1, <2>2
  <2>4. \A i \in 1..n : g[i] = g[i - 1] + w(i)
    <3> HIDE DEF w
    <3> QED BY <1>1, <2>1, <2>2
  <2>5. Upto(n, g)
    BY <2>3, <2>4
  <2> HIDE DEF Upto, g
  <2> QED BY <1>1, <2>5
<1>4. N \in X
  <2> HIDE DEF X, N
  <2>1. 0..N \subseteq X
    BY <1>1, <1>2, <1>3, Induction
  <2> QED BY <1>1, <2>1
<1>5. PICK f : Upto(N, f)
  BY <1>4
<1>6. Rec(f)
  <2> HIDE DEF w
  <2> QED BY <1>1, <1>5
<1> DEFINE c == CHOOSE f_1 : Rec(f_1)
<1>7. Rec(c)
  BY <1>6, Zenon
<1>8. BytesIn(lane) = c[N]
  BY Zenon DEF BytesIn
<1>9. Upto(N, c)
  <2> HIDE DEF w, c
  <2> DEFINE Y == {n \in 0..N : c[n] \in Nat}
  <2>1. 0 \in Y
    BY <1>1, <1>7
  <2>2. ASSUME NEW n \in 1..N, n - 1 \in Y PROVE n \in Y
    BY <1>1, <1>7, <2>2
  <2>3. 0..N \subseteq Y
    <3> HIDE DEF Y, N
    <3> QED BY <1>1, <2>1, <2>2, Induction
  <2> QED BY <1>1, <1>7, <2>3
<1> HIDE DEF c
<1> QED BY <1>8, <1>9 DEF Sums

LEMMA BytesInNat ==
  ASSUME NEW lane \in Seq(Request) PROVE BytesIn(lane) \in Nat
BY BytesInSums DEF Sums

LEMMA BytesInEmpty == BytesIn(<<>>) = 0
<1>1. <<>> \in Seq(Request) /\ Len(<<>>) = 0
  OBVIOUS
<1> QED BY <1>1, BytesInSums DEF Sums

\* Lanes with the same bytes at the same places have the same total.
LEMMA BytesInSame ==
  ASSUME NEW a \in Seq(Request), NEW b \in Seq(Request), Len(a) = Len(b),
         \A i \in 1..Len(a) : a[i].env.bytes = b[i].env.bytes
  PROVE  BytesIn(a) = BytesIn(b)
<1>1. PICK f : Sums(f, a) /\ BytesIn(a) = f[Len(a)]
  BY BytesInSums
<1>2. PICK g : Sums(g, b) /\ BytesIn(b) = g[Len(b)]
  BY BytesInSums
<1>3. f \in [0..Len(a) -> Int] /\ g \in [0..Len(a) -> Int] /\ Len(a) \in Nat
  BY <1>1, <1>2 DEF Sums
<1>4. \A n \in 1..Len(a) : f[n] - f[n - 1] = g[n] - g[n - 1]
  <2> SUFFICES ASSUME NEW n \in 1..Len(a) PROVE f[n] - f[n - 1] = g[n] - g[n - 1]
    OBVIOUS
  <2>1. a[n].env.bytes \in Nat /\ a[n].env.bytes = b[n].env.bytes
    BY BytesOfRequest
  <2>2. f[n - 1] \in Nat /\ g[n - 1] \in Nat
    BY <1>3, <1>1, <1>2 DEF Sums
  <2> QED BY <1>1, <1>2, <2>1, <2>2 DEF Sums
<1>5. f[Len(a)] - f[0] = g[Len(a)] - g[0]
  BY <1>3, <1>4, SameGrowth
<1> QED BY <1>1, <1>2, <1>3, <1>5 DEF Sums

\* A request appended to a lane adds its bytes.
LEMMA BytesInAppend ==
  ASSUME NEW lane \in Seq(Request), NEW r \in Request
  PROVE  BytesIn(Append(lane, r)) = BytesIn(lane) + r.env.bytes
<1> DEFINE more == Append(lane, r)
           N == Len(lane)
<1>1. more \in Seq(Request) /\ Len(more) = N + 1 /\ N \in Nat
      /\ more[N + 1] = r /\ \A i \in 1..N : more[i] = lane[i]
  OBVIOUS
<1> HIDE DEF more
<1>2. PICK f : Sums(f, lane) /\ BytesIn(lane) = f[N]
  BY BytesInSums
<1>3. PICK g : Sums(g, more) /\ BytesIn(more) = g[N + 1]
  BY <1>1, BytesInSums
<1> DEFINE h == [i \in 0..N |-> g[i]]
<1>4. f \in [0..N -> Int] /\ h \in [0..N -> Int]
  BY <1>1, <1>2, <1>3 DEF Sums
<1>5. \A n \in 1..N : f[n] - f[n - 1] = h[n] - h[n - 1]
  <2> SUFFICES ASSUME NEW n \in 1..N PROVE f[n] - f[n - 1] = h[n] - h[n - 1]
    OBVIOUS
  <2>1. lane[n].env.bytes \in Nat /\ more[n] = lane[n]
    BY <1>1, BytesOfRequest
  <2>2. f[n - 1] \in Nat /\ g[n - 1] \in Nat
    <3>1. n - 1 \in 0..N /\ n - 1 \in 0..(N + 1)
      BY <1>1
    <3> QED BY <1>1, <1>2, <1>3, <3>1 DEF Sums
  <2>3. f[n] = f[n - 1] + lane[n].env.bytes
    BY <1>2 DEF Sums
  <2>4. g[n] = g[n - 1] + lane[n].env.bytes
    BY <1>1, <1>3, <2>1 DEF Sums
  <2> QED BY <2>1, <2>2, <2>3, <2>4
<1>6. f[N] - f[0] = h[N] - h[0]
  <2> HIDE DEF h
  <2> QED BY <1>1, <1>4, <1>5, SameGrowth
<1>7. g[N + 1] = g[N] + r.env.bytes
  BY <1>1, <1>3 DEF Sums
<1>8. f[0] = 0 /\ g[0] = 0 /\ f[N] \in Nat /\ g[N] \in Nat
  BY <1>1, <1>2, <1>3 DEF Sums
<1> QED BY <1>1, <1>2, <1>3, <1>6, <1>7, <1>8 DEF more

\* The head of a lane takes its bytes with it.
LEMMA BytesInTail ==
  ASSUME NEW lane \in Seq(Request), lane # <<>>
  PROVE  BytesIn(lane) = Head(lane).env.bytes + BytesIn(Tail(lane))
<1> DEFINE rest == Tail(lane)
           N == Len(lane) - 1
<1>1. rest \in Seq(Request) /\ Len(rest) = N /\ N \in Nat /\ Len(lane) = N + 1
      /\ Head(lane) = lane[1] /\ \A i \in 1..N : rest[i] = lane[i + 1]
  OBVIOUS
<1> HIDE DEF rest, N
<1>2. PICK f : Sums(f, lane) /\ BytesIn(lane) = f[N + 1]
  BY <1>1, BytesInSums
<1>3. PICK g : Sums(g, rest) /\ BytesIn(rest) = g[N]
  BY <1>1, BytesInSums
<1> DEFINE h == [i \in 0..N |-> f[i + 1]]
<1>4. g \in [0..N -> Int] /\ h \in [0..N -> Int]
  BY <1>1, <1>2, <1>3 DEF Sums
<1>5. \A n \in 1..N : h[n] - h[n - 1] = g[n] - g[n - 1]
  <2> SUFFICES ASSUME NEW n \in 1..N PROVE h[n] - h[n - 1] = g[n] - g[n - 1]
    OBVIOUS
  <2>1. rest[n].env.bytes \in Nat /\ rest[n] = lane[n + 1]
    BY <1>1, BytesOfRequest
  <2>2. f[n] \in Nat /\ g[n - 1] \in Nat /\ n + 1 \in 1..(N + 1)
    <3>1. n - 1 \in 0..N /\ n \in 0..(N + 1) /\ n + 1 \in 1..(N + 1)
      BY <1>1
    <3> QED BY <1>1, <1>2, <1>3, <3>1 DEF Sums
  <2>3. f[n + 1] = f[n] + rest[n].env.bytes
    <3>1. f[n + 1] = f[(n + 1) - 1] + lane[n + 1].env.bytes /\ (n + 1) - 1 = n
      BY <1>1, <1>2, <2>2 DEF Sums
    <3> QED BY <2>1, <3>1
  <2>4. g[n] = g[n - 1] + rest[n].env.bytes
    BY <1>1, <1>3, <2>1 DEF Sums
  <2>5. h[n] = f[n + 1] /\ h[n - 1] = f[n]
    BY <1>1
  <2> QED BY <2>1, <2>2, <2>3, <2>4, <2>5
<1>6. h[N] - h[0] = g[N] - g[0]
  <2> HIDE DEF h
  <2> QED BY <1>1, <1>4, <1>5, SameGrowth
<1>7. f[1] = lane[1].env.bytes /\ lane[1].env.bytes \in Nat
  <2>1. lane[1] \in Request /\ 1 \in 1..(N + 1)
    BY <1>1
  <2> QED BY <1>1, <1>2, <2>1, BytesOfRequest DEF Sums
<1>8. g[0] = 0 /\ f[N + 1] \in Nat /\ g[N] \in Nat /\ h[N] = f[N + 1] /\ h[0] = f[1]
  BY <1>1, <1>2, <1>3 DEF Sums
<1> QED BY <1>1, <1>2, <1>3, <1>6, <1>7, <1>8 DEF rest

-----------------------------------------------------------------------------
(* The eviction order.                                                      *)

LEMMA EnvelopeFields ==
  ASSUME NEW e \in Envelopes
  PROVE  /\ e.transport \in Transports /\ e.class \in Classes /\ e.id \in Ids
         /\ e.key \in Keys \cup {NoKey} /\ e.bytes \in Nat /\ e.deadline \in Nat
         /\ e # NoEnvelope
BY EnvelopeAssumption, SentinelAssumption DEF EnvelopeShape

\* A batch of unremembered requests is unseen as a whole.
LEMMA UnseenAll ==
  ASSUME NEW t, NEW batch \in Seq(Envelopes),
         \A i \in 1..Len(batch) : completed[t][batch[i].id] = NoResult
  PROVE  Unseen(t, batch) = [i \in 1..Len(batch) |-> batch[i].id]
<1> DEFINE N == Len(batch)
           first(n) == [i \in 1..n |-> batch[i].id]
           Rec(f) == f = [n \in 0..N |->
                            IF n = 0 THEN <<>>
                            ELSE IF completed[t][batch[n].id] = NoResult
                                   THEN Append(f[n - 1], batch[n].id) ELSE f[n - 1]]
           f == [n \in 0..N |-> first(n)]
           c == CHOOSE f_1 : Rec(f_1)
           X == {n \in 0..N : c[n] = first(n)}
<1>1. N \in Nat
  OBVIOUS
<1>2. \A n \in 1..N : Append(first(n - 1), batch[n].id) = first(n) /\ first(0) = <<>>
  <2> SUFFICES ASSUME NEW n \in 1..N
               PROVE  Append(first(n - 1), batch[n].id) = first(n)
    OBVIOUS
  <2>1. \A i \in 1..n : batch[i].id \in Ids
    BY <1>1, EnvelopeFields
  <2>2. first(n - 1) \in Seq(Ids) /\ Len(first(n - 1)) = n - 1
    BY <1>1, <2>1
  <2>3. first(n) \in Seq(Ids) /\ Len(first(n)) = n
    BY <1>1, <2>1
  <2> QED BY <1>1, <2>1, <2>2, <2>3
<1>3. first(0) = <<>>
  OBVIOUS
<1> HIDE DEF N, first
<1>4. Rec(f)
  <2>1. \A n \in 1..N : /\ completed[t][batch[n].id] = NoResult
                        /\ f[n - 1] = first(n - 1) /\ f[n] = first(n)
    BY <1>1 DEF N
  <2>2. \A n \in 0..N : n = 0 \/ n \in 1..N
    BY <1>1
  <2>3. \A n \in 0..N : first(n) =
          IF n = 0 THEN <<>>
          ELSE IF completed[t][batch[n].id] = NoResult
                 THEN Append(f[n - 1], batch[n].id) ELSE f[n - 1]
    BY <1>2, <1>3, <2>1, <2>2
  <2> QED BY <2>3
<1>5. Rec(c)
  <2> HIDE DEF Rec, f
  <2> QED BY <1>4, Zenon
<1>6. Unseen(t, batch) = c[N]
  BY Zenon DEF Unseen, N
<1> HIDE DEF c, f
<1>7. 0 \in X
  BY <1>1, <1>3, <1>5
<1>8. ASSUME NEW n \in 1..N, n - 1 \in X PROVE n \in X
  <2>1. n \in 0..N /\ n # 0 /\ c[n - 1] = first(n - 1)
    BY <1>1, <1>8
  <2>2. completed[t][batch[n].id] = NoResult
    BY DEF N
  <2>3. c[n] = Append(c[n - 1], batch[n].id)
    BY <1>5, <2>1, <2>2
  <2> QED BY <1>2, <2>1, <2>3
<1>9. 0..N \subseteq X
  <2> HIDE DEF X
  <2> QED BY <1>1, <1>7, <1>8, Induction
<1> QED BY <1>1, <1>6, <1>9 DEF N, first

\* What the last n elements of a sequence are.
LEMMA NewestElements ==
  ASSUME NEW S, NEW s \in Seq(S), NEW n \in 1..Len(s)
  PROVE  /\ Newest(s, n) \in Seq(S) /\ Len(Newest(s, n)) = n
         /\ \A i \in 1..n : Newest(s, n)[i] = s[Len(s) - n + i]
BY DEF Newest

\* A new result is remembered whatever is forgotten, the order stays within the
\* retention and lists old and new ids only, each once.
LEMMA RetainedOrder ==
  ASSUME NEW t \in Transports, NEW batch \in Seq(Envelopes),
         \A i \in 1..Len(batch) : completed[t][batch[i].id] = NoResult,
         \A i, j \in 1..Len(batch) : batch[i].id = batch[j].id => i = j,
         order[t] \in Seq(Ids), IsInjective(order[t]), Len(order[t]) <= Retention[t],
         \A id \in ToSet(order[t]) : completed[t][id] # NoResult,
         NEW new \in RetainedOrders(t, batch)
  PROVE  /\ new \in Seq(Ids) /\ IsInjective(new) /\ Len(new) <= Retention[t]
         /\ ToSet(new) \subseteq ToSet(order[t]) \cup IdsOf(batch)
         /\ batch = <<>> => new = order[t]
         /\ batch # <<>> => batch[Len(batch)].id \in ToSet(new)
<1>1. CASE batch = <<>>
  BY <1>1 DEF RetainedOrders
<1>2. CASE batch # <<>>
  <2> DEFINE old == order[t]
             ids == [i \in 1..Len(batch) |-> batch[i].id]
             all == old \o ids
  <2>1. /\ ids \in Seq(Ids) /\ Len(ids) = Len(batch) /\ Len(batch) \in Nat \ {0}
        /\ \A i \in 1..Len(batch) : ids[i] = batch[i].id
    BY <1>2, EnvelopeFields
  <2>2. PICK n \in 1..Len(all) : n <= Retention[t] /\ new = Newest(all, n)
    <3>1. Unseen(t, batch) = ids
      BY UnseenAll
    <3> HIDE DEF ids
    <3> QED BY <1>2, <3>1 DEF RetainedOrders
  <2>3. old \in Seq(Ids)
    OBVIOUS
  <2> HIDE DEF ids
  <2>4. /\ all \in Seq(Ids) /\ Len(all) = Len(old) + Len(batch) /\ Len(old) \in Nat
        /\ \A i \in 1..Len(all) : all[i] = IF i <= Len(old) THEN old[i] ELSE ids[i - Len(old)]
    <3> HIDE DEF old
    <3>1. all \in Seq(Ids) /\ Len(all) = Len(old) + Len(ids)
      <4>1. ids \in Seq(Ids) /\ old \in Seq(Ids)
        BY <2>1, <2>3
      <4> QED BY <4>1, ConcatProperties, Zenon
    <3>2. \A i \in 1..(Len(old) + Len(ids)) :
            all[i] = IF i <= Len(old) THEN old[i] ELSE ids[i - Len(old)]
      BY <2>1, <2>3, ConcatProperties
    <3>3. Len(old) \in Nat
      BY <2>3
    <3> QED BY <2>1, <3>1, <3>2, <3>3, Zenon
  <2>5. \A i \in 1..Len(old) : old[i] \in ToSet(old) /\ completed[t][old[i]] # NoResult
    BY <2>3 DEF ToSet
  <2>6. \A i \in 1..Len(batch) : ids[i] \in IdsOf(batch) /\ completed[t][ids[i]] = NoResult
    BY <2>1 DEF IdsOf
  <2>7. \A i, j \in 1..Len(old) : old[i] = old[j] => i = j
    BY <2>3 DEF IsInjective
  <2> HIDE DEF all, old
  <2>8. \A i, j \in 1..Len(all) : all[i] = all[j] => i = j
    <3> SUFFICES ASSUME NEW i \in 1..Len(all), NEW j \in 1..Len(all), all[i] = all[j]
                 PROVE  i = j
      OBVIOUS
    <3>1. CASE i <= Len(old) /\ j <= Len(old)
      <4>1. i \in 1..Len(old) /\ j \in 1..Len(old)
        BY <2>4, <3>1
      <4> QED BY <2>4, <2>7, <3>1, <4>1
    <3>2. CASE ~(i <= Len(old)) /\ ~(j <= Len(old))
      <4>1. i - Len(old) \in 1..Len(batch) /\ j - Len(old) \in 1..Len(batch)
        BY <2>1, <2>4, <3>2
      <4>2. ids[i - Len(old)] = ids[j - Len(old)]
        BY <2>4, <3>2
      <4>3. i - Len(old) = j - Len(old)
        BY <2>1, <4>1, <4>2
      <4> QED BY <2>4, <4>3
    <3>3. CASE i <= Len(old) /\ ~(j <= Len(old))
      <4>1. i \in 1..Len(old) /\ j - Len(old) \in 1..Len(batch)
        BY <2>1, <2>4, <3>3
      <4> QED BY <2>4, <2>5, <2>6, <3>3, <4>1
    <3>4. CASE ~(i <= Len(old)) /\ j <= Len(old)
      <4>1. j \in 1..Len(old) /\ i - Len(old) \in 1..Len(batch)
        BY <2>1, <2>4, <3>4
      <4> QED BY <2>4, <2>5, <2>6, <3>4, <4>1
    <3> QED BY <3>1, <3>2, <3>3, <3>4
  <2>9. \A i \in 1..Len(all) : all[i] \in ToSet(old) \cup IdsOf(batch)
    <3> SUFFICES ASSUME NEW i \in 1..Len(all) PROVE all[i] \in ToSet(old) \cup IdsOf(batch)
      OBVIOUS
    <3>1. CASE i <= Len(old)
      BY <2>4, <2>5, <3>1
    <3>2. CASE ~(i <= Len(old))
      <4>1. i - Len(old) \in 1..Len(batch)
        BY <2>1, <2>4, <3>2
      <4> QED BY <2>4, <2>6, <3>2, <4>1
    <3> QED BY <3>1, <3>2
  <2>10. /\ new \in Seq(Ids) /\ Len(new) = n
         /\ \A i \in 1..n : new[i] = all[Len(all) - n + i]
    <3>1. all \in Seq(Ids)
      BY <2>4
    <3>2. n \in 1..Len(all) /\ new = Newest(all, n)
      BY <2>2
    <3>3. /\ Newest(all, n) \in Seq(Ids) /\ Len(Newest(all, n)) = n
          /\ \A i \in 1..n : Newest(all, n)[i] = all[Len(all) - n + i]
      BY <3>1, <3>2, NewestElements
    <3> QED BY <3>2, <3>3
  <2>11. \A i \in 1..n : Len(all) - n + i \in 1..Len(all)
    BY <2>1, <2>4
  <2>12. IsInjective(new)
    <3> SUFFICES ASSUME NEW i \in 1..n, NEW j \in 1..n, new[i] = new[j] PROVE i = j
      BY <2>10 DEF IsInjective
    <3>1. all[Len(all) - n + i] = all[Len(all) - n + j]
      BY <2>10
    <3>2. Len(all) - n + i = Len(all) - n + j
      BY <2>8, <2>11, <3>1, Zenon
    <3> QED BY <2>1, <2>4, <3>2
  <2>13. ToSet(new) \subseteq ToSet(old) \cup IdsOf(batch)
    BY <2>9, <2>10, <2>11 DEF ToSet
  <2>14. batch[Len(batch)].id \in ToSet(new)
    <3>1. n \in 1..n /\ Len(all) - n + n = Len(all) /\ Len(all) \in 1..Len(all)
      BY <2>1, <2>4
    <3>2. new[n] = all[Len(all)]
      BY <2>10, <3>1
    <3>3. all[Len(all)] = ids[Len(batch)]
      BY <2>1, <2>4, <3>1
    <3>4. ids[Len(batch)] = batch[Len(batch)].id
      BY <2>1
    <3>5. new[n] \in ToSet(new)
      <4>1. DOMAIN new = 1..n
        BY <2>10
      <4> QED BY <3>1, <4>1, Zenon DEF ToSet
    <3> QED BY <3>2, <3>3, <3>4, <3>5
  <2>15. Len(new) = n /\ n \in Nat /\ n <= Retention[t]
    BY <2>2, <2>10, LimitAssumption
  <2>16. new \in Seq(Ids) /\ Len(new) <= Retention[t]
    BY <2>10, <2>15
  <2>17. batch = <<>> => new = order[t]
    BY <1>2
  <2>18. ToSet(new) \subseteq ToSet(order[t]) \cup IdsOf(batch)
    BY <2>13 DEF old
  <2> HIDE DEF old, ids, all
  <2> QED BY <2>12, <2>14, <2>16, <2>17, <2>18, Zenon
<1> QED BY <1>1, <1>2, Zenon

-----------------------------------------------------------------------------
(* Terminal results.                                                        *)

CacheTypeOK ==
  /\ active \in [Transports -> [Ids -> Envelopes \cup {NoEnvelope}]]
  /\ activeKey \in [Keys -> Ids \cup {NoId}]
  /\ completed \in [Transports -> [Ids -> Result \cup {NoResult}]]
  /\ completedKey \in [Keys -> Ids \cup {NoId}]
  /\ order \in [Transports -> Seq(Ids)]
  /\ ran \in [Transports -> [Ids -> Nat]]

\* An active entry carries its own id and has no answer yet.
ActiveUnanswered ==
  \A t \in Transports, id \in Ids :
    active[t][id] # NoEnvelope => active[t][id].id = id /\ completed[t][id] = NoResult

CacheInv ==
  CacheTypeOK /\ ActiveUnanswered /\ CachesCoherent /\ AtMostOnce /\ HonestResults

Succeeded == {"completed", "injected", "outcome_unknown"}

\* What send_terminal is called with: unanswered requests with ids of their own,
\* active as themselves (or, a refused direct command, not active at all), and a
\* state that tells whether they were dispatched.
Finishable(batch, state, dispatched) ==
  /\ batch \in [Transports -> Seq(Envelopes)]
  /\ state \in TerminalStates /\ dispatched \in BOOLEAN
  /\ state \in Succeeded => dispatched
  /\ state = "expired" => ~dispatched
  /\ \A t \in Transports : \A i \in 1..Len(batch[t]) :
       /\ completed[t][batch[t][i].id] = NoResult
       /\ \A j \in 1..Len(batch[t]) : batch[t][i].id = batch[t][j].id => i = j
       /\ active[t][batch[t][i].id] = batch[t][i]
            \/ (t = "direct" /\ active[t][batch[t][i].id] = NoEnvelope)

\* The results of a batch name its own envelopes, the others stay.
LEMMA RememberingEach ==
  ASSUME NEW t, NEW batch \in Seq(Envelopes), NEW state,
         \A i, j \in 1..Len(batch) : batch[i].id = batch[j].id => i = j
  PROVE  /\ \A id \in IdsOf(batch) : \E i \in 1..Len(batch) :
              LET r == Remembering(t, batch, state)[id]
              IN  /\ batch[i].id = id /\ r.env = batch[i] /\ r.state = state
                  /\ state \in TerminalStates => r \in Result
         /\ \A id \in Ids \ IdsOf(batch) : Remembering(t, batch, state)[id] = completed[t][id]
         /\ IdsOf(batch) \subseteq Ids
<1>1. \A id \in IdsOf(batch) : \E i \in 1..Len(batch) : batch[i].id = id
  BY DEF IdsOf
<1>2. \A i \in 1..Len(batch) : batch[i].id \in IdsOf(batch) /\ batch[i].id \in Ids
  BY EnvelopeFields DEF IdsOf
<1>3. IdsOf(batch) \subseteq Ids
  BY <1>1, <1>2
<1>4. ASSUME NEW i \in 1..Len(batch)
      PROVE  (CHOOSE e \in ToSet(batch) : e.id = batch[i].id) = batch[i]
  <2>1. batch[i] \in ToSet(batch)
    BY DEF ToSet
  <2>2. ASSUME NEW e \in ToSet(batch), e.id = batch[i].id PROVE e = batch[i]
    <3>1. PICK j \in 1..Len(batch) : e = batch[j]
      BY <2>2 DEF ToSet
    <3> QED BY <2>2, <3>1
  <2> QED BY <2>1, <2>2
<1>5. ASSUME NEW i \in 1..Len(batch)
      PROVE  LET r == Remembering(t, batch, state)[batch[i].id]
             IN  r.env = batch[i] /\ r.state = state /\ (state \in TerminalStates => r \in Result)
  <2> DEFINE x == batch[i].id
  <2>1. x \in Ids /\ x \in IdsOf(batch)
    BY <1>2
  <2>2. Remembering(t, batch, state)[x] =
          [env |-> CHOOSE e \in ToSet(batch) : e.id = x, state |-> state]
    <3> HIDE DEF x
    <3> QED BY <2>1 DEF Remembering
  <2>3. Remembering(t, batch, state)[x] = [env |-> batch[i], state |-> state]
    BY <1>4, <2>2
  <2>4. batch[i] \in Envelopes
    OBVIOUS
  <2> HIDE DEF x
  <2> QED BY <2>3, <2>4 DEF Result, x
<1>6. \A id \in Ids \ IdsOf(batch) : Remembering(t, batch, state)[id] = completed[t][id]
  BY DEF Remembering
<1> QED BY <1>1, <1>3, <1>5, <1>6

\* What Finish does to each table, in terms of the order it leaves.
LEMMA FinishEffect ==
  ASSUME CacheInv, NEW batch, NEW state, NEW dispatched,
         Finishable(batch, state, dispatched), Finish(batch, state, dispatched)
  PROVE  /\ order' \in [Transports -> Seq(Ids)]
         /\ \A t \in Transports :
              /\ IsInjective(order'[t]) /\ Len(order'[t]) <= Retention[t]
              /\ ToSet(order'[t]) \subseteq ToSet(order[t]) \cup IdsOf(batch[t])
              /\ batch[t] = <<>> => order'[t] = order[t]
              /\ batch[t] # <<>> => batch[t][Len(batch[t])].id \in ToSet(order'[t])
         /\ completed' = [t \in Transports |-> [id \in Ids |->
              IF id \in ToSet(order'[t]) THEN Remembering(t, batch[t], state)[id]
              ELSE NoResult]]
         /\ completedKey' = KeyIndex(Remembering("tunnel", batch["tunnel"], state),
                                     IdsOf(batch["tunnel"]), ToSet(order'["tunnel"]))
         /\ active' = [t \in Transports |-> [id \in Ids |->
              IF id \in IdsOf(batch[t]) THEN NoEnvelope ELSE active[t][id]]]
         /\ activeKey' = [k \in Keys |->
              IF activeKey[k] \in IdsOf(batch["tunnel"]) THEN NoId ELSE activeKey[k]]
         /\ ran' = [t \in Transports |-> [id \in Ids |->
              IF Remembering(t, batch[t], state)[id] # NoResult /\ id \notin ToSet(order'[t])
                THEN 0
              ELSE IF dispatched /\ id \in IdsOf(batch[t]) THEN ran[t][id] + 1
              ELSE ran[t][id]]]
<1> DEFINE newOrder(d, u) == [t \in Transports |-> IF t = "direct" THEN d ELSE u]
<1>1. PICK direct \in RetainedOrders("direct", batch["direct"]),
           tunnel \in RetainedOrders("tunnel", batch["tunnel"]) :
        /\ order' = newOrder(direct, tunnel)
        /\ completed' = [t \in Transports |-> [id \in Ids |->
             IF id \in ToSet(newOrder(direct, tunnel)[t])
               THEN Remembering(t, batch[t], state)[id] ELSE NoResult]]
        /\ completedKey' = KeyIndex(Remembering("tunnel", batch["tunnel"], state),
                                    IdsOf(batch["tunnel"]),
                                    ToSet(newOrder(direct, tunnel)["tunnel"]))
        /\ active' = [t \in Transports |-> [id \in Ids |->
             IF id \in IdsOf(batch[t]) THEN NoEnvelope ELSE active[t][id]]]
        /\ activeKey' = [k \in Keys |->
             IF activeKey[k] \in IdsOf(batch["tunnel"]) THEN NoId ELSE activeKey[k]]
        /\ ran' = [t \in Transports |-> [id \in Ids |->
             IF Remembering(t, batch[t], state)[id] # NoResult
                  /\ id \notin ToSet(newOrder(direct, tunnel)[t])
               THEN 0
             ELSE IF dispatched /\ id \in IdsOf(batch[t]) THEN ran[t][id] + 1
             ELSE ran[t][id]]]
  BY Zenon DEF Finish, Transports
<1>2. \A t \in Transports : order'[t] \in RetainedOrders(t, batch[t])
  BY <1>1 DEF Transports
<1>3. ASSUME NEW t \in Transports
      PROVE  /\ order'[t] \in Seq(Ids)
             /\ IsInjective(order'[t]) /\ Len(order'[t]) <= Retention[t]
             /\ ToSet(order'[t]) \subseteq ToSet(order[t]) \cup IdsOf(batch[t])
             /\ batch[t] = <<>> => order'[t] = order[t]
             /\ batch[t] # <<>> => batch[t][Len(batch[t])].id \in ToSet(order'[t])
  <2>1. order'[t] \in RetainedOrders(t, batch[t])
    BY <1>2
  <2>2. /\ batch[t] \in Seq(Envelopes)
        /\ \A i \in 1..Len(batch[t]) : completed[t][batch[t][i].id] = NoResult
        /\ \A i, j \in 1..Len(batch[t]) : batch[t][i].id = batch[t][j].id => i = j
    BY DEF Finishable
  <2>3. /\ order[t] \in Seq(Ids) /\ IsInjective(order[t]) /\ Len(order[t]) <= Retention[t]
        /\ \A id \in ToSet(order[t]) : completed[t][id] # NoResult
    BY DEF CacheInv, CacheTypeOK, CachesCoherent
  <2> QED BY <2>1, <2>2, <2>3, RetainedOrder
<1>4. order' = [t \in Transports |-> order'[t]]
  BY <1>1, Zenon
<1>5. order' \in [Transports -> Seq(Ids)]
  BY <1>3, <1>4
<1> QED BY <1>1, <1>3, <1>5, Zenon

\* The tables of t after Finish, entry by entry: the requests of done were
\* answered with results, the ids of kept are remembered.
EntriesAfter(t, done, kept, results, state, dispatched) ==
  /\ done \subseteq Ids /\ kept \subseteq Ids
  /\ \A id \in done :
        /\ completed[t][id] = NoResult /\ ran[t][id] = 0
        /\ completed'[t][id] = IF id \in kept THEN results[id] ELSE NoResult
        /\ results[id] \in Result /\ results[id].state = state
        /\ active[t][id] = results[id].env \/ (t = "direct" /\ active[t][id] = NoEnvelope)
        /\ active'[t][id] = NoEnvelope
        /\ ran'[t][id] = IF id \in kept /\ dispatched THEN 1 ELSE 0
  /\ \A id \in Ids \ done :
        /\ completed'[t][id] = IF id \in kept THEN completed[t][id] ELSE NoResult
        /\ id \in kept => completed[t][id] # NoResult
        /\ active'[t][id] = active[t][id]
        /\ ran'[t][id] = IF completed'[t][id] = NoResult THEN 0 ELSE ran[t][id]

LEMMA FinishEntries ==
  ASSUME CacheInv, NEW batch, NEW state, NEW dispatched,
         Finishable(batch, state, dispatched), Finish(batch, state, dispatched),
         NEW t \in Transports
  PROVE  EntriesAfter(t, IdsOf(batch[t]), ToSet(order'[t]), Remembering(t, batch[t], state),
                      state, dispatched)
<1> DEFINE B == batch[t]
           K == ToSet(order'[t])
           R == Remembering(t, B, state)
<1>1. /\ order'[t] \in Seq(Ids) /\ K \subseteq ToSet(order[t]) \cup IdsOf(B)
      /\ \A id \in Ids :
           /\ completed'[t][id] = IF id \in K THEN R[id] ELSE NoResult
           /\ active'[t][id] = IF id \in IdsOf(B) THEN NoEnvelope ELSE active[t][id]
           /\ ran'[t][id] = IF R[id] # NoResult /\ id \notin K THEN 0
                            ELSE IF dispatched /\ id \in IdsOf(B) THEN ran[t][id] + 1
                            ELSE ran[t][id]
  <2>1. /\ order' \in [Transports -> Seq(Ids)]
        /\ K \subseteq ToSet(order[t]) \cup IdsOf(B)
        /\ completed' = [u \in Transports |-> [id \in Ids |->
             IF id \in ToSet(order'[u]) THEN Remembering(u, batch[u], state)[id]
             ELSE NoResult]]
        /\ active' = [u \in Transports |-> [id \in Ids |->
             IF id \in IdsOf(batch[u]) THEN NoEnvelope ELSE active[u][id]]]
        /\ ran' = [u \in Transports |-> [id \in Ids |->
             IF Remembering(u, batch[u], state)[id] # NoResult /\ id \notin ToSet(order'[u])
               THEN 0
             ELSE IF dispatched /\ id \in IdsOf(batch[u]) THEN ran[u][id] + 1
             ELSE ran[u][id]]]
    <3>1. order' \in [Transports -> Seq(Ids)]
      BY FinishEffect
    <3>2. K \subseteq ToSet(order[t]) \cup IdsOf(B)
      BY FinishEffect
    <3>3. completed' = [u \in Transports |-> [id \in Ids |->
             IF id \in ToSet(order'[u]) THEN Remembering(u, batch[u], state)[id]
             ELSE NoResult]]
      BY FinishEffect
    <3>4. active' = [u \in Transports |-> [id \in Ids |->
             IF id \in IdsOf(batch[u]) THEN NoEnvelope ELSE active[u][id]]]
      BY FinishEffect
    <3>5. ran' = [u \in Transports |-> [id \in Ids |->
             IF Remembering(u, batch[u], state)[id] # NoResult /\ id \notin ToSet(order'[u])
               THEN 0
             ELSE IF dispatched /\ id \in IdsOf(batch[u]) THEN ran[u][id] + 1
             ELSE ran[u][id]]]
      BY FinishEffect
    <3> QED BY <3>1, <3>2, <3>3, <3>4, <3>5
  <2> QED BY <2>1
<1>2. /\ B \in Seq(Envelopes)
      /\ \A i \in 1..Len(B) :
           /\ completed[t][B[i].id] = NoResult
           /\ active[t][B[i].id] = B[i] \/ (t = "direct" /\ active[t][B[i].id] = NoEnvelope)
           /\ \A j \in 1..Len(B) : B[i].id = B[j].id => i = j
      /\ state \in TerminalStates /\ dispatched \in BOOLEAN
  BY DEF Finishable
<1>3. /\ \A id \in IdsOf(B) : \E i \in 1..Len(B) :
           B[i].id = id /\ R[id].env = B[i] /\ R[id].state = state /\ R[id] \in Result
      /\ \A id \in Ids \ IdsOf(B) : R[id] = completed[t][id]
      /\ IdsOf(B) \subseteq Ids
  <2> HIDE DEF B
  <2>1. B \in Seq(Envelopes) /\ \A i, j \in 1..Len(B) : B[i].id = B[j].id => i = j
    BY <1>2
  <2>2. \A id \in IdsOf(B) : \E i \in 1..Len(B) :
          B[i].id = id /\ R[id].env = B[i] /\ R[id].state = state /\ R[id] \in Result
    <3>1. state \in TerminalStates
      BY <1>2
    <3>2. \A id \in IdsOf(B) : \E i \in 1..Len(B) :
             LET r == Remembering(t, B, state)[id]
             IN  /\ B[i].id = id /\ r.env = B[i] /\ r.state = state
                 /\ state \in TerminalStates => r \in Result
      BY <2>1, RememberingEach, Zenon
    <3> QED BY <3>1, <3>2
  <2>3. \A id \in Ids \ IdsOf(B) : R[id] = completed[t][id]
    BY <2>1, RememberingEach
  <2>4. IdsOf(B) \subseteq Ids
    BY <2>1, RememberingEach
  <2> QED BY <2>2, <2>3, <2>4
<1>4. /\ \A id \in Ids : /\ ran[t][id] \in Nat /\ ran[t][id] <= 1
                         /\ ran[t][id] = 1 => completed[t][id] # NoResult
      /\ ToSet(order[t]) = {id \in Ids : completed[t][id] # NoResult}
      /\ \A id \in Ids : completed[t][id] # NoResult => completed[t][id] \in Result
  BY DEF CacheInv, CacheTypeOK, AtMostOnce, CachesCoherent
<1> HIDE DEF B, K, R
<1>5. K \subseteq Ids
  BY <1>1, <1>3, <1>4
<1>6. ASSUME NEW id \in IdsOf(B)
      PROVE  /\ completed[t][id] = NoResult /\ ran[t][id] = 0
             /\ completed'[t][id] = IF id \in K THEN R[id] ELSE NoResult
             /\ R[id] \in Result /\ R[id].state = state
             /\ active[t][id] = R[id].env \/ (t = "direct" /\ active[t][id] = NoEnvelope)
             /\ active'[t][id] = NoEnvelope
             /\ ran'[t][id] = IF id \in K /\ dispatched THEN 1 ELSE 0
  <2>1. PICK i \in 1..Len(B) :
          B[i].id = id /\ R[id].env = B[i] /\ R[id].state = state /\ R[id] \in Result
    BY <1>3
  <2>2. id \in Ids /\ B[i] \in Envelopes
    BY <1>2, <1>3
  <2>3. R[id].env = B[i] /\ R[id].state = state
    BY <1>3, <2>1
  <2>4. R[id] \in Result /\ R[id] # NoResult
    BY <1>3, <2>1, SentinelAssumption
  <2>5. completed[t][id] = NoResult /\ ran[t][id] = 0
    BY <1>2, <1>4, <2>1, <2>2
  <2>6. ran'[t][id] = IF id \in K /\ dispatched THEN 1 ELSE 0
    BY <1>1, <2>2, <2>4, <2>5
  <2> QED BY <1>1, <1>2, <2>1, <2>2, <2>3, <2>4, <2>5, <2>6
<1>7. ASSUME NEW id \in Ids \ IdsOf(B)
      PROVE  /\ completed'[t][id] = IF id \in K THEN completed[t][id] ELSE NoResult
             /\ id \in K => completed[t][id] # NoResult
             /\ active'[t][id] = active[t][id]
             /\ ran'[t][id] = IF completed'[t][id] = NoResult THEN 0 ELSE ran[t][id]
  <2>1. id \in K => completed[t][id] # NoResult
    BY <1>1, <1>4, <1>7
  <2>2. completed[t][id] = NoResult => ran[t][id] = 0
    BY <1>4, <1>7
  <2> QED BY <1>1, <1>3, <1>7, <2>1, <2>2
<1> QED BY <1>3, <1>5, <1>6, <1>7 DEF B, K, R, EntriesAfter

\* Answering requests keeps the tables of the scheduler coherent and honest.
LEMMA FinishKeepsCaches ==
  ASSUME CacheInv, NEW batch, NEW state, NEW dispatched,
         Finishable(batch, state, dispatched), Finish(batch, state, dispatched)
  PROVE  CacheInv'
<1> DEFINE D(t) == IdsOf(batch[t])
           K(t) == ToSet(order'[t])
           R(t) == Remembering(t, batch[t], state)
<1>0. \A t \in Transports : EntriesAfter(t, D(t), K(t), R(t), state, dispatched)
  BY FinishEntries
<1>2. /\ order' \in [Transports -> Seq(Ids)]
      /\ \A t \in Transports : IsInjective(order'[t]) /\ Len(order'[t]) <= Retention[t]
      /\ completed' = [t \in Transports |-> [id \in Ids |-> completed'[t][id]]]
      /\ completedKey' = KeyIndex(R("tunnel"), D("tunnel"), K("tunnel"))
      /\ active' = [t \in Transports |-> [id \in Ids |-> active'[t][id]]]
      /\ activeKey' = [k \in Keys |->
           IF activeKey[k] \in D("tunnel") THEN NoId ELSE activeKey[k]]
      /\ ran' = [t \in Transports |-> [id \in Ids |-> ran'[t][id]]]
  BY FinishEffect
<1> HIDE DEF D, K, R
<1> USE DEF CacheInv
<1>1. \A t \in Transports :
        /\ D(t) \subseteq Ids /\ K(t) \subseteq Ids
        /\ \A id \in D(t) :
              /\ completed[t][id] = NoResult /\ ran[t][id] = 0
              /\ completed'[t][id] = IF id \in K(t) THEN R(t)[id] ELSE NoResult
              /\ R(t)[id] \in Result /\ R(t)[id].state = state
              /\ active[t][id] = R(t)[id].env \/ (t = "direct" /\ active[t][id] = NoEnvelope)
              /\ active'[t][id] = NoEnvelope
              /\ ran'[t][id] = IF id \in K(t) /\ dispatched THEN 1 ELSE 0
        /\ \A id \in Ids \ D(t) :
              /\ completed'[t][id] = IF id \in K(t) THEN completed[t][id] ELSE NoResult
              /\ id \in K(t) => completed[t][id] # NoResult
              /\ active'[t][id] = active[t][id]
              /\ ran'[t][id] = IF completed'[t][id] = NoResult THEN 0 ELSE ran[t][id]
  BY <1>0, Zenon DEF EntriesAfter
<1>3. /\ \A t \in Transports, id \in Ids :
           /\ active[t][id] \in Envelopes \cup {NoEnvelope}
           /\ completed[t][id] \in Result \cup {NoResult}
           /\ ran[t][id] \in Nat /\ ran[t][id] <= 1
           /\ ran[t][id] = 1 => completed[t][id] # NoResult
           /\ active[t][id] # NoEnvelope => active[t][id].id = id /\ completed[t][id] = NoResult
      /\ \A k \in Keys : activeKey[k] \in Ids \cup {NoId} /\ completedKey[k] \in Ids \cup {NoId}
  BY DEF CacheTypeOK, ActiveUnanswered, AtMostOnce
<1>4. /\ state \in Succeeded => dispatched
      /\ state = "expired" => ~dispatched
      /\ dispatched \in BOOLEAN
  BY DEF Finishable
<1>5. \A t \in Transports : K(t) = {id \in Ids : completed'[t][id] # NoResult}
  <2> SUFFICES ASSUME NEW t \in Transports, NEW id \in Ids
               PROVE  id \in K(t) <=> completed'[t][id] # NoResult
    BY <1>1
  <2>1. CASE id \in D(t)
    BY <1>1, <2>1, SentinelAssumption
  <2>2. CASE id \notin D(t)
    BY <1>1, <2>2
  <2> QED BY <2>1, <2>2
\* A key names at most one request that is active or remembered.
<1>6. ASSUME NEW k \in Keys
      PROVE  /\ \A id \in Ids :
                  /\ activeKey[k] = id <=>
                       active["tunnel"][id] # NoEnvelope /\ active["tunnel"][id].key = k
                  /\ completedKey[k] = id <=>
                       completed["tunnel"][id] # NoResult /\ completed["tunnel"][id].env.key = k
                  /\ activeKey[k] = id => completedKey[k] = NoId
             /\ \A id \in D("tunnel") : R("tunnel")[id].env.key = k => activeKey[k] = id
  <2>1. "tunnel" \in Transports /\ "tunnel" # "direct"
    BY DEF Transports
  <2>2. \A id \in Ids :
          /\ activeKey[k] = id <=>
               active["tunnel"][id] # NoEnvelope /\ active["tunnel"][id].key = k
          /\ completedKey[k] = id <=>
               completed["tunnel"][id] # NoResult /\ completed["tunnel"][id].env.key = k
          /\ activeKey[k] = id => completedKey[k] = NoId
    BY DEF CachesCoherent
  <2>3. ASSUME NEW id \in D("tunnel"), R("tunnel")[id].env.key = k PROVE activeKey[k] = id
    <3>1. /\ id \in Ids /\ active["tunnel"][id] = R("tunnel")[id].env
          /\ R("tunnel")[id] \in Result
      BY <1>1, <2>1
    <3>2. active["tunnel"][id] # NoEnvelope
      BY <3>1, SentinelAssumption DEF Result
    <3> QED BY <2>2, <2>3, <3>1, <3>2
  <2> QED BY <2>2, <2>3
<1>7. ASSUME NEW k \in Keys, NEW id \in Ids
      PROVE  activeKey'[k] = id <=>
               active'["tunnel"][id] # NoEnvelope /\ active'["tunnel"][id].key = k
  <2>1. "tunnel" \in Transports /\ NoId \notin Ids
    BY SentinelAssumption DEF Transports
  <2>2. activeKey'[k] = IF activeKey[k] \in D("tunnel") THEN NoId ELSE activeKey[k]
    BY <1>2
  <2>3. CASE id \in D("tunnel")
    BY <1>1, <2>1, <2>2, <2>3
  <2>4. CASE id \notin D("tunnel")
    <3>1. active'["tunnel"][id] = active["tunnel"][id]
      BY <1>1, <2>1, <2>4
    <3> QED BY <1>6, <2>1, <2>2, <2>4, <3>1
  <2> QED BY <2>3, <2>4
<1>8. ASSUME NEW k \in Keys
      PROVE  /\ completedKey'[k] \in Ids \cup {NoId}
             /\ \A id \in Ids : completedKey'[k] = id <=>
                  completed'["tunnel"][id] # NoResult /\ completed'["tunnel"][id].env.key = k
             /\ \A id \in Ids : activeKey'[k] = id => completedKey'[k] = NoId
  <2> DEFINE fresh == {id \in D("tunnel") \cap K("tunnel") : R("tunnel")[id].env.key = k}
  <2>1. "tunnel" \in Transports /\ NoId \notin Ids /\ NoId \notin K("tunnel")
    BY <1>1, SentinelAssumption DEF Transports
  <2>2. completedKey'[k] =
          IF fresh # {} THEN CHOOSE id \in fresh : TRUE
          ELSE IF completedKey[k] \in K("tunnel") THEN completedKey[k] ELSE NoId
    BY <1>2 DEF KeyIndex
  <2>3. \A id \in fresh : activeKey[k] = id
    BY <1>6
  <2>4. activeKey'[k] = IF activeKey[k] \in D("tunnel") THEN NoId ELSE activeKey[k]
    BY <1>2
  <2>5. \A id \in Ids : completed'["tunnel"][id] # NoResult <=> id \in K("tunnel")
    BY <1>5, <2>1
  <2>6. /\ \A id \in D("tunnel") \cap K("tunnel") : completed'["tunnel"][id] = R("tunnel")[id]
        /\ \A id \in K("tunnel") \ D("tunnel") :
              completed'["tunnel"][id] = completed["tunnel"][id] /\ completed["tunnel"][id] # NoResult
        /\ \A id \in D("tunnel") : completed["tunnel"][id] = NoResult
        /\ K("tunnel") \subseteq Ids /\ D("tunnel") \subseteq Ids
    BY <1>1, <2>1
  <2>7. CASE fresh # {}
    <3>1. PICK f \in fresh : completedKey'[k] = f
      BY <2>2, <2>7
    <3>2. f \in Ids /\ f \in D("tunnel") \cap K("tunnel") /\ R("tunnel")[f].env.key = k
      BY <2>6
    <3>3. activeKey[k] = f /\ completedKey[k] = NoId
      BY <1>6, <2>3, <3>2
    <3>4. ASSUME NEW id \in Ids, completed'["tunnel"][id] # NoResult,
                 completed'["tunnel"][id].env.key = k
          PROVE  id = f
      <4>1. id \in K("tunnel")
        BY <2>5, <3>4
      <4>2. CASE id \in D("tunnel")
        BY <1>6, <2>6, <3>3, <3>4, <4>1, <4>2
      <4>3. CASE id \notin D("tunnel")
        BY <1>6, <2>1, <2>6, <3>3, <3>4, <4>1, <4>3
      <4> QED BY <4>2, <4>3
    <3>5. completed'["tunnel"][f] # NoResult /\ completed'["tunnel"][f].env.key = k
      BY <2>5, <2>6, <3>2
    <3>6. \A id \in Ids : activeKey'[k] # id
      BY <2>1, <2>4, <3>2, <3>3
    <3> QED BY <3>1, <3>2, <3>4, <3>5, <3>6
  <2>8. CASE fresh = {}
    <3>1. completedKey'[k] = IF completedKey[k] \in K("tunnel") THEN completedKey[k] ELSE NoId
      BY <2>2, <2>8
    <3>2. ASSUME NEW id \in Ids
          PROVE  completedKey'[k] = id <=>
                   completed'["tunnel"][id] # NoResult /\ completed'["tunnel"][id].env.key = k
      <4>1. CASE id \notin K("tunnel")
        BY <2>1, <2>5, <3>1, <4>1
      <4>2. CASE id \in K("tunnel") /\ id \in D("tunnel")
        <5>1. completed["tunnel"][id] = NoResult /\ completedKey[k] # id
          BY <1>6, <2>6, <4>2
        <5>2. R("tunnel")[id].env.key # k
          BY <2>8, <4>2
        <5> QED BY <2>1, <2>6, <3>1, <4>2, <5>1, <5>2
      <4>3. CASE id \in K("tunnel") /\ id \notin D("tunnel")
        <5>1. completed'["tunnel"][id] = completed["tunnel"][id] /\ completed["tunnel"][id] # NoResult
          BY <2>6, <4>3
        <5> QED BY <1>6, <2>1, <3>1, <4>3, <5>1
      <4> QED BY <4>1, <4>2, <4>3
    <3>3. \A id \in Ids : activeKey'[k] = id => completedKey'[k] = NoId
      BY <1>6, <2>1, <2>4, <3>1
    <3> QED BY <1>3, <3>1, <3>2, <3>3
  <2> QED BY <2>7, <2>8
<1>9. CacheTypeOK'
  <2>1. \A t \in Transports, id \in Ids : active'[t][id] \in Envelopes \cup {NoEnvelope}
    BY <1>1, <1>3
  <2>2. \A t \in Transports, id \in Ids : completed'[t][id] \in Result \cup {NoResult}
    BY <1>1, <1>3
  <2>3. \A t \in Transports, id \in Ids : ran'[t][id] \in Nat
    BY <1>1, <1>3
  <2>4. activeKey' \in [Keys -> Ids \cup {NoId}]
    BY <1>2, <1>3
  <2>5. completedKey' \in [Keys -> Ids \cup {NoId}]
    <3>1. completedKey' = [k \in Keys |-> completedKey'[k]]
      BY <1>2 DEF KeyIndex
    <3> QED BY <1>8, <3>1
  <2>6. active' \in [Transports -> [Ids -> Envelopes \cup {NoEnvelope}]]
    BY <1>2, <2>1
  <2>7. completed' \in [Transports -> [Ids -> Result \cup {NoResult}]]
    BY <1>2, <2>2
  <2>8. ran' \in [Transports -> [Ids -> Nat]]
    BY <1>2, <2>3
  <2> QED BY <1>2, <2>4, <2>5, <2>6, <2>7, <2>8 DEF CacheTypeOK
<1>10. ActiveUnanswered'
  <2> SUFFICES ASSUME NEW t \in Transports, NEW id \in Ids, active'[t][id] # NoEnvelope
               PROVE  active'[t][id].id = id /\ completed'[t][id] = NoResult
    BY DEF ActiveUnanswered
  <2>1. id \notin D(t)
    BY <1>1
  <2> QED BY <1>1, <1>3, <2>1
<1>11. CachesCoherent'
  BY <1>2, <1>5, <1>7, <1>8 DEF CachesCoherent, K
<1>12. \A t \in Transports, id \in Ids :
         ran'[t][id] <= 1 /\ (ran'[t][id] = 1 => completed'[t][id] # NoResult)
  <2> SUFFICES ASSUME NEW t \in Transports, NEW id \in Ids
               PROVE  ran'[t][id] <= 1 /\ (ran'[t][id] = 1 => completed'[t][id] # NoResult)
    OBVIOUS
  <2>1. CASE id \in D(t)
    BY <1>1, <1>4, <2>1, SentinelAssumption
  <2>2. CASE id \notin D(t)
    BY <1>1, <1>3, <2>2
  <2> QED BY <2>1, <2>2
<1>13. AtMostOnce'
  <2>1. ASSUME NEW i \in Ids, NEW j \in Ids, NEW k \in Keys,
               ran'["tunnel"][i] = 1, completed'["tunnel"][i].env.key = k,
               ran'["tunnel"][j] = 1, completed'["tunnel"][j].env.key = k
        PROVE  i = j
    <3>1. completed'["tunnel"][i] # NoResult /\ completed'["tunnel"][j] # NoResult
      BY <1>12, <2>1 DEF Transports
    <3> QED BY <1>8, <2>1, <3>1
  <2> QED BY <1>12, <2>1 DEF AtMostOnce
<1>14. HonestResults'
  <2> SUFFICES ASSUME NEW t \in Transports, NEW id \in Ids, completed'[t][id] # NoResult
               PROVE  /\ completed'[t][id].state \in Succeeded => ran'[t][id] = 1
                      /\ completed'[t][id].state = "expired" => ran'[t][id] = 0
    BY DEF HonestResults, Succeeded
  <2>1. CASE id \in D(t)
    BY <1>1, <1>4, <2>1
  <2>2. CASE id \notin D(t)
    <3>1. completed'[t][id] = completed[t][id] /\ completed[t][id] # NoResult
          /\ ran'[t][id] = ran[t][id]
      BY <1>1, <2>2
    <3> QED BY <3>1 DEF HonestResults, Succeeded
  <2> QED BY <2>1, <2>2
<1> QED BY <1>9, <1>10, <1>11, <1>13, <1>14

One(e) == [t \in Transports |-> IF t = e.transport THEN <<e>> ELSE <<>>]

LEMMA OneBatch ==
  ASSUME NEW e \in Envelopes
  PROVE  /\ One(e) \in [Transports -> Seq(Envelopes)]
         /\ e.transport \in Transports /\ e.id \in Ids
         /\ One(e)[e.transport] = <<e>> /\ IdsOf(One(e)[e.transport]) = {e.id}
         /\ \A t \in Transports \ {e.transport} : One(e)[t] = <<>> /\ IdsOf(One(e)[t]) = {}
<1>1. e.transport \in Transports /\ e.id \in Ids
  BY EnvelopeFields
<1>2. <<e>> \in Seq(Envelopes) /\ <<>> \in Seq(Envelopes)
  OBVIOUS
<1>3. IdsOf(<<e>>) = {e.id}
  <2>1. DOMAIN <<e>> = {1} /\ <<e>>[1] = e
    OBVIOUS
  <2> QED BY <2>1 DEF IdsOf
<1>4. IdsOf(<<>>) = {}
  <2>1. DOMAIN <<>> = {}
    OBVIOUS
  <2> QED BY <2>1 DEF IdsOf
<1> QED BY <1>1, <1>2, <1>3, <1>4 DEF One

\* What answering the single request e changes.
LEMMA FinishOneEffect ==
  ASSUME CacheInv, NEW e \in Envelopes, NEW state \in TerminalStates,
         NEW dispatched \in BOOLEAN,
         state \in Succeeded => dispatched, state = "expired" => ~dispatched,
         completed[e.transport][e.id] = NoResult,
         \/ active[e.transport][e.id] = e
         \/ e.transport = "direct" /\ active[e.transport][e.id] = NoEnvelope,
         FinishOne(e, state, dispatched)
  PROVE  /\ CacheInv'
         /\ completed'[e.transport][e.id] # NoResult
         /\ active[e.transport][e.id] = e => completed'[e.transport][e.id].env = e
         /\ active'[e.transport][e.id] = NoEnvelope
         /\ ran'[e.transport][e.id] = IF dispatched THEN 1 ELSE 0
         /\ \A t \in Transports, id \in Ids : t # e.transport \/ id # e.id =>
              /\ completed'[t][id] \in {completed[t][id], NoResult}
              /\ active'[t][id] = active[t][id]
              /\ ran'[t][id] = IF completed'[t][id] = NoResult THEN 0 ELSE ran[t][id]
<1> DEFINE t0 == e.transport
           Done(t) == IdsOf(One(e)[t])
           Kept(t) == ToSet(order'[t])
           Results(t) == Remembering(t, One(e)[t], state)
<1>1. Finish(One(e), state, dispatched)
  BY DEF FinishOne, One
<1>2. Finishable(One(e), state, dispatched)
  <2>1. ASSUME NEW t \in Transports, NEW i \in 1..Len(One(e)[t])
        PROVE  t = t0 /\ i = 1 /\ One(e)[t][i] = e /\ Len(One(e)[t]) = 1
    <3>1. t = t0
      <4>1. Len(<<>>) = 0
        OBVIOUS
      <4> QED BY <2>1, <4>1, OneBatch
    <3>2. One(e)[t] = <<e>>
      BY <3>1, OneBatch
    <3>3. i \in 1..Len(<<e>>)
      BY <3>2
    <3>4. i = 1 /\ <<e>>[i] = e /\ Len(<<e>>) = 1
      BY <3>3
    <3> QED BY <3>1, <3>2, <3>4
  <2>2. \A t \in Transports : \A i \in 1..Len(One(e)[t]) :
          /\ completed[t][One(e)[t][i].id] = NoResult
          /\ \A j \in 1..Len(One(e)[t]) : One(e)[t][i].id = One(e)[t][j].id => i = j
          /\ active[t][One(e)[t][i].id] = One(e)[t][i]
               \/ (t = "direct" /\ active[t][One(e)[t][i].id] = NoEnvelope)
    <3> SUFFICES ASSUME NEW t \in Transports, NEW i \in 1..Len(One(e)[t])
          PROVE  /\ completed[t][One(e)[t][i].id] = NoResult
                 /\ \A j \in 1..Len(One(e)[t]) : One(e)[t][i].id = One(e)[t][j].id => i = j
                 /\ active[t][One(e)[t][i].id] = One(e)[t][i]
                      \/ (t = "direct" /\ active[t][One(e)[t][i].id] = NoEnvelope)
      OBVIOUS
    <3>1. t = t0 /\ One(e)[t][i] = e
      BY <2>1
    <3>2. i = 1 /\ Len(One(e)[t]) = 1
      BY <2>1
    <3>3. \A j \in 1..Len(One(e)[t]) : i = j
      BY <3>2
    <3>4. completed[t][e.id] = NoResult
      BY <3>1
    <3>5. active[t][e.id] = e \/ (t = "direct" /\ active[t][e.id] = NoEnvelope)
      BY <3>1
    <3> QED BY <3>1, <3>3, <3>4, <3>5, Zenon
  <2> QED BY <2>2, OneBatch DEF Finishable
<1>3. CacheInv'
  BY <1>1, <1>2, FinishKeepsCaches
<1>4. \A t \in Transports : EntriesAfter(t, Done(t), Kept(t), Results(t), state, dispatched)
  BY <1>1, <1>2, FinishEntries
<1>5. e.id \in Kept(t0)
  <2>1. \A t \in Transports :
          One(e)[t] # <<>> => One(e)[t][Len(One(e)[t])].id \in ToSet(order'[t])
    BY <1>1, <1>2, FinishEffect
  <2>2. Len(<<e>>) = 1 /\ <<e>>[1] = e /\ <<e>> # <<>>
    OBVIOUS
  <2> QED BY <2>1, <2>2, OneBatch
<1>6. /\ t0 \in Transports /\ e.id \in Ids /\ Done(t0) = {e.id} /\ e # NoEnvelope
      /\ \A t \in Transports \ {t0} : Done(t) = {}
  BY OneBatch, EnvelopeFields
<1> HIDE DEF Done, Kept, Results, t0
<1>7. /\ completed'[t0][e.id] = Results(t0)[e.id]
      /\ Results(t0)[e.id] \in Result
      /\ active[t0][e.id] = Results(t0)[e.id].env \/ active[t0][e.id] = NoEnvelope
      /\ active'[t0][e.id] = NoEnvelope
      /\ ran'[t0][e.id] = IF dispatched THEN 1 ELSE 0
  BY <1>4, <1>5, <1>6 DEF EntriesAfter
<1>8. ASSUME NEW t \in Transports, NEW id \in Ids, t # t0 \/ id # e.id
      PROVE  /\ completed'[t][id] \in {completed[t][id], NoResult}
             /\ active'[t][id] = active[t][id]
             /\ ran'[t][id] = IF completed'[t][id] = NoResult THEN 0 ELSE ran[t][id]
  <2>1. id \in Ids \ Done(t)
    BY <1>6, <1>8
  <2> QED BY <1>4, <2>1 DEF EntriesAfter
<1> QED BY <1>3, <1>6, <1>7, <1>8, SentinelAssumption DEF t0

-----------------------------------------------------------------------------
(* The lanes.                                                               *)

QueueTypeOK ==
  /\ queue \in [Transports -> [Classes -> Seq(Request)]]
  /\ queuedCount \in [Transports -> Nat]
  /\ queuedBytes \in [Transports -> Nat]

LEMMA AgedLane ==
  ASSUME NEW lane \in Seq(Request)
  PROVE  /\ Aged(lane) \in Seq(Request) /\ Len(Aged(lane)) = Len(lane)
         /\ \A i \in 1..Len(lane) : Aged(lane)[i].env = lane[i].env
         /\ BytesIn(Aged(lane)) = BytesIn(lane)
<1>1. ASSUME NEW i \in 1..Len(lane)
      PROVE  /\ [lane[i] EXCEPT !.wait = IF @ > 0 THEN @ - 1 ELSE 0] \in Request
             /\ [lane[i] EXCEPT !.wait = IF @ > 0 THEN @ - 1 ELSE 0].env = lane[i].env
  <2>1. lane[i] \in Request
    OBVIOUS
  <2> QED BY <2>1 DEF Request
<1>2. /\ Aged(lane) \in Seq(Request) /\ Len(Aged(lane)) = Len(lane)
      /\ \A i \in 1..Len(lane) : Aged(lane)[i].env = lane[i].env
  <2> DEFINE older(i) == [lane[i] EXCEPT !.wait = IF @ > 0 THEN @ - 1 ELSE 0]
  <2>1. Aged(lane) = [i \in 1..Len(lane) |-> older(i)]
    BY DEF Aged
  <2>2. \A i \in 1..Len(lane) : older(i) \in Request /\ older(i).env = lane[i].env
    BY <1>1
  <2>3. Len(lane) \in Nat
    OBVIOUS
  <2> HIDE DEF older
  <2> QED BY <2>1, <2>2, <2>3
<1>3. BytesIn(Aged(lane)) = BytesIn(lane)
  BY <1>2, BytesInSame
<1> QED BY <1>2, <1>3

\* The budgets hold when the counters follow the lanes and nothing grows.
LEMMA BoundedShrinks ==
  ASSUME QueueTypeOK, Bounded,
         queue' \in [Transports -> [Classes -> Seq(Request)]],
         queuedCount' \in [Transports -> Int], queuedBytes' \in [Transports -> Int],
         \A t \in Transports :
           /\ queuedCount'[t] = Len(queue'[t]["interactive"]) + Len(queue'[t]["bulk"])
           /\ queuedBytes'[t] = BytesIn(queue'[t]["interactive"]) + BytesIn(queue'[t]["bulk"])
           /\ queuedCount'[t] <= queuedCount[t] /\ queuedBytes'[t] <= queuedBytes[t]
           /\ \A c \in Classes : Len(queue'[t][c]) <= Len(queue[t][c])
  PROVE  QueueTypeOK' /\ Bounded'
<1>1. /\ "direct" \in Transports /\ "tunnel" \in Transports
      /\ "interactive" \in Classes /\ "bulk" \in Classes
  BY DEF Transports, Classes
<1>2. ASSUME NEW t \in Transports
      PROVE  /\ queuedCount'[t] \in Nat /\ queuedBytes'[t] \in Nat
             /\ queuedCount[t] \in Nat /\ queuedBytes[t] \in Nat
             /\ queuedCount'[t] <= MaxTransport[t] /\ MaxTransport[t] \in Nat
             /\ \A c \in Classes : Len(queue'[t][c]) <= MaxLane[t][c]
  <2>1. /\ queue'[t]["interactive"] \in Seq(Request) /\ queue'[t]["bulk"] \in Seq(Request)
    BY <1>1
  <2>2. /\ Len(queue'[t]["interactive"]) \in Nat /\ Len(queue'[t]["bulk"]) \in Nat
        /\ BytesIn(queue'[t]["interactive"]) \in Nat /\ BytesIn(queue'[t]["bulk"]) \in Nat
    BY <2>1, BytesInNat
  <2>3. queuedCount[t] \in Nat /\ queuedBytes[t] \in Nat /\ MaxTransport[t] \in Nat
    BY LimitAssumption DEF QueueTypeOK
  <2>4. ASSUME NEW c \in Classes PROVE Len(queue'[t][c]) <= MaxLane[t][c]
    <3>1. Len(queue'[t][c]) \in Nat /\ Len(queue[t][c]) \in Nat /\ MaxLane[t][c] \in Nat
      BY LimitAssumption DEF QueueTypeOK
    <3>2. Len(queue[t][c]) <= MaxLane[t][c] /\ Len(queue'[t][c]) <= Len(queue[t][c])
      BY DEF Bounded
    <3> DEFINE x == Len(queue'[t][c])  y == Len(queue[t][c])  z == MaxLane[t][c]
    <3>3. x \in Nat /\ y \in Nat /\ z \in Nat /\ x <= y /\ y <= z
      BY <3>1, <3>2
    <3> HIDE DEF x, y, z
    <3>4. x <= z
      BY <3>3
    <3> QED BY <3>4 DEF x, z
  <2>5. queuedCount'[t] \in Nat /\ queuedBytes'[t] \in Nat
    <3>1. /\ queuedCount'[t] = Len(queue'[t]["interactive"]) + Len(queue'[t]["bulk"])
          /\ queuedBytes'[t] = BytesIn(queue'[t]["interactive"]) + BytesIn(queue'[t]["bulk"])
      BY Zenon
    <3> DEFINE a == Len(queue'[t]["interactive"])  b == Len(queue'[t]["bulk"])
               c == BytesIn(queue'[t]["interactive"])  d == BytesIn(queue'[t]["bulk"])
    <3>2. a \in Nat /\ b \in Nat /\ c \in Nat /\ d \in Nat
      BY <2>2
    <3> HIDE DEF a, b, c, d
    <3>3. a + b \in Nat /\ c + d \in Nat
      BY <3>2
    <3> QED BY <3>1, <3>3 DEF a, b, c, d
  <2>6. queuedCount[t] <= MaxTransport[t] /\ queuedCount'[t] <= queuedCount[t]
    BY DEF Bounded
  <2> QED BY <2>3, <2>4, <2>5, <2>6
<1>3. TotalDepth' <= MaxQueue /\ TotalBytes' <= MaxBytes
      /\ queuedBytes'["tunnel"] <= MaxTunnelBytes
  <2>1. TotalDepth <= MaxQueue /\ TotalBytes <= MaxBytes /\ queuedBytes["tunnel"] <= MaxTunnelBytes
    BY DEF Bounded
  <2>2. /\ TotalDepth = queuedCount["direct"] + queuedCount["tunnel"]
        /\ TotalBytes = queuedBytes["direct"] + queuedBytes["tunnel"]
        /\ TotalDepth' = queuedCount'["direct"] + queuedCount'["tunnel"]
        /\ TotalBytes' = queuedBytes'["direct"] + queuedBytes'["tunnel"]
    BY DEF TotalDepth, TotalBytes
  <2>3. \A t \in Transports :
          /\ queuedCount'[t] \in Nat /\ queuedBytes'[t] \in Nat
          /\ queuedCount[t] \in Nat /\ queuedBytes[t] \in Nat
          /\ queuedCount'[t] <= queuedCount[t] /\ queuedBytes'[t] <= queuedBytes[t]
    BY <1>2
  <2> DEFINE d == queuedCount["direct"]  u == queuedCount["tunnel"]
             dd == queuedCount'["direct"]  uu == queuedCount'["tunnel"]
             e == queuedBytes["direct"]  w == queuedBytes["tunnel"]
             ee == queuedBytes'["direct"]  ww == queuedBytes'["tunnel"]
  <2>4. /\ d \in Nat /\ u \in Nat /\ dd \in Nat /\ uu \in Nat /\ dd <= d /\ uu <= u
        /\ e \in Nat /\ w \in Nat /\ ee \in Nat /\ ww \in Nat /\ ee <= e /\ ww <= w
    BY <1>1, <2>3
  <2>5. d + u <= MaxQueue /\ e + w <= MaxBytes /\ w <= MaxTunnelBytes
    BY <2>1, <2>2
  <2> HIDE DEF d, u, dd, uu, e, w, ee, ww
  <2>6. dd + uu <= MaxQueue /\ ee + ww <= MaxBytes /\ ww <= MaxTunnelBytes
    BY <2>4, <2>5, LimitAssumption
  <2> QED BY <2>2, <2>6 DEF dd, uu, ee, ww
<1>4. QueueTypeOK'
  BY <1>2 DEF QueueTypeOK
<1>5. Bounded'
  BY <1>2, <1>3 DEF Bounded
<1> QED BY <1>4, <1>5

\* What OneHome says of the request at place i of a lane.
LEMMA HomeOf ==
  ASSUME OneHome, QueueTypeOK, NEW t \in Transports, NEW c \in Classes,
         NEW i \in 1..Len(queue[t][c])
  PROVE  /\ queue[t][c][i] \in Request
         /\ queue[t][c][i].env \in Envelopes /\ queue[t][c][i].env.id \in Ids
         /\ active[t][queue[t][c][i].env.id] = queue[t][c][i].env
         /\ queue[t][c][i].env.transport = t /\ queue[t][c][i].env.class = c
         /\ \A j \in 1..Len(queue[t][c]) :
              queue[t][c][j].env.id = queue[t][c][i].env.id => i = j
<1>1. queue[t][c] \in Seq(Request) /\ DOMAIN queue[t][c] = 1..Len(queue[t][c])
  BY DEF QueueTypeOK
<1>2. queue[t][c][i] \in Request
  BY <1>1
<1> DEFINE e == queue[t][c][i].env
<1>3. e \in Envelopes
  BY <1>2 DEF Request
<1>4. i \in DOMAIN queue[t][c]
  BY <1>1
<1>5. /\ active[t][e.id] = e /\ e.transport = t /\ e.class = c
      /\ \A j \in DOMAIN queue[t][c] : queue[t][c][j].env.id = e.id => i = j
  <2>1. \A n \in DOMAIN queue[t][c] :
          LET x == queue[t][c][n].env
          IN  /\ active[t][x.id] = x /\ x.transport = t /\ x.class = c
              /\ \A j \in DOMAIN queue[t][c] : queue[t][c][j].env.id = x.id => n = j
    BY Zenon DEF OneHome
  <2> QED BY <1>4, <2>1, Zenon
<1> QED BY <1>1, <1>2, <1>3, <1>5, EnvelopeFields

\* Ageing and waking requests disturbs neither the budgets nor their homes.
LEMMA SameRequests ==
  ASSUME QueueTypeOK, Bounded, OneHome, CacheInv,
         queue' \in [Transports -> [Classes -> Seq(Request)]],
         \A t \in Transports, c \in Classes :
           /\ Len(queue'[t][c]) = Len(queue[t][c])
           /\ \A i \in 1..Len(queue[t][c]) : queue'[t][c][i].env = queue[t][c][i].env,
         UNCHANGED <<queuedCount, queuedBytes, active, completed>>
  PROVE  QueueTypeOK' /\ Bounded' /\ OneHome'
<1>1. ASSUME NEW t \in Transports, NEW c \in Classes
      PROVE  /\ queue[t][c] \in Seq(Request) /\ queue'[t][c] \in Seq(Request)
             /\ Len(queue'[t][c]) = Len(queue[t][c])
             /\ DOMAIN queue[t][c] = 1..Len(queue[t][c])
             /\ DOMAIN queue'[t][c] = 1..Len(queue[t][c])
             /\ BytesIn(queue'[t][c]) = BytesIn(queue[t][c])
  <2>1. queue[t][c] \in Seq(Request) /\ queue'[t][c] \in Seq(Request)
    BY DEF QueueTypeOK
  <2>2. /\ Len(queue'[t][c]) = Len(queue[t][c])
        /\ \A i \in 1..Len(queue[t][c]) : queue'[t][c][i].env = queue[t][c][i].env
    BY Zenon
  <2>3. BytesIn(queue'[t][c]) = BytesIn(queue[t][c])
    BY <2>1, <2>2, BytesInSame
  <2> QED BY <2>1, <2>2, <2>3
<1>2. ASSUME NEW t \in Transports
      PROVE  /\ queuedCount'[t] = Len(queue'[t]["interactive"]) + Len(queue'[t]["bulk"])
             /\ queuedBytes'[t] = BytesIn(queue'[t]["interactive"]) + BytesIn(queue'[t]["bulk"])
             /\ \A c \in Classes : Len(queue'[t][c]) <= MaxLane[t][c]
             /\ queuedCount'[t] <= MaxTransport[t]
  BY <1>1 DEF Bounded, Classes
<1>3. Bounded'
  BY <1>2 DEF Bounded, TotalDepth, TotalBytes
<1>4. ASSUME NEW t \in Transports, NEW c \in Classes, NEW i \in DOMAIN queue'[t][c]
      PROVE  LET e == queue'[t][c][i].env
             IN  /\ active'[t][e.id] = e /\ e.transport = t /\ e.class = c
                 /\ \A j \in DOMAIN queue'[t][c] : queue'[t][c][j].env.id = e.id => i = j
  <2>1. /\ DOMAIN queue'[t][c] = DOMAIN queue[t][c]
        /\ \A j \in DOMAIN queue[t][c] : queue'[t][c][j].env = queue[t][c][j].env
        /\ DOMAIN queue[t][c] = 1..Len(queue[t][c])
    BY <1>1
  <2> DEFINE e == queue[t][c][i].env
  <2>2. i \in 1..Len(queue[t][c])
    BY <2>1
  <2>3. /\ active[t][e.id] = e /\ e.transport = t /\ e.class = c
        /\ \A j \in 1..Len(queue[t][c]) : queue[t][c][j].env.id = e.id => i = j
    BY <2>2, HomeOf
  <2>4. queue'[t][c][i].env = e /\ active'[t][e.id] = e
    BY <2>1, <2>2, <2>3
  <2>5. \A j \in DOMAIN queue'[t][c] : queue'[t][c][j].env.id = e.id => i = j
    BY <2>1, <2>3
  <2> HIDE DEF e
  <2> QED BY <2>3, <2>4, <2>5
<1>5. ASSUME NEW t \in Transports, NEW id \in Ids, active'[t][id] # NoEnvelope
      PROVE  LET e == active'[t][id]
             IN  /\ e.id = id /\ completed'[t][id] = NoResult
                 /\ \E i \in DOMAIN queue'[t][e.class] : queue'[t][e.class][i].env = e
  <2> DEFINE e == active[t][id]
  <2>1. /\ e.id = id /\ completed[t][id] = NoResult
        /\ \E i \in DOMAIN queue[t][e.class] : queue[t][e.class][i].env = e
    BY <1>5 DEF OneHome
  <2>2. PICK i \in DOMAIN queue[t][e.class] : queue[t][e.class][i].env = e
    BY <2>1
  <2>3. e \in Envelopes /\ e.class \in Classes
    BY <1>5, EnvelopeFields DEF CacheInv, CacheTypeOK
  <2>4. i \in DOMAIN queue'[t][e.class] /\ queue'[t][e.class][i].env = e
    BY <1>1, <2>2, <2>3
  <2> QED BY <2>1, <2>4
<1>6. OneHome'
  BY <1>4, <1>5, Zenon DEF OneHome
<1> QED BY <1>3, <1>6 DEF QueueTypeOK

\* A new request that finds room joins the tail of its lane.
LEMMA Enqueued ==
  ASSUME QueueTypeOK, Bounded, OneHome, CacheInv,
         NEW e \in Envelopes, New(e), HasRoom(e), Enqueue(e)
  PROVE  QueueTypeOK' /\ Bounded' /\ OneHome'
<1> DEFINE t0 == e.transport
           c0 == e.class
           r == [env |-> e, wait |-> 0]
<1>1. /\ t0 \in Transports /\ c0 \in Classes /\ e.id \in Ids /\ e.bytes \in Nat
      /\ e # NoEnvelope /\ r \in Request /\ r.env = e
  BY EnvelopeFields DEF Request
<1>2. /\ active[t0][e.id] = NoEnvelope /\ completed[t0][e.id] = NoResult
  BY DEF New
<1>3. /\ TotalDepth < MaxQueue /\ queuedCount[t0] < MaxTransport[t0]
      /\ Len(queue[t0][c0]) < MaxLane[t0][c0] /\ TotalBytes + e.bytes <= MaxBytes
      /\ t0 = "tunnel" => queuedBytes["tunnel"] + e.bytes <= MaxTunnelBytes
  BY DEF HasRoom
<1>4. ASSUME NEW t \in Transports, NEW c \in Classes
      PROVE  /\ queue[t][c] \in Seq(Request)
             /\ queue'[t][c] = IF t = t0 /\ c = c0 THEN Append(queue[t][c], r) ELSE queue[t][c]
  BY DEF Enqueue, QueueTypeOK
<1>5. /\ queue' = [t \in Transports |-> [c \in Classes |-> queue'[t][c]]]
      /\ \A t \in Transports :
           /\ queuedCount'[t] = IF t = t0 THEN queuedCount[t] + 1 ELSE queuedCount[t]
           /\ queuedBytes'[t] = IF t = t0 THEN queuedBytes[t] + e.bytes ELSE queuedBytes[t]
      /\ queuedCount' = [t \in Transports |-> queuedCount'[t]]
      /\ queuedBytes' = [t \in Transports |-> queuedBytes'[t]]
  BY <1>1 DEF Enqueue, QueueTypeOK
<1>6. \A t \in Transports, id \in Ids :
        /\ active'[t][id] = IF t = t0 /\ id = e.id THEN e ELSE active[t][id]
        /\ completed'[t][id] = completed[t][id]
  BY <1>1 DEF Enqueue, CacheInv, CacheTypeOK
<1> HIDE DEF r, t0, c0
<1>7. ASSUME NEW t \in Transports, NEW c \in Classes
      PROVE  /\ queue'[t][c] \in Seq(Request)
             /\ Len(queue'[t][c]) = IF t = t0 /\ c = c0 THEN Len(queue[t][c]) + 1
                                    ELSE Len(queue[t][c])
             /\ BytesIn(queue'[t][c]) = IF t = t0 /\ c = c0 THEN BytesIn(queue[t][c]) + e.bytes
                                        ELSE BytesIn(queue[t][c])
             /\ Len(queue[t][c]) \in Nat /\ BytesIn(queue[t][c]) \in Nat
             /\ \A i \in 1..Len(queue[t][c]) : queue'[t][c][i] = queue[t][c][i]
             /\ t = t0 /\ c = c0 => queue'[t][c][Len(queue[t][c]) + 1] = r
             /\ DOMAIN queue[t][c] = 1..Len(queue[t][c])
             /\ DOMAIN queue'[t][c] = 1..Len(queue'[t][c])
  <2>1. CASE t = t0 /\ c = c0
    <3>1. queue'[t][c] = Append(queue[t][c], r) /\ queue[t][c] \in Seq(Request)
      BY <1>4, <2>1
    <3>2. BytesIn(queue'[t][c]) = BytesIn(queue[t][c]) + e.bytes
      BY <1>1, <3>1, BytesInAppend
    <3>3. BytesIn(queue[t][c]) \in Nat
      BY <3>1, BytesInNat
    <3> QED BY <1>1, <2>1, <3>1, <3>2, <3>3
  <2>2. CASE ~(t = t0 /\ c = c0)
    <3>1. queue'[t][c] = queue[t][c] /\ queue[t][c] \in Seq(Request)
      BY <1>4, <2>2
    <3>2. BytesIn(queue[t][c]) \in Nat
      BY <3>1, BytesInNat
    <3> QED BY <2>2, <3>1, <3>2
  <2> QED BY <2>1, <2>2
<1>8. "interactive" \in Classes /\ "bulk" \in Classes /\ "interactive" # "bulk"
      /\ "direct" \in Transports /\ "tunnel" \in Transports /\ "direct" # "tunnel"
      /\ (c0 = "interactive" \/ c0 = "bulk") /\ (t0 = "direct" \/ t0 = "tunnel")
  BY <1>1 DEF Classes, Transports
<1>9. ASSUME NEW t \in Transports
      PROVE  /\ queuedCount'[t] = Len(queue'[t]["interactive"]) + Len(queue'[t]["bulk"])
             /\ queuedBytes'[t] = BytesIn(queue'[t]["interactive"]) + BytesIn(queue'[t]["bulk"])
             /\ queuedCount[t] \in Nat /\ queuedBytes[t] \in Nat
             /\ queuedCount'[t] \in Nat /\ queuedBytes'[t] \in Nat
             /\ queuedCount'[t] <= MaxTransport[t]
             /\ \A c \in Classes : Len(queue'[t][c]) <= MaxLane[t][c]
  <2> DEFINE a == Len(queue[t]["interactive"])  b == Len(queue[t]["bulk"])
             x == BytesIn(queue[t]["interactive"])  y == BytesIn(queue[t]["bulk"])
             aa == Len(queue'[t]["interactive"])  bb == Len(queue'[t]["bulk"])
             xx == BytesIn(queue'[t]["interactive"])  yy == BytesIn(queue'[t]["bulk"])
  <2>1. queuedCount[t] = a + b /\ queuedBytes[t] = x + y
    BY DEF Bounded
  <2>2. /\ a \in Nat /\ b \in Nat /\ x \in Nat /\ y \in Nat
        /\ aa = IF t = t0 /\ c0 = "interactive" THEN a + 1 ELSE a
        /\ bb = IF t = t0 /\ c0 = "bulk" THEN b + 1 ELSE b
        /\ xx = IF t = t0 /\ c0 = "interactive" THEN x + e.bytes ELSE x
        /\ yy = IF t = t0 /\ c0 = "bulk" THEN y + e.bytes ELSE y
    BY <1>7, <1>8
  <2>3. \A c \in Classes : Len(queue'[t][c]) <= MaxLane[t][c]
    <3> SUFFICES ASSUME NEW c \in Classes PROVE Len(queue'[t][c]) <= MaxLane[t][c]
      OBVIOUS
    <3>1. Len(queue[t][c]) <= MaxLane[t][c] /\ MaxLane[t][c] \in Nat
      BY LimitAssumption DEF Bounded
    <3> QED BY <1>3, <1>7, <3>1
  <2>4. queuedCount[t] <= MaxTransport[t] /\ MaxTransport[t] \in Nat
    BY LimitAssumption DEF Bounded
  <2> HIDE DEF a, b, x, y, aa, bb, xx, yy
  <2>5. queuedCount'[t] = aa + bb /\ queuedBytes'[t] = xx + yy
    <3>1. /\ queuedCount'[t] = IF t = t0 THEN (a + b) + 1 ELSE a + b
          /\ queuedBytes'[t] = IF t = t0 THEN (x + y) + e.bytes ELSE x + y
      BY <1>5, <2>1
    <3>2. /\ aa + bb = IF t = t0 THEN (a + b) + 1 ELSE a + b
          /\ xx + yy = IF t = t0 THEN (x + y) + e.bytes ELSE x + y
      BY <1>1, <1>8, <2>2
    <3> QED BY <3>1, <3>2
  <2>6. queuedCount'[t] <= MaxTransport[t]
    BY <1>3, <1>5, <2>1, <2>2, <2>4
  <2>7. aa + bb \in Nat /\ xx + yy \in Nat /\ a + b \in Nat /\ x + y \in Nat
    BY <1>1, <2>2
  <2> QED BY <2>1, <2>3, <2>5, <2>6, <2>7 DEF aa, bb, xx, yy
<1>10. TotalDepth' <= MaxQueue /\ TotalBytes' <= MaxBytes
       /\ queuedBytes'["tunnel"] <= MaxTunnelBytes
  <2> DEFINE d == queuedCount["direct"]  u == queuedCount["tunnel"]
             x == queuedBytes["direct"]  w == queuedBytes["tunnel"]
             dd == queuedCount'["direct"]  uu == queuedCount'["tunnel"]
             xx == queuedBytes'["direct"]  ww == queuedBytes'["tunnel"]
  <2>1. /\ d \in Nat /\ u \in Nat /\ x \in Nat /\ w \in Nat
        /\ dd = (IF t0 = "direct" THEN d + 1 ELSE d)
        /\ uu = (IF t0 = "tunnel" THEN u + 1 ELSE u)
        /\ xx = (IF t0 = "direct" THEN x + e.bytes ELSE x)
        /\ ww = (IF t0 = "tunnel" THEN w + e.bytes ELSE w)
    BY <1>5, <1>8, <1>9
  <2>2. /\ d + u < MaxQueue /\ x + w + e.bytes <= MaxBytes
        /\ t0 = "tunnel" => w + e.bytes <= MaxTunnelBytes
        /\ w <= MaxTunnelBytes
    BY <1>3 DEF TotalDepth, TotalBytes, Bounded
  <2> HIDE DEF d, u, x, w, dd, uu, xx, ww
  <2>3. dd + uu <= MaxQueue /\ xx + ww <= MaxBytes /\ ww <= MaxTunnelBytes
    BY <1>1, <1>8, <2>1, <2>2, LimitAssumption
  <2> QED BY <2>3 DEF dd, uu, xx, ww, TotalDepth, TotalBytes
<1>11. Bounded'
  BY <1>9, <1>10 DEF Bounded
<1>12. QueueTypeOK'
  BY <1>5, <1>7, <1>9 DEF QueueTypeOK
<1>13. ASSUME NEW t \in Transports, NEW c \in Classes, NEW i \in DOMAIN queue'[t][c]
       PROVE  LET x == queue'[t][c][i].env
              IN  /\ active'[t][x.id] = x /\ x.transport = t /\ x.class = c
                  /\ \A j \in DOMAIN queue'[t][c] : queue'[t][c][j].env.id = x.id => i = j
  <2> DEFINE N == Len(queue[t][c])
             E(j) == queue'[t][c][j].env
  <2>1. /\ N \in Nat /\ DOMAIN queue[t][c] = 1..N
        /\ \A j \in 1..N : E(j) = queue[t][c][j].env
        /\ DOMAIN queue'[t][c] = IF t = t0 /\ c = c0 THEN 1..(N + 1) ELSE 1..N
        /\ t = t0 /\ c = c0 => E(N + 1) = e
    BY <1>1, <1>7
  <2>2. \A j \in 1..N :
          /\ E(j).id \in Ids /\ E(j) # NoEnvelope
          /\ active[t][E(j).id] = E(j) /\ E(j).transport = t /\ E(j).class = c
          /\ \A k \in 1..N : E(k).id = E(j).id => j = k
    <3> SUFFICES ASSUME NEW j \in 1..N
          PROVE  /\ E(j).id \in Ids /\ E(j) # NoEnvelope
                 /\ active[t][E(j).id] = E(j) /\ E(j).transport = t /\ E(j).class = c
                 /\ \A k \in 1..N : E(k).id = E(j).id => j = k
      OBVIOUS
    <3> DEFINE x == queue[t][c][j].env
    <3>1. /\ x \in Envelopes /\ x.id \in Ids /\ active[t][x.id] = x
          /\ x.transport = t /\ x.class = c
          /\ \A k \in 1..N : queue[t][c][k].env.id = x.id => j = k
      BY HomeOf
    <3>2. E(j) = x /\ \A k \in 1..N : E(k) = queue[t][c][k].env
      BY <2>1
    <3>3. x # NoEnvelope
      BY <3>1, SentinelAssumption
    <3> HIDE DEF x, E, N
    <3> QED BY <3>1, <3>2, <3>3
  <2> HIDE DEF N, E
  <2>3. CASE i \in 1..N
    <3>1. t # t0 \/ E(i).id # e.id
      BY <1>2, <2>2, <2>3
    <3>2. active'[t][E(i).id] = E(i)
      BY <1>6, <2>2, <2>3, <3>1
    <3>3. ASSUME NEW j \in DOMAIN queue'[t][c], E(j).id = E(i).id PROVE i = j
      <4>1. j \in 1..N
        BY <2>1, <3>1, <3>3
      <4> QED BY <2>2, <2>3, <3>3, <4>1
    <3> QED BY <2>2, <2>3, <3>2, <3>3 DEF E
  <2>4. CASE i \notin 1..N
    <3>1. i = N + 1 /\ t = t0 /\ c = c0 /\ E(i) = e
      BY <2>1, <2>4
    <3>2. ASSUME NEW j \in DOMAIN queue'[t][c], E(j).id = e.id PROVE i = j
      <4>1. j \notin 1..N
        BY <1>2, <2>2, <3>1, <3>2
      <4> QED BY <2>1, <3>1, <4>1
    <3>3. active'[t][e.id] = e /\ e.transport = t /\ e.class = c
      BY <1>1, <1>6, <3>1 DEF t0, c0
    <3> QED BY <3>1, <3>2, <3>3 DEF E
  <2> QED BY <2>3, <2>4
<1>14. ASSUME NEW t \in Transports, NEW id \in Ids, active'[t][id] # NoEnvelope
       PROVE  LET x == active'[t][id]
              IN  /\ x.id = id /\ completed'[t][id] = NoResult
                  /\ \E i \in DOMAIN queue'[t][x.class] : queue'[t][x.class][i].env = x
  <2>1. CASE t = t0 /\ id = e.id
    <3>1. active'[t][id] = e /\ e.class = c0 /\ completed'[t][id] = NoResult
      BY <1>2, <1>6, <2>1 DEF c0
    <3>2. Len(queue[t][c0]) + 1 \in DOMAIN queue'[t][c0]
      BY <1>1, <1>7, <2>1
    <3>3. queue'[t][c0][Len(queue[t][c0]) + 1].env = e
      BY <1>1, <1>7, <2>1
    <3> QED BY <2>1, <3>1, <3>2, <3>3
  <2>2. CASE ~(t = t0 /\ id = e.id)
    <3> DEFINE x == active[t][id]
    <3>1. active'[t][id] = x /\ completed'[t][id] = completed[t][id]
      BY <1>6, <2>2
    <3>2. /\ x.id = id /\ completed[t][id] = NoResult
          /\ \E i \in DOMAIN queue[t][x.class] : queue[t][x.class][i].env = x
      BY <1>14, <3>1 DEF OneHome
    <3>3. x \in Envelopes /\ x.class \in Classes
      BY <1>14, <3>1, EnvelopeFields DEF CacheInv, CacheTypeOK
    <3>4. PICK i \in DOMAIN queue[t][x.class] : queue[t][x.class][i].env = x
      BY <3>2
    <3>5. i \in DOMAIN queue'[t][x.class] /\ queue'[t][x.class][i].env = x
      BY <1>7, <3>3, <3>4
    <3> QED BY <3>1, <3>2, <3>5
  <2> QED BY <2>1, <2>2
<1>15. OneHome'
  BY <1>13, <1>14, Zenon DEF OneHome
<1> QED BY <1>11, <1>12, <1>15

LEMMA EnqueuedCaches ==
  ASSUME CacheInv, NEW e \in Envelopes, New(e), KeyFree(e), Enqueue(e)
  PROVE  CacheInv'
<1>1. /\ e.transport \in Transports /\ e.id \in Ids /\ e # NoEnvelope
      /\ e.key \in Keys \cup {NoKey} /\ NoKey \notin Keys /\ NoId \notin Ids
      /\ e.transport = "direct" => e.key = NoKey
      /\ "tunnel" \in Transports /\ "tunnel" # "direct"
      /\ e.transport # "tunnel" => e.transport = "direct"
  BY EnvelopeFields, EnvelopeAssumption, SentinelAssumption DEF Transports
<1>2. /\ active[e.transport][e.id] = NoEnvelope /\ completed[e.transport][e.id] = NoResult
      /\ e.key \in Keys => activeKey[e.key] = NoId /\ completedKey[e.key] = NoId
  BY <1>1 DEF New, KeyFree
<1>3. /\ \A t \in Transports, id \in Ids :
           active'[t][id] = IF t = e.transport /\ id = e.id THEN e ELSE active[t][id]
      /\ \A k \in Keys : activeKey'[k] = IF k = e.key THEN e.id ELSE activeKey[k]
      /\ active' = [t \in Transports |-> [id \in Ids |-> active'[t][id]]]
      /\ activeKey' = [k \in Keys |-> activeKey'[k]]
      /\ UNCHANGED <<completed, completedKey, order, ran>>
  <2>1. /\ active \in [Transports -> [Ids -> Envelopes \cup {NoEnvelope}]]
        /\ active' = [active EXCEPT ![e.transport][e.id] = e]
        /\ activeKey' = [k \in Keys |-> IF k = e.key THEN e.id ELSE activeKey[k]]
        /\ UNCHANGED <<completed, completedKey, order, ran>>
    BY DEF Enqueue, CacheInv, CacheTypeOK
  <2>2. \A t \in Transports, id \in Ids :
          active'[t][id] = IF t = e.transport /\ id = e.id THEN e ELSE active[t][id]
    BY <1>1, <2>1
  <2>3. active' = [t \in Transports |-> [id \in Ids |-> active'[t][id]]]
    BY <2>1
  <2>4. \A k \in Keys : activeKey'[k] = IF k = e.key THEN e.id ELSE activeKey[k]
    BY <2>1
  <2>5. activeKey' = [k \in Keys |-> activeKey'[k]]
    BY <2>1
  <2> QED BY <2>1, <2>2, <2>3, <2>4, <2>5
<1>4. CacheTypeOK'
  <2>1. \A t \in Transports, id \in Ids : active'[t][id] \in Envelopes \cup {NoEnvelope}
    BY <1>3 DEF CacheInv, CacheTypeOK
  <2>2. \A k \in Keys : activeKey'[k] \in Ids \cup {NoId}
    BY <1>1, <1>3 DEF CacheInv, CacheTypeOK
  <2>3. active' \in [Transports -> [Ids -> Envelopes \cup {NoEnvelope}]]
    BY <1>3, <2>1
  <2>4. activeKey' \in [Keys -> Ids \cup {NoId}]
    BY <1>3, <2>2
  <2> QED BY <1>3, <2>3, <2>4 DEF CacheInv, CacheTypeOK
<1>5. ActiveUnanswered'
  BY <1>2, <1>3 DEF CacheInv, ActiveUnanswered
<1>6. ASSUME NEW k \in Keys, NEW id \in Ids
      PROVE  /\ activeKey'[k] = id <=>
                  active'["tunnel"][id] # NoEnvelope /\ active'["tunnel"][id].key = k
             /\ activeKey'[k] = id => completedKey[k] = NoId
  <2>1. /\ \A x \in Ids : activeKey[k] = x <=>
             active["tunnel"][x] # NoEnvelope /\ active["tunnel"][x].key = k
        /\ activeKey[k] = id => completedKey[k] = NoId
    BY DEF CacheInv, CachesCoherent
  <2>2. CASE e.transport = "tunnel" /\ id = e.id
    <3>1. active'["tunnel"][id] = e /\ active["tunnel"][id] = NoEnvelope
      BY <1>1, <1>2, <1>3, <2>2
    <3>2. activeKey[k] # id
      BY <2>1, <3>1
    <3> QED BY <1>1, <1>2, <1>3, <2>2, <3>1, <3>2
  <2>3. CASE ~(e.transport = "tunnel" /\ id = e.id)
    <3>1. active'["tunnel"][id] = active["tunnel"][id]
      BY <1>1, <1>3, <2>3
    <3>2. CASE k = e.key
      <4>1. e.transport = "tunnel" /\ id # e.id /\ activeKey'[k] = e.id /\ activeKey[k] = NoId
        BY <1>1, <1>2, <1>3, <2>3, <3>2
      <4> QED BY <1>1, <2>1, <3>1, <4>1
    <3>3. CASE k # e.key
      BY <1>3, <2>1, <3>1, <3>3
    <3> QED BY <3>2, <3>3
  <2> QED BY <2>2, <2>3
<1>7. CachesCoherent'
  <2>1. /\ \A k \in Keys, id \in Ids : completedKey[k] = id <=>
             completed["tunnel"][id] # NoResult /\ completed["tunnel"][id].env.key = k
        /\ \A t \in Transports :
             /\ ToSet(order[t]) = {id \in Ids : completed[t][id] # NoResult}
             /\ IsInjective(order[t])
             /\ Len(order[t]) <= Retention[t]
    BY DEF CacheInv, CachesCoherent
  <2> QED BY <1>3, <1>6, <2>1 DEF CachesCoherent
<1>8. AtMostOnce' /\ HonestResults'
  BY <1>3 DEF CacheInv, AtMostOnce, HonestResults
<1> QED BY <1>4, <1>5, <1>7, <1>8 DEF CacheInv

\* The answered head of a lane leaves its lane, its counters and its home.
LEMMA Answering ==
  ASSUME QueueTypeOK, Bounded, OneHome, CacheInv,
         NEW t0 \in Transports, NEW c0 \in Classes, queue[t0][c0] # <<>>,
         NEW e, e = Head(queue[t0][c0]).env,
         NEW state \in TerminalStates, NEW dispatched \in BOOLEAN,
         state \in Succeeded => dispatched, state = "expired" => ~dispatched,
         Dequeue(t0, c0), FinishOne(e, state, dispatched)
  PROVE  /\ QueueTypeOK' /\ Bounded' /\ OneHome' /\ CacheInv'
         /\ e \in Envelopes /\ e.transport = t0 /\ e.id \in Ids
         /\ active[t0][e.id] = e /\ completed[t0][e.id] = NoResult
<1>1. queue[t0][c0] \in Seq(Request) /\ Len(queue[t0][c0]) \in Nat \ {0}
      /\ 1 \in 1..Len(queue[t0][c0]) /\ Head(queue[t0][c0]) = queue[t0][c0][1]
  BY DEF QueueTypeOK
<1>2. /\ e \in Envelopes /\ e.id \in Ids /\ active[t0][e.id] = e
      /\ e.transport = t0 /\ e.class = c0
      /\ \A j \in 1..Len(queue[t0][c0]) : queue[t0][c0][j].env.id = e.id => 1 = j
  BY <1>1, HomeOf
<1>3. e # NoEnvelope /\ e.bytes \in Nat /\ completed[t0][e.id] = NoResult
  BY <1>2, EnvelopeFields DEF CacheInv, ActiveUnanswered
<1>4. /\ CacheInv'
      /\ active'[t0][e.id] = NoEnvelope
      /\ \A t \in Transports, id \in Ids : t # t0 \/ id # e.id =>
              /\ completed'[t][id] \in {completed[t][id], NoResult}
              /\ active'[t][id] = active[t][id]
  BY <1>2, <1>3, FinishOneEffect
<1> DEFINE A(t, c) == Aged(queue[t][c])
<1>5. \A t \in Transports, c \in Classes :
        /\ queue[t][c] \in Seq(Request)
        /\ A(t, c) \in Seq(Request) /\ Len(A(t, c)) = Len(queue[t][c])
        /\ \A i \in 1..Len(queue[t][c]) : A(t, c)[i].env = queue[t][c][i].env
        /\ BytesIn(A(t, c)) = BytesIn(queue[t][c])
  <2> SUFFICES ASSUME NEW t \in Transports, NEW c \in Classes
        PROVE /\ queue[t][c] \in Seq(Request)
              /\ A(t, c) \in Seq(Request) /\ Len(A(t, c)) = Len(queue[t][c])
              /\ \A i \in 1..Len(queue[t][c]) : A(t, c)[i].env = queue[t][c][i].env
              /\ BytesIn(A(t, c)) = BytesIn(queue[t][c])
    BY Zenon
  <2>1. queue[t][c] \in Seq(Request)
    BY DEF QueueTypeOK
  <2> QED BY <2>1, AgedLane
<1>6. /\ \A t \in Transports, c \in Classes :
           queue'[t][c] = IF t = t0 /\ c = c0 THEN Tail(A(t, c)) ELSE A(t, c)
      /\ queue' = [t \in Transports |-> [c \in Classes |-> queue'[t][c]]]
  <2>1. AgedQueue = [t \in Transports |-> [c \in Classes |-> A(t, c)]]
    BY DEF AgedQueue
  <2> HIDE DEF A
  <2>2. queue' = [AgedQueue EXCEPT ![t0][c0] = Tail(@)]
    BY DEF Dequeue
  <2> QED BY <2>1, <2>2
<1> HIDE DEF A
<1>7. ASSUME NEW t \in Transports, NEW c \in Classes
      PROVE  /\ queue'[t][c] \in Seq(Request)
             /\ Len(queue'[t][c]) = IF t = t0 /\ c = c0 THEN Len(queue[t][c]) - 1
                                    ELSE Len(queue[t][c])
             /\ BytesIn(queue'[t][c]) = IF t = t0 /\ c = c0 THEN BytesIn(queue[t][c]) - e.bytes
                                        ELSE BytesIn(queue[t][c])
             /\ Len(queue[t][c]) \in Nat /\ BytesIn(queue[t][c]) \in Nat
             /\ \A i \in 1..Len(queue'[t][c]) : queue'[t][c][i].env =
                  IF t = t0 /\ c = c0 THEN queue[t][c][i + 1].env ELSE queue[t][c][i].env
             /\ DOMAIN queue'[t][c] = 1..Len(queue'[t][c])
             /\ DOMAIN queue[t][c] = 1..Len(queue[t][c])
  <2>1. /\ queue[t][c] \in Seq(Request)
        /\ A(t, c) \in Seq(Request) /\ Len(A(t, c)) = Len(queue[t][c])
        /\ \A i \in 1..Len(queue[t][c]) : A(t, c)[i].env = queue[t][c][i].env
        /\ BytesIn(A(t, c)) = BytesIn(queue[t][c]) /\ BytesIn(queue[t][c]) \in Nat
    BY <1>5, BytesInNat
  <2>2. CASE t = t0 /\ c = c0
    <3> DEFINE a == A(t, c)
    <3>1. queue'[t][c] = Tail(a) /\ a # <<>> /\ Len(a) = Len(queue[t0][c0])
      BY <1>1, <1>6, <2>1, <2>2
    <3>2. /\ Tail(a) \in Seq(Request) /\ Len(Tail(a)) = Len(a) - 1 /\ Head(a) = a[1]
          /\ \A i \in 1..Len(Tail(a)) : Tail(a)[i] = a[i + 1] /\ i + 1 \in 1..Len(a)
      BY <2>1, <3>1
    <3>3. a[1].env = e
      BY <1>1, <2>1, <2>2
    <3>4. BytesIn(a) = e.bytes + BytesIn(Tail(a)) /\ BytesIn(Tail(a)) \in Nat
      BY <2>1, <3>1, <3>2, <3>3, BytesInTail, BytesInNat
    <3>5. BytesIn(queue'[t][c]) = BytesIn(queue[t][c]) - e.bytes
      BY <1>3, <2>1, <3>1, <3>4
    <3>6. \A i \in 1..Len(queue'[t][c]) : queue'[t][c][i].env = queue[t][c][i + 1].env
      BY <2>1, <3>1, <3>2
    <3> HIDE DEF a
    <3> QED BY <2>1, <2>2, <3>1, <3>2, <3>5, <3>6
  <2>3. CASE ~(t = t0 /\ c = c0)
    <3>1. queue'[t][c] = A(t, c)
      BY <1>6, <2>3
    <3> QED BY <2>1, <2>3, <3>1
  <2> QED BY <2>2, <2>3
<1>8. /\ "interactive" \in Classes /\ "bulk" \in Classes /\ "interactive" # "bulk"
      /\ c0 = "interactive" \/ c0 = "bulk"
  BY DEF Classes
<1>9. ASSUME NEW t \in Transports
      PROVE  /\ queuedCount'[t] = Len(queue'[t]["interactive"]) + Len(queue'[t]["bulk"])
             /\ queuedBytes'[t] = BytesIn(queue'[t]["interactive"]) + BytesIn(queue'[t]["bulk"])
             /\ queuedCount'[t] <= queuedCount[t] /\ queuedBytes'[t] <= queuedBytes[t]
             /\ queuedCount'[t] \in Int /\ queuedBytes'[t] \in Int
  <2> DEFINE a == Len(queue[t]["interactive"])  b == Len(queue[t]["bulk"])
             x == BytesIn(queue[t]["interactive"])  y == BytesIn(queue[t]["bulk"])
             aa == Len(queue'[t]["interactive"])  bb == Len(queue'[t]["bulk"])
             xx == BytesIn(queue'[t]["interactive"])  yy == BytesIn(queue'[t]["bulk"])
  <2>1. queuedCount[t] = a + b /\ queuedBytes[t] = x + y
    BY DEF Bounded
  <2>2. /\ a \in Nat /\ b \in Nat /\ x \in Nat /\ y \in Nat
        /\ aa = IF t = t0 /\ c0 = "interactive" THEN a - 1 ELSE a
        /\ bb = IF t = t0 /\ c0 = "bulk" THEN b - 1 ELSE b
        /\ xx = IF t = t0 /\ c0 = "interactive" THEN x - e.bytes ELSE x
        /\ yy = IF t = t0 /\ c0 = "bulk" THEN y - e.bytes ELSE y
    BY <1>7, <1>8
  <2>3. /\ queuedCount'[t] = IF t = t0 THEN queuedCount[t] - 1 ELSE queuedCount[t]
        /\ queuedBytes'[t] = IF t = t0 THEN queuedBytes[t] - e.bytes ELSE queuedBytes[t]
    BY DEF Dequeue, QueueTypeOK
  <2> HIDE DEF a, b, x, y, aa, bb, xx, yy
  <2>4. /\ aa + bb = IF t = t0 THEN (a + b) - 1 ELSE a + b
        /\ xx + yy = IF t = t0 THEN (x + y) - e.bytes ELSE x + y
    BY <1>3, <1>8, <2>2
  <2>5. queuedCount'[t] = aa + bb /\ queuedBytes'[t] = xx + yy
    BY <2>1, <2>3, <2>4
  <2>6. /\ queuedCount'[t] <= queuedCount[t] /\ queuedBytes'[t] <= queuedBytes[t]
        /\ queuedCount'[t] \in Int /\ queuedBytes'[t] \in Int
    BY <1>3, <2>1, <2>2, <2>3
  <2> QED BY <2>5, <2>6 DEF aa, bb, xx, yy
<1>10. QueueTypeOK' /\ Bounded'
  <2>1. queue' \in [Transports -> [Classes -> Seq(Request)]]
    BY <1>6, <1>7
  <2>2. queuedCount' \in [Transports -> Int] /\ queuedBytes' \in [Transports -> Int]
    BY <1>9 DEF Dequeue, QueueTypeOK
  <2>3. ASSUME NEW t \in Transports
        PROVE  /\ queuedCount'[t] = Len(queue'[t]["interactive"]) + Len(queue'[t]["bulk"])
               /\ queuedBytes'[t] = BytesIn(queue'[t]["interactive"]) + BytesIn(queue'[t]["bulk"])
               /\ queuedCount'[t] <= queuedCount[t] /\ queuedBytes'[t] <= queuedBytes[t]
               /\ \A c \in Classes : Len(queue'[t][c]) <= Len(queue[t][c])
    <3>1. \A c \in Classes : Len(queue'[t][c]) <= Len(queue[t][c])
      BY <1>7
    <3> QED BY <1>9, <3>1
  <2> QED BY <2>1, <2>2, <2>3, BoundedShrinks
<1>11. ASSUME NEW t \in Transports, NEW c \in Classes, NEW i \in DOMAIN queue'[t][c]
       PROVE  LET x == queue'[t][c][i].env
              IN  /\ active'[t][x.id] = x /\ x.transport = t /\ x.class = c
                  /\ \A j \in DOMAIN queue'[t][c] : queue'[t][c][j].env.id = x.id => i = j
  <2> DEFINE p(j) == IF t = t0 /\ c = c0 THEN j + 1 ELSE j
             N == Len(queue[t][c])
             E(j) == queue[t][c][j].env
  <2>1. \A j \in DOMAIN queue'[t][c] :
          p(j) \in 1..N /\ queue'[t][c][j].env = E(p(j)) /\ j \in Int
    <3>1. N \in Nat /\ DOMAIN queue'[t][c] = 1..Len(queue'[t][c])
          /\ Len(queue'[t][c]) = IF t = t0 /\ c = c0 THEN N - 1 ELSE N
      BY <1>7
    <3>2. \A j \in DOMAIN queue'[t][c] : queue'[t][c][j].env =
            IF t = t0 /\ c = c0 THEN queue[t][c][j + 1].env ELSE queue[t][c][j].env
      BY <1>7
    <3>3. \A j \in DOMAIN queue'[t][c] : p(j) \in 1..N /\ j \in Int
      <4> HIDE DEF N
      <4> QED BY <3>1
    <3>4. \A j \in DOMAIN queue'[t][c] : queue'[t][c][j].env = E(p(j))
      BY <3>2
    <3> QED BY <3>3, <3>4
  <2>2. \A j \in 1..N :
          /\ E(j).id \in Ids /\ active[t][E(j).id] = E(j)
          /\ E(j).transport = t /\ E(j).class = c
          /\ \A k \in 1..N : E(k).id = E(j).id => j = k
    <3> SUFFICES ASSUME NEW j \in 1..N
          PROVE  /\ E(j).id \in Ids /\ active[t][E(j).id] = E(j)
                 /\ E(j).transport = t /\ E(j).class = c
                 /\ \A k \in 1..N : E(k).id = E(j).id => j = k
      OBVIOUS
    <3> QED BY HomeOf
  <2>3. t # t0 \/ E(p(i)).id # e.id
    <3>1. CASE t = t0 /\ c = c0
      <4>1. p(i) = i + 1 /\ i \in Int /\ p(i) \in 1..N /\ p(i) # 1
        BY <1>7, <2>1, <3>1
      <4> QED BY <1>2, <3>1, <4>1
    <3>2. CASE t = t0 /\ c # c0
      <4>1. E(p(i)).id = e.id => E(p(i)) = e
        BY <1>2, <2>1, <2>2, <3>2
      <4> QED BY <1>2, <2>1, <2>2, <3>2, <4>1
    <3> QED BY <3>1, <3>2
  <2> HIDE DEF N, E
  <2>4. active'[t][E(p(i)).id] = E(p(i))
    BY <1>4, <2>1, <2>2, <2>3
  <2>5. \A j \in DOMAIN queue'[t][c] : E(p(j)).id = E(p(i)).id => p(i) = p(j)
    BY <2>1, <2>2
  <2>6. \A j \in DOMAIN queue'[t][c] : p(i) = p(j) => i = j
    BY <2>1
  <2> HIDE DEF p
  <2> QED BY <2>1, <2>2, <2>4, <2>5, <2>6
<1>12. ASSUME NEW t \in Transports, NEW id \in Ids, active'[t][id] # NoEnvelope
       PROVE  LET x == active'[t][id]
              IN  /\ x.id = id /\ completed'[t][id] = NoResult
                  /\ \E i \in DOMAIN queue'[t][x.class] : queue'[t][x.class][i].env = x
  <2> DEFINE x == active[t][id]
  <2>1. (t # t0 \/ id # e.id) /\ active'[t][id] = x
    BY <1>4, <1>12
  <2>2. /\ x.id = id /\ completed[t][id] = NoResult
        /\ \E i \in DOMAIN queue[t][x.class] : queue[t][x.class][i].env = x
    BY <1>12, <2>1 DEF OneHome
  <2>3. x \in Envelopes /\ x.class \in Classes
    BY <1>12, <2>1, EnvelopeFields DEF CacheInv, CacheTypeOK
  <2>4. completed'[t][id] = NoResult
    BY <1>4, <2>1, <2>2
  <2>5. PICK i \in DOMAIN queue[t][x.class] : queue[t][x.class][i].env = x
    BY <2>2
  <2>6. \E k \in DOMAIN queue'[t][x.class] : queue'[t][x.class][k].env = x
    <3>1. CASE t = t0 /\ x.class = c0
      <4>1. i # 1
        BY <1>1, <2>1, <2>2, <2>5, <3>1
      <4>2. i - 1 \in DOMAIN queue'[t][x.class] /\ (i - 1) + 1 = i
        <5> DEFINE N == Len(queue[t][x.class])
        <5>1. /\ i \in 1..N /\ N \in Nat /\ Len(queue'[t][x.class]) = N - 1
              /\ DOMAIN queue'[t][x.class] = 1..Len(queue'[t][x.class])
          BY <1>7, <2>3, <2>5, <3>1
        <5> HIDE DEF N
        <5> QED BY <4>1, <5>1
      <4>3. queue'[t][x.class][i - 1].env = x
        <5>1. \A k \in DOMAIN queue'[t][x.class] :
                queue'[t][x.class][k].env = queue[t][x.class][k + 1].env
          BY <1>7, <2>3, <3>1
        <5>2. queue'[t][x.class][i - 1].env = queue[t][x.class][(i - 1) + 1].env
          BY <4>2, <5>1
        <5> QED BY <2>5, <4>2, <5>2
      <4> QED BY <4>2, <4>3
    <3>2. CASE ~(t = t0 /\ x.class = c0)
      BY <1>7, <2>3, <2>5, <3>2
    <3> QED BY <3>1, <3>2
  <2> QED BY <2>1, <2>2, <2>4, <2>6
<1>13. OneHome'
  BY <1>11, <1>12, Zenon DEF OneHome
<1> QED BY <1>2, <1>3, <1>4, <1>10, <1>13

\* A deferred request goes round to the tail of its lane, otherwise unchanged.
LEMMA Requeued ==
  ASSUME QueueTypeOK, Bounded, OneHome, CacheInv,
         NEW c0 \in Classes, queue["tunnel"][c0] # <<>>, NEW wait \in Nat, Requeue(c0, wait)
  PROVE  QueueTypeOK' /\ Bounded' /\ OneHome' /\ CacheInv'
<1> DEFINE A(t, c) == Aged(queue[t][c])
           back == [Head(A("tunnel", c0)) EXCEPT !.wait = wait]
           M == Len(queue["tunnel"][c0])
           moved(t, c) == t = "tunnel" /\ c = c0
           p(t, c, j) == IF moved(t, c) THEN IF j = M THEN 1 ELSE j + 1 ELSE j
<1>1. "tunnel" \in Transports
  BY DEF Transports
<1>2. ASSUME NEW t \in Transports, NEW c \in Classes
      PROVE  /\ queue[t][c] \in Seq(Request)
             /\ A(t, c) \in Seq(Request) /\ Len(A(t, c)) = Len(queue[t][c])
             /\ \A i \in 1..Len(queue[t][c]) : A(t, c)[i].env = queue[t][c][i].env
             /\ BytesIn(A(t, c)) = BytesIn(queue[t][c])
  <2>1. queue[t][c] \in Seq(Request)
    BY DEF QueueTypeOK
  <2> QED BY <2>1, AgedLane
<1>3. /\ M \in Nat \ {0} /\ A("tunnel", c0) # <<>> /\ Len(A("tunnel", c0)) = M
      /\ Head(A("tunnel", c0)) = A("tunnel", c0)[1] /\ A("tunnel", c0)[1] \in Request
  <2>1. queue["tunnel"][c0] \in Seq(Request) /\ A("tunnel", c0) \in Seq(Request)
        /\ Len(A("tunnel", c0)) = M
    BY <1>1, <1>2
  <2> QED BY <2>1
<1>4. back \in Request /\ back.env = queue["tunnel"][c0][1].env
  <2>1. A("tunnel", c0)[1].env = queue["tunnel"][c0][1].env
    BY <1>1, <1>2, <1>3
  <2> DEFINE h == A("tunnel", c0)[1]
  <2>2. h \in Request /\ back = [h EXCEPT !.wait = wait]
    BY <1>3
  <2> HIDE DEF h
  <2>3. back \in Request /\ back.env = h.env
    BY <2>2 DEF Request
  <2> QED BY <2>1, <2>3 DEF h
<1>5. /\ \A t \in Transports, c \in Classes : queue'[t][c] =
           IF moved(t, c) THEN Append(Tail(A(t, c)), back) ELSE A(t, c)
      /\ queue' = [t \in Transports |-> [c \in Classes |-> queue'[t][c]]]
  <2>1. AgedQueue = [t \in Transports |-> [c \in Classes |-> A(t, c)]]
    BY DEF AgedQueue
  <2>2. queue' = [AgedQueue EXCEPT !["tunnel"][c0] =
                    Append(Tail(@), [Head(@) EXCEPT !.wait = wait])]
    BY DEF Requeue
  <2> HIDE DEF A
  <2> QED BY <1>1, <2>1, <2>2
<1> HIDE DEF A, back
<1>6. ASSUME NEW t \in Transports, NEW c \in Classes
      PROVE  /\ queue'[t][c] \in Seq(Request) /\ Len(queue'[t][c]) = Len(queue[t][c])
             /\ BytesIn(queue'[t][c]) = BytesIn(queue[t][c])
             /\ \A i \in 1..Len(queue[t][c]) :
                  p(t, c, i) \in 1..Len(queue[t][c])
                  /\ queue'[t][c][i].env = queue[t][c][p(t, c, i)].env
             /\ DOMAIN queue'[t][c] = 1..Len(queue[t][c])
             /\ DOMAIN queue[t][c] = 1..Len(queue[t][c])
  <2>1. /\ queue[t][c] \in Seq(Request)
        /\ A(t, c) \in Seq(Request) /\ Len(A(t, c)) = Len(queue[t][c])
        /\ \A i \in 1..Len(queue[t][c]) : A(t, c)[i].env = queue[t][c][i].env
        /\ BytesIn(A(t, c)) = BytesIn(queue[t][c])
    BY <1>2
  <2>2. CASE moved(t, c)
    <3> DEFINE a == A(t, c)
               rest == Tail(a)
    <3>1. /\ queue'[t][c] = Append(rest, back) /\ a # <<>> /\ Len(a) = M
          /\ Len(queue[t][c]) = M /\ Head(a) = a[1] /\ a \in Seq(Request)
          /\ back.env = queue[t][c][1].env
      BY <1>3, <1>4, <1>5, <2>1, <2>2
    <3>2. /\ rest \in Seq(Request) /\ Len(rest) = M - 1
          /\ \A i \in 1..(M - 1) : rest[i] = a[i + 1]
      <4> HIDE DEF a, M
      <4> QED BY <3>1
    <3>3. /\ queue'[t][c] \in Seq(Request) /\ Len(queue'[t][c]) = M
          /\ \A i \in 1..(M - 1) : queue'[t][c][i] = a[i + 1]
          /\ queue'[t][c][M] = back
      <4> HIDE DEF rest, M
      <4> QED BY <1>3, <1>4, <3>1, <3>2
    <3>4. BytesIn(queue'[t][c]) = BytesIn(queue[t][c])
      <4>1. BytesIn(queue'[t][c]) = BytesIn(rest) + back.env.bytes
        BY <1>4, <3>1, <3>2, BytesInAppend
      <4>2. BytesIn(a) = Head(a).env.bytes + BytesIn(rest)
        BY <3>1, BytesInTail
      <4>3. Head(a).env = back.env
        BY <1>3, <2>1, <3>1
      <4>4. BytesIn(rest) \in Nat /\ back.env.bytes \in Nat
        BY <1>4, <3>2, BytesInNat, BytesOfRequest
      <4> HIDE DEF rest
      <4> QED BY <2>1, <4>1, <4>2, <4>3, <4>4
    <3>5. ASSUME NEW i \in 1..M
          PROVE  p(t, c, i) \in 1..M /\ queue'[t][c][i].env = queue[t][c][p(t, c, i)].env
      <4> HIDE DEF M
      <4>1. CASE i = M
        BY <1>3, <2>2, <3>1, <3>3, <4>1
      <4>2. CASE i # M
        <5>1. i \in 1..(M - 1) /\ i + 1 \in 1..M /\ p(t, c, i) = i + 1
          BY <1>3, <2>2, <4>2
        <5>2. a[i + 1].env = queue[t][c][i + 1].env /\ queue'[t][c][i] = a[i + 1]
          BY <2>1, <3>1, <3>3, <5>1
        <5> QED BY <5>1, <5>2
      <4> QED BY <4>1, <4>2
    <3> HIDE DEF M, p
    <3> QED BY <2>1, <3>1, <3>3, <3>4, <3>5
  <2>3. CASE ~moved(t, c)
    BY <1>5, <2>1, <2>3
  <2> QED BY <2>2, <2>3
<1>7. ASSUME NEW t \in Transports, NEW c \in Classes
      PROVE  /\ \A i, j \in 1..Len(queue[t][c]) : p(t, c, i) = p(t, c, j) => i = j
             /\ \A k \in 1..Len(queue[t][c]) : \E i \in 1..Len(queue[t][c]) : p(t, c, i) = k
  <2> DEFINE N == Len(queue[t][c])
  <2>1. N \in Nat /\ (moved(t, c) => N = M) /\ M \in Nat \ {0}
    BY <1>2, <1>3
  <2> HIDE DEF N, M, moved
  <2>2. \A i, j \in 1..N : p(t, c, i) = p(t, c, j) => i = j
    BY <2>1
  <2>3. ASSUME NEW k \in 1..N PROVE \E i \in 1..N : p(t, c, i) = k
    <3>1. CASE ~moved(t, c)
      BY <3>1
    <3>2. CASE moved(t, c) /\ k = 1
      <4>1. M \in 1..N /\ p(t, c, M) = k
        BY <2>1, <3>2
      <4> QED BY <4>1
    <3>3. CASE moved(t, c) /\ k # 1
      <4>1. k - 1 \in 1..N /\ p(t, c, k - 1) = k
        BY <2>1, <3>3
      <4> QED BY <4>1
    <3> QED BY <3>1, <3>2, <3>3
  <2> QED BY <2>2, <2>3 DEF N
<1> HIDE DEF p
<1>8. UNCHANGED <<queuedCount, queuedBytes, active, completed>> /\ CacheInv'
  BY DEF Requeue, cacheVars, CacheInv, CacheTypeOK, ActiveUnanswered, CachesCoherent,
         AtMostOnce, HonestResults
<1>9. queue' \in [Transports -> [Classes -> Seq(Request)]]
  BY <1>5, <1>6
<1>10. QueueTypeOK'
  BY <1>8, <1>9 DEF QueueTypeOK
<1>11. Bounded'
  <2>1. ASSUME NEW t \in Transports
        PROVE  /\ queuedCount'[t] = Len(queue'[t]["interactive"]) + Len(queue'[t]["bulk"])
               /\ queuedBytes'[t] = BytesIn(queue'[t]["interactive"]) + BytesIn(queue'[t]["bulk"])
               /\ \A c \in Classes : Len(queue'[t][c]) <= MaxLane[t][c]
               /\ queuedCount'[t] <= MaxTransport[t]
    BY <1>6, <1>8 DEF Bounded, Classes
  <2> QED BY <1>8, <2>1 DEF Bounded, TotalDepth, TotalBytes
<1>12. ASSUME NEW t \in Transports, NEW c \in Classes, NEW i \in DOMAIN queue'[t][c]
       PROVE  LET x == queue'[t][c][i].env
              IN  /\ active'[t][x.id] = x /\ x.transport = t /\ x.class = c
                  /\ \A j \in DOMAIN queue'[t][c] : queue'[t][c][j].env.id = x.id => i = j
  <2> DEFINE q(j) == p(t, c, j)
             x == queue[t][c][q(i)].env
  <2>1. i \in 1..Len(queue[t][c]) /\ q(i) \in 1..Len(queue[t][c]) /\ queue'[t][c][i].env = x
    BY <1>6
  <2>2. /\ active[t][x.id] = x /\ x.transport = t /\ x.class = c
        /\ \A k \in 1..Len(queue[t][c]) : queue[t][c][k].env.id = x.id => q(i) = k
    BY <2>1, HomeOf
  <2>3. ASSUME NEW j \in DOMAIN queue'[t][c], queue'[t][c][j].env.id = x.id PROVE i = j
    <3>1. j \in 1..Len(queue[t][c]) /\ q(j) \in 1..Len(queue[t][c])
          /\ queue'[t][c][j].env = queue[t][c][q(j)].env
      BY <1>6
    <3>2. q(i) = q(j)
      BY <2>2, <2>3, <3>1
    <3> QED BY <1>7, <2>1, <3>1, <3>2
  <2> HIDE DEF x
  <2> QED BY <1>8, <2>1, <2>2, <2>3
<1>13. ASSUME NEW t \in Transports, NEW id \in Ids, active'[t][id] # NoEnvelope
       PROVE  LET x == active'[t][id]
              IN  /\ x.id = id /\ completed'[t][id] = NoResult
                  /\ \E i \in DOMAIN queue'[t][x.class] : queue'[t][x.class][i].env = x
  <2> DEFINE x == active[t][id]
  <2>1. /\ x.id = id /\ completed[t][id] = NoResult
        /\ \E i \in DOMAIN queue[t][x.class] : queue[t][x.class][i].env = x
    BY <1>8, <1>13 DEF OneHome
  <2>2. x \in Envelopes /\ x.class \in Classes
    BY <1>8, <1>13, EnvelopeFields DEF CacheInv, CacheTypeOK
  <2>3. PICK k \in DOMAIN queue[t][x.class] : queue[t][x.class][k].env = x
    BY <2>1
  <2>4. k \in 1..Len(queue[t][x.class])
    BY <1>6, <2>2
  <2>5. PICK i \in 1..Len(queue[t][x.class]) : p(t, x.class, i) = k
    BY <1>7, <2>2, <2>4
  <2>6. i \in DOMAIN queue'[t][x.class] /\ queue'[t][x.class][i].env = x
    BY <1>6, <2>2, <2>3, <2>5
  <2> QED BY <1>8, <2>1, <2>6
<1>14. OneHome'
  BY <1>12, <1>13, Zenon DEF OneHome
<1> QED BY <1>8, <1>10, <1>11, <1>14

-----------------------------------------------------------------------------
(* A pump failure answers the whole queue.                                  *)

EnvsOf(lane) == [i \in DOMAIN lane |-> lane[i].env]

Everything ==
  [t \in Transports |-> EnvsOf(queue[t]["interactive"]) \o EnvsOf(queue[t]["bulk"])]

\* Every queued request is unanswered and in the queue once, and every active
\* request is queued.
LEMMA WholeQueue ==
  ASSUME QueueTypeOK, OneHome, CacheInv
  PROVE  /\ Finishable(Everything, "rejected", FALSE)
         /\ \A t \in Transports, id \in Ids :
              active[t][id] # NoEnvelope => id \in IdsOf(Everything[t])
<1> DEFINE a(t) == EnvsOf(queue[t]["interactive"])
           b(t) == EnvsOf(queue[t]["bulk"])
           la(t) == Len(queue[t]["interactive"])
           lb(t) == Len(queue[t]["bulk"])
<1>1. "interactive" \in Classes /\ "bulk" \in Classes /\ "interactive" # "bulk"
      /\ \A c \in Classes : c = "interactive" \/ c = "bulk"
  BY DEF Classes
<1>2. ASSUME NEW t \in Transports
      PROVE  /\ Everything[t] \in Seq(Envelopes) /\ Len(Everything[t]) = la(t) + lb(t)
             /\ la(t) \in Nat /\ lb(t) \in Nat
             /\ DOMAIN queue[t]["interactive"] = 1..la(t) /\ DOMAIN queue[t]["bulk"] = 1..lb(t)
             /\ \A i \in 1..(la(t) + lb(t)) : Everything[t][i] =
                  IF i <= la(t) THEN queue[t]["interactive"][i].env
                  ELSE queue[t]["bulk"][i - la(t)].env
  <2>1. queue[t]["interactive"] \in Seq(Request) /\ queue[t]["bulk"] \in Seq(Request)
    BY <1>1 DEF QueueTypeOK
  <2>2. ASSUME NEW lane \in Seq(Request)
        PROVE  /\ EnvsOf(lane) \in Seq(Envelopes) /\ Len(EnvsOf(lane)) = Len(lane)
               /\ \A i \in 1..Len(lane) : EnvsOf(lane)[i] = lane[i].env
               /\ Len(lane) \in Nat /\ DOMAIN lane = 1..Len(lane)
    <3>1. \A i \in 1..Len(lane) : lane[i] \in Request
      OBVIOUS
    <3>2. \A i \in 1..Len(lane) : lane[i].env \in Envelopes
      BY <3>1 DEF Request
    <3>3. EnvsOf(lane) = [i \in 1..Len(lane) |-> lane[i].env] /\ Len(lane) \in Nat
          /\ DOMAIN lane = 1..Len(lane)
      BY DEF EnvsOf
    <3> QED BY <3>2, <3>3
  <2>3. /\ a(t) \in Seq(Envelopes) /\ Len(a(t)) = la(t)
        /\ \A i \in 1..la(t) : a(t)[i] = queue[t]["interactive"][i].env
        /\ la(t) \in Nat /\ DOMAIN queue[t]["interactive"] = 1..la(t)
    BY <2>1, <2>2
  <2>4. /\ b(t) \in Seq(Envelopes) /\ Len(b(t)) = lb(t)
        /\ \A i \in 1..lb(t) : b(t)[i] = queue[t]["bulk"][i].env
        /\ lb(t) \in Nat /\ DOMAIN queue[t]["bulk"] = 1..lb(t)
    BY <2>1, <2>2
  <2>5. Everything[t] = a(t) \o b(t)
    BY DEF Everything
  <2> HIDE DEF a, b, la, lb
  <2>6. a(t) \o b(t) \in Seq(Envelopes) /\ Len(a(t) \o b(t)) = la(t) + lb(t)
    BY <2>3, <2>4, ConcatProperties
  <2>7. \A i \in 1..(Len(a(t)) + Len(b(t))) :
          (a(t) \o b(t))[i] = IF i <= Len(a(t)) THEN a(t)[i] ELSE b(t)[i - Len(a(t))]
    BY <2>3, <2>4, ConcatProperties
  <2>8. ASSUME NEW i \in 1..(la(t) + lb(t))
        PROVE  Everything[t][i] = IF i <= la(t) THEN queue[t]["interactive"][i].env
                                  ELSE queue[t]["bulk"][i - la(t)].env
    <3>1. CASE i <= la(t)
      <4>1. i \in 1..la(t)
        BY <2>3, <3>1
      <4> QED BY <2>3, <2>4, <2>5, <2>7, <3>1, <4>1
    <3>2. CASE ~(i <= la(t))
      <4>1. i - la(t) \in 1..lb(t)
        BY <2>3, <2>4, <3>2
      <4> QED BY <2>3, <2>4, <2>5, <2>7, <3>2, <4>1
    <3> QED BY <3>1, <3>2
  <2> QED BY <2>3, <2>4, <2>5, <2>6, <2>8
<1>3. ASSUME NEW t \in Transports, NEW i \in 1..Len(Everything[t])
      PROVE  LET x == Everything[t][i]
                 n == IF i <= la(t) THEN i ELSE i - la(t)
             IN  /\ x \in Envelopes /\ x.id \in Ids /\ active[t][x.id] = x
                 /\ completed[t][x.id] = NoResult
                 /\ x.class = IF i <= la(t) THEN "interactive" ELSE "bulk"
                 /\ n \in 1..Len(queue[t][x.class]) /\ queue[t][x.class][n].env = x
                 /\ \A j \in 1..Len(queue[t][x.class]) :
                      queue[t][x.class][j].env.id = x.id => n = j
  <2> DEFINE c == IF i <= la(t) THEN "interactive" ELSE "bulk"
             n == IF i <= la(t) THEN i ELSE i - la(t)
             x == Everything[t][i]
  <2>1. c \in Classes /\ n \in 1..Len(queue[t][c]) /\ x = queue[t][c][n].env
    <3>1. /\ i \in 1..(la(t) + lb(t)) /\ la(t) \in Nat /\ lb(t) \in Nat
          /\ x = IF i <= la(t) THEN queue[t]["interactive"][i].env
                 ELSE queue[t]["bulk"][i - la(t)].env
      BY <1>2
    <3>2. (i <= la(t) => i \in 1..la(t)) /\ (~(i <= la(t)) => i - la(t) \in 1..lb(t))
      <4> HIDE DEF la, lb, x
      <4> QED BY <3>1
    <3>3. CASE i <= la(t)
      BY <1>1, <3>1, <3>2, <3>3
    <3>4. CASE ~(i <= la(t))
      BY <1>1, <3>1, <3>2, <3>4
    <3> QED BY <3>3, <3>4
  <2> HIDE DEF c, n
  <2>2. /\ x \in Envelopes /\ x.id \in Ids /\ active[t][x.id] = x /\ x.class = c
        /\ \A j \in 1..Len(queue[t][c]) : queue[t][c][j].env.id = x.id => n = j
    BY <2>1, HomeOf
  <2>3. completed[t][x.id] = NoResult
    <3>1. x # NoEnvelope
      BY <2>2, SentinelAssumption
    <3> QED BY <2>2, <3>1 DEF CacheInv, ActiveUnanswered
  <2> HIDE DEF x
  <2> QED BY <2>1, <2>2, <2>3 DEF c, n, x
<1>4. ASSUME NEW t \in Transports, NEW i \in 1..Len(Everything[t]),
             NEW j \in 1..Len(Everything[t]), Everything[t][i].id = Everything[t][j].id
      PROVE  i = j
  <2> DEFINE n(k) == IF k <= la(t) THEN k ELSE k - la(t)
             x == Everything[t][i]
  <2>1. Everything[t][j] = x
    BY <1>3, <1>4
  <2>2. /\ x.class = IF i <= la(t) THEN "interactive" ELSE "bulk"
        /\ \A k \in 1..Len(queue[t][x.class]) : queue[t][x.class][k].env.id = x.id => n(i) = k
    BY <1>3
  <2>3. /\ x.class = IF j <= la(t) THEN "interactive" ELSE "bulk"
        /\ n(j) \in 1..Len(queue[t][x.class]) /\ queue[t][x.class][n(j)].env = x
    <3> DEFINE y == Everything[t][j]
    <3>1. /\ y.class = IF j <= la(t) THEN "interactive" ELSE "bulk"
          /\ n(j) \in 1..Len(queue[t][y.class]) /\ queue[t][y.class][n(j)].env = y
      BY <1>3
    <3>2. y = x
      BY <2>1
    <3> HIDE DEF x, y, n
    <3> QED BY <3>1, <3>2
  <2>4. n(i) = n(j) /\ (i <= la(t) <=> j <= la(t))
    BY <1>1, <2>2, <2>3
  <2>5. i \in Int /\ j \in Int /\ la(t) \in Nat
    BY <1>2
  <2> QED BY <2>4, <2>5
<1>5. Finishable(Everything, "rejected", FALSE)
  <2>1. Everything \in [Transports -> Seq(Envelopes)]
    <3>1. \A t \in Transports : Everything[t] \in Seq(Envelopes)
      BY <1>2
    <3>2. Everything = [t \in Transports |-> Everything[t]]
      BY DEF Everything
    <3> QED BY <3>1, <3>2
  <2>2. ASSUME NEW t \in Transports, NEW i \in 1..Len(Everything[t])
        PROVE  /\ completed[t][Everything[t][i].id] = NoResult
               /\ active[t][Everything[t][i].id] = Everything[t][i]
    BY <1>3
  <2>3. "rejected" \in TerminalStates /\ "rejected" \notin Succeeded
    BY DEF TerminalStates, Succeeded
  <2> QED BY <1>4, <2>1, <2>2, <2>3 DEF Finishable
<1>6. ASSUME NEW t \in Transports, NEW id \in Ids, active[t][id] # NoEnvelope
      PROVE  id \in IdsOf(Everything[t])
  <2> DEFINE x == active[t][id]
  <2>1. x.id = id /\ \E i \in DOMAIN queue[t][x.class] : queue[t][x.class][i].env = x
    BY <1>6 DEF OneHome
  <2>2. x.class \in Classes
    BY <1>6, EnvelopeFields DEF CacheInv, CacheTypeOK
  <2>3. PICK k \in DOMAIN queue[t][x.class] : queue[t][x.class][k].env = x
    BY <2>1
  <2>4. \E i \in 1..Len(Everything[t]) : Everything[t][i] = x
    <3>1. CASE x.class = "interactive"
      <4>1. k \in 1..la(t) /\ k \in 1..(la(t) + lb(t)) /\ k <= la(t)
        <5>1. k \in 1..la(t) /\ la(t) \in Nat /\ lb(t) \in Nat
          BY <1>2, <2>3, <3>1
        <5> HIDE DEF la, lb
        <5> QED BY <5>1
      <4> QED BY <1>2, <2>3, <3>1, <4>1
    <3>2. CASE x.class = "bulk"
      <4>1. /\ k \in 1..lb(t) /\ k + la(t) \in 1..(la(t) + lb(t)) /\ ~(k + la(t) <= la(t))
            /\ (k + la(t)) - la(t) = k
        <5>1. k \in 1..lb(t) /\ la(t) \in Nat /\ lb(t) \in Nat
          BY <1>2, <2>3, <3>2
        <5> HIDE DEF la, lb
        <5> QED BY <5>1
      <4>2. Everything[t][k + la(t)] = queue[t]["bulk"][(k + la(t)) - la(t)].env
        BY <1>2, <4>1
      <4> QED BY <1>2, <2>3, <3>2, <4>1, <4>2
    <3> QED BY <1>1, <2>2, <3>1, <3>2
  <2>5. PICK i \in 1..Len(Everything[t]) : Everything[t][i] = x
    BY <2>4
  <2> QED BY <1>2, <2>1, <2>5 DEF IdsOf
<1> QED BY <1>5, <1>6

LEMMA FailedClosed ==
  ASSUME QueueTypeOK, Bounded, OneHome, CacheInv, FailClosed
  PROVE  /\ QueueTypeOK' /\ Bounded' /\ OneHome' /\ CacheInv'
         /\ Finish(Everything, "rejected", FALSE)
<1>1. Finish(Everything, "rejected", FALSE)
  BY Zenon DEF FailClosed, Everything, EnvsOf
<1>2. /\ CacheInv'
      /\ active' = [t \in Transports |-> [id \in Ids |->
           IF id \in IdsOf(Everything[t]) THEN NoEnvelope ELSE active[t][id]]]
  BY <1>1, WholeQueue, FinishKeepsCaches, FinishEffect
<1>3. \A t \in Transports, id \in Ids : active'[t][id] = NoEnvelope
  BY <1>2, WholeQueue
<1>4. /\ queue' = [t \in Transports |-> [c \in Classes |-> <<>>]]
      /\ queuedCount' = [t \in Transports |-> 0]
      /\ queuedBytes' = [t \in Transports |-> 0]
  BY DEF FailClosed
<1>5. \A t \in Transports, c \in Classes :
        /\ queue'[t][c] = <<>> /\ DOMAIN queue'[t][c] = {}
        /\ Len(queue'[t][c]) = 0 /\ BytesIn(queue'[t][c]) = 0
  <2>1. Len(<<>>) = 0 /\ DOMAIN <<>> = {}
    OBVIOUS
  <2> QED BY <1>4, <2>1, BytesInEmpty
<1>6. QueueTypeOK' /\ Bounded'
  <2>1. queue' \in [Transports -> [Classes -> Seq(Request)]]
    BY <1>4
  <2>2. queuedCount' \in [Transports -> Int] /\ queuedBytes' \in [Transports -> Int]
    BY <1>4
  <2>3. ASSUME NEW t \in Transports
        PROVE  /\ queuedCount'[t] = Len(queue'[t]["interactive"]) + Len(queue'[t]["bulk"])
               /\ queuedBytes'[t] = BytesIn(queue'[t]["interactive"]) + BytesIn(queue'[t]["bulk"])
               /\ queuedCount'[t] <= queuedCount[t] /\ queuedBytes'[t] <= queuedBytes[t]
               /\ \A c \in Classes : Len(queue'[t][c]) <= Len(queue[t][c])
    <3>1. queuedCount[t] \in Nat /\ queuedBytes[t] \in Nat
          /\ \A c \in Classes : Len(queue[t][c]) \in Nat
      BY DEF QueueTypeOK
    <3> QED BY <1>4, <1>5, <3>1 DEF Classes
  <2> QED BY <2>1, <2>2, <2>3, BoundedShrinks
<1>7. OneHome'
  BY <1>3, <1>5 DEF OneHome
<1> QED BY <1>1, <1>2, <1>6, <1>7

-----------------------------------------------------------------------------
(* The steps of the scheduler.                                              *)

PaceTypeOK ==
  /\ cursor \in 1..SlotCount /\ cooldown \in Nat
  /\ live \subseteq Sessions /\ workerUp \in BOOLEAN /\ losses \in Nat /\ now \in Nat

\* The inductive invariant: the conjunction of what the runs check.
IInv == QueueTypeOK /\ CacheInv /\ PaceTypeOK /\ Bounded /\ OneHome

\* What a step does to the requests: nothing, admit one, answer one (active, if
\* it was dispatched), or answer the whole queue of a failing pump.
Admits(e) == New(e) /\ Enqueue(e)

Answers(e, state, dispatched) ==
  /\ Finishable(One(e), state, dispatched)
  /\ dispatched => active[e.transport][e.id] = e
  /\ FinishOne(e, state, dispatched)

StepKind ==
  \/ UNCHANGED <<active, completed, ran>>
  \/ \E e \in Envelopes : Admits(e)
  \/ \E e \in Envelopes, state \in TerminalStates, dispatched \in BOOLEAN :
       Answers(e, state, dispatched)
  \/ /\ Finishable(Everything, "rejected", FALSE) /\ Finish(Everything, "rejected", FALSE)
     /\ workerUp /\ ~workerUp'

LEMMA SlotOf ==
  ASSUME NEW i \in 1..SlotCount
  PROVE  Slots[i][1] \in Transports /\ Slots[i][2] \in Classes
<1>1. i \in {1, 2, 3, 4, 5, 6, 7, 8, 9, 10}
  BY DEF SlotCount
<1> QED BY <1>1 DEF Slots, Transports, Classes

LEMMA NextCursorInSlots ==
  ASSUME NEW i \in 1..SlotCount
  PROVE  NextCursor(i) \in 1..SlotCount
BY DEF NextCursor, SlotCount

LEMMA CooledDownInNat ==
  ASSUME cooldown \in Nat
  PROVE  CooledDown \in Nat
BY DEF CooledDown

\* A command refused at the door, or answered from the head of its lane, may be
\* finished.
LEMMA OneFinishable ==
  ASSUME CacheInv, NEW e \in Envelopes, NEW state \in TerminalStates, NEW dispatched \in BOOLEAN,
         state \in Succeeded => dispatched, state = "expired" => ~dispatched,
         completed[e.transport][e.id] = NoResult,
         \/ active[e.transport][e.id] = e
         \/ e.transport = "direct" /\ active[e.transport][e.id] = NoEnvelope
  PROVE  Finishable(One(e), state, dispatched)
<1>1. \A t \in Transports : \A i \in 1..Len(One(e)[t]) :
        t = e.transport /\ i = 1 /\ One(e)[t][i] = e
  <2> SUFFICES ASSUME NEW t \in Transports, NEW i \in 1..Len(One(e)[t])
        PROVE t = e.transport /\ i = 1 /\ One(e)[t][i] = e
    BY Zenon
  <2>1. CASE t = e.transport
    <3>1. One(e)[t] = <<e>>
      BY <2>1, OneBatch
    <3> QED BY <2>1, <3>1
  <2>2. CASE t # e.transport
    <3>1. One(e)[t] = <<>>
      BY <2>2 DEF One
    <3> QED BY <3>1
  <2> QED BY <2>1, <2>2
<1>2. One(e) \in [Transports -> Seq(Envelopes)]
  BY OneBatch
<1>3. \A t \in Transports : \A i \in 1..Len(One(e)[t]) :
        /\ completed[t][One(e)[t][i].id] = NoResult
        /\ \A j \in 1..Len(One(e)[t]) : One(e)[t][i].id = One(e)[t][j].id => i = j
        /\ active[t][One(e)[t][i].id] = One(e)[t][i]
             \/ (t = "direct" /\ active[t][One(e)[t][i].id] = NoEnvelope)
  BY <1>1
<1> QED BY <1>2, <1>3 DEF Finishable

LEMMA InitInv == Init => IInv
<1> SUFFICES ASSUME Init PROVE IInv
  OBVIOUS
<1>1. \A t \in Transports, c \in Classes :
        queue[t][c] = <<>> /\ Len(queue[t][c]) = 0 /\ DOMAIN queue[t][c] = {}
        /\ BytesIn(queue[t][c]) = 0
  <2>1. Len(<<>>) = 0 /\ DOMAIN <<>> = {}
    OBVIOUS
  <2> QED BY <2>1, BytesInEmpty DEF Init
<1>2. \A t \in Transports : queuedCount[t] = 0 /\ queuedBytes[t] = 0
  BY DEF Init
<1>3. \A t \in Transports, id \in Ids :
        active[t][id] = NoEnvelope /\ completed[t][id] = NoResult /\ ran[t][id] = 0
  BY DEF Init
<1>4. \A t \in Transports : order[t] = <<>> /\ ToSet(order[t]) = {} /\ Len(order[t]) = 0
                            /\ IsInjective(order[t])
  <2>1. ToSet(<<>>) = {} /\ Len(<<>>) = 0 /\ IsInjective(<<>>)
    BY DEF ToSet, IsInjective
  <2> QED BY <2>1 DEF Init
<1>5. \A k \in Keys : activeKey[k] = NoId /\ completedKey[k] = NoId
  BY DEF Init
<1>6. "direct" \in Transports /\ "tunnel" \in Transports
      /\ "interactive" \in Classes /\ "bulk" \in Classes
  BY DEF Transports, Classes
<1>7. QueueTypeOK
  BY DEF Init, QueueTypeOK
<1>8. CacheTypeOK
  <2>1. order \in [Transports -> Seq(Ids)]
    BY DEF Init
  <2> QED BY <2>1 DEF Init, CacheTypeOK
<1>9. PaceTypeOK
  BY DEF Init, PaceTypeOK, SlotCount
<1>10. Bounded
  <2>1. TotalDepth = 0 /\ TotalBytes = 0
    BY <1>2, <1>6 DEF TotalDepth, TotalBytes
  <2>2. ASSUME NEW t \in Transports, NEW c \in Classes
        PROVE  Len(queue[t][c]) <= MaxLane[t][c] /\ queuedCount[t] <= MaxTransport[t]
    <3>1. MaxLane[t][c] \in Nat /\ MaxTransport[t] \in Nat
      BY LimitAssumption
    <3> QED BY <1>1, <1>2, <3>1
  <2>3. TotalDepth <= MaxQueue /\ TotalBytes <= MaxBytes
        /\ queuedBytes["tunnel"] <= MaxTunnelBytes
    BY <1>2, <1>6, <2>1, LimitAssumption
  <2>4. ASSUME NEW t \in Transports
        PROVE  /\ queuedCount[t] = Len(queue[t]["interactive"]) + Len(queue[t]["bulk"])
               /\ queuedBytes[t] = BytesIn(queue[t]["interactive"]) + BytesIn(queue[t]["bulk"])
               /\ queuedCount[t] <= MaxTransport[t]
    <3> DEFINE a == queue[t]["interactive"]  b == queue[t]["bulk"]
    <3>1. Len(a) = 0 /\ Len(b) = 0 /\ BytesIn(a) = 0 /\ BytesIn(b) = 0
      BY <1>1, <1>6
    <3>2. queuedCount[t] = 0 /\ queuedBytes[t] = 0 /\ queuedCount[t] <= MaxTransport[t]
      BY <1>2, <1>6, <2>2
    <3> HIDE DEF a, b
    <3>3. queuedCount[t] = Len(a) + Len(b) /\ queuedBytes[t] = BytesIn(a) + BytesIn(b)
      BY <3>1, <3>2
    <3> QED BY <3>2, <3>3 DEF a, b
  <2> QED BY <2>2, <2>3, <2>4 DEF Bounded
<1>11. OneHome
  BY <1>1, <1>3 DEF OneHome
<1>12. ActiveUnanswered
  BY <1>3 DEF ActiveUnanswered
<1>13. CachesCoherent
  <2>1. \A id \in Ids : id # NoId
    BY SentinelAssumption
  <2>2. \A t \in Transports : Retention[t] \in Nat
    BY LimitAssumption
  <2> QED BY <1>3, <1>4, <1>5, <1>6, <2>1, <2>2 DEF CachesCoherent
<1>14. AtMostOnce
  <2>1. \A t \in Transports, id \in Ids : ran[t][id] <= 1 /\ ran[t][id] # 1
    BY <1>3
  <2> QED BY <1>6, <2>1 DEF AtMostOnce
<1>15. HonestResults
  BY <1>3 DEF HonestResults
<1> QED BY <1>7, <1>8, <1>9, <1>10, <1>11, <1>12, <1>13, <1>14, <1>15 DEF IInv, CacheInv

LEMMA AdmitStep ==
  ASSUME IInv, NEW e \in Envelopes, AdmitDirect(e) \/ AdmitTunnel(e)
  PROVE  IInv' /\ StepKind
<1>1. New(e) /\ HasRoom(e) /\ Enqueue(e) /\ KeyFree(e)
  <2>1. CASE AdmitDirect(e)
    <3>1. e.key = NoKey
      BY <2>1, EnvelopeAssumption DEF AdmitDirect
    <3> QED BY <2>1, <3>1 DEF AdmitDirect, KeyFree
  <2>2. CASE AdmitTunnel(e)
    BY <2>2 DEF AdmitTunnel
  <2> QED BY <2>1, <2>2
<1>2. QueueTypeOK' /\ Bounded' /\ OneHome'
  BY <1>1, Enqueued DEF IInv
<1>3. CacheInv'
  BY <1>1, EnqueuedCaches DEF IInv
<1>4. PaceTypeOK'
  BY <1>1 DEF IInv, PaceTypeOK, Enqueue, paceVars, workerVars
<1> QED BY <1>1, <1>2, <1>3, <1>4 DEF IInv, StepKind, Admits

LEMMA RejectStep ==
  ASSUME IInv, NEW e \in Envelopes, RejectDirect(e)
  PROVE  IInv' /\ StepKind
<1>1. PICK state \in {"rejected", "expired"}, dispatched \in BOOLEAN :
        ~dispatched /\ FinishOne(e, state, dispatched)
  BY DEF RejectDirect
<1>2. /\ e.transport = "direct" /\ active[e.transport][e.id] = NoEnvelope
      /\ completed[e.transport][e.id] = NoResult
      /\ UNCHANGED <<queue, queuedCount, queuedBytes>>
      /\ UNCHANGED <<cursor, cooldown, live, workerUp, losses, now>>
  BY DEF RejectDirect, New, queueVars, paceVars, workerVars
<1>3. state \in TerminalStates /\ (state \in Succeeded => dispatched)
      /\ (state = "expired" => ~dispatched)
  BY <1>1 DEF TerminalStates, Succeeded
<1>4. /\ CacheInv /\ QueueTypeOK /\ Bounded /\ OneHome /\ PaceTypeOK
  BY DEF IInv
<1>5. /\ CacheInv'
      /\ active'[e.transport][e.id] = NoEnvelope
      /\ \A t \in Transports, id \in Ids : t # e.transport \/ id # e.id =>
           /\ completed'[t][id] \in {completed[t][id], NoResult}
           /\ active'[t][id] = active[t][id]
  BY <1>1, <1>2, <1>3, <1>4, FinishOneEffect
<1>6. Finishable(One(e), state, dispatched)
  BY <1>2, <1>3, <1>4, OneFinishable
<1>7. QueueTypeOK' /\ Bounded'
  BY <1>2, <1>4 DEF QueueTypeOK, Bounded, TotalDepth, TotalBytes
<1>8. PaceTypeOK'
  BY <1>2, <1>4 DEF PaceTypeOK
<1>9. \A t \in Transports, id \in Ids : active'[t][id] = active[t][id]
  BY <1>2, <1>5
<1>10. OneHome'
  <2>1. ASSUME NEW t \in Transports, NEW c \in Classes, NEW i \in DOMAIN queue'[t][c]
        PROVE  LET x == queue'[t][c][i].env
               IN  /\ active'[t][x.id] = x /\ x.transport = t /\ x.class = c
                   /\ \A j \in DOMAIN queue'[t][c] : queue'[t][c][j].env.id = x.id => i = j
    <3>1. i \in 1..Len(queue[t][c]) /\ queue'[t][c] = queue[t][c]
          /\ DOMAIN queue[t][c] = 1..Len(queue[t][c])
      BY <1>2, <1>4 DEF QueueTypeOK
    <3> QED BY <1>4, <1>9, <3>1, HomeOf
  <2>2. ASSUME NEW t \in Transports, NEW id \in Ids, active'[t][id] # NoEnvelope
        PROVE  LET x == active'[t][id]
               IN  /\ x.id = id /\ completed'[t][id] = NoResult
                   /\ \E i \in DOMAIN queue'[t][x.class] : queue'[t][x.class][i].env = x
    <3>1. active[t][id] # NoEnvelope /\ active'[t][id] = active[t][id]
      BY <1>9, <2>2
    <3>2. t # e.transport \/ id # e.id
      BY <1>2, <3>1
    <3>3. completed'[t][id] \in {completed[t][id], NoResult}
      BY <1>5, <3>2
    <3> QED BY <1>2, <1>4, <3>1, <3>3 DEF OneHome
  <2> QED BY <2>1, <2>2, Zenon DEF OneHome
<1>11. StepKind
  <2>1. Answers(e, state, dispatched)
    BY <1>1, <1>6 DEF Answers
  <2> QED BY <1>3, <2>1 DEF StepKind
<1> QED BY <1>5, <1>7, <1>8, <1>10, <1>11 DEF IInv

\* The head of a lane is answered in the tick that takes it out.
LEMMA AnswerStep ==
  ASSUME IInv, NEW t \in Transports, NEW c \in Classes, queue[t][c] # <<>>,
         NEW e, e = Head(queue[t][c]).env,
         NEW state \in TerminalStates, NEW dispatched \in BOOLEAN,
         state \in Succeeded => dispatched, state = "expired" => ~dispatched,
         Dequeue(t, c), FinishOne(e, state, dispatched), PaceTypeOK'
  PROVE  IInv' /\ StepKind
<1>1. CacheInv /\ QueueTypeOK /\ Bounded /\ OneHome
  BY DEF IInv
<1>2. /\ QueueTypeOK' /\ Bounded' /\ OneHome' /\ CacheInv'
      /\ e \in Envelopes /\ e.transport = t /\ e.id \in Ids
      /\ active[t][e.id] = e /\ completed[t][e.id] = NoResult
  BY <1>1, Answering
<1>3. Finishable(One(e), state, dispatched)
  BY <1>1, <1>2, OneFinishable
<1>4. Answers(e, state, dispatched)
  BY <1>2, <1>3 DEF Answers
<1> QED BY <1>2, <1>4 DEF IInv, StepKind

LEMMA AgedQueueLanes ==
  ASSUME QueueTypeOK
  PROVE  /\ AgedQueue \in [Transports -> [Classes -> Seq(Request)]]
         /\ \A t \in Transports, c \in Classes :
              /\ Len(AgedQueue[t][c]) = Len(queue[t][c])
              /\ \A i \in 1..Len(queue[t][c]) : AgedQueue[t][c][i].env = queue[t][c][i].env
<1>1. ASSUME NEW t \in Transports, NEW c \in Classes
      PROVE  /\ AgedQueue[t][c] = Aged(queue[t][c])
             /\ Aged(queue[t][c]) \in Seq(Request)
             /\ Len(AgedQueue[t][c]) = Len(queue[t][c])
             /\ \A i \in 1..Len(queue[t][c]) : AgedQueue[t][c][i].env = queue[t][c][i].env
  <2>1. queue[t][c] \in Seq(Request)
    BY DEF QueueTypeOK
  <2>2. AgedQueue[t][c] = Aged(queue[t][c])
    BY DEF AgedQueue
  <2> QED BY <2>1, <2>2, AgedLane
<1>2. AgedQueue \in [Transports -> [Classes -> Seq(Request)]]
  BY <1>1 DEF AgedQueue
<1> QED BY <1>1, <1>2

\* Steps that leave the tables alone and keep the requests where they are.
LEMMA QuietStep ==
  ASSUME IInv, PaceTypeOK',
         queue' \in [Transports -> [Classes -> Seq(Request)]],
         \A t \in Transports, c \in Classes :
           /\ Len(queue'[t][c]) = Len(queue[t][c])
           /\ \A i \in 1..Len(queue[t][c]) : queue'[t][c][i].env = queue[t][c][i].env,
         UNCHANGED <<queuedCount, queuedBytes, cacheVars>>
  PROVE  IInv' /\ StepKind
<1>1. CacheInv /\ QueueTypeOK /\ Bounded /\ OneHome
  BY DEF IInv
<1>2. UNCHANGED <<queuedCount, queuedBytes, active, activeKey, completed, completedKey, order, ran>>
  BY DEF cacheVars
<1>3. QueueTypeOK' /\ Bounded' /\ OneHome'
  BY <1>1, <1>2, SameRequests
<1>4. CacheInv'
  <2>1. CacheTypeOK' /\ ActiveUnanswered'
    BY <1>1, <1>2 DEF CacheInv, CacheTypeOK, ActiveUnanswered
  <2>2. CachesCoherent'
    BY <1>1, <1>2 DEF CacheInv, CachesCoherent
  <2>3. AtMostOnce' /\ HonestResults'
    BY <1>1, <1>2 DEF CacheInv, AtMostOnce, HonestResults
  <2> QED BY <2>1, <2>2, <2>3 DEF CacheInv
<1> QED BY <1>2, <1>3, <1>4 DEF IInv, StepKind

LEMMA IdleStep ==
  ASSUME IInv, IdleTick
  PROVE  IInv' /\ StepKind
<1>1. QueueTypeOK /\ PaceTypeOK
  BY DEF IInv
<1>2. queue' = AgedQueue /\ UNCHANGED <<queuedCount, queuedBytes, cacheVars>>
  BY DEF IdleTick
<1>3. PaceTypeOK'
  BY <1>1, CooledDownInNat DEF IdleTick, PaceTypeOK, workerVars
<1> QED BY <1>1, <1>2, <1>3, AgedQueueLanes, QuietStep

LEMMA DirectStep ==
  ASSUME IInv, NEW i \in 1..SlotCount, ServeDirect(i)
  PROVE  IInv' /\ StepKind
<1> DEFINE c == Slots[i][2]
           e == Head(queue["direct"][c]).env
<1>1. /\ c \in Classes /\ "direct" \in Transports /\ Slots[i][1] = "direct"
      /\ queue["direct"][c] # <<>>
  BY SlotOf DEF ServeDirect, Selected, Runnable, Transports
<1>2. Dequeue("direct", c) /\ RunDirect(e)
  BY DEF ServeDirect
<1>3. PaceTypeOK'
  <2>1. PaceTypeOK
    BY DEF IInv
  <2>2. cursor' = NextCursor(i) /\ cooldown' = CooledDown
        /\ UNCHANGED <<workerUp, losses, live, now>>
    BY DEF ServeDirect, workerVars
  <2> QED BY <2>1, <2>2, CooledDownInNat, NextCursorInSlots DEF PaceTypeOK
<1> HIDE DEF c, e
<1>4. PICK state \in TerminalStates, dispatched \in BOOLEAN :
        /\ state \in Succeeded => dispatched
        /\ state = "expired" => ~dispatched
        /\ FinishOne(e, state, dispatched)
  <2>1. CASE FinishOne(e, "expired", FALSE)
    <3>1. "expired" \in TerminalStates /\ "expired" \notin Succeeded
      BY DEF TerminalStates, Succeeded
    <3> QED BY <2>1, <3>1
  <2>2. CASE \E s \in {"completed", "outcome_unknown"} : FinishOne(e, s, TRUE)
    <3>1. \A s \in {"completed", "outcome_unknown"} :
            s \in TerminalStates /\ s # "expired"
      BY DEF TerminalStates
    <3> QED BY <2>2, <3>1
  <2> QED BY <1>2, <2>1, <2>2 DEF RunDirect
<1>5. e = Head(queue["direct"][c]).env
  BY DEF e
<1> QED BY <1>1, <1>2, <1>3, <1>4, <1>5, AnswerStep

LEMMA TunnelStep ==
  ASSUME IInv, NEW i \in 1..SlotCount, ServeTunnel(i)
  PROVE  IInv' /\ StepKind
<1> DEFINE c == Slots[i][2]
           lane == queue["tunnel"][c]
           e == Head(lane).env
<1>1. c \in Classes /\ "tunnel" \in Transports /\ lane # <<>> /\ lane \in Seq(Request)
  BY SlotOf DEF ServeTunnel, Selected, Runnable, Transports, IInv, QueueTypeOK
<1>2. Head(Aged(lane)).env = e
  <2>1. Aged(lane) \in Seq(Request) /\ Len(Aged(lane)) = Len(lane)
        /\ \A n \in 1..Len(lane) : Aged(lane)[n].env = lane[n].env
    BY <1>1, AgedLane
  <2>2. 1 \in 1..Len(lane) /\ Head(lane) = lane[1] /\ Head(Aged(lane)) = Aged(lane)[1]
    BY <1>1, <2>1
  <2> QED BY <2>1, <2>2
<1>3. Head(Aged(lane)).wait \in Nat
  <2>1. Aged(lane) \in Seq(Request) /\ Len(Aged(lane)) = Len(lane)
    BY <1>1, AgedLane
  <2>2. Head(Aged(lane)) \in Request
    BY <1>1, <2>1
  <2> QED BY <2>2 DEF Request
<1>4. PaceTypeOK'
  <2>1. PaceTypeOK
    BY DEF IInv
  <2>2. cursor' = NextCursor(i) /\ cooldown' = CooldownTicks
        /\ UNCHANGED <<workerUp, losses, live, now>>
    BY DEF ServeTunnel, workerVars
  <2>3. CooldownTicks \in Nat
    BY TimeAssumption
  <2> QED BY <2>1, <2>2, <2>3, NextCursorInSlots DEF PaceTypeOK
<1>5. DrainTunnel(c)
  BY DEF ServeTunnel
<1>6. CASE \E wait \in Nat : Requeue(c, wait)
  <2>1. QueueTypeOK /\ Bounded /\ OneHome /\ CacheInv
    BY DEF IInv
  <2>2. QueueTypeOK' /\ Bounded' /\ OneHome' /\ CacheInv'
    BY <1>1, <1>6, <2>1, Requeued
  <2>3. UNCHANGED <<active, completed, ran>>
    BY <1>6 DEF Requeue, cacheVars
  <2> QED BY <1>4, <2>2, <2>3 DEF IInv, StepKind
<1>7. CASE /\ Dequeue("tunnel", c)
           /\ \E state \in TerminalStates, dispatched \in BOOLEAN :
                /\ state \in Succeeded => dispatched
                /\ state = "expired" => ~dispatched
                /\ FinishOne(e, state, dispatched)
  <2> HIDE DEF e, c
  <2>1. PICK state \in TerminalStates, dispatched \in BOOLEAN :
                /\ state \in Succeeded => dispatched
                /\ state = "expired" => ~dispatched
                /\ FinishOne(e, state, dispatched)
    BY <1>7
  <2>2. e = Head(queue["tunnel"][c]).env
    BY DEF e
  <2> QED BY <1>1, <1>4, <1>7, <2>1, <2>2, AnswerStep
<1> HIDE DEF e, c
<1>8. \/ \E wait \in Nat : Requeue(c, wait)
      \/ /\ Dequeue("tunnel", c)
         /\ \/ \E s \in {"rejected", "expired"} : FinishOne(e, s, FALSE)
            \/ \E s \in {"injected", "rejected", "outcome_unknown"} : FinishOne(e, s, TRUE)
  <2> DEFINE r == Head(Aged(lane))
  <2>1. r.env = e /\ r.wait \in Nat
    BY <1>2, <1>3
  <2> HIDE DEF r
  <2>2. RetryTicks \subseteq Nat
    BY TimeAssumption
  <2>3. \/ Requeue(c, r.wait)
        \/ \E wait \in RetryTicks : Requeue(c, wait)
        \/ Dequeue("tunnel", c) /\ FinishOne(r.env, "expired", FALSE)
        \/ Dequeue("tunnel", c) /\ FinishOne(r.env, "rejected", FALSE)
        \/ Dequeue("tunnel", c) /\ DispatchTunnel(r.env)
    BY <1>5 DEF DrainTunnel, r
  <2> QED BY <2>1, <2>2, <2>3 DEF DispatchTunnel
<1>9. \/ \E wait \in Nat : Requeue(c, wait)
      \/ /\ Dequeue("tunnel", c)
         /\ \E state \in TerminalStates, dispatched \in BOOLEAN :
                /\ state \in Succeeded => dispatched
                /\ state = "expired" => ~dispatched
                /\ FinishOne(e, state, dispatched)
  <2>1. \A s \in {"rejected", "expired"} : s \in TerminalStates /\ s \notin Succeeded
    BY DEF TerminalStates, Succeeded
  <2>2. \A s \in {"injected", "rejected", "outcome_unknown"} :
          s \in TerminalStates /\ s # "expired"
    BY DEF TerminalStates
  <2> QED BY <1>8, <2>1, <2>2
<1> QED BY <1>6, <1>7, <1>9

LEMMA SyncStep ==
  ASSUME IInv, Sync
  PROVE  IInv' /\ StepKind
<1> DEFINE woken(r, resolved) == r.wait > 0 /\ r.env.session \in resolved
           wake(lane, resolved) ==
             [i \in DOMAIN lane |->
                IF woken(lane[i], resolved) THEN [lane[i] EXCEPT !.wait = 0] ELSE lane[i]]
<1>1. PICK listed \in SUBSET Sessions, resolved \in SUBSET Sessions :
        /\ live' = listed
        /\ queue' = [queue EXCEPT !["tunnel"] = [c \in Classes |-> wake(@[c], resolved)]]
        /\ cooldown' \in {0, cooldown}
        /\ UNCHANGED <<queuedCount, queuedBytes, cacheVars, cursor, workerUp, losses, now>>
  BY Zenon DEF Sync, workerVars
<1>2. QueueTypeOK /\ PaceTypeOK
  BY DEF IInv
<1>3. ASSUME NEW lane \in Seq(Request)
      PROVE  /\ wake(lane, resolved) \in Seq(Request) /\ Len(wake(lane, resolved)) = Len(lane)
             /\ \A i \in 1..Len(lane) : wake(lane, resolved)[i].env = lane[i].env
  <2>1. \A i \in 1..Len(lane) :
          /\ lane[i] \in Request
          /\ [lane[i] EXCEPT !.wait = 0] \in Request
          /\ [lane[i] EXCEPT !.wait = 0].env = lane[i].env
    <3>1. \A r \in Request : [r EXCEPT !.wait = 0] \in Request /\ [r EXCEPT !.wait = 0].env = r.env
      BY DEF Request
    <3>2. \A i \in 1..Len(lane) : lane[i] \in Request
      OBVIOUS
    <3> QED BY <3>1, <3>2
  <2>2. DOMAIN lane = 1..Len(lane) /\ Len(lane) \in Nat
    OBVIOUS
  <2>3. wake(lane, resolved) \in [1..Len(lane) -> Request]
    BY <2>1, <2>2
  <2>4. \A i \in 1..Len(lane) : wake(lane, resolved)[i].env = lane[i].env
    BY <2>1, <2>2
  <2> QED BY <2>2, <2>3, <2>4
<1> HIDE DEF wake
<1>4. ASSUME NEW t \in Transports, NEW c \in Classes
      PROVE  /\ queue[t][c] \in Seq(Request)
             /\ queue'[t][c] = IF t = "tunnel" THEN wake(queue[t][c], resolved) ELSE queue[t][c]
             /\ queue'[t][c] \in Seq(Request)
             /\ Len(queue'[t][c]) = Len(queue[t][c])
             /\ \A i \in 1..Len(queue[t][c]) : queue'[t][c][i].env = queue[t][c][i].env
  <2>1. queue[t][c] \in Seq(Request)
    BY <1>2 DEF QueueTypeOK
  <2>2. queue'[t][c] = IF t = "tunnel" THEN wake(queue[t][c], resolved) ELSE queue[t][c]
    BY <1>1, <1>2 DEF QueueTypeOK
  <2> QED BY <1>3, <2>1, <2>2
<1>5. queue' \in [Transports -> [Classes -> Seq(Request)]]
  <2>1. queue' = [t \in Transports |-> [c \in Classes |-> queue'[t][c]]]
    BY <1>1, <1>2 DEF QueueTypeOK
  <2> QED BY <1>4, <2>1
<1>6. PaceTypeOK'
  BY <1>1, <1>2 DEF PaceTypeOK
<1>7. UNCHANGED <<queuedCount, queuedBytes, cacheVars>>
  BY <1>1
<1> QED BY <1>4, <1>5, <1>6, <1>7, QuietStep

LEMMA StepInv == IInv /\ [Next]_vars => IInv' /\ StepKind
<1> SUFFICES ASSUME IInv, [Next]_vars PROVE IInv' /\ StepKind
  OBVIOUS
<1>1. CacheInv /\ QueueTypeOK /\ PaceTypeOK /\ Bounded /\ OneHome
  BY DEF IInv
\* The steps around the pump that leave the queues and the tables alone.
<1>2. ASSUME UNCHANGED <<queueVars, cacheVars>>, PaceTypeOK'
      PROVE  IInv' /\ StepKind
  <2>1. UNCHANGED <<queue, queuedCount, queuedBytes, cacheVars>>
    BY <1>2 DEF queueVars
  <2>2. /\ queue' \in [Transports -> [Classes -> Seq(Request)]]
        /\ \A t \in Transports, c \in Classes :
             /\ Len(queue'[t][c]) = Len(queue[t][c])
             /\ \A i \in 1..Len(queue[t][c]) : queue'[t][c][i].env = queue[t][c][i].env
    BY <1>1, <2>1 DEF QueueTypeOK
  <2> QED BY <1>2, <2>1, <2>2, QuietStep
<1>3. CASE Ingress
  BY <1>3, AdmitStep, RejectStep DEF Ingress
<1>4. CASE ExecuteOne
  BY <1>4, IdleStep, DirectStep, TunnelStep DEF ExecuteOne
<1>5. CASE Sync
  BY <1>5, SyncStep
<1>6. CASE FailClosed
  <2>1. /\ QueueTypeOK' /\ Bounded' /\ OneHome' /\ CacheInv'
        /\ Finish(Everything, "rejected", FALSE)
    BY <1>1, <1>6, FailedClosed
  <2>2. Finishable(Everything, "rejected", FALSE)
    BY <1>1, WholeQueue
  <2>3. /\ workerUp /\ ~workerUp' /\ workerUp' \in BOOLEAN /\ losses' = losses + 1
        /\ UNCHANGED <<cursor, cooldown, live, now>>
    BY <1>6 DEF FailClosed, paceVars
  <2>4. PaceTypeOK'
    BY <1>1, <2>3 DEF PaceTypeOK
  <2> QED BY <2>1, <2>2, <2>3, <2>4 DEF IInv, StepKind
<1>7. CASE ChainLost
  <2>1. PaceTypeOK'
    <3>1. /\ workerUp' \in BOOLEAN /\ losses' = losses + 1
          /\ UNCHANGED <<cursor, cooldown, live, now>>
      BY <1>7 DEF ChainLost, paceVars
    <3> QED BY <1>1, <3>1 DEF PaceTypeOK
  <2>2. UNCHANGED <<queueVars, cacheVars>>
    BY <1>7 DEF ChainLost
  <2> QED BY <1>2, <2>1, <2>2
<1>8. CASE Restart
  <2>1. PaceTypeOK'
    BY <1>1, <1>8 DEF Restart, PaceTypeOK, paceVars
  <2>2. UNCHANGED <<queueVars, cacheVars>>
    BY <1>8 DEF Restart
  <2> QED BY <1>2, <2>1, <2>2
<1>9. CASE AdvanceClock
  <2>1. PaceTypeOK'
    BY <1>1, <1>9 DEF AdvanceClock, PaceTypeOK, paceVars, workerVars
  <2>2. UNCHANGED <<queueVars, cacheVars>>
    BY <1>9 DEF AdvanceClock
  <2> QED BY <1>2, <2>1, <2>2
<1>10. CASE UNCHANGED vars
  <2>1. PaceTypeOK'
    BY <1>1, <1>10 DEF vars, PaceTypeOK, paceVars, workerVars
  <2>2. UNCHANGED <<queueVars, cacheVars>>
    BY <1>10 DEF vars
  <2> QED BY <1>2, <2>1, <2>2
<1> QED BY <1>3, <1>4, <1>5, <1>6, <1>7, <1>8, <1>9, <1>10 DEF Next

LEMMA Invariance == Spec => []IInv
<1>1. IInv /\ [Next]_vars => IInv'
  BY StepInv
<1> QED BY <1>1, InitInv, PTL DEF Spec

-----------------------------------------------------------------------------
(* The theorems.                                                            *)

\* Every table of the scheduler keeps its shape, whatever is sent to it.
THEOREM SchedulerTypeCorrect == Spec => []TypeOK
<1>1. IInv => TypeOK
  BY DEF IInv, QueueTypeOK, CacheInv, CacheTypeOK, PaceTypeOK, TypeOK
<1> QED BY <1>1, Invariance, PTL

\* The counters the code keeps by hand equal what is really queued, so the
\* budgets shared by both transports hold, for every limit and request set.
THEOREM BoundedHolds == Spec => []Bounded
<1>1. IInv => Bounded
  BY DEF IInv
<1> QED BY <1>1, Invariance, PTL

\* A request is active exactly while one queued request carries it, and never
\* active and answered.
THEOREM OneHomeHolds == Spec => []OneHome
<1>1. IInv => OneHome
  BY DEF IInv
<1> QED BY <1>1, Invariance, PTL

\* The key tables and the eviction order agree with the id tables, for every
\* retention and through every eviction.
THEOREM CachesCoherentHolds == Spec => []CachesCoherent
<1>1. IInv => CachesCoherent
  BY DEF IInv, CacheInv
<1> QED BY <1>1, Invariance, PTL

\* Nothing is executed twice while its id, or its idempotency key, is remembered.
THEOREM AtMostOnceHolds == Spec => []AtMostOnce
<1>1. IInv => AtMostOnce
  BY DEF IInv, CacheInv
<1> QED BY <1>1, Invariance, PTL

\* A replayed answer tells truly whether the request was executed.
THEOREM HonestResultsHolds == Spec => []HonestResults
<1>1. IInv => HonestResults
  BY DEF IInv, CacheInv
<1> QED BY <1>1, Invariance, PTL

-----------------------------------------------------------------------------
(* Answers stand.                                                           *)

\* No table entry of an active request is given away, and no answer is changed:
\* what happens to the entries of one id in any step.
EntryStep(t, id) ==
  /\ active[t][id] # NoEnvelope /\ active'[t][id] # active[t][id] =>
       \/ completed'[t][id] # NoResult /\ completed'[t][id].env = active[t][id]
       \/ workerUp /\ ~workerUp' /\ active'[t][id] = NoEnvelope
  /\ completed[t][id] # NoResult =>
       completed'[t][id] \in {completed[t][id], NoResult}

LEMMA FinishEntryStep ==
  ASSUME CacheInv, NEW batch, NEW state, NEW dispatched,
         Finishable(batch, state, dispatched), Finish(batch, state, dispatched),
         NEW t \in Transports, NEW id \in Ids,
         \/ workerUp /\ ~workerUp'
         \/ \A x \in IdsOf(batch[t]) : x \in ToSet(order'[t])
  PROVE  EntryStep(t, id)
<1> DEFINE done == IdsOf(batch[t])
           kept == ToSet(order'[t])
           results == Remembering(t, batch[t], state)
<1>1. EntriesAfter(t, done, kept, results, state, dispatched)
  BY FinishEntries
<1>2. \A x \in Ids : completed[t][x] # NoResult => active[t][x] = NoEnvelope
  BY DEF CacheInv, ActiveUnanswered
<1>3. NoResult \notin Result
  BY SentinelAssumption
<1>4. (workerUp /\ ~workerUp') \/ (\A x \in done : x \in kept)
  OBVIOUS
<1> HIDE DEF done, kept, results
<1>5. CASE id \in done
  <2>1. /\ completed[t][id] = NoResult /\ active'[t][id] = NoEnvelope
        /\ completed'[t][id] = IF id \in kept THEN results[id] ELSE NoResult
        /\ results[id] \in Result
        /\ active[t][id] = results[id].env \/ active[t][id] = NoEnvelope
    BY <1>1, <1>5 DEF EntriesAfter
  <2> QED BY <1>3, <1>4, <1>5, <2>1 DEF EntryStep
<1>6. CASE id \notin done
  <2>1. /\ completed'[t][id] = IF id \in kept THEN completed[t][id] ELSE NoResult
        /\ active'[t][id] = active[t][id]
    BY <1>1, <1>6 DEF EntriesAfter
  <2> QED BY <2>1 DEF EntryStep
<1> QED BY <1>5, <1>6

LEMMA EveryEntryStep ==
  ASSUME IInv, [Next]_vars, NEW t \in Transports, NEW id \in Ids
  PROVE  EntryStep(t, id)
<1>1. CacheInv /\ StepKind
  BY StepInv DEF IInv
<1>2. CASE UNCHANGED <<active, completed, ran>>
  BY <1>2 DEF EntryStep
<1>3. ASSUME NEW e \in Envelopes, Admits(e) PROVE EntryStep(t, id)
  <2>1. completed' = completed /\ active' = [active EXCEPT ![e.transport][e.id] = e]
    BY <1>3 DEF Admits, Enqueue
  <2>2. active[e.transport][e.id] = NoEnvelope
    BY <1>3 DEF Admits, New
  <2>3. active \in [Transports -> [Ids -> Envelopes \cup {NoEnvelope}]]
    BY <1>1 DEF CacheInv, CacheTypeOK
  <2>4. active[t][id] # NoEnvelope => active'[t][id] = active[t][id]
    BY <2>1, <2>2, <2>3
  <2> QED BY <2>1, <2>4 DEF EntryStep
<1>4. ASSUME NEW e \in Envelopes, NEW state \in TerminalStates, NEW dispatched \in BOOLEAN,
             Answers(e, state, dispatched)
      PROVE  EntryStep(t, id)
  <2>1. Finishable(One(e), state, dispatched) /\ Finish(One(e), state, dispatched)
    BY <1>4 DEF Answers, FinishOne, One
  <2>2. \A x \in IdsOf(One(e)[t]) : x \in ToSet(order'[t])
    <3>1. CASE t = e.transport
      <4>1. One(e)[t] = <<e>> /\ IdsOf(One(e)[t]) = {e.id}
        BY <3>1, OneBatch
      <4>2. One(e)[t] # <<>> /\ One(e)[t][Len(One(e)[t])] = e
        BY <4>1
      <4>3. One(e)[t][Len(One(e)[t])].id \in ToSet(order'[t])
        BY <1>1, <2>1, <4>2, FinishEffect
      <4> QED BY <4>1, <4>2, <4>3
    <3>2. CASE t # e.transport
      BY <3>2, OneBatch
    <3> QED BY <3>1, <3>2
  <2> QED BY <1>1, <2>1, <2>2, FinishEntryStep
<1>5. CASE /\ Finishable(Everything, "rejected", FALSE) /\ Finish(Everything, "rejected", FALSE)
           /\ workerUp /\ ~workerUp'
  BY <1>1, <1>5, FinishEntryStep
<1> QED BY <1>1, <1>2, <1>3, <1>4, <1>5 DEF StepKind

\* Accepted work never vanishes and answers never change, in any run.
THEOREM AnswersStandHolds == Spec => AnswersStand
<1>1. IInv /\ [Next]_vars =>
        [\A t \in Transports, id \in Ids :
           /\ active[t][id] # NoEnvelope /\ active'[t][id] # active[t][id] =>
                \/ completed'[t][id] # NoResult /\ completed'[t][id].env = active[t][id]
                \/ workerUp /\ ~workerUp' /\ active'[t][id] = NoEnvelope
           /\ completed[t][id] # NoResult =>
                completed'[t][id] \in {completed[t][id], NoResult}]_vars
  BY EveryEntryStep, Zenon DEF EntryStep
<1> QED BY <1>1, Invariance, PTL DEF Spec, AnswersStand

-----------------------------------------------------------------------------
(* The scheduler implements RequestDelivery.                                *)

Names == Transports \X Ids

\* The refinement mapping: the abstract status of every request name.
Status == [r \in Names |-> StatusOf(r[1], r[2])]

\* The names answered by a batch.
NamesOf(batch) == {r \in Names : r[2] \in IdsOf(batch[r[1]])}

LEMMA StatusEach ==
  ASSUME NEW r \in Names
  PROVE  /\ r[1] \in Transports /\ r[2] \in Ids
         /\ Status[r] = StatusOf(r[1], r[2]) /\ Status'[r] = StatusOf(r[1], r[2])'
<1>1. Status' = [x \in Names |-> StatusOf(x[1], x[2])']
  BY DEF Status, Names
<1> QED BY <1>1 DEF Status, Names

\* Answering a batch updates the status of its names, and of those it evicts.
LEMMA FinishUpdates ==
  ASSUME CacheInv, NEW batch, NEW state, NEW dispatched \in BOOLEAN,
         Finishable(batch, state, dispatched), Finish(batch, state, dispatched)
  PROVE  /\ \A r \in NamesOf(batch) : Status[r] \in {"unknown", "accepted"}
         /\ Abstract!Update([x \in NamesOf(batch) |->
                               IF dispatched THEN "executed" ELSE "refused"])
<1> DEFINE S == NamesOf(batch)
           word == IF dispatched THEN "executed" ELSE "refused"
           forgotten == {r \in Names : /\ completed'[r[1]][r[2]] = NoResult
                                       /\ r \in S \/ completed[r[1]][r[2]] # NoResult}
<1>1. S \subseteq Names
  BY DEF NamesOf
<1>2. ASSUME NEW r \in Names
      PROVE  /\ r[1] \in Transports /\ r[2] \in Ids
             /\ Status[r] = StatusOf(r[1], r[2]) /\ Status'[r] = StatusOf(r[1], r[2])'
             /\ completed[r[1]][r[2]] # NoResult => active[r[1]][r[2]] = NoEnvelope
             /\ r \in S =>
                  /\ completed[r[1]][r[2]] = NoResult /\ active'[r[1]][r[2]] = NoEnvelope
                  /\ completed'[r[1]][r[2]] # NoResult =>
                       ran'[r[1]][r[2]] = IF dispatched THEN 1 ELSE 0
             /\ r \notin S =>
                  /\ completed'[r[1]][r[2]] \in {completed[r[1]][r[2]], NoResult}
                  /\ active'[r[1]][r[2]] = active[r[1]][r[2]]
                  /\ completed'[r[1]][r[2]] # NoResult => ran'[r[1]][r[2]] = ran[r[1]][r[2]]
  <2>1. r[1] \in Transports /\ r[2] \in Ids
        /\ Status[r] = StatusOf(r[1], r[2]) /\ Status'[r] = StatusOf(r[1], r[2])'
    BY StatusEach
  <2> DEFINE t == r[1]
             id == r[2]
  <2>2. EntriesAfter(t, IdsOf(batch[t]), ToSet(order'[t]), Remembering(t, batch[t], state),
                     state, dispatched)
    BY <2>1, FinishEntries
  <2>3. r \in S <=> id \in IdsOf(batch[t])
    BY DEF NamesOf
  <2>4. completed[t][id] # NoResult => active[t][id] = NoEnvelope
    BY <2>1 DEF CacheInv, ActiveUnanswered
  <2>5. r \in S =>
          /\ completed[t][id] = NoResult /\ active'[t][id] = NoEnvelope
          /\ completed'[t][id] # NoResult => ran'[t][id] = IF dispatched THEN 1 ELSE 0
    BY <2>2, <2>3 DEF EntriesAfter
  <2>6. r \notin S =>
          /\ completed'[t][id] \in {completed[t][id], NoResult}
          /\ active'[t][id] = active[t][id]
          /\ completed'[t][id] # NoResult => ran'[t][id] = ran[t][id]
    BY <2>1, <2>2, <2>3 DEF EntriesAfter
  <2> QED BY <2>1, <2>4, <2>5, <2>6
<1> HIDE DEF S
<1>3. \A r \in S : Status[r] \in {"unknown", "accepted"}
  BY <1>1, <1>2 DEF StatusOf
<1>4. forgotten \subseteq Abstract!Answered \cup S
  <2>1. ASSUME NEW r \in Names, completed[r[1]][r[2]] # NoResult
        PROVE  r \in Abstract!Answered
    <3>1. StatusOf(r[1], r[2]) \in {"refused", "executed"}
      BY <1>2, <2>1 DEF StatusOf
    <3> QED BY <1>2, <3>1 DEF Abstract!Answered, Names
  <2> QED BY <2>1
<1>5. ASSUME NEW r \in Names
      PROVE  Status'[r] = IF r \in forgotten THEN "unknown" ELSE IF r \in S THEN word ELSE Status[r]
  <2>1. CASE r \in forgotten
    BY <1>2, <2>1 DEF StatusOf
  <2>2. CASE r \notin forgotten /\ r \in S
    <3>1. /\ completed'[r[1]][r[2]] # NoResult /\ active'[r[1]][r[2]] = NoEnvelope
          /\ ran'[r[1]][r[2]] = IF dispatched THEN 1 ELSE 0
      BY <1>2, <2>2
    <3>2. StatusOf(r[1], r[2])' = word
      BY <3>1 DEF StatusOf
    <3> QED BY <1>2, <2>2, <3>2
  <2>3. CASE r \notin forgotten /\ r \notin S
    <3>1. completed[r[1]][r[2]] # NoResult => completed'[r[1]][r[2]] # NoResult
      BY <2>3
    <3>2. StatusOf(r[1], r[2])' = StatusOf(r[1], r[2])
      BY <1>2, <2>3, <3>1 DEF StatusOf
    <3> QED BY <1>2, <2>3, <3>2
  <2> QED BY <2>1, <2>2, <2>3
<1> HIDE DEF forgotten, word
<1>6. Status' = [r \in Names |->
        IF r \in forgotten THEN "unknown" ELSE IF r \in S THEN word ELSE Status[r]]
  <2>1. Status' = [r \in Names |-> Status'[r]]
    BY DEF Status, Names
  <2> QED BY <1>5, <2>1
<1>7. Abstract!Update([x \in S |-> word])
  <2>1. /\ DOMAIN [x \in S |-> word] = S /\ \A r \in S : [x \in S |-> word][r] = word
    OBVIOUS
  <2> DEFINE changed == [x \in S |-> word]
  <2> HIDE DEF changed
  <2>2. DOMAIN changed = S /\ \A r \in S : changed[r] = word
    BY <2>1 DEF changed
  <2>3. Status' = [r \in Names |->
          IF r \in forgotten THEN "unknown"
          ELSE IF r \in DOMAIN changed THEN changed[r] ELSE Status[r]]
    BY <1>6, <2>2
  <2>4. forgotten \in SUBSET (Abstract!Answered \cup DOMAIN changed)
    BY <1>4, <2>2
  <2>5. Abstract!Update(changed)
    BY <2>3, <2>4, Zenon DEF Abstract!Update, Status, Names
  <2> QED BY <2>5 DEF changed
<1> QED BY <1>3, <1>7 DEF S, word

LEMMA InitStatus == IInv /\ Init => Abstract!Init
<1> SUFFICES ASSUME IInv, Init PROVE Abstract!Init
  OBVIOUS
<1>1. \A t \in Transports, id \in Ids :
        active[t][id] = NoEnvelope /\ completed[t][id] = NoResult
  BY DEF Init
<1>2. \A r \in Names : StatusOf(r[1], r[2]) = "unknown"
  BY <1>1 DEF StatusOf, Names
<1>3. Status = [r \in Names |-> "unknown"]
  BY <1>2 DEF Status
<1> QED BY <1>3, Zenon DEF Abstract!Init, Status, Names

LEMMA StatusStep == IInv /\ [Next]_vars => [Abstract!Next]_Status
<1> SUFFICES ASSUME IInv, [Next]_vars PROVE Abstract!Next \/ Status' = Status
  OBVIOUS
<1>1. CacheInv /\ StepKind
  BY StepInv DEF IInv
<1>2. CASE UNCHANGED <<active, completed, ran>>
  BY <1>2 DEF Status, StatusOf
<1>3. ASSUME NEW e \in Envelopes, Admits(e) PROVE Abstract!Next
  <2> DEFINE name == <<e.transport, e.id>>
  <2>1. /\ name \in Names /\ name[1] = e.transport /\ name[2] = e.id
        /\ e.transport \in Transports /\ e.id \in Ids /\ e # NoEnvelope
    BY EnvelopeFields DEF Names
  <2>2. /\ active[e.transport][e.id] = NoEnvelope /\ completed[e.transport][e.id] = NoResult
        /\ active' = [active EXCEPT ![e.transport][e.id] = e]
        /\ completed' = completed /\ ran' = ran
        /\ active \in [Transports -> [Ids -> Envelopes \cup {NoEnvelope}]]
    BY <1>1, <1>3 DEF Admits, New, Enqueue, CacheInv, CacheTypeOK
  <2>3. active'[e.transport][e.id] = e
    BY <2>1, <2>2
  <2>4. Status[name] = "unknown" /\ StatusOf(name[1], name[2])' = "accepted"
    <3>1. Status[name] = StatusOf(name[1], name[2])
      BY <2>1, StatusEach
    <3> QED BY <2>1, <2>2, <2>3, <3>1 DEF StatusOf
  <2>5. ASSUME NEW r \in Names, r # name PROVE StatusOf(r[1], r[2])' = Status[r]
    <3>1. r[1] \in Transports /\ r[2] \in Ids /\ Status[r] = StatusOf(r[1], r[2])
          /\ (r[1] # e.transport \/ r[2] # e.id)
      BY <2>5, StatusEach DEF Names
    <3>2. active'[r[1]][r[2]] = active[r[1]][r[2]]
      BY <2>1, <2>2, <3>1
    <3> QED BY <2>2, <3>1, <3>2 DEF StatusOf
  <2> HIDE DEF name
  <2>6. Status' = [Status EXCEPT ![name] = "accepted"]
    <3>1. Status' = [r \in Names |-> StatusOf(r[1], r[2])'] /\ Status = [r \in Names |-> Status[r]]
      BY DEF Status, Names
    <3>2. \A r \in Names : StatusOf(r[1], r[2])' = IF r = name THEN "accepted" ELSE Status[r]
      BY <2>4, <2>5
    <3> QED BY <2>1, <3>1, <3>2
  <2>7. Abstract!Accept(name)
    BY <2>4, <2>6, Zenon DEF Abstract!Accept, Status, Names
  <2> QED BY <2>1, <2>7, Zenon DEF Abstract!Next, Names
<1>4. ASSUME NEW e \in Envelopes, NEW state \in TerminalStates, NEW dispatched \in BOOLEAN,
             Answers(e, state, dispatched)
      PROVE  Abstract!Next
  <2> DEFINE name == <<e.transport, e.id>>
  <2>1. Finishable(One(e), state, dispatched) /\ Finish(One(e), state, dispatched)
    BY <1>4 DEF Answers, FinishOne, One
  <2>2. NamesOf(One(e)) = {name}
    <3>1. /\ e.transport \in Transports /\ e.id \in Ids
          /\ IdsOf(One(e)[e.transport]) = {e.id}
          /\ \A t \in Transports \ {e.transport} : IdsOf(One(e)[t]) = {}
      BY OneBatch
    <3> QED BY <3>1 DEF NamesOf, Names
  <2>3. name \in Names
    BY <2>2 DEF NamesOf
  <2>4. /\ Status[name] \in {"unknown", "accepted"}
        /\ Abstract!Update([x \in {name} |-> IF dispatched THEN "executed" ELSE "refused"])
    BY <1>1, <2>1, <2>2, FinishUpdates
  <2>5. CASE dispatched
    <3>1. active[e.transport][e.id] = e /\ e # NoEnvelope
      BY <1>4, <2>5, EnvelopeFields DEF Answers
    <3>2. Status[name] = "accepted"
      BY <2>3, <3>1, StatusEach DEF StatusOf
    <3>3. Abstract!Update([x \in {name} |-> "executed"])
      BY <2>4, <2>5
    <3> HIDE DEF name
    <3>4. Abstract!Execute(name)
      BY <3>2, <3>3, Zenon DEF Abstract!Execute, Status, Names
    <3> QED BY <2>3, <3>4, Zenon DEF Abstract!Next, Names
  <2>6. CASE ~dispatched
    <3>1. Abstract!Update([x \in {name} |-> "refused"])
      BY <2>4, <2>6
    <3>2. \A r \in {name} : Status[r] \in {"unknown", "accepted"}
      BY <2>4
    <3> HIDE DEF name
    <3>3. Abstract!Refuse({name})
      BY <3>1, <3>2, Zenon DEF Abstract!Refuse, Status, Names
    <3>4. {name} \in SUBSET Names
      BY <2>3
    <3> QED BY <3>3, <3>4, Zenon DEF Abstract!Next, Names
  <2> QED BY <2>5, <2>6
<1>5. CASE /\ Finishable(Everything, "rejected", FALSE) /\ Finish(Everything, "rejected", FALSE)
           /\ workerUp /\ ~workerUp'
  <2> DEFINE S == NamesOf(Everything)
  <2>1. /\ \A r \in S : Status[r] \in {"unknown", "accepted"}
        /\ Abstract!Update([x \in S |-> IF FALSE THEN "executed" ELSE "refused"])
    BY <1>1, <1>5, FinishUpdates
  <2>2. Abstract!Update([x \in S |-> "refused"])
    BY <2>1
  <2>3. S \in SUBSET Names
    BY DEF NamesOf
  <2> HIDE DEF S
  <2>4. Abstract!Refuse(S)
    BY <2>1, <2>2, Zenon DEF Abstract!Refuse, Status, Names
  <2> QED BY <2>3, <2>4, Zenon DEF Abstract!Next, Names
<1> QED BY <1>1, <1>2, <1>3, <1>4, <1>5 DEF StepKind

\* Whatever the transports, lanes, deadlines, deferrals, evictions and pump
\* failures do, the scheduler implements the delivery of each request name:
\* executed only once accepted, one at a time, answered until forgotten.
THEOREM ImplementsRequestDeliveryHolds == Spec => ImplementsRequestDelivery
<1>1. Spec => Abstract!Init
  BY InitInv, InitStatus DEF Spec
<1>2. IInv /\ [Next]_vars =>
        [Abstract!Next]_([r \in Transports \X Ids |-> StatusOf(r[1], r[2])])
  BY StatusStep, Zenon DEF Status, Names
<1> QED BY <1>1, <1>2, Invariance, PTL DEF Spec, ImplementsRequestDelivery, Abstract!Spec

-----------------------------------------------------------------------------
(* The worker and its watchdog: where the links are.                        *)

LEMMA LongestLong ==
  /\ LongestDelay \in Nat \ {0} /\ WatchdogFrames \in 1..LongestDelay
  /\ FirstWatchdog \in 1..LongestDelay /\ PollFrames \subseteq 1..LongestDelay
<1> DEFINE All == PollFrames \cup {WatchdogFrames}
           Largest(n) == n \in All /\ \A m \in All : m <= n
           N == StaleFrames + WatchdogFrames
           X == {n \in 0..N : (\A m \in All : n < m) \/ \E k \in All : k <= n /\ \A m \in All : m <= n => m <= k}
<1>1. N \in Nat /\ All \subseteq 1..N /\ WatchdogFrames \in All
  BY FrameAssumption
<1>2. 0..N \subseteq X
  <2>1. 0 \in X
    BY <1>1
  <2>2. ASSUME NEW n \in 1..N, n - 1 \in X PROVE n \in X
    <3> HIDE DEF All, N
    <3>1. n \in 0..N /\ n - 1 \in 0..N
      BY <1>1
    <3>2. CASE n \in All
      BY <1>1, <3>1, <3>2
    <3>3. CASE n \notin All
      <4>1. \A m \in All : m \in Int /\ m # n
        BY <1>1, <3>3
      <4>2. \A m \in All : (m <= n) <=> (m <= n - 1)
        BY <3>1, <4>1
      <4>3. CASE \A m \in All : n - 1 < m
        BY <3>1, <4>1, <4>3
      <4>4. CASE \E k \in All : k <= n - 1 /\ \A m \in All : m <= n - 1 => m <= k
        BY <3>1, <4>2, <4>4
      <4> QED BY <2>2, <4>3, <4>4
    <3> QED BY <3>2, <3>3
  <2> HIDE DEF X, N
  <2> QED BY <1>1, <2>1, <2>2, Induction
<1>3. N \in X /\ \A m \in All : m \in Int /\ m <= N
  BY <1>1, <1>2
<1>4. \E k \in All : Largest(k)
  <2> HIDE DEF All, N
  <2> QED BY <1>1, <1>3
<1>5. Largest(LongestDelay)
  <2> HIDE DEF All
  <2>1. LongestDelay = CHOOSE n \in All : \A m \in All : m <= n
    BY DEF LongestDelay, All
  <2> QED BY <1>4, <2>1
<1> QED BY <1>1, <1>5, FrameAssumption

\* A chain whose only link has n frames left, 0 when it is queued and -1 when
\* there is none.
Positions == -1..LongestDelay

Row(n) == [f \in 1..LongestDelay |-> IF f = n THEN 1 ELSE 0]

At(c, n) == delayed[c] = Row(n) /\ queued[c] = IF n = 0 THEN 1 ELSE 0

Placed(left) == left \in [Chains -> Positions] /\ \A c \in Chains : At(c, left[c])

\* The poll comes before the heartbeat is stale; or before the next check.
OnTime(left) ==
  /\ workerStarted /\ left[generation] # -1
  /\ age + left[generation] <= StaleFrames

Ahead(left) ==
  /\ workerStarted /\ left[generation] # -1 /\ left[Watchdog] # 0
  /\ left[Watchdog] # -1 => left[generation] < left[Watchdog]

\* The restarts it takes until the socket is polled again, at most.
Need(left) ==
  IF OnTime(left) \/ Ahead(left) THEN 0
  ELSE IF ~Stale THEN DelayedAfter
  ELSE IF consecutiveStale < DelayedAfter THEN DelayedAfter - consecutiveStale ELSE 1

Budget == 1 + DelayedAfter * (disturbances + IF DelayedFallback THEN 0 ELSE 1)

\* The strengthening: where the links of each chain are decides what the
\* watchdog may still do.
LinkInv(left) ==
  /\ \A g \in Generations : g > generation => left[g] = -1
  /\ ~workerStarted => left[generation] = -1
  /\ ~watchdogStarted => left[Watchdog] = -1

PollInv(left) == polls <= 1 /\ (polls = 1 => left[generation] # 0)

PaidInv(left) == generation + Need(left) <= Budget

Ready(left) ==
  /\ left \in [Chains -> Positions]
  /\ Placed(left) /\ LinkInv(left) /\ PollInv(left) /\ PaidInv(left)

WorkerInv == WorkerTypeOK /\ \E left \in [Chains -> Positions] : Ready(left)

LEMMA ChainFacts ==
  /\ Watchdog \in Chains /\ Generations \subseteq Chains /\ Watchdog \notin Generations
  /\ \A c \in Chains : c \in Int /\ -1 \in Positions /\ 0 \in Positions
  /\ \A n \in Positions : n \in Int /\ n >= -1 /\ n <= LongestDelay
BY LongestLong, WorkerAssumption DEF Chains, Generations, Watchdog, Positions

LEMMA RowFacts ==
  /\ Row(-1) = NoLinks /\ Row(0) = NoLinks
  /\ \A f \in 1..LongestDelay : /\ [NoLinks EXCEPT ![f] = 1] = Row(f)
                                /\ [NoLinks EXCEPT ![f] = @ + 1] = Row(f)
BY LongestLong DEF Row, NoLinks

LEMMA CountOne ==
  ASSUME NEW c \in Chains, NEW n \in Positions, At(c, n)
  PROVE  LinkCount(c) = IF n = -1 THEN 0 ELSE 1
<1>1. LongestDelay \in Nat /\ n \in Int /\ -1 <= n /\ n <= LongestDelay
  BY LongestLong DEF Positions
<1>2. CASE n \in {-1, 0}
  <2>1. Links(c) = {}
    BY <1>1, <1>2 DEF Links, At, Row
  <2> QED BY <1>2, <2>1, FS_EmptySet DEF LinkCount, At
<1>3. CASE n \in 1..LongestDelay
  <2>1. Links(c) = {<<n, 1>>}
    <3>1. \A f \in 1..LongestDelay, k \in 1..2 : delayed[c][f] >= k <=> f = n /\ k = 1
      BY <1>1, <1>3 DEF At, Row
    <3>2. 1 \in 1..2
      OBVIOUS
    <3> QED BY <1>3, <3>1, <3>2 DEF Links
  <2>2. Cardinality(Links(c)) = 1
    BY <2>1, FS_Singleton
  <2> QED BY <1>3, <2>2 DEF LinkCount, At
<1> QED BY <1>1, <1>2, <1>3

LEMMA InvariantParts ==
  ASSUME WorkerInv
  PROVE  OneLink /\ OnePollPerFrame /\ RestartsPaid
<1>1. PICK left \in [Chains -> Positions] :
        Placed(left) /\ LinkInv(left) /\ PollInv(left) /\ PaidInv(left)
  BY DEF WorkerInv, Ready
<1>2. \A c \in Chains : LinkCount(c) = IF left[c] = -1 THEN 0 ELSE 1
  BY <1>1, CountOne DEF Placed
<1>3. generation \in Chains /\ Watchdog \in Chains
  BY ChainFacts DEF WorkerInv, WorkerTypeOK
<1>4. OneLink
  BY <1>1, <1>2, <1>3 DEF OneLink, LinkInv
<1>5. RestartsPaid
  <2>1. Need(left) \in Nat
    BY WorkerAssumption DEF Need, WorkerInv, WorkerTypeOK
  <2>2. generation \in Int /\ Budget \in Int
    BY WorkerAssumption DEF WorkerInv, WorkerTypeOK, Generations, Budget
  <2>3. generation <= Budget
    <3> HIDE DEF Need, Budget
    <3> QED BY <1>1, <2>1, <2>2 DEF PaidInv
  <2> QED BY <2>3 DEF RestartsPaid, Budget
<1> QED BY <1>1, <1>4, <1>5 DEF OnePollPerFrame, PollInv

LEMMA WorkerInitInv == WorkerInit => WorkerInv
<1> SUFFICES ASSUME WorkerInit PROVE WorkerInv
  OBVIOUS
<1> DEFINE watchdogLeft == IF watchdogStarted THEN FirstWatchdog ELSE -1
<1>1. PICK refused \in BOOLEAN, workerRefused \in BOOLEAN, first \in PollFrames :
        /\ workerRefused => DelayedFallback
        /\ workerStarted = (DelayedFallback /\ ~workerRefused)
        /\ watchdogStarted = ~refused
        /\ disturbances = Refusals(refused, workerRefused)
        /\ disturbances <= MaxDisturbances
        /\ delayed = [c \in Chains |->
             IF c = Watchdog /\ ~refused THEN [NoLinks EXCEPT ![FirstWatchdog] = 1]
             ELSE IF c = 1 /\ workerStarted THEN [NoLinks EXCEPT ![first] = 1]
             ELSE NoLinks]
  BY DEF WorkerInit
<1> DEFINE left == [c \in Chains |->
             IF c = Watchdog THEN watchdogLeft
             ELSE IF c = 1 /\ workerStarted THEN first ELSE -1]
<1>2. /\ first \in 1..LongestDelay /\ FirstWatchdog \in 1..LongestDelay
      /\ first \in Nat /\ 1 <= first /\ first <= StaleFrames
      /\ LongestDelay \in Nat \ {0} /\ 1 \in Generations /\ 1 # Watchdog
  BY LongestLong, FrameAssumption, WorkerAssumption DEF Generations, Watchdog
<1>3. left \in [Chains -> Positions]
  BY <1>2 DEF Positions
<1>4. Placed(left)
  <2> SUFFICES ASSUME NEW c \in Chains PROVE At(c, left[c])
    BY <1>3 DEF Placed
  <2>1. queued[c] = 0
    BY DEF WorkerInit
  <2>2. left[c] # 0
    BY <1>2
  <2>3. delayed[c] = Row(left[c])
    BY <1>1, <1>2, RowFacts
  <2> QED BY <2>1, <2>2, <2>3 DEF At
<1>5. LinkInv(left) /\ PollInv(left)
  BY <1>2, ChainFacts DEF WorkerInit, LinkInv, PollInv, Generations
<1>6. PaidInv(left)
  <2>1. CASE workerStarted
    <3>1. OnTime(left)
      BY <1>2, <2>1, ChainFacts DEF OnTime, WorkerInit
    <3>2. Need(left) = 0
      BY <3>1 DEF Need
    <3>3. Budget \in Int /\ Budget >= 1
      <4>1. disturbances \in Nat
        BY <1>1 DEF Refusals
      <4>2. disturbances + (IF DelayedFallback THEN 0 ELSE 1) \in Nat
        BY <4>1
      <4> QED BY <4>2, WorkerAssumption DEF Budget
    <3> QED BY <3>2, <3>3 DEF PaidInv, WorkerInit
  <2>2. CASE ~workerStarted
    <3>1. ~OnTime(left) /\ ~Ahead(left) /\ Stale
      BY <2>2 DEF OnTime, Ahead, Stale
    <3>2. Need(left) = DelayedAfter
      BY <3>1, WorkerAssumption DEF Need, WorkerInit
    <3>3. disturbances \in Nat /\ disturbances + (IF DelayedFallback THEN 0 ELSE 1) \in Nat \ {0}
      <4>1. CASE DelayedFallback
        <5>1. workerRefused
          BY <1>1, <2>2, <4>1
        <5>2. disturbances \in Nat \ {0}
          BY <1>1, <5>1 DEF Refusals
        <5> QED BY <4>1, <5>2
      <4>2. CASE ~DelayedFallback
        <5>1. disturbances \in Nat
          BY <1>1 DEF Refusals
        <5> QED BY <4>2, <5>1
      <4> QED BY <4>1, <4>2
    <3>4. Budget >= 1 + DelayedAfter
      <4> DEFINE d == disturbances + (IF DelayedFallback THEN 0 ELSE 1)
      <4>1. d \in Nat \ {0} /\ DelayedAfter \in Nat
        BY <3>3, WorkerAssumption
      <4>2. Budget = 1 + DelayedAfter * d
        BY DEF Budget
      <4> HIDE DEF d
      <4>3. DelayedAfter * d >= DelayedAfter
        BY <4>1
      <4>4. DelayedAfter * d \in Int
        BY <4>1
      <4> QED BY <4>1, <4>2, <4>3, <4>4
    <3> QED BY <3>2, <3>4 DEF PaidInv, WorkerInit
  <2> QED BY <2>1, <2>2
<1>7. WorkerTypeOK
  <2>1. delayed \in [Chains -> [1..LongestDelay -> Nat]]
    <3>1. NoLinks \in [1..LongestDelay -> Nat]
      BY DEF NoLinks
    <3>2. \A f \in 1..LongestDelay : [NoLinks EXCEPT ![f] = 1] \in [1..LongestDelay -> Nat]
      BY <3>1
    <3> HIDE DEF left
    <3> QED BY <1>1, <1>2, <3>1, <3>2
  <2>2. disturbances \in 0..MaxDisturbances
    BY <1>1, WorkerAssumption DEF Refusals
  <2>3. workerStarted \in BOOLEAN /\ watchdogStarted \in BOOLEAN /\ tunnelStarted \in BOOLEAN
    BY <1>1, WorkerAssumption DEF WorkerInit
  <2>4. queued \in [Chains -> Nat] /\ workerMode \in Modes /\ generation \in Generations
    BY <1>2 DEF WorkerInit, Modes
  <2>5. consecutiveStale \in 0..DelayedAfter /\ age \in 0..(StaleFrames + 1) /\ polls \in Nat
    BY FrameAssumption, WorkerAssumption DEF WorkerInit
  <2> HIDE DEF left
  <2> QED BY <2>1, <2>2, <2>3, <2>4, <2>5 DEF WorkerTypeOK
<1> QED BY <1>3, <1>4, <1>5, <1>6, <1>7 DEF WorkerInv, Ready

LEMMA NeedRange ==
  ASSUME WorkerTypeOK, NEW left
  PROVE  /\ Need(left) \in 0..DelayedAfter
         /\ ~OnTime(left) /\ ~Ahead(left) => Need(left) >= 1
<1>1. DelayedAfter \in Nat \ {0} /\ consecutiveStale \in 0..DelayedAfter
  BY WorkerAssumption DEF WorkerTypeOK
<1>2. CASE OnTime(left) \/ Ahead(left)
  BY <1>1, <1>2 DEF Need
<1>3. CASE ~(OnTime(left) \/ Ahead(left))
  <2>1. Need(left) = IF ~Stale THEN DelayedAfter
                     ELSE IF consecutiveStale < DelayedAfter THEN DelayedAfter - consecutiveStale ELSE 1
    BY <1>3, Zenon DEF Need
  <2> QED BY <1>1, <2>1
<1> QED BY <1>2, <1>3

\* Every disturbance pays for DelayedAfter restarts.
LEMMA BudgetGrows ==
  ASSUME disturbances \in Nat, NEW k \in Nat, disturbances' = disturbances + k
  PROVE  /\ Budget \in Int /\ Budget' \in Int
         /\ k = 0 => Budget' = Budget
         /\ k # 0 => Budget' >= Budget + DelayedAfter
<1> DEFINE d == disturbances + (IF DelayedFallback THEN 0 ELSE 1)
           a == DelayedAfter
<1>1. d \in Nat /\ a \in Nat
  BY WorkerAssumption
<1>2. Budget = 1 + a * d
  BY DEF Budget
<1>3. Budget' = 1 + a * (d + k)
  <2>1. disturbances' + (IF DelayedFallback THEN 0 ELSE 1) = d + k
    OBVIOUS
  <2>2. Budget' = 1 + a * (disturbances' + (IF DelayedFallback THEN 0 ELSE 1))
    BY DEF Budget
  <2> QED BY <2>1, <2>2
<1> HIDE DEF d, a
<1>4. a * (d + k) = a * d + a * k /\ a * d \in Nat /\ a * k \in Nat
  BY <1>1
<1>5. k = 0 => a * k = 0
  BY <1>1
<1>6. k # 0 => a * k >= a
  BY <1>1
<1> QED BY <1>1, <1>2, <1>3, <1>4, <1>5, <1>6 DEF a

LEMMA PassMoves ==
  ASSUME WorkerTypeOK, NEW left \in [Chains -> Positions], Placed(left), NEW e, Pass(e)
  PROVE  /\ \A c \in Chains : left[c] # 0
         /\ Placed([c \in Chains |-> IF left[c] > 0 THEN left[c] - 1 ELSE -1])'
<1> DEFINE next == [c \in Chains |-> IF left[c] > 0 THEN left[c] - 1 ELSE -1]
<1>1. LongestDelay \in Nat \ {0} /\ Positions = -1..LongestDelay
  BY LongestLong DEF Positions
<1>2. \A c \in Chains : left[c] # 0
  BY DEF Placed, At, Pass
<1>3. next \in [Chains -> Positions]
  BY <1>1
<1>4. ASSUME NEW c \in Chains PROVE At(c, next[c])'
  <2>1. left[c] \in -1..LongestDelay /\ left[c] # 0 /\ delayed[c] = Row(left[c])
    BY <1>1, <1>2 DEF Placed, At
  <2>2. /\ delayed'[c] = [f \in 1..LongestDelay |-> IF f < LongestDelay THEN delayed[c][f + 1] ELSE 0]
        /\ queued'[c] = delayed[c][1]
    BY DEF Pass
  <2>3. next[c] = IF left[c] > 0 THEN left[c] - 1 ELSE -1
    OBVIOUS
  <2> HIDE DEF next
  <2>4. \A f \in 1..LongestDelay : delayed[c][f] = IF f = left[c] THEN 1 ELSE 0
    BY <2>1 DEF Row
  <2>5. delayed'[c] = Row(next[c])
    <3>1. \A f \in 1..LongestDelay :
            (IF f < LongestDelay THEN delayed[c][f + 1] ELSE 0) = IF f = next[c] THEN 1 ELSE 0
      BY <1>1, <2>1, <2>3, <2>4
    <3> QED BY <2>2, <3>1 DEF Row
  <2>6. queued'[c] = IF next[c] = 0 THEN 1 ELSE 0
    BY <1>1, <2>1, <2>2, <2>3, <2>4
  <2> QED BY <2>5, <2>6 DEF At
<1> QED BY <1>2, <1>3, <1>4 DEF Placed

\* The link of chain c leaves the queue, and may register a successor.
LEMMA LinkRuns ==
  ASSUME WorkerTypeOK, NEW left \in [Chains -> Positions], Placed(left),
         NEW c \in Chains, queued[c] > 0, queued' = [queued EXCEPT ![c] = @ - 1]
  PROVE  /\ left[c] = 0
         /\ delayed' = delayed => Placed([left EXCEPT ![c] = -1])'
         /\ \A f \in 1..LongestDelay :
              delayed' = [delayed EXCEPT ![c][f] = @ + 1] => Placed([left EXCEPT ![c] = f])'
<1>1. left[c] = 0 /\ queued[c] = 1 /\ delayed[c] = NoLinks
  BY RowFacts DEF Placed, At
<1>2. \A d \in Chains : /\ queued'[d] = IF d = c THEN 0 ELSE queued[d]
                        /\ delayed[d] = Row(left[d]) /\ queued[d] = IF left[d] = 0 THEN 1 ELSE 0
  BY <1>1 DEF WorkerTypeOK, Placed, At
<1>3. /\ delayed \in [Chains -> [1..LongestDelay -> Nat]] /\ LongestDelay \in Nat \ {0}
      /\ Positions = -1..LongestDelay
  BY LongestLong DEF WorkerTypeOK, Positions
<1>4. ASSUME delayed' = delayed PROVE Placed([left EXCEPT ![c] = -1])'
  BY <1>1, <1>2, <1>3, <1>4, RowFacts DEF Placed, At
<1>5. ASSUME NEW f \in 1..LongestDelay, delayed' = [delayed EXCEPT ![c][f] = @ + 1]
      PROVE  Placed([left EXCEPT ![c] = f])'
  <2>1. \A d \in Chains : delayed'[d] = IF d = c THEN [delayed[c] EXCEPT ![f] = @ + 1] ELSE delayed[d]
    BY <1>3, <1>5
  <2>2. delayed'[c] = Row(f)
    BY <1>1, <2>1, RowFacts
  <2>3. f \in Positions /\ f # 0
    BY <1>3
  <2> QED BY <1>2, <2>1, <2>2, <2>3 DEF Placed, At
<1> QED BY <1>1, <1>4, <1>5

LEMMA WorkerTypeStep == WorkerTypeOK /\ [WorkerNext]_frameVars => WorkerTypeOK'
<1> SUFFICES ASSUME WorkerTypeOK, [WorkerNext]_frameVars PROVE WorkerTypeOK'
  OBVIOUS
<1>1. /\ LongestDelay \in Nat \ {0} /\ PollFrames \subseteq 1..LongestDelay
      /\ WatchdogFrames \in 1..LongestDelay
      /\ StaleFrames \in Nat /\ DelayedAfter \in Nat \ {0} /\ MaxDisturbances \in Nat
      /\ Generations \subseteq Chains /\ Watchdog \in Chains
  BY LongestLong, ChainFacts, FrameAssumption, WorkerAssumption
<1>2. /\ delayed \in [Chains -> [1..LongestDelay -> Nat]] /\ queued \in [Chains -> Nat]
      /\ generation \in Nat /\ generation \in Generations
      /\ age \in Nat /\ polls \in Nat /\ disturbances \in Nat
  BY DEF WorkerTypeOK, Generations
<1>3. ASSUME NEW n \in Nat, Disturb(n) PROVE disturbances' \in 0..MaxDisturbances
  BY <1>1, <1>2, <1>3 DEF Disturb
<1>4. ASSUME NEW c \in Chains, queued[c] > 0 PROVE [queued EXCEPT ![c] = @ - 1] \in [Chains -> Nat]
  BY <1>2, <1>4
<1>5. ASSUME NEW e \in Nat, Pass(e)
      PROVE  /\ delayed' \in [Chains -> [1..LongestDelay -> Nat]]
             /\ queued' \in [Chains -> Nat]
             /\ age' \in 0..(StaleFrames + 1) /\ polls' \in Nat
             /\ UNCHANGED <<startVars, watchdogVars>>
  BY <1>1, <1>2, <1>5 DEF Pass
<1>5a. ASSUME NEW c \in Chains, NEW f \in 1..LongestDelay
       PROVE  [delayed EXCEPT ![c][f] = @ + 1] \in [Chains -> [1..LongestDelay -> Nat]]
  <2> DEFINE row == delayed[c]
  <2>1. row \in [1..LongestDelay -> Nat]
    BY <1>2
  <2>2. [row EXCEPT ![f] = @ + 1] \in [1..LongestDelay -> Nat]
    <3> HIDE DEF row
    <3>1. row[f] \in Nat
      BY <2>1
    <3>2. row[f] + 1 \in Nat
      BY <3>1
    <3> QED BY <2>1, <3>2
  <2>3. [delayed EXCEPT ![c][f] = @ + 1] = [delayed EXCEPT ![c] = [row EXCEPT ![f] = @ + 1]]
    OBVIOUS
  <2> QED BY <1>2, <2>2, <2>3
<1>6. CASE Frame
  BY <1>5, <1>6 DEF Frame, WorkerTypeOK, startVars, watchdogVars
<1>7. CASE Hitch
  <2>1. StaleFrames + 1 \in Nat
    BY <1>1
  <2>2. disturbances' \in 0..MaxDisturbances
    BY <1>3, <1>7 DEF Hitch
  <2>3. Pass(StaleFrames + 1)
    BY <1>7 DEF Hitch
  <2> QED BY <1>5, <2>1, <2>2, <2>3 DEF WorkerTypeOK, startVars, watchdogVars
<1>8. ASSUME NEW c \in Chains, LinkLost(c) PROVE WorkerTypeOK'
  BY <1>3, <1>4, <1>8 DEF LinkLost, WorkerTypeOK, startVars, watchdogVars
<1>9. ASSUME NEW g \in Generations, RunLink(g) PROVE WorkerTypeOK'
  <2>1. CASE DropStaleLink(g)
    BY <1>1, <1>4, <2>1 DEF DropStaleLink, WorkerTypeOK, startVars, watchdogVars
  <2>2. ASSUME Polled(g)
        PROVE  /\ queued' \in [Chains -> Nat] /\ age' \in 0..(StaleFrames + 1) /\ polls' \in Nat
               /\ generation' = generation /\ UNCHANGED watchdogVars
    BY <1>1, <1>2, <1>4, <2>2 DEF Polled
  <2>3. CASE Poll(g)
    <3>1. delayed' \in [Chains -> [1..LongestDelay -> Nat]]
      <4>1. CASE workerStarted
        <5>1. PICK f \in PollFrames : delayed' = [delayed EXCEPT ![g][f] = @ + 1]
          BY <2>3, <4>1 DEF Poll
        <5>2. g \in Chains /\ f \in 1..LongestDelay
          BY <1>1
        <5> QED BY <1>5a, <5>1, <5>2
      <4>2. CASE ~workerStarted
        BY <1>2, <2>3, <4>2 DEF Poll
      <4> QED BY <4>1, <4>2
    <3> QED BY <2>2, <2>3, <3>1 DEF Poll, WorkerTypeOK, watchdogVars
  <2>4. CASE PollUnscheduled(g)
    BY <1>3, <2>2, <2>4 DEF PollUnscheduled, WorkerTypeOK, watchdogVars, Modes
  <2>5. CASE PollFailed(g)
    BY <1>3, <2>2, <2>5 DEF PollFailed, WorkerTypeOK, watchdogVars, Modes
  <2> QED BY <1>9, <2>1, <2>3, <2>4, <2>5 DEF RunLink
<1>10. ASSUME NEW refused \in BOOLEAN, NEW links \in [Chains -> [1..LongestDelay -> Nat]]
       PROVE  WatchdogLink(links, refused) \in [Chains -> [1..LongestDelay -> Nat]]
  BY <1>1 DEF WatchdogLink
<1>11. ASSUME NEW a \in BOOLEAN, NEW b \in BOOLEAN PROVE Refusals(a, b) \in Nat
  BY DEF Refusals
<1>12. ASSUME NEW refused \in BOOLEAN, WatchdogQuiet(refused) PROVE WorkerTypeOK'
  <2>1. delayed' \in [Chains -> [1..LongestDelay -> Nat]] /\ queued' \in [Chains -> Nat]
    BY <1>1, <1>2, <1>4, <1>10, <1>12 DEF WatchdogQuiet, WatchdogRuns
  <2>2. disturbances' \in 0..MaxDisturbances
    BY <1>3, <1>11, <1>12 DEF WatchdogQuiet
  <2> QED BY <1>1, <1>12, <2>1, <2>2 DEF WatchdogQuiet, WatchdogRuns, WorkerTypeOK, startVars
<1>13. ASSUME NEW refused \in BOOLEAN, NEW workerRefused \in BOOLEAN,
              WatchdogRestarts(refused, workerRefused)
       PROVE  WorkerTypeOK'
  <2>1. disturbances' \in 0..MaxDisturbances
    BY <1>3, <1>11, <1>13 DEF WatchdogRestarts
  <2>2. /\ queued' \in [Chains -> Nat] /\ watchdogStarted' \in BOOLEAN
        /\ UNCHANGED <<age, polls>> /\ tunnelStarted' \in BOOLEAN
    BY <1>1, <1>4, <1>13 DEF WatchdogRestarts, WatchdogRuns, WorkerTypeOK
  <2>3. consecutiveStale' \in 0..DelayedAfter
    BY <1>1, <1>13 DEF WatchdogRestarts, WorkerTypeOK
  <2>4. generation < MaxGeneration /\ generation' = generation + 1 /\ generation' \in Generations
    BY <1>2, <1>13, WorkerAssumption DEF WatchdogRestarts, NextGeneration, Generations
  <2>5. workerStarted' \in BOOLEAN /\ workerMode' \in Modes
    BY <1>13 DEF WatchdogRestarts, Modes
  <2>6. delayed' \in [Chains -> [1..LongestDelay -> Nat]]
    <3>1. \/ delayed' = WatchdogLink(delayed, refused)
          \/ \E f \in PollFrames :
               delayed' = WatchdogLink([delayed EXCEPT ![generation'][f] = @ + 1], refused)
      BY <1>13, <2>4 DEF WatchdogRestarts, NextGeneration
    <3>2. \A f \in PollFrames :
            [delayed EXCEPT ![generation'][f] = @ + 1] \in [Chains -> [1..LongestDelay -> Nat]]
      BY <1>1, <1>5a, <2>4
    <3>3. CASE delayed' = WatchdogLink(delayed, refused)
      BY <1>2, <1>10, <3>3
    <3>4. CASE \E f \in PollFrames :
                 delayed' = WatchdogLink([delayed EXCEPT ![generation'][f] = @ + 1], refused)
      <4>1. PICK f \in PollFrames :
              delayed' = WatchdogLink([delayed EXCEPT ![generation'][f] = @ + 1], refused)
        BY <3>4
      <4> DEFINE links == [delayed EXCEPT ![generation'][f] = @ + 1]
      <4>2. links \in [Chains -> [1..LongestDelay -> Nat]]
        BY <3>2
      <4> HIDE DEF links
      <4>3. WatchdogLink(links, refused) \in [Chains -> [1..LongestDelay -> Nat]]
        BY <1>10, <4>2
      <4> QED BY <4>1, <4>3 DEF links
    <3> QED BY <3>1, <3>3, <3>4
  <2> QED BY <2>1, <2>2, <2>3, <2>4, <2>5, <2>6 DEF WorkerTypeOK
<1>14. CASE UNCHANGED frameVars
  BY <1>14 DEF frameVars, linkVars, startVars, watchdogVars, WorkerTypeOK
<1> QED BY <1>6, <1>7, <1>8, <1>9, <1>12, <1>13, <1>14 DEF WorkerNext, RunWatchdog

LEMMA DisturbancePays ==
  ASSUME WorkerTypeOK, WorkerTypeOK', NEW k \in Nat \ {0}, disturbances' = disturbances + k,
         generation' <= Budget, NEW next
  PROVE  PaidInv(next)'
<1>1. DelayedAfter \in Nat \ {0} /\ consecutiveStale' \in 0..DelayedAfter /\ generation' \in Nat
  BY WorkerAssumption DEF WorkerTypeOK, Generations
<1>2. Need(next)' \in 0..DelayedAfter
  <2>1. Need(next)' = IF (OnTime(next) \/ Ahead(next))' THEN 0
                      ELSE IF ~Stale' THEN DelayedAfter
                      ELSE IF consecutiveStale' < DelayedAfter THEN DelayedAfter - consecutiveStale' ELSE 1
    BY Zenon DEF Need
  <2>2. DelayedAfter \in 0..DelayedAfter /\ 0 \in 0..DelayedAfter /\ 1 \in 0..DelayedAfter
    BY <1>1
  <2>3. consecutiveStale' < DelayedAfter => DelayedAfter - consecutiveStale' \in 0..DelayedAfter
    <3> DEFINE a == DelayedAfter  b == consecutiveStale'
    <3>1. a \in Nat /\ b \in 0..a
      BY <1>1
    <3> HIDE DEF a, b
    <3>2. b < a => a - b \in 0..a
      BY <3>1
    <3> QED BY <3>2 DEF a, b
  <2> QED BY <2>1, <2>2, <2>3, Zenon
<1>3. Budget \in Int /\ Budget' \in Int /\ Budget' >= Budget + DelayedAfter
  <2>1. disturbances \in Nat
    BY DEF WorkerTypeOK
  <2> QED BY <2>1, BudgetGrows
<1>4. generation' + Need(next)' <= Budget'
  <2> DEFINE g == generation'  n == Need(next)'  b == Budget  c == Budget'
  <2>1. g \in Nat /\ n \in 0..DelayedAfter /\ b \in Int /\ c \in Int /\ c >= b + DelayedAfter /\ g <= b
    BY <1>1, <1>2, <1>3
  <2> HIDE DEF g, n, b, c
  <2>2. g + n <= c
    BY <1>1, <2>1
  <2> QED BY <2>2 DEF g, n, c
<1> QED BY <1>4, Zenon DEF PaidInv

LEMMA FreeStep ==
  ASSUME WorkerTypeOK, WorkerTypeOK', disturbances' = disturbances,
         NEW left, NEW next, PaidInv(left),
         generation' + Need(next)' <= generation + Need(left)
  PROVE  PaidInv(next)'
<1>1. Budget' = Budget
  BY DEF Budget
<1>2. generation \in Nat /\ generation' \in Nat /\ Budget \in Int /\ Need(left) \in Int
  <2>1. generation \in Nat /\ generation' \in Nat
    BY DEF WorkerTypeOK, Generations
  <2>2. disturbances \in Nat
    BY DEF WorkerTypeOK
  <2>3. Budget \in Int
    BY <2>2, WorkerAssumption DEF Budget
  <2>4. Need(left) \in 0..DelayedAfter
    BY NeedRange
  <2>5. DelayedAfter \in Nat
    BY WorkerAssumption
  <2>6. Need(left) \in Int
    BY <2>4, <2>5
  <2> QED BY <2>1, <2>3, <2>6
<1>3. Need(next)' \in Int
  <2>1. Need(next)' = IF (OnTime(next) \/ Ahead(next))' THEN 0
                      ELSE IF ~Stale' THEN DelayedAfter
                      ELSE IF consecutiveStale' < DelayedAfter THEN DelayedAfter - consecutiveStale' ELSE 1
    BY Zenon DEF Need
  <2>2. DelayedAfter \in Nat /\ consecutiveStale' \in 0..DelayedAfter
    BY WorkerAssumption DEF WorkerTypeOK
  <2> QED BY <2>1, <2>2
<1> DEFINE g == generation  h == generation'  m == Need(left)  n == Need(next)'  b == Budget
<1>4. /\ g \in Int /\ h \in Int /\ m \in Int /\ n \in Int /\ b \in Int
      /\ h + n <= g + m /\ g + m <= b
  BY <1>2, <1>3 DEF PaidInv
<1> HIDE DEF g, h, m, n, b
<1>5. h + n <= b
  BY <1>4
<1>6. generation' + Need(next)' <= Budget'
  BY <1>1, <1>5 DEF h, n, b
<1> QED BY <1>6, Zenon DEF PaidInv

LEMMA WorkerFacts ==
  ASSUME WorkerTypeOK, NEW left, Ready(left)
  PROVE  /\ generation \in Generations /\ generation \in Nat /\ generation \in Chains
         /\ generation # Watchdog /\ disturbances \in Nat /\ age \in Nat /\ StaleFrames \in Nat
         /\ DelayedAfter \in Nat \ {0} /\ Budget \in Int
         /\ Need(left) \in 0..DelayedAfter /\ generation <= Budget
         /\ ~OnTime(left) /\ ~Ahead(left) => generation + 1 <= Budget
<1>1. /\ generation \in Generations /\ generation \in Nat /\ generation \in Chains
      /\ generation # Watchdog
  BY ChainFacts DEF WorkerTypeOK, Generations
<1>2. disturbances \in Nat /\ age \in Nat /\ StaleFrames \in Nat /\ DelayedAfter \in Nat \ {0}
  BY FrameAssumption, WorkerAssumption DEF WorkerTypeOK
<1>3. Budget \in Int
  <2>1. disturbances + (IF DelayedFallback THEN 0 ELSE 1) \in Nat
    BY <1>2
  <2> QED BY <1>2, <2>1 DEF Budget
<1>4. /\ Need(left) \in 0..DelayedAfter
      /\ ~OnTime(left) /\ ~Ahead(left) => Need(left) >= 1
  BY NeedRange
<1> DEFINE g == generation  n == Need(left)  b == Budget
<1>5. g \in Nat /\ n \in 0..DelayedAfter /\ b \in Int /\ g + n <= b
  BY <1>1, <1>3, <1>4 DEF Ready, PaidInv
<1> HIDE DEF g, n, b
<1>6. g <= b /\ (n >= 1 => g + 1 <= b)
  BY <1>2, <1>5
<1> QED BY <1>1, <1>2, <1>3, <1>4, <1>6 DEF g, n, b

LEMMA PassStep ==
  ASSUME WorkerTypeOK, WorkerTypeOK', NEW left, Ready(left), Frame \/ Hitch
  PROVE  \E next \in [Chains -> Positions] : Ready(next)'
<1> DEFINE next == [c \in Chains |-> IF left[c] > 0 THEN left[c] - 1 ELSE -1]
<1>1. PICK e \in Nat : Pass(e)
  BY FrameAssumption DEF Frame, Hitch
<1>2. (\A c \in Chains : left[c] # 0) /\ Placed(next)'
  BY <1>1, PassMoves DEF Ready
<1>3. /\ generation' = generation /\ workerStarted' = workerStarted /\ polls' = 0
      /\ watchdogStarted' = watchdogStarted /\ consecutiveStale' = consecutiveStale
      /\ age' = IF age + e > StaleFrames THEN StaleFrames + 1 ELSE age + e
  BY <1>1 DEF Pass, startVars, watchdogVars
<1>4. generation \in Chains /\ Watchdog \in Chains /\ Generations \subseteq Chains
  BY ChainFacts, WorkerFacts
<1>5. \A c \in Chains : /\ left[c] \in Int /\ left[c] >= -1 /\ left[c] # 0
                        /\ next[c] = IF left[c] > 0 THEN left[c] - 1 ELSE -1
                        /\ next[c] \in Int
                        /\ left[c] = -1 <=> next[c] = -1
                        /\ left[c] # -1 => next[c] = left[c] - 1
  BY <1>2, ChainFacts DEF Ready
<1>6. next \in [Chains -> Positions]
  BY <1>2 DEF Placed
<1> HIDE DEF next
<1>7. LinkInv(next)' /\ PollInv(next)'
  BY <1>3, <1>4, <1>5 DEF Ready, LinkInv, PollInv
<1>8. PaidInv(next)'
  <2>1. CASE Frame
    <3>1. disturbances' = disturbances
      BY <2>1 DEF Frame
    <3>2. Need(next)' <= Need(left)
      <4>1. age' = IF age + 1 > StaleFrames THEN StaleFrames + 1 ELSE age + 1
        BY <2>1 DEF Frame, Pass
      <4>2. age \in Nat /\ StaleFrames \in Nat
        BY WorkerFacts
      <4>3. OnTime(left) => OnTime(next)'
        BY <1>3, <1>4, <1>5, <4>1, <4>2 DEF OnTime
      <4>4. Ahead(left) => Ahead(next)'
        BY <1>3, <1>4, <1>5 DEF Ahead
      <4>5. Stale => Stale'
        BY <1>3, <4>1, <4>2 DEF Stale
      <4>6. Need(left) \in 0..DelayedAfter /\ DelayedAfter \in Nat \ {0}
        BY WorkerFacts
      <4>7. /\ Need(next)' = IF OnTime(next)' \/ Ahead(next)' THEN 0
                             ELSE IF ~Stale' THEN DelayedAfter
                             ELSE IF consecutiveStale < DelayedAfter THEN DelayedAfter - consecutiveStale ELSE 1
            /\ consecutiveStale \in 0..DelayedAfter
        BY <1>3 DEF Need, WorkerTypeOK
      <4>8. Need(left) = IF OnTime(left) \/ Ahead(left) THEN 0
                         ELSE IF ~Stale THEN DelayedAfter
                         ELSE IF consecutiveStale < DelayedAfter THEN DelayedAfter - consecutiveStale ELSE 1
        BY DEF Need
      <4> QED BY <4>3, <4>4, <4>5, <4>6, <4>7, <4>8
    <3>3. Need(next)' \in Int /\ Need(left) \in Int /\ generation \in Int
      BY WorkerFacts, WorkerAssumption DEF Need, WorkerTypeOK
    <3>4. generation' + Need(next)' <= generation + Need(left)
      <4> DEFINE m == Need(next)'  n == Need(left)
      <4>1. m \in Int /\ n \in Int /\ generation \in Int /\ m <= n
        BY <3>2, <3>3
      <4> HIDE DEF m, n
      <4>2. generation + m <= generation + n
        BY <4>1
      <4> QED BY <1>3, <4>2 DEF m, n
    <3> QED BY <3>1, <3>4, FreeStep DEF Ready
  <2>2. CASE Hitch
    <3>1. disturbances' = disturbances + 1
      BY <2>2 DEF Hitch, Disturb
    <3>2. generation' <= Budget
      BY <1>3, WorkerFacts
    <3> QED BY <3>1, <3>2, DisturbancePays
  <2> QED BY <2>1, <2>2
<1> QED BY <1>2, <1>6, <1>7, <1>8 DEF Ready

LEMMA LostStep ==
  ASSUME WorkerTypeOK, WorkerTypeOK', NEW left, Ready(left), NEW c \in Chains, LinkLost(c)
  PROVE  \E next \in [Chains -> Positions] : Ready(next)'
<1> DEFINE next == [left EXCEPT ![c] = -1]
<1>1. left[c] = 0 /\ Placed(next)'
  BY LinkRuns DEF Ready, LinkLost
<1>2. UNCHANGED <<startVars, watchdogVars, age, polls>> /\ disturbances' = disturbances + 1
  BY DEF LinkLost, Disturb
<1>3. next \in [Chains -> Positions]
  BY <1>1 DEF Placed
<1>4. LinkInv(next)' /\ PollInv(next)'
  BY <1>2, ChainFacts, WorkerFacts DEF Ready, LinkInv, PollInv, startVars, watchdogVars
<1>5. PaidInv(next)'
  BY <1>2, WorkerFacts, DisturbancePays DEF startVars
<1> QED BY <1>1, <1>3, <1>4, <1>5 DEF Ready

LEMMA WorkerStep ==
  ASSUME WorkerTypeOK, WorkerTypeOK', NEW left, Ready(left), NEW g \in Generations, RunLink(g)
  PROVE  \E next \in [Chains -> Positions] : Ready(next)'
<1> DEFINE gone == [left EXCEPT ![g] = -1]
<1>1. /\ g \in Chains /\ g # Watchdog /\ Watchdog \in Chains /\ Generations \subseteq Chains
      /\ left \in [Chains -> Positions] /\ -1 \in Positions
  BY ChainFacts DEF Ready
<1>2. queued[g] > 0 /\ queued' = [queued EXCEPT ![g] = @ - 1]
  BY DEF RunLink, DropStaleLink, Poll, PollUnscheduled, PollFailed, Polled
<1>3. /\ left[g] = 0
      /\ delayed' = delayed => Placed(gone)'
      /\ \A f \in 1..LongestDelay :
           delayed' = [delayed EXCEPT ![g][f] = @ + 1] => Placed([left EXCEPT ![g] = f])'
  BY <1>1, <1>2, LinkRuns DEF Ready
<1>4. gone \in [Chains -> Positions] /\ \A c \in Chains : gone[c] = IF c = g THEN -1 ELSE left[c]
  BY <1>1
<1>5. CASE DropStaleLink(g)
  <2>1. /\ g # generation /\ delayed' = delayed /\ disturbances' = disturbances
        /\ UNCHANGED <<startVars, watchdogVars, age, polls>>
    BY <1>5 DEF DropStaleLink, Current
  <2>2. /\ generation' = generation /\ workerStarted' = workerStarted /\ age' = age
        /\ watchdogStarted' = watchdogStarted /\ consecutiveStale' = consecutiveStale
        /\ polls' = polls
    BY <2>1 DEF startVars, watchdogVars
  <2>3. generation \in Chains
    BY WorkerFacts
  <2>4. gone[generation] = left[generation] /\ gone[Watchdog] = left[Watchdog]
    BY <1>1, <1>4, <2>1, <2>3
  <2> HIDE DEF gone
  <2>5. LinkInv(gone)' /\ PollInv(gone)'
    BY <1>1, <1>4, <2>2, <2>4 DEF Ready, LinkInv, PollInv
  <2>6. /\ OnTime(gone)' <=> OnTime(left)
        /\ Ahead(gone)' <=> Ahead(left)
        /\ Stale' <=> Stale
    BY <2>2, <2>4 DEF OnTime, Ahead, Stale
  <2>7. Need(gone)' = Need(left)
    BY <2>2, <2>6 DEF Need
  <2>8. PaidInv(gone)'
    BY <2>1, <2>2, <2>7, Zenon DEF Ready, PaidInv, Budget
  <2> QED BY <1>3, <1>4, <2>1, <2>5, <2>8 DEF Ready
<1>6. ASSUME Polled(g)
      PROVE  /\ g = generation /\ generation' = generation /\ age' = 0 /\ polls' = 1
             /\ UNCHANGED watchdogVars /\ generation <= Budget /\ workerStarted
    <2>1. /\ g = generation /\ generation' = generation /\ age' = 0 /\ polls' = polls + 1
          /\ UNCHANGED watchdogVars
      BY <1>6 DEF Polled, Current
    <2>2. polls = 0
      <3>1. polls \in Nat /\ polls <= 1 /\ (polls = 1 => left[generation] # 0)
        BY DEF Ready, PollInv, WorkerTypeOK
      <3> QED BY <1>3, <2>1, <3>1
    <2>3. workerStarted
      BY <1>3, <2>1 DEF Ready, LinkInv
    <2> QED BY <2>1, <2>2, <2>3, WorkerFacts
<1>7. CASE Poll(g)
  <2>1. Polled(g) /\ workerStarted' = workerStarted /\ disturbances' = disturbances
    BY <1>7 DEF Poll
  <2>2. PICK f \in PollFrames : delayed' = [delayed EXCEPT ![g][f] = @ + 1]
    BY <1>6, <1>7, <2>1 DEF Poll
  <2> DEFINE next == [left EXCEPT ![g] = f]
  <2>3. f \in 1..LongestDelay /\ f \in Nat /\ f # 0 /\ f <= StaleFrames /\ f \in Positions
    BY LongestLong, FrameAssumption DEF Positions
  <2>4. Placed(next)'
    BY <1>3, <2>2, <2>3
  <2>5. next \in [Chains -> Positions] /\ \A c \in Chains : next[c] = IF c = g THEN f ELSE left[c]
    BY <1>1, <2>3
  <2> HIDE DEF next
  <2>6. OnTime(next)'
    BY <1>1, <1>6, <2>1, <2>3, <2>5 DEF OnTime
  <2>7. LinkInv(next)' /\ PollInv(next)'
    <3>1. generation \in Nat /\ \A h \in Generations : h > generation => h # g
      BY <1>6, <2>1, WorkerFacts
    <3> QED BY <1>1, <1>6, <2>1, <2>3, <2>5, <3>1 DEF Ready, LinkInv, PollInv, watchdogVars
  <2>8. PaidInv(next)'
    <3>1. Need(next)' = 0
      BY <2>6 DEF Need
    <3>2. Budget' = Budget /\ generation \in Nat /\ generation <= Budget
      BY <2>1, WorkerFacts DEF Budget
    <3> QED BY <1>6, <2>1, <3>1, <3>2 DEF PaidInv
  <2> QED BY <2>4, <2>5, <2>7, <2>8 DEF Ready
<1>8. CASE PollUnscheduled(g) \/ PollFailed(g)
  <2>1. /\ Polled(g) /\ workerStarted' = FALSE /\ delayed' = delayed
        /\ disturbances' = disturbances + 1
    BY <1>8 DEF PollUnscheduled, PollFailed, Disturb
  <2> HIDE DEF gone
  <2>2. PaidInv(gone)'
    BY <1>6, <2>1, DisturbancePays
  <2>3. LinkInv(gone)' /\ PollInv(gone)'
    BY <1>1, <1>4, <1>6, <2>1 DEF Ready, LinkInv, PollInv, watchdogVars
  <2> QED BY <1>3, <1>4, <2>1, <2>2, <2>3 DEF Ready
<1> QED BY <1>5, <1>7, <1>8 DEF RunLink

LEMMA QuietCheckStep ==
  ASSUME WorkerTypeOK, WorkerTypeOK', NEW left, Ready(left),
         NEW refused \in BOOLEAN, WatchdogQuiet(refused)
  PROVE  \E next \in [Chains -> Positions] : Ready(next)'
<1> DEFINE next == [left EXCEPT ![Watchdog] = IF refused THEN -1 ELSE WatchdogFrames]
<1>1. /\ Watchdog \in Chains /\ generation \in Chains /\ generation # Watchdog
      /\ Generations \subseteq Chains /\ Watchdog \notin Generations
      /\ left \in [Chains -> Positions]
      /\ -1 \in Positions /\ WatchdogFrames \in Positions /\ WatchdogFrames \in 1..LongestDelay
      /\ WatchdogFrames \in Nat \ {0}
  BY ChainFacts, WorkerFacts, LongestLong DEF Ready, Positions
<1>2. left[Watchdog] = 0 /\ Placed(next)'
  <2>1. /\ queued[Watchdog] > 0 /\ queued' = [queued EXCEPT ![Watchdog] = @ - 1]
        /\ delayed' = WatchdogLink(delayed, refused)
    BY DEF WatchdogQuiet, WatchdogRuns
  <2> QED BY <1>1, <2>1, LinkRuns DEF Ready, WatchdogLink
<1>3. next \in [Chains -> Positions]
  BY <1>2 DEF Placed
<1>4. \A c \in Chains : next[c] = IF c # Watchdog THEN left[c] ELSE IF refused THEN -1 ELSE WatchdogFrames
  BY <1>1
<1>5. /\ generation' = generation /\ workerStarted' = workerStarted /\ age' = age
      /\ watchdogStarted' = ~refused /\ consecutiveStale' = 0
      /\ polls' = polls /\ ~Stale /\ Disturb(Refusals(refused, FALSE))
  BY DEF WatchdogQuiet, WatchdogRuns, startVars
<1> HIDE DEF next
<1>6. LinkInv(next)' /\ PollInv(next)'
  BY <1>1, <1>4, <1>5 DEF Ready, LinkInv, PollInv
<1>7. PaidInv(next)'
  <2>1. CASE refused
    <3>1. disturbances' = disturbances + 1
      BY <1>5, <2>1 DEF Disturb, Refusals
    <3>2. generation' <= Budget
      BY <1>5, WorkerFacts
    <3> QED BY <3>1, <3>2, DisturbancePays
  <2>2. CASE ~refused
    <3>1. disturbances' = disturbances
      BY <1>5, <2>2 DEF Disturb, Refusals, WorkerTypeOK
    <3>2. OnTime(next)' <=> OnTime(left)
      BY <1>1, <1>4, <1>5 DEF OnTime
    <3>3. Stale' <=> Stale
      BY <1>5 DEF Stale
    <3>4. ~Ahead(left)
      BY <1>2 DEF Ahead
    <3>5. CASE OnTime(left)
      <4>1. Need(next)' = 0 /\ Need(left) = 0
        BY <3>2, <3>5 DEF Need
      <4>2. Budget' = Budget
        BY <3>1 DEF Budget
      <4> QED BY <1>5, <4>1, <4>2 DEF Ready, PaidInv
    <3>6. CASE ~OnTime(left)
      <4>1. Need(left) = DelayedAfter
        BY <1>5, <3>4, <3>6 DEF Need
      <4>2. Need(next)' = IF (OnTime(next) \/ Ahead(next))' THEN 0 ELSE DelayedAfter
        BY <1>5, <3>3 DEF Need
      <4>3. Need(next)' <= Need(left) /\ Need(next)' \in Nat /\ Need(left) \in Nat
        BY <4>1, <4>2, WorkerAssumption
      <4>4. generation' + Need(next)' <= generation + Need(left)
        <5> DEFINE m == Need(next)'  n == Need(left)
        <5>1. m \in Nat /\ n \in Nat /\ m <= n /\ generation \in Nat
          BY <4>3, WorkerFacts
        <5> HIDE DEF m, n
        <5>2. generation + m <= generation + n
          BY <5>1
        <5> QED BY <1>5, <5>2 DEF m, n
      <4> QED BY <3>1, <4>4, FreeStep DEF Ready
    <3> QED BY <3>5, <3>6
  <2> QED BY <2>1, <2>2
<1> QED BY <1>2, <1>3, <1>6, <1>7 DEF Ready

LEMMA RestartStep ==
  ASSUME WorkerTypeOK, WorkerTypeOK', NEW left, Ready(left),
         NEW refused \in BOOLEAN, NEW workerRefused \in BOOLEAN,
         WatchdogRestarts(refused, workerRefused)
  PROVE  \E next \in [Chains -> Positions] : Ready(next)'
<1> DEFINE newest == generation + 1
           stale == IF consecutiveStale < DelayedAfter THEN consecutiveStale + 1 ELSE DelayedAfter
           chain == stale >= DelayedAfter \/ DelayedFallback
           checkLeft == IF refused THEN -1 ELSE WatchdogFrames
<1>1. /\ Stale /\ generation < MaxGeneration /\ generation' = newest
      /\ queued[Watchdog] > 0 /\ queued' = [queued EXCEPT ![Watchdog] = @ - 1]
      /\ watchdogStarted' = ~refused /\ age' = age /\ polls' = polls
      /\ workerRefused => chain
      /\ disturbances' = disturbances + Refusals(refused, workerRefused)
      /\ consecutiveStale' = stale /\ workerStarted' = (chain /\ ~workerRefused)
  BY DEF WatchdogRestarts, WatchdogRuns, StartsChain, Disturb, NextGeneration
<1>2. IF workerStarted'
        THEN \E f \in PollFrames :
               delayed' = WatchdogLink([delayed EXCEPT ![newest][f] = @ + 1], refused)
        ELSE delayed' = WatchdogLink(delayed, refused)
  BY <1>1 DEF WatchdogRestarts, StartsChain, NextGeneration
<1>3. /\ Watchdog \in Chains /\ newest \in Generations /\ newest \in Chains /\ newest # Watchdog
      /\ generation \in Chains /\ generation # newest /\ newest > generation /\ newest \in Nat
      /\ Generations \subseteq Chains /\ Watchdog \notin Generations
      /\ left \in [Chains -> Positions]
      /\ -1 \in Positions /\ WatchdogFrames \in Positions /\ WatchdogFrames \in 1..LongestDelay
      /\ WatchdogFrames \in Nat \ {0} /\ PollFrames \subseteq 1..LongestDelay
  <2>1. newest \in Generations /\ generation \in Nat /\ MaxGeneration \in Nat
    BY <1>1, WorkerFacts, WorkerAssumption DEF Generations
  <2> QED BY <1>1, <2>1, ChainFacts, WorkerFacts, LongestLong DEF Ready, Positions
<1> HIDE DEF chain
<1>4. left[Watchdog] = 0 /\ left[newest] = -1 /\ queued[newest] = 0
      /\ delayed[newest] = NoLinks /\ delayed[Watchdog] = NoLinks
  <2>1. left[Watchdog] = 0
    BY <1>1, <1>3 DEF Ready, Placed, At
  <2>2. left[newest] = -1
    BY <1>3 DEF Ready, LinkInv
  <2> HIDE DEF newest
  <2> QED BY <1>3, <2>1, <2>2, RowFacts DEF Ready, Placed, At
<1>5. /\ delayed \in [Chains -> [1..LongestDelay -> Nat]] /\ queued \in [Chains -> Nat]
      /\ checkLeft \in Positions /\ checkLeft # 0
      /\ \A c \in Chains : /\ delayed[c] = Row(left[c])
                           /\ queued[c] = IF left[c] = 0 THEN 1 ELSE 0
  BY <1>3 DEF WorkerTypeOK, Ready, Placed, At
<1>6. \A c \in Chains : queued'[c] = IF c = Watchdog THEN 0 ELSE queued[c]
  BY <1>1, <1>3, <1>4, <1>5
<1>7. ASSUME NEW links \in [Chains -> [1..LongestDelay -> Nat]], links[Watchdog] = NoLinks,
             delayed' = WatchdogLink(links, refused)
      PROVE  \A c \in Chains : delayed'[c] = IF c = Watchdog THEN Row(checkLeft) ELSE links[c]
  <2>1. CASE refused
    BY <1>7, <2>1, RowFacts DEF WatchdogLink
  <2>2. CASE ~refused
    <3>1. delayed' = [links EXCEPT ![Watchdog] = [NoLinks EXCEPT ![WatchdogFrames] = @ + 1]]
      BY <1>3, <1>7, <2>2 DEF WatchdogLink
    <3>2. [NoLinks EXCEPT ![WatchdogFrames] = @ + 1] = Row(checkLeft)
      BY <1>3, <2>2, RowFacts
    <3> QED BY <1>3, <1>7, <3>1, <3>2
  <2> QED BY <2>1, <2>2
<1>8. ASSUME NEW first \in Positions, first # 0, NEW next \in [Chains -> Positions],
             \A c \in Chains : next[c] = IF c = Watchdog THEN checkLeft
                                         ELSE IF c = newest THEN first ELSE left[c],
             \A c \in Chains : delayed'[c] = IF c = Watchdog THEN Row(checkLeft)
                                             ELSE IF c = newest THEN Row(first) ELSE delayed[c]
      PROVE  Placed(next)'
  <2> HIDE DEF checkLeft, newest
  <2>1. ASSUME NEW c \in Chains PROVE At(c, next[c])'
    <3>1. delayed'[c] = Row(next[c])
      BY <1>5, <1>8
    <3>2. queued'[c] = IF next[c] = 0 THEN 1 ELSE 0
      BY <1>3, <1>4, <1>5, <1>6, <1>8
    <3> QED BY <3>1, <3>2 DEF At
  <2> QED BY <2>1 DEF Placed
<1>8a. ASSUME NEW first \in Positions
       PROVE  \E next \in [Chains -> Positions] :
                \A c \in Chains : next[c] = IF c = Watchdog THEN checkLeft
                                            ELSE IF c = newest THEN first ELSE left[c]
  <2> HIDE DEF checkLeft, newest
  <2> DEFINE next == [c \in Chains |-> IF c = Watchdog THEN checkLeft
                                       ELSE IF c = newest THEN first ELSE left[c]]
  <2>1. next \in [Chains -> Positions]
    BY <1>3, <1>5
  <2> QED BY <2>1
<1>9. \E first \in Positions :
         /\ first # 0
         /\ \A c \in Chains : delayed'[c] = IF c = Watchdog THEN Row(checkLeft)
                                             ELSE IF c = newest THEN Row(first) ELSE delayed[c]
         /\ IF workerStarted' THEN first \in PollFrames ELSE first = -1
  <2>1. CASE workerStarted'
    <3>1. PICK f \in PollFrames :
            delayed' = WatchdogLink([delayed EXCEPT ![newest][f] = @ + 1], refused)
      BY <1>2, <2>1
    <3> DEFINE links == [delayed EXCEPT ![newest] = Row(f)]
    <3>2. f \in 1..LongestDelay /\ f \in Positions /\ f # 0 /\ Row(f) \in [1..LongestDelay -> Nat]
      BY <1>3, LongestLong DEF Positions, Row
    <3>3. [delayed EXCEPT ![newest][f] = @ + 1] = links
      <4> HIDE DEF newest
      <4>1. [delayed EXCEPT ![newest][f] = @ + 1]
              = [delayed EXCEPT ![newest] = [delayed[newest] EXCEPT ![f] = @ + 1]]
        OBVIOUS
      <4> QED BY <1>4, <3>2, <4>1, RowFacts
    <3>4. /\ links \in [Chains -> [1..LongestDelay -> Nat]] /\ links[Watchdog] = NoLinks
          /\ \A c \in Chains : links[c] = IF c = newest THEN Row(f) ELSE delayed[c]
      BY <1>3, <1>4, <1>5, <3>2
    <3>5. delayed' = WatchdogLink(links, refused)
      BY <3>1, <3>3
    <3> HIDE DEF links, newest, checkLeft
    <3>6. \A c \in Chains : delayed'[c] = IF c = Watchdog THEN Row(checkLeft)
                                          ELSE IF c = newest THEN Row(f) ELSE delayed[c]
      BY <1>7, <3>4, <3>5
    <3> QED BY <2>1, <3>2, <3>6
  <2>2. CASE ~workerStarted'
    <3>1. delayed' = WatchdogLink(delayed, refused)
      BY <1>2, <2>2
    <3> HIDE DEF newest, checkLeft
    <3>2. \A c \in Chains : delayed'[c] = IF c = Watchdog THEN Row(checkLeft) ELSE delayed[c]
      BY <1>4, <1>5, <1>7, <3>1
    <3>3. delayed[newest] = Row(-1)
      BY <1>4, RowFacts
    <3>4. \A c \in Chains : delayed'[c] = IF c = Watchdog THEN Row(checkLeft)
                                          ELSE IF c = newest THEN Row(-1) ELSE delayed[c]
      BY <3>2, <3>3
    <3>5. -1 # 0
      OBVIOUS
    <3> QED BY <1>3, <2>2, <3>4, <3>5
  <2> QED BY <2>1, <2>2
<1>10. PICK first \in Positions :
         /\ first # 0
         /\ \A c \in Chains : delayed'[c] = IF c = Watchdog THEN Row(checkLeft)
                                             ELSE IF c = newest THEN Row(first) ELSE delayed[c]
         /\ IF workerStarted' THEN first \in PollFrames ELSE first = -1
  BY <1>9
<1>11. PICK next \in [Chains -> Positions] :
         \A c \in Chains : next[c] = IF c = Watchdog THEN checkLeft
                                     ELSE IF c = newest THEN first ELSE left[c]
  BY <1>8a
<1>12. Placed(next)'
  <2> HIDE DEF checkLeft, newest
  <2> QED BY <1>8, <1>10, <1>11
<1>13. LinkInv(next)' /\ PollInv(next)'
  <2>1. \A g \in Generations : g > generation' => next[g] = -1
    <3> SUFFICES ASSUME NEW g \in Generations, g > generation' PROVE next[g] = -1
      OBVIOUS
    <3>1. g > generation /\ g # newest /\ g # Watchdog /\ g \in Chains
      BY <1>1, <1>3, WorkerFacts DEF Generations
    <3> QED BY <1>11, <3>1 DEF Ready, LinkInv
  <2>2. next[newest] = first /\ next[Watchdog] = checkLeft
    BY <1>3, <1>11
  <2>3. LinkInv(next)'
    BY <1>1, <1>10, <2>1, <2>2 DEF LinkInv
  <2>4. PollInv(next)'
    BY <1>1, <1>10, <2>2 DEF Ready, PollInv
  <2> QED BY <2>3, <2>4
<1>14. ~OnTime(left) /\ ~Ahead(left)
  <2>1. /\ left[generation] \in Int /\ left[generation] >= -1
        /\ age \in Nat /\ StaleFrames \in Nat
    BY <1>3, ChainFacts, WorkerFacts
  <2>2. ~OnTime(left)
    BY <1>1, <2>1 DEF OnTime, Stale
  <2> QED BY <1>4, <2>2 DEF Ahead
<1>15. generation' <= Budget
  BY <1>1, <1>14, WorkerFacts
<1>16. PaidInv(next)'
  <2>1. CASE refused \/ workerRefused
    <3>1. Refusals(refused, workerRefused) \in Nat \ {0}
      BY <2>1 DEF Refusals
    <3> QED BY <1>1, <1>15, <3>1, DisturbancePays
  <2>2. CASE ~refused /\ ~workerRefused
    <3>1. disturbances' = disturbances
      BY <1>1, <2>2 DEF Refusals, WorkerTypeOK
    <3>2. CASE chain
      <4>1. first \in PollFrames /\ workerStarted'
        BY <1>1, <1>10, <2>2, <3>2
      <4>2. first \in Nat \ {0} /\ first < WatchdogFrames
        BY <4>1, FrameAssumption
      <4>3. next[generation'] = first /\ next[Watchdog] = WatchdogFrames
        BY <1>1, <1>3, <1>11, <2>2
      <4>4. Ahead(next)'
        BY <1>3, <4>1, <4>2, <4>3 DEF Ahead
      <4>5. Need(next)' = 0
        BY <4>4 DEF Need
      <4>6. Budget' = Budget /\ generation' \in Nat
        BY <1>1, <1>3, <3>1 DEF Budget
      <4> QED BY <1>15, <4>5, <4>6 DEF PaidInv
    <3>3. CASE ~chain
      <4>1. /\ ~workerStarted' /\ consecutiveStale < DelayedAfter
            /\ consecutiveStale' = consecutiveStale + 1 /\ consecutiveStale + 1 < DelayedAfter
            /\ consecutiveStale \in Nat /\ DelayedAfter \in Nat
        BY <1>1, <3>3, WorkerAssumption DEF chain, WorkerTypeOK
      <4>2. ~OnTime(next)' /\ ~Ahead(next)' /\ Stale'
        BY <4>1 DEF OnTime, Ahead, Stale
      <4>3. Need(next)' = DelayedAfter - (consecutiveStale + 1)
        BY <4>1, <4>2 DEF Need
      <4>4. Need(left) = DelayedAfter - consecutiveStale
        BY <1>1, <1>14, <4>1 DEF Need
      <4>5. generation' + Need(next)' <= generation + Need(left)
        <5>1. generation \in Nat
          BY WorkerFacts
        <5> QED BY <1>1, <4>1, <4>3, <4>4, <5>1
      <4> QED BY <3>1, <4>5, FreeStep DEF Ready
    <3> QED BY <3>2, <3>3
  <2> QED BY <2>1, <2>2
<1> QED BY <1>11, <1>12, <1>13, <1>16 DEF Ready

LEMMA WorkerNextInv == WorkerInv /\ [WorkerNext]_frameVars => WorkerInv'
<1> SUFFICES ASSUME WorkerInv, [WorkerNext]_frameVars PROVE WorkerInv'
  OBVIOUS
<1>1. WorkerTypeOK /\ WorkerTypeOK'
  BY WorkerTypeStep DEF WorkerInv
<1>2. PICK left \in [Chains -> Positions] : Ready(left)
  BY DEF WorkerInv
<1>3. CASE Frame \/ Hitch
  BY <1>1, <1>2, <1>3, PassStep DEF WorkerInv
<1>4. ASSUME NEW c \in Chains, LinkLost(c) PROVE WorkerInv'
  BY <1>1, <1>2, <1>4, LostStep DEF WorkerInv
<1>5. ASSUME NEW g \in Generations, RunLink(g) PROVE WorkerInv'
  BY <1>1, <1>2, <1>5, WorkerStep DEF WorkerInv
<1>6. ASSUME NEW refused \in BOOLEAN, WatchdogQuiet(refused) PROVE WorkerInv'
  BY <1>1, <1>2, <1>6, QuietCheckStep DEF WorkerInv
<1>7. ASSUME NEW refused \in BOOLEAN, NEW workerRefused \in BOOLEAN,
             WatchdogRestarts(refused, workerRefused)
      PROVE  WorkerInv'
  BY <1>1, <1>2, <1>7, RestartStep DEF WorkerInv
<1>8. CASE UNCHANGED frameVars
  <2>1. Placed(left)' /\ LinkInv(left)' /\ PollInv(left)'
    BY <1>2, <1>8 DEF frameVars, linkVars, startVars, watchdogVars, Ready, Placed, At, LinkInv, PollInv
  <2>2. /\ Stale' <=> Stale
        /\ OnTime(left)' <=> OnTime(left)
        /\ Ahead(left)' <=> Ahead(left)
    BY <1>8 DEF frameVars, linkVars, startVars, watchdogVars, Stale, OnTime, Ahead
  <2>3. Need(left)' = Need(left)
    BY <1>8, <2>2 DEF frameVars, watchdogVars, Need
  <2>4. PaidInv(left)'
    BY <1>2, <1>8, <2>3 DEF frameVars, startVars, PaidInv, Budget, Ready
  <2> QED BY <1>1, <1>2, <2>1, <2>4 DEF WorkerInv, Ready
<1> QED BY <1>3, <1>4, <1>5, <1>6, <1>7, <1>8 DEF WorkerNext, RunWatchdog

THEOREM WorkerInvariance == WorkerSpec => []WorkerInv
<1> QED BY WorkerInitInv, WorkerNextInv, PTL DEF WorkerSpec

\* A chain never splits: whatever is refused, lost, late or restarted, each
\* generation and the watchdog have one link at most, and none once stopped.
THEOREM OneLinkHolds == WorkerSpec => []OneLink
<1>1. WorkerInv => OneLink
  BY InvariantParts
<1> QED BY <1>1, WorkerInvariance, PTL

\* Superseded generations never share a frame with the current one.
THEOREM OnePollPerFrameHolds == WorkerSpec => []OnePollPerFrame
<1>1. WorkerInv => OnePollPerFrame
  BY InvariantParts
<1> QED BY <1>1, WorkerInvariance, PTL

\* A healthy worker is never restarted, for any intervals with polls more
\* frequent than checks, and a disturbance costs at most DelayedAfter restarts.
THEOREM RestartsPaidHolds == WorkerSpec => []RestartsPaid
<1>1. WorkerInv => RestartsPaid
  BY InvariantParts
<1> QED BY <1>1, WorkerInvariance, PTL
=============================================================================
