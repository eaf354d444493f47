------------------------ MODULE WriteAdmissionProofs ------------------------
(***************************************************************************)
(* Proofs about the write queue: its types, that one write runs at a time, *)
(* that no job is queued twice, that no queued job is left without         *)
(* somebody to start it, and that both kinds of jobs stay within their     *)
(* budgets.  The sums that the budgets compare are recursive functions on  *)
(* intervals; Induction on those comes from well-foundedness.              *)
(***************************************************************************)
EXTENDS WriteAdmission, SequenceTheorems, FiniteSetTheorems, TLAPS

-----------------------------------------------------------------------------
(* Sequences without repetitions.                                           *)

\* What taking one element out of a sequence without repetitions leaves.
LEMMA RemoveOne ==
  ASSUME NEW S, NEW s \in Seq(S), NEW n \in 1..Len(s),
         \A i, k \in 1..Len(s) : s[i] = s[k] => i = k
  PROVE  /\ RemoveAt(s, n) \in Seq(S)
         /\ ToSet(RemoveAt(s, n)) = ToSet(s) \ {s[n]}
         /\ \A i, k \in 1..Len(RemoveAt(s, n)) :
              RemoveAt(s, n)[i] = RemoveAt(s, n)[k] => i = k
<1> DEFINE t == RemoveAt(s, n)
           a == SubSeq(s, 1, n - 1)
           b == SubSeq(s, n + 1, Len(s))
<1>1. t = a \o b
  BY DEF RemoveAt
<1>2. /\ a \in Seq(S) /\ Len(a) = n - 1 /\ b \in Seq(S) /\ Len(b) = Len(s) - n
      /\ \A i \in 1..(n - 1) : a[i] = s[i]
      /\ \A i \in 1..(Len(s) - n) : b[i] = s[n + i]
  OBVIOUS
<1> HIDE DEF t, a, b
<1>3. t \in Seq(S) /\ Len(t) = Len(s) - 1
  <2>1. a \in Seq(S) /\ b \in Seq(S)
    BY <1>2
  <2>2. a \o b \in Seq(S) /\ Len(a \o b) = Len(a) + Len(b)
    BY <2>1, ConcatProperties
  <2>3. Len(a) + Len(b) = Len(s) - 1
    BY <1>2
  <2> QED BY <1>1, <2>2, <2>3
<1>4. \A i \in 1..(Len(s) - 1) : t[i] = IF i < n THEN s[i] ELSE s[i + 1]
  <2>1. \A i \in 1..(n - 1) : t[i] = s[i]
    BY <1>1, <1>2
  <2>2. ASSUME NEW i \in n..(Len(s) - 1) PROVE t[i] = s[i + 1]
    <3>1. /\ i \in 1..(Len(a) + Len(b)) /\ ~(i <= Len(a))
          /\ i - Len(a) \in 1..(Len(s) - n) /\ n + (i - Len(a)) = i + 1
      BY <1>2
    <3>2. (a \o b)[i] = b[i - Len(a)]
      BY <1>2, <3>1, ConcatProperties
    <3> QED BY <1>1, <1>2, <3>1, <3>2
  <2> QED BY <2>1, <2>2
<1>5. ToSet(t) = ToSet(s) \ {s[n]}
  <2>1. ASSUME NEW x \in ToSet(t) PROVE x \in ToSet(s) \ {s[n]}
    <3>1. PICK i \in 1..(Len(s) - 1) : x = t[i]
      BY <2>1, <1>3 DEF ToSet
    <3> QED BY <3>1, <1>4 DEF ToSet
  <2>2. ASSUME NEW x \in ToSet(s) \ {s[n]} PROVE x \in ToSet(t)
    <3>1. PICK i \in 1..Len(s) : x = s[i] /\ i # n
      BY <2>2 DEF ToSet
    <3>2. CASE i < n
      <4>1. i \in 1..(Len(s) - 1) /\ t[i] = x
        BY <3>1, <3>2, <1>4
      <4> QED BY <4>1, <1>3 DEF ToSet
    <3>3. CASE i > n
      <4>1. i - 1 \in 1..(Len(s) - 1) /\ ~(i - 1 < n) /\ (i - 1) + 1 = i
        BY <3>1, <3>3
      <4>2. t[i - 1] = x
        BY <4>1, <3>1, <1>4
      <4> QED BY <4>1, <4>2, <1>3 DEF ToSet
    <3> QED BY <3>1, <3>2, <3>3
  <2> QED BY <2>1, <2>2
<1>6. ASSUME NEW i \in 1..Len(t), NEW k \in 1..Len(t), t[i] = t[k] PROVE i = k
  <2> DEFINE at(x) == IF x < n THEN x ELSE x + 1
  <2>1. /\ at(i) \in 1..Len(s) /\ t[i] = s[at(i)]
        /\ at(k) \in 1..Len(s) /\ t[k] = s[at(k)]
    BY <1>3, <1>4
  <2>2. at(i) = at(k)
    BY <1>6, <2>1
  <2> QED BY <2>2, <1>3
<1> QED BY <1>3, <1>5, <1>6 DEF t

\* What appending a new element to such a sequence leaves.
LEMMA AppendOne ==
  ASSUME NEW S, NEW s \in Seq(S), NEW e \in S, e \notin ToSet(s),
         \A i, k \in 1..Len(s) : s[i] = s[k] => i = k
  PROVE  /\ Append(s, e) \in Seq(S) /\ Append(s, e) # <<>>
         /\ ToSet(Append(s, e)) = ToSet(s) \cup {e}
         /\ \A i, k \in 1..Len(Append(s, e)) :
              Append(s, e)[i] = Append(s, e)[k] => i = k
<1> DEFINE t == Append(s, e)
<1>1. /\ t \in Seq(S) /\ Len(t) = Len(s) + 1 /\ Len(s) \in Nat
      /\ \A i \in 1..Len(s) : t[i] = s[i] /\ t[Len(s) + 1] = e
  OBVIOUS
<1>2. t[Len(s) + 1] = e
  OBVIOUS
<1> HIDE DEF t
<1>3. ToSet(t) = ToSet(s) \cup {e}
  BY <1>1, <1>2 DEF ToSet
<1>4. \A i \in 1..Len(s) : s[i] # e
  BY DEF ToSet
<1>5. \A i, k \in 1..Len(t) : t[i] = t[k] => i = k
  BY <1>1, <1>2, <1>4
<1>6. t # <<>>
  BY <1>1
<1> QED BY <1>1, <1>3, <1>5, <1>6 DEF t

-----------------------------------------------------------------------------
(* Sums over the pending jobs.                                              *)

\* Induction up to N, from the well-foundedness of finite intervals.
LEMMA Induction ==
  ASSUME NEW N \in Nat, NEW X, 0 \in X, \A n \in 1..N : n - 1 \in X => n \in X
  PROVE  0..N \subseteq X
<1> SUFFICES ASSUME NEW m \in 0..N, m \notin X PROVE FALSE
  OBVIOUS
<1> DEFINE S == 1..N
           T == {1..i : i \in {i \in 1..N : i \notin X}}
<1>1. T \subseteq SUBSET S /\ T # {}
  <2>1. ASSUME NEW i \in 1..N PROVE 1..i \subseteq S
    OBVIOUS
  <2>2. 1..m \in T
    OBVIOUS
  <2> QED BY <2>1, <2>2
<1>2. IsWellFoundedOn(StrictSubsetOrdering(S), SUBSET S)
  <2>1. IsFiniteSet(S)
    BY FS_Interval
  <2> QED BY <2>1, FS_StrictSubsetOrderingWellFounded, FS_FiniteSubsetsOfFinite
<1>3. PICK lower \in T : \A other \in T : <<other, lower>> \notin StrictSubsetOrdering(S)
  BY <1>1, <1>2, WFMin
<1>4. PICK i \in 1..N : i \notin X /\ lower = 1..i
  OBVIOUS
<1>5. i - 1 \notin X /\ i - 1 \in 1..N
  <2>1. i - 1 \notin X
    BY <1>4
  <2> QED BY <1>4, <2>1
<1>6. 1..(i-1) \in T /\ 1..(i-1) \subseteq 1..i /\ i \in 1..i /\ i \notin 1..(i-1)
  BY <1>5
<1> QED BY <1>1, <1>3, <1>4, <1>6 DEF StrictSubsetOrdering

\* Two functions with the same steps grow by the same amount.
LEMMA SameGrowth ==
  ASSUME NEW N \in Nat, NEW f \in [0..N -> Int], NEW g \in [0..N -> Int],
         \A n \in 1..N : f[n] - f[n - 1] = g[n] - g[n - 1]
  PROVE  f[N] - f[0] = g[N] - g[0]
<1> DEFINE X == {n \in 0..N : f[n] - f[0] = g[n] - g[0]}
<1>1. 0 \in X
  OBVIOUS
<1>2. ASSUME NEW n \in 1..N, n - 1 \in X PROVE n \in X
  <2>1. n \in 0..N /\ n - 1 \in 0..N
    OBVIOUS
  <2>2. f[n - 1] - f[0] = g[n - 1] - g[0] /\ f[n] - f[n - 1] = g[n] - g[n - 1]
    BY <1>2
  <2>3. f[n] \in Int /\ f[n - 1] \in Int /\ g[n] \in Int /\ g[n - 1] \in Int
        /\ f[0] \in Int /\ g[0] \in Int
    BY <2>1
  <2>4. f[n] - f[0] = g[n] - g[0]
    <3> DEFINE a == f[n]  b == f[n - 1]  c == f[0]  p == g[n]  q == g[n - 1]  r == g[0]
    <3>1. a \in Int /\ b \in Int /\ c \in Int /\ p \in Int /\ q \in Int /\ r \in Int
      BY <2>3
    <3>2. b - c = q - r /\ a - b = p - q
      BY <2>2
    <3> HIDE DEF X, a, b, c, p, q, r
    <3>3. a - c = p - r
      BY <3>1, <3>2
    <3> QED BY <3>3 DEF a, c, p, r
  <2> QED BY <2>1, <2>4
<1>3. 0..N \subseteq X
  <2> HIDE DEF X
  <2> QED BY <1>1, <1>2, Induction
<1> QED BY <1>3

\* f adds up the sizes of the jobs, one after the other.
Sums(f, jobs, size) ==
  /\ f \in [0..Len(jobs) -> Nat]
  /\ f[0] = 0
  /\ \A n \in 1..Len(jobs) : f[n] = f[n - 1] + size[jobs[n]]

\* Total is the last of the partial sums.
LEMMA TotalSums ==
  ASSUME NEW jobs \in Seq(Jobs), NEW size \in [Jobs -> Nat]
  PROVE  \E f : Sums(f, jobs, size) /\ Total(jobs, size) = f[Len(jobs)]
<1> DEFINE N == Len(jobs)
           w(n) == size[jobs[n]]
           Rec(f) == f = [n \in 0..N |-> IF n = 0 THEN 0 ELSE f[n - 1] + w(n)]
           Upto(n, f) == /\ f \in [0..n -> Nat]
                         /\ f[0] = 0
                         /\ \A i \in 1..n : f[i] = f[i - 1] + w(i)
           X == {n \in 0..N : \E f : Upto(n, f)}
<1>1. N \in Nat /\ \A n \in 1..N : w(n) \in Nat
  OBVIOUS
<1>2. 0 \in X
  <2>1. Upto(0, [i \in 0..0 |-> 0])
    OBVIOUS
  <2>2. 0 \in 0..N
    BY <1>1
  <2> HIDE DEF Upto
  <2> QED BY <2>1, <2>2
<1>3. ASSUME NEW n \in 1..N, n - 1 \in X PROVE n \in X
  <2>1. PICK f : Upto(n - 1, f)
    BY <1>3
  <2> DEFINE g == [i \in 0..n |-> IF i = n THEN f[n - 1] + w(n) ELSE f[i]]
  <2>2. w(n) \in Nat /\ f[n - 1] \in Nat
    BY <1>1, <2>1
  <2>3. g \in [0..n -> Nat] /\ g[0] = 0
    <3> HIDE DEF w
    <3> QED BY <1>1, <2>1, <2>2
  <2>4. \A i \in 1..n : g[i] = g[i - 1] + w(i)
    <3> HIDE DEF w
    <3> QED BY <1>1, <2>1, <2>2
  <2>5. Upto(n, g)
    BY <2>3, <2>4
  <2> HIDE DEF Upto, g
  <2> QED BY <1>1, <2>5
<1>4. N \in X
  <2> HIDE DEF X, N
  <2>1. 0..N \subseteq X
    BY <1>1, <1>2, <1>3, Induction
  <2> QED BY <1>1, <2>1
<1>5. PICK f : Upto(N, f)
  BY <1>4
<1>6. Rec(f)
  <2> HIDE DEF w
  <2> QED BY <1>1, <1>5
<1> DEFINE c == CHOOSE f_1 : Rec(f_1)
<1>7. Rec(c)
  BY <1>6, Zenon
<1>8. Total(jobs, size) = c[N]
  BY Zenon DEF Total
<1>9. Upto(N, c)
  <2> HIDE DEF w, c
  <2> DEFINE Y == {n \in 0..N : c[n] \in Nat}
  <2>1. 0 \in Y
    BY <1>1, <1>7
  <2>2. ASSUME NEW n \in 1..N, n - 1 \in Y PROVE n \in Y
    <3>1. c[n] = c[n - 1] + w(n)
      <4> HIDE DEF N
      <4>1. n \in 0..N /\ n # 0
        BY <1>1
      <4> QED BY <1>7, <4>1
    <3>2. c[n - 1] \in Nat /\ w(n) \in Nat /\ n \in 0..N
      BY <1>1, <2>2
    <3> DEFINE x == c[n - 1]  y == w(n)
    <3> HIDE DEF x, y
    <3>3. x + y \in Nat
      BY <3>2 DEF x, y
    <3> QED BY <3>1, <3>2, <3>3 DEF x, y
  <2>3. 0..N \subseteq Y
    <3> HIDE DEF Y, N
    <3> QED BY <1>1, <2>1, <2>2, Induction
  <2>4. c = [n \in 0..N |-> c[n]]
    BY <1>7
  <2>5. \A n \in 0..N : c[n] \in Nat
    BY <2>3
  <2>6. c \in [0..N -> Nat]
    <3> HIDE DEF N
    <3> QED BY <2>4, <2>5
  <2>7. c[0] = 0 /\ \A n \in 1..N : c[n] = c[n - 1] + w(n)
    <3> HIDE DEF N
    <3> QED BY <1>1, <1>7
  <2> QED BY <2>6, <2>7
<1> HIDE DEF c
<1> QED BY <1>8, <1>9 DEF Sums

LEMMA TotalInNat ==
  ASSUME NEW jobs \in Seq(Jobs), NEW size \in [Jobs -> Nat]
  PROVE  Total(jobs, size) \in Nat
BY TotalSums DEF Sums

LEMMA TotalEmpty ==
  ASSUME NEW size \in [Jobs -> Nat]
  PROVE  Total(<<>>, size) = 0
<1>1. <<>> \in Seq(Jobs) /\ Len(<<>>) = 0
  OBVIOUS
<1> QED BY <1>1, TotalSums DEF Sums

\* A job more at the end adds its size.
LEMMA TotalAppend ==
  ASSUME NEW jobs \in Seq(Jobs), NEW j \in Jobs, NEW size \in [Jobs -> Nat]
  PROVE  Total(Append(jobs, j), size) = Total(jobs, size) + size[j]
<1> DEFINE more == Append(jobs, j)
           N == Len(jobs)
<1>1. more \in Seq(Jobs) /\ Len(more) = N + 1 /\ N \in Nat
      /\ more[N + 1] = j /\ \A i \in 1..N : more[i] = jobs[i] /\ jobs[i] \in Jobs
  OBVIOUS
<1> HIDE DEF more
<1>2. PICK f : Sums(f, jobs, size) /\ Total(jobs, size) = f[N]
  BY TotalSums
<1>3. PICK g : Sums(g, more, size) /\ Total(more, size) = g[N + 1]
  BY <1>1, TotalSums
<1> DEFINE h == [i \in 0..N |-> g[i]]
<1>4. f \in [0..N -> Int] /\ h \in [0..N -> Int]
  BY <1>1, <1>2, <1>3 DEF Sums
<1>5. \A n \in 1..N : f[n] - f[n - 1] = h[n] - h[n - 1]
  <2> SUFFICES ASSUME NEW n \in 1..N PROVE f[n] - f[n - 1] = h[n] - h[n - 1]
    OBVIOUS
  <2>1. size[jobs[n]] \in Nat /\ more[n] = jobs[n]
    BY <1>1
  <2>2. f[n - 1] \in Nat /\ g[n - 1] \in Nat
    <3>1. n - 1 \in 0..N /\ n - 1 \in 0..(N + 1)
      BY <1>1
    <3> QED BY <1>1, <1>2, <1>3, <3>1 DEF Sums
  <2>3. f[n] = f[n - 1] + size[jobs[n]]
    BY <1>2 DEF Sums
  <2>4. g[n] = g[n - 1] + size[jobs[n]]
    BY <1>1, <1>3, <2>1 DEF Sums
  <2> QED BY <2>1, <2>2, <2>3, <2>4
<1>6. f[N] - f[0] = h[N] - h[0]
  <2> HIDE DEF h
  <2> QED BY <1>1, <1>4, <1>5, SameGrowth
<1>7. g[N + 1] = g[N] + size[j]
  <2>1. N + 1 \in 1..(N + 1) /\ (N + 1) - 1 = N
    BY <1>1
  <2>2. g[N + 1] = g[(N + 1) - 1] + size[more[N + 1]]
    BY <1>1, <1>3, <2>1 DEF Sums
  <2> QED BY <1>1, <2>1, <2>2
<1>8. f[0] = 0 /\ g[0] = 0 /\ f[N] \in Nat /\ g[N] \in Nat /\ size[j] \in Nat
  BY <1>1, <1>2, <1>3 DEF Sums
<1> QED BY <1>1, <1>2, <1>3, <1>6, <1>7, <1>8 DEF more

\* A job taken out, from wherever it is, takes its size with it.
LEMMA TotalRemove ==
  ASSUME NEW jobs \in Seq(Jobs), NEW at \in 1..Len(jobs), NEW size \in [Jobs -> Nat]
  PROVE  /\ RemoveAt(jobs, at) \in Seq(Jobs)
         /\ Total(jobs, size) = Total(RemoveAt(jobs, at), size) + size[jobs[at]]
<1> DEFINE rest == RemoveAt(jobs, at)
           N == Len(jobs)
           out == size[jobs[at]]
           a == SubSeq(jobs, 1, at - 1)
           b == SubSeq(jobs, at + 1, N)
<1>1. /\ N \in Nat \ {0} /\ out \in Nat /\ at \in 1..N
      /\ \A n \in 1..N : size[jobs[n]] \in Nat
  OBVIOUS
<1>2. /\ rest \in Seq(Jobs) /\ Len(rest) = N - 1
      /\ \A n \in 1..(N - 1) : rest[n] = IF n < at THEN jobs[n] ELSE jobs[n + 1]
  <2>1. rest = a \o b
    BY DEF RemoveAt
  <2>2. /\ a \in Seq(Jobs) /\ Len(a) = at - 1 /\ b \in Seq(Jobs) /\ Len(b) = N - at
        /\ \A n \in 1..(at - 1) : a[n] = jobs[n]
        /\ \A n \in 1..(N - at) : b[n] = jobs[at + n]
    OBVIOUS
  <2> HIDE DEF rest, a, b, N
  <2>3. rest \in Seq(Jobs) /\ Len(rest) = Len(a) + Len(b)
    BY <2>1, <2>2, ConcatProperties
  <2>4. \A n \in 1..(at - 1) : rest[n] = jobs[n]
    BY <1>1, <2>1, <2>2, ConcatProperties
  <2>5. ASSUME NEW n \in at..(N - 1) PROVE rest[n] = jobs[n + 1]
    <3>1. /\ n \in 1..(Len(a) + Len(b)) /\ ~(n <= Len(a))
          /\ n - Len(a) \in 1..(N - at) /\ at + (n - Len(a)) = n + 1
      BY <1>1, <2>2
    <3>2. (a \o b)[n] = b[n - Len(a)]
      BY <2>2, <3>1, ConcatProperties
    <3> QED BY <2>1, <2>2, <3>1, <3>2
  <2>6. Len(rest) = N - 1
    BY <1>1, <2>2, <2>3
  <2> QED BY <1>1, <2>3, <2>4, <2>5, <2>6
<1> HIDE DEF rest, N, out, a, b
<1>3. PICK f : Sums(f, jobs, size) /\ Total(jobs, size) = f[N]
  BY TotalSums DEF N
<1>4. PICK g : Sums(g, rest, size) /\ Total(rest, size) = g[N - 1]
  BY <1>2, TotalSums
<1>5. /\ f \in [0..N -> Nat] /\ f[0] = 0
      /\ \A n \in 1..N : f[n] = f[n - 1] + size[jobs[n]]
  BY <1>3 DEF Sums, N
<1>6. /\ g \in [0..(N - 1) -> Nat] /\ g[0] = 0
      /\ \A n \in 1..(N - 1) : g[n] = g[n - 1] + size[rest[n]]
  BY <1>2, <1>4 DEF Sums
\* The sums of the rest, with the job put back.
<1> DEFINE h == [n \in 0..N |-> IF n < at THEN g[n] ELSE g[n - 1] + out]
<1>7. f \in [0..N -> Int] /\ h \in [0..N -> Int]
  <2>1. \A n \in 0..N : f[n] \in Int
    BY <1>5
  <2>2. ASSUME NEW n \in 0..N PROVE h[n] \in Int
    <3>1. CASE n < at
      <4>1. n \in 0..(N - 1)
        BY <1>1, <3>1
      <4>2. g[n] \in Int
        BY <1>6, <4>1
      <4> QED BY <3>1, <4>2
    <3>2. CASE ~(n < at)
      <4>1. n - 1 \in 0..(N - 1)
        BY <1>1, <3>2
      <4>2. g[n - 1] \in Int /\ out \in Int
        BY <1>1, <1>6, <4>1
      <4>3. g[n - 1] + out \in Int
        BY <4>2
      <4> QED BY <3>2, <4>3
    <3> QED BY <3>1, <3>2
  <2>3. h \in [0..N -> Int]
    BY <2>2
  <2>4. f = [n \in 0..N |-> f[n]]
    BY <1>5
  <2> QED BY <2>1, <2>3, <2>4
<1>8. \A n \in 1..N : f[n] - f[n - 1] = h[n] - h[n - 1]
  <2> SUFFICES ASSUME NEW n \in 1..N PROVE f[n] - f[n - 1] = h[n] - h[n - 1]
    OBVIOUS
  <2>1. f[n] - f[n - 1] = size[jobs[n]]
    <3>1. f[n - 1] \in Nat /\ size[jobs[n]] \in Nat /\ f[n] = f[n - 1] + size[jobs[n]]
      BY <1>1, <1>5
    <3> DEFINE x == f[n - 1]  y == size[jobs[n]]
    <3> HIDE DEF x, y
    <3> QED BY <3>1 DEF x, y
  <2>2. CASE n < at
    <3>1. n \in 1..(N - 1) /\ n - 1 < at /\ rest[n] = jobs[n] /\ n - 1 \in 0..(N - 1)
      BY <1>1, <1>2, <2>2
    <3>2. g[n] = g[n - 1] + size[jobs[n]] /\ g[n - 1] \in Nat /\ size[jobs[n]] \in Nat
      <4>1. g[n] = g[n - 1] + size[rest[n]]
        BY <1>6, <3>1
      <4>2. g[n - 1] \in Nat
        BY <1>6, <3>1
      <4> QED BY <1>1, <3>1, <4>1, <4>2
    <3>3. h[n] = g[n] /\ h[n - 1] = g[n - 1]
      <4>1. n \in 0..N /\ n - 1 \in 0..N
        BY <1>1
      <4> HIDE DEF N
      <4> QED BY <2>2, <3>1, <4>1
    <3> HIDE DEF h
    <3> QED BY <2>1, <3>2, <3>3
  <2>3. CASE n = at
    <3>1. h[n] = g[n - 1] + out /\ h[n - 1] = g[n - 1] /\ g[n - 1] \in Nat
      BY <1>1, <1>6, <2>3
    <3>2. out = size[jobs[n]]
      BY <2>3 DEF out
    <3> HIDE DEF h
    <3> QED BY <1>1, <2>1, <3>1, <3>2
  <2>4. CASE n > at
    <3>1. n - 1 \in 1..(N - 1) /\ (n - 1) - 1 \in 0..(N - 1) /\ (n - 1) + 1 = n /\ ~(n - 1 < at)
      BY <1>1, <2>4
    <3>2. rest[n - 1] = jobs[n]
      BY <1>2, <3>1
    <3>3. g[n - 1] = g[(n - 1) - 1] + size[jobs[n]] /\ g[(n - 1) - 1] \in Nat
          /\ size[jobs[n]] \in Nat
      BY <1>1, <1>6, <3>1, <3>2
    <3>4. h[n] = g[n - 1] + out /\ h[n - 1] = g[(n - 1) - 1] + out
      BY <1>1, <2>4, <3>1
    <3> HIDE DEF h
    <3> QED BY <1>1, <2>1, <3>3, <3>4
  <2> QED BY <1>1, <2>2, <2>3, <2>4
<1>9. f[N] - f[0] = h[N] - h[0]
  <2> HIDE DEF h
  <2> QED BY <1>1, <1>7, <1>8, SameGrowth
<1>10. h[0] = 0 /\ h[N] = g[N - 1] + out /\ f[N] \in Nat /\ g[N - 1] \in Nat
  BY <1>1, <1>5, <1>6
<1>11. Total(jobs, size) = Total(rest, size) + out
  <2> HIDE DEF h
  <2> QED BY <1>1, <1>3, <1>4, <1>5, <1>9, <1>10
<1> QED BY <1>2, <1>11 DEF rest, out

\* A job in front adds its size.
LEMMA TotalCons ==
  ASSUME NEW jobs \in Seq(Jobs), NEW j \in Jobs, NEW size \in [Jobs -> Nat]
  PROVE  Total(<<j>> \o jobs, size) = Total(jobs, size) + size[j]
<1> DEFINE more == <<j>> \o jobs
<1>1. more \in Seq(Jobs) /\ Len(more) = Len(jobs) + 1 /\ Len(jobs) \in Nat /\ more[1] = j
      /\ 1 \in 1..Len(more)
  OBVIOUS
<1>2. RemoveAt(more, 1) = jobs
  <2>1. SubSeq(more, 1, 0) = <<>> /\ SubSeq(more, 2, Len(more)) = jobs
    OBVIOUS
  <2>2. RemoveAt(more, 1) = SubSeq(more, 1, 0) \o SubSeq(more, 2, Len(more))
    BY DEF RemoveAt
  <2>3. <<>> \o jobs = jobs
    OBVIOUS
  <2> QED BY <2>1, <2>2, <2>3
<1> HIDE DEF more
<1>3. Total(more, size) = Total(RemoveAt(more, 1), size) + size[more[1]]
  BY <1>1, TotalRemove
<1> QED BY <1>1, <1>2, <1>3 DEF more

-----------------------------------------------------------------------------
(* The invariant.                                                           *)

\* The microtask takes a job of a queue that is not empty.
LEMMA NextAtInQueue ==
  ASSUME queue \in Seq(Jobs), queue # <<>>
  PROVE  NextAt \in 1..Len(queue)
<1>1. 1 \in 1..Len(queue) /\ ReservedAt \subseteq 1..Len(queue)
  BY DEF ReservedAt
<1>2. CASE ReservedAt = {}
  BY <1>1, <1>2 DEF NextAt
<1>3. CASE ReservedAt # {}
  <2>1. \E i \in ReservedAt : \A k \in ReservedAt : i <= k
    <3> DEFINE N == 1..Len(queue)
               Below == {1..i : i \in ReservedAt}
    <3>1. Below \subseteq SUBSET N /\ Below # {}
      <4>1. ASSUME NEW i \in ReservedAt PROVE 1..i \subseteq N
        <5>1. Len(queue) \in Nat /\ i \in 1..Len(queue)
          BY <1>1
        <5> QED BY <5>1
      <4>2. Below # {}
        BY <1>3
      <4> QED BY <4>1, <4>2
    <3>2. IsWellFoundedOn(StrictSubsetOrdering(N), SUBSET N)
      <4>1. IsFiniteSet(N)
        BY FS_Interval
      <4>2. IsWellFoundedOn(StrictSubsetOrdering(N), FiniteSubsetsOf(N))
        BY FS_StrictSubsetOrderingWellFounded
      <4>3. FiniteSubsetsOf(N) = SUBSET N
        BY <4>1, FS_FiniteSubsetsOfFinite
      <4> QED BY <4>2, <4>3
    <3>3. PICK lower \in Below :
            \A other \in Below : <<other, lower>> \notin StrictSubsetOrdering(N)
      BY <3>1, <3>2, WFMin
    <3>4. PICK i \in ReservedAt : lower = 1..i
      OBVIOUS
    <3>5. ASSUME NEW k \in ReservedAt, k < i PROVE FALSE
      <4>1. 1..k \in Below /\ 1..k \subseteq 1..i /\ i \in 1..i /\ i \notin 1..k
        BY <3>5, <1>1
      <4> QED BY <4>1, <3>1, <3>3, <3>4 DEF StrictSubsetOrdering
    <3> QED BY <1>1, <3>5
  <2> QED BY <1>1, <1>3, <2>1 DEF NextAt
<1> QED BY <1>2, <1>3

-----------------------------------------------------------------------------

IInv == TypeOK /\ OneWriter /\ NoLostWakeup

LEMMA InitIInv == Init => IInv
<1> SUFFICES ASSUME Init PROVE IInv
  OBVIOUS
<1>1. queue \in Seq(Jobs) /\ Len(queue) = 0 /\ ToSet(queue) = {}
  BY DEF Init, ToSet
<1>2. TypeOK
  BY <1>1 DEF Init, TypeOK
<1>3. OneWriter
  BY <1>1 DEF Init, OneWriter
<1>4. NoLostWakeup
  BY DEF Init, NoLostWakeup
<1> QED BY <1>2, <1>3, <1>4 DEF IInv

LEMMA EnqueueIInv == ASSUME IInv, NEW j \in Jobs, Enqueue(j) PROVE IInv'
<1> USE DEF IInv
<1>1. CASE Fits(j)
  <2>1. /\ queue' = Append(queue, j) /\ status' = [status EXCEPT ![j] = "queued"]
        /\ scheduled' = (scheduled \/ Wakes(active, queue')) /\ active' = active /\ late' = late
        /\ status[j] \notin {"queued", "running"}
    BY <1>1 DEF Enqueue
  <2>2. /\ queue' \in Seq(Jobs) /\ queue' # <<>> /\ ToSet(queue') = ToSet(queue) \cup {j}
        /\ \A i, k \in 1..Len(queue') : queue'[i] = queue'[k] => i = k
    <3>1. j \notin ToSet(queue)
      BY <2>1 DEF OneWriter
    <3> QED BY <2>1, <3>1, AppendOne DEF TypeOK, OneWriter
  <2>3. TypeOK'
    BY <2>1, <2>2 DEF TypeOK, Wakes
  <2>4. OneWriter'
    BY <2>1, <2>2 DEF TypeOK, OneWriter
  <2>5. NoLostWakeup'
    BY <2>1, <2>2 DEF TypeOK, NoLostWakeup, Wakes
  <2> QED BY <2>3, <2>4, <2>5
<1>2. CASE ~Fits(j)
  <2>1. /\ status' = [status EXCEPT ![j] = "refused"] /\ status[j] \notin {"queued", "running"}
        /\ UNCHANGED <<queue, active, scheduled, late>>
    BY <1>2 DEF Enqueue
  <2> QED BY <2>1 DEF TypeOK, OneWriter, NoLostWakeup, Outcomes
<1> QED BY <1>1, <1>2

LEMMA ClearIInv == ASSUME IInv, Clear PROVE IInv'
<1> USE DEF IInv
<1>1. ToSet(queue') = {} /\ queue' \in Seq(Jobs) /\ Len(queue') = 0
  BY DEF Clear, ToSet
<1>2. TypeOK'
  BY <1>1 DEF Clear, TypeOK, Outcomes
<1>3. OneWriter'
  BY <1>1 DEF Clear, TypeOK, OneWriter
<1>4. NoLostWakeup'
  BY DEF Clear, NoLostWakeup
<1> QED BY <1>2, <1>3, <1>4

LEMMA MicrotaskIInv == ASSUME IInv, Microtask PROVE IInv'
<1> USE DEF IInv
<1>0. active = None
  BY DEF Microtask, NoLostWakeup
<1>1. CASE queue = <<>>
  BY <1>0, <1>1 DEF Microtask, TypeOK, OneWriter, NoLostWakeup
<1>2. CASE queue # <<>>
  <2> DEFINE j == queue[NextAt]
  <2>1. j \in Jobs /\ j \in ToSet(queue) /\ status[j] = "queued" /\ j # None
    <3>1. NextAt \in 1..Len(queue) /\ queue \in Seq(Jobs)
      BY <1>2, NextAtInQueue DEF TypeOK
    <3>2. j \in ToSet(queue) /\ j \in Jobs
      BY <3>1 DEF ToSet
    <3> QED BY <3>2, JobAssumption DEF OneWriter
  <2>2. /\ queue' \in Seq(Jobs) /\ ToSet(queue') = ToSet(queue) \ {j}
        /\ \A i, k \in 1..Len(queue') : queue'[i] = queue'[k] => i = k
    <3>1. NextAt \in 1..Len(queue) /\ queue \in Seq(Jobs)
      BY <1>2, NextAtInQueue DEF TypeOK
    <3>2. queue' = RemoveAt(queue, NextAt)
      BY <1>2 DEF Microtask, Rest
    <3>3. \A i, k \in 1..Len(queue) : queue[i] = queue[k] => i = k
      BY DEF OneWriter
    <3> HIDE DEF IInv
    <3>4. /\ RemoveAt(queue, NextAt) \in Seq(Jobs)
          /\ ToSet(RemoveAt(queue, NextAt)) = ToSet(queue) \ {queue[NextAt]}
          /\ \A i, k \in 1..Len(RemoveAt(queue, NextAt)) :
               RemoveAt(queue, NextAt)[i] = RemoveAt(queue, NextAt)[k] => i = k
      BY ONLY <3>1, <3>3, RemoveOne
    <3> QED BY <3>2, <3>4
  <2> HIDE DEF j
  <2>3. late' = late \ {j}
    BY <1>2 DEF Microtask, j
  <2>4. CASE Enabled /\ j \in late
    <3>1. /\ status' = [status EXCEPT ![j] = "expired"]
          /\ scheduled' = AfterExpiry(queue') /\ active' = None
      BY <1>2, <2>4 DEF Microtask, j
    <3>2. TypeOK'
      BY <2>1, <2>2, <2>3, <3>1 DEF TypeOK, Outcomes, AfterExpiry, Wakes
    <3>3. OneWriter'
      BY <1>0, <2>1, <2>2, <3>1 DEF TypeOK, OneWriter
    <3>4. NoLostWakeup'
      BY <3>1 DEF NoLostWakeup, AfterExpiry, Wakes
    <3> QED BY <3>2, <3>3, <3>4
  <2>5. CASE ~(Enabled /\ j \in late)
    <3>1. /\ status' = [status EXCEPT ![j] = "running"]
          /\ scheduled' = FALSE /\ active' = j
      BY <1>2, <2>5 DEF Microtask, j
    <3>2. TypeOK'
      BY <2>1, <2>2, <2>3, <3>1 DEF TypeOK
    <3>3. OneWriter'
      BY <1>0, <2>1, <2>2, <3>1 DEF TypeOK, OneWriter
    <3>4. NoLostWakeup'
      BY <2>1, <3>1 DEF NoLostWakeup
    <3> QED BY <3>2, <3>3, <3>4
  <2> QED BY <2>4, <2>5
<1> QED BY <1>1, <1>2

LEMMA FinishIInv == ASSUME IInv, Finish PROVE IInv'
<1> USE DEF IInv
<1>1. PICK outcome \in {"completed", "failed"} : status' = [status EXCEPT ![active] = outcome]
  BY DEF Finish
<1>2. /\ active \in Jobs /\ status[active] = "running" /\ active' = None
      /\ scheduled' = (scheduled \/ Wakes(None, queue)) /\ UNCHANGED <<queue, late>>
  BY DEF Finish, TypeOK, OneWriter
<1>3. TypeOK'
  BY <1>1, <1>2 DEF TypeOK, Outcomes, Wakes
<1>4. OneWriter'
  BY <1>1, <1>2 DEF TypeOK, OneWriter
<1>5. NoLostWakeup'
  BY <1>2 DEF NoLostWakeup, Wakes
<1> QED BY <1>3, <1>4, <1>5

LEMMA NextIInv == IInv /\ [Next]_vars => IInv'
<1> SUFFICES ASSUME IInv, [Next]_vars PROVE IInv'
  OBVIOUS
<1>1. ASSUME NEW j \in Jobs, DeadlinePasses(j) PROVE IInv'
  BY <1>1 DEF IInv, DeadlinePasses, TypeOK, OneWriter, NoLostWakeup
<1>2. CASE UNCHANGED vars
  BY <1>2 DEF IInv, vars, TypeOK, OneWriter, NoLostWakeup
<1> QED BY <1>1, <1>2, EnqueueIInv, ClearIInv, MicrotaskIInv, FinishIInv DEF Next

LEMMA Invariant == Spec => []IInv
  BY InitIInv, NextIInv, PTL DEF Spec

\* Every reachable state of the write queue has the shape of its fields, for
\* any jobs, limits and deadlines.
THEOREM AdmissionTypeCorrect == Spec => []TypeOK
  BY Invariant, PTL DEF IInv

\* One write runs at a time, and every queued job is queued exactly once
\* (ue4ssAdmission.ts: #active, #queue).
THEOREM OneWriterHolds == Spec => []OneWriter
  BY Invariant, PTL DEF IInv

\* A queued job always has the microtask or the end of the running write to
\* start it, and the two never meet (ue4ssAdmission.ts: #scheduleNext).
THEOREM NoLostWakeupHolds == Spec => []NoLostWakeup
  BY Invariant, PTL DEF IInv

-----------------------------------------------------------------------------
(* The budgets.                                                             *)

\* What the queue and the running write of one kind add up to.
Held(kind, size) ==
  Total(queue, OfKind(kind, size)) + IF active = None THEN 0 ELSE OfKind(kind, size)[active]

LEMMA SizesInNat ==
  ASSUME NEW kind \in BOOLEAN
  PROVE  OfKind(kind, One) \in [Jobs -> Nat] /\ OfKind(kind, Bytes) \in [Jobs -> Nat]
BY JobAssumption DEF OfKind, One

LEMMA HeldInNat ==
  ASSUME TypeOK, NEW kind \in BOOLEAN, NEW size, OfKind(kind, size) \in [Jobs -> Nat]
  PROVE  /\ Held(kind, size) \in Nat /\ Total(queue, OfKind(kind, size)) \in Nat
         /\ active # None => OfKind(kind, size)[active] \in Nat
<1>1. queue \in Seq(Jobs) /\ (active # None => active \in Jobs)
  BY DEF TypeOK
<1> DEFINE w == OfKind(kind, size)
<1>2. w \in [Jobs -> Nat]
  OBVIOUS
<1> HIDE DEF w
<1>3. Total(queue, w) \in Nat /\ (active # None => w[active] \in Nat)
  BY <1>1, <1>2, TotalInNat
<1>4. Total(queue, w) + (IF active = None THEN 0 ELSE w[active]) \in Nat
  BY <1>3
<1> QED BY <1>3, <1>4 DEF Held, w

\* The admission test adds up what is held.
LEMMA PendingIsHeld ==
  ASSUME TypeOK, NEW kind \in BOOLEAN, NEW size, OfKind(kind, size) \in [Jobs -> Nat]
  PROVE  Total(PendingJobs, OfKind(kind, size)) = Held(kind, size)
<1> DEFINE w == OfKind(kind, size)
<1>1. queue \in Seq(Jobs) /\ (active # None => active \in Jobs) /\ w \in [Jobs -> Nat]
  BY DEF TypeOK
<1> HIDE DEF w
<1>2. Total(queue, w) \in Nat
  BY <1>1, TotalInNat
<1>3. CASE active = None
  BY <1>2, <1>3 DEF PendingJobs, Held, w
<1>4. CASE active # None
  <2>1. Total(<<active>> \o queue, w) = Total(queue, w) + w[active]
    BY <1>1, <1>4, TotalCons
  <2> QED BY <1>4, <2>1 DEF PendingJobs, Held, w
<1> QED BY <1>3, <1>4

\* Nothing but an admission makes more of what is held.
LEMMA HeldSteps ==
  ASSUME IInv, [Next]_vars, NEW kind \in BOOLEAN, NEW size, OfKind(kind, size) \in [Jobs -> Nat]
  PROVE  \/ Held(kind, size)' <= Held(kind, size)
         \/ \E j \in Jobs : /\ Fits(j)
                            /\ Held(kind, size)' = Held(kind, size) + OfKind(kind, size)[j]
<1> DEFINE w == OfKind(kind, size)
           run == IF active = None THEN 0 ELSE w[active]
<1>1. TypeOK /\ NoLostWakeup /\ OneWriter /\ IInv'
  BY NextIInv DEF IInv
<1>2. /\ queue \in Seq(Jobs) /\ (active # None => active \in Jobs) /\ w \in [Jobs -> Nat]
      /\ w' = w
  BY <1>1 DEF TypeOK, OfKind
<1>3. Held(kind, size) = Total(queue, w) + run /\ Total(queue, w) \in Nat /\ run \in Nat
  BY <1>1, HeldInNat DEF Held
<1>4. Held(kind, size)' = Total(queue', w) + (IF active' = None THEN 0 ELSE w[active'])
  BY <1>2 DEF Held
<1> HIDE DEF w, run
<1>5. CASE UNCHANGED <<queue, active>>
  <2>1. Held(kind, size)' = Held(kind, size)
    BY <1>3, <1>4, <1>5 DEF run
  <2> QED BY <1>3, <2>1
<1>6. ASSUME NEW j \in Jobs, Enqueue(j), Fits(j)
      PROVE  Held(kind, size)' = Held(kind, size) + w[j]
  <2>1. queue' = Append(queue, j) /\ active' = active
    BY <1>6 DEF Enqueue
  <2>2. Total(queue', w) = Total(queue, w) + w[j] /\ w[j] \in Nat
    BY <1>2, <2>1, TotalAppend
  <2>3. Held(kind, size)' = Total(queue', w) + run
    BY <1>4, <2>1 DEF run
  <2> QED BY <1>3, <2>2, <2>3
<1>7. CASE Clear
  <2>1. queue' = <<>> /\ active' = active
    BY <1>7 DEF Clear
  <2>2. Total(queue', w) = 0
    BY <1>2, <2>1, TotalEmpty
  <2>3. Held(kind, size)' = 0 + run
    BY <1>4, <2>1, <2>2 DEF run
  <2> QED BY <1>3, <2>3
<1>8. CASE Microtask /\ queue # <<>>
  <2>1. active = None /\ NextAt \in 1..Len(queue)
    BY <1>1, <1>2, <1>8, NextAtInQueue DEF Microtask, NoLostWakeup
  <2> DEFINE j == queue[NextAt]
  <2>2. queue' = RemoveAt(queue, NextAt) /\ active' \in {None, j}
    BY <1>8 DEF Microtask, Rest
  <2>3. Total(queue, w) = Total(queue', w) + w[j] /\ queue' \in Seq(Jobs) /\ j \in Jobs
    BY <1>2, <2>1, <2>2, TotalRemove
  <2>4. Total(queue', w) \in Nat /\ w[j] \in Nat
    BY <1>2, <2>3, TotalInNat
  <2>5. Held(kind, size) = Total(queue, w)
    BY <1>3, <2>1 DEF run
  <2> HIDE DEF j
  <2>6. Held(kind, size)' \in {Total(queue', w), Total(queue', w) + w[j]}
    BY <1>4, <2>2, <2>4
  <2> QED BY <2>3, <2>4, <2>5, <2>6
<1>9. CASE Microtask /\ queue = <<>>
  BY <1>5, <1>9 DEF Microtask
<1>10. CASE Finish
  <2>1. queue' = queue /\ active' = None
    BY <1>10 DEF Finish
  <2>2. Held(kind, size)' = Total(queue, w)
    BY <1>3, <1>4, <2>1
  <2> QED BY <1>3, <2>2
<1>11. ASSUME NEW j \in Jobs, Enqueue(j), ~Fits(j) PROVE UNCHANGED <<queue, active>>
  BY <1>11 DEF Enqueue
<1>12. ASSUME NEW j \in Jobs, DeadlinePasses(j) PROVE UNCHANGED <<queue, active>>
  BY <1>12 DEF DeadlinePasses
<1>13. CASE UNCHANGED vars
  BY <1>5, <1>13 DEF vars
<1> QED BY <1>5, <1>6, <1>7, <1>8, <1>9, <1>10, <1>11, <1>12, <1>13 DEF Next, w

LEMMA BudgetsStep == IInv /\ WithinBudgets /\ [Next]_vars => WithinBudgets'
<1> SUFFICES ASSUME IInv, WithinBudgets, [Next]_vars, Enabled, NEW kind \in BOOLEAN
             PROVE  Held(kind, One)' <= MaxDepth[kind] /\ Held(kind, Bytes)' <= MaxBytes[kind]
  BY DEF WithinBudgets, Held
<1>1. TypeOK /\ TypeOK'
  BY NextIInv DEF IInv
<1>2. Held(kind, One) <= MaxDepth[kind] /\ Held(kind, Bytes) <= MaxBytes[kind]
  BY DEF WithinBudgets, Held
<1>3. /\ OfKind(kind, One) \in [Jobs -> Nat] /\ OfKind(kind, Bytes) \in [Jobs -> Nat]
      /\ MaxDepth[kind] \in Nat /\ MaxBytes[kind] \in Nat
  BY SizesInNat, LimitAssumption
<1>4. /\ Held(kind, One) \in Nat /\ Held(kind, Bytes) \in Nat
      /\ Held(kind, One)' \in Nat /\ Held(kind, Bytes)' \in Nat
  <2>1. Held(kind, One) \in Nat /\ Held(kind, Bytes) \in Nat
    BY <1>1, <1>3, HeldInNat
  <2>2. Held(kind, One)' \in Nat /\ Held(kind, Bytes)' \in Nat
    <3>1. queue' \in Seq(Jobs) /\ (active' # None => active' \in Jobs)
      BY <1>1 DEF TypeOK
    <3> DEFINE w(size) == OfKind(kind, size)
    <3>2. /\ Held(kind, One)' = Total(queue', w(One)) + IF active' = None THEN 0 ELSE w(One)[active']
          /\ Held(kind, Bytes)' = Total(queue', w(Bytes)) + IF active' = None THEN 0 ELSE w(Bytes)[active']
      BY DEF Held, OfKind, One
    <3>3. w(One) \in [Jobs -> Nat] /\ w(Bytes) \in [Jobs -> Nat]
      BY <1>3
    <3> HIDE DEF w
    <3>4. Total(queue', w(One)) \in Nat /\ Total(queue', w(Bytes)) \in Nat
      BY <3>1, <3>3, TotalInNat
    <3> QED BY <3>1, <3>2, <3>3, <3>4
  <2> QED BY <2>1, <2>2
<1>5. ASSUME NEW j \in Jobs, Fits(j)
      PROVE  /\ Held(kind, One) + OfKind(kind, One)[j] <= MaxDepth[kind]
             /\ Held(kind, Bytes) + OfKind(kind, Bytes)[j] <= MaxBytes[kind]
  <2>1. CASE (j \in Exempt) = kind
    <3>1. /\ Total(PendingJobs, OfKind(kind, One)) < MaxDepth[kind]
          /\ Total(PendingJobs, OfKind(kind, Bytes)) + Bytes[j] <= MaxBytes[kind]
      BY <1>5, <2>1 DEF Fits
    <3>2. OfKind(kind, One)[j] = 1 /\ OfKind(kind, Bytes)[j] = Bytes[j] /\ Bytes[j] \in Nat
      BY <2>1, JobAssumption DEF OfKind, One
    <3>3. /\ Total(PendingJobs, OfKind(kind, One)) = Held(kind, One)
          /\ Total(PendingJobs, OfKind(kind, Bytes)) = Held(kind, Bytes)
      BY <1>1, <1>3, PendingIsHeld
    <3> QED BY <1>3, <1>4, <3>1, <3>2, <3>3
  <2>2. CASE (j \in Exempt) # kind
    <3>1. OfKind(kind, One)[j] = 0 /\ OfKind(kind, Bytes)[j] = 0
      BY <2>2 DEF OfKind
    <3> QED BY <1>2, <1>4, <3>1
  <2> QED BY <2>1, <2>2
<1>6. Held(kind, One)' <= MaxDepth[kind]
  BY <1>2, <1>3, <1>4, <1>5, HeldSteps
<1>7. Held(kind, Bytes)' <= MaxBytes[kind]
  BY <1>2, <1>3, <1>4, <1>5, HeldSteps
<1> QED BY <1>6, <1>7

\* The writes of each kind that are queued or running stay within their own
\* budgets of jobs and of bytes, for any sizes and limits (#pendingJobs).
THEOREM WithinBudgetsHolds == Spec => []WithinBudgets
<1>1. Init => WithinBudgets
  <2> SUFFICES ASSUME Init, NEW kind \in BOOLEAN
        PROVE Held(kind, One) <= MaxDepth[kind] /\ Held(kind, Bytes) <= MaxBytes[kind]
    BY DEF WithinBudgets, Held
  <2>1. Total(<<>>, OfKind(kind, One)) = 0 /\ Total(<<>>, OfKind(kind, Bytes)) = 0
    BY SizesInNat, TotalEmpty
  <2>2. Held(kind, One) = 0 /\ Held(kind, Bytes) = 0
    BY <2>1 DEF Init, Held
  <2> QED BY <2>2, LimitAssumption
<1>2. IInv /\ WithinBudgets /\ [Next]_vars => WithinBudgets'
  BY BudgetsStep
<1> QED BY <1>1, <1>2, Invariant, PTL DEF Spec
=============================================================================
