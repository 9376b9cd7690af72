---------------------------- MODULE SchedulerProofs ----------------------------
(***************************************************************************)
(* The scheduler's books are right, and whoever is given a slot has room   *)
(* for it, for any number of jobs, slots and sizes.                        *)
(***************************************************************************)
EXTENDS Scheduler, SequenceTheorems, SetFacts

(***************************************************************************)
(* Sums.                                                                   *)
(***************************************************************************)

\* f[i] is what the first i come to.
Sums(f, mb, n) == f \in [0..n -> Nat] /\ f[0] = 0 /\ \A i \in 1..n : f[i] = f[i - 1] + mb[i]

LEMMA SumsExist ==
  ASSUME NEW n \in Nat, NEW mb \in [1..n -> Nat]
  PROVE  \E f : Sums(f, mb, n)
<1> DEFINE Bad == {k \in 0..n : ~\E f : Sums(f, mb, k)}
<1>1. SUFFICES ASSUME Bad # {} PROVE FALSE
  OBVIOUS
<1>2. PICK k \in Bad : \A y \in Bad : k <= y
  <2>1. Bad \subseteq Nat
    OBVIOUS
  <2> HIDE DEF Bad
  <2> QED BY <1>1, <2>1, LeastNumber
<1>3. CASE k = 0
  <2>1. Sums([i \in 0..0 |-> 0], mb, 0)
    BY DEF Sums
  <2> QED BY <1>3, <2>1
<1>4. CASE k # 0
  <2>1. k - 1 \in 0..n /\ k - 1 \notin Bad
    BY <1>2, <1>4
  <2>2. PICK f : Sums(f, mb, k - 1)
    BY <2>1
  <2> DEFINE g == [i \in 0..k |-> IF i = k THEN f[k - 1] + mb[k] ELSE f[i]]
  <2>3. mb[k] \in Nat /\ f[k - 1] \in Nat
    BY <1>4, <2>1, <2>2 DEF Sums
  <2>4. g \in [0..k -> Nat]
    BY <1>4, <2>1, <2>2, <2>3 DEF Sums
  <2>5. g[0] = 0
    BY <1>4, <2>1, <2>2 DEF Sums
  <2>6. ASSUME NEW i \in 1..k PROVE g[i] = g[i - 1] + mb[i]
    <3>1. i - 1 \in 0..k /\ i - 1 # k /\ g[i - 1] = f[i - 1]
      BY <1>4, <2>1
    <3>2. CASE i = k
      BY <3>1, <3>2
    <3>3. CASE i # k
      <4>1. i \in 1..(k - 1) /\ g[i] = f[i]
        BY <1>4, <2>1, <3>3
      <4> QED BY <2>2, <3>1, <4>1 DEF Sums
    <3> QED BY <3>2, <3>3
  <2>7. Sums(g, mb, k)
    BY <2>4, <2>5, <2>6 DEF Sums
  <2> QED BY <2>7
<1> QED BY <1>3, <1>4

LEMMA SumToIs ==
  ASSUME NEW n \in Nat, NEW mb \in [1..n -> Nat]
  PROVE  \E f : Sums(f, mb, n) /\ SumTo(mb, n) = f[n] /\ SumTo(mb, n) \in Nat
<1> DEFINE D(f) == [i \in 0..n |-> IF i = 0 THEN 0 ELSE f[i - 1] + mb[i]]
           g == CHOOSE f : f = D(f)
<1>1. PICK f : Sums(f, mb, n)
  BY SumsExist
<1>2. f = D(f)
  BY <1>1 DEF Sums
<1>3. g = D(g)
  BY <1>2
<1>4. SumTo(mb, n) = g[n]
  BY DEF SumTo
<1>5. Sums(g, mb, n)
  <2>1. g[0] = 0 /\ \A i \in 1..n : g[i] = g[i - 1] + mb[i]
    <3> HIDE DEF g
    <3> QED BY <1>3
  <2> DEFINE Bad == {i \in 0..n : g[i] \notin Nat}
  <2>2. ASSUME Bad # {} PROVE FALSE
    <3>1. PICK i \in Bad : \A y \in Bad : i <= y
      <4>1. Bad \subseteq Nat
        OBVIOUS
      <4> HIDE DEF Bad
      <4> QED BY <2>2, <4>1, LeastNumber
    <3> HIDE DEF g
    <3>2. i # 0 /\ i - 1 \in 0..n /\ i \in 1..n /\ g[i - 1] \in Nat
      BY <2>1, <3>1
    <3> QED BY <2>1, <3>1, <3>2
  <2>3. g \in [0..n -> Nat]
    <3> HIDE DEF g
    <3>1. DOMAIN g = 0..n /\ g = [i \in DOMAIN g |-> g[i]]
      BY <1>3
    <3> QED BY <2>2, <3>1
  <2> QED BY <2>1, <2>3 DEF Sums
<1>6. g[n] \in Nat
  <2> HIDE DEF g
  <2> QED BY <1>5 DEF Sums
<1> QED BY <1>4, <1>5, <1>6

\* One summand changes.
LEMMA SumChanged ==
  ASSUME NEW n \in Nat, NEW mb \in [1..n -> Nat], NEW nb \in [1..n -> Nat], NEW k \in 1..n,
         \A i \in 1..n : i # k => nb[i] = mb[i]
  PROVE  SumTo(nb, n) = SumTo(mb, n) - mb[k] + nb[k]
<1>1. PICK f : Sums(f, mb, n) /\ SumTo(mb, n) = f[n]
  BY SumToIs
<1>2. PICK g : Sums(g, nb, n) /\ SumTo(nb, n) = g[n]
  BY SumToIs
<1> DEFINE Bad == {i \in 0..n : g[i] # IF i < k THEN f[i] ELSE f[i] - mb[k] + nb[k]}
<1>3. ASSUME Bad # {} PROVE FALSE
  <2>1. PICK i \in Bad : \A y \in Bad : i <= y
    <3>1. Bad \subseteq Nat
      OBVIOUS
    <3> HIDE DEF Bad
    <3> QED BY <1>3, <3>1, LeastNumber
  <2>2. i # 0
    BY <1>1, <1>2, <2>1 DEF Sums
  <2>3. i \in 1..n /\ i - 1 \in 0..n /\ i - 1 \notin Bad
    BY <2>1, <2>2
  <2>4. g[i] = g[i - 1] + nb[i] /\ f[i] = f[i - 1] + mb[i]
    BY <1>1, <1>2, <2>3 DEF Sums
  <2>5. f[i - 1] \in Nat /\ g[i - 1] \in Nat /\ mb[i] \in Nat /\ nb[i] \in Nat /\ mb[k] \in Nat /\ nb[k] \in Nat
    BY <1>1, <1>2, <2>3 DEF Sums
  <2>6. g[i - 1] = IF i - 1 < k THEN f[i - 1] ELSE f[i - 1] - mb[k] + nb[k]
    BY <2>3
  <2>7. g[i] # IF i < k THEN f[i] ELSE f[i] - mb[k] + nb[k]
    BY <2>1
  <2>8. i # k => nb[i] = mb[i]
    BY <2>3
  <2> HIDE DEF Bad
  <2> QED BY <2>3, <2>4, <2>5, <2>6, <2>7, <2>8
<1>4. n \in 0..n /\ ~(n < k)
  OBVIOUS
<1> QED BY <1>1, <1>2, <1>3, <1>4

\* One summand more.
LEMMA SumAppended ==
  ASSUME NEW n \in Nat, NEW mb \in [1..n -> Nat], NEW nb \in [1..(n + 1) -> Nat],
         \A i \in 1..n : nb[i] = mb[i]
  PROVE  SumTo(nb, n + 1) = SumTo(mb, n) + nb[n + 1]
<1>1. PICK f : Sums(f, mb, n) /\ SumTo(mb, n) = f[n]
  BY SumToIs
<1>2. PICK g : Sums(g, nb, n + 1) /\ SumTo(nb, n + 1) = g[n + 1]
  BY SumToIs
<1> DEFINE Bad == {i \in 0..n : g[i] # f[i]}
<1>3. ASSUME Bad # {} PROVE FALSE
  <2>1. PICK i \in Bad : \A y \in Bad : i <= y
    <3>1. Bad \subseteq Nat
      OBVIOUS
    <3> HIDE DEF Bad
    <3> QED BY <1>3, <3>1, LeastNumber
  <2>2. i \in 1..n /\ i - 1 \in 0..n /\ i - 1 \notin Bad
    BY <1>1, <1>2, <2>1 DEF Sums
  <2>3. g[i] = g[i - 1] + nb[i] /\ f[i] = f[i - 1] + mb[i]
    BY <1>1, <1>2, <2>2 DEF Sums
  <2> QED BY <2>1, <2>2, <2>3
<1>4. g[n] = f[n]
  BY <1>3
<1> QED BY <1>1, <1>2, <1>4 DEF Sums

\* None is more than the sum.
LEMMA SumBound ==
  ASSUME NEW n \in Nat, NEW mb \in [1..n -> Nat], NEW k \in 1..n
  PROVE  mb[k] <= SumTo(mb, n)
<1> DEFINE nb == [mb EXCEPT ![k] = 0]
<1>1. nb \in [1..n -> Nat] /\ nb[k] = 0 /\ \A i \in 1..n : i # k => nb[i] = mb[i]
  OBVIOUS
<1>2. SumTo(nb, n) \in Nat /\ SumTo(mb, n) \in Nat
  BY <1>1, SumToIs
<1> HIDE DEF nb
<1>3. SumTo(nb, n) = SumTo(mb, n) - mb[k] + 0
  BY <1>1, SumChanged
<1> QED BY <1>2, <1>3

(***************************************************************************)
(* Lists.                                                                  *)
(***************************************************************************)

\* A list has each of its members once.
Lists(seq, S) == seq \in Seq(Jobs) /\ IsInjective(seq) /\ ToSet(seq) = S

LEMMA AppendLists ==
  ASSUME NEW q, NEW S, Lists(q, S), NEW j \in Jobs, j \notin S
  PROVE  Lists(Append(q, j), S \cup {j})
<1> DEFINE r == Append(q, j)
<1>1. q \in Seq(Jobs) /\ ToSet(q) = S /\ IsInjective(q)
  BY DEF Lists
<1>2. /\ r \in Seq(Jobs) /\ Len(q) \in Nat /\ Len(r) = Len(q) + 1
      /\ DOMAIN q = 1..Len(q) /\ DOMAIN r = 1..(Len(q) + 1)
      /\ r[Len(q) + 1] = j /\ \A i \in 1..Len(q) : r[i] = q[i]
  BY <1>1
<1> HIDE DEF r
<1>3. \A i \in 1..Len(q) : r[i] \in S
  BY <1>1, <1>2 DEF ToSet
<1>4. \A i \in 1..(Len(q) + 1) : i # Len(q) + 1 => i \in 1..Len(q)
  BY <1>2
<1>5. IsInjective(r)
  BY <1>1, <1>2, <1>3, <1>4 DEF IsInjective
<1>6. ToSet(r) = S \cup {j}
  <2>1. ToSet(r) \subseteq S \cup {j}
    BY <1>2, <1>3, <1>4 DEF ToSet
  <2>2. S \cup {j} \subseteq ToSet(r)
    BY <1>1, <1>2 DEF ToSet
  <2> QED BY <2>1, <2>2
<1> QED BY <1>2, <1>5, <1>6 DEF Lists, r

LEMMA ConsLists ==
  ASSUME NEW q, NEW S, Lists(q, S), NEW j \in Jobs, j \notin S
  PROVE  Lists(Cons(j, q), S \cup {j})
<1> DEFINE r == Cons(j, q)
<1>1. q \in Seq(Jobs) /\ ToSet(q) = S /\ IsInjective(q)
  BY DEF Lists
<1>2. /\ r \in Seq(Jobs) /\ Len(q) \in Nat /\ Len(r) = Len(q) + 1
      /\ DOMAIN q = 1..Len(q) /\ DOMAIN r = 1..(Len(q) + 1)
      /\ r[1] = j /\ \A i \in 2..(Len(q) + 1) : r[i] = q[i - 1]
  BY <1>1 DEF Cons
<1> HIDE DEF r
<1>3. \A i \in 1..(Len(q) + 1) : i # 1 => i \in 2..(Len(q) + 1) /\ i - 1 \in 1..Len(q)
  BY <1>2
<1>4. \A i \in 2..(Len(q) + 1) : r[i] \in S
  BY <1>1, <1>2, <1>3 DEF ToSet
<1>5. IsInjective(r)
  <2> SUFFICES ASSUME NEW a \in 1..(Len(q) + 1), NEW b \in 1..(Len(q) + 1), r[a] = r[b]
               PROVE  a = b
    BY <1>2 DEF IsInjective
  <2>1. CASE a = 1 \/ b = 1
    BY <2>1, <1>2, <1>3, <1>4
  <2>2. CASE a # 1 /\ b # 1
    <3>1. q[a - 1] = q[b - 1] /\ a - 1 \in DOMAIN q /\ b - 1 \in DOMAIN q
      BY <2>2, <1>2, <1>3
    <3>2. a - 1 = b - 1
      BY <3>1, <1>1 DEF IsInjective
    <3> QED BY <3>2
  <2> QED BY <2>1, <2>2
<1>6. ToSet(r) = S \cup {j}
  <2>1. ToSet(r) \subseteq S \cup {j}
    BY <1>2, <1>3, <1>4 DEF ToSet
  <2>2. ASSUME NEW x \in S PROVE x \in ToSet(r)
    <3>1. PICK i \in 1..Len(q) : x = q[i]
      BY <1>1, <1>2 DEF ToSet
    <3>2. i + 1 \in DOMAIN r /\ r[i + 1] = x
      BY <3>1, <1>2
    <3> QED BY <3>2 DEF ToSet
  <2>3. j \in ToSet(r)
    BY <1>2 DEF ToSet
  <2> QED BY <2>1, <2>2, <2>3
<1> QED BY <1>2, <1>5, <1>6 DEF Lists, r

\* The least and the greatest of some places.
LEMMA MinIsLeast ==
  ASSUME NEW S \in SUBSET Nat, S # {}
  PROVE  Min(S) \in S /\ \A y \in S : Min(S) <= y
<1>1. \E x \in S : \A y \in S : x <= y
  BY LeastNumber
<1> QED BY <1>1 DEF Min

LEMMA RemoveLists ==
  ASSUME NEW q, NEW S, Lists(q, S), NEW j
  PROVE  Lists(RemoveFirst(q, j), S \ {j})
<1>1. q \in Seq(Jobs) /\ ToSet(q) = S /\ IsInjective(q) /\ Len(q) \in Nat /\ DOMAIN q = 1..Len(q)
  BY DEF Lists
<1>2. CASE ~\E i \in 1..Len(q) : q[i] = j
  <2>1. RemoveFirst(q, j) = q
    BY <1>2 DEF RemoveFirst
  <2>2. S \ {j} = S
    BY <1>1, <1>2 DEF ToSet
  <2> QED BY <2>1, <2>2
<1>3. CASE \E i \in 1..Len(q) : q[i] = j
  <2> DEFINE I == {i \in 1..Len(q) : q[i] = j}
             k == Min(I)
             r == SubSeq(q, 1, k - 1) \o SubSeq(q, k + 1, Len(q))
  <2>1. I \in SUBSET Nat /\ I # {}
    BY <1>3
  <2>2. k \in I
    <3> HIDE DEF I
    <3> QED BY <2>1, MinIsLeast
  <2>3. RemoveFirst(q, j) = r
    BY <1>3 DEF RemoveFirst, RemoveAt, SelectInSeq
  <2> HIDE DEF k
  <2>4. k \in 1..Len(q) /\ q[k] = j
    BY <2>2
  <2>5. /\ r \in Seq(Jobs) /\ Len(r) = Len(q) - 1
        /\ \A i \in 1..(Len(q) - 1) : r[i] = IF i < k THEN q[i] ELSE q[i + 1]
    <3> DEFINE u == SubSeq(q, 1, k - 1)
               v == SubSeq(q, k + 1, Len(q))
    <3>1. u \in Seq(Jobs) /\ Len(u) = k - 1 /\ \A i \in 1..(k - 1) : u[i] = q[i]
      BY <1>1, <2>4
    <3>2. v \in Seq(Jobs) /\ Len(v) = Len(q) - k
      <4>1. k + 1 \in Int /\ Len(q) \in Int /\ \A x \in (k + 1)..Len(q) : q[x] \in Jobs
        BY <1>1, <2>4
      <4>2. v \in Seq(Jobs) /\ Len(v) = IF k + 1 <= Len(q) THEN Len(q) - (k + 1) + 1 ELSE 0
        BY <4>1, SubSeqProperties
      <4> HIDE DEF v
      <4>3. k \in Int /\ Len(q) \in Int /\ k <= Len(q)
        BY <1>1, <2>4
      <4>4. ASSUME k + 1 <= Len(q) PROVE Len(q) - k = Len(q) - (k + 1) + 1
        BY <4>3, <4>4
      <4>5. ASSUME ~(k + 1 <= Len(q)) PROVE Len(q) - k = 0
        <5>1. k = Len(q)
          BY <4>3, <4>5
        <5> QED BY <4>3, <5>1
      <4> QED BY <4>2, <4>4, <4>5, Zenon
    <3>3. ASSUME NEW i \in 1..(Len(q) - k) PROVE v[i] = q[k + i]
      BY <1>1, <2>4
    <3> HIDE DEF u, v
    <3>4. /\ u \o v \in Seq(Jobs) /\ Len(u \o v) = (k - 1) + (Len(q) - k)
          /\ \A i \in 1..((k - 1) + (Len(q) - k)) : (u \o v)[i] = IF i <= k - 1 THEN u[i] ELSE v[i - (k - 1)]
      BY <3>1, <3>2, ConcatProperties
    <3>5. (k - 1) + (Len(q) - k) = Len(q) - 1
      BY <1>1, <2>4
    <3>6. ASSUME NEW i \in 1..(Len(q) - 1) PROVE (u \o v)[i] = IF i < k THEN q[i] ELSE q[i + 1]
      <4>1. CASE i < k
        <5>1. i \in 1..(k - 1) /\ i <= k - 1
          BY <1>1, <2>4, <4>1
        <5> QED BY <3>1, <3>4, <3>5, <4>1, <5>1
      <4>2. CASE ~(i < k)
        <5>1. i - (k - 1) \in 1..(Len(q) - k) /\ k + (i - (k - 1)) = i + 1 /\ ~(i <= k - 1)
          BY <1>1, <2>4, <4>2
        <5> QED BY <3>3, <3>4, <3>5, <4>2, <5>1
      <4> QED BY <4>1, <4>2
    <3> QED BY <3>4, <3>5, <3>6 DEF u, v
  <2> HIDE DEF r, I
  <2>6. DOMAIN r = 1..(Len(q) - 1)
    BY <2>5
  <2> DEFINE at(i) == IF i < k THEN i ELSE i + 1
  <2>7. ASSUME NEW i \in 1..(Len(q) - 1)
        PROVE  at(i) \in 1..Len(q) /\ at(i) # k /\ r[i] = q[at(i)]
    BY <1>1, <2>4, <2>5
  <2>8. IsInjective(r)
    <3> SUFFICES ASSUME NEW a \in 1..(Len(q) - 1), NEW b \in 1..(Len(q) - 1), r[a] = r[b]
                 PROVE  a = b
      BY <2>6 DEF IsInjective
    <3>1. at(a) = at(b)
      <4>1. q[at(a)] = q[at(b)] /\ at(a) \in DOMAIN q /\ at(b) \in DOMAIN q
        BY <1>1, <2>7
      <4> HIDE DEF at
      <4> QED BY <1>1, <4>1 DEF IsInjective
    <3> QED BY <3>1, <2>4
  <2>9. ToSet(r) = S \ {j}
    <3>1. ASSUME NEW i \in 1..(Len(q) - 1) PROVE r[i] \in S \ {j}
      <4>1. at(i) \in DOMAIN q /\ k \in DOMAIN q /\ at(i) # k /\ r[i] = q[at(i)]
        BY <1>1, <2>4, <2>7
      <4> HIDE DEF at
      <4>2. q[at(i)] \in S
        BY <1>1, <4>1 DEF ToSet
      <4>3. q[at(i)] # q[k]
        BY <1>1, <4>1 DEF IsInjective
      <4> QED BY <2>4, <4>1, <4>2, <4>3
    <3>2. ASSUME NEW x \in S, x # j PROVE \E i \in 1..(Len(q) - 1) : r[i] = x
      <4>1. PICK i \in 1..Len(q) : x = q[i]
        BY <1>1 DEF ToSet
      <4>2. i # k
        BY <2>4, <3>2, <4>1
      <4>3. CASE i < k
        BY <2>4, <2>5, <4>1, <4>3
      <4>4. CASE i > k
        <5>1. i - 1 \in 1..(Len(q) - 1) /\ ~(i - 1 < k) /\ (i - 1) + 1 = i
          BY <2>4, <4>4
        <5> QED BY <2>5, <4>1, <5>1
      <4> QED BY <2>4, <4>2, <4>3, <4>4
    <3> QED BY <2>6, <3>1, <3>2 DEF ToSet
  <2> QED BY <2>3, <2>5, <2>8, <2>9 DEF Lists
<1> QED BY <1>2, <1>3

LEMMA MaxIsGreatest ==
  ASSUME NEW n \in Nat, NEW S \in SUBSET (1..n), S # {}
  PROVE  Max(S) \in S /\ \A y \in S : Max(S) >= y
<1> DEFINE T == {n - x : x \in S}
<1>1. T \in SUBSET Nat /\ T # {}
  <2>1. \A x \in S : n - x \in Nat
    OBVIOUS
  <2> QED BY <2>1
<1>2. PICK t \in T : \A y \in T : t <= y
  <2> HIDE DEF T
  <2> QED BY <1>1, LeastNumber
<1>3. PICK x \in S : t = n - x
  BY <1>2
<1>4. ASSUME NEW y \in S PROVE x >= y
  <2>1. n - x <= n - y
    BY <1>2, <1>3
  <2> QED BY <2>1
<1> QED BY <1>4 DEF Max

(***************************************************************************)
(* The books: the queue, the live jobs and the counters, after one job's   *)
(* stage has changed.                                                      *)
(***************************************************************************)

Waiting == {j \in Jobs : stage[j] = "queued" \/ Away(j)}
Started == {j \in Jobs : stage[j] = "running" \/ Away(j)}
Slotted(c) == {j \in Jobs : ClassOf(j) = c /\ stage[j] = "running"}

Classes == {"normal", "low"}
Counts == running \in [Classes -> Nat] /\ \A c \in Classes : running[c] = Cardinality(Slotted(c))

Books == Lists(queue, Waiting) /\ Lists(live, Started) /\ Counts

\* What is measured is tracked, and what let memory go holds no more than it did.
Sized ==
  /\ \A j \in Jobs : measuredMb[j] > 0 => j \in Tracked
  /\ \A j \in Jobs : before[j] # None => memMb[j] <= before[j]

IInv == TypeOK /\ Books /\ Sized

LEMMA Bounded == ASSUME NEW S \in SUBSET Jobs
                 PROVE  IsFiniteSet(S) /\ Cardinality(S) \in 0..Cardinality(Jobs)
BY SchedulerAssumption, FS_Subset, FS_CardinalityType

LEMMA CountsUp ==
  ASSUME IInv, NEW j \in Jobs, stage[j] # "running",
         stage' = [stage EXCEPT ![j] = "running"],
         running' = [running EXCEPT ![ClassOf(j)] = @ + 1]
  PROVE  Counts'
<1> DEFINE c == ClassOf(j)
<1>1. c \in Classes
  BY DEF ClassOf, Classes
<1>2. stage \in [Jobs -> {"new", "queued", "running", "parked", "paused", "over"}]
  BY DEF IInv, TypeOK
<1>3. j \notin Slotted(c) /\ Slotted(c)' = Slotted(c) \cup {j}
  BY <1>2 DEF Slotted
<1>4. \A d \in Classes : d # c => Slotted(d)' = Slotted(d)
  BY <1>2 DEF Slotted
<1>5. IsFiniteSet(Slotted(c))
  BY Bounded DEF Slotted
<1>6. Cardinality(Slotted(c)') = Cardinality(Slotted(c)) + 1 /\ Cardinality(Slotted(c)) \in Nat
  BY <1>3, <1>5, FS_AddElement, FS_CardinalityType
<1>7. /\ running' \in [Classes -> Nat] /\ running'[c] = running[c] + 1
      /\ \A d \in Classes : d # c => running'[d] = running[d]
  BY <1>1 DEF IInv, Books, Counts
<1>8. running[c] = Cardinality(Slotted(c))
  BY <1>1 DEF IInv, Books, Counts
<1>9. \A d \in Classes : running'[d] = Cardinality(Slotted(d)')
  <2> HIDE DEF c
  <2> QED BY <1>4, <1>6, <1>7, <1>8 DEF IInv, Books, Counts
<1> QED BY <1>7, <1>9 DEF Counts

LEMMA CountsDown ==
  ASSUME IInv, NEW j \in Jobs, stage[j] = "running", NEW s, s # "running",
         stage' = [stage EXCEPT ![j] = s],
         running' = [running EXCEPT ![ClassOf(j)] = @ - 1]
  PROVE  Counts'
<1> DEFINE c == ClassOf(j)
<1>1. c \in Classes
  BY DEF ClassOf, Classes
<1>2. stage \in [Jobs -> {"new", "queued", "running", "parked", "paused", "over"}]
  BY DEF IInv, TypeOK
<1>3. j \in Slotted(c) /\ Slotted(c)' = Slotted(c) \ {j}
  BY <1>2 DEF Slotted
<1>4. \A d \in Classes : d # c => Slotted(d)' = Slotted(d)
  BY <1>2 DEF Slotted
<1>5. IsFiniteSet(Slotted(c)) /\ IsFiniteSet(Slotted(c)')
  BY Bounded DEF Slotted
<1>6. Cardinality(Slotted(c)') = Cardinality(Slotted(c)) - 1 /\ Cardinality(Slotted(c)') \in Nat
  BY <1>3, <1>5, FS_RemoveElement, FS_CardinalityType
<1> QED BY <1>1, <1>3, <1>4, <1>6 DEF IInv, Books, Counts

LEMMA CountsSame ==
  ASSUME IInv, NEW j \in Jobs, stage[j] # "running", NEW s, s # "running",
         stage' = [stage EXCEPT ![j] = s], running' = running
  PROVE  Counts'
<1>1. stage \in [Jobs -> {"new", "queued", "running", "parked", "paused", "over"}]
  BY DEF IInv, TypeOK
<1>2. \A d \in Classes : Slotted(d)' = Slotted(d)
  BY <1>1 DEF Slotted
<1> QED BY <1>2 DEF IInv, Books, Counts

\* The counters stay within the number of jobs.
LEMMA CountsType == ASSUME Counts' PROVE running' \in [Classes -> 0..Cardinality(Jobs)]
<1>1. \A c \in Classes : Slotted(c)' \in SUBSET Jobs
  BY DEF Slotted
<1>2. \A c \in Classes : Cardinality(Slotted(c)') \in 0..Cardinality(Jobs)
  BY <1>1, Bounded
<1> QED BY <1>2 DEF Counts

LEMMA TakeBooks ==
  ASSUME IInv, NEW j \in Jobs, j \in Waiting, Take(j)
  PROVE  Books'
<1>1. stage \in [Jobs -> {"new", "queued", "running", "parked", "paused", "over"}]
  BY DEF IInv, TypeOK
<1>2. stage[j] # "running" /\ stage' = [stage EXCEPT ![j] = "running"]
  BY DEF Waiting, Away, Take
<1>3. Counts'
  BY <1>2, CountsUp DEF Take
<1>4. Lists(queue, Waiting)'
  <2>1. Waiting' = Waiting \ {j}
    BY <1>1, <1>2 DEF Waiting, Away
  <2>2. Lists(RemoveFirst(queue, j), Waiting \ {j})
    BY RemoveLists DEF IInv, Books
  <2> QED BY <2>1, <2>2 DEF Take
<1>5. Lists(live, Started)'
  <2>1. Started' = Started \cup {j}
    BY <1>1, <1>2 DEF Started, Away
  <2>2. CASE Away(j)
    <3>1. Started' = Started
      BY <2>1, <2>2 DEF Started
    <3> QED BY <2>2, <3>1 DEF Take, IInv, Books
  <2>3. CASE ~Away(j)
    <3>1. j \notin Started
      BY <1>2, <2>3 DEF Started
    <3>2. Lists(Append(live, j), Started \cup {j})
      BY <3>1, AppendLists DEF IInv, Books
    <3> QED BY <2>1, <2>3, <3>2 DEF Take
  <2> QED BY <2>2, <2>3
<1> QED BY <1>3, <1>4, <1>5 DEF Books

LEMMA ParkBooks ==
  ASSUME IInv, NEW j \in Jobs, stage[j] = "running", NEW away \in {"parked", "paused"}, Park(j, away),
         live' = live
  PROVE  Books'
<1>1. stage \in [Jobs -> {"new", "queued", "running", "parked", "paused", "over"}]
  BY DEF IInv, TypeOK
<1>2. stage' = [stage EXCEPT ![j] = away] /\ away # "running"
  BY DEF Park
<1>3. Counts'
  BY <1>2, CountsDown DEF Park
<1>4. Lists(queue, Waiting)'
  <2>1. Waiting' = Waiting \cup {j} /\ j \notin Waiting
    BY <1>1, <1>2 DEF Waiting, Away
  <2>2. Lists(Cons(j, queue), Waiting \cup {j})
    BY <2>1, ConsLists DEF IInv, Books
  <2> QED BY <2>1, <2>2 DEF Park
<1>5. Lists(live, Started)'
  <2>1. Started' = Started
    BY <1>1, <1>2 DEF Started, Away
  <2> QED BY <2>1 DEF IInv, Books
<1> QED BY <1>3, <1>4, <1>5 DEF Books

LEMMA FinishBooks ==
  ASSUME IInv, NEW j \in Jobs, j \in Started, NEW again \in BOOLEAN, Finish(j, again),
         again => stage[j] = "running"
  PROVE  Books'
<1> DEFINE s == IF again THEN "queued" ELSE "over"
<1>1. stage \in [Jobs -> {"new", "queued", "running", "parked", "paused", "over"}]
  BY DEF IInv, TypeOK
<1>2. stage' = [stage EXCEPT ![j] = s] /\ s # "running" /\ s \notin {"parked", "paused"}
  BY DEF Finish
<1>3. Counts'
  <2>1. CASE stage[j] = "running"
    <3>1. running' = [running EXCEPT ![ClassOf(j)] = @ - 1]
      BY <2>1 DEF Finish, GivesBack, Away
    <3> QED BY <1>2, <2>1, <3>1, CountsDown
  <2>2. CASE stage[j] # "running"
    <3>1. running' = running
      BY <2>2 DEF Finish, GivesBack, Away, Started
    <3> QED BY <1>2, <2>2, <3>1, CountsSame
  <2> QED BY <2>1, <2>2
<1>4. Lists(queue, Waiting)'
  <2>1. CASE again
    <3>1. Waiting' = Waiting \cup {j} /\ j \notin Waiting
      BY <1>1, <1>2, <2>1 DEF Waiting, Away
    <3>2. Lists(Cons(j, queue), Waiting \cup {j})
      BY <3>1, ConsLists DEF IInv, Books
    <3> QED BY <2>1, <3>1, <3>2 DEF Finish
  <2>2. CASE ~again
    <3>1. Waiting' = Waiting \ {j}
      BY <1>1, <1>2, <2>2 DEF Waiting, Away
    <3>2. Lists(RemoveFirst(queue, j), Waiting \ {j})
      BY RemoveLists DEF IInv, Books
    <3> QED BY <2>2, <3>1, <3>2 DEF Finish
  <2> QED BY <2>1, <2>2
<1>5. Lists(live, Started)'
  <2>1. Started' = Started \ {j}
    BY <1>1, <1>2 DEF Started, Away
  <2>2. Lists(RemoveFirst(live, j), Started \ {j})
    BY RemoveLists DEF IInv, Books
  <2> QED BY <2>1, <2>2 DEF Finish
<1> QED BY <1>3, <1>4, <1>5 DEF Books

\* Nothing that the books are about changed.
LEMMA BooksSame ==
  ASSUME Books, UNCHANGED <<stage, queue, live, running>>
  PROVE  Books'
<1>1. Waiting' = Waiting /\ Started' = Started /\ \A c : Slotted(c)' = Slotted(c)
  BY DEF Waiting, Started, Slotted, Away
<1> QED BY <1>1 DEF Books, Counts

(***************************************************************************)
(* The invariant, action by action.                                        *)
(***************************************************************************)

LEMMA LiveIsStarted == IInv => Live = Started /\ ToSet(queue) = Waiting /\ Live \subseteq Jobs /\ Waiting \subseteq Jobs
BY DEF IInv, Books, Lists, Live, Started, Waiting

LEMMA InitIInv == Init => IInv
<1> SUFFICES ASSUME Init PROVE IInv
  OBVIOUS
<1>1. Cardinality(Jobs) \in Nat
  BY SchedulerAssumption, FS_CardinalityType
<1>2. TypeOK
  <2>1. /\ Slots \in Nat /\ Window - 1 \in Nat /\ Requeues \in Nat /\ 0 \in Mb
        /\ Says \in 0..MaxMb
    BY SchedulerAssumption DEF Mb
  <2>2. back \in [limit: 0..Slots, hot: 0..(Window - 1), cool: 0..(Window - 1)]
    BY <2>1 DEF Init
  <2>3. stage \in [Jobs -> {"new", "queued", "running", "parked", "paused", "over"}]
    BY DEF Init
  <2>4. running \in [{"normal", "low"} -> 0..Cardinality(Jobs)] /\ requeues \in [Jobs -> 0..Requeues]
    BY <1>1, <2>1 DEF Init
  <2>5. asks \in [Jobs -> 0..MaxMb] /\ memMb \in [Jobs -> Mb] /\ measuredMb \in [Jobs -> Mb]
    BY <2>1 DEF Init
  <2>6. /\ before \in [Jobs -> Mb \cup {None}] /\ letting \in [Jobs -> Mb \cup {None}]
        /\ pumping \in BOOLEAN /\ watching \in Nat \cup {None}
    BY Zenon DEF Init
  <2> QED BY <2>2, <2>3, <2>4, <2>5, <2>6 DEF TypeOK
<1>3. \A j \in Jobs : stage[j] = "new"
  BY DEF Init
<1>4. Lists(<<>>, {})
  BY DEF Lists, IsInjective, ToSet
<1>5. Waiting = {} /\ Started = {} /\ \A c : Slotted(c) = {}
  BY <1>3 DEF Waiting, Started, Slotted, Away
<1>6. Books
  BY <1>4, <1>5, FS_EmptySet DEF Init, Books, Counts, Classes
<1>7. Sized
  BY DEF Init, Sized
<1> QED BY <1>2, <1>6, <1>7 DEF IInv

LEMMA SubmitIInv ==
  ASSUME IInv, NEW j \in Jobs, Submit(j)
  PROVE  IInv'
<1>1. stage[j] = "new" /\ stage' = [stage EXCEPT ![j] = "queued"]
  BY DEF Submit
<1>2. stage \in [Jobs -> {"new", "queued", "running", "parked", "paused", "over"}]
  BY DEF IInv, TypeOK
<1>3. Counts'
  BY <1>1, CountsSame DEF Submit
<1>4. Lists(queue, Waiting)'
  <2>1. Waiting' = Waiting \cup {j} /\ j \notin Waiting
    BY <1>1, <1>2 DEF Waiting, Away
  <2>2. Lists(Append(queue, j), Waiting \cup {j})
    BY <2>1, AppendLists DEF IInv, Books
  <2> QED BY <2>1, <2>2 DEF Submit
<1>5. Lists(live, Started)'
  <2>1. Started' = Started
    BY <1>1, <1>2 DEF Started, Away
  <2> QED BY <2>1 DEF Submit, IInv, Books
<1>6. TypeOK'
  BY <1>1, <1>2 DEF IInv, TypeOK, Submit
<1>7. Sized'
  BY DEF IInv, Sized, Submit
<1> QED BY <1>3, <1>4, <1>5, <1>6, <1>7 DEF IInv, Books

\* What next is up is waiting.
LEMMA NextUpWaits ==
  ASSUME IInv, NextUp # None
  PROVE  NextUp \in Waiting /\ NextUp \in Jobs /\ Fits(NextUp)
<1> DEFINE ready(class) == {i \in DOMAIN queue : queue[i] \in class /\ Fits(queue[i])}
<1>1. \A class : ready(class) # {} => Min(ready(class)) \in ready(class)
  <2> SUFFICES ASSUME NEW class, ready(class) # {} PROVE Min(ready(class)) \in ready(class)
    OBVIOUS
  <2>1. ready(class) \in SUBSET Nat
    BY DEF IInv, Books, Lists
  <2> HIDE DEF ready
  <2> QED BY <2>1, MinIsLeast
<1>2. NextUp = IF ready(Normals) # {} THEN queue[Min(ready(Normals))]
               ELSE IF ready(Lows) # {} THEN queue[Min(ready(Lows))] ELSE None
  BY DEF NextUp
<1>3. \E i \in DOMAIN queue : NextUp = queue[i] /\ Fits(queue[i])
  <2>1. CASE ready(Normals) # {}
    <3>1. Min(ready(Normals)) \in ready(Normals) /\ NextUp = queue[Min(ready(Normals))]
      BY <1>1, <1>2, <2>1
    <3> QED BY <3>1
  <2>2. CASE ready(Normals) = {}
    <3>1. ready(Lows) # {}
      BY <1>2, <2>2
    <3>2. Min(ready(Lows)) \in ready(Lows) /\ NextUp = queue[Min(ready(Lows))]
      BY <1>1, <1>2, <2>2, <3>1
    <3> QED BY <3>2
  <2> QED BY <2>1, <2>2
<1>4. NextUp \in ToSet(queue)
  BY <1>3 DEF ToSet
<1> QED BY <1>3, <1>4, LiveIsStarted

LEMMA TakeSizes ==
  ASSUME IInv, NEW j \in Jobs, Take(j)
  PROVE  /\ stage' \in [Jobs -> {"new", "queued", "running", "parked", "paused", "over"}]
         /\ memMb' \in [Jobs -> Mb] /\ measuredMb' \in [Jobs -> Mb] /\ before' \in [Jobs -> Mb \cup {None}]
         /\ Sized'
<1>1. /\ stage \in [Jobs -> {"new", "queued", "running", "parked", "paused", "over"}]
      /\ memMb \in [Jobs -> Mb] /\ measuredMb \in [Jobs -> Mb] /\ before \in [Jobs -> Mb \cup {None}]
      /\ asks[j] \in 0..MaxMb /\ 0..MaxMb \subseteq Mb /\ 0 \in Mb
  BY SchedulerAssumption DEF IInv, TypeOK, Mb
<1>2. measuredMb' \in [Jobs -> Mb] /\ \A k \in Jobs : measuredMb'[k] = measuredMb[k] \/ measuredMb'[k] = 0
  <2>1. CASE Away(j)
    BY <1>1, <2>1 DEF Take
  <2>2. CASE ~Away(j)
    BY <1>1, <2>2 DEF Take
  <2> QED BY <2>1, <2>2
<1>3. before' \in [Jobs -> Mb \cup {None}] /\ before'[j] = None /\ \A k \in Jobs : k # j => before'[k] = before[k]
  BY <1>1 DEF Take
<1>4. memMb' \in [Jobs -> Mb] /\ \A k \in Jobs : k # j => memMb'[k] = memMb[k]
  <2>1. CASE Away(j) /\ before[j] = None
    BY <1>1, <2>1 DEF Take
  <2>2. CASE Away(j) /\ before[j] # None
    BY <1>1, <2>2 DEF Take
  <2>3. CASE ~Away(j)
    BY <1>1, <2>3 DEF Take
  <2> QED BY <2>1, <2>2, <2>3
<1>5. Sized'
  <2>1. \A k \in Jobs : measuredMb'[k] > 0 => k \in Tracked
    BY <1>2 DEF IInv, Sized
  <2>2. \A k \in Jobs : before'[k] # None => memMb'[k] <= before'[k]
    BY <1>3, <1>4 DEF IInv, Sized
  <2> QED BY <2>1, <2>2 DEF Sized
<1> QED BY <1>1, <1>2, <1>3, <1>4, <1>5 DEF Take

LEMMA TakeIInv ==
  ASSUME IInv, NEW j \in Waiting, Take(j), pumping' = pumping,
         UNCHANGED <<asks, letting, requeues, back, watching>>
  PROVE  IInv'
<1>1. j \in Jobs
  BY DEF Waiting
<1>2. Books'
  BY <1>1, TakeBooks
<1>3. TypeOK'
  BY <1>1, <1>2, TakeSizes, CountsType DEF IInv, TypeOK, Books, Classes
<1> QED BY <1>1, <1>2, <1>3, TakeSizes DEF IInv

LEMMA PumpIInv == ASSUME IInv, Pump PROVE IInv'
<1>1. CASE NextUp # None
  BY <1>1, NextUpWaits, TakeIInv DEF Pump
<1>2. CASE NextUp = None
  <2>1. Books'
    BY <1>2, BooksSame DEF Pump, IInv
  <2>2. TypeOK' /\ Sized'
    BY <1>2, Zenon DEF Pump, IInv, TypeOK, Sized
  <2> QED BY <2>1, <2>2 DEF IInv
<1> QED BY <1>1, <1>2

LEMMA InterruptIInv == ASSUME IInv, NEW j \in Jobs, Interrupt(j) PROVE IInv'
BY TakeIInv DEF Interrupt, Waiting, Away

LEMMA FinishIInv ==
  ASSUME IInv, NEW j \in Jobs, j \in Started, NEW again \in BOOLEAN, Finish(j, again),
         again => stage[j] = "running" /\ measuredMb[j] <= MaxMb /\ requeues[j] > 0,
         UNCHANGED watching
  PROVE  IInv'
<1>1. Books'
  BY FinishBooks
<1>2. asks' \in [Jobs -> 0..MaxMb]
  <2>1. CASE again
    <3>1. larger(asks[j], measuredMb[j]) \in 0..MaxMb
      BY <2>1, SchedulerAssumption DEF IInv, TypeOK, larger, Mb
    <3> QED BY <2>1, <3>1 DEF IInv, TypeOK, Finish
  <2>2. CASE ~again
    BY <2>2 DEF IInv, TypeOK, Finish
  <2> QED BY <2>1, <2>2
<1>3. requeues' \in [Jobs -> 0..Requeues]
  <2>1. CASE again
    BY <2>1, SchedulerAssumption DEF IInv, TypeOK, Finish
  <2>2. CASE ~again
    BY <2>2 DEF IInv, TypeOK, Finish
  <2> QED BY <2>1, <2>2
<1>4. stage' \in [Jobs -> {"new", "queued", "running", "parked", "paused", "over"}]
  BY DEF IInv, TypeOK, Finish
<1>5. /\ memMb' \in [Jobs -> Mb] /\ measuredMb' \in [Jobs -> Mb] /\ before' \in [Jobs -> Mb \cup {None}]
      /\ letting' \in [Jobs -> Mb \cup {None}] /\ pumping' \in BOOLEAN /\ back' = back
  BY SchedulerAssumption DEF IInv, TypeOK, Finish, Mb
<1>6. TypeOK'
  BY <1>1, <1>2, <1>3, <1>4, <1>5, CountsType DEF IInv, TypeOK, Books, Classes
<1>7. Sized'
  BY DEF IInv, TypeOK, Sized, Finish
<1> QED BY <1>1, <1>6, <1>7 DEF IInv

LEMMA ReturnIInv == ASSUME IInv, NEW j \in Jobs, Return(j) \/ Timeout(j) PROVE IInv'
BY FinishIInv, LiveIsStarted DEF Return, Timeout

\* What goes aside is put on the queue, and gives its slot back.
LEMMA ParkSizes ==
  ASSUME IInv, NEW j \in Jobs, NEW away \in {"parked", "paused"}, Park(j, away)
  PROVE  stage' \in [Jobs -> {"new", "queued", "running", "parked", "paused", "over"}] /\ pumping' \in BOOLEAN
<1>1. stage' \in [Jobs -> {"new", "queued", "running", "parked", "paused", "over"}]
  BY DEF IInv, TypeOK, Park
<1>2. pumping' = TRUE
  BY DEF Park, Pumped
<1> QED BY <1>1, <1>2, Zenon

LEMMA ParkIInv ==
  ASSUME IInv, NEW j \in Jobs, stage[j] = "running", NEW away \in {"parked", "paused"}, Park(j, away),
         UNCHANGED <<asks, live, memMb, measuredMb, before, letting, requeues, back>>,
         watching' \in Nat \cup {None}
  PROVE  IInv'
<1>1. Books'
  BY ParkBooks
<1>2. TypeOK'
  BY <1>1, ParkSizes, CountsType DEF IInv, TypeOK, Books, Classes
<1>3. Sized'
  BY DEF IInv, Sized
<1> QED BY <1>1, <1>2, <1>3 DEF IInv

LEMMA CheckpointIInv == ASSUME IInv, NEW j \in Jobs, Checkpoint(j) PROVE IInv'
<1>1. watching' \in Nat \cup {None}
  BY DEF Checkpoint, IInv, TypeOK
<1> QED BY <1>1, ParkIInv DEF Checkpoint

LEMMA HeldIsMb == ASSUME IInv, NEW j \in Jobs PROVE Held(j) \in Mb
BY SchedulerAssumption DEF IInv, TypeOK, Held, larger, Mb

LEMMA StartReleaseIInv == ASSUME IInv, NEW j \in Jobs, StartRelease(j) PROVE IInv'
<1>1. Books'
  BY BooksSame DEF StartRelease, IInv
<1>2. letting' \in [Jobs -> Mb \cup {None}]
  BY HeldIsMb DEF StartRelease, IInv, TypeOK
<1>3. TypeOK'
  BY <1>2 DEF StartRelease, IInv, TypeOK
<1>4. Sized'
  BY DEF StartRelease, IInv, Sized
<1> QED BY <1>1, <1>3, <1>4 DEF IInv

LEMMA EndReleaseIInv == ASSUME IInv, NEW j \in Jobs, EndRelease(j) PROVE IInv'
<1>1. letting' \in [Jobs -> Mb \cup {None}]
  BY DEF EndRelease, IInv, TypeOK
<1>2. CASE Away(j)
  <2>1. Books'
    BY <1>2, BooksSame DEF EndRelease, IInv
  <2>2. TypeOK'
    BY <1>1, <1>2, Zenon DEF EndRelease, IInv, TypeOK
  <2>3. Sized'
    BY <1>2 DEF EndRelease, IInv, Sized
  <2> QED BY <2>1, <2>2, <2>3 DEF IInv
<1>3. CASE ~Away(j)
  <2>1. stage[j] = "running" /\ Park(j, "parked") /\ live' = live
    BY <1>3, LiveIsStarted DEF EndRelease, Started
  <2>2. Books'
    BY <2>1, ParkBooks
  <2>3. letting[j] \in Mb
    BY DEF EndRelease, IInv, TypeOK
  <2>4. PICK after \in 0..letting[j] :
          IF after = letting[j] THEN UNCHANGED <<memMb, measuredMb, before>>
          ELSE /\ memMb' = [memMb EXCEPT ![j] = after]
               /\ measuredMb' = [measuredMb EXCEPT ![j] = smaller(@, after)]
               /\ before' = [before EXCEPT ![j] = letting[j]]
    BY <1>3 DEF EndRelease
  <2>5. /\ memMb' \in [Jobs -> Mb] /\ measuredMb' \in [Jobs -> Mb] /\ before' \in [Jobs -> Mb \cup {None}]
        /\ Sized'
    <3>1. CASE after = letting[j]
      BY <2>4, <3>1 DEF IInv, TypeOK, Sized
    <3>2. CASE after # letting[j]
      <4>1. after \in Mb /\ letting[j] \in Mb /\ after <= letting[j]
        BY <2>3, SchedulerAssumption DEF Mb
      <4>2. /\ measuredMb[j] \in Mb /\ smaller(measuredMb[j], after) \in Mb
            /\ smaller(measuredMb[j], after) > 0 => measuredMb[j] > 0
        BY <4>1, SchedulerAssumption DEF IInv, TypeOK, Mb, smaller
      <4>3. /\ memMb' \in [Jobs -> Mb] /\ measuredMb' \in [Jobs -> Mb] /\ before' \in [Jobs -> Mb \cup {None}]
        BY <2>4, <3>2, <4>1, <4>2 DEF IInv, TypeOK
      <4>4. \A k \in Jobs : measuredMb'[k] > 0 => k \in Tracked
        BY <2>4, <3>2, <4>2 DEF IInv, TypeOK, Sized
      <4>5. \A k \in Jobs : before'[k] # None => memMb'[k] <= before'[k]
        BY <2>4, <3>2, <4>1 DEF IInv, TypeOK, Sized
      <4> QED BY <4>3, <4>4, <4>5 DEF Sized
    <3> QED BY <3>1, <3>2
  <2>6. TypeOK'
    BY <1>1, <2>1, <2>2, <2>5, ParkSizes, CountsType DEF EndRelease, IInv, TypeOK, Books, Classes
  <2> QED BY <2>2, <2>5, <2>6 DEF IInv
<1> QED BY <1>2, <1>3

LEMMA AdaptType ==
  ASSUME IInv, NEW load \in {"hot", "cool", "between"}
  PROVE  Adapt(load) \in [limit: 0..Slots, hot: 0..(Window - 1), cool: 0..(Window - 1)]
<1>1. /\ Slots \in Nat /\ Window \in Nat \ {0}
      /\ back.limit \in 0..Slots /\ back.hot \in 0..(Window - 1) /\ back.cool \in 0..(Window - 1)
      /\ back \in [limit: 0..Slots, hot: 0..(Window - 1), cool: 0..(Window - 1)]
  BY SchedulerAssumption DEF IInv, TypeOK
<1>2. back.limit \div 2 \in 0..Slots /\ Raised(back.limit) \in 0..Slots /\ 0 \in 0..(Window - 1)
  BY <1>1 DEF Raised, smaller
<1>3. CASE load = "hot"
  <2>1. Adapt(load) = IF back.hot + 1 >= Window THEN [limit |-> back.limit \div 2, hot |-> 0, cool |-> 0]
                      ELSE [back EXCEPT !.hot = @ + 1, !.cool = 0]
    BY <1>3, Zenon DEF Adapt
  <2>2. CASE back.hot + 1 >= Window
    <3>1. Adapt(load) = [limit |-> back.limit \div 2, hot |-> 0, cool |-> 0]
      BY <2>1, <2>2, Zenon
    <3> QED BY <1>2, <3>1
  <2>3. CASE ~(back.hot + 1 >= Window)
    <3>1. back.hot + 1 \in 0..(Window - 1)
      BY <1>1, <2>3
    <3>2. Adapt(load) = [limit |-> back.limit, hot |-> back.hot + 1, cool |-> 0]
      BY <1>1, <2>1, <2>3
    <3> QED BY <1>1, <1>2, <3>1, <3>2
  <2> QED BY <2>2, <2>3
<1>4. CASE load = "cool"
  <2>1. Adapt(load) = IF back.cool + 1 >= Window THEN [limit |-> Raised(back.limit), hot |-> 0, cool |-> 0]
                      ELSE [back EXCEPT !.hot = 0, !.cool = @ + 1]
    <3>1. load # "hot"
      BY <1>4
    <3> QED BY <1>4, <3>1, Zenon DEF Adapt
  <2>2. CASE back.cool + 1 >= Window
    <3>1. Adapt(load) = [limit |-> Raised(back.limit), hot |-> 0, cool |-> 0]
      BY <2>1, <2>2, Zenon
    <3> QED BY <1>2, <3>1
  <2>3. CASE ~(back.cool + 1 >= Window)
    <3>1. back.cool + 1 \in 0..(Window - 1)
      BY <1>1, <2>3
    <3>2. Adapt(load) = [limit |-> back.limit, hot |-> 0, cool |-> back.cool + 1]
      BY <1>1, <2>1, <2>3
    <3> QED BY <1>1, <1>2, <3>1, <3>2
  <2> QED BY <2>2, <2>3
<1>5. CASE load = "between"
  BY <1>1, <1>2, <1>5 DEF Adapt
<1> QED BY <1>3, <1>4, <1>5

LEMMA TickIInv == ASSUME IInv, Tick PROVE IInv'
<1>1. Books'
  BY BooksSame DEF Tick, IInv
<1>2. back' \in [limit: 0..Slots, hot: 0..(Window - 1), cool: 0..(Window - 1)]
  BY AdaptType DEF Tick
<1>3. TypeOK'
  BY <1>2 DEF Tick, IInv, TypeOK
<1>4. Sized'
  BY DEF Tick, IInv, Sized
<1> QED BY <1>1, <1>3, <1>4 DEF IInv

LEMMA StopBigIInv == ASSUME IInv, StopBig PROVE IInv'
<1>1. TooBig \in SUBSET Nat /\ TooBig # {} /\ TooBig \subseteq DOMAIN live
  BY DEF StopBig, TooBig, IInv, Books, Lists
<1>2. live[Min(TooBig)] \in Live
  BY <1>1, MinIsLeast DEF Live, ToSet
<1>3. Finish(live[Min(TooBig)], FALSE) /\ UNCHANGED watching
  BY DEF StopBig
<1> HIDE DEF Live
<1> QED BY <1>2, <1>3, FinishIInv, LiveIsStarted

\* The victim holds a slot, and is measured.
LEMMA VictimRuns ==
  ASSUME IInv, Victim # None
  PROVE  Victim \in Jobs /\ Victim \in Live /\ stage[Victim] = "running" /\ measuredMb[Victim] > 0
<1> DEFINE slotted == {i \in DOMAIN live : ~Away(live[i])}
           measured(class) == {i \in slotted : /\ live[i] \in class /\ measuredMb[live[i]] > 0
                                               /\ i # Min(slotted)}
<1>1. \A class : measured(class) # {} => Max(measured(class)) \in measured(class)
  <2> SUFFICES ASSUME NEW class, measured(class) # {} PROVE Max(measured(class)) \in measured(class)
    OBVIOUS
  <2>1. measured(class) \in SUBSET (1..Len(live)) /\ Len(live) \in Nat
    BY DEF IInv, Books, Lists
  <2> HIDE DEF measured
  <2> QED BY <2>1, MaxIsGreatest
<1>2. Victim = IF measured(Lows) # {} THEN live[Max(measured(Lows))]
               ELSE IF measured(Normals) # {} THEN live[Max(measured(Normals))] ELSE None
  BY DEF Victim
<1>3. \E class : measured(class) # {} /\ Victim = live[Max(measured(class))]
  <2> HIDE DEF measured
  <2> QED BY <1>2
<1>4. \E i \in DOMAIN live : Victim = live[i] /\ ~Away(live[i]) /\ measuredMb[live[i]] > 0
  BY <1>1, <1>3
<1>5. Victim \in Live
  BY <1>4 DEF Live, ToSet
<1> QED BY <1>4, <1>5, LiveIsStarted DEF Started

LEMMA WatchIInv == ASSUME IInv, Watch PROVE IInv'
<1>1. CASE UsedMb - watching <= BudgetMb \/ Victim = None
  <2>1. watching' = None /\ pumping' = TRUE /\ UNCHANGED <<job, queue, live, running, back>>
    BY <1>1 DEF Watch
  <2>2. Books'
    BY <2>1, BooksSame DEF IInv, job
  <2>3. TypeOK' /\ Sized'
    BY <2>1, Zenon DEF IInv, TypeOK, Sized, job
  <2> QED BY <2>2, <2>3 DEF IInv
<1>2. CASE ~(UsedMb - watching <= BudgetMb \/ Victim = None) /\ Victim \in Pauses
  <2>1. Victim \in Jobs /\ stage[Victim] = "running"
    BY <1>2, VictimRuns
  <2>2. watching' \in Nat \cup {None}
    <3>1. watching \in Nat /\ measuredMb[Victim] \in Mb /\ watching' = watching + measuredMb[Victim]
      BY <1>2, <2>1 DEF Watch, IInv, TypeOK
    <3> QED BY <3>1, SchedulerAssumption DEF Mb
  <2> QED BY <1>2, <2>1, <2>2, ParkIInv DEF Watch
<1>3. CASE ~(UsedMb - watching <= BudgetMb \/ Victim = None) /\ Victim \notin Pauses
  <2>1. Victim \in Jobs /\ Victim \in Live /\ stage[Victim] = "running" /\ measuredMb[Victim] > 0
    BY <1>3, VictimRuns
  <2>2. Victim \in Started /\ Victim \in Tracked
    BY <2>1 DEF Started, IInv, Sized
  <2>3. measuredMb[Victim] <= MaxMb
    <3>1. PICK i \in DOMAIN live : Victim = live[i]
      BY <2>1 DEF Live, ToSet
    <3>2. ~(measuredMb[Victim] > MaxMb)
      BY <2>2, <3>1 DEF Watch, TooBig
    <3>3. measuredMb[Victim] \in Mb
      BY <2>1 DEF IInv, TypeOK
    <3> QED BY <3>2, <3>3, SchedulerAssumption DEF Mb
  <2>4. Finish(Victim, requeues[Victim] > 0) /\ UNCHANGED watching
    BY <1>3 DEF Watch
  <2>5. (requeues[Victim] > 0) \in BOOLEAN
    OBVIOUS
  <2> QED BY <2>1, <2>2, <2>3, <2>4, <2>5, FinishIInv
<1> QED BY <1>1, <1>2, <1>3

LEMMA Step == IInv /\ [Next]_vars => IInv'
<1> SUFFICES ASSUME IInv, [Next]_vars PROVE IInv'
  OBVIOUS
<1>1. CASE Pump \/ StopBig \/ Watch \/ Tick
  BY <1>1, PumpIInv, StopBigIInv, WatchIInv, TickIInv
<1>2. ASSUME NEW j \in Jobs, Submit(j) \/ Return(j) \/ Timeout(j) PROVE IInv'
  BY <1>2, SubmitIInv, ReturnIInv
<1>3. ASSUME NEW j \in Jobs, Checkpoint(j) \/ StartRelease(j) \/ EndRelease(j) \/ Interrupt(j) PROVE IInv'
  BY <1>3, CheckpointIInv, StartReleaseIInv, EndReleaseIInv, InterruptIInv
<1>4. CASE UNCHANGED vars
  <2>1. Books'
    BY <1>4, BooksSame DEF vars, job, IInv
  <2>2. TypeOK' /\ Sized'
    BY <1>4, Zenon DEF vars, job, IInv, TypeOK, Sized
  <2> QED BY <2>1, <2>2 DEF IInv
<1> QED BY <1>1, <1>2, <1>3, <1>4 DEF Next

LEMMA Always == Spec => []IInv
BY InitIInv, Step, PTL DEF Spec

\* Type correctness: the limits, sizes and counters of the scheduler stay in their ranges, whatever
\* its jobs do: running never counts more than there are jobs, and never goes below nothing.
THEOREM SchedulerTypeCorrect == Spec => []TypeOK
<1>1. IInv => TypeOK
  BY DEF IInv
<1> QED BY <1>1, Always, PTL

\* The counters, the queue and the live jobs agree, for any number of jobs and slots: finish, park,
\* pump and watch (priority.ts) each change all of what tells of a job, or none.
THEOREM BooksAlwaysAgree == Spec => []BooksAgree
<1>1. IInv => BooksAgree
  <2> SUFFICES ASSUME IInv PROVE BooksAgree
    OBVIOUS
  <2>1. \A j \in Normals : running[ClassOf(j)] = Cardinality({k \in Normals : stage[k] = "running"})
    <3>1. Slotted("normal") = {k \in Normals : stage[k] = "running"}
      BY DEF Slotted, ClassOf, Jobs
    <3> QED BY <3>1 DEF ClassOf, IInv, Books, Counts, Classes
  <2>2. \A j \in Lows : running[ClassOf(j)] = Cardinality({k \in Lows : stage[k] = "running"})
    <3>1. Slotted("low") = {k \in Lows : stage[k] = "running"}
      BY SchedulerAssumption DEF Slotted, ClassOf, Jobs
    <3> QED BY <3>1, SchedulerAssumption DEF ClassOf, IInv, Books, Counts, Classes
  <2>3. /\ IsInjective(queue) /\ ToSet(queue) = {j \in Jobs : stage[j] = "queued" \/ Away(j)}
        /\ IsInjective(live) /\ Live = {j \in Jobs : stage[j] = "running" \/ Away(j)}
    BY DEF IInv, Books, Lists, Waiting, Started, Live
  <2> QED BY <2>1, <2>2, <2>3 DEF BooksAgree
<1> QED BY <1>1, Always, PTL

(***************************************************************************)
(* The room there is, and who is given it.                                 *)
(***************************************************************************)

HeldNext(k) == larger(memMb'[k], measuredMb'[k])

LEMMA HeldNumbers ==
  ASSUME IInv
  PROVE  /\ Len(live) \in Nat /\ DOMAIN live = 1..Len(live) /\ \A i \in 1..Len(live) : live[i] \in Jobs
         /\ \A k \in Jobs : Held(k) \in Nat
         /\ [i \in DOMAIN live |-> Held(live[i])] \in [1..Len(live) -> Nat] /\ UsedMb \in Nat
<1>1. Len(live) \in Nat /\ DOMAIN live = 1..Len(live) /\ \A i \in 1..Len(live) : live[i] \in Jobs
  BY DEF IInv, Books, Lists
<1>2. \A k \in Jobs : Held(k) \in Nat
  BY HeldIsMb, SchedulerAssumption DEF Mb
<1>3. [i \in DOMAIN live |-> Held(live[i])] \in [1..Len(live) -> Nat]
  BY <1>1, <1>2
<1>4. UsedMb \in Nat
  BY <1>1, <1>3, SumToIs DEF UsedMb
<1> QED BY <1>1, <1>2, <1>3, <1>4

\* One more is live.
LEMMA UsedMore ==
  ASSUME IInv, NEW j \in Jobs, live' = Append(live, j),
         \A k \in Live : HeldNext(k) = Held(k), HeldNext(j) \in Nat
  PROVE  UsedMb' = UsedMb + HeldNext(j)
<1> DEFINE n == Len(live)
           mb == [i \in DOMAIN live |-> Held(live[i])]
           nb == [i \in DOMAIN live' |-> HeldNext(live'[i])]
<1>1. n \in Nat /\ DOMAIN live = 1..n /\ live \in Seq(Jobs) /\ mb \in [1..n -> Nat]
  BY HeldNumbers DEF IInv, Books, Lists
<1>2. /\ Len(live') = n + 1 /\ DOMAIN live' = 1..(n + 1) /\ live'[n + 1] = j
      /\ \A i \in 1..n : live'[i] = live[i]
  BY <1>1
<1>3. \A i \in 1..n : live[i] \in Live
  BY <1>1 DEF Live, ToSet
<1>4. \A i \in 1..n : nb[i] = mb[i]
  BY <1>1, <1>2, <1>3
<1>5. nb[n + 1] = HeldNext(j) /\ DOMAIN nb = 1..(n + 1)
  BY <1>1, <1>2
<1>6. nb \in [1..(n + 1) -> Nat]
  <2>1. \A i \in 1..(n + 1) : i # n + 1 => i \in 1..n
    BY <1>1
  <2>2. \A i \in 1..(n + 1) : nb[i] \in Nat
    <3> HIDE DEF nb, mb
    <3> QED BY <1>1, <1>4, <1>5, <2>1
  <2> QED BY <1>2, <2>2
<1>7. UsedMb = SumTo(mb, n) /\ UsedMb' = SumTo(nb, n + 1)
  BY <1>2 DEF UsedMb, Held, HeldNext
<1> HIDE DEF nb, mb, n
<1> QED BY <1>1, <1>4, <1>5, <1>6, <1>7, SumAppended

\* A live one holds more or less than it did.
LEMMA UsedChanged ==
  ASSUME IInv, NEW j \in Live, live' = live,
         \A k \in Jobs : k # j => HeldNext(k) = Held(k), HeldNext(j) \in Nat
  PROVE  UsedMb' = UsedMb - Held(j) + HeldNext(j)
<1> DEFINE n == Len(live)
           mb == [i \in DOMAIN live |-> Held(live[i])]
           nb == [i \in DOMAIN live' |-> HeldNext(live'[i])]
<1>1. /\ n \in Nat /\ DOMAIN live = 1..n /\ mb \in [1..n -> Nat] /\ \A i \in 1..n : live[i] \in Jobs
      /\ \A k \in Jobs : Held(k) \in Nat
  BY HeldNumbers
<1>2. PICK p \in 1..n : live[p] = j
  BY <1>1 DEF Live, ToSet
<1>3. \A i \in 1..n : i # p => live[i] # j
  BY <1>1, <1>2 DEF IInv, Books, Lists, IsInjective
<1>4. \A i \in 1..n : i # p => nb[i] = mb[i]
  BY <1>1, <1>3
<1>5. nb[p] = HeldNext(j) /\ mb[p] = Held(j)
  BY <1>1, <1>2
<1>6. nb \in [1..n -> Nat]
  <2>1. \A i \in 1..n : nb[i] \in Nat
    <3> HIDE DEF nb, mb
    <3> QED BY <1>1, <1>4, <1>5
  <2> QED BY <1>1, <2>1
<1>7. UsedMb = SumTo(mb, n) /\ UsedMb' = SumTo(nb, n)
  BY DEF UsedMb, Held, HeldNext
<1> HIDE DEF nb, mb, n
<1> QED BY <1>1, <1>2, <1>4, <1>5, <1>6, <1>7, SumChanged

LEMMA UsedBound == ASSUME IInv, NEW k \in Live PROVE Held(k) <= UsedMb
<1> DEFINE n == Len(live)
           mb == [i \in DOMAIN live |-> Held(live[i])]
<1>1. n \in Nat /\ DOMAIN live = 1..n /\ mb \in [1..n -> Nat]
  BY HeldNumbers
<1>2. PICK p \in 1..n : live[p] = k
  BY <1>1 DEF Live, ToSet
<1>3. mb[p] = Held(k)
  BY <1>1, <1>2
<1>4. UsedMb = SumTo(mb, n)
  BY DEF UsedMb
<1> HIDE DEF mb, n
<1> QED BY <1>1, <1>2, <1>3, <1>4, SumBound

\* What one that goes on holds, and that it is no less than it held aside.
LEMMA TakeHeld ==
  ASSUME IInv, NEW j \in Jobs, Take(j)
  PROVE  /\ \A k \in Jobs : k # j => HeldNext(k) = Held(k)
         /\ HeldNext(j) \in Nat
         /\ Away(j) => /\ HeldNext(j) >= Held(j) /\ Claims(j) \in Nat
                       /\ HeldNext(j) - Held(j) <= Claims(j)
         /\ ~Away(j) => HeldNext(j) = asks[j] /\ Claims(j) = asks[j]
<1>1. /\ memMb \in [Jobs -> Nat] /\ measuredMb \in [Jobs -> Nat] /\ asks[j] \in Nat
      /\ before[j] # None => before[j] \in Nat /\ memMb[j] <= before[j]
  BY SchedulerAssumption DEF IInv, TypeOK, Sized, Mb
<1>2. CASE Away(j) /\ before[j] = None
  <2>1. memMb' = memMb /\ measuredMb' = measuredMb /\ Claims(j) = 0
    BY <1>2 DEF Take, Claims
  <2> QED BY <1>1, <1>2, <2>1 DEF HeldNext, Held, larger
<1>3. CASE Away(j) /\ before[j] # None
  <2>1. memMb' = [memMb EXCEPT ![j] = before[j]] /\ measuredMb' = measuredMb /\ Claims(j) = before[j] - memMb[j]
    BY <1>3 DEF Take, Claims
  <2> QED BY <1>1, <1>3, <2>1 DEF HeldNext, Held, larger
<1>4. CASE ~Away(j)
  <2>1. memMb' = [memMb EXCEPT ![j] = asks[j]] /\ measuredMb' = [measuredMb EXCEPT ![j] = 0] /\ Claims(j) = asks[j]
    BY <1>4 DEF Take, Claims
  <2> QED BY <1>1, <1>4, <2>1 DEF HeldNext, Held, larger
<1> QED BY <1>2, <1>3, <1>4

LEMMA TakeRoom ==
  ASSUME IInv, NEW j \in Waiting, Fits(j), Take(j)
  PROVE  /\ running'["normal"] + running'["low"] <= Slots
         /\ UsedMb' <= BudgetMb \/ UsedMb' = HeldNext(j)
<1>1. j \in Jobs
  BY DEF Waiting
<1>2. running'["normal"] + running'["low"] <= Slots
  <2>1. running \in [Classes -> Nat] /\ running["normal"] + running["low"] < Slots /\ Slots \in Nat
    BY SchedulerAssumption DEF IInv, Books, Counts, Fits
  <2>2. running' = [running EXCEPT ![ClassOf(j)] = @ + 1] /\ ClassOf(j) \in Classes
    BY DEF Take, ClassOf, Classes
  <2> QED BY <2>1, <2>2 DEF Classes
<1>3. UsedMb \in Nat /\ BudgetMb \in Nat /\ \A k \in Jobs : Held(k) \in Nat
  BY HeldNumbers, SchedulerAssumption
<1>4. UsedMb = (IF Away(j) THEN Held(j) ELSE 0) \/ UsedMb + Claims(j) <= BudgetMb
  BY DEF Fits
<1>5. CASE Away(j)
  <2>1. j \in Live /\ live' = live
    BY <1>1, <1>5, LiveIsStarted DEF Take, Started
  <2>2. UsedMb' = UsedMb - Held(j) + HeldNext(j)
    BY <1>1, <2>1, UsedChanged, TakeHeld
  <2> QED BY <1>1, <1>2, <1>3, <1>4, <1>5, <2>2, TakeHeld
<1>6. CASE ~Away(j)
  <2>1. j \notin Live /\ live' = Append(live, j)
    BY <1>1, <1>6, LiveIsStarted DEF Take, Started, Waiting
  <2>2. UsedMb' = UsedMb + HeldNext(j)
    BY <1>1, <2>1, UsedMore, TakeHeld, LiveIsStarted
  <2> QED BY <1>1, <1>2, <1>3, <1>4, <1>6, <2>2, TakeHeld
<1> QED BY <1>5, <1>6

\* Only pump gives slots while it goes on, and only to the one that is next.
LEMMA RoomStep ==
  ASSUME IInv, [Next]_vars, NEW j \in Jobs, pumping, stage[j] # "running", stage'[j] = "running"
  PROVE  /\ running'["normal"] + running'["low"] <= Slots
         /\ UsedMb' <= BudgetMb \/ UsedMb' = Held(j)'
<1>1. Pump
  BY DEF Next, vars, job, StopBig, Watch, Tick, Submit, Return, Timeout, Checkpoint, StartRelease, EndRelease,
         Interrupt, Quiet
<1>2. NextUp # None
  BY <1>1 DEF Pump
<1>3. Take(NextUp) /\ NextUp \in Waiting /\ NextUp \in Jobs /\ Fits(NextUp)
  BY <1>1, <1>2, NextUpWaits DEF Pump
<1>4. j = NextUp
  BY <1>3 DEF Take, IInv, TypeOK
<1>5. Held(j)' = HeldNext(j)
  BY DEF Held, HeldNext
<1> QED BY <1>3, <1>4, <1>5, TakeRoom

\* Whoever pump gives a slot has room, for any number of jobs, slots and sizes: what tryStart (priority.ts)
\* looked at before is still so after all that startOn and the way back from an absence change.
THEOREM RoomIsThere == Spec => RoomForAll
<1>1. IInv /\ [Next]_vars =>
        \A j \in Jobs : (pumping /\ stage[j] # "running" /\ stage'[j] = "running") =>
          /\ running'["normal"] + running'["low"] <= Slots
          /\ UsedMb' <= BudgetMb \/ UsedMb' = Held(j)'
  BY RoomStep
<1> QED BY <1>1, Always, PTL DEF Spec, RoomForAll

\* What doesn't change who fits.
LEMMA FitsSame ==
  ASSUME UNCHANGED <<stage, live, running, asks, memMb, measuredMb, before, back>>, NEW j
  PROVE  Fits(j)' = Fits(j)
<1>1. UsedMb' = UsedMb /\ Held(j)' = Held(j) /\ Away(j)' = Away(j) /\ Claims(j)' = Claims(j)
  BY DEF UsedMb, Held, Away, Claims
<1> QED BY <1>1 DEF Fits

\* pump ends when none is next.
LEMMA PumpIdle ==
  ASSUME IInv, Pump
  PROVE  NoIdleRoom'
<1>1. CASE NextUp # None
  BY <1>1 DEF Pump, NoIdleRoom, Quiet
<1>2. CASE NextUp = None
  <2> DEFINE ready(class) == {i \in DOMAIN queue : queue[i] \in class /\ Fits(queue[i])}
  <2>1. \A class : ready(class) # {} => queue[Min(ready(class))] \in Jobs
    <3> SUFFICES ASSUME NEW class, ready(class) # {} PROVE queue[Min(ready(class))] \in Jobs
      OBVIOUS
    <3>1. ready(class) \in SUBSET Nat /\ ready(class) \subseteq DOMAIN queue
      BY DEF IInv, Books, Lists
    <3>2. Min(ready(class)) \in DOMAIN queue
      <4> HIDE DEF ready
      <4> QED BY <3>1, MinIsLeast
    <3>3. \A i \in DOMAIN queue : queue[i] \in Jobs
      BY DEF IInv, Books, Lists
    <3> QED BY <3>2, <3>3
  <2>2. NextUp = IF ready(Normals) # {} THEN queue[Min(ready(Normals))]
                 ELSE IF ready(Lows) # {} THEN queue[Min(ready(Lows))] ELSE None
    BY DEF NextUp
  <2>3. ready(Normals) = {} /\ ready(Lows) = {}
    <3> HIDE DEF ready
    <3> QED BY <1>2, <2>1, <2>2, SchedulerAssumption
  <2>4. ASSUME NEW j \in ToSet(queue) PROVE ~Fits(j)
    <3>1. PICK i \in DOMAIN queue : j = queue[i]
      BY DEF ToSet
    <3>2. queue[i] \in Normals \/ queue[i] \in Lows
      BY <3>1 DEF IInv, Books, Lists, Jobs
    <3> QED BY <2>3, <3>1, <3>2
  <2>5. queue' = queue /\ \A j : Fits(j)' = Fits(j)
    BY <1>2, FitsSame DEF Pump
  <2> QED BY <2>4, <2>5 DEF NoIdleRoom
<1> QED BY <1>1, <1>2

\* One that runs on instead of waiting leaves no more room than there was.
LEMMA InterruptIdle ==
  ASSUME IInv, NoIdleRoom, NEW j \in Jobs, Interrupt(j)
  PROVE  NoIdleRoom'
<1>1. Take(j) /\ Away(j) /\ j \in Waiting /\ back' = back /\ asks' = asks /\ Quiet
  BY DEF Interrupt, Away, Waiting
<1>2. j \in Live /\ live' = live
  BY <1>1, LiveIsStarted DEF Take, Started
<1>3. UsedMb' = UsedMb - Held(j) + HeldNext(j)
  BY <1>1, <1>2, UsedChanged, TakeHeld
<1>4. UsedMb \in Nat /\ BudgetMb \in Nat /\ Slots \in Nat /\ \A k \in Jobs : Held(k) \in Nat
  BY HeldNumbers, SchedulerAssumption
<1>5. UsedMb' \in Int /\ UsedMb' >= UsedMb
  BY <1>1, <1>3, <1>4, TakeHeld
<1> SUFFICES ASSUME NEW k \in ToSet(queue'), Fits(k)' PROVE FALSE
  BY DEF NoIdleRoom
<1>6. k # j /\ k \in ToSet(queue) /\ k \in Jobs
  <2>1. ToSet(RemoveFirst(queue, j)) = Waiting \ {j}
    BY RemoveLists DEF IInv, Books, Lists
  <2> QED BY <1>1, <2>1, LiveIsStarted DEF Take
<1>7. Held(k)' = Held(k) /\ Away(k)' = Away(k) /\ Claims(k)' = Claims(k)
  <2>1. Held(k)' = Held(k)
    BY <1>1, <1>6, TakeHeld DEF Held, HeldNext
  <2>2. stage'[k] = stage[k] /\ before'[k] = before[k]
    BY <1>1, <1>6 DEF Take, IInv, TypeOK
  <2>3. memMb'[k] = memMb[k]
    BY <1>1, <1>6 DEF Take, IInv, TypeOK
  <2> QED BY <1>1, <2>1, <2>2, <2>3 DEF Away, Claims
<1>8. Claims(k) \in Int
  <2>1. asks[k] \in Int /\ memMb[k] \in Int /\ (before[k] # None => before[k] \in Int)
    BY <1>6, SchedulerAssumption DEF IInv, TypeOK, Mb
  <2>2. before[k] # None => before[k] - memMb[k] \in Int
    BY <2>1
  <2> QED BY <2>1, <2>2 DEF Claims
<1>9. Fits(k)
  <2>1. running["normal"] + running["low"] < Slots /\ (k \in Lows => running["low"] < back.limit)
    <3>1. running \in [Classes -> Nat] /\ running' = [running EXCEPT ![ClassOf(j)] = @ + 1] /\ back.limit \in Nat
      BY <1>1, SchedulerAssumption DEF Take, IInv, TypeOK, Books, Counts
    <3>2. /\ running'["normal"] + running'["low"] < Slots
          /\ k \in Lows => running'["low"] < back.limit
      BY <1>1 DEF Fits
    <3>3. /\ running["normal"] \in Nat /\ running["low"] \in Nat
          /\ running'["normal"] \in Nat /\ running["normal"] <= running'["normal"]
          /\ running'["low"] \in Nat /\ running["low"] <= running'["low"]
      BY <3>1 DEF Classes, ClassOf
    <3> QED BY <1>4, <3>1, <3>2, <3>3
  <2>2. UsedMb' = (IF Away(k) THEN Held(k) ELSE 0) \/ UsedMb' + Claims(k) <= BudgetMb
    BY <1>7 DEF Fits
  <2>3. CASE UsedMb' = (IF Away(k) THEN Held(k) ELSE 0)
    <3>1. CASE Away(k)
      <4>1. Held(k) <= UsedMb
        BY <1>6, <3>1, UsedBound, LiveIsStarted DEF Started
      <4>2. UsedMb = Held(k)
        BY <1>4, <1>5, <1>6, <2>3, <3>1, <4>1
      <4> QED BY <2>1, <3>1, <4>2 DEF Fits
    <3>2. CASE ~Away(k)
      <4>1. UsedMb = 0
        BY <1>4, <1>5, <2>3, <3>2
      <4> QED BY <2>1, <3>2, <4>1 DEF Fits
    <3> QED BY <3>1, <3>2
  <2>4. CASE UsedMb' + Claims(k) <= BudgetMb
    <3>1. UsedMb + Claims(k) <= BudgetMb
      BY <1>4, <1>5, <1>8, <2>4
    <3> QED BY <2>1, <3>1 DEF Fits
  <2> QED BY <2>2, <2>3, <2>4
<1> QED BY <1>1, <1>6, <1>9 DEF NoIdleRoom

\* Every other step looks next who fits, or leaves all that tells of it.
LEMMA IdleStep ==
  ASSUME IInv, NoIdleRoom, [Next]_vars
  PROVE  NoIdleRoom'
<1>1. CASE Pump
  BY <1>1, PumpIdle
<1>2. CASE StopBig \/ Watch \/ Tick
  <2>1. CASE StopBig
    BY <2>1 DEF StopBig, Finish, NoIdleRoom, Quiet
  <2>2. CASE Watch
    BY <2>2 DEF Watch, Park, Pumped, Finish, NoIdleRoom, Quiet
  <2>3. CASE Tick
    BY <2>3, SchedulerAssumption DEF Tick, NoIdleRoom, Quiet
  <2> QED BY <1>2, <2>1, <2>2, <2>3
<1>3. ASSUME NEW j \in Jobs, Submit(j) \/ Return(j) \/ Timeout(j) \/ Checkpoint(j) PROVE NoIdleRoom'
  BY <1>3 DEF Submit, Return, Timeout, Checkpoint, Park, Pumped, Finish, NoIdleRoom, Quiet
<1>4. ASSUME UNCHANGED <<stage, queue, live, running, asks, memMb, measuredMb, before, back, pumping, watching>>
      PROVE  NoIdleRoom'
  BY <1>4, FitsSame DEF NoIdleRoom, Quiet
<1>5. ASSUME NEW j \in Jobs, StartRelease(j) PROVE NoIdleRoom'
  BY <1>4, <1>5 DEF StartRelease
<1>6. ASSUME NEW j \in Jobs, EndRelease(j) PROVE NoIdleRoom'
  <2>1. CASE Away(j)
    BY <1>4, <1>6, <2>1 DEF EndRelease
  <2>2. CASE ~Away(j)
    BY <1>6, <2>2 DEF EndRelease, Park, Pumped, NoIdleRoom, Quiet
  <2> QED BY <2>1, <2>2
<1>7. ASSUME NEW j \in Jobs, Interrupt(j) PROVE NoIdleRoom'
  BY <1>7, InterruptIdle
<1>8. CASE UNCHANGED vars
  BY <1>4, <1>8 DEF vars, job
<1> QED BY <1>1, <1>2, <1>3, <1>5, <1>6, <1>7, <1>8 DEF Next

\* No room is left idle between handlers, for any number of jobs, slots and sizes: every handler
\* that makes room ends in pump, and what doesn't pump (an interrupt, a release that goes on) makes none.
THEOREM NoRoomIdle == Spec => []NoIdleRoom
<1>1. Init => NoIdleRoom
  BY DEF Init, NoIdleRoom, ToSet
<1>2. IInv /\ NoIdleRoom /\ [Next]_vars => NoIdleRoom'
  BY IdleStep
<1> QED BY <1>1, <1>2, Always, PTL DEF Spec
=============================================================================
