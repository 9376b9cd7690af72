---------------------------- MODULE FileHistoryProofs ----------------------------
(***************************************************************************)
(* A file's history is its past: for any file, sizes of its snapshots and  *)
(* pages, and any stops, what can be read of a rev is the document as it   *)
(* was, and nobody's edit goes uncredited.                                 *)
(***************************************************************************)
EXTENDS FileHistory, SequenceTheorems, SetFacts

-----------------------------------------------------------------------------
(* Lines and ops.                                                          *)

LEMMA Sizes ==
  /\ MaxRev \in Nat /\ MaxRev > 0 /\ SnapEvery \in Nat /\ SnapEvery > 0 /\ KeepSnaps \in Nat /\ KeepSnaps > 0
  /\ OpPage \in Nat /\ OpPage > 0 /\ ListLimit \in Nat
  /\ MaxCommits \in Nat /\ MaxLines \in Nat /\ MaxSweeps \in Nat
BY SizesAssumption

LEMMA Bounded ==
  ASSUME NEW S, NEW n \in Nat, NEW s
  PROVE  s \in BoundedSeq(S, n) <=> s \in Seq(S) /\ Len(s) <= n
<1>1. ASSUME s \in BoundedSeq(S, n) PROVE s \in Seq(S) /\ Len(s) <= n
  <2>1. PICK m \in 0..n : s \in [1..m -> S]
    BY <1>1 DEF BoundedSeq, SeqOf
  <2>2. m \in Nat
    OBVIOUS
  <2>3. s \in Seq(S) /\ Len(s) = m
    BY <2>1, <2>2
  <2> QED BY <2>3
<1>2. ASSUME s \in Seq(S), Len(s) <= n PROVE s \in BoundedSeq(S, n)
  <2>1. Len(s) \in 0..n /\ s \in [1..Len(s) -> S]
    BY <1>2
  <2> QED BY <2>1 DEF BoundedSeq, SeqOf
<1> QED BY <1>1, <1>2

\* Where a line is: nowhere, or at one of the places.
LEMMA LocateIs ==
  ASSUME NEW S, NEW lines \in Seq(S), NEW id
  PROVE  /\ Locate(lines, id) \in 0..Len(lines)
         /\ (\E i \in 1..Len(lines) : lines[i].id = id) => Locate(lines, id) # 0
<1> DEFINE T == {i \in 1..Len(lines) : lines[i].id = id}
<1>1. Locate(lines, id) = IF T # {} THEN Min(T) ELSE 0
  BY DEF Locate, SelectInSeq
<1>2. T \in SUBSET Nat
  OBVIOUS
<1>3. ASSUME T # {} PROVE Min(T) \in T
  <2> HIDE DEF T
  <2> QED BY <1>2, <1>3, LeastNumber DEF Min
<1>4. (\E i \in 1..Len(lines) : lines[i].id = id) => T # {}
  OBVIOUS
<1> QED BY <1>1, <1>3, <1>4

LEMMA InsertedSeq ==
  ASSUME NEW S, NEW s \in Seq(S), NEW i \in 1..(Len(s) + 1), NEW e \in S
  PROVE  InsertAt(s, i, e) \in Seq(S) /\ Len(InsertAt(s, i, e)) = Len(s) + 1
<1>1. SubSeq(s, 1, i - 1) \in Seq(S) /\ Len(SubSeq(s, 1, i - 1)) = i - 1
  BY SubSeqProperties
<1>2. SubSeq(s, i, Len(s)) \in Seq(S) /\ Len(SubSeq(s, i, Len(s))) = Len(s) - i + 1
  BY SubSeqProperties
<1>3. <<e>> \in Seq(S) /\ Len(<<e>>) = 1
  OBVIOUS
<1>4. SubSeq(s, 1, i - 1) \o <<e>> \in Seq(S) /\ Len(SubSeq(s, 1, i - 1) \o <<e>>) = i
  BY <1>1, <1>3, ConcatProperties
<1>5. /\ InsertAt(s, i, e) \in Seq(S)
      /\ Len(InsertAt(s, i, e)) = Len(SubSeq(s, 1, i - 1) \o <<e>>) + Len(SubSeq(s, i, Len(s)))
  <2> DEFINE x == SubSeq(s, 1, i - 1) \o <<e>>
             y == SubSeq(s, i, Len(s))
  <2>1. x \in Seq(S) /\ y \in Seq(S) /\ InsertAt(s, i, e) = x \o y
    BY <1>2, <1>4 DEF InsertAt
  <2> HIDE DEF x, y
  <2> QED BY <2>1, ConcatProperties DEF x, y
<1> QED BY <1>2, <1>4, <1>5

LEMMA RemovedSeq ==
  ASSUME NEW S, NEW s \in Seq(S), NEW i \in 1..Len(s)
  PROVE  RemoveAt(s, i) \in Seq(S) /\ Len(RemoveAt(s, i)) = Len(s) - 1
<1>1. SubSeq(s, 1, i - 1) \in Seq(S) /\ Len(SubSeq(s, 1, i - 1)) = i - 1
  BY SubSeqProperties
<1>2. SubSeq(s, i + 1, Len(s)) \in Seq(S) /\ Len(SubSeq(s, i + 1, Len(s))) = Len(s) - i
  BY SubSeqProperties
<1>3. /\ RemoveAt(s, i) \in Seq(S)
      /\ Len(RemoveAt(s, i)) = Len(SubSeq(s, 1, i - 1)) + Len(SubSeq(s, i + 1, Len(s)))
  <2> DEFINE x == SubSeq(s, 1, i - 1)
             y == SubSeq(s, i + 1, Len(s))
  <2>1. x \in Seq(S) /\ y \in Seq(S) /\ RemoveAt(s, i) = x \o y
    BY <1>1, <1>2 DEF RemoveAt
  <2> HIDE DEF x, y
  <2> QED BY <2>1, ConcatProperties DEF x, y
<1>4. ASSUME NEW x, NEW n \in Nat, x = (i - 1) + (n - i), i \in Nat PROVE x = n - 1
  BY <1>4
<1>5. Len(RemoveAt(s, i)) = (i - 1) + (Len(s) - i)
  BY <1>1, <1>2, <1>3
<1>6. Len(s) \in Nat /\ i \in Nat
  OBVIOUS
<1> QED BY <1>3, <1>4, <1>5, <1>6

\* A document whose ids are of lines it had: each op makes one at most.
Proper == {d \in Doc : d.nextId <= d.rev + 1}

\* What the log keeps.
Op == [kind: {"set", "delete"}, line: Rev] \cup [kind: {"insert"}, after: 0..MaxRev]
Entry == [rev: Rev, by: Writers, op: Op, line: Rev]

LEMMA EmptyIsProper == empty \in Proper
<1> DEFINE none == <<>>
<1>1. none \in Seq(Line) /\ Len(none) = 0
  OBVIOUS
<1>2. none \in BoundedSeq(Line, MaxLines)
  <2>1. MaxLines \in Nat /\ Len(none) <= MaxLines
    BY <1>1, Sizes
  <2> HIDE DEF none
  <2> QED BY <1>1, <2>1, Bounded
<1> QED BY <1>2, Sizes DEF empty, Proper, Doc

\* An op makes a document of the next rev, and replaying what the log says of it makes the same.
LEMMA StepIs ==
  ASSUME NEW d \in Proper, d.rev < MaxRev, NEW op \in Ops(d), NEW by \in Writers
  PROVE  /\ Step(d, op, by) \in Proper /\ Step(d, op, by).rev = d.rev + 1
         /\ Applied(d, op, by) \in Entry /\ Applied(d, op, by).rev = d.rev + 1
         /\ Again(d, Applied(d, op, by)) = Step(d, op, by)
<1> DEFINE ids == {l.id : l \in ToSet(d.lines)}
<1>1. /\ d.rev \in 0..MaxRev /\ d.nextId \in 1..(MaxRev + 1) /\ d.nextId <= d.rev + 1
      /\ d.lines \in Seq(Line) /\ Len(d.lines) <= MaxLines
      /\ d = [rev |-> d.rev, nextId |-> d.nextId, lines |-> d.lines]
  BY Bounded, Sizes DEF Proper, Doc
<1>2. d.rev + 1 \in 1..MaxRev /\ d.rev \in Nat /\ d.nextId \in 1..MaxRev
  BY <1>1, Sizes
<1>3. Applied(d, op, by).rev = d.rev + 1
  BY DEF Applied
<1>6. ids \subseteq Rev
  <2>1. ASSUME NEW i \in 1..Len(d.lines) PROVE d.lines[i].id \in Rev
    <3>1. d.lines[i] \in Line
      BY <1>1
    <3> QED BY <3>1 DEF Line, Rev
  <2>2. DOMAIN d.lines = 1..Len(d.lines)
    BY <1>1
  <2> QED BY <2>1, <2>2 DEF ToSet
<1>4. CASE op.kind = "insert"
  <2>1. Len(d.lines) < MaxLines
    BY <1>4 DEF Ops
  <2> DEFINE i == Locate(d.lines, op.after)
             new == [id |-> d.nextId, by |-> by, rev |-> d.rev + 1]
             all == InsertAt(d.lines, i + 1, new)
  <2>2. i + 1 \in 1..(Len(d.lines) + 1) /\ new \in Line
    BY <1>1, <1>2, LocateIs DEF Line
  <2>3. all \in Seq(Line) /\ Len(all) <= MaxLines
    <3> HIDE DEF i, new
    <3> QED BY <1>1, <2>1, <2>2, InsertedSeq, Sizes
  <2>4. Step(d, op, by) = [rev |-> d.rev + 1, nextId |-> d.nextId + 1, lines |-> all]
    BY <1>4 DEF Step
  <2>5. Step(d, op, by) \in Proper
    <3> HIDE DEF all
    <3>1. all \in BoundedSeq(Line, MaxLines) /\ d.nextId + 1 \in 1..(MaxRev + 1) /\ d.rev + 1 \in 0..MaxRev
      BY <1>1, <1>2, <2>3, Bounded, Sizes
    <3> QED BY <1>1, <1>2, <2>4, <3>1 DEF Proper, Doc
  <2>6. Applied(d, op, by) = [rev |-> d.rev + 1, by |-> by, op |-> op, line |-> d.nextId]
    BY <1>4 DEF Applied
  <2>7. Again(d, Applied(d, op, by)) = [rev |-> d.rev + 1, nextId |-> d.nextId + 1, lines |-> all]
    BY <1>1, <1>2, <1>4, <2>6 DEF Again
  <2>8. op \in Op
    <3>1. op \in [kind: {"insert"}, after: ids \cup {0}]
      BY <1>4 DEF Ops
    <3> HIDE DEF ids
    <3>2. ids \cup {0} \subseteq 0..MaxRev
      BY <1>6, Sizes DEF Rev
    <3> QED BY <3>1, <3>2 DEF Op
  <2>9. Applied(d, op, by) \in Entry
    BY <1>2, <2>6, <2>8 DEF Entry, Rev
  <2> QED BY <1>3, <2>4, <2>5, <2>7, <2>9
<1>5. CASE op.kind # "insert"
  <2>1. op.kind \in {"set", "delete"} /\ op.line \in ids
    BY <1>5 DEF Ops
  <2> DEFINE i == Locate(d.lines, op.line)
             new == [id |-> op.line, by |-> by, rev |-> d.rev + 1]
  <2>2. PICK j \in 1..Len(d.lines) : d.lines[j].id = op.line
    BY <1>1, <2>1 DEF ToSet
  <2>3. i \in 1..Len(d.lines)
    BY <1>1, <2>2, LocateIs
  <2>4. new \in Line
    <3>1. d.lines[j] \in Line
      BY <1>1
    <3> QED BY <1>2, <2>2, <3>1 DEF Line
  <2> DEFINE all == IF op.kind = "set" THEN [d.lines EXCEPT ![i] = new] ELSE RemoveAt(d.lines, i)
  <2>5. all \in Seq(Line) /\ Len(all) <= MaxLines
    <3> HIDE DEF i, new
    <3>1. [d.lines EXCEPT ![i] = new] \in Seq(Line) /\ Len([d.lines EXCEPT ![i] = new]) = Len(d.lines)
      BY <1>1, <2>3, <2>4
    <3>2. RemoveAt(d.lines, i) \in Seq(Line) /\ Len(RemoveAt(d.lines, i)) = Len(d.lines) - 1
      BY <1>1, <2>3, RemovedSeq
    <3> QED BY <1>1, <3>1, <3>2, Sizes
  <2>6. Step(d, op, by) = [rev |-> d.rev + 1, nextId |-> d.nextId, lines |-> all]
    <3>1. Step(d, op, by) = [d EXCEPT !.rev = d.rev + 1, !.lines = all]
      BY <1>5 DEF Step, ReplaceAt
    <3> HIDE DEF all
    <3> QED BY <1>1, <3>1
  <2>7. Step(d, op, by) \in Proper /\ Step(d, op, by).rev = d.rev + 1
    <3> HIDE DEF all
    <3>1. all \in BoundedSeq(Line, MaxLines)
      BY <2>5, Bounded, Sizes
    <3> QED BY <1>1, <1>2, <2>6, <3>1 DEF Proper, Doc
  <2>8. Applied(d, op, by) = [rev |-> d.rev + 1, by |-> by, op |-> op, line |-> op.line]
    BY <1>5 DEF Applied
  <2>9. Again(d, Applied(d, op, by)) = [d EXCEPT !.rev = d.rev + 1, !.lines = all]
    <3> DEFINE a == Applied(d, op, by)
    <3>1. /\ a.rev = d.rev + 1 /\ a.by = by /\ a.op = op /\ a.line = op.line
          /\ Locate(d.lines, IF a.op.kind = "insert" THEN a.op.after ELSE a.line) = i
      BY <1>5, <2>8
    <3> HIDE DEF a
    <3>2. i # 0
      BY <2>3
    <3> HIDE DEF i
    <3>3. CASE op.kind = "set"
      <4>1. Again(d, a) = [d EXCEPT !.rev = a.rev, !.lines = Written(d, i, a)]
        BY <3>1, <3>2, <3>3 DEF Again
      <4>2. Written(d, i, a) = all
        BY <3>1, <3>3 DEF Written
      <4> HIDE DEF all
      <4> QED BY <3>1, <4>1, <4>2 DEF a
    <3>4. CASE op.kind = "delete"
      <4>1. Again(d, a) = [d EXCEPT !.rev = a.rev, !.lines = RemoveAt(d.lines, i)]
        BY <3>1, <3>2, <3>4 DEF Again
      <4>2. RemoveAt(d.lines, i) = all
        BY <3>4
      <4> HIDE DEF all
      <4> QED BY <3>1, <4>1, <4>2 DEF a
    <3> QED BY <2>1, <3>3, <3>4 DEF a
  <2>10. Again(d, Applied(d, op, by)) = [rev |-> d.rev + 1, nextId |-> d.nextId, lines |-> all]
    <3> HIDE DEF all
    <3> QED BY <1>1, <2>9
  <2>11. op \in Op
    <3>1. op \in [kind: {"set", "delete"}, line: ids]
      BY <1>5 DEF Ops
    <3> HIDE DEF ids
    <3> QED BY <1>6, <3>1 DEF Op
  <2>12. Applied(d, op, by) \in Entry
    <3>1. op.line \in Rev
      BY <1>6, <2>1
    <3> QED BY <1>2, <2>8, <2>11, <3>1 DEF Entry, Rev
  <2> QED BY <1>3, <2>6, <2>7, <2>10, <2>12
<1> QED BY <1>4, <1>5

-----------------------------------------------------------------------------
(* Batches: what the log says of them leads from one document to the next. *)

\* ds are the documents on the way.
Chain(ds, l, d, e) ==
  /\ ds \in [0..Len(l) -> Proper] /\ ds[0] = d /\ ds[Len(l)] = e
  /\ \A i \in 1..Len(l) : \E op \in Ops(ds[i - 1]), by \in Writers :
       ds[i] = Step(ds[i - 1], op, by) /\ l[i] = Applied(ds[i - 1], op, by)

Leads(d, l, e) == \E ds : Chain(ds, l, d, e)

Way(d, k, way) ==
  /\ way.log \in Seq(Entry) /\ Len(way.log) = k
  /\ way.doc \in Proper /\ way.doc.rev = d.rev + k /\ Leads(d, way.log, way.doc)

\* A batch an op longer.
Further(way, op, by) == [doc |-> Step(way.doc, op, by), log |-> Append(way.log, Applied(way.doc, op, by))]
More(ways) == UNION {{Further(way, op, by) : op \in Ops(way.doc), by \in Writers} : way \in ways}

LEMMA MoreHas ==
  ASSUME NEW ways, NEW w \in More(ways)
  PROVE  \E way \in ways : \E op \in Ops(way.doc), by \in Writers : w = Further(way, op, by)
<1> DEFINE F(way) == {Further(way, op, by) : op \in Ops(way.doc), by \in Writers}
<1>1. PICK way \in ways : w \in F(way)
  <2>1. More(ways) = UNION {F(way) : way \in ways}
    BY DEF More
  <2> HIDE DEF F
  <2> QED BY <2>1
<1>2. PICK op \in Ops(way.doc), by \in Writers : w = Further(way, op, by)
  BY <1>1
<1> QED BY <1>2

Ways(f, d, n) == f = [k \in 0..n |-> IF k = 0 THEN {[doc |-> d, log |-> <<>>]} ELSE More(f[k - 1])]

LEMMA WaysExist ==
  ASSUME NEW d, NEW n \in Nat
  PROVE  \E f : Ways(f, d, n)
<1> DEFINE Bad == {k \in 0..n : ~\E f : Ways(f, d, k)}
<1>1. SUFFICES ASSUME Bad # {} PROVE FALSE
  OBVIOUS
<1>2. PICK k \in Bad : \A y \in Bad : k <= y
  <2>1. Bad \subseteq Nat
    OBVIOUS
  <2> HIDE DEF Bad
  <2> QED BY <1>1, <2>1, LeastNumber
<1> DEFINE first == {[doc |-> d, log |-> <<>>]}
<1>3. CASE k = 0
  <2>1. Ways([i \in 0..0 |-> first], d, 0)
    BY DEF Ways
  <2> QED BY <1>3, <2>1
<1>4. CASE k # 0
  <2>1. k - 1 \in 0..n /\ k - 1 \notin Bad
    BY <1>2, <1>4
  <2>2. PICK f : Ways(f, d, k - 1)
    BY <2>1
  <2> HIDE DEF first
  <2> DEFINE g == [i \in 0..k |-> IF i = k THEN More(f[k - 1]) ELSE f[i]]
  <2>3. ASSUME NEW i \in 0..k PROVE g[i] = IF i = 0 THEN first ELSE More(g[i - 1])
    <3>1. CASE i = 0
      <4>1. 0 \in 0..(k - 1) /\ i # k
        BY <1>4, <2>1, <3>1
      <4> QED BY <2>2, <3>1, <4>1 DEF Ways, first
    <3>2. CASE i = k
      <4>1. i - 1 \in 0..k /\ i - 1 # k /\ g[i - 1] = f[k - 1]
        BY <1>4, <2>1, <3>2
      <4> QED BY <1>4, <3>2, <4>1
    <3>3. CASE i # 0 /\ i # k
      <4>1. i \in 0..(k - 1) /\ i - 1 \in 0..k /\ i - 1 # k /\ g[i - 1] = f[i - 1] /\ g[i] = f[i]
        BY <1>4, <2>1, <3>3
      <4>2. f[i] = More(f[i - 1])
        BY <2>2, <3>3, <4>1 DEF Ways
      <4> QED BY <3>3, <4>1, <4>2
    <3> QED BY <3>1, <3>2, <3>3
  <2>4. g = [i \in 0..k |-> g[i]]
    OBVIOUS
  <2>5. Ways(g, d, k)
    <3> HIDE DEF g
    <3> QED BY <2>3, <2>4 DEF Ways, first
  <2> QED BY <2>5
<1> QED BY <1>3, <1>4

LEMMA MoreIs ==
  ASSUME NEW d \in Proper, NEW k \in Nat, d.rev + k < MaxRev, NEW way, Way(d, k, way),
         NEW op \in Ops(way.doc), NEW by \in Writers
  PROVE  Way(d, k + 1, Further(way, op, by))
<1> DEFINE a == Applied(way.doc, op, by)
           e == Step(way.doc, op, by)
           l == Append(way.log, a)
<1>1. d.rev \in Nat /\ way.doc.rev \in Nat /\ way.doc.rev = d.rev + k /\ way.doc.rev + 1 = d.rev + (k + 1)
  BY DEF Way, Proper, Doc
<1>2. e \in Proper /\ e.rev = d.rev + (k + 1) /\ a \in Entry
  BY <1>1, StepIs DEF Way
<1>4. PICK ds : Chain(ds, way.log, d, way.doc)
  BY DEF Way, Leads
<1>5. /\ l \in Seq(Entry) /\ Len(l) = k + 1 /\ l[k + 1] = a
      /\ \A i \in 1..k : l[i] = way.log[i]
  <2>1. way.log \in Seq(Entry) /\ Len(way.log) = k
    BY DEF Way
  <2> HIDE DEF a
  <2> QED BY <1>2, <2>1
<1> HIDE DEF a, e, l
<1> DEFINE es == [i \in 0..(k + 1) |-> IF i = k + 1 THEN e ELSE ds[i]]
<1>8. Chain(es, l, d, e)
  <2>1. ds \in [0..k -> Proper] /\ ds[0] = d /\ ds[k] = way.doc
    BY <1>4 DEF Chain, Way
  <2>2. ASSUME NEW i \in 0..(k + 1), i # k + 1 PROVE i \in 0..k /\ es[i] = ds[i]
    BY <2>2
  <2>3. es \in [0..(k + 1) -> Proper] /\ es[0] = d /\ es[k + 1] = e
    BY <1>2, <2>1, <2>2
  <2>4. ASSUME NEW i \in 1..(k + 1)
        PROVE  \E o \in Ops(es[i - 1]), w \in Writers :
                 es[i] = Step(es[i - 1], o, w) /\ l[i] = Applied(es[i - 1], o, w)
    <3>1. i - 1 \in 0..k /\ es[i - 1] = ds[i - 1]
      OBVIOUS
    <3> HIDE DEF es
    <3>2. CASE i = k + 1
      <4>1. es[i - 1] = way.doc /\ es[i] = Step(way.doc, op, by) /\ l[i] = Applied(way.doc, op, by)
        BY <1>5, <2>1, <2>3, <3>1, <3>2 DEF a, e
      <4> QED BY <4>1
    <3>3. CASE i # k + 1
      <4>1. i \in 1..k /\ i \in 0..(k + 1)
        BY <3>3
      <4>2. es[i] = ds[i] /\ l[i] = way.log[i]
        BY <1>5, <2>2, <3>3, <4>1
      <4>3. \E o \in Ops(ds[i - 1]), w \in Writers :
              ds[i] = Step(ds[i - 1], o, w) /\ way.log[i] = Applied(ds[i - 1], o, w)
        BY <1>4, <4>1 DEF Chain, Way
      <4> QED BY <3>1, <4>2, <4>3
    <3> QED BY <3>2, <3>3
  <2> HIDE DEF es
  <2> QED BY <1>5, <2>3, <2>4 DEF Chain
<1>9. Leads(d, l, e)
  BY <1>8 DEF Leads
<1> DEFINE more == [doc |-> e, log |-> l]
<1>10. more.doc = e /\ more.log = l
  OBVIOUS
<1>11. Way(d, k + 1, more)
  <2> HIDE DEF more
  <2> QED BY <1>2, <1>5, <1>9, <1>10 DEF Way
<1> QED BY <1>11 DEF a, e, l, Further

\* Every batch leads somewhere, its log says how, and who did it.
LEMMA BatchIs ==
  ASSUME NEW d \in Proper, NEW n \in Nat, d.rev + n <= MaxRev, NEW made \in Batch(d, n)
  PROVE  Way(d, n, made)
<1> DEFINE D(f) == [k \in 0..n |-> IF k = 0 THEN {[doc |-> d, log |-> <<>>]} ELSE More(f[k - 1])]
           g == CHOOSE f : f = D(f)
<1>1. PICK f : Ways(f, d, n)
  BY WaysExist
<1>2. f = D(f)
  BY <1>1 DEF Ways
<1>3. g = D(g)
  BY <1>2
<1>4. Batch(d, n) = g[n]
  BY DEF Batch, More, Further
<1> HIDE DEF g
<1> DEFINE Bad == {k \in 0..n : ~\A way \in g[k] : Way(d, k, way)}
<1>5. ASSUME Bad # {} PROVE FALSE
  <2>1. PICK k \in Bad : \A y \in Bad : k <= y
    <3>1. Bad \subseteq Nat
      OBVIOUS
    <3> HIDE DEF Bad
    <3> QED BY <1>5, <3>1, LeastNumber
  <2>2. PICK way \in g[k] : ~Way(d, k, way)
    BY <2>1
  <2>3. CASE k = 0
    <3> DEFINE w == [doc |-> d, log |-> <<>>]
    <3>1. way = w
      BY <1>3, <2>2, <2>3
    <3>2. Chain([i \in 0..0 |-> d], <<>>, d, d)
      BY DEF Chain
    <3>3. Leads(d, <<>>, d)
      BY <3>2 DEF Leads
    <3>4. <<>> \in Seq(Entry) /\ Len(<<>>) = 0
      OBVIOUS
    <3>5. d.rev = d.rev + 0
      BY DEF Proper, Doc
    <3>6. w.log = <<>> /\ w.doc = d
      OBVIOUS
    <3> HIDE DEF w
    <3>7. Way(d, 0, w)
      BY <3>3, <3>4, <3>5, <3>6 DEF Way
    <3> QED BY <2>2, <2>3, <3>1, <3>7
  <2>4. CASE k # 0
    <3>1. k - 1 \in 0..n /\ k - 1 \notin Bad /\ k - 1 \in Nat /\ k = (k - 1) + 1
      BY <2>1, <2>4
    <3>2. g[k] = More(g[k - 1])
      <4>1. k \in 0..n
        BY <2>1
      <4> QED BY <1>3, <2>4, <4>1
    <3>3. PICK was \in g[k - 1] :
            \E op \in Ops(was.doc), by \in Writers : way = Further(was, op, by)
      <4>1. way \in More(g[k - 1])
        BY <2>2, <3>2
      <4> QED BY <4>1, MoreHas
    <3>4. Way(d, k - 1, was)
      BY <3>1, <3>3
    <3>5. d.rev + (k - 1) < MaxRev
      <4>1. d.rev \in Nat
        BY DEF Proper, Doc
      <4>2. k \in 0..n
        BY <2>1
      <4> QED BY <4>1, <4>2, Sizes
    <3>6. Way(d, (k - 1) + 1, way)
      <4> DEFINE j == k - 1
      <4>1. j \in Nat /\ d.rev + j < MaxRev /\ Way(d, j, was)
        BY <3>1, <3>4, <3>5
      <4> HIDE DEF j
      <4>2. Way(d, j + 1, way)
        BY <3>3, <4>1, MoreIs
      <4> QED BY <4>2 DEF j
    <3> QED BY <2>2, <3>1, <3>6
  <2> QED BY <2>3, <2>4
<1>6. n \in 0..n
  OBVIOUS
<1> QED BY <1>4, <1>5, <1>6

-----------------------------------------------------------------------------
(* Replay.                                                                 *)

\* f[r] is what the ops of a log up to r make of a document.
Docs(f, l, from, n) ==
  /\ f = [r \in 0..n |-> f[r]] /\ f[0] = from
  /\ \A r \in 1..n : f[r] = IF r \in DOMAIN l THEN Again(f[r - 1], l[r]) ELSE f[r - 1]

LEMMA DocsExist ==
  ASSUME NEW l, NEW from, NEW n \in Nat
  PROVE  \E f : Docs(f, l, from, n)
<1> DEFINE Bad == {k \in 0..n : ~\E f : Docs(f, l, from, k)}
<1>1. SUFFICES ASSUME Bad # {} PROVE FALSE
  OBVIOUS
<1>2. PICK k \in Bad : \A y \in Bad : k <= y
  <2>1. Bad \subseteq Nat
    OBVIOUS
  <2> HIDE DEF Bad
  <2> QED BY <1>1, <2>1, LeastNumber
<1>3. CASE k = 0
  <2>1. Docs([i \in 0..0 |-> from], l, from, 0)
    BY DEF Docs
  <2> QED BY <1>3, <2>1
<1>4. CASE k # 0
  <2>1. k - 1 \in 0..n /\ k - 1 \notin Bad
    BY <1>2, <1>4
  <2>2. PICK f : Docs(f, l, from, k - 1)
    BY <2>1
  <2> DEFINE last == IF k \in DOMAIN l THEN Again(f[k - 1], l[k]) ELSE f[k - 1]
  <2> HIDE DEF last
  <2> DEFINE g == [i \in 0..k |-> IF i = k THEN last ELSE f[i]]
  <2>3. g[0] = from
    BY <1>4, <2>1, <2>2 DEF Docs
  <2>4. ASSUME NEW i \in 1..k PROVE g[i] = IF i \in DOMAIN l THEN Again(g[i - 1], l[i]) ELSE g[i - 1]
    <3>1. i - 1 \in 0..k /\ i - 1 # k /\ g[i - 1] = f[i - 1]
      BY <1>4, <2>1
    <3>2. CASE i = k
      <4>1. g[i] = last
        BY <3>2
      <4> HIDE DEF g
      <4> QED BY <3>1, <3>2, <4>1 DEF last
    <3>3. CASE i # k
      <4>1. i \in 1..(k - 1) /\ g[i] = f[i]
        BY <1>4, <2>1, <3>3
      <4> HIDE DEF g
      <4> QED BY <2>2, <3>1, <4>1 DEF Docs
    <3> QED BY <3>2, <3>3
  <2>5. g = [i \in 0..k |-> g[i]]
    OBVIOUS
  <2>6. Docs(g, l, from, k)
    <3> HIDE DEF g
    <3> QED BY <2>3, <2>4, <2>5 DEF Docs
  <2> QED BY <2>6
<1> QED BY <1>3, <1>4

LEMMA ReplayIs ==
  ASSUME NEW l, NEW from
  PROVE  \E f : Docs(f, l, from, MaxRev) /\ Replay(l, from) = f[MaxRev]
<1>1. MaxRev \in Nat /\ MaxRev \in 0..MaxRev
  BY Sizes
<1>2. PICK f : Docs(f, l, from, MaxRev)
  BY <1>1, DocsExist
<1> DEFINE D(e) == [r \in 0..MaxRev |-> IF r = 0 THEN {from}
                                       ELSE IF r \in DOMAIN l THEN {Again(d, l[r]) : d \in e[r - 1]}
                                       ELSE e[r - 1]]
           g == CHOOSE e : e = D(e)
           ones == [r \in 0..MaxRev |-> {f[r]}]
<1>3. ones = D(ones)
  <2>1. ASSUME NEW r \in 0..MaxRev
        PROVE  ones[r] = IF r = 0 THEN {from}
                         ELSE IF r \in DOMAIN l THEN {Again(d, l[r]) : d \in ones[r - 1]}
                         ELSE ones[r - 1]
    <3>1. CASE r = 0
      BY <1>2, <3>1 DEF Docs
    <3>2. CASE r # 0
      <4>1. r \in 1..MaxRev /\ r - 1 \in 0..MaxRev
        BY <1>1, <3>2
      <4>2. ones[r] = {f[r]} /\ ones[r - 1] = {f[r - 1]}
        BY <4>1
      <4>3. f[r] = IF r \in DOMAIN l THEN Again(f[r - 1], l[r]) ELSE f[r - 1]
        BY <1>2, <4>1 DEF Docs
      <4>4. {Again(d, l[r]) : d \in {f[r - 1]}} = {Again(f[r - 1], l[r])}
        OBVIOUS
      <4> HIDE DEF ones
      <4> QED BY <3>2, <4>2, <4>3, <4>4
    <3> QED BY <3>1, <3>2
  <2> QED BY <2>1
<1>4. g = D(g)
  <2> HIDE DEF ones
  <2> QED BY <1>3
<1>5. Replay(l, from) = CHOOSE d \in g[MaxRev] : TRUE
  BY DEF Replay
<1> HIDE DEF g, ones
<1> DEFINE Bad == {r \in 0..MaxRev : g[r] # {f[r]}}
<1>6. ASSUME Bad # {} PROVE FALSE
  <2>1. PICK r \in Bad : \A y \in Bad : r <= y
    <3>1. Bad \subseteq Nat
      OBVIOUS
    <3> HIDE DEF Bad
    <3> QED BY <1>6, <3>1, LeastNumber
  <2>2. r \in 0..MaxRev /\ g[r] # {f[r]}
    BY <2>1
  <2>3. CASE r = 0
    <3>1. g[r] = {from} /\ f[r] = from
      BY <1>2, <1>4, <2>2, <2>3 DEF Docs
    <3> QED BY <2>2, <3>1
  <2>4. CASE r # 0
    <3>1. r \in 1..MaxRev /\ r - 1 \in 0..MaxRev /\ r - 1 \notin Bad
      BY <1>1, <2>1, <2>2, <2>4
    <3>2. g[r - 1] = {f[r - 1]}
      BY <3>1
    <3>3. f[r] = IF r \in DOMAIN l THEN Again(f[r - 1], l[r]) ELSE f[r - 1]
      BY <1>2, <3>1 DEF Docs
    <3>4. g[r] = IF r \in DOMAIN l THEN {Again(d, l[r]) : d \in g[r - 1]} ELSE g[r - 1]
      BY <1>4, <2>2, <2>4
    <3>5. {Again(d, l[r]) : d \in {f[r - 1]}} = {Again(f[r - 1], l[r])}
      OBVIOUS
    <3> QED BY <2>2, <3>2, <3>3, <3>4, <3>5
  <2> QED BY <2>3, <2>4
<1>7. g[MaxRev] = {f[MaxRev]}
  BY <1>1, <1>6
<1>8. Replay(l, from) = f[MaxRev]
  BY <1>5, <1>7
<1> QED BY <1>2, <1>8

\* From some rev on there is nothing to replay.
LEMMA DocsStay ==
  ASSUME NEW l, NEW from, NEW f, Docs(f, l, from, MaxRev), NEW m \in 0..MaxRev,
         \A r \in Rev : r > m => r \notin DOMAIN l
  PROVE  f[MaxRev] = f[m]
<1> DEFINE Bad == {r \in 0..MaxRev : r > m /\ f[r] # f[m]}
<1>1. ASSUME Bad # {} PROVE FALSE
  <2>1. PICK r \in Bad : \A y \in Bad : r <= y
    <3>1. Bad \subseteq Nat
      OBVIOUS
    <3> HIDE DEF Bad
    <3> QED BY <1>1, <3>1, LeastNumber
  <2>2. r \in 1..MaxRev /\ r - 1 \in 0..MaxRev /\ r - 1 \notin Bad /\ r > m /\ f[r] # f[m]
    BY <2>1, Sizes
  <2>3. f[r] = f[r - 1]
    BY <2>2 DEF Docs, Rev
  <2>4. f[r - 1] = f[m]
    <3>1. r - 1 = m \/ r - 1 > m
      BY <2>2, Sizes
    <3> QED BY <2>2, <3>1
  <2> QED BY <2>2, <2>3, <2>4
<1>2. MaxRev \in 0..MaxRev /\ (MaxRev > m \/ MaxRev = m)
  BY Sizes
<1> QED BY <1>1, <1>2

LEMMA ReplayNone ==
  ASSUME NEW l, NEW from, DOMAIN l \cap Rev = {}
  PROVE  Replay(l, from) = from
<1>1. PICK f : Docs(f, l, from, MaxRev) /\ Replay(l, from) = f[MaxRev]
  BY ReplayIs
<1>2. 0 \in 0..MaxRev /\ \A r \in Rev : r > 0 => r \notin DOMAIN l
  BY Sizes
<1>3. f[MaxRev] = f[0]
  BY <1>1, <1>2, DocsStay
<1> QED BY <1>1, <1>3 DEF Docs

\* An op after all others is replayed onto what they made.
LEMMA ReplayMore ==
  ASSUME NEW l, NEW m, NEW from, NEW n \in Rev,
         \A r \in Rev : r \in DOMAIN l => r < n,
         \A r \in Rev : r \in DOMAIN m <=> r \in DOMAIN l \/ r = n,
         \A r \in Rev : r \in DOMAIN l => m[r] = l[r]
  PROVE  Replay(m, from) = Again(Replay(l, from), m[n])
<1>1. PICK f : Docs(f, l, from, MaxRev) /\ Replay(l, from) = f[MaxRev]
  BY ReplayIs
<1>2. PICK g : Docs(g, m, from, MaxRev) /\ Replay(m, from) = g[MaxRev]
  BY ReplayIs
<1>3. n \in 1..MaxRev /\ n \in 0..MaxRev /\ n - 1 \in 0..MaxRev
  BY Sizes DEF Rev
<1> DEFINE Bad == {r \in 0..MaxRev : r < n /\ g[r] # f[r]}
<1>4. ASSUME Bad # {} PROVE FALSE
  <2>1. PICK r \in Bad : \A y \in Bad : r <= y
    <3>1. Bad \subseteq Nat
      OBVIOUS
    <3> HIDE DEF Bad
    <3> QED BY <1>4, <3>1, LeastNumber
  <2>2. r \in 0..MaxRev /\ r < n /\ g[r] # f[r]
    BY <2>1
  <2>3. r # 0
    BY <1>1, <1>2, <2>2 DEF Docs
  <2>4. r \in 1..MaxRev /\ r - 1 \in 0..MaxRev /\ r - 1 < n /\ r - 1 \notin Bad
    BY <1>3, <2>1, <2>2, <2>3, Sizes
  <2>5. g[r - 1] = f[r - 1]
    BY <2>4
  <2>6. r \in Rev /\ (r \in DOMAIN m <=> r \in DOMAIN l) /\ (r \in DOMAIN l => m[r] = l[r])
    BY <2>2, <2>4 DEF Rev
  <2>7. f[r] = IF r \in DOMAIN l THEN Again(f[r - 1], l[r]) ELSE f[r - 1]
    BY <1>1, <2>4 DEF Docs
  <2>8. g[r] = IF r \in DOMAIN m THEN Again(g[r - 1], m[r]) ELSE g[r - 1]
    BY <1>2, <2>4 DEF Docs
  <2> QED BY <2>2, <2>5, <2>6, <2>7, <2>8
<1>5. g[n - 1] = f[n - 1]
  <2>1. n - 1 < n
    BY <1>3
  <2> QED BY <1>3, <1>4, <2>1
<1>6. g[n] = Again(g[n - 1], m[n])
  BY <1>2, <1>3 DEF Docs
<1>7. f[MaxRev] = f[n - 1]
  <2> DEFINE k == n - 1
  <2>1. k \in 0..MaxRev /\ \A r \in Rev : r > k => r \notin DOMAIN l
    <3>1. ASSUME NEW r \in Rev, r > k PROVE ~(r < n)
      BY <1>3, <3>1 DEF Rev
    <3> QED BY <1>3, <3>1
  <2> HIDE DEF k
  <2>2. f[MaxRev] = f[k]
    BY <1>1, <2>1, DocsStay
  <2> QED BY <2>2 DEF k
<1>8. g[MaxRev] = g[n]
  <2>1. \A r \in Rev : r > n => r \notin DOMAIN m
    <3>1. ASSUME NEW r \in Rev, r > n PROVE ~(r < n) /\ r # n
      BY <1>3, <3>1 DEF Rev
    <3> QED BY <3>1
  <2> QED BY <1>2, <1>3, <2>1, DocsStay
<1> QED BY <1>1, <1>2, <1>5, <1>6, <1>7, <1>8

-----------------------------------------------------------------------------
(* The disk.                                                               *)

Keys == {BaseKey, CommitsKey, DocKey, SnapsKey, TrimmedKey} \cup {CommitKey(n) : n \in 1..MaxCommits}
          \cup {OpKey(r) : r \in Rev} \cup {SnapKey(r) : r \in Rev}

LEMMA PutIs ==
  ASSUME NEW puts
  PROVE  /\ DOMAIN Put(puts) = DOMAIN disk \cup {p[1] : p \in puts}
         /\ \A p \in puts : \E q \in puts : q[1] = p[1] /\ Put(puts)[p[1]] = q[2]
         /\ \A k \in DOMAIN disk : (\A p \in puts : p[1] # k) => Put(puts)[k] = disk[k]
<1>1. DOMAIN Put(puts) = DOMAIN disk \cup {p[1] : p \in puts}
  BY DEF Put
<1>2. ASSUME NEW p \in puts PROVE \E q \in puts : q[1] = p[1] /\ Put(puts)[p[1]] = q[2]
  <2> DEFINE q == CHOOSE q \in puts : q[1] = p[1]
  <2>1. q \in puts /\ q[1] = p[1]
    OBVIOUS
  <2>2. Put(puts)[p[1]] = q[2]
    BY DEF Put
  <2> HIDE DEF q
  <2> QED BY <2>1, <2>2
<1>3. ASSUME NEW k \in DOMAIN disk, \A p \in puts : p[1] # k PROVE Put(puts)[k] = disk[k]
  BY <1>3 DEF Put
<1> QED BY <1>1, <1>2, <1>3

LEMMA WithoutIs ==
  ASSUME NEW keys
  PROVE  /\ DOMAIN Without(keys) = DOMAIN disk \ keys
         /\ \A k \in DOMAIN disk \ keys : Without(keys)[k] = disk[k]
BY DEF Without, Restrict

-----------------------------------------------------------------------------
(* The shape of the state.                                                 *)

\* What is remembered, and what is on the disk of it.
Shape(d, b, c, s, t) ==
  /\ d \in Proper /\ b \in Proper \cup {None} /\ c \in 0..MaxCommits
  /\ s \in BoundedSeq(Rev, KeepSnaps) /\ t \in 0..MaxRev

InMemory == Shape(doc, base, commits, snaps, trimmed)

OnDisk ==
  /\ Shape(Get(DocKey, empty), Get(BaseKey, None), Get(CommitsKey, 0), Get(SnapsKey, <<>>), Get(TrimmedKey, 0))
  /\ \A r \in Rev : Has(OpKey(r)) => disk[OpKey(r)] \in Entry
  /\ \A n \in 1..MaxCommits : Has(CommitKey(n)) => disk[CommitKey(n)] \in Commit
  /\ DOMAIN disk \subseteq Keys

UnderWay ==
  /\ edit \in [at: {"idle", "applied", "saved", "snapped"}, drop: Rev \cup {None}]
  /\ log \in Seq(Entry) /\ sweeps \in Nat /\ hashing \in Hashing \cup {None}

Typed == InMemory /\ OnDisk /\ UnderWay

LEMMA NothingIsTyped == Shape(empty, None, 0, <<>>, 0)
<1> DEFINE none == <<>>
<1>1. none \in Seq(Rev) /\ Len(none) = 0
  OBVIOUS
<1>2. none \in BoundedSeq(Rev, KeepSnaps)
  <2>1. KeepSnaps \in Nat /\ Len(none) <= KeepSnaps
    BY <1>1, Sizes
  <2> HIDE DEF none
  <2> QED BY <1>1, <2>1, Bounded
<1> QED BY <1>2, EmptyIsProper, Sizes DEF Shape

LEMMA InitTyped == Init => Typed
<1> SUFFICES ASSUME Init PROVE Typed
  OBVIOUS
<1>1. DOMAIN disk = {}
  BY DEF Init
<1>2. InMemory
  BY NothingIsTyped DEF Init, InMemory
<1>3. OnDisk
  BY <1>1, NothingIsTyped DEF OnDisk, Get, Has
<1>4. UnderWay
  BY DEF Init, UnderWay
<1> QED BY <1>2, <1>3, <1>4 DEF Typed

\* Deleting keeps the shape.
LEMMA ShrunkOnDisk ==
  ASSUME OnDisk, NEW keys, disk' = Without(keys)
  PROVE  OnDisk'
<1>1. DOMAIN disk' = DOMAIN disk \ keys /\ \A k \in DOMAIN disk \ keys : disk'[k] = disk[k]
  BY WithoutIs
<1>2. \A k, o : Get(k, o)' = Get(k, o) \/ Get(k, o)' = o
  BY <1>1 DEF Get, Has
<1>3. Shape(Get(DocKey, empty), Get(BaseKey, None), Get(CommitsKey, 0), Get(SnapsKey, <<>>), Get(TrimmedKey, 0))'
  <2>1. /\ Get(DocKey, empty)' \in {Get(DocKey, empty), empty} /\ Get(BaseKey, None)' \in {Get(BaseKey, None), None}
        /\ Get(CommitsKey, 0)' \in {Get(CommitsKey, 0), 0} /\ Get(SnapsKey, <<>>)' \in {Get(SnapsKey, <<>>), <<>>}
        /\ Get(TrimmedKey, 0)' \in {Get(TrimmedKey, 0), 0}
    BY <1>2
  <2> QED BY <2>1, NothingIsTyped DEF OnDisk, Shape
<1>4. \A r \in Rev : Has(OpKey(r))' => disk'[OpKey(r)] \in Entry
  BY <1>1 DEF OnDisk, Has
<1>5. \A n \in 1..MaxCommits : Has(CommitKey(n))' => disk'[CommitKey(n)] \in Commit
  BY <1>1 DEF OnDisk, Has
<1> QED BY <1>1, <1>3, <1>4, <1>5 DEF OnDisk

LEMMA EditTyped ==
  ASSUME Typed, Edit
  PROVE  Typed' /\ \E n \in Nat : doc.rev + n <= MaxRev /\ Way(doc, n, [doc |-> doc', log |-> log'])
<1>0. PICK n \in Batches : doc.rev + n <= MaxRev /\ \E made \in Batch(doc, n) : doc' = made.doc /\ log' = made.log
  BY DEF Edit
<1>1. PICK made \in Batch(doc, n) : doc' = made.doc /\ log' = made.log
  BY <1>0
<1>2. n \in Nat /\ doc \in Proper
  BY SizesAssumption DEF Typed, InMemory, Shape
<1>3. Way(doc, n, made)
  BY <1>0, <1>1, <1>2, BatchIs
<1>4. Way(doc, n, [doc |-> doc', log |-> log'])
  BY <1>1, <1>3 DEF Way
<1>5. doc' \in Proper /\ log' \in Seq(Entry)
  BY <1>1, <1>3 DEF Way
<1>6. InMemory'
  BY <1>5 DEF Edit, Typed, InMemory, Shape
<1>7. UnderWay'
  BY <1>5 DEF Edit, Typed, UnderWay
<1>8. OnDisk'
  BY DEF Edit, Typed, OnDisk, Get, Has
<1> QED BY <1>0, <1>2, <1>4, <1>6, <1>7, <1>8 DEF Typed

LEMMA SaveDisk ==
  ASSUME log \in Seq(Entry), Save
  PROVE  /\ DOMAIN disk' = DOMAIN disk \cup {DocKey} \cup {OpKey(log[i].rev) : i \in 1..Len(log)}
         /\ disk'[DocKey] = doc
         /\ \A i \in 1..Len(log) : \E j \in 1..Len(log) : log[j].rev = log[i].rev /\ disk'[OpKey(log[i].rev)] = log[j]
         /\ \A k \in DOMAIN disk : k # DocKey /\ (\A i \in 1..Len(log) : k # OpKey(log[i].rev)) => disk'[k] = disk[k]
<1> DEFINE puts == {<<DocKey, doc>>} \cup {<<OpKey(a.rev), a>> : a \in ToSet(log)}
<1>1. disk' = Put(puts)
  BY DEF Save
<1>2. DOMAIN log = 1..Len(log) /\ ToSet(log) = {log[i] : i \in 1..Len(log)}
  BY DEF ToSet
<1>3. \A p : p \in puts <=> p = <<DocKey, doc>> \/ \E i \in 1..Len(log) : p = <<OpKey(log[i].rev), log[i]>>
  BY <1>2
<1>4. /\ DOMAIN disk' = DOMAIN disk \cup {p[1] : p \in puts}
      /\ \A p \in puts : \E q \in puts : q[1] = p[1] /\ disk'[p[1]] = q[2]
      /\ \A k \in DOMAIN disk : (\A p \in puts : p[1] # k) => disk'[k] = disk[k]
  <2> HIDE DEF puts
  <2> QED BY <1>1, PutIs
<1> HIDE DEF puts
<1>5. DOMAIN disk' = DOMAIN disk \cup {DocKey} \cup {OpKey(log[i].rev) : i \in 1..Len(log)}
  <2>1. \A p \in puts : p[1] = DocKey \/ \E i \in 1..Len(log) : p[1] = OpKey(log[i].rev)
    BY <1>3
  <2>2. \E p \in puts : p[1] = DocKey
    <3>1. <<DocKey, doc>> \in puts /\ <<DocKey, doc>>[1] = DocKey
      BY <1>3
    <3> QED BY <3>1
  <2>3. ASSUME NEW i \in 1..Len(log) PROVE \E p \in puts : p[1] = OpKey(log[i].rev)
    <3>1. <<OpKey(log[i].rev), log[i]>> \in puts /\ <<OpKey(log[i].rev), log[i]>>[1] = OpKey(log[i].rev)
      BY <1>3
    <3> QED BY <3>1
  <2> QED BY <1>4, <2>1, <2>2, <2>3
<1>6. disk'[DocKey] = doc
  <2>1. <<DocKey, doc>> \in puts /\ <<DocKey, doc>>[1] = DocKey
    BY <1>3
  <2>2. PICK q \in puts : q[1] = DocKey /\ disk'[DocKey] = q[2]
    BY <1>4, <2>1
  <2> QED BY <1>3, <2>2 DEF DocKey, OpKey
<1>7. ASSUME NEW i \in 1..Len(log)
      PROVE  \E j \in 1..Len(log) : log[j].rev = log[i].rev /\ disk'[OpKey(log[i].rev)] = log[j]
  <2>1. <<OpKey(log[i].rev), log[i]>> \in puts
    BY <1>3
  <2>2. PICK q \in puts : q[1] = OpKey(log[i].rev) /\ disk'[OpKey(log[i].rev)] = q[2]
    BY <1>4, <2>1
  <2> QED BY <1>3, <2>2 DEF DocKey, OpKey
<1>8. ASSUME NEW k \in DOMAIN disk, k # DocKey, \A i \in 1..Len(log) : k # OpKey(log[i].rev)
      PROVE  disk'[k] = disk[k]
  BY <1>3, <1>4, <1>8
<1> QED BY <1>5, <1>6, <1>7, <1>8

\* No key is another's.
LEMMA KeysApart ==
  /\ \A r, q : OpKey(r) = OpKey(q) => r = q
  /\ \A r, q : SnapKey(r) = SnapKey(q) => r = q
  /\ \A m, n : CommitKey(m) = CommitKey(n) => m = n
  /\ \A r, q : OpKey(r) # SnapKey(q) /\ OpKey(r) # CommitKey(q) /\ SnapKey(r) # CommitKey(q)
  /\ \A k \in {BaseKey, CommitsKey, DocKey, SnapsKey, TrimmedKey} : \A r :
       k # OpKey(r) /\ k # SnapKey(r) /\ k # CommitKey(r)
  /\ BaseKey # CommitsKey /\ BaseKey # DocKey /\ BaseKey # SnapsKey /\ BaseKey # TrimmedKey
  /\ CommitsKey # DocKey /\ CommitsKey # SnapsKey /\ CommitsKey # TrimmedKey
  /\ DocKey # SnapsKey /\ DocKey # TrimmedKey /\ SnapsKey # TrimmedKey
BY DEF BaseKey, CommitKey, CommitsKey, DocKey, OpKey, SnapKey, SnapsKey, TrimmedKey

LEMMA SaveTyped ==
  ASSUME Typed, Save
  PROVE  Typed'
<1>1. log \in Seq(Entry) /\ doc \in Proper
  BY DEF Typed, UnderWay, InMemory, Shape
<1>2. \A i \in 1..Len(log) : log[i] \in Entry /\ log[i].rev \in Rev
  <2>1. ASSUME NEW i \in 1..Len(log) PROVE log[i] \in Entry
    BY <1>1
  <2> QED BY <2>1 DEF Entry
<1>3. /\ DOMAIN disk' = DOMAIN disk \cup {DocKey} \cup {OpKey(log[i].rev) : i \in 1..Len(log)}
      /\ disk'[DocKey] = doc
      /\ \A i \in 1..Len(log) : \E j \in 1..Len(log) : log[j].rev = log[i].rev /\ disk'[OpKey(log[i].rev)] = log[j]
      /\ \A k \in DOMAIN disk : k # DocKey /\ (\A i \in 1..Len(log) : k # OpKey(log[i].rev)) => disk'[k] = disk[k]
  BY <1>1, SaveDisk
<1>4. InMemory'
  BY DEF Save, Typed, InMemory, Shape, memory
<1>5. UnderWay'
  <2> DEFINE none == <<>>
  <2>1. none \in Seq(Entry) /\ log' = none
    BY DEF Save
  <2> HIDE DEF none
  <2> QED BY <2>1 DEF Save, Typed, UnderWay
<1>6. Shape(Get(DocKey, empty), Get(BaseKey, None), Get(CommitsKey, 0), Get(SnapsKey, <<>>), Get(TrimmedKey, 0))'
  <2>1. Get(DocKey, empty)' = doc
    BY <1>3 DEF Get, Has
  <2>2. ASSUME NEW k \in {BaseKey, CommitsKey, SnapsKey, TrimmedKey}, NEW o PROVE Get(k, o)' = Get(k, o)
    <3>1. k # DocKey /\ \A i \in 1..Len(log) : k # OpKey(log[i].rev)
      BY KeysApart
    <3> QED BY <1>3, <3>1 DEF Get, Has
  <2> QED BY <1>1, <2>1, <2>2 DEF Typed, OnDisk, Shape
<1>7. ASSUME NEW r \in Rev, Has(OpKey(r))' PROVE disk'[OpKey(r)] \in Entry
  <2>1. CASE \E i \in 1..Len(log) : OpKey(r) = OpKey(log[i].rev)
    BY <1>2, <1>3, <2>1
  <2>2. CASE ~\E i \in 1..Len(log) : OpKey(r) = OpKey(log[i].rev)
    <3>1. OpKey(r) # DocKey
      BY KeysApart
    <3>2. OpKey(r) \in DOMAIN disk /\ disk'[OpKey(r)] = disk[OpKey(r)]
      BY <1>3, <1>7, <2>2, <3>1 DEF Has
    <3> QED BY <3>2 DEF Typed, OnDisk, Has
  <2> QED BY <2>1, <2>2
<1>8. ASSUME NEW n \in 1..MaxCommits, Has(CommitKey(n))' PROVE disk'[CommitKey(n)] \in Commit
  <2>1. CommitKey(n) # DocKey /\ \A i \in 1..Len(log) : CommitKey(n) # OpKey(log[i].rev)
    BY KeysApart
  <2>2. CommitKey(n) \in DOMAIN disk /\ disk'[CommitKey(n)] = disk[CommitKey(n)]
    BY <1>3, <1>8, <2>1 DEF Has
  <2> QED BY <2>2 DEF Typed, OnDisk, Has
<1>9. DOMAIN disk' \subseteq Keys
  BY <1>2, <1>3 DEF Typed, OnDisk, Keys
<1>10. OnDisk'
  BY <1>6, <1>7, <1>8, <1>9 DEF OnDisk
<1> QED BY <1>4, <1>5, <1>10 DEF Typed

\* The last snapshot is of a rev of the file, or of none.
LEMMA LastSnapIs ==
  ASSUME Typed
  PROVE  LastSnap \in 0..MaxRev /\ (snaps # <<>> => Len(snaps) > 0 /\ LastSnap = snaps[Len(snaps)])
<1>1. snaps \in Seq(Rev) /\ Len(snaps) <= KeepSnaps
  BY Bounded, Sizes DEF Typed, InMemory, Shape
<1>2. CASE snaps = <<>>
  <2>1. base = None \/ base.rev \in 0..MaxRev
    BY DEF Typed, InMemory, Shape, Proper, Doc
  <2> QED BY <1>2, <2>1, Sizes DEF LastSnap, BaseRev
<1>3. CASE snaps # <<>>
  <2>1. Len(snaps) \in 1..Len(snaps) /\ Len(snaps) > 0
    BY <1>1, <1>3
  <2>2. snaps[Len(snaps)] \in Rev
    BY <1>1, <2>1
  <2> QED BY <1>3, <2>1, <2>2 DEF LastSnap, Last, Rev
<1> QED BY <1>2, <1>3

\* The snapshots kept after another one: all of them, or all but the oldest.
LEMMA SnapsKept ==
  ASSUME Typed, Snapshot
  PROVE  /\ doc.rev \in Rev /\ LastSnap < doc.rev
         /\ snaps' \in BoundedSeq(Rev, KeepSnaps) /\ Len(snaps') > 0 /\ snaps'[Len(snaps')] = doc.rev
         /\ \/ /\ edit'.drop = None /\ Len(snaps') = Len(snaps) + 1
               /\ \A i \in 1..Len(snaps) : snaps'[i] = snaps[i]
            \/ /\ edit'.drop = snaps[1] /\ Len(snaps) > 0 /\ Len(snaps') = Len(snaps)
               /\ \A i \in 1..(Len(snaps) - 1) : snaps'[i] = snaps[i + 1]
<1>1. snaps \in Seq(Rev) /\ Len(snaps) <= KeepSnaps /\ KeepSnaps \in Nat /\ KeepSnaps > 0
  BY Bounded, Sizes DEF Typed, InMemory, Shape
<1>2. doc.rev \in Rev /\ LastSnap < doc.rev
  <2>1. doc.rev \in 0..MaxRev
    BY DEF Typed, InMemory, Shape, Proper, Doc
  <2>2. doc.rev - LastSnap >= SnapEvery
    BY DEF Snapshot
  <2> QED BY <2>1, <2>2, LastSnapIs, Sizes DEF Rev
<1> DEFINE all == Append(snaps, doc.rev)
           drop == IF TooMany(all) THEN Head(all) ELSE None
           kept == IF drop = None THEN all ELSE Tail(all)
<1>3. snaps' = kept /\ edit'.drop = drop
  BY DEF Snapshot
<1>4. /\ all \in Seq(Rev) /\ Len(all) = Len(snaps) + 1 /\ all[Len(snaps) + 1] = doc.rev
      /\ \A i \in 1..Len(snaps) : all[i] = snaps[i]
  BY <1>1, <1>2
<1>5. None \notin Rev
  BY NoneIsNone, Sizes DEF Rev
<1>6. CASE TooMany(all)
  <2>1. Len(snaps) = KeepSnaps /\ Len(snaps) > 0 /\ all # <<>>
    BY <1>1, <1>4, <1>6 DEF TooMany
  <2>2. Head(all) = snaps[1] /\ snaps[1] \in Rev
    BY <1>1, <1>4, <2>1
  <2>3. kept = Tail(all) /\ drop = snaps[1]
    BY <1>5, <1>6, <2>2
  <2> HIDE DEF all
  <2>4. /\ Tail(all) \in Seq(Rev) /\ Len(Tail(all)) = Len(snaps)
        /\ \A i \in 1..Len(snaps) : Tail(all)[i] = all[i + 1]
    BY <1>4, <2>1
  <2>5. \A i \in 1..(Len(snaps) - 1) : i + 1 \in 1..Len(snaps) /\ i \in 1..Len(snaps)
    BY <2>1
  <2>6. Tail(all)[Len(snaps)] = doc.rev /\ \A i \in 1..(Len(snaps) - 1) : Tail(all)[i] = snaps[i + 1]
    BY <1>4, <2>1, <2>4, <2>5
  <2> HIDE DEF kept, drop
  <2>7. snaps' \in BoundedSeq(Rev, KeepSnaps)
    BY <1>1, <1>3, <2>3, <2>4, Bounded
  <2> QED BY <1>2, <1>3, <2>1, <2>3, <2>4, <2>6, <2>7
<1>7. CASE ~TooMany(all)
  <2>1. kept = all /\ drop = None
    BY <1>7
  <2>2. Len(all) <= KeepSnaps
    BY <1>1, <1>4, <1>7 DEF TooMany
  <2> HIDE DEF all, kept, drop
  <2>3. snaps' \in BoundedSeq(Rev, KeepSnaps)
    BY <1>1, <1>3, <1>4, <2>1, <2>2, Bounded
  <2> QED BY <1>1, <1>2, <1>3, <1>4, <2>1, <2>3
<1> QED BY <1>6, <1>7

LEMMA SnapshotDisk ==
  ASSUME Snapshot
  PROVE  /\ DOMAIN disk' = DOMAIN disk \cup {SnapKey(doc.rev), SnapsKey, TrimmedKey}
         /\ disk'[SnapKey(doc.rev)] = doc /\ disk'[SnapsKey] = snaps' /\ disk'[TrimmedKey] = trimmed'
         /\ \A k \in DOMAIN disk : k \notin {SnapKey(doc.rev), SnapsKey, TrimmedKey} => disk'[k] = disk[k]
<1> DEFINE puts == {<<SnapKey(doc.rev), doc>>, <<SnapsKey, snaps'>>, <<TrimmedKey, trimmed'>>}
<1>1. disk' = Put(puts)
  BY DEF Snapshot
<1>2. /\ DOMAIN disk' = DOMAIN disk \cup {p[1] : p \in puts}
      /\ \A p \in puts : \E q \in puts : q[1] = p[1] /\ disk'[p[1]] = q[2]
      /\ \A k \in DOMAIN disk : (\A p \in puts : p[1] # k) => disk'[k] = disk[k]
  <2> HIDE DEF puts
  <2> QED BY <1>1, PutIs
<1>3. SnapKey(doc.rev) # SnapsKey /\ SnapKey(doc.rev) # TrimmedKey /\ SnapsKey # TrimmedKey
  BY KeysApart
<1>4. {p[1] : p \in puts} = {SnapKey(doc.rev), SnapsKey, TrimmedKey}
  OBVIOUS
<1> QED BY <1>2, <1>3, <1>4

\* Where history starts: where it did, or at the oldest snapshot kept.
LEMMA TrimmedIs ==
  ASSUME Typed, Snapshot
  PROVE  /\ trimmed' = trimmed \/ trimmed' = snaps'[1]
         /\ edit'.drop # None => trimmed' = snaps'[1]
         /\ trimmed' \in 0..MaxRev
         /\ edit' \in [at: {"snapped", "idle"}, drop: Rev \cup {None}] /\ (edit'.at = "idle" => edit'.drop = None)
<1>1. snaps' \in Seq(Rev) /\ Len(snaps') > 0
  BY SnapsKept, Bounded, Sizes
<1>2. Head(snaps') = snaps'[1] /\ snaps'[1] \in Rev
  BY <1>1
<1>3. trimmed' = trimmed \/ trimmed' = Head(snaps')
  BY DEF Snapshot, From
<1>4. edit'.drop # None => trimmed' = Head(snaps') /\ edit'.at = "snapped"
  BY DEF Snapshot, From
<1>5. trimmed \in 0..MaxRev
  BY DEF Typed, InMemory, Shape
<1>6. edit'.drop \in Rev \cup {None}
  <2>1. CASE edit'.drop = None
    BY <2>1
  <2>2. CASE edit'.drop # None
    <3>1. edit'.drop = snaps[1] /\ Len(snaps) > 0 /\ snaps \in Seq(Rev)
      <4>1. Len(snaps) > 0 \/ edit'.drop = None
        BY SnapsKept
      <4>2. snaps \in Seq(Rev)
        BY Bounded, Sizes DEF Typed, InMemory, Shape
      <4> QED BY <2>2, <4>1, <4>2, SnapsKept
    <3> QED BY <3>1
  <2> QED BY <2>1, <2>2
<1>7. edit' \in [at: {"snapped", "idle"}, drop: Rev \cup {None}]
  BY <1>6 DEF Snapshot
<1> QED BY <1>2, <1>3, <1>4, <1>5, <1>7, Sizes DEF Rev

LEMMA SnapshotTyped ==
  ASSUME Typed, Snapshot
  PROVE  Typed'
<1>1. /\ DOMAIN disk' = DOMAIN disk \cup {SnapKey(doc.rev), SnapsKey, TrimmedKey}
      /\ disk'[SnapKey(doc.rev)] = doc /\ disk'[SnapsKey] = snaps' /\ disk'[TrimmedKey] = trimmed'
      /\ \A k \in DOMAIN disk : k \notin {SnapKey(doc.rev), SnapsKey, TrimmedKey} => disk'[k] = disk[k]
  BY SnapshotDisk
<1>2. doc.rev \in Rev /\ snaps' \in BoundedSeq(Rev, KeepSnaps) /\ trimmed' \in 0..MaxRev
  BY SnapsKept, TrimmedIs
<1>3. InMemory'
  BY <1>2 DEF Snapshot, Typed, InMemory, Shape
<1>4. UnderWay'
  BY TrimmedIs DEF Snapshot, Typed, UnderWay
<1>5. Shape(Get(DocKey, empty), Get(BaseKey, None), Get(CommitsKey, 0), Get(SnapsKey, <<>>), Get(TrimmedKey, 0))'
  <2>1. Get(SnapsKey, <<>>)' = snaps' /\ Get(TrimmedKey, 0)' = trimmed'
    BY <1>1 DEF Get, Has
  <2>2. ASSUME NEW k \in {DocKey, BaseKey, CommitsKey}, NEW o PROVE Get(k, o)' = Get(k, o)
    <3>1. k \notin {SnapKey(doc.rev), SnapsKey, TrimmedKey}
      BY KeysApart
    <3> QED BY <1>1, <3>1 DEF Get, Has
  <2> QED BY <1>2, <2>1, <2>2 DEF Typed, OnDisk, Shape
<1>6. ASSUME NEW r \in Rev, Has(OpKey(r))' PROVE disk'[OpKey(r)] \in Entry
  <2>1. OpKey(r) \notin {SnapKey(doc.rev), SnapsKey, TrimmedKey}
    BY KeysApart
  <2> QED BY <1>1, <1>6, <2>1 DEF Typed, OnDisk, Has
<1>7. ASSUME NEW n \in 1..MaxCommits, Has(CommitKey(n))' PROVE disk'[CommitKey(n)] \in Commit
  <2>1. CommitKey(n) \notin {SnapKey(doc.rev), SnapsKey, TrimmedKey}
    BY KeysApart
  <2> QED BY <1>1, <1>7, <2>1 DEF Typed, OnDisk, Has
<1>8. OnDisk'
  BY <1>1, <1>2, <1>5, <1>6, <1>7 DEF Typed, OnDisk, Keys
<1> QED BY <1>3, <1>4, <1>8 DEF Typed

LEMMA DropTyped ==
  ASSUME Typed, Drop
  PROVE  Typed'
<1>1. OnDisk'
  <2>1. PICK keys : disk' = Without(keys)
    BY DEF Drop
  <2> QED BY <2>1, ShrunkOnDisk DEF Typed
<1>2. InMemory'
  BY DEF Drop, Typed, InMemory, memory
<1>3. UnderWay'
  BY DEF Drop, Typed, UnderWay
<1> QED BY <1>1, <1>2, <1>3 DEF Typed

LEMMA SweepTyped ==
  ASSUME Typed, Sweep
  PROVE  Typed'
<1>1. OnDisk'
  <2>1. PICK keys : disk' = Without(keys)
    BY DEF Sweep
  <2> QED BY <2>1, ShrunkOnDisk DEF Typed
<1>2. InMemory'
  BY DEF Sweep, Typed, InMemory, memory
<1>3. UnderWay'
  BY DEF Sweep, Typed, UnderWay
<1> QED BY <1>1, <1>2, <1>3 DEF Typed

\* Whom the log says wrote.
LEMMA OpsInIs ==
  ASSUME OnDisk, NEW since, NEW until
  PROVE  \A a : a \in Range(OpsIn(since, until)) <=>
                  \E r \in Rev : Has(OpKey(r)) /\ since < r /\ r <= until /\ a = disk[OpKey(r)]
BY DEF Range, OpsIn

LEMMA AuthorsIs ==
  ASSUME OnDisk, NEW since \in 0..MaxRev
  PROVE  /\ Authors(since) \subseteq Writers
         /\ \A r \in Rev : Has(OpKey(r)) /\ since < r => disk[OpKey(r)].by \in Authors(since)
<1>1. \A a : a \in Range(OpsIn(since, MaxRev)) <=>
               \E r \in Rev : Has(OpKey(r)) /\ since < r /\ r <= MaxRev /\ a = disk[OpKey(r)]
  BY OpsInIs
<1>2. \A a \in Range(OpsIn(since, MaxRev)) : a.by \in Writers
  BY <1>1 DEF OnDisk, Entry
<1>3. \A r \in Rev : Has(OpKey(r)) /\ since < r => disk[OpKey(r)] \in Range(OpsIn(since, MaxRev))
  BY <1>1 DEF Rev
<1> QED BY <1>2, <1>3 DEF Authors

LEMMA LastCommitIs ==
  ASSUME Typed
  PROVE  LastCommit \in Commit \cup {None} /\ RevOf(LastCommit) \in 0..MaxRev /\ None \notin Commit
<1>1. None \notin Commit
  BY NoneIsNone
<1>2. LastCommit \in Commit \cup {None}
  <2>1. CASE commits = 0
    BY <2>1 DEF LastCommit
  <2>2. CASE commits # 0
    <3>1. commits \in 1..MaxCommits
      BY <2>2, Sizes DEF Typed, InMemory, Shape
    <3> QED BY <2>2, <3>1 DEF LastCommit, Typed, OnDisk, Get
  <2> QED BY <2>1, <2>2
<1>3. RevOf(LastCommit) \in 0..MaxRev
  BY <1>1, <1>2, Sizes DEF RevOf, Commit
<1> QED BY <1>1, <1>2, <1>3

LEMMA StartCommitTyped ==
  ASSUME Typed, StartCommit
  PROVE  Typed' /\ hashing' \in Hashing
<1> DEFINE last == IF LastCommit = None THEN 0 ELSE LastCommit.of
           carried == {[rev |-> a.rev, by |-> a.by] : a \in Range(OpsIn(last, doc.rev))}
<1>1. hashing' = [n |-> commits + 1, since |-> RevOf(LastCommit), of |-> doc.rev, carries |-> carried]
  BY DEF StartCommit
<1>2. commits + 1 \in 1..MaxCommits /\ doc.rev \in 0..MaxRev
  BY Sizes DEF StartCommit, Typed, InMemory, Shape, Proper, Doc
<1>3. carried \subseteq [rev: Rev, by: Writers]
  <2>1. \A a \in Range(OpsIn(last, doc.rev)) : a \in Entry
    <3> HIDE DEF last
    <3> QED BY OpsInIs DEF Typed, OnDisk
  <2> QED BY <2>1 DEF Entry
<1>4. hashing' \in Hashing
  <2> HIDE DEF carried
  <2> QED BY <1>1, <1>2, <1>3, LastCommitIs DEF Hashing
<1>5. InMemory' /\ OnDisk'
  BY DEF StartCommit, Typed, InMemory, OnDisk, Get, Has, memory
<1>6. UnderWay'
  BY <1>4 DEF StartCommit, Typed, UnderWay
<1> QED BY <1>4, <1>5, <1>6 DEF Typed

LEMMA EndCommitDisk ==
  ASSUME Typed, EndCommit
  PROVE  /\ hashing \in Hashing /\ Later(hashing.since) \in 0..MaxRev
         /\ DOMAIN disk' = DOMAIN disk \cup {CommitKey(hashing.n), CommitsKey}
         /\ disk'[CommitsKey] = hashing.n
         /\ disk'[CommitKey(hashing.n)] \in Commit
         /\ disk'[CommitKey(hashing.n)] =
              [of |-> hashing.of, rev |-> doc.rev, writers |-> Authors(Later(hashing.since)),
               carries |-> {e.by : e \in {h \in hashing.carries : h.rev > trimmed}}]
         /\ \A k \in DOMAIN disk : k \notin {CommitKey(hashing.n), CommitsKey} => disk'[k] = disk[k]
<1> DEFINE commit == [of |-> hashing.of, rev |-> doc.rev, writers |-> Authors(Later(hashing.since)),
                      carries |-> {e.by : e \in {h \in hashing.carries : h.rev > trimmed}}]
           puts == {<<CommitKey(hashing.n), commit>>, <<CommitsKey, hashing.n>>}
<1>1. disk' = Put(puts)
  BY DEF EndCommit, Since
<1>2. hashing \in Hashing
  BY DEF EndCommit, Typed, UnderWay
<1>3. Later(hashing.since) \in 0..MaxRev
  BY <1>2 DEF Later, Hashing, Typed, InMemory, Shape
<1>4. commit \in Commit
  <2>1. doc.rev \in 0..MaxRev /\ hashing.of \in 0..MaxRev
    BY <1>2 DEF Typed, InMemory, Shape, Proper, Doc, Hashing
  <2>2. {e.by : e \in {h \in hashing.carries : h.rev > trimmed}} \subseteq Writers
    BY <1>2 DEF Hashing
  <2>3. Authors(Later(hashing.since)) \subseteq Writers
    BY <1>3, AuthorsIs DEF Typed
  <2> QED BY <2>1, <2>2, <2>3 DEF Commit
<1> HIDE DEF commit
<1>5. /\ DOMAIN disk' = DOMAIN disk \cup {p[1] : p \in puts}
      /\ \A p \in puts : \E q \in puts : q[1] = p[1] /\ disk'[p[1]] = q[2]
      /\ \A k \in DOMAIN disk : (\A p \in puts : p[1] # k) => disk'[k] = disk[k]
  <2> HIDE DEF puts
  <2> QED BY <1>1, PutIs
<1>6. CommitKey(hashing.n) # CommitsKey
  BY KeysApart
<1>7. /\ DOMAIN disk' = DOMAIN disk \cup {CommitKey(hashing.n), CommitsKey}
      /\ disk'[CommitsKey] = hashing.n /\ disk'[CommitKey(hashing.n)] = commit
      /\ \A k \in DOMAIN disk : k \notin {CommitKey(hashing.n), CommitsKey} => disk'[k] = disk[k]
  BY <1>5, <1>6
<1> QED BY <1>2, <1>3, <1>4, <1>7 DEF commit

LEMMA EndCommitTyped ==
  ASSUME Typed, EndCommit
  PROVE  Typed'
<1>1. /\ hashing \in Hashing
      /\ DOMAIN disk' = DOMAIN disk \cup {CommitKey(hashing.n), CommitsKey}
      /\ disk'[CommitsKey] = hashing.n
      /\ disk'[CommitKey(hashing.n)] \in Commit
      /\ \A k \in DOMAIN disk : k \notin {CommitKey(hashing.n), CommitsKey} => disk'[k] = disk[k]
  BY EndCommitDisk
<1>2. hashing.n \in 1..MaxCommits
  BY <1>1 DEF Hashing
<1>3. InMemory'
  BY <1>2 DEF EndCommit, Typed, InMemory, Shape
<1>4. UnderWay'
  BY DEF EndCommit, Typed, UnderWay
<1>5. Shape(Get(DocKey, empty), Get(BaseKey, None), Get(CommitsKey, 0), Get(SnapsKey, <<>>), Get(TrimmedKey, 0))'
  <2>1. Get(CommitsKey, 0)' = hashing.n
    BY <1>1 DEF Get, Has
  <2>2. ASSUME NEW k \in {DocKey, BaseKey, SnapsKey, TrimmedKey}, NEW o PROVE Get(k, o)' = Get(k, o)
    <3>1. k \notin {CommitKey(hashing.n), CommitsKey}
      BY KeysApart
    <3> QED BY <1>1, <3>1 DEF Get, Has
  <2> QED BY <1>2, <2>1, <2>2 DEF Typed, OnDisk, Shape
<1>6. ASSUME NEW r \in Rev, Has(OpKey(r))' PROVE disk'[OpKey(r)] \in Entry
  <2>1. OpKey(r) \notin {CommitKey(hashing.n), CommitsKey}
    BY KeysApart
  <2> QED BY <1>1, <1>6, <2>1 DEF Typed, OnDisk, Has
<1>7. ASSUME NEW n \in 1..MaxCommits, Has(CommitKey(n))' PROVE disk'[CommitKey(n)] \in Commit
  <2>1. CommitKey(n) # CommitsKey
    BY KeysApart
  <2>2. CASE CommitKey(n) = CommitKey(hashing.n)
    BY <1>1, <2>2
  <2>3. CASE CommitKey(n) # CommitKey(hashing.n)
    BY <1>1, <1>7, <2>1, <2>3 DEF Typed, OnDisk, Has
  <2> QED BY <2>2, <2>3
<1>8. OnDisk'
  BY <1>1, <1>2, <1>5, <1>6, <1>7 DEF Typed, OnDisk, Keys
<1> QED BY <1>3, <1>4, <1>8 DEF Typed

LEMMA ForkDisk ==
  ASSUME Fork
  PROVE  /\ doc' \in Proper /\ doc'.rev \in Rev /\ base' = doc'
         /\ DOMAIN disk' = DOMAIN disk \cup {BaseKey, DocKey}
         /\ disk'[BaseKey] = doc' /\ disk'[DocKey] = doc'
         /\ \A k \in DOMAIN disk : k \notin {BaseKey, DocKey} => disk'[k] = disk[k]
<1>1. PICK made \in UNION {Batch(empty, n) : n \in Batches \cap Rev} :
        /\ base' = made.doc /\ doc' = made.doc
        /\ disk' = Put({<<BaseKey, made.doc>>, <<DocKey, made.doc>>})
  BY DEF Fork
<1>2. PICK n \in Batches \cap Rev : made \in Batch(empty, n)
  BY <1>1
<1>3. doc' \in Proper /\ doc'.rev \in Rev
  <2>1. n \in Nat /\ n \in Rev /\ empty.rev = 0 /\ empty.rev + n = n /\ empty.rev + n <= MaxRev
    BY <1>2, Sizes DEF Rev, empty
  <2>2. Way(empty, n, made)
    BY <1>2, <2>1, EmptyIsProper, BatchIs
  <2> QED BY <1>1, <2>1, <2>2 DEF Way
<1> DEFINE puts == {<<BaseKey, doc'>>, <<DocKey, doc'>>}
<1>4. /\ DOMAIN disk' = DOMAIN disk \cup {p[1] : p \in puts}
      /\ \A p \in puts : \E q \in puts : q[1] = p[1] /\ disk'[p[1]] = q[2]
      /\ \A k \in DOMAIN disk : (\A p \in puts : p[1] # k) => disk'[k] = disk[k]
  <2>1. disk' = Put(puts)
    BY <1>1
  <2> HIDE DEF puts
  <2> QED BY <2>1, PutIs
<1>5. base' = doc'
  BY <1>1
<1> QED BY <1>3, <1>4, <1>5

LEMMA ForkTyped ==
  ASSUME Typed, Fork
  PROVE  Typed'
<1>1. /\ doc' \in Proper /\ doc'.rev \in Rev /\ base' = doc'
      /\ DOMAIN disk' = DOMAIN disk \cup {BaseKey, DocKey}
      /\ disk'[BaseKey] = doc' /\ disk'[DocKey] = doc'
      /\ \A k \in DOMAIN disk : k \notin {BaseKey, DocKey} => disk'[k] = disk[k]
  BY ForkDisk
<1>2. InMemory'
  BY <1>1 DEF Fork, Typed, InMemory, Shape
<1>3. UnderWay'
  BY DEF Fork, Typed, UnderWay
<1>4. Shape(Get(DocKey, empty), Get(BaseKey, None), Get(CommitsKey, 0), Get(SnapsKey, <<>>), Get(TrimmedKey, 0))'
  <2>1. Get(DocKey, empty)' = doc' /\ Get(BaseKey, None)' = doc'
    BY <1>1 DEF Get, Has
  <2>2. ASSUME NEW k \in {CommitsKey, SnapsKey, TrimmedKey}, NEW o PROVE Get(k, o)' = Get(k, o)
    <3>1. k \notin {BaseKey, DocKey}
      BY KeysApart
    <3> QED BY <1>1, <3>1 DEF Get, Has
  <2> QED BY <1>1, <2>1, <2>2 DEF Typed, OnDisk, Shape
<1>5. ASSUME NEW r \in Rev, Has(OpKey(r))' PROVE disk'[OpKey(r)] \in Entry
  <2>1. OpKey(r) \notin {BaseKey, DocKey}
    BY KeysApart
  <2> QED BY <1>1, <1>5, <2>1 DEF Typed, OnDisk, Has
<1>6. ASSUME NEW n \in 1..MaxCommits, Has(CommitKey(n))' PROVE disk'[CommitKey(n)] \in Commit
  <2>1. CommitKey(n) \notin {BaseKey, DocKey}
    BY KeysApart
  <2> QED BY <1>1, <1>6, <2>1 DEF Typed, OnDisk, Has
<1>7. OnDisk'
  BY <1>1, <1>4, <1>5, <1>6 DEF Typed, OnDisk, Keys
<1> QED BY <1>2, <1>3, <1>7 DEF Typed

LEMMA WipeTyped ==
  ASSUME Typed, Wipe
  PROVE  Typed'
<1>1. OnDisk'
  <2>1. PICK keys : disk' = Without(keys)
    BY DEF Wipe
  <2> QED BY <2>1, ShrunkOnDisk DEF Typed
<1>2. InMemory'
  BY NothingIsTyped DEF Wipe, InMemory
<1>3. UnderWay'
  BY DEF Wipe, Typed, UnderWay
<1> QED BY <1>1, <1>2, <1>3 DEF Typed

LEMMA RestartTyped ==
  ASSUME Typed, Restart
  PROVE  Typed'
<1>1. OnDisk'
  BY DEF Restart, Typed, OnDisk, Get, Has
<1>2. InMemory'
  BY DEF Restart, Typed, OnDisk, InMemory
<1>3. UnderWay'
  <2> DEFINE none == <<>>
  <2>1. none \in Seq(Entry) /\ log' = none
    BY DEF Restart
  <2> HIDE DEF none
  <2> QED BY <2>1 DEF Restart, UnderWay, Resumed
<1> QED BY <1>1, <1>2, <1>3 DEF Typed

LEMMA TypedStays == Typed /\ [Next]_vars => Typed'
<1> SUFFICES ASSUME Typed, [Next]_vars PROVE Typed'
  OBVIOUS
<1>1. CASE Edit
  BY <1>1, EditTyped
<1>2. CASE StartCommit
  BY <1>2, StartCommitTyped
<1>3. CASE Save
  BY <1>3, SaveTyped
<1>4. CASE Done
  BY <1>4 DEF Done, Typed, InMemory, OnDisk, UnderWay, Get, Has, memory
<1>5. CASE Snapshot
  BY <1>5, SnapshotTyped
<1>6. CASE Drop
  BY <1>6, DropTyped
<1>7. CASE Sweep
  BY <1>7, SweepTyped
<1>8. CASE EndCommit
  BY <1>8, EndCommitTyped
<1>9. CASE Fork
  BY <1>9, ForkTyped
<1>10. CASE Wipe
  BY <1>10, WipeTyped
<1>11. CASE Restart
  BY <1>11, RestartTyped
<1>12. CASE UNCHANGED vars
  BY <1>12 DEF vars, memory, Typed, InMemory, OnDisk, UnderWay, Get, Has
<1> QED BY <1>1, <1>2, <1>3, <1>4, <1>5, <1>6, <1>7, <1>8, <1>9, <1>10, <1>11, <1>12 DEF Next

LEMMA TypedIsTypeOK == Typed => TypeOK
<1> SUFFICES ASSUME Typed PROVE TypeOK
  OBVIOUS
<1>1. {doc, Get(DocKey, empty)} \subseteq Doc /\ base \in Doc \cup {None}
  BY DEF Typed, InMemory, OnDisk, Shape, Proper
<1>2. \A n \in 1..MaxCommits : Get(CommitKey(n), None) \in Commit \cup {None}
  BY DEF Typed, OnDisk, Get
<1> QED BY <1>1, <1>2 DEF Typed, InMemory, UnderWay, Shape, TypeOK

\* The state has its shape: documents are documents, wherever a stop or a wipe cuts an edit off, and
\* no more snapshots are kept than may be (file-do.ts:191-207, 460-482, 599-620).
THEOREM HistoryTypeCorrect == Spec => []TypeOK
<1>1. Spec => []Typed
  BY InitTyped, TypedStays, PTL DEF Spec
<1> QED BY <1>1, TypedIsTypeOK, PTL

-----------------------------------------------------------------------------
(* Reading a rev.                                                          *)

SavedDoc == Get(DocKey, empty)

\* The snapshot a rev is read from, 0 if from the start, and the document there.
LastOf(s, rev) ==
  LET upto == {i \in DOMAIN s : s[i] <= rev}
  IN  IF upto = {} THEN 0 ELSE s[Max(upto)]
SnapFor(rev) == LastOf(snaps, rev)
DocOf(snap) == IF snap # 0 THEN Get(SnapKey(snap), empty) ELSE IF base = None THEN empty ELSE base

LEMMA AtIs ==
  ASSUME NEW rev
  PROVE  At(rev) = Replay(OpsIn(SnapFor(rev), rev), DocOf(SnapFor(rev)))
BY DEF At, SnapFor, LastOf, DocOf

\* Snapshots are of revs one after the other.
Ascending(s) == \A i, j \in 1..Len(s) : i < j => s[i] < s[j]

\* Which of the snapshots s is the last up to rev.
LastUpTo(s, n, rev) ==
  \/ n = 0 /\ \A i \in 1..Len(s) : s[i] > rev
  \/ \E i \in 1..Len(s) : n = s[i] /\ n <= rev /\ \A j \in 1..Len(s) : s[j] <= rev => s[j] <= n

LEMMA LastOfIs ==
  ASSUME NEW s \in Seq(Rev), Ascending(s), NEW rev \in Nat
  PROVE  LastUpTo(s, LastOf(s, rev), rev)
<1> DEFINE upto == {i \in DOMAIN s : s[i] <= rev}
<1>1. DOMAIN s = 1..Len(s) /\ Len(s) \in Nat /\ \A i \in 1..Len(s) : s[i] \in Nat
  <2>1. DOMAIN s = 1..Len(s) /\ Len(s) \in Nat /\ \A i \in 1..Len(s) : s[i] \in Rev
    OBVIOUS
  <2> QED BY <2>1 DEF Rev
<1>2. CASE upto = {}
  <2>1. LastOf(s, rev) = 0
    BY <1>2 DEF LastOf
  <2>2. \A i \in 1..Len(s) : s[i] > rev
    BY <1>1, <1>2
  <2> QED BY <2>1, <2>2 DEF LastUpTo
<1>3. CASE upto # {}
  <2>1. LastOf(s, rev) = s[Max(upto)]
    BY <1>3 DEF LastOf
  <2>2. Max(upto) \in upto /\ \A j \in upto : j <= Max(upto)
    <3>1. upto \in SUBSET (0..Len(s))
      BY <1>1
    <3> HIDE DEF upto
    <3>2. PICK x \in upto : \A y \in upto : y <= x
      BY <1>1, <1>3, <3>1, GreatestNumber
    <3>3. \A y \in upto : x >= y
      BY <3>1, <3>2
    <3>4. Max(upto) \in upto /\ \A y \in upto : Max(upto) >= y
      BY <3>3 DEF Max
    <3> QED BY <3>1, <3>4
  <2> DEFINE m == Max(upto)
  <2>3. m \in 1..Len(s) /\ s[m] <= rev
    BY <1>1, <2>2
  <2>4. ASSUME NEW j \in 1..Len(s), s[j] <= rev PROVE s[j] <= s[m]
    <3>1. j <= m
      BY <1>1, <2>2, <2>4
    <3> HIDE DEF m
    <3>2. j = m \/ j < m
      BY <2>3, <3>1
    <3> QED BY <1>1, <2>3, <3>2 DEF Ascending
  <2> HIDE DEF m
  <2>5. LastUpTo(s, s[m], rev)
    BY <2>3, <2>4 DEF LastUpTo
  <2> QED BY <2>1, <2>5 DEF m
<1> QED BY <1>2, <1>3

LEMMA LastUpToIsOne ==
  ASSUME NEW s \in Seq(Rev), NEW rev \in Nat, NEW n, NEW m, LastUpTo(s, n, rev), LastUpTo(s, m, rev)
  PROVE  n = m
<1>1. \A i \in 1..Len(s) : s[i] \in Nat /\ s[i] > 0
  <2>1. \A i \in 1..Len(s) : s[i] \in Rev
    OBVIOUS
  <2> QED BY <2>1 DEF Rev
<1>2. CASE n = 0 /\ \A i \in 1..Len(s) : s[i] > rev
  BY <1>1, <1>2 DEF LastUpTo
<1>3. CASE m = 0 /\ \A i \in 1..Len(s) : s[i] > rev
  BY <1>1, <1>3 DEF LastUpTo
<1>4. CASE /\ \E i \in 1..Len(s) : n = s[i] /\ n <= rev /\ \A j \in 1..Len(s) : s[j] <= rev => s[j] <= n
           /\ \E i \in 1..Len(s) : m = s[i] /\ m <= rev /\ \A j \in 1..Len(s) : s[j] <= rev => s[j] <= m
  <2>1. PICK i \in 1..Len(s) : n = s[i] /\ n <= rev /\ \A j \in 1..Len(s) : s[j] <= rev => s[j] <= n
    BY <1>4
  <2>2. PICK k \in 1..Len(s) : m = s[k] /\ m <= rev /\ \A j \in 1..Len(s) : s[j] <= rev => s[j] <= m
    BY <1>4
  <2>3. n <= m /\ m <= n /\ n \in Nat /\ m \in Nat
    BY <1>1, <2>1, <2>2
  <2> QED BY <2>3
<1> QED BY <1>2, <1>3, <1>4 DEF LastUpTo

\* A rev reads as it did if it is read from the same snapshot and the same ops.
LEMMA SameAt ==
  ASSUME NEW rev, SnapFor(rev)' = SnapFor(rev), DocOf(SnapFor(rev))' = DocOf(SnapFor(rev)),
         \A r \in Rev : SnapFor(rev) < r /\ r <= rev =>
           (Has(OpKey(r))' <=> Has(OpKey(r))) /\ (Has(OpKey(r)) => disk'[OpKey(r)] = disk[OpKey(r)])
  PROVE  At(rev)' = At(rev)
<1> DEFINE s == SnapFor(rev)
           S == {r \in Rev : Has(OpKey(r)) /\ s < r /\ r <= rev}
           T == {r \in Rev : Has(OpKey(r))' /\ s < r /\ r <= rev}
<1>1. OpsIn(s, rev) = [r \in S |-> disk[OpKey(r)]]
  BY DEF OpsIn
<1>2. OpsIn(s, rev)' = [r \in T |-> disk'[OpKey(r)]]
  BY DEF OpsIn
<1>3. S = T /\ \A r \in S : disk'[OpKey(r)] = disk[OpKey(r)]
  OBVIOUS
<1>4. OpsIn(s, rev)' = OpsIn(s, rev)
  <2> HIDE DEF S, T, s
  <2> QED BY <1>1, <1>2, <1>3
<1>5. At(rev)' = Replay(OpsIn(SnapFor(rev), rev)', DocOf(SnapFor(rev))')
  BY AtIs DEF At, SnapFor, LastOf, DocOf
<1> QED BY <1>4, <1>5, AtIs

-----------------------------------------------------------------------------
(* What history reaches.                                                   *)

\* A wipe lists every key the object may have (it deletes what one list() returns, file-do.ts:370-375).
WholeWipes == "wipe" \in Happens => Cardinality(Keys) <= ListLimit

\* Where history starts.
Start == IF trimmed > BaseRev THEN trimmed ELSE BaseRev
Shown == [r \in Readable |-> At(r)]

\* There is an op for every rev that history reaches, and none for a later one.
Logged ==
  /\ Start <= SavedRev
  /\ \A r \in Rev : Has(OpKey(r)) => BaseRev < r /\ r <= SavedRev /\ disk[OpKey(r)].rev = r
  /\ \A r \in Rev : Start < r /\ r <= SavedRev => Has(OpKey(r))

\* The snapshots listed are there, and history starts at the first of them once it is trimmed.
Snapped ==
  /\ Ascending(snaps)
  /\ \A i \in 1..Len(snaps) : snaps[i] <= SavedRev /\ Has(SnapKey(snaps[i]))
  /\ trimmed = 0 \/ (Len(snaps) > 0 /\ trimmed = snaps[1])

Ends == \A n \in Rev \cup {0} : n = SavedRev => At(n) = SavedDoc

Hist == Logged /\ Snapped /\ Ends

\* The snapshot to drop isn't listed any more.
Dropping == edit.drop = None \/ (Len(snaps) > 0 /\ edit.drop < snaps[1])

Remembered ==
  /\ base = Get(BaseKey, None) /\ commits = Get(CommitsKey, 0)
  /\ snaps = Get(SnapsKey, <<>>) /\ trimmed = Get(TrimmedKey, 0)

\* The document in memory is the one on the disk, or the edit under way leads there.
Now == IF edit.at = "applied" THEN Leads(SavedDoc, log, doc) ELSE doc = SavedDoc

LEMMA Numbers ==
  ASSUME Typed
  PROVE  /\ SavedDoc \in Proper /\ SavedRev \in 0..MaxRev /\ SavedRev \in Nat /\ SavedRev = SavedDoc.rev
         /\ doc \in Proper /\ doc.rev \in 0..MaxRev
         /\ base \in Proper \cup {None} /\ BaseRev \in 0..MaxRev
         /\ trimmed \in 0..MaxRev /\ Start \in 0..MaxRev /\ Start >= trimmed /\ Start >= BaseRev
         /\ snaps \in Seq(Rev) /\ Len(snaps) <= KeepSnaps
         /\ \A i \in 1..Len(snaps) : snaps[i] \in Rev /\ snaps[i] \in Nat
         /\ Readable = Start..SavedRev
<1>1. SavedDoc \in Proper /\ doc \in Proper /\ base \in Proper \cup {None} /\ trimmed \in 0..MaxRev
  BY DEF Typed, InMemory, OnDisk, Shape, SavedDoc
<1>2. SavedRev \in 0..MaxRev /\ doc.rev \in 0..MaxRev /\ SavedRev = SavedDoc.rev
  BY <1>1 DEF Proper, Doc, SavedRev, SavedDoc
<1>3. BaseRev \in 0..MaxRev
  BY <1>1, Sizes DEF Proper, Doc, BaseRev
<1>4. Start \in 0..MaxRev /\ Start >= trimmed /\ Start >= BaseRev
  BY <1>1, <1>3, Sizes DEF Start
<1>5. snaps \in Seq(Rev) /\ Len(snaps) <= KeepSnaps
  BY Bounded, Sizes DEF Typed, InMemory, Shape
<1>6. \A i \in 1..Len(snaps) : snaps[i] \in Rev
  BY <1>5
<1>7. \A i \in 1..Len(snaps) : snaps[i] \in Nat
  BY <1>6 DEF Rev
<1> QED BY <1>1, <1>2, <1>3, <1>4, <1>5, <1>6, <1>7 DEF Readable, Start

LEMMA SnapForListed ==
  ASSUME Typed, Snapped, NEW rev \in Nat
  PROVE  /\ SnapFor(rev) \in Nat /\ LastUpTo(snaps, SnapFor(rev), rev) /\ SnapFor(rev) <= rev
         /\ SnapFor(rev) = 0 \/ SnapFor(rev) \in Rev
         /\ trimmed <= rev => SnapFor(rev) >= trimmed
<1>1. LastUpTo(snaps, SnapFor(rev), rev)
  BY Numbers, LastOfIs DEF Snapped, SnapFor
<1>2. \A i \in 1..Len(snaps) : snaps[i] \in Rev /\ snaps[i] \in Nat
  BY Numbers
<1>3. SnapFor(rev) \in Nat /\ SnapFor(rev) <= rev /\ (SnapFor(rev) = 0 \/ SnapFor(rev) \in Rev)
  BY <1>1, <1>2 DEF LastUpTo
<1>4. ASSUME trimmed <= rev PROVE SnapFor(rev) >= trimmed
  <2>1. CASE trimmed = 0
    BY <1>3, <2>1
  <2>2. CASE Len(snaps) > 0 /\ trimmed = snaps[1]
    <3>1. 1 \in 1..Len(snaps) /\ snaps[1] <= rev
      BY <1>4, <2>2, Numbers
    <3>2. \A j \in 1..Len(snaps) : snaps[j] <= rev => snaps[j] <= SnapFor(rev)
      BY <1>1, <1>2, <3>1 DEF LastUpTo
    <3> QED BY <1>2, <1>3, <2>2, <3>1, <3>2
  <2> QED BY <2>1, <2>2 DEF Snapped
<1> QED BY <1>1, <1>3, <1>4

\* What history is read from stays: the ops it reaches and the snapshots listed.
Kept ==
  /\ base' = base /\ snaps' = snaps /\ trimmed' = trimmed /\ Get(DocKey, empty)' = Get(DocKey, empty)
  /\ \A r \in Rev : Has(OpKey(r))' => Has(OpKey(r)) /\ disk'[OpKey(r)] = disk[OpKey(r)]
  /\ \A r \in Rev : Has(OpKey(r)) /\ trimmed < r => Has(OpKey(r))'
  /\ \A r \in Rev : Has(SnapKey(r)) /\ (\E i \in 1..Len(snaps) : snaps[i] = r) =>
       Has(SnapKey(r))' /\ disk'[SnapKey(r)] = disk[SnapKey(r)]

LEMMA KeptHist ==
  ASSUME Typed, Hist, Kept
  PROVE  Hist' /\ Shown' = Shown
<1>1. ASSUME NEW r \in Nat, trimmed <= r PROVE At(r)' = At(r)
  <2>1. PICK s \in Nat : s = SnapFor(r) /\ LastUpTo(snaps, s, r) /\ s >= trimmed /\ (s = 0 \/ s \in Rev)
    BY <1>1, SnapForListed DEF Hist
  <2>2. SnapFor(r)' = s
    BY <2>1 DEF Kept, SnapFor
  <2>3. DocOf(s)' = DocOf(s)
    <3>1. CASE s = 0
      BY <3>1 DEF Kept, DocOf
    <3>2. CASE s # 0
      <4>1. s \in Rev /\ (\E i \in 1..Len(snaps) : snaps[i] = s) /\ Has(SnapKey(s))
        BY <2>1, <3>2 DEF LastUpTo, Hist, Snapped
      <4> QED BY <3>2, <4>1 DEF Kept, DocOf, Get
    <3> QED BY <3>1, <3>2
  <2>4. DocOf(SnapFor(r))' = DocOf(SnapFor(r))
    BY <2>1, <2>2, <2>3 DEF DocOf
  <2>5. ASSUME NEW q \in Rev, s < q PROVE trimmed < q
    BY <2>1, <2>5, Numbers DEF Rev
  <2> QED BY <2>1, <2>2, <2>4, <2>5, SameAt DEF Kept
<1>2. SavedRev' = SavedRev /\ Start' = Start /\ BaseRev' = BaseRev /\ Readable' = Readable /\ SavedDoc' = SavedDoc
  BY DEF Kept, SavedRev, Start, BaseRev, Readable, SavedDoc
<1>3. Logged'
  <2>1. ASSUME NEW r \in Rev, Start < r PROVE trimmed < r
    BY <2>1, Numbers DEF Rev
  <2> QED BY <1>2, <2>1 DEF Hist, Logged, Kept
<1>4. Snapped'
  <2>1. ASSUME NEW i \in 1..Len(snaps) PROVE SnapKey(snaps[i]) \in DOMAIN disk'
    <3>1. PICK r \in Rev : r = snaps[i]
      BY Numbers
    <3>2. Has(SnapKey(r))'
      BY <3>1 DEF Hist, Snapped, Kept
    <3> QED BY <3>1, <3>2 DEF Has
  <2> QED BY <1>2, <2>1 DEF Hist, Snapped, Kept, Has
<1>5. Ends'
  <2>1. ASSUME NEW r \in Rev \cup {0}, r = SavedRev PROVE At(r)' = SavedDoc
    <3>1. trimmed <= r /\ r \in Nat
      BY <2>1, Numbers DEF Hist, Logged
    <3> QED BY <1>1, <2>1, <3>1 DEF Hist, Ends
  <2> QED BY <1>2, <2>1 DEF Ends
<1>6. Shown' = Shown
  <2>1. ASSUME NEW r \in Readable PROVE At(r)' = At(r)
    <3>1. r \in Nat /\ trimmed <= r
      BY Numbers
    <3> QED BY <1>1, <3>1
  <2> QED BY <1>2, <2>1 DEF Shown
<1> QED BY <1>3, <1>4, <1>5, <1>6 DEF Hist

-----------------------------------------------------------------------------
(* Saving an edit.                                                         *)

LEMMA StepRev ==
  ASSUME NEW d \in Proper, NEW op, NEW by
  PROVE  Step(d, op, by).rev = d.rev + 1 /\ Applied(d, op, by).rev = d.rev + 1
<1>1. d = [rev |-> d.rev, nextId |-> d.nextId, lines |-> d.lines]
  BY DEF Proper, Doc
<1>2. CASE op.kind = "insert"
  BY <1>2 DEF Step, Applied
<1>3. CASE op.kind # "insert"
  BY <1>1, <1>3 DEF Step, Applied
<1> QED BY <1>2, <1>3

\* On the way from one document to the next, revs go up by one, and replaying gives the next.
LEMMA ChainIs ==
  ASSUME NEW l, Len(l) \in Nat, NEW d, NEW e, NEW ds, Chain(ds, l, d, e)
  PROVE  /\ \A i \in 0..Len(l) : ds[i] \in Proper /\ ds[i].rev = d.rev + i /\ d.rev + i <= MaxRev
         /\ \A i \in 1..Len(l) : l[i].rev = d.rev + i /\ Again(ds[i - 1], l[i]) = ds[i]
         /\ e.rev = d.rev + Len(l) /\ d \in Proper /\ e \in Proper
<1>1. \A i \in 0..Len(l) : ds[i] \in Proper /\ ds[i].rev \in 0..MaxRev
  BY DEF Chain, Proper, Doc
<1>2. ASSUME NEW i \in 1..Len(l)
      PROVE  /\ i - 1 \in 0..Len(l) /\ i \in 0..Len(l)
             /\ ds[i].rev = ds[i - 1].rev + 1 /\ l[i].rev = ds[i].rev
             /\ \E op \in Ops(ds[i - 1]), by \in Writers :
                  ds[i] = Step(ds[i - 1], op, by) /\ l[i] = Applied(ds[i - 1], op, by)
  <2>1. i - 1 \in 0..Len(l) /\ i \in 0..Len(l)
    OBVIOUS
  <2>2. PICK op \in Ops(ds[i - 1]), by \in Writers :
          ds[i] = Step(ds[i - 1], op, by) /\ l[i] = Applied(ds[i - 1], op, by)
    BY DEF Chain
  <2>3. ds[i - 1] \in Proper
    BY <1>1, <2>1
  <2> QED BY <2>1, <2>2, <2>3, StepRev
<1> DEFINE Bad == {i \in 0..Len(l) : ds[i].rev # d.rev + i}
<1>3. ASSUME Bad # {} PROVE FALSE
  <2>1. PICK i \in Bad : \A y \in Bad : i <= y
    <3>1. Bad \subseteq Nat
      OBVIOUS
    <3> HIDE DEF Bad
    <3> QED BY <1>3, <3>1, LeastNumber
  <2>2. i \in 0..Len(l) /\ ds[i].rev # d.rev + i
    BY <2>1
  <2>3. 0 \in 0..Len(l) /\ ds[0] = d
    BY DEF Chain
  <2>4. d.rev \in Nat
    BY <1>1, <2>3
  <2>5. i # 0
    BY <2>2, <2>3, <2>4
  <2>6. i \in 1..Len(l) /\ i - 1 \in 0..Len(l) /\ i - 1 \notin Bad
    BY <2>1, <2>2, <2>5
  <2>7. ds[i - 1].rev = d.rev + (i - 1)
    BY <2>6
  <2> QED BY <1>2, <2>2, <2>4, <2>6, <2>7
<1>4. \A i \in 0..Len(l) : ds[i].rev = d.rev + i
  BY <1>3
<1>5. ASSUME NEW i \in 1..Len(l) PROVE Again(ds[i - 1], l[i]) = ds[i]
  <2>1. i - 1 \in 0..Len(l) /\ i \in 0..Len(l) /\ ds[i].rev = ds[i - 1].rev + 1
    BY <1>2
  <2>2. ds[i - 1] \in Proper /\ ds[i - 1].rev \in 0..MaxRev /\ ds[i].rev \in 0..MaxRev
    BY <1>1, <2>1
  <2>3. ds[i - 1].rev < MaxRev
    BY <2>1, <2>2, Sizes
  <2> QED BY <1>2, <2>2, <2>3, StepIs
<1>6. ds[0] = d /\ ds[Len(l)] = e /\ 0 \in 0..Len(l) /\ Len(l) \in 0..Len(l)
  BY DEF Chain
<1> QED BY <1>1, <1>2, <1>4, <1>5, <1>6, Sizes

\* What a save puts where, if the log leads from the document saved to the one in memory.
Saved(n) ==
  /\ SavedDoc' = doc /\ SavedRev' = SavedRev + n
  /\ base' = base /\ snaps' = snaps /\ trimmed' = trimmed
  /\ \A r \in Rev : r <= SavedRev =>
       (Has(OpKey(r))' <=> Has(OpKey(r))) /\ (Has(OpKey(r)) => disk'[OpKey(r)] = disk[OpKey(r)])
  /\ \A r \in Nat : \A i \in 1..n : r = SavedRev + i => r \in Rev /\ Has(OpKey(r))' /\ disk'[OpKey(r)] = log[i]
  /\ \A r \in Rev : Has(OpKey(r))' /\ r > SavedRev => \E i \in 1..n : r = SavedRev + i
  /\ \A r : (Has(SnapKey(r))' <=> Has(SnapKey(r))) /\ (Has(SnapKey(r)) => disk'[SnapKey(r)] = disk[SnapKey(r)])
  /\ \A m : (Has(CommitKey(m))' <=> Has(CommitKey(m))) /\ (Has(CommitKey(m)) => disk'[CommitKey(m)] = disk[CommitKey(m)])
  /\ \A k \in {BaseKey, CommitsKey, SnapsKey, TrimmedKey} : \A o : Get(k, o)' = Get(k, o)

LEMMA SaveIs ==
  ASSUME Typed, Logged, Save, NEW ds, Chain(ds, log, SavedDoc, doc)
  PROVE  Len(log) \in Nat /\ Saved(Len(log))
<1>1. log \in Seq(Entry) /\ Len(log) \in Nat
  BY DEF Typed, UnderWay
<1>2. /\ \A i \in 1..Len(log) : log[i].rev = SavedRev + i /\ SavedRev + i <= MaxRev
      /\ doc.rev = SavedRev + Len(log)
  <2> DEFINE l == log
             d == SavedDoc
             e == doc
  <2>1. Len(l) \in Nat /\ Chain(ds, l, d, e)
    BY <1>1
  <2> HIDE DEF l, d, e
  <2>2. /\ \A i \in 0..Len(l) : ds[i] \in Proper /\ ds[i].rev = d.rev + i /\ d.rev + i <= MaxRev
        /\ \A i \in 1..Len(l) : l[i].rev = d.rev + i /\ Again(ds[i - 1], l[i]) = ds[i]
        /\ e.rev = d.rev + Len(l) /\ d \in Proper /\ e \in Proper
    BY <2>1, ChainIs
  <2>3. \A i \in 1..Len(l) : i \in 0..Len(l)
    BY <2>1
  <2>4. d.rev = SavedRev
    BY Numbers DEF d
  <2> QED BY <2>2, <2>3, <2>4 DEF l, e
<1>3. \A i \in 1..Len(log) : SavedRev + i \in Rev /\ SavedRev + i > SavedRev
  BY <1>1, <1>2, Numbers, Sizes DEF Rev
<1>4. /\ DOMAIN disk' = DOMAIN disk \cup {DocKey} \cup {OpKey(log[i].rev) : i \in 1..Len(log)}
      /\ disk'[DocKey] = doc
      /\ \A i \in 1..Len(log) : \E j \in 1..Len(log) : log[j].rev = log[i].rev /\ disk'[OpKey(log[i].rev)] = log[j]
      /\ \A k \in DOMAIN disk : k # DocKey /\ (\A i \in 1..Len(log) : k # OpKey(log[i].rev)) => disk'[k] = disk[k]
  BY <1>1, SaveDisk
<1>5. SavedDoc' = doc /\ SavedRev' = SavedRev + Len(log)
  <2>1. SavedDoc' = doc
    BY <1>4 DEF SavedDoc, Get, Has
  <2> QED BY <1>2, <2>1 DEF SavedRev, SavedDoc
<1>6. base' = base /\ snaps' = snaps /\ trimmed' = trimmed
  BY DEF Save, memory
<1>7. ASSUME NEW k, k # DocKey, \A i \in 1..Len(log) : k # OpKey(log[i].rev)
      PROVE  (Has(k)' <=> Has(k)) /\ (Has(k) => disk'[k] = disk[k])
  BY <1>4, <1>7 DEF Has
<1>8. ASSUME NEW r \in Rev, r <= SavedRev
      PROVE  (Has(OpKey(r))' <=> Has(OpKey(r))) /\ (Has(OpKey(r)) => disk'[OpKey(r)] = disk[OpKey(r)])
  <2>1. OpKey(r) # DocKey
    BY KeysApart
  <2>2. ASSUME NEW i \in 1..Len(log) PROVE OpKey(r) # OpKey(log[i].rev)
    <3>1. r # log[i].rev
      BY <1>2, <1>3, <1>8, Numbers DEF Rev
    <3> QED BY <3>1, KeysApart
  <2> QED BY <1>7, <2>1, <2>2
<1>9. ASSUME NEW r \in Nat, NEW i \in 1..Len(log), r = SavedRev + i
      PROVE  r \in Rev /\ Has(OpKey(r))' /\ disk'[OpKey(r)] = log[i]
  <2>1. PICK j \in 1..Len(log) : log[j].rev = log[i].rev /\ disk'[OpKey(log[i].rev)] = log[j]
    BY <1>4
  <2>2. log[j].rev = SavedRev + j /\ log[i].rev = SavedRev + i
    BY <1>2
  <2>3. j = i
    <3>1. SavedRev \in Nat
      BY Numbers
    <3>2. i \in Nat /\ j \in Nat
      BY <1>1
    <3>3. SavedRev + j = SavedRev + i
      BY <2>1, <2>2
    <3> QED BY <3>1, <3>2, <3>3
  <2>4. OpKey(log[i].rev) \in DOMAIN disk'
    BY <1>4
  <2>5. OpKey(log[i].rev) = OpKey(r)
    BY <1>9, <2>2
  <2>6. disk'[OpKey(r)] = log[i] /\ OpKey(r) \in DOMAIN disk'
    BY <2>1, <2>3, <2>4, <2>5
  <2> QED BY <1>3, <1>9, <2>6 DEF Has
<1>10. ASSUME NEW r \in Rev, Has(OpKey(r))', r > SavedRev PROVE \E i \in 1..Len(log) : r = SavedRev + i
  <2>1. ~Has(OpKey(r))
    BY <1>10, Numbers DEF Logged, Rev
  <2>2. PICK i \in 1..Len(log) : OpKey(r) = OpKey(log[i].rev)
    BY <1>4, <1>10, <2>1, KeysApart DEF Has
  <2>3. r = log[i].rev
    BY <2>2, KeysApart
  <2> QED BY <1>2, <2>3
<1>11. ASSUME NEW r
       PROVE  /\ (Has(SnapKey(r))' <=> Has(SnapKey(r))) /\ (Has(SnapKey(r)) => disk'[SnapKey(r)] = disk[SnapKey(r)])
              /\ (Has(CommitKey(r))' <=> Has(CommitKey(r)))
              /\ (Has(CommitKey(r)) => disk'[CommitKey(r)] = disk[CommitKey(r)])
  <2>1. /\ SnapKey(r) # DocKey /\ \A i \in 1..Len(log) : SnapKey(r) # OpKey(log[i].rev)
        /\ CommitKey(r) # DocKey /\ \A i \in 1..Len(log) : CommitKey(r) # OpKey(log[i].rev)
    BY KeysApart
  <2> QED BY <1>7, <2>1
<1>12. ASSUME NEW k \in {BaseKey, CommitsKey, SnapsKey, TrimmedKey}, NEW o PROVE Get(k, o)' = Get(k, o)
  <2>1. k # DocKey /\ \A i \in 1..Len(log) : k # OpKey(log[i].rev)
    BY KeysApart
  <2> QED BY <1>7, <2>1 DEF Get
<1> QED BY <1>1, <1>5, <1>6, <1>8, <1>9, <1>10, <1>11, <1>12 DEF Saved

\* What was read is read still, and each rev of the edit is a step further.
LEMMA SaveReads ==
  ASSUME Typed, Hist, NEW n \in Nat, Saved(n), NEW ds, Chain(ds, log, SavedDoc, doc), Len(log) = n
  PROVE  /\ \A r \in Nat : r <= SavedRev => At(r)' = At(r)
         /\ \A r \in Nat : \A i \in 0..n : r = SavedRev + i => At(r)' = ds[i]
<1>1. ASSUME NEW r \in Nat, r <= SavedRev PROVE At(r)' = At(r)
  <2>1. SnapFor(r)' = SnapFor(r)
    BY DEF Saved, SnapFor
  <2>2. DocOf(SnapFor(r))' = DocOf(SnapFor(r))
    BY <2>1 DEF Saved, DocOf, Get
  <2>3. ASSUME NEW q \in Rev, q <= r PROVE q <= SavedRev
    BY <1>1, <2>3, Numbers DEF Rev
  <2> QED BY <2>1, <2>2, <2>3, SameAt DEF Saved
<1> DEFINE Bad == {i \in 0..n : ~\A r \in Nat : r = SavedRev + i => At(r)' = ds[i]}
<1>2. ASSUME Bad # {} PROVE FALSE
  <2>1. PICK i \in Bad : \A y \in Bad : i <= y
    <3>1. Bad \subseteq Nat
      OBVIOUS
    <3> HIDE DEF Bad
    <3> QED BY <1>2, <3>1, LeastNumber
  <2>2. i \in 0..n
    BY <2>1
  <2>3. PICK r \in Nat : r = SavedRev + i /\ At(r)' # ds[i]
    BY <2>1
  <2>4. CASE i = 0
    <3>1. r = SavedRev /\ r \in Rev \cup {0}
      BY <2>3, <2>4, Numbers DEF Rev
    <3>2. At(r)' = At(r) /\ At(r) = SavedDoc
      BY <1>1, <3>1, Numbers DEF Hist, Ends
    <3>3. ds[0] = SavedDoc
      BY DEF Chain
    <3> QED BY <2>3, <2>4, <3>2, <3>3
  <2>5. CASE i # 0
    <3> DEFINE q == r - 1
    <3>1. i \in 1..n /\ i - 1 \in 0..n /\ i - 1 \notin Bad /\ q \in Nat /\ q = SavedRev + (i - 1) /\ r = q + 1
      BY <2>1, <2>2, <2>3, <2>5, Numbers
    <3> HIDE DEF q
    <3>2. At(q)' = ds[i - 1]
      BY <3>1
    <3>3. q >= SavedRev /\ r > SavedRev /\ r \in Rev /\ Has(OpKey(r))' /\ disk'[OpKey(r)] = log[i]
      <4>1. r \in Rev /\ Has(OpKey(r))' /\ disk'[OpKey(r)] = log[i]
        BY <2>3, <3>1 DEF Saved
      <4>2. q >= SavedRev /\ r > SavedRev
        BY <2>3, <3>1, Numbers
      <4> QED BY <4>1, <4>2
    <3>4. PICK s \in Nat : s = SnapFor(SavedRev) /\ s <= SavedRev /\ LastUpTo(snaps, s, SavedRev)
      BY SnapForListed, Numbers DEF Hist
    <3>5. SnapFor(q)' = s /\ SnapFor(r)' = s
      <4>1. \A j \in 1..Len(snaps) : snaps[j] <= SavedRev /\ snaps[j] \in Nat
        BY Numbers DEF Hist, Snapped
      <4>2. ASSUME NEW k \in Nat, k >= SavedRev PROVE LastUpTo(snaps, s, k)
        <5>1. \A j \in 1..Len(snaps) : snaps[j] <= k
          BY <4>1, <4>2, Numbers
        <5>2. CASE s = 0 /\ \A j \in 1..Len(snaps) : snaps[j] > SavedRev
          <6>1. ASSUME NEW j \in 1..Len(snaps) PROVE snaps[j] > k
            BY <4>1, <5>2, Numbers
          <6> QED BY <5>2, <6>1 DEF LastUpTo
        <5>3. CASE \E j \in 1..Len(snaps) : s = snaps[j] /\ s <= SavedRev /\ \A m \in 1..Len(snaps) : snaps[m] <= SavedRev => snaps[m] <= s
          BY <4>1, <5>1, <5>3 DEF LastUpTo
        <5> QED BY <3>4, <5>2, <5>3 DEF LastUpTo
      <4>3. LastUpTo(snaps, SnapFor(q), q) /\ LastUpTo(snaps, SnapFor(r), r)
        BY <3>1, SnapForListed DEF Hist
      <4>4. SnapFor(q) = s /\ SnapFor(r) = s
        <5>1. r >= SavedRev
          BY <2>3, <3>1, Numbers
        <5>2. LastUpTo(snaps, s, q) /\ LastUpTo(snaps, s, r)
          BY <3>1, <3>3, <4>2, <5>1
        <5> QED BY <3>1, <4>3, <5>2, LastUpToIsOne, Numbers
      <4> QED BY <4>4 DEF SnapFor, Saved
    <3> DEFINE from == DocOf(s)'
               S(k) == {m \in Rev : Has(OpKey(m))' /\ s < m /\ m <= k}
               L(k) == [m \in S(k) |-> disk'[OpKey(m)]]
    <3>6. At(q)' = Replay(L(q), from) /\ At(r)' = Replay(L(r), from)
      <4>1. OpsIn(s, q)' = L(q) /\ OpsIn(s, r)' = L(r)
        BY DEF OpsIn
      <4>2. At(q)' = Replay(OpsIn(s, q)', DocOf(s)') /\ At(r)' = Replay(OpsIn(s, r)', DocOf(s)')
        BY <3>5, AtIs DEF At, SnapFor, LastOf, DocOf
      <4> QED BY <4>1, <4>2
    <3>7. Replay(L(r), from) = Again(Replay(L(q), from), L(r)[r])
      <4>1. DOMAIN L(r) = S(r) /\ DOMAIN L(q) = S(q)
        OBVIOUS
      <4>2. \A m \in Rev : m \in S(q) => m < r
        BY <3>1 DEF Rev
      <4>3. \A m \in Rev : m \in S(r) <=> m \in S(q) \/ m = r
        BY <3>1, <3>3, <3>4, Numbers DEF Rev
      <4>4. \A m \in Rev : m \in S(q) => L(r)[m] = L(q)[m]
        BY <4>3
      <4> HIDE DEF S, L, from
      <4> QED BY <3>3, <4>1, <4>2, <4>3, <4>4, ReplayMore
    <3>8. L(r)[r] = log[i]
      BY <3>3, <3>4, Numbers DEF Rev
    <3>9. Again(ds[i - 1], log[i]) = ds[i]
      BY <3>1, ChainIs
    <3> QED BY <2>3, <3>2, <3>6, <3>7, <3>8, <3>9
  <2> QED BY <2>4, <2>5
<1>3. \A r \in Nat : \A i \in 0..n : r = SavedRev + i => At(r)' = ds[i]
  BY <1>2
<1> QED BY <1>1, <1>3

\* Lines are the same to whoever reads the history.
LEMMA SameLines ==
  /\ History!empty = empty
  /\ \A d : History!Ops(d) = Ops(d)
  /\ \A d, op, by : History!Step(d, op, by) = Step(d, op, by)
<1>1. History!empty = empty
  BY DEF History!empty, empty
<1>2. ASSUME NEW d PROVE History!Ops(d) = Ops(d)
  BY DEF History!Ops, Ops, History!ToSet, ToSet
<1>3. ASSUME NEW lines, NEW id PROVE History!Locate(lines, id) = Locate(lines, id)
  BY DEF History!Locate, Locate, History!SelectInSeq, SelectInSeq, History!Min, Min
<1>4. ASSUME NEW lines, NEW i, NEW l
      PROVE  /\ History!InsertAt(lines, i, l) = InsertAt(lines, i, l)
             /\ History!ReplaceAt(lines, i, l) = ReplaceAt(lines, i, l)
             /\ History!RemoveAt(lines, i) = RemoveAt(lines, i)
  BY DEF History!InsertAt, InsertAt, History!ReplaceAt, ReplaceAt, History!RemoveAt, RemoveAt
<1>5. ASSUME NEW d, NEW op, NEW by PROVE History!Step(d, op, by) = Step(d, op, by)
  BY <1>3, <1>4 DEF History!Step, Step
<1> QED BY <1>1, <1>2, <1>5

\* Where the history that can be read starts and ends.
LEMMA ShownIs ==
  ASSUME Typed, Logged
  PROVE  /\ DOMAIN Shown = Start..SavedRev /\ Start \in DOMAIN Shown /\ SavedRev \in DOMAIN Shown
         /\ History!First = Start /\ History!Latest = SavedRev
<1>1. DOMAIN Shown = Start..SavedRev /\ Start \in Nat /\ SavedRev \in Nat /\ Start <= SavedRev
  BY Numbers, Sizes DEF Logged, Shown
<1>2. History!First = CHOOSE r \in DOMAIN Shown : \A q \in DOMAIN Shown : r <= q
  BY DEF History!First, Shown
<1>3. History!Latest = CHOOSE r \in DOMAIN Shown : \A q \in DOMAIN Shown : q <= r
  BY DEF History!Latest, Shown
<1>4. Start \in DOMAIN Shown /\ \A q \in DOMAIN Shown : Start <= q
  BY <1>1
<1>5. SavedRev \in DOMAIN Shown /\ \A q \in DOMAIN Shown : q <= SavedRev
  BY <1>1
<1>6. /\ History!First \in DOMAIN Shown /\ \A q \in DOMAIN Shown : History!First <= q
      /\ History!Latest \in DOMAIN Shown /\ \A q \in DOMAIN Shown : q <= History!Latest
  BY <1>2, <1>3, <1>4, <1>5
<1>7. History!First = Start
  <2>1. History!First \in Nat /\ History!First <= Start /\ Start <= History!First
    BY <1>1, <1>4, <1>6
  <2> QED BY <1>1, <2>1
<1>8. History!Latest = SavedRev
  <2>1. History!Latest \in Nat /\ History!Latest <= SavedRev /\ SavedRev <= History!Latest
    BY <1>1, <1>5, <1>6
  <2> QED BY <1>1, <2>1
<1> QED BY <1>1, <1>4, <1>5, <1>7, <1>8

\* What a step does to the history that can be read.
Told == Shown' = Shown \/ History!Next

LEMMA SaveKeeps ==
  ASSUME Typed, Hist, Now, Save
  PROVE  Hist' /\ Now' /\ Told
<1>1. PICK ds : Chain(ds, log, SavedDoc, doc)
  BY DEF Now, Save, Leads
<1>2. PICK n \in Nat : n = Len(log) /\ Saved(n)
  BY <1>1, SaveIs DEF Hist
<1>3. /\ \A r \in Nat : r <= SavedRev => At(r)' = At(r)
      /\ \A r \in Nat : \A i \in 0..n : r = SavedRev + i => At(r)' = ds[i]
  BY <1>1, <1>2, SaveReads
<1>4. /\ ds \in [0..n -> Proper] /\ ds[n] = doc
      /\ \A i \in 1..n : \E op \in Ops(ds[i - 1]), by \in Writers :
           ds[i] = Step(ds[i - 1], op, by) /\ log[i] = Applied(ds[i - 1], op, by)
  BY <1>1, <1>2 DEF Chain
<1>5. SavedRev' = SavedRev + n /\ SavedDoc' = doc /\ Start' = Start /\ BaseRev' = BaseRev
  BY <1>2 DEF Saved, Start, BaseRev
<1>6. SavedRev + n <= MaxRev
  <2>1. doc.rev \in 0..MaxRev /\ SavedRev' = doc.rev
    BY <1>5, Numbers DEF SavedRev, SavedDoc
  <2> QED BY <1>5, <2>1
<1>7. \A i \in 1..n : log[i].rev = SavedRev + i
  <2> DEFINE l == log
             d == SavedDoc
             e == doc
  <2>1. Len(l) \in Nat /\ Chain(ds, l, d, e)
    BY <1>1, <1>2
  <2> HIDE DEF l, d, e
  <2>2. \A i \in 1..Len(l) : l[i].rev = d.rev + i
    BY <2>1, ChainIs
  <2>3. d.rev = SavedRev
    BY Numbers DEF d
  <2> QED BY <1>2, <2>2, <2>3 DEF l
<1>8. Logged'
  <2>1. Start <= SavedRev + n
    BY Numbers, Sizes DEF Hist, Logged
  <2>2. ASSUME NEW r \in Rev, Has(OpKey(r))' PROVE BaseRev < r /\ r <= SavedRev + n /\ disk'[OpKey(r)].rev = r
    <3>1. CASE r <= SavedRev
      <4>1. Has(OpKey(r)) /\ disk'[OpKey(r)] = disk[OpKey(r)]
        BY <1>2, <2>2, <3>1 DEF Saved
      <4>2. BaseRev < r /\ disk[OpKey(r)].rev = r
        BY <4>1 DEF Hist, Logged
      <4>3. r <= SavedRev + n
        BY <3>1, Numbers DEF Rev
      <4> QED BY <4>1, <4>2, <4>3
    <3>2. CASE r > SavedRev
      <4>1. PICK i \in 1..n : r = SavedRev + i
        BY <1>2, <2>2, <3>2 DEF Saved
      <4>2. r \in Nat
        BY DEF Rev
      <4>3. disk'[OpKey(r)] = log[i]
        BY <1>2, <4>1, <4>2 DEF Saved
      <4>4. Start <= SavedRev
        BY DEF Hist, Logged
      <4>5. BaseRev < r
        BY <3>2, <4>2, <4>4, Numbers
      <4>6. r <= SavedRev + n
        BY <4>1, Numbers
      <4> QED BY <1>7, <4>1, <4>3, <4>5, <4>6
    <3>3. r \in Nat
      BY DEF Rev
    <3> QED BY <3>1, <3>2, <3>3, Numbers
  <2>3. ASSUME NEW r \in Rev, Start < r, r <= SavedRev + n PROVE Has(OpKey(r))'
    <3>1. r \in Nat
      BY DEF Rev
    <3>2. CASE r <= SavedRev
      BY <1>2, <2>3, <3>2 DEF Saved, Hist, Logged
    <3>3. CASE r > SavedRev
      <4> DEFINE i == r - SavedRev
      <4>1. i \in 1..n /\ r = SavedRev + i
        BY <2>3, <3>1, <3>3, Numbers
      <4> HIDE DEF i
      <4> QED BY <1>2, <3>1, <4>1 DEF Saved
    <3> QED BY <3>1, <3>2, <3>3, Numbers
  <2> QED BY <1>5, <2>1, <2>2, <2>3 DEF Logged
<1>9. Snapped'
  <2>1. snaps' = snaps /\ trimmed' = trimmed
    BY <1>2 DEF Saved
  <2>2. ASSUME NEW i \in 1..Len(snaps) PROVE snaps[i] <= SavedRev + n /\ SnapKey(snaps[i]) \in DOMAIN disk'
    <3> DEFINE s == snaps[i]
    <3>1. s \in Nat /\ s <= SavedRev /\ Has(SnapKey(s))
      BY Numbers DEF Hist, Snapped
    <3> HIDE DEF s
    <3>2. PICK t \in Nat : t = s
      BY <3>1
    <3>3. Has(SnapKey(t))'
      BY <1>2, <3>1, <3>2 DEF Saved
    <3>4. SnapKey(s) \in DOMAIN disk'
      BY <3>2, <3>3 DEF Has
    <3> QED BY <3>1, <3>4, Numbers DEF s
  <2> QED BY <1>5, <2>1, <2>2 DEF Hist, Snapped, Has
<1>10. Ends'
  <2>1. ASSUME NEW r \in Rev \cup {0}, r = SavedRev + n PROVE At(r)' = doc
    <3>1. r \in Nat /\ n \in 0..n
      BY DEF Rev
    <3>2. At(r)' = ds[n]
      BY <1>3, <2>1, <3>1
    <3> QED BY <1>4, <3>2
  <2> QED BY <1>5, <2>1 DEF Ends
<1>11. Now'
  BY <1>5 DEF Save, memory, Now
<1>12. DOMAIN Shown' = Start..(SavedRev + n) /\ \A r \in Start..(SavedRev + n) : Shown'[r] = At(r)'
  <2>1. Readable' = Start..(SavedRev + n)
    BY <1>5 DEF Readable, Start
  <2> QED BY <2>1 DEF Shown
<1>13. Start \in Nat /\ SavedRev \in Nat /\ Start <= SavedRev
  BY Numbers DEF Hist, Logged
<1>14. \A r \in Start..SavedRev : Shown'[r] = Shown[r]
  <2>1. \A r \in Start..SavedRev : Shown[r] = At(r)
    BY Numbers DEF Shown
  <2>2. \A r \in Start..SavedRev : r \in Nat /\ r <= SavedRev /\ r \in Start..(SavedRev + n)
    BY <1>13
  <2> QED BY <1>3, <1>12, <2>1, <2>2
<1>15. CASE n = 0
  <2>1. DOMAIN Shown' = Start..SavedRev /\ DOMAIN Shown = Start..SavedRev
    BY <1>12, <1>13, <1>15, ShownIs DEF Hist
  <2>2. Shown' = [r \in DOMAIN Shown' |-> Shown'[r]] /\ Shown = [r \in DOMAIN Shown |-> Shown[r]]
    BY DEF Shown
  <2>3. Shown' = Shown
    BY <1>14, <2>1, <2>2
  <2> QED BY <1>8, <1>9, <1>10, <1>11, <2>3 DEF Hist, Told
<1>16. CASE n # 0
  <2>1. PICK upto \in (SavedRev + 1)..MaxRev : upto = SavedRev + n
    BY <1>6, <1>13, <1>16, Sizes
  <2>2. ASSUME NEW r \in SavedRev..(upto - 1)
        PROVE  \E op \in Ops(Shown'[r]), by \in Writers : Shown'[r + 1] = Step(Shown'[r], op, by)
    <3>1. PICK i \in 1..n : r = SavedRev + (i - 1) /\ r + 1 = SavedRev + i
      <4>1. r - SavedRev + 1 \in 1..n /\ r = SavedRev + ((r - SavedRev + 1) - 1)
                 /\ r + 1 = SavedRev + (r - SavedRev + 1)
        BY <1>13, <2>1
      <4> QED BY <4>1
    <3>2. r \in Nat /\ r + 1 \in Nat /\ i \in 0..n /\ i - 1 \in 0..n
      BY <1>13
    <3>3. At(r)' = ds[i - 1]
      BY <1>3, <3>1, <3>2
    <3> DEFINE q == r + 1
    <3>4. q \in Nat /\ q = SavedRev + i
      BY <3>1, <3>2
    <3> HIDE DEF q
    <3>5. At(q)' = ds[i]
      BY <1>3, <3>2, <3>4
    <3>6. r \in Start..(SavedRev + n) /\ q \in Start..(SavedRev + n)
      BY <1>13, <3>1, <3>4
    <3>7. Shown'[r] = ds[i - 1] /\ Shown'[q] = ds[i]
      BY <1>12, <3>3, <3>5, <3>6
    <3> QED BY <1>4, <3>7 DEF q
  <2>3. History!First = Start /\ History!Latest = SavedRev
    BY ShownIs DEF Hist
  <2>4. History!Edit
    BY <1>12, <1>14, <2>1, <2>2, <2>3, SameLines DEF History!Edit, Shown
  <2> QED BY <1>8, <1>9, <1>10, <1>11, <2>4 DEF Hist, Told, History!Next
<1> QED BY <1>15, <1>16

-----------------------------------------------------------------------------
(* A snapshot.                                                             *)

\* Which snapshots are listed after one of rev R: those there were, or all but the first, and R.
Listed(R) ==
  /\ snaps' \in Seq(Rev) /\ Len(snaps') > 0 /\ Ascending(snaps')
  /\ \A i \in 1..Len(snaps') : snaps'[i] <= R
  /\ \E i \in 1..Len(snaps') : snaps'[i] = R
  /\ \A i \in 1..Len(snaps') : snaps'[i] = R \/ \E j \in 1..Len(snaps) : snaps'[i] = snaps[j]
  /\ \A j \in 1..Len(snaps) :
       snaps[j] < R /\ (edit'.drop = None \/ j > 1 => \E i \in 1..Len(snaps') : snaps'[i] = snaps[j])
  /\ Len(snaps) > 0 => snaps[1] <= snaps'[1] /\ (edit'.drop # None => edit'.drop = snaps[1] /\ snaps[1] < snaps'[1])
  /\ Len(snaps) = 0 => edit'.drop = None

LEMMA ListedIs ==
  ASSUME Typed, Snapped, Snapshot
  PROVE  Listed(doc.rev)
<1> DEFINE s == snaps
           t == snaps'
           R == doc.rev
<1>1. s \in Seq(Rev) /\ Len(s) \in Nat /\ Ascending(s) /\ R \in Rev /\ R \in Nat
  BY Numbers, SnapsKept DEF Snapped, Rev
<1>2. t \in Seq(Rev) /\ Len(t) > 0 /\ t[Len(t)] = R
  BY SnapsKept, Bounded, Sizes
<1>3. \/ edit'.drop = None /\ Len(t) = Len(s) + 1 /\ \A i \in 1..Len(s) : t[i] = s[i]
      \/ /\ edit'.drop = s[1] /\ Len(s) > 0 /\ Len(t) = Len(s)
         /\ \A i \in 1..(Len(s) - 1) : t[i] = s[i + 1]
  BY SnapsKept
<1>4. LastSnap < R /\ (s # <<>> => Len(s) > 0 /\ LastSnap = s[Len(s)])
  BY SnapsKept, LastSnapIs
<1>5. \A i \in 1..Len(s) : s[i] \in Rev /\ s[i] \in Nat
  BY Numbers
<1>6. None \notin Nat
  BY NoneIsNone
<1> HIDE DEF s, t, R
<1>7. ASSUME NEW j \in 1..Len(s) PROVE s[j] < R
  <2>1. s # <<>> /\ Len(s) \in 1..Len(s) /\ (j = Len(s) \/ j < Len(s))
    BY <1>1
  <2>2. s[j] <= s[Len(s)]
    BY <1>1, <1>5, <2>1 DEF Ascending
  <2> QED BY <1>1, <1>4, <1>5, <2>1, <2>2
<1>8. CASE edit'.drop = None /\ Len(t) = Len(s) + 1 /\ \A i \in 1..Len(s) : t[i] = s[i]
  <2>1. \A i \in 1..Len(t) : (i \in 1..Len(s) /\ t[i] = s[i]) \/ (i = Len(s) + 1 /\ t[i] = R)
    BY <1>1, <1>2, <1>8
  <2>2. Ascending(t)
    <3> SUFFICES ASSUME NEW i \in 1..Len(t), NEW j \in 1..Len(t), i < j PROVE t[i] < t[j]
      BY DEF Ascending
    <3>1. i \in 1..Len(s) /\ t[i] = s[i]
      BY <1>1, <1>8
    <3>2. CASE j \in 1..Len(s) /\ t[j] = s[j]
      BY <1>1, <3>1, <3>2 DEF Ascending
    <3>3. CASE t[j] = R
      BY <1>7, <3>1, <3>3
    <3> QED BY <2>1, <3>2, <3>3
  <2>3. \A i \in 1..Len(t) : t[i] <= R
    BY <1>1, <1>5, <1>7, <2>1
  <2>4. \A j \in 1..Len(s) : j \in 1..Len(t) /\ t[j] = s[j]
    BY <1>1, <1>8
  <2>5. Len(s) > 0 => s[1] <= t[1]
    BY <1>1, <1>5, <2>4
  <2>6. Len(t) \in 1..Len(t)
    BY <1>2
  <2> QED BY <1>2, <1>7, <1>8, <2>1, <2>2, <2>3, <2>4, <2>5, <2>6 DEF s, t, R, Listed
<1>9. CASE /\ edit'.drop = s[1] /\ Len(s) > 0 /\ Len(t) = Len(s)
           /\ \A i \in 1..(Len(s) - 1) : t[i] = s[i + 1]
  <2>1. \A i \in 1..Len(t) : (i \in 1..(Len(s) - 1) /\ i + 1 \in 1..Len(s) /\ t[i] = s[i + 1]) \/ (i = Len(s) /\ t[i] = R)
    BY <1>1, <1>2, <1>9
  <2>2. Ascending(t)
    <3> SUFFICES ASSUME NEW i \in 1..Len(t), NEW j \in 1..Len(t), i < j PROVE t[i] < t[j]
      BY DEF Ascending
    <3>1. i \in 1..(Len(s) - 1) /\ i + 1 \in 1..Len(s) /\ t[i] = s[i + 1]
      BY <1>1, <1>9
    <3>2. CASE j \in 1..(Len(s) - 1) /\ j + 1 \in 1..Len(s) /\ t[j] = s[j + 1]
      BY <1>1, <3>1, <3>2 DEF Ascending
    <3>3. CASE t[j] = R
      BY <1>7, <3>1, <3>3
    <3> QED BY <2>1, <3>2, <3>3
  <2>3. \A i \in 1..Len(t) : t[i] <= R
    BY <1>1, <1>5, <1>7, <2>1
  <2>4. ASSUME NEW j \in 1..Len(s), j > 1 PROVE \E i \in 1..Len(t) : t[i] = s[j]
    <3>1. j - 1 \in 1..(Len(s) - 1) /\ j - 1 \in 1..Len(t) /\ (j - 1) + 1 = j
      BY <1>1, <1>9, <2>4
    <3>2. t[j - 1] = s[j]
      BY <1>9, <3>1
    <3> QED BY <3>1, <3>2
  <2>5. s[1] < t[1]
    <3>1. 1 \in 1..Len(t) /\ 1 \in 1..Len(s)
      BY <1>1, <1>9
    <3>2. CASE 2 \in 1..Len(s) /\ t[1] = s[2]
      BY <1>1, <3>1, <3>2 DEF Ascending
    <3>3. CASE t[1] = R
      BY <1>7, <3>1, <3>3
    <3> QED BY <2>1, <3>1, <3>2, <3>3
  <2>6. Len(t) \in 1..Len(t)
    BY <1>2
  <2>7. edit'.drop # None
    BY <1>1, <1>5, <1>6, <1>9
  <2>8. s[1] \in Nat /\ t[1] \in Nat
    <3>1. 1 \in 1..Len(t) /\ 1 \in 1..Len(s)
      BY <1>1, <1>9
    <3>2. t[1] \in Rev
      BY <1>2, <3>1
    <3> QED BY <1>5, <3>1, <3>2 DEF Rev
  <2>9. \A i \in 1..Len(t) : t[i] = R \/ \E j \in 1..Len(s) : t[i] = s[j]
    BY <2>1
  <2>10. \A j \in 1..Len(s) : edit'.drop = None \/ j > 1 => \E i \in 1..Len(t) : t[i] = s[j]
    BY <2>4, <2>7
  <2>11. s[1] <= t[1] /\ edit'.drop = s[1] /\ Len(s) > 0
    BY <1>9, <2>5, <2>8
  <2> QED BY <1>2, <1>7, <2>2, <2>3, <2>5, <2>6, <2>9, <2>10, <2>11 DEF s, t, R, Listed
<1> QED BY <1>3, <1>8, <1>9

\* Each rev that can be read still reads as it did.
LEMMA SnapshotReads ==
  ASSUME Typed, Hist, doc = SavedDoc, Snapshot, NEW r \in Nat, trimmed' <= r, r <= SavedRev
  PROVE  At(r)' = At(r)
<1>1. PICK R \in Rev : R = SavedRev /\ R = doc.rev
  BY SnapsKept, Numbers
<1>2. R \in Nat
  BY <1>1 DEF Rev
<1>3. Listed(R)
  BY <1>1, ListedIs DEF Hist
<1>4. /\ DOMAIN disk' = DOMAIN disk \cup {SnapKey(R), SnapsKey, TrimmedKey} /\ disk'[SnapKey(R)] = doc
      /\ \A k \in DOMAIN disk : k \notin {SnapKey(R), SnapsKey, TrimmedKey} => disk'[k] = disk[k]
  BY <1>1, SnapshotDisk
<1>5. base' = base
  BY DEF Snapshot
<1>6. ASSUME NEW k, k \notin {SnapKey(R), SnapsKey, TrimmedKey}
      PROVE  (Has(k)' <=> Has(k)) /\ (Has(k) => disk'[k] = disk[k])
  BY <1>4, <1>6 DEF Has
<1>7. ASSUME NEW q PROVE (Has(OpKey(q))' <=> Has(OpKey(q))) /\ (Has(OpKey(q)) => disk'[OpKey(q)] = disk[OpKey(q)])
  <2>1. OpKey(q) \notin {SnapKey(R), SnapsKey, TrimmedKey}
    BY KeysApart
  <2> QED BY <1>6, <2>1
<1>8. \A i \in 1..Len(snaps') : snaps'[i] \in Nat /\ snaps'[i] > 0
  <2>1. \A i \in 1..Len(snaps') : snaps'[i] \in Rev
    BY <1>3 DEF Listed
  <2> QED BY <2>1 DEF Rev
<1>9. LastUpTo(snaps', SnapFor(r)', r)
  BY <1>3, LastOfIs DEF Listed, SnapFor
<1>10. CASE r = R
  <2>1. LastUpTo(snaps', R, R)
    BY <1>2, <1>3 DEF Listed, LastUpTo
  <2>2. SnapFor(r)' = R
    BY <1>2, <1>3, <1>9, <1>10, <2>1, LastUpToIsOne DEF Listed
  <2>3. At(r)' = Replay(OpsIn(SnapFor(r), r)', DocOf(SnapFor(r))')
    BY AtIs DEF At, SnapFor, LastOf, DocOf
  <2>4. DOMAIN OpsIn(SnapFor(r), r)' \cap Rev = {}
    <3> DEFINE S == {q \in Rev : Has(OpKey(q))' /\ R < q /\ q <= r}
    <3>1. OpsIn(SnapFor(r), r)' = [q \in S |-> disk'[OpKey(q)]]
      BY <2>2 DEF OpsIn
    <3>2. S = {}
      BY <1>2, <1>10 DEF Rev
    <3> QED BY <3>1, <3>2
  <2>5. DocOf(SnapFor(r))' = doc
    <3>1. Has(SnapKey(R))' /\ disk'[SnapKey(R)] = doc /\ R # 0
      BY <1>1, <1>4 DEF Has, Rev
    <3>2. DocOf(SnapFor(r))' = Get(SnapKey(SnapFor(r)), empty)'
      BY <2>2, <3>1 DEF DocOf
    <3> QED BY <2>2, <3>1, <3>2 DEF Get, Has
  <2>6. At(r)' = doc
    <3> DEFINE ops == OpsIn(SnapFor(r), r)'
               from == DocOf(SnapFor(r))'
    <3>1. DOMAIN ops \cap Rev = {} /\ from = doc /\ At(r)' = Replay(ops, from)
      BY <2>3, <2>4, <2>5
    <3> HIDE DEF ops, from
    <3> QED BY <3>1, ReplayNone
  <2>7. At(r) = SavedDoc
    BY <1>1, <1>10 DEF Hist, Ends
  <2> QED BY <2>6, <2>7
<1>11. CASE r # R
  <2>1. r < R
    BY <1>1, <1>2, <1>11
  <2>2. PICK s \in Nat : s = SnapFor(r) /\ LastUpTo(snaps, s, r) /\ s <= r
    BY SnapForListed DEF Hist
  <2>3. LastUpTo(snaps', s, r)
    <3>1. CASE s = 0 /\ \A i \in 1..Len(snaps) : snaps[i] > r
      <4>1. \A i \in 1..Len(snaps') : snaps'[i] > r
        BY <1>2, <1>3, <2>1, <3>1 DEF Listed
      <4> QED BY <3>1, <4>1 DEF LastUpTo
    <3>2. CASE \E i \in 1..Len(snaps) : s = snaps[i] /\ s <= r /\ \A j \in 1..Len(snaps) : snaps[j] <= r => snaps[j] <= s
      <4>1. PICK i \in 1..Len(snaps) : s = snaps[i]
        BY <3>2
      <4>2. \A j \in 1..Len(snaps) : snaps[j] <= r => snaps[j] <= s
        BY <3>2
      <4>3. ASSUME NEW j \in 1..Len(snaps'), snaps'[j] <= r PROVE snaps'[j] <= s
        <5>1. snaps'[j] # R
          BY <1>2, <2>1, <4>3
        <5>2. PICK m \in 1..Len(snaps) : snaps'[j] = snaps[m]
          BY <1>3, <5>1 DEF Listed
        <5> QED BY <4>2, <4>3, <5>2
      <4>4. edit'.drop = None \/ i > 1
        <5>1. SUFFICES ASSUME edit'.drop # None PROVE i > 1
          OBVIOUS
        <5>2. Len(snaps) > 0 /\ 1 \in 1..Len(snaps') /\ 1 \in 1..Len(snaps)
          BY <1>3, <4>1 DEF Listed
        <5>3. snaps[1] < snaps'[1] /\ trimmed' = snaps'[1]
          BY <1>3, <5>1, <5>2, TrimmedIs DEF Listed
        <5>4. snaps'[1] <= s
          BY <4>3, <5>2, <5>3
        <5>5. i # 1
          BY <1>8, <4>1, <5>2, <5>3, <5>4, Numbers
        <5> QED BY <5>5
      <4>5. \E j \in 1..Len(snaps') : snaps'[j] = s
        BY <1>3, <4>1, <4>4 DEF Listed
      <4> QED BY <2>2, <4>3, <4>5 DEF LastUpTo
    <3> QED BY <2>2, <3>1, <3>2 DEF LastUpTo
  <2>4. SnapFor(r)' = s
    BY <1>3, <1>9, <2>3, LastUpToIsOne DEF Listed
  <2>5. DocOf(s)' = DocOf(s)
    <3>1. SnapKey(s) \notin {SnapKey(R), SnapsKey, TrimmedKey}
      BY <1>2, <2>1, <2>2, KeysApart
    <3> QED BY <1>5, <1>6, <3>1 DEF DocOf, Get
  <2>6. DocOf(SnapFor(r))' = DocOf(SnapFor(r))
    BY <2>2, <2>4, <2>5 DEF DocOf
  <2> QED BY <1>7, <2>2, <2>4, <2>6, SameAt
<1> QED BY <1>10, <1>11

LEMMA SnapshotKeeps ==
  ASSUME Typed, Hist, Now, Snapshot
  PROVE  Hist' /\ Now' /\ Dropping' /\ Told /\ SavedRev' = SavedRev /\ trimmed' >= trimmed
<1>1. doc = SavedDoc
  BY DEF Now, Snapshot
<1>2. PICK R \in Rev : R = SavedRev /\ R = doc.rev
  BY <1>1, SnapsKept, Numbers
<1>3. R \in Nat
  BY <1>2 DEF Rev
<1>4. Listed(R)
  BY <1>2, ListedIs DEF Hist
<1>5. /\ DOMAIN disk' = DOMAIN disk \cup {SnapKey(R), SnapsKey, TrimmedKey} /\ disk'[SnapKey(R)] = doc
      /\ \A k \in DOMAIN disk : k \notin {SnapKey(R), SnapsKey, TrimmedKey} => disk'[k] = disk[k]
  BY <1>2, SnapshotDisk
<1>6. ASSUME NEW k, k \notin {SnapKey(R), SnapsKey, TrimmedKey}
      PROVE  (Has(k)' <=> Has(k)) /\ (Has(k) => disk'[k] = disk[k])
  BY <1>5, <1>6 DEF Has
<1>7. ASSUME NEW q PROVE (Has(OpKey(q))' <=> Has(OpKey(q))) /\ (Has(OpKey(q)) => disk'[OpKey(q)] = disk[OpKey(q)])
  <2>1. OpKey(q) \notin {SnapKey(R), SnapsKey, TrimmedKey}
    BY KeysApart
  <2> QED BY <1>6, <2>1
<1>8. base' = base /\ doc' = doc /\ BaseRev' = BaseRev /\ SavedDoc' = SavedDoc /\ SavedRev' = SavedRev
  <2>1. DocKey \notin {SnapKey(R), SnapsKey, TrimmedKey}
    BY KeysApart
  <2> QED BY <1>6, <2>1 DEF Snapshot, BaseRev, SavedDoc, SavedRev, Get
<1>9. \A i \in 1..Len(snaps') : snaps'[i] \in Nat /\ snaps'[i] > 0 /\ snaps'[i] <= R
  <2>1. \A i \in 1..Len(snaps') : snaps'[i] \in Rev /\ snaps'[i] <= R
    BY <1>4 DEF Listed
  <2> QED BY <2>1 DEF Rev
<1>10. 1 \in 1..Len(snaps') /\ Len(snaps') > 0
  BY <1>4 DEF Listed
<1>11. trimmed' = trimmed \/ trimmed' = snaps'[1]
  BY TrimmedIs
<1>12. trimmed' >= trimmed /\ trimmed' <= R /\ trimmed' \in Nat
  <2>1. trimmed = 0 \/ (Len(snaps) > 0 /\ trimmed = snaps[1])
    BY DEF Hist, Snapped
  <2>2. Len(snaps) > 0 => snaps[1] <= snaps'[1]
    BY <1>4 DEF Listed
  <2>3. trimmed <= R /\ trimmed \in Nat
    BY <1>2, Numbers DEF Hist, Logged
  <2> QED BY <1>9, <1>10, <1>11, <2>1, <2>2, <2>3
<1>13. Start' >= Start /\ Start' >= trimmed' /\ Start' <= R /\ Start' \in Nat
  <2>1. BaseRev \in Nat /\ BaseRev <= R /\ trimmed \in Nat
    BY <1>2, Numbers DEF Hist, Logged
  <2> QED BY <1>3, <1>8, <1>12, <2>1 DEF Start
<1>14. Logged'
  <2>1. \A q \in Rev : Start < q \/ ~(Start' < q)
    BY <1>13, Numbers DEF Rev
  <2> QED BY <1>2, <1>7, <1>8, <1>13, <2>1 DEF Hist, Logged
<1>15. Snapped'
  <2>1. ASSUME NEW i \in 1..Len(snaps') PROVE SnapKey(snaps'[i]) \in DOMAIN disk'
    <3>1. CASE snaps'[i] = R
      BY <1>5, <3>1
    <3>2. CASE snaps'[i] # R
      <4>1. PICK j \in 1..Len(snaps) : snaps'[i] = snaps[j]
        BY <1>4, <3>2 DEF Listed
      <4>2. SnapKey(snaps[j]) \in DOMAIN disk
        BY DEF Hist, Snapped, Has
      <4> QED BY <1>5, <4>1, <4>2
    <3> QED BY <3>1, <3>2
  <2>2. \A i \in 1..Len(snaps') : snaps'[i] <= SavedRev'
    BY <1>2, <1>8, <1>9
  <2>3. trimmed' = 0 \/ trimmed' = snaps'[1]
    <3>1. CASE trimmed' = snaps'[1]
      BY <3>1
    <3>2. CASE trimmed' = trimmed /\ trimmed' # snaps'[1]
      <4>1. edit'.drop = None
        BY <3>2, TrimmedIs
      <4>2. CASE Len(snaps) > 0 /\ trimmed = snaps[1]
        <5>1. 1 \in 1..Len(snaps)
          BY <4>2, Numbers
        <5>2. PICK i \in 1..Len(snaps') : snaps'[i] = snaps[1]
          BY <1>4, <4>1, <5>1 DEF Listed
        <5>3. snaps[1] <= snaps'[1]
          BY <1>4, <4>2 DEF Listed
        <5>4. snaps'[1] <= snaps'[i]
          <6>1. i = 1 \/ 1 < i
            OBVIOUS
          <6> QED BY <1>4, <1>9, <1>10, <6>1 DEF Listed, Ascending
        <5>5. snaps'[1] = snaps[1]
          BY <1>9, <1>10, <5>1, <5>2, <5>3, <5>4, Numbers
        <5> QED BY <3>2, <4>2, <5>5
      <4> QED BY <3>2, <4>2 DEF Hist, Snapped
    <3> QED BY <1>11, <3>1, <3>2
  <2>4. Ascending(snaps')
    BY <1>4 DEF Listed
  <2> QED BY <1>10, <2>1, <2>2, <2>3, <2>4 DEF Snapped, Has
<1>16. ASSUME NEW r \in Nat, Start' <= r, r <= R PROVE At(r)' = At(r)
  <2>1. trimmed' <= r
    BY <1>12, <1>13, <1>16
  <2> QED BY <1>1, <1>2, <1>16, <2>1, SnapshotReads
<1>17. Ends'
  <2>1. At(R)' = At(R)
    BY <1>3, <1>13, <1>16
  <2>2. At(R) = SavedDoc
    BY <1>2 DEF Hist, Ends
  <2>3. ASSUME NEW r \in Rev \cup {0}, r = SavedRev' PROVE At(r)' = SavedDoc'
    <3>1. r = R
      BY <1>2, <1>8, <2>3
    <3> QED BY <1>8, <2>1, <2>2, <3>1
  <2> QED BY <2>3 DEF Ends
<1>18. Now'
  BY <1>1, <1>8 DEF Snapshot, Now
<1>19. Dropping'
  <2>1. edit'.drop = None \/ (edit'.drop = snaps[1] /\ snaps[1] < snaps'[1])
    <3>1. Len(snaps) \in Nat
      BY Numbers
    <3> QED BY <1>4, <3>1 DEF Listed
  <2> QED BY <1>10, <2>1 DEF Dropping
<1>20. History!Trim
  <2>1. History!First = Start /\ History!Latest = SavedRev /\ DOMAIN Shown = Start..SavedRev
    BY ShownIs DEF Hist
  <2>2. PICK r \in DOMAIN Shown : r = Start'
    <3>1. Start \in Nat /\ Start' \in Start..R
      BY <1>3, <1>13, Numbers
    <3>2. Start' \in DOMAIN Shown
      BY <1>2, <2>1, <3>1
    <3> QED BY <3>2
  <2>3. \A q \in r..SavedRev : q \in Nat /\ Start' <= q /\ q <= R /\ q \in Start..SavedRev
    BY <1>2, <1>3, <1>13, <2>2, Numbers
  <2>4. Shown' = [q \in r..SavedRev |-> At(q)']
    BY <1>8, <2>2 DEF Shown, Readable, Start
  <2>5. \A q \in r..SavedRev : At(q)' = Shown[q]
    BY <1>16, <2>1, <2>3 DEF Shown
  <2>6. Shown' = History!Restrict(Shown, r..SavedRev)
    BY <2>4, <2>5 DEF History!Restrict
  <2> QED BY <2>1, <2>2, <2>6 DEF History!Trim, Shown
<1> QED BY <1>8, <1>12, <1>14, <1>15, <1>17, <1>18, <1>19, <1>20 DEF Hist, Told, History!Next

-----------------------------------------------------------------------------
(* The other steps.                                                        *)

\* Without snapshots and ops, every rev reads as what history starts with.
Bare ==
  \A r \in Nat : snaps = <<>> /\ (\A q \in Rev : ~Has(OpKey(q))) =>
    At(r) = IF base = None THEN empty ELSE base

LEMMA BareIs == Bare
<1> SUFFICES ASSUME NEW r \in Nat, snaps = <<>>, \A q \in Rev : ~Has(OpKey(q))
             PROVE  At(r) = IF base = None THEN empty ELSE base
  BY DEF Bare
<1>1. SnapFor(r) = 0
  BY DEF SnapFor, LastOf
<1>2. DocOf(SnapFor(r)) = IF base = None THEN empty ELSE base
  BY <1>1 DEF DocOf
<1> DEFINE ops == OpsIn(SnapFor(r), r)
           from == DocOf(SnapFor(r))
<1>3. DOMAIN ops \cap Rev = {}
  BY DEF OpsIn
<1>4. At(r) = Replay(ops, from)
  BY AtIs
<1> HIDE DEF ops, from
<1>5. At(r) = from
  BY <1>3, <1>4, ReplayNone
<1> QED BY <1>2, <1>5 DEF from

LEMMA BareAfter == Bare'
BY BareIs, PTL

LEMMA DropKeeps ==
  ASSUME Typed, Hist, Dropping, Drop
  PROVE  Hist' /\ Shown' = Shown
<1> DEFINE gone == IF edit.drop = None THEN {} ELSE {SnapKey(edit.drop)}
<1>1. DOMAIN disk' = DOMAIN disk \ gone /\ \A k \in DOMAIN disk \ gone : disk'[k] = disk[k]
  <2>1. disk' = Without(gone)
    BY DEF Drop
  <2> HIDE DEF gone
  <2> QED BY <2>1, WithoutIs
<1>2. base' = base /\ snaps' = snaps /\ trimmed' = trimmed
  BY DEF Drop, memory
<1>3. ASSUME NEW k, k \notin gone PROVE (Has(k)' <=> Has(k)) /\ (Has(k) => disk'[k] = disk[k])
  BY <1>1, <1>3 DEF Has
<1>4. \A r : OpKey(r) \notin gone
  BY KeysApart
<1>5. DocKey \notin gone
  BY KeysApart
<1>6. ASSUME NEW i \in 1..Len(snaps) PROVE SnapKey(snaps[i]) \notin gone
  <2>1. CASE edit.drop = None
    BY <2>1
  <2>2. CASE edit.drop # None
    <3>1. edit.drop < snaps[1] /\ edit.drop \in Nat /\ Len(snaps) > 0
      BY <2>2 DEF Dropping, Typed, UnderWay, Rev
    <3>2. snaps[1] <= snaps[i] /\ snaps[1] \in Nat /\ snaps[i] \in Nat
      <4>1. 1 \in 1..Len(snaps) /\ (i = 1 \/ 1 < i)
        BY <3>1
      <4> QED BY <4>1, Numbers DEF Hist, Snapped, Ascending
    <3>3. edit.drop # snaps[i]
      BY <3>1, <3>2
    <3> QED BY <2>2, <3>3, KeysApart
  <2> QED BY <2>1, <2>2
<1> HIDE DEF gone
<1>7. Kept
  BY <1>2, <1>3, <1>4, <1>5, <1>6 DEF Kept, Get
<1> QED BY <1>7, KeptHist

LEMMA SweepKeeps ==
  ASSUME Typed, Hist, Sweep
  PROVE  Hist' /\ Shown' = Shown
<1>1. PICK page \in SUBSET {r \in Rev : Has(OpKey(r)) /\ r <= trimmed} : disk' = Without({OpKey(r) : r \in page})
  <2> DEFINE old == {r \in Rev : Has(OpKey(r)) /\ r <= trimmed}
             page == {r \in old : Cardinality({q \in old : q < r}) < OpPage}
  <2>1. disk' = Without({OpKey(r) : r \in page}) /\ page \in SUBSET old
    BY DEF Sweep
  <2> HIDE DEF page
  <2> QED BY <2>1
<1> DEFINE gone == {OpKey(r) : r \in page}
<1>2. DOMAIN disk' = DOMAIN disk \ gone /\ \A k \in DOMAIN disk \ gone : disk'[k] = disk[k]
  <2>1. disk' = Without(gone)
    BY <1>1
  <2> HIDE DEF gone
  <2> QED BY <2>1, WithoutIs
<1>3. base' = base /\ snaps' = snaps /\ trimmed' = trimmed
  BY DEF Sweep, memory
<1>4. ASSUME NEW k, k \notin gone PROVE (Has(k)' <=> Has(k)) /\ (Has(k) => disk'[k] = disk[k])
  BY <1>2, <1>4 DEF Has
<1>5. ASSUME NEW r \in Rev, trimmed < r PROVE OpKey(r) \notin gone
  <2>1. r \notin page
    BY <1>1, <1>5, Numbers DEF Rev
  <2> QED BY <2>1, KeysApart
<1>6. DocKey \notin gone /\ \A r : SnapKey(r) \notin gone
  BY KeysApart
<1>7. \A k : Has(k)' => Has(k) /\ disk'[k] = disk[k]
  BY <1>2 DEF Has
<1> HIDE DEF gone
<1>8. Kept
  BY <1>3, <1>4, <1>5, <1>6, <1>7 DEF Kept, Get
<1> QED BY <1>8, KeptHist

LEMMA EndCommitKeeps ==
  ASSUME Typed, Hist, EndCommit
  PROVE  Hist' /\ Shown' = Shown
<1>1. /\ DOMAIN disk' = DOMAIN disk \cup {CommitKey(hashing.n), CommitsKey}
      /\ \A k \in DOMAIN disk : k \notin {CommitKey(hashing.n), CommitsKey} => disk'[k] = disk[k]
  BY EndCommitDisk
<1>2. ASSUME NEW k, k \notin {CommitKey(hashing.n), CommitsKey}
      PROVE  (Has(k)' <=> Has(k)) /\ (Has(k) => disk'[k] = disk[k])
  BY <1>1, <1>2 DEF Has
<1>3. DocKey \notin {CommitKey(hashing.n), CommitsKey} /\ \A r : SnapKey(r) \notin {CommitKey(hashing.n), CommitsKey}
        /\ OpKey(r) \notin {CommitKey(hashing.n), CommitsKey}
  BY KeysApart
<1>4. base' = base /\ snaps' = snaps /\ trimmed' = trimmed
  BY DEF EndCommit
<1>5. Kept
  BY <1>2, <1>3, <1>4 DEF Kept, Get
<1> QED BY <1>5, KeptHist

\* A copy starts with the document it is given.
LEMMA ForkKeeps ==
  ASSUME Typed, Hist, Now, Fork
  PROVE  Hist' /\ Now' /\ Told /\ (\A r \in Rev : ~Has(OpKey(r))) /\ trimmed = 0
<1>1. /\ doc' \in Proper /\ doc'.rev \in Rev /\ base' = doc'
      /\ DOMAIN disk' = DOMAIN disk \cup {BaseKey, DocKey}
      /\ disk'[BaseKey] = doc' /\ disk'[DocKey] = doc'
      /\ \A k \in DOMAIN disk : k \notin {BaseKey, DocKey} => disk'[k] = disk[k]
  BY ForkDisk
<1>2. base = None /\ doc = SavedDoc /\ SavedRev = 0 /\ snaps' = snaps /\ trimmed' = trimmed /\ edit' = edit
  BY Numbers DEF Fork, Let_in, Idle, Now
<1>3. trimmed = 0 /\ BaseRev = 0 /\ Start = 0
  BY <1>2, Numbers DEF Hist, Logged
<1>4. \A r \in Rev : ~Has(OpKey(r))
  BY <1>2 DEF Hist, Logged, Rev
<1>5. snaps = <<>>
  <2>1. ~(1 \in 1..Len(snaps))
    BY <1>2, Numbers DEF Hist, Snapped, Rev
  <2>2. snaps \in Seq(Rev) /\ Len(snaps) = 0
    BY <2>1, Numbers
  <2> QED BY <2>2
<1>6. SavedDoc = empty /\ At(0) = empty
  <2>1. At(0) = empty
    BY <1>2, <1>4, <1>5, BareIs DEF Bare
  <2>2. At(0) = SavedDoc
    BY <1>2 DEF Hist, Ends
  <2> QED BY <2>1, <2>2
<1>7. PICK n \in Rev : n = doc'.rev
  BY <1>1
<1>8. SavedDoc' = doc' /\ SavedRev' = n /\ BaseRev' = n /\ Start' = n /\ n \in Nat /\ n > 0
  <2>1. SavedDoc' = doc' /\ SavedRev' = n
    BY <1>1, <1>7 DEF SavedDoc, SavedRev, Get, Has
  <2>2. base' # None
    BY <1>1, NoneIsNone DEF Proper
  <2>3. n \in Nat /\ n > 0
    BY DEF Rev
  <2> QED BY <1>1, <1>2, <1>3, <1>7, <2>1, <2>2, <2>3 DEF BaseRev, Start
<1>9. \A r \in Rev : ~Has(OpKey(r))'
  <2>1. \A r : OpKey(r) \notin {BaseKey, DocKey}
    BY KeysApart
  <2> QED BY <1>1, <1>4, <2>1 DEF Has
<1>10. \A r \in Nat : At(r)' = doc'
  <2>1. base' # None
    BY <1>1, NoneIsNone DEF Proper
  <2>2. snaps' = <<>>
    BY <1>2, <1>5
  <2> QED BY <1>1, <1>9, <2>1, <2>2, BareAfter DEF Bare
<1>11. Logged'
  <2>1. \A r \in Rev : ~(n < r /\ r <= n)
    BY <1>8 DEF Rev
  <2> QED BY <1>8, <1>9, <2>1 DEF Logged
<1>12. Snapped'
  BY <1>2, <1>3, <1>5 DEF Snapped, Ascending
<1>13. Ends'
  <2>1. \A r \in Rev \cup {0} : r \in Nat
    BY DEF Rev
  <2> QED BY <1>8, <1>10, <2>1 DEF Ends
<1>14. Now'
  BY <1>2, <1>8 DEF Now, Fork, Let_in, Idle
<1>15. Shown = [r \in {0} |-> History!empty]
  <2>1. Readable = {0}
    BY <1>2, <1>3, Numbers
  <2> QED BY <1>6, <2>1, SameLines DEF Shown
<1>16. DOMAIN Shown' = {n} /\ Shown'[n].rev = n
  <2>1. Readable' = {n}
    BY <1>2, <1>8 DEF Readable, Start
  <2> QED BY <1>7, <1>8, <1>10, <2>1 DEF Shown
<1>17. History!Fork
  <2>1. n \in 1..MaxRev
    BY DEF Rev
  <2> QED BY <1>15, <1>16, <2>1 DEF History!Fork, Shown
<1> QED BY <1>3, <1>4, <1>11, <1>12, <1>13, <1>14, <1>17 DEF Hist, Told, History!Next

LEMMA FiniteKeys == IsFiniteSet(Keys)
<1> DEFINE m == MaxRev + MaxCommits
           all == (1..8) \X (0..m)
<1>1. m \in Nat
  BY Sizes
<1>2. IsFiniteSet(1..8) /\ IsFiniteSet(0..m)
  <2> HIDE DEF m
  <2>1. 0 \in Int /\ 1 \in Int /\ 8 \in Int /\ m \in Int
    BY <1>1
  <2>2. IsFiniteSet(1..8)
    BY <2>1, FS_Interval
  <2>3. IsFiniteSet(0..m)
    BY <2>1, FS_Interval
  <2> QED BY <2>2, <2>3
<1>3. IsFiniteSet(all)
  BY <1>2, FS_Product
<1>4. Keys \subseteq all
  <2>1. \A r \in Rev : r \in 0..m
    BY Sizes DEF Rev
  <2>2. \A n \in 1..MaxCommits : n \in 0..m
    BY Sizes
  <2>3. 0 \in 0..m
    BY <1>1
  <2> QED BY <2>1, <2>2, <2>3
        DEF Keys, BaseKey, CommitsKey, DocKey, SnapsKey, TrimmedKey, CommitKey, OpKey, SnapKey
<1> HIDE DEF all
<1> QED BY <1>3, <1>4, FS_Subset

\* Nothing is left of a file wiped whole.
LEMMA WipeKeeps ==
  ASSUME WholeWipes, Typed, Hist, Now, Wipe
  PROVE  Hist' /\ Now' /\ Remembered' /\ Told /\ \A k : ~Has(k)'
<1> DEFINE gone == {k \in DOMAIN disk : Cardinality({j \in DOMAIN disk : Before(j, k)}) < ListLimit}
<1>1. DOMAIN disk' = DOMAIN disk \ gone
  <2>1. disk' = Without(gone)
    BY DEF Wipe
  <2> HIDE DEF gone
  <2> QED BY <2>1, WithoutIs
<1>2. ASSUME NEW k \in DOMAIN disk PROVE k \in gone
  <2> DEFINE T == {j \in DOMAIN disk : Before(j, k)}
  <2>1. k \in Keys /\ DOMAIN disk \subseteq Keys
    BY DEF Typed, OnDisk
  <2>2. ~Before(k, k)
    <3>1. k[1] \in Nat /\ k[2] \in Nat
      BY <2>1, Sizes DEF Keys, BaseKey, CommitsKey, DocKey, SnapsKey, TrimmedKey, CommitKey, OpKey, SnapKey, Rev
    <3> QED BY <3>1 DEF Before
  <2>3. T \subseteq Keys \ {k}
    BY <2>1, <2>2
  <2>4. IsFiniteSet(Keys \ {k}) /\ Cardinality(Keys \ {k}) = Cardinality(Keys) - 1 /\ Cardinality(Keys) \in Nat
    BY <2>1, FiniteKeys, FS_RemoveElement, FS_CardinalityType
  <2>5. Cardinality(T) <= Cardinality(Keys) - 1 /\ Cardinality(T) \in Nat
    <3> HIDE DEF T
    <3>1. IsFiniteSet(T) /\ Cardinality(T) <= Cardinality(Keys \ {k})
      BY <2>3, <2>4, FS_Subset
    <3> QED BY <2>4, <3>1, FS_CardinalityType
  <2>6. Cardinality(Keys) <= ListLimit
    BY DEF WholeWipes, Wipe
  <2>7. Cardinality(T) < ListLimit
    <3> HIDE DEF T
    <3> QED BY <2>4, <2>5, <2>6, Sizes
  <2> QED BY <2>7
<1> HIDE DEF gone
<1>3. \A k : ~Has(k)'
  BY <1>1, <1>2 DEF Has
<1>4. doc' = empty /\ base' = None /\ commits' = 0 /\ snaps' = <<>> /\ trimmed' = 0 /\ edit' = edit
  BY DEF Wipe
<1>5. Remembered'
  BY <1>3, <1>4 DEF Remembered, Get
<1>6. SavedDoc' = empty /\ SavedRev' = 0 /\ BaseRev' = 0 /\ Start' = 0
  BY <1>3, <1>4 DEF SavedDoc, SavedRev, BaseRev, Start, Get, empty
<1>7. Now'
  BY <1>4, <1>6 DEF Now, Wipe, Idle
<1>8. \A r \in Nat : At(r)' = empty
  BY <1>3, <1>4, BareAfter DEF Bare
<1>9. Logged'
  BY <1>3, <1>6 DEF Logged, Rev
<1>10. Snapped'
  BY <1>4 DEF Snapped, Ascending
<1>11. Ends'
  <2>1. \A r \in Rev \cup {0} : r \in Nat
    BY DEF Rev
  <2> QED BY <1>6, <1>8, <2>1 DEF Ends
<1>12. History!Forget
  <2>1. Readable' = {0}
    BY <1>6 DEF Readable, Start
  <2>2. Shown' = [r \in {0} |-> History!empty]
    BY <1>8, <2>1, SameLines DEF Shown
  <2> QED BY <2>2 DEF History!Forget, Shown
<1> QED BY <1>3, <1>5, <1>7, <1>9, <1>10, <1>11, <1>12 DEF Hist, Told, History!Next

LEMMA RestartKeeps ==
  ASSUME Typed, Hist, Remembered, Restart
  PROVE  Hist' /\ Now' /\ Remembered' /\ Shown' = Shown
<1>1. disk' = disk /\ doc' = SavedDoc /\ edit'.at = "idle"
  BY DEF Restart, SavedDoc
<1>2. base' = base /\ commits' = commits /\ snaps' = snaps /\ trimmed' = trimmed
  BY DEF Restart, Remembered
<1>3. Kept
  BY <1>1, <1>2 DEF Kept, Get, Has
<1>4. Now'
  BY <1>1 DEF Now, SavedDoc, Get, Has
<1>5. Remembered'
  BY <1>1, <1>2 DEF Remembered, Get, Has
<1> QED BY <1>3, <1>4, <1>5, KeptHist

-----------------------------------------------------------------------------
(* The history of a file is its past.                                      *)

Sound == Typed /\ Hist /\ Now /\ Remembered /\ Dropping

LEMMA InitSound == Init => Sound /\ Shown = [r \in {0} |-> History!empty]
<1> SUFFICES ASSUME Init PROVE Sound /\ Shown = [r \in {0} |-> History!empty]
  OBVIOUS
<1>1. \A k : ~Has(k)
  BY DEF Init, Has
<1>2. /\ doc = empty /\ base = None /\ commits = 0 /\ snaps = <<>> /\ trimmed = 0
      /\ edit = [at |-> "idle", drop |-> None]
  BY DEF Init
<1>3. Remembered
  BY <1>1, <1>2 DEF Remembered, Get
<1>4. SavedDoc = empty /\ SavedRev = 0 /\ BaseRev = 0 /\ Start = 0
  BY <1>1, <1>2 DEF SavedDoc, SavedRev, BaseRev, Start, Get, empty
<1>5. \A r \in Nat : At(r) = empty
  BY <1>1, <1>2, BareIs DEF Bare
<1>6. Hist
  <2>1. \A r \in Rev \cup {0} : r \in Nat
    BY DEF Rev
  <2> QED BY <1>1, <1>2, <1>4, <1>5, <2>1 DEF Hist, Logged, Snapped, Ascending, Ends
<1>7. Readable = {0}
  BY <1>4 DEF Readable, Start
<1>8. Shown = [r \in {0} |-> History!empty]
  BY <1>5, <1>7, SameLines DEF Shown
<1> QED BY <1>2, <1>3, <1>4, <1>6, <1>8, InitTyped DEF Sound, Now, Dropping

\* What is on the disk beside the document and the log is remembered, whatever is put or deleted.
LEMMA RememberedStays ==
  ASSUME Sound, Save \/ Snapshot \/ Drop \/ Sweep \/ EndCommit \/ Fork
  PROVE  Remembered'
<1> DEFINE main == {BaseKey, CommitsKey, SnapsKey, TrimmedKey}
<1>1. CASE Save
  <2>1. PICK ds : Chain(ds, log, SavedDoc, doc)
    BY <1>1 DEF Sound, Now, Save, Leads
  <2>2. PICK n : Saved(n)
    BY <1>1, <2>1, SaveIs DEF Sound, Hist
  <2> QED BY <1>1, <2>2 DEF Sound, Save, memory, Saved, Remembered
<1>2. CASE Snapshot
  <2>1. \A k \in {BaseKey, CommitsKey} : k \notin {SnapKey(doc.rev), SnapsKey, TrimmedKey}
    BY KeysApart
  <2>2. ASSUME NEW k \in {BaseKey, CommitsKey}, NEW o PROVE Get(k, o)' = Get(k, o)
    BY <1>2, <2>1, SnapshotDisk DEF Get, Has
  <2>3. Get(SnapsKey, <<>>)' = snaps' /\ Get(TrimmedKey, 0)' = trimmed'
    BY <1>2, SnapshotDisk DEF Get, Has
  <2>4. base' = base /\ commits' = commits
    BY <1>2 DEF Snapshot
  <2> QED BY <2>2, <2>3, <2>4 DEF Sound, Remembered
<1>3. CASE Drop
  <2>1. PICK gone : disk' = Without(gone) /\ \A k \in main : k \notin gone
    <3> DEFINE gone == IF edit.drop = None THEN {} ELSE {SnapKey(edit.drop)}
    <3>1. \A k \in main : k \notin gone
      BY KeysApart
    <3> QED BY <1>3, <3>1 DEF Drop
  <2>2. ASSUME NEW k \in main, NEW o PROVE Get(k, o)' = Get(k, o)
    BY <2>1, WithoutIs DEF Get, Has
  <2> QED BY <1>3, <2>2 DEF Drop, memory, Sound, Remembered
<1>4. CASE Sweep
  <2>1. PICK page : disk' = Without({OpKey(r) : r \in page})
    BY <1>4 DEF Sweep
  <2> DEFINE gone == {OpKey(r) : r \in page}
  <2>2. disk' = Without(gone) /\ \A k \in main : k \notin gone
    BY <2>1, KeysApart
  <2> HIDE DEF gone
  <2>3. ASSUME NEW k \in main, NEW o PROVE Get(k, o)' = Get(k, o)
    BY <2>2, WithoutIs DEF Get, Has
  <2> QED BY <1>4, <2>3 DEF Sweep, memory, Sound, Remembered
<1>5. CASE EndCommit
  <2>1. \A k \in {BaseKey, SnapsKey, TrimmedKey} : k \notin {CommitKey(hashing.n), CommitsKey}
    BY KeysApart
  <2>2. ASSUME NEW k \in {BaseKey, SnapsKey, TrimmedKey}, NEW o PROVE Get(k, o)' = Get(k, o)
    BY <1>5, <2>1, EndCommitDisk DEF Sound, Get, Has
  <2>3. Get(CommitsKey, 0)' = hashing.n
    BY <1>5, EndCommitDisk DEF Sound, Get, Has
  <2> QED BY <1>5, <2>2, <2>3 DEF EndCommit, Sound, Remembered
<1>6. CASE Fork
  <2>1. \A k \in {CommitsKey, SnapsKey, TrimmedKey} : k \notin {BaseKey, DocKey}
    BY KeysApart
  <2>2. ASSUME NEW k \in {CommitsKey, SnapsKey, TrimmedKey}, NEW o PROVE Get(k, o)' = Get(k, o)
    BY <1>6, <2>1, ForkDisk DEF Get, Has
  <2>3. Get(BaseKey, None)' = base'
    BY <1>6, ForkDisk DEF Get, Has
  <2> QED BY <1>6, <2>2, <2>3 DEF Fork, Sound, Remembered
<1> QED BY <1>1, <1>2, <1>3, <1>4, <1>5, <1>6

LEMMA EditNow ==
  ASSUME Typed, Now, Edit
  PROVE  Now'
<1>0. PICK n \in Batches : doc.rev + n <= MaxRev /\ \E made \in Batch(doc, n) : doc' = made.doc /\ log' = made.log
  BY DEF Edit
<1>1. PICK made : doc.rev + n <= MaxRev /\ made \in Batch(doc, n) /\ doc' = made.doc /\ log' = made.log
  BY <1>0
<1>2. doc \in Proper /\ n \in Nat
  <2>1. n \in Nat
    BY <1>0, SizesAssumption
  <2> QED BY <2>1, Numbers
<1>3. Way(doc, n, made)
  BY <1>0, <1>1, <1>2, BatchIs
<1>4. doc = SavedDoc /\ SavedDoc' = SavedDoc /\ edit'.at = "applied"
  BY DEF Now, Edit, Idle, SavedDoc, Get, Has, Typed, UnderWay
<1>5. Leads(doc, log', doc')
  BY <1>1, <1>3 DEF Way
<1> QED BY <1>4, <1>5 DEF Now

LEMMA NothingStored ==
  ASSUME Sound, disk' = disk, base' = base, commits' = commits, snaps' = snaps, trimmed' = trimmed
  PROVE  Hist' /\ Remembered' /\ Shown' = Shown
<1>1. Kept
  BY DEF Kept, Get, Has
<1> QED BY <1>1, KeptHist DEF Sound, Remembered, Get, Has

LEMMA SoundStays ==
  ASSUME WholeWipes, Sound, [Next]_vars
  PROVE  Sound' /\ Told
<1>1. Typed'
  BY TypedStays DEF Sound
<1>2. CASE Edit
  <2>1. Hist' /\ Remembered' /\ Shown' = Shown
    BY <1>2, NothingStored DEF Edit
  <2>2. Dropping'
    BY <1>2 DEF Edit, Idle, Sound, Dropping
  <2> QED BY <1>1, <1>2, <2>1, <2>2, EditNow DEF Sound, Told
<1>3. CASE StartCommit \/ Done
  <2>1. Hist' /\ Remembered' /\ Shown' = Shown
    BY <1>3, NothingStored DEF StartCommit, Done, memory
  <2>2. Now'
    BY <1>3 DEF StartCommit, Done, memory, Sound, Now, Idle, SavedDoc, Get, Has, Typed, UnderWay
  <2>3. Dropping'
    BY <1>3 DEF StartCommit, Done, memory, Sound, Dropping, Typed, UnderWay
  <2> QED BY <1>1, <2>1, <2>2, <2>3 DEF Sound, Told
<1>4. CASE Save
  <2>1. Hist' /\ Now' /\ Told
    BY <1>4, SaveKeeps DEF Sound
  <2>2. Dropping'
    BY <1>4 DEF Save, memory, Sound, Dropping, Typed, UnderWay
  <2> QED BY <1>1, <1>4, <2>1, <2>2, RememberedStays DEF Sound
<1>5. CASE Snapshot
  <2>1. Hist' /\ Now' /\ Dropping' /\ Told
    BY <1>5, SnapshotKeeps DEF Sound
  <2> QED BY <1>1, <1>5, <2>1, RememberedStays DEF Sound
<1>6. CASE Drop
  <2>1. Hist' /\ Shown' = Shown
    BY <1>6, DropKeeps DEF Sound
  <2>2. SavedDoc' = SavedDoc
    <3>1. PICK gone : disk' = Without(gone) /\ DocKey \notin gone
      <4> DEFINE gone == IF edit.drop = None THEN {} ELSE {SnapKey(edit.drop)}
      <4>1. DocKey \notin gone
        BY KeysApart
      <4> QED BY <1>6, <4>1 DEF Drop
    <3> QED BY <3>1, WithoutIs DEF SavedDoc, Get, Has
  <2>3. Now'
    BY <1>6, <2>2 DEF Drop, memory, Sound, Now
  <2>4. Dropping'
    BY <1>6 DEF Drop, Dropping
  <2> QED BY <1>1, <1>6, <2>1, <2>3, <2>4, RememberedStays DEF Sound, Told
<1>7. CASE Sweep
  <2>1. Hist' /\ Shown' = Shown
    BY <1>7, SweepKeeps DEF Sound
  <2>2. SavedDoc' = SavedDoc
    <3>1. PICK page : disk' = Without({OpKey(r) : r \in page})
      BY <1>7 DEF Sweep
    <3> DEFINE gone == {OpKey(r) : r \in page}
    <3>2. disk' = Without(gone) /\ DocKey \notin gone
      BY <3>1, KeysApart
    <3> HIDE DEF gone
    <3> QED BY <3>2, WithoutIs DEF SavedDoc, Get, Has
  <2>3. Now' /\ Dropping'
    BY <1>7, <2>2 DEF Sweep, memory, Sound, Now, Dropping
  <2> QED BY <1>1, <1>7, <2>1, <2>3, RememberedStays DEF Sound, Told
<1>8. CASE EndCommit
  <2>1. Hist' /\ Shown' = Shown
    BY <1>8, EndCommitKeeps DEF Sound
  <2>2. SavedDoc' = SavedDoc
    <3>1. DocKey \notin {CommitKey(hashing.n), CommitsKey}
      BY KeysApart
    <3> QED BY <1>8, <3>1, EndCommitDisk DEF Sound, SavedDoc, Get, Has
  <2>3. Now' /\ Dropping'
    BY <1>8, <2>2 DEF EndCommit, Sound, Now, Dropping, Idle
  <2> QED BY <1>1, <1>8, <2>1, <2>3, RememberedStays DEF Sound, Told
<1>9. CASE Fork
  <2>1. Hist' /\ Now' /\ Told
    BY <1>9, ForkKeeps DEF Sound
  <2>2. Dropping'
    BY <1>9 DEF Fork, Sound, Dropping
  <2> QED BY <1>1, <1>9, <2>1, <2>2, RememberedStays DEF Sound
<1>10. CASE Wipe
  <2>1. Dropping'
    BY <1>10 DEF Wipe, Idle, Dropping
  <2> QED BY <1>1, <1>10, <2>1, WipeKeeps DEF Sound
<1>11. CASE Restart
  <2>1. Dropping'
    BY <1>11 DEF Restart, Dropping
  <2> QED BY <1>1, <1>11, <2>1, RestartKeeps DEF Sound, Told
<1>12. CASE UNCHANGED vars
  <2>1. Hist' /\ Remembered' /\ Shown' = Shown
    BY <1>12, NothingStored DEF vars, memory
  <2> QED BY <1>1, <1>12, <2>1 DEF vars, memory, Sound, Now, Dropping, SavedDoc, Get, Has, Told
<1> QED BY <1>2, <1>3, <1>4, <1>5, <1>6, <1>7, <1>8, <1>9, <1>10, <1>11, <1>12 DEF Next

LEMMA SoundEnds == Sound => EndsWithNow
<1> SUFFICES ASSUME Sound, Idle PROVE doc = Get(DocKey, empty) /\ At(doc.rev) = doc
  BY DEF EndsWithNow
<1>1. doc = SavedDoc
  BY DEF Sound, Now, Idle
<1>2. PICK n \in Rev \cup {0} : n = SavedRev /\ n = doc.rev
  BY <1>1, Numbers DEF Sound, Rev
<1>3. At(n) = SavedDoc
  BY <1>2 DEF Sound, Hist, Ends
<1> QED BY <1>1, <1>2, <1>3 DEF SavedDoc

\* The document in memory is the one on the disk and the one history ends with, whenever no edit is
\* under way: after snapshots, trims, sweeps, forks, commits and stops anywhere (file-do.ts:191-207,
\* 438-482, 584-620), where a wipe gets every key of the file.
THEOREM HistoryEndsWithNow == WholeWipes => (Spec => []EndsWithNow)
<1> SUFFICES ASSUME WholeWipes PROVE Spec => []EndsWithNow
  OBVIOUS
<1>1. Init => Sound
  BY InitSound
<1>2. Sound /\ [Next]_vars => Sound'
  BY SoundStays
<1>3. Sound => EndsWithNow
  BY SoundEnds
<1> QED BY <1>1, <1>2, <1>3, PTL DEF Spec

\* Time travel: what can be read of a file is the sequence of its documents, and whatever is stored,
\* trimmed, swept, restarted or committed, a document history reaches reads as it was (`at`, file-do.ts:584-591).
THEOREM HistoryIsKept == WholeWipes => (Spec => KeepsThePast)
<1> SUFFICES ASSUME WholeWipes PROVE Spec => History!Spec
  BY DEF KeepsThePast
<1>1. Init => Sound /\ History!Init
  BY InitSound DEF History!Init, Shown
<1>2. Sound /\ [Next]_vars => Sound' /\ [History!Next]_Shown
  BY SoundStays DEF Told
<1>3. Spec => [][History!Next]_Shown
  BY <1>1, <1>2, PTL DEF Spec
<1> QED BY <1>1, <1>3, PTL DEF Spec, History!Spec, Shown

-----------------------------------------------------------------------------
(* Commits.                                                                *)

\* A commit names each whose edits lie between its text and the rev it has, as far as history goes.
Names(c) ==
  /\ c.of <= c.rev /\ c.rev <= SavedRev
  /\ \A r \in Rev : Has(OpKey(r)) /\ trimmed < r /\ c.of < r /\ r <= c.rev => disk[OpKey(r)].by \in c.writers

\* Commits are numbered from 1 on, and the last one names its writers.
Numbered ==
  /\ \A n \in 1..MaxCommits : Has(CommitKey(n)) <=> n <= commits
  /\ \A n \in 1..MaxCommits : n = commits => Names(disk[CommitKey(n)])

OfLast == IF LastCommit = None THEN 0 ELSE LastCommit.of

\* What a commit read before its hash is right still.
Awaited ==
  hashing # None =>
    /\ hashing.n = commits + 1 /\ hashing.since = RevOf(LastCommit)
    /\ hashing.since <= hashing.of /\ hashing.of <= SavedRev
    /\ \A e \in hashing.carries :
         OfLast < e.rev /\ (e.rev > trimmed => Has(OpKey(e.rev)) /\ disk[OpKey(e.rev)].by = e.by)

\* Edits come after those there are, and ops go once history doesn't reach them.
Grows ==
  /\ SavedRev' >= SavedRev /\ trimmed' >= trimmed /\ commits' = commits
  /\ \A n : (Has(CommitKey(n))' <=> Has(CommitKey(n))) /\ (Has(CommitKey(n)) => disk'[CommitKey(n)] = disk[CommitKey(n)])
  /\ \A r \in Rev : Has(OpKey(r))' /\ r <= SavedRev => Has(OpKey(r)) /\ disk'[OpKey(r)] = disk[OpKey(r)]
  /\ \A r \in Rev : Has(OpKey(r)) /\ r > trimmed' => Has(OpKey(r))'

LEMMA GrowsCredits ==
  ASSUME Sound, Sound', Numbered, Credited, Grows
  PROVE  Numbered' /\ Credited' /\ LastCommit' = LastCommit /\ (Awaited /\ hashing' \in {hashing, None} => Awaited')
<1>1. /\ SavedRev \in Nat /\ trimmed \in Nat /\ commits \in 0..MaxCommits /\ trimmed' >= trimmed /\ commits' = commits
      /\ SavedRev' >= SavedRev
  BY Numbers DEF Sound, Typed, InMemory, Shape, Grows
<1>2. SavedRev' \in Nat /\ trimmed' \in Nat
  <2>1. SavedDoc' \in Proper /\ trimmed' \in 0..MaxRev
    BY DEF Sound, Typed, OnDisk, InMemory, Shape, SavedDoc
  <2> QED BY <2>1 DEF SavedRev, SavedDoc, Proper, Doc
<1>3. ASSUME NEW n PROVE Get(CommitKey(n), None)' = Get(CommitKey(n), None)
  BY DEF Grows, Get
<1>4. Credited'
  BY <1>3 DEF Credited
<1>5. LastCommit' = LastCommit
  <2>1. PICK n : n = commits
    OBVIOUS
  <2>2. Get(CommitKey(n), None)' = Get(CommitKey(n), None)
    BY <1>3
  <2> QED BY <1>1, <2>1, <2>2 DEF LastCommit, Get, Has
<1>6. ASSUME NEW r \in Rev PROVE Has(OpKey(r)) => r <= SavedRev
  BY DEF Sound, Hist, Logged
<1>7. ASSUME NEW n \in 1..MaxCommits, n = commits PROVE Names(disk[CommitKey(n)])'
  <2>1. Has(CommitKey(n)) /\ Names(disk[CommitKey(n)]) /\ disk'[CommitKey(n)] = disk[CommitKey(n)]
    BY <1>7 DEF Numbered, Grows
  <2>2. PICK c \in Commit : c = disk[CommitKey(n)]
    BY <2>1 DEF Sound, Typed, OnDisk
  <2>3. c.of \in Nat /\ c.rev \in Nat /\ c.of <= c.rev /\ c.rev <= SavedRev
    BY <2>1, <2>2 DEF Names, Commit
  <2>4. ASSUME NEW r \in Rev, Has(OpKey(r))', trimmed' < r, c.of < r, r <= c.rev
        PROVE  disk'[OpKey(r)].by \in c.writers
    <3>1. r <= SavedRev /\ trimmed < r
      BY <1>1, <1>2, <2>3, <2>4 DEF Rev
    <3>2. Has(OpKey(r)) /\ disk'[OpKey(r)] = disk[OpKey(r)]
      BY <2>4, <3>1 DEF Grows
    <3> QED BY <2>1, <2>2, <2>4, <3>1, <3>2 DEF Names
  <2>5. c.rev <= SavedRev'
    BY <1>1, <1>2, <2>3
  <2>6. Names(c)'
    BY <2>3, <2>4, <2>5 DEF Names
  <2> QED BY <2>1, <2>2, <2>6 DEF Names
<1>8. Numbered'
  <2>1. \A n \in 1..MaxCommits : Has(CommitKey(n))' <=> n <= commits'
    BY <1>1 DEF Numbered, Grows
  <2> QED BY <1>1, <1>7, <2>1 DEF Numbered
<1>9. ASSUME Awaited, hashing' \in {hashing, None} PROVE Awaited'
  <2> SUFFICES ASSUME hashing # None, hashing' = hashing PROVE Awaited'
    BY <1>9 DEF Awaited
  <2>1. hashing \in Hashing
    BY DEF Sound, Typed, UnderWay
  <2>2. RevOf(LastCommit)' = RevOf(LastCommit) /\ OfLast' = OfLast
    BY <1>5 DEF RevOf, OfLast
  <2>3. hashing.of <= SavedRev'
    BY <1>1, <1>2, <1>9, <2>1 DEF Awaited, Hashing
  <2>4. ASSUME NEW e \in hashing.carries, e.rev > trimmed'
        PROVE  OpKey(e.rev) \in DOMAIN disk' /\ disk'[OpKey(e.rev)].by = e.by
    <3>1. PICK r \in Rev : r = e.rev
      BY <2>1 DEF Hashing
    <3>2. r > trimmed
      BY <1>1, <1>2, <2>4, <3>1 DEF Rev
    <3>3. Has(OpKey(r)) /\ disk[OpKey(r)].by = e.by
      BY <1>9, <3>1, <3>2 DEF Awaited
    <3>4. Has(OpKey(r))' /\ disk'[OpKey(r)] = disk[OpKey(r)]
      BY <1>6, <2>4, <3>1, <3>3 DEF Grows
    <3> QED BY <3>1, <3>3, <3>4 DEF Has
  <2> QED BY <1>1, <1>9, <2>2, <2>3, <2>4 DEF Awaited, Has
<1> QED BY <1>4, <1>5, <1>8, <1>9

LEMMA DiskSameGrows ==
  ASSUME Sound, disk' = disk, trimmed' = trimmed, commits' = commits
  PROVE  Grows
BY Numbers DEF Sound, Grows, Has, SavedRev, Get

LEMMA SaveGrows ==
  ASSUME Sound, Save
  PROVE  Grows
<1>1. PICK ds : Chain(ds, log, SavedDoc, doc)
  BY DEF Sound, Now, Save, Leads
<1>2. PICK n \in Nat : Saved(n)
  BY <1>1, SaveIs DEF Sound, Hist
<1>3. SavedRev' >= SavedRev /\ trimmed' >= trimmed
  BY <1>2, Numbers DEF Sound, Saved
<1>4. commits' = commits
  BY DEF Save, memory
<1>5. \A r \in Rev : Has(OpKey(r)) => r <= SavedRev
  BY DEF Sound, Hist, Logged
<1> QED BY <1>2, <1>3, <1>4, <1>5 DEF Saved, Grows

LEMMA SnapshotGrows ==
  ASSUME Sound, Snapshot
  PROVE  Grows
<1>1. SavedRev' = SavedRev /\ trimmed' >= trimmed /\ SavedRev \in Nat
  BY SnapshotKeeps, Numbers DEF Sound
<1>2. commits' = commits
  BY DEF Snapshot
<1>3. \A r : OpKey(r) \notin {SnapKey(doc.rev), SnapsKey, TrimmedKey} /\ CommitKey(r) \notin {SnapKey(doc.rev), SnapsKey, TrimmedKey}
  BY KeysApart
<1>4. ASSUME NEW k, k \notin {SnapKey(doc.rev), SnapsKey, TrimmedKey}
      PROVE  (Has(k)' <=> Has(k)) /\ (Has(k) => disk'[k] = disk[k])
  BY <1>4, SnapshotDisk DEF Has
<1> QED BY <1>1, <1>2, <1>3, <1>4 DEF Grows

LEMMA DeletingGrows ==
  ASSUME Sound, Drop \/ Sweep
  PROVE  Grows
<1>1. PICK gone : /\ disk' = Without(gone) /\ DocKey \notin gone /\ \A n : CommitKey(n) \notin gone
                  /\ \A r \in Rev : r > trimmed => OpKey(r) \notin gone
  <2>1. CASE Drop
    <3> DEFINE gone == IF edit.drop = None THEN {} ELSE {SnapKey(edit.drop)}
    <3>1. DocKey \notin gone /\ \A r : CommitKey(r) \notin gone /\ OpKey(r) \notin gone
      BY KeysApart
    <3> QED BY <2>1, <3>1 DEF Drop
  <2>2. CASE Sweep
    <3> DEFINE old == {r \in Rev : Has(OpKey(r)) /\ r <= trimmed}
               page == {r \in old : Cardinality({q \in old : q < r}) < OpPage}
               gone == {OpKey(r) : r \in page}
    <3>1. disk' = Without(gone) /\ page \subseteq old
      BY <2>2 DEF Sweep
    <3>2. ASSUME NEW r \in Rev, r > trimmed PROVE r \notin page
      BY <3>1, <3>2, Numbers DEF Sound, Rev
    <3> HIDE DEF page
    <3>3. DocKey \notin gone /\ (\A n : CommitKey(n) \notin gone) /\ \A r \in Rev : r > trimmed => OpKey(r) \notin gone
      BY <3>2, KeysApart
    <3> QED BY <3>1, <3>3
  <2> QED BY <2>1, <2>2
<1>2. \A k : Has(k)' <=> Has(k) /\ k \notin gone
  BY <1>1, WithoutIs DEF Has
<1>3. \A k : Has(k)' => disk'[k] = disk[k]
  BY <1>1, WithoutIs DEF Has
<1>4. trimmed' = trimmed /\ commits' = commits
  BY DEF Drop, Sweep, memory
<1>5. SavedRev' = SavedRev
  BY <1>1, <1>2, <1>3 DEF SavedRev, Get
<1> QED BY <1>1, <1>2, <1>3, <1>4, <1>5, Numbers DEF Sound, Grows

LEMMA ForkGrows ==
  ASSUME Sound, Fork
  PROVE  Grows
<1>1. (\A r \in Rev : ~Has(OpKey(r))) /\ trimmed = 0
  BY ForkKeeps DEF Sound
<1>2. trimmed' = trimmed /\ commits' = commits /\ SavedRev = 0
  BY Numbers DEF Fork, Let_in, Idle, Sound, Now
<1>3. \A r : OpKey(r) \notin {BaseKey, DocKey} /\ CommitKey(r) \notin {BaseKey, DocKey}
  BY KeysApart
<1>4. ASSUME NEW k, k \notin {BaseKey, DocKey} PROVE (Has(k)' <=> Has(k)) /\ (Has(k) => disk'[k] = disk[k])
  BY <1>4, ForkDisk DEF Has
<1>5. SavedRev' \in Nat
  BY ForkDisk DEF SavedRev, Get, Has, Rev
<1> QED BY <1>1, <1>2, <1>3, <1>4, <1>5 DEF Grows

\* A commit reads what its hash will wait with.
LEMMA StartCommitAwaited ==
  ASSUME Sound, Numbered, StartCommit
  PROVE  Awaited'
<1> DEFINE carried == {[rev |-> a.rev, by |-> a.by] : a \in Range(OpsIn(OfLast, doc.rev))}
<1>1. hashing' = [n |-> commits + 1, since |-> RevOf(LastCommit), of |-> doc.rev, carries |-> carried]
  BY DEF StartCommit, OfLast
<1>2. disk' = disk /\ commits' = commits /\ trimmed' = trimmed
  BY DEF StartCommit, memory
<1>3. LastCommit' = LastCommit /\ OfLast' = OfLast /\ SavedRev' = SavedRev
  BY <1>2 DEF LastCommit, OfLast, SavedRev, Get, Has
<1>4. doc.rev = SavedRev /\ SavedRev \in Nat
  BY Numbers DEF StartCommit, Idle, Sound, Now
<1>5. RevOf(LastCommit) <= doc.rev
  <2>1. CASE LastCommit = None
    BY <1>4, <2>1 DEF RevOf
  <2>2. CASE LastCommit # None
    <3>1. PICK n \in 1..MaxCommits : n = commits
      BY <2>2, Sizes DEF LastCommit, Sound, Typed, InMemory, Shape
    <3>2. LastCommit = disk[CommitKey(n)]
      BY <2>2, <3>1 DEF LastCommit, Get
    <3>3. Names(disk[CommitKey(n)])
      BY <3>1 DEF Numbered
    <3> QED BY <1>4, <2>2, <3>2, <3>3 DEF RevOf, Names
  <2> QED BY <2>1, <2>2
<1>6. ASSUME NEW e \in carried
      PROVE  OfLast < e.rev /\ (e.rev > trimmed => Has(OpKey(e.rev)) /\ disk[OpKey(e.rev)].by = e.by)
  <2>1. PICK a \in Range(OpsIn(OfLast, doc.rev)) : e = [rev |-> a.rev, by |-> a.by]
    OBVIOUS
  <2>2. PICK r \in Rev : Has(OpKey(r)) /\ OfLast < r /\ r <= doc.rev /\ a = disk[OpKey(r)]
    BY <2>1, OpsInIs DEF Sound, Typed
  <2>3. a.rev = r
    BY <2>2 DEF Sound, Hist, Logged
  <2> QED BY <2>1, <2>2, <2>3
<1> HIDE DEF carried
<1> QED BY <1>1, <1>2, <1>3, <1>4, <1>5, <1>6 DEF Awaited, RevOf, Has

\* A commit, with the last one, names all whose edits it carries.
LEMMA EndCommitCredits ==
  ASSUME Sound, Sound', Numbered, Credited, Awaited, EndCommit
  PROVE  Numbered' /\ Credited' /\ Awaited'
<1> DEFINE h == hashing
           last == Get(CommitKey(h.n - 1), None)
           new == disk'[CommitKey(h.n)]
<1>1. /\ h \in Hashing /\ h # None /\ Later(h.since) \in 0..MaxRev /\ commits' = h.n /\ hashing' = None
      /\ doc' = doc /\ trimmed' = trimmed
  BY EndCommitDisk DEF Sound, EndCommit
<1>2. /\ DOMAIN disk' = DOMAIN disk \cup {CommitKey(h.n), CommitsKey}
      /\ new = [of |-> h.of, rev |-> doc.rev, writers |-> Authors(Later(h.since)),
                carries |-> {e.by : e \in {e \in h.carries : e.rev > trimmed}}]
      /\ \A k \in DOMAIN disk : k \notin {CommitKey(h.n), CommitsKey} => disk'[k] = disk[k]
  BY EndCommitDisk DEF Sound
<1>3. /\ h.n = commits + 1 /\ h.since = RevOf(LastCommit) /\ h.since <= h.of /\ h.of <= SavedRev
      /\ \A e \in h.carries : OfLast < e.rev /\ (e.rev > trimmed => Has(OpKey(e.rev)) /\ disk[OpKey(e.rev)].by = e.by)
  BY <1>1 DEF Awaited
<1>4. h.n \in 1..MaxCommits /\ h.since \in Nat /\ h.of \in Nat /\ commits \in Nat /\ commits \in 0..MaxCommits
  BY <1>1 DEF Hashing, Sound, Typed, InMemory, Shape
<1>5. doc.rev = SavedRev /\ SavedRev \in Nat /\ trimmed \in Nat /\ SavedRev' = SavedRev
  <2>1. doc.rev = SavedRev /\ SavedRev \in Nat /\ trimmed \in Nat
    BY Numbers DEF EndCommit, Idle, Sound, Now
  <2>2. DocKey \notin {CommitKey(h.n), CommitsKey}
    BY KeysApart
  <2> QED BY <1>2, <2>1, <2>2 DEF SavedRev, Get, Has
<1>6. ASSUME NEW k, k \notin {CommitKey(h.n), CommitsKey}
      PROVE  (Has(k)' <=> Has(k)) /\ (Has(k) => disk'[k] = disk[k])
  BY <1>2, <1>6 DEF Has
<1>7. \A r : OpKey(r) \notin {CommitKey(h.n), CommitsKey}
  BY KeysApart
<1>8. last = LastCommit
  <2>1. CASE commits = 0
    <3>1. h.n - 1 = 0
      BY <1>3, <2>1
    <3>2. CommitKey(0) \notin Keys
      BY KeysApart DEF Keys, CommitKey, BaseKey, CommitsKey, DocKey, SnapsKey, TrimmedKey, OpKey, SnapKey
    <3>3. ~Has(CommitKey(0))
      BY <3>2 DEF Sound, Typed, OnDisk, Has
    <3> QED BY <2>1, <3>1, <3>3 DEF LastCommit, Get
  <2>2. CASE commits # 0
    <3>1. h.n - 1 = commits
      BY <1>3, <1>4
    <3> QED BY <2>2, <3>1 DEF LastCommit
  <2> QED BY <2>1, <2>2
<1>9. ASSUME NEW e \in h.carries, e.rev > trimmed
      PROVE  e.by \in new.writers \cup IF last = None THEN {} ELSE last.writers
  <2>1. PICK r \in Rev : r = e.rev
    BY <1>1, <1>9 DEF Hashing
  <2>2. Has(OpKey(r)) /\ disk[OpKey(r)].by = e.by /\ OfLast < r /\ r > trimmed /\ r \in Nat
    BY <1>3, <1>9, <2>1 DEF Rev
  <2>3. CASE h.since < r
    <3>1. Later(h.since) < r
      BY <2>2, <2>3 DEF Later
    <3>2. e.by \in Authors(Later(h.since))
      BY <1>1, <2>2, <3>1, AuthorsIs DEF Sound, Typed
    <3> QED BY <1>2, <3>2
  <2>4. CASE r <= h.since
    <3>1. LastCommit # None
      BY <1>3, <1>4, <2>1, <2>4 DEF RevOf, Rev
    <3>2. PICK n \in 1..MaxCommits : n = commits
      BY <1>4, <3>1 DEF LastCommit
    <3>3. LastCommit = disk[CommitKey(n)]
      BY <3>1, <3>2 DEF LastCommit, Get
    <3>4. Names(disk[CommitKey(n)])
      BY <3>2 DEF Numbered
    <3>5. r <= LastCommit.rev /\ LastCommit.of < r
      BY <1>3, <2>2, <2>4, <3>1 DEF RevOf, OfLast
    <3>6. e.by \in LastCommit.writers
      BY <2>2, <3>3, <3>4, <3>5 DEF Names
    <3> QED BY <1>8, <3>1, <3>6
  <2> QED BY <1>4, <2>2, <2>3, <2>4
<1>10. new.carries \subseteq new.writers \cup IF last = None THEN {} ELSE last.writers
  <2>1. new.carries = {e.by : e \in {e \in h.carries : e.rev > trimmed}}
    BY <1>2
  <2> HIDE DEF new, last
  <2> QED BY <1>9, <2>1
<1>11. Credited'
  <2> SUFFICES ASSUME NEW n \in 1..MaxCommits, Get(CommitKey(n), None)' # None
               PROVE  LET c == Get(CommitKey(n), None)'
                          p == Get(CommitKey(n - 1), None)'
                      IN  c.carries \subseteq c.writers \cup IF p = None THEN {} ELSE p.writers
    BY DEF Credited
  <2>1. CommitKey(n) # CommitsKey /\ CommitKey(n - 1) # CommitsKey
    BY KeysApart
  <2>2. CASE n = h.n
    <3>1. Get(CommitKey(n), None)' = new
      BY <1>2, <2>2 DEF Get, Has
    <3>2. CommitKey(n - 1) # CommitKey(h.n)
      <4>1. n - 1 # h.n
        BY <1>4, <2>2
      <4> QED BY <4>1, KeysApart
    <3>3. Get(CommitKey(n - 1), None)' = last
      BY <1>6, <2>1, <2>2, <3>2 DEF Get
    <3> QED BY <1>10, <3>1, <3>3
  <2>3. CASE n # h.n
    <3>1. CommitKey(n) # CommitKey(h.n)
      BY <2>3, KeysApart
    <3>2. Get(CommitKey(n), None)' = Get(CommitKey(n), None) /\ Has(CommitKey(n))
      BY <1>6, <2>1, <3>1 DEF Get
    <3>3. n <= commits
      BY <3>2 DEF Numbered
    <3>4. n - 1 # h.n
      BY <1>3, <1>4, <3>3
    <3>5. Get(CommitKey(n - 1), None)' = Get(CommitKey(n - 1), None)
      <4>1. CommitKey(n - 1) # CommitKey(h.n)
        BY <3>4, KeysApart
      <4> QED BY <1>6, <2>1, <4>1 DEF Get
    <3> QED BY <3>2, <3>5 DEF Credited
  <2> QED BY <2>2, <2>3
<1>12. Numbered'
  <2>1. ASSUME NEW n \in 1..MaxCommits PROVE Has(CommitKey(n))' <=> n <= h.n
    <3>1. CommitKey(n) # CommitsKey
      BY KeysApart
    <3>2. CASE n = h.n
      BY <1>2, <1>4, <3>2 DEF Has
    <3>3. CASE n # h.n
      <4>1. CommitKey(n) # CommitKey(h.n)
        BY <3>3, KeysApart
      <4>2. Has(CommitKey(n))' <=> n <= commits
        BY <1>6, <3>1, <4>1 DEF Numbered
      <4> QED BY <1>3, <1>4, <3>3, <4>2
    <3> QED BY <3>2, <3>3
  <2>2. ASSUME NEW n \in 1..MaxCommits, n = h.n PROVE Names(disk[CommitKey(n)])'
    <3>1. disk'[CommitKey(n)] = new
      BY <2>2
    <3>2. new.of <= new.rev /\ new.rev <= SavedRev' /\ new.of = h.of /\ new.rev = SavedRev
      BY <1>2, <1>3, <1>5
    <3>3. ASSUME NEW r \in Rev, Has(OpKey(r))', trimmed < r, h.of < r
          PROVE  disk'[OpKey(r)].by \in new.writers
      <4>1. Has(OpKey(r)) /\ disk'[OpKey(r)] = disk[OpKey(r)]
        BY <1>6, <1>7, <3>3
      <4>2. Later(h.since) < r
        BY <1>3, <1>4, <1>5, <3>3 DEF Later, Rev
      <4>3. disk[OpKey(r)].by \in Authors(Later(h.since))
        BY <1>1, <4>1, <4>2, AuthorsIs DEF Sound, Typed
      <4> QED BY <1>2, <4>1, <4>3
    <3> QED BY <1>1, <3>1, <3>2, <3>3 DEF Names
  <2> QED BY <1>1, <2>1, <2>2 DEF Numbered
<1>13. Awaited'
  BY <1>1 DEF Awaited
<1> QED BY <1>11, <1>12, <1>13

Accounted == Sound /\ Numbered /\ Credited /\ Awaited

LEMMA InitAccounted == Init => Accounted
<1> SUFFICES ASSUME Init PROVE Accounted
  OBVIOUS
<1>1. (\A k : ~Has(k)) /\ commits = 0 /\ hashing = None
  BY DEF Init, Has
<1> QED BY <1>1, InitSound DEF Accounted, Numbered, Credited, Awaited, Get

LEMMA AccountedStays ==
  ASSUME WholeWipes, Accounted, [Next]_vars
  PROVE  Accounted'
<1>1. Sound'
  BY SoundStays DEF Accounted
<1>2. CASE EndCommit
  BY <1>1, <1>2, EndCommitCredits DEF Accounted
<1>3. CASE Wipe
  <2>1. (\A k : ~Has(k)') /\ commits' = 0 /\ hashing' = None
    BY <1>3, WipeKeeps DEF Accounted, Sound, Wipe
  <2> QED BY <1>1, <2>1 DEF Accounted, Numbered, Credited, Awaited, Get
<1>4. CASE StartCommit
  <2>1. Grows
    BY <1>4, DiskSameGrows DEF StartCommit, memory, Accounted
  <2> QED BY <1>1, <1>4, <2>1, GrowsCredits, StartCommitAwaited DEF Accounted
<1>5. ASSUME Grows, hashing' \in {hashing, None} PROVE Accounted'
  BY <1>1, <1>5, GrowsCredits DEF Accounted
<1>6. CASE Edit \/ Done \/ UNCHANGED vars
  <2>1. disk' = disk /\ trimmed' = trimmed /\ commits' = commits /\ hashing' = hashing
    BY <1>6 DEF Edit, Done, vars, memory
  <2> QED BY <1>5, <2>1, DiskSameGrows DEF Accounted
<1>7. CASE Save
  BY <1>5, <1>7, SaveGrows DEF Accounted, Save
<1>8. CASE Snapshot
  BY <1>5, <1>8, SnapshotGrows DEF Accounted, Snapshot
<1>9. CASE Drop \/ Sweep
  BY <1>5, <1>9, DeletingGrows DEF Accounted, Drop, Sweep
<1>10. CASE Fork
  BY <1>5, <1>10, ForkGrows DEF Accounted, Fork
<1>11. CASE Restart
  <2>1. disk' = disk /\ trimmed' = trimmed /\ commits' = commits /\ hashing' = None
    BY <1>11 DEF Restart, Accounted, Sound, Remembered
  <2> QED BY <1>5, <2>1, DiskSameGrows DEF Accounted
<1> QED BY <1>2, <1>3, <1>4, <1>6, <1>7, <1>8, <1>9, <1>10, <1>11 DEF Next

\* Nobody's edit goes uncredited: each who wrote between the documents of two commits is in the
\* writers of the one or of the other, however late a commit reads who edited, and whatever comes in
\* while it waits for its hash (`commit` and `writers`, file-do.ts:438-454, 577-581).
THEOREM HistoryCredits == WholeWipes => (Spec => []Credited)
<1> SUFFICES ASSUME WholeWipes PROVE Spec => []Credited
  OBVIOUS
<1>1. Accounted /\ [Next]_vars => Accounted'
  BY AccountedStays
<1>2. Accounted => Credited
  BY DEF Accounted
<1> QED BY InitAccounted, <1>1, <1>2, PTL DEF Spec
=============================================================================
