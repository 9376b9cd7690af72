--------------------------- MODULE LineClaimsProofs ---------------------------
(***************************************************************************)
(* What of LineClaims holds for any number of claimants, ids and lines.    *)
(*                                                                         *)
(* A handler is a chain of functions from Book to Book, so the proof is a  *)
(* lemma per function, that it keeps a Sound book sound, and a lemma per   *)
(* action made of them.  Sound is more than the properties it gives: that  *)
(* nobody holds under the id it waits under, and that the order of arrival *)
(* is an order too, are what grants and restarts need.                     *)
(***************************************************************************)
EXTENDS LineClaims, TLAPS, WellFoundedInduction

USE TimeAssumption DEF Actors, Line, Never

\* f orders W: of two members one comes before the other, and what comes before what comes before
\* a member comes before it.
Linear(W, f) ==
  \A i, j \in W :
    /\ i \notin f[i] /\ f[i] \subseteq W
    /\ i = j \/ (i \in f[j] <=> j \notin f[i])
    /\ i \in f[j] => f[i] \subseteq f[j]

\* The order the line stands in, and the order its waiters came in.
AheadOf(b) == [i \in Ids |-> b.waits[i].ahead]
PriorTo(b) == [i \in Ids |-> b.waits[i].prior]

\* claimOf is an index of the hard claims.
Agrees(b) ==
  \A l \in Line, i \in Ids : b.claimOf[l] = i <=> i \in Hard(b) /\ l \in b.claims[i].lines

\* Claims are on lines of d.
Grounded(b, d) == \A i \in Standing(b) : b.claims[i].lines # {} /\ b.claims[i].lines \subseteq d

\* The line is one, in its order and in the order they came.
Orderly(b) == Linear(Waiting(b), AheadOf(b)) /\ Linear(Waiting(b), PriorTo(b))

\* What every handler leaves behind.  No id is both a claim's and a waiter's, or a grant would
\* lay one claim over another.
Sound(b, d) ==
  /\ Agrees(b)
  /\ Grounded(b, d)
  /\ Orderly(b)
  /\ Waiting(b) \cap Hard(b) = {}

-----------------------------------------------------------------------------
(* The functions handlers are made of.                                     *)

\* A set of naturals has a least member, which is what `arm` looks for.
LEMMA LeastOfNaturals ==
  ASSUME NEW S, S \subseteq Nat, S # {}
  PROVE  \E m \in S : \A n \in S : m <= n
<1>1. PICK m \in S : \A n \in S : <<n, m>> \notin OpToRel(<, Nat)
  BY WFMin, NatLessThanWellFounded
<1>2. ASSUME NEW n \in S PROVE m <= n
  <2>1. n \in Nat /\ m \in Nat
    OBVIOUS
  <2>2. ~(n < m)
    BY <1>1, <2>1 DEF OpToRel
  <2> QED BY <2>1, <2>2
<1> QED BY <1>2

\* Whatever is due is a time, and Never is always among it.
LEMMA DueInTime ==
  ASSUME NEW b \in Book
  PROVE  Due(b) \subseteq 0..Never /\ Never \in Due(b)
<1>1. \A i \in Standing(b) : b.claims[i].until \in 0..Never
  BY DEF Standing, Book, Claim
<1>2. \A i \in Waiting(b) : b.waits[i].seen \in 0..Never
  <2>1. \A i \in Waiting(b) : b.waits[i] \in Waiter
    BY DEF Waiting, Book
  <2>2. \A i \in Waiting(b) : b.waits[i].seen \in 0..KeepMs
    BY <2>1 DEF Waiter
  <2>3. 0..KeepMs \subseteq 0..Never
    OBVIOUS
  <2> QED BY <2>2, <2>3
<1>3. Never \in 0..Never
  OBVIOUS
<1> QED BY <1>1, <1>2, <1>3 DEF Due

\* Arm picks what is due first: the CHOOSE has something to choose.
LEMMA ArmIsFirst ==
  ASSUME NEW b \in Book
  PROVE  Arm(b) \in Due(b) /\ (\A t \in Due(b) : Arm(b) <= t)
<1>1. Due(b) \subseteq Nat /\ Due(b) # {}
  BY DueInTime
<1>2. \E t \in Due(b) : \A u \in Due(b) : t <= u
  BY <1>1, LeastOfNaturals
<1> QED BY <1>2 DEF Arm

\* The alarm Arm sets is a time.
LEMMA ArmType ==
  ASSUME NEW b \in Book
  PROVE  Arm(b) \in 0..Never
BY ArmIsFirst, DueInTime

\* Letting claims go leaves a book.
LEMMA LetGoType ==
  ASSUME NEW b \in Book, NEW D, D \subseteq Standing(b)
  PROVE  LetGo(b, D) \in Book
<1> DEFINE claims == [i \in Ids |-> IF i \in D THEN None ELSE b.claims[i]]
           claimOf == [l \in Line |-> IF /\ b.claimOf[l] \in D
                                         /\ l \in b.claims[b.claimOf[l]].lines
                                      THEN None ELSE b.claimOf[l]]
           rests == [i \in Ids |-> IF i \in D /\ Tires(b.claims[i]) THEN RestOf(b.claims[i])
                                   ELSE b.rests[i]]
<1>1. claims \in [Ids -> Claim \cup {None}]
  BY DEF Book
<1>2. claimOf \in [Line -> Ids \cup {None}]
  BY DEF Book
<1>3. rests \in [Ids -> Rest \cup {None}]
  <2>1. ASSUME NEW i \in D PROVE RestOf(b.claims[i]) \in Rest
    <3>1. b.claims[i] \in Claim
      BY DEF Book, Standing
    <3> QED BY <3>1 DEF RestOf, Rest, Claim
  <2> QED BY <2>1 DEF Book
<1>4. LetGo(b, D) = [b EXCEPT !.claims = claims, !.claimOf = claimOf, !.rests = rests]
  BY DEF LetGo
<1> HIDE DEF claims, claimOf, rests
<1> QED BY <1>1, <1>2, <1>3, <1>4 DEF Book

\* Letting claims go keeps the index right, and grounds a book whose other claims are on lines.
LEMMA LetGoSound ==
  ASSUME NEW b \in Book, NEW d, NEW D, D \subseteq Standing(b),
         Agrees(b), Orderly(b), Waiting(b) \cap Hard(b) = {},
         \A i \in Standing(b) \ D : b.claims[i].lines # {} /\ b.claims[i].lines \subseteq d
  PROVE  Sound(LetGo(b, D), d)
<1> DEFINE c == LetGo(b, D)
<1>1. c.waits = b.waits
  BY DEF LetGo, Book
<1>2. \A i \in Ids : c.claims[i] = IF i \in D THEN None ELSE b.claims[i]
  BY DEF LetGo, Book
<1>3. \A l \in Line : c.claimOf[l] = IF /\ b.claimOf[l] \in D
                                        /\ l \in b.claims[b.claimOf[l]].lines
                                     THEN None ELSE b.claimOf[l]
  BY DEF LetGo, Book
<1> HIDE DEF c
<1>4. Standing(c) = Standing(b) \ D
  BY <1>2 DEF Standing
<1>5. Hard(c) = Hard(b) \ D
  BY <1>2, <1>4 DEF Hard, Standing
<1>6. Agrees(c)
  <2> SUFFICES ASSUME NEW l \in Line, NEW i \in Ids
               PROVE  c.claimOf[l] = i <=> i \in Hard(c) /\ l \in c.claims[i].lines
    BY DEF Agrees
  <2>1. b.claimOf[l] = i <=> i \in Hard(b) /\ l \in b.claims[i].lines
    BY DEF Agrees
  <2>2. c.claimOf[l] = i <=> b.claimOf[l] = i /\ i \notin D
    BY <1>3, <2>1, NoneIsNone
  <2> QED BY <1>2, <1>5, <2>1, <2>2
<1>7. Grounded(c, d)
  BY <1>2, <1>4 DEF Grounded, Standing
<1>8. Orderly(c)
  BY <1>1 DEF Orderly, Waiting, AheadOf, PriorTo
<1>9. Waiting(c) \cap Hard(c) = {}
  BY <1>1, <1>5 DEF Waiting
<1> QED BY <1>6, <1>7, <1>8, <1>9 DEF c, Sound

\* An order stays one without some of its members.
LEMMA LinearWithout ==
  ASSUME NEW W \in SUBSET Ids, NEW f, NEW g, NEW D, Linear(W, f),
         \A i \in W \ D : g[i] = f[i] \ D
  PROVE  Linear(W \ D, g)
BY DEF Linear

\* Giving up places in line leaves a book.
LEMMA LeaveType ==
  ASSUME NEW b \in Book, NEW D
  PROVE  Leave(b, D) \in Book
<1> DEFINE waits == [i \in Ids |-> IF i \in D \/ b.waits[i] = None THEN None
                                   ELSE [b.waits[i] EXCEPT !.ahead = @ \ D, !.prior = @ \ D]]
           polls == b.polls \ (D \cap Waiting(b))
<1>1. waits \in [Ids -> Waiter \cup {None}]
  <2>1. ASSUME NEW i \in Ids, b.waits[i] # None
        PROVE  [b.waits[i] EXCEPT !.ahead = @ \ D, !.prior = @ \ D] \in Waiter
    <3>1. b.waits[i] \in Waiter
      BY <2>1 DEF Book
    <3> QED BY <3>1 DEF Waiter
  <2> QED BY <2>1
<1>2. polls \in SUBSET Ids
  BY DEF Book
<1>3. Leave(b, D) = [b EXCEPT !.waits = waits, !.polls = polls]
  BY DEF Leave
<1> HIDE DEF waits, polls
<1> QED BY <1>1, <1>2, <1>3 DEF Book

\* Giving up places leaves the others in line, in their order, and claims as they were.
LEMMA LeaveLine ==
  ASSUME NEW b \in Book, NEW D, Orderly(b)
  PROVE  /\ Orderly(Leave(b, D))
         /\ Waiting(Leave(b, D)) = Waiting(b) \ D
         /\ Leave(b, D).claims = b.claims
         /\ Leave(b, D).claimOf = b.claimOf
         /\ Leave(b, D).rests = b.rests
<1> DEFINE c == Leave(b, D)
<1>1. c.claims = b.claims /\ c.claimOf = b.claimOf /\ c.rests = b.rests
  BY DEF Leave, Book
<1>2. \A i \in Ids : c.waits[i] = IF i \in D \/ b.waits[i] = None THEN None
                                  ELSE [b.waits[i] EXCEPT !.ahead = @ \ D, !.prior = @ \ D]
  BY DEF Leave, Book
<1> HIDE DEF c
<1>3. \A i \in Waiting(b) : b.waits[i] \in Waiter
  BY DEF Waiting, Book
<1>4. ASSUME NEW i \in Waiting(b) \ D
      PROVE  /\ c.waits[i] \in Waiter
             /\ c.waits[i].ahead = b.waits[i].ahead \ D
             /\ c.waits[i].prior = b.waits[i].prior \ D
  <2>1. c.waits[i] = [b.waits[i] EXCEPT !.ahead = @ \ D, !.prior = @ \ D]
    BY <1>2 DEF Waiting
  <2>2. b.waits[i] \in Waiter
    BY <1>3
  <2> QED BY <2>1, <2>2 DEF Waiter
<1>5. None \notin Waiter
  BY NoneIsNone DEF Waiter
<1>6. Waiting(c) = Waiting(b) \ D
  BY <1>2, <1>4, <1>5 DEF Waiting
<1>7. Waiting(b) \in SUBSET Ids
  BY DEF Waiting
<1>8. /\ \A i \in Waiting(b) \ D : AheadOf(c)[i] = AheadOf(b)[i] \ D
      /\ \A i \in Waiting(b) \ D : PriorTo(c)[i] = PriorTo(b)[i] \ D
  BY <1>4, <1>7 DEF AheadOf, PriorTo
<1>9. Orderly(c)
  <2>1. Linear(Waiting(b) \ D, AheadOf(c))
    BY <1>7, <1>8, LinearWithout DEF Orderly
  <2>2. Linear(Waiting(b) \ D, PriorTo(c))
    BY <1>7, <1>8, LinearWithout DEF Orderly
  <2> QED BY <1>6, <2>1, <2>2 DEF Orderly
<1> QED BY <1>1, <1>6, <1>9 DEF c

\* What a waiter is granted is a claim.
LEMMA GrantedType ==
  ASSUME NEW b \in Book, NEW d \in SUBSET Line, NEW i \in Waiting(b)
  PROVE  Granted(b, d, i) \in Claim
<1>1. b.waits[i] \in Waiter
  BY DEF Waiting, Book
<1>2. /\ GrantMs \in 0..Never /\ DefaultTtl(b.waits[i].who) \in 0..Never
      /\ (IF b.waits[i].who \in Agents THEN CapMs ELSE Never) \in 0..Never
  BY DEF DefaultTtl
<1>3. ThatAreThere(b.waits[i], d) \in SUBSET Line
  BY DEF ThatAreThere
<1> QED BY <1>1, <1>2, <1>3 DEF Granted, Waiter, Claim

\* Serving the line leaves a book.
LEMMA MoveUpType ==
  ASSUME NEW b \in Book, NEW d \in SUBSET Line
  PROVE  MoveUp(b, d) \in Book
<1> DEFINE go == {i \in Ids : Turn(b, d, i)}
           left == {i \in Waiting(b) : ~Stays(b, d, i)} \cup go
           gone == Leave(b, left)
           taker(l) == {i \in go : l \in b.waits[i].lines}
           claims == [i \in Ids |-> IF i \in go THEN Granted(b, d, i) ELSE b.claims[i]]
           claimOf == [l \in Line |-> IF l \in d /\ taker(l) # {}
                                      THEN CHOOSE i \in go : i \in taker(l)
                                      ELSE b.claimOf[l]]
           waits == [i \in Ids |-> IF gone.waits[i] = None THEN None
                                   ELSE [gone.waits[i] EXCEPT !.lines = @ \cap d]]
<1>1. gone \in Book
  BY LeaveType
<1>2. claims \in [Ids -> Claim \cup {None}]
  <2>1. \A i \in go : i \in Waiting(b)
    BY DEF Turn, Stays, Waiting
  <2>2. \A i \in go : Granted(b, d, i) \in Claim
    BY <2>1, GrantedType
  <2> QED BY <2>2 DEF Book
<1>3. claimOf \in [Line -> Ids \cup {None}]
  <2>1. ASSUME NEW l \in Line, taker(l) # {}
        PROVE  (CHOOSE i \in go : i \in taker(l)) \in Ids
    BY <2>1
  <2> QED BY <2>1 DEF Book
<1>4. waits \in [Ids -> Waiter \cup {None}]
  <2>1. ASSUME NEW i \in Ids, gone.waits[i] # None
        PROVE  [gone.waits[i] EXCEPT !.lines = @ \cap d] \in Waiter
    <3>1. gone.waits[i] \in Waiter
      BY <1>1, <2>1 DEF Book
    <3> QED BY <3>1 DEF Waiter
  <2> QED BY <2>1
<1>5. MoveUp(b, d) = [gone EXCEPT !.claims = claims, !.claimOf = claimOf, !.waits = waits]
  BY DEF MoveUp
<1> HIDE DEF gone, claims, claimOf, waits
<1> QED BY <1>1, <1>2, <1>3, <1>4, <1>5 DEF Book

\* Serving the line keeps a book sound: of those whose turn it is no two want the same line, for one
\* of them would be ahead, and each takes lines nobody held.
LEMMA MoveUpSound ==
  ASSUME NEW b \in Book, NEW d \in SUBSET Line, Sound(b, d)
  PROVE  Sound(MoveUp(b, d), d)
<1> DEFINE go == {i \in Ids : Turn(b, d, i)}
           left == {i \in Waiting(b) : ~Stays(b, d, i)} \cup go
           gone == Leave(b, left)
           taker(l) == {i \in go : l \in b.waits[i].lines}
           c == MoveUp(b, d)
<1>1. gone \in Book
  BY LeaveType
<1>2. /\ \A i \in Ids : c.claims[i] = IF i \in go THEN Granted(b, d, i) ELSE b.claims[i]
      /\ \A l \in Line : c.claimOf[l] = IF l \in d /\ taker(l) # {}
                                        THEN CHOOSE i \in go : i \in taker(l)
                                        ELSE b.claimOf[l]
      /\ \A i \in Ids : c.waits[i] = IF gone.waits[i] = None THEN None
                                     ELSE [gone.waits[i] EXCEPT !.lines = @ \cap d]
  BY <1>1 DEF MoveUp, Book
<1>3. \A i \in go : i \in Waiting(b) /\ Stays(b, d, i)
  BY DEF Turn, Stays, Waiting
<1>4. \A i \in go : /\ Granted(b, d, i) \in Claim
                    /\ Granted(b, d, i).lines = b.waits[i].lines \cap d
                    /\ ~Granted(b, d, i).soft
  BY <1>3, GrantedType DEF Granted, ThatAreThere
<1>5. \A i \in go : \A l \in b.waits[i].lines \cap d : b.claimOf[l] = None
  BY DEF Turn
\* Two whose turn it is want different lines: the one ahead keeps the other off.
<1>6. ASSUME NEW i \in go, NEW j \in go, NEW l \in d, l \in b.waits[i].lines, l \in b.waits[j].lines
      PROVE  i = j
  <2>1. i \in Ids /\ j \in Ids /\ i \in Waiting(b) /\ j \in Waiting(b)
    BY <1>3
  <2>2. i = j \/ i \in b.waits[j].ahead \/ j \in b.waits[i].ahead
    BY <2>1 DEF Sound, Orderly, Linear, AheadOf
  <2>3. i \notin b.waits[j].ahead
    BY <1>3, <1>6 DEF Turn
  <2>4. j \notin b.waits[i].ahead
    BY <1>3, <1>6 DEF Turn
  <2> QED BY <2>2, <2>3, <2>4
<1> HIDE DEF c
<1>7. Standing(c) = Standing(b) \cup go
  BY <1>2, <1>4, NoneIsNone DEF Standing
<1>8. Hard(c) = Hard(b) \cup go
  <2>1. Hard(c) \subseteq Hard(b) \cup go
    BY <1>2, <1>7 DEF Hard, Standing
  <2>2. Hard(b) \subseteq Hard(c)
    BY <1>2, <1>4, <1>7 DEF Hard, Standing
  <2>3. go \subseteq Hard(c)
    BY <1>2, <1>4, <1>7 DEF Hard, Standing
  <2> QED BY <2>1, <2>2, <2>3
<1>9. go \cap Hard(b) = {}
  BY <1>3 DEF Sound
<1>10. Agrees(c)
  <2> SUFFICES ASSUME NEW l \in Line, NEW i \in Ids
               PROVE  c.claimOf[l] = i <=> i \in Hard(c) /\ l \in c.claims[i].lines
    BY DEF Agrees
  <2>0. b.claimOf[l] = i <=> i \in Hard(b) /\ l \in b.claims[i].lines
    BY DEF Sound, Agrees
  <2>1. CASE l \in d /\ taker(l) # {}
    <3>1. PICK k \in go : l \in b.waits[k].lines
      BY <2>1
    <3>2. \A j \in taker(l) : j = k
      BY <1>6, <2>1, <3>1
    <3>3. c.claimOf[l] = k
      BY <1>2, <2>1, <3>1, <3>2
    <3>4. b.claimOf[l] = None
      BY <1>5, <2>1, <3>1
    <3>5. ~(i \in Hard(b) /\ l \in b.claims[i].lines)
      BY <2>0, <3>4, NoneIsNone
    <3>6. CASE i \in go
      <4>1. c.claims[i].lines = b.waits[i].lines \cap d
        BY <1>2, <1>4, <3>6
      <4> QED BY <1>8, <2>1, <3>1, <3>2, <3>3, <3>6, <4>1
    <3>7. CASE i \notin go
      <4>1. c.claims[i] = b.claims[i]
        BY <1>2, <3>7
      <4> QED BY <1>8, <3>1, <3>3, <3>5, <3>7, <4>1
    <3> QED BY <3>6, <3>7
  <2>2. CASE ~(l \in d /\ taker(l) # {})
    <3>1. c.claimOf[l] = b.claimOf[l]
      BY <1>2, <2>2
    <3>2. CASE i \in go
      <4>1. c.claims[i].lines = b.waits[i].lines \cap d
        BY <1>2, <1>4, <3>2
      <4>2. l \notin c.claims[i].lines
        BY <2>2, <3>2, <4>1
      <4> QED BY <1>9, <2>0, <3>1, <3>2, <4>2
    <3>3. CASE i \notin go
      <4>1. c.claims[i] = b.claims[i]
        BY <1>2, <3>3
      <4> QED BY <1>8, <2>0, <3>1, <3>3, <4>1
    <3> QED BY <3>2, <3>3
  <2> QED BY <2>1, <2>2
<1>11. Grounded(c, d)
  <2> SUFFICES ASSUME NEW i \in Standing(c)
               PROVE  c.claims[i].lines # {} /\ c.claims[i].lines \subseteq d
    BY DEF Grounded
  <2>1. CASE i \in go
    <3>1. b.waits[i].lines \cap d # {}
      BY <1>3, <2>1 DEF Stays
    <3> QED BY <1>2, <1>4, <2>1, <3>1
  <2>2. CASE i \notin go
    BY <1>2, <1>7, <2>2 DEF Sound, Grounded, Standing
  <2> QED BY <2>1, <2>2
<1>12. /\ \A i \in Ids : c.waits[i] = None <=> gone.waits[i] = None
       /\ \A i \in Waiting(gone) : /\ c.waits[i].ahead = gone.waits[i].ahead
                                   /\ c.waits[i].prior = gone.waits[i].prior
  <2>1. \A i \in Waiting(gone) : gone.waits[i] \in Waiter
    BY <1>1 DEF Waiting, Book
  <2>2. ASSUME NEW i \in Waiting(gone)
        PROVE  /\ c.waits[i] \in Waiter
               /\ c.waits[i].ahead = gone.waits[i].ahead
               /\ c.waits[i].prior = gone.waits[i].prior
    <3>1. c.waits[i] = [gone.waits[i] EXCEPT !.lines = @ \cap d]
      BY <1>2 DEF Waiting
    <3> QED BY <2>1, <3>1 DEF Waiter
  <2>3. ASSUME NEW i \in Ids PROVE c.waits[i] = None <=> gone.waits[i] = None
    <3>1. CASE gone.waits[i] = None
      BY <1>2, <3>1
    <3>2. CASE gone.waits[i] # None
      <4>1. i \in Waiting(gone)
        BY <3>2 DEF Waiting
      <4> QED BY <2>2, <3>2, <4>1, NoneIsNone
    <3> QED BY <3>1, <3>2
  <2> QED BY <2>2, <2>3
<1>13. Orderly(gone) /\ Waiting(gone) = Waiting(b) \ left
  BY LeaveLine DEF Sound
<1> HIDE DEF gone
<1>14. Waiting(c) = Waiting(gone)
  BY <1>12 DEF Waiting
<1>15. Orderly(c)
  <2>1. \A i \in Waiting(c) : AheadOf(c)[i] = AheadOf(gone)[i] /\ PriorTo(c)[i] = PriorTo(gone)[i]
    BY <1>12, <1>14 DEF AheadOf, PriorTo, Waiting
  <2> QED BY <1>13, <1>14, <2>1 DEF Orderly, Linear
<1>16. Waiting(c) \cap Hard(c) = {}
  BY <1>8, <1>13, <1>14 DEF Sound
<1> QED BY <1>10, <1>11, <1>15, <1>16 DEF c, Sound

\* The same of serve, which while draining does nothing.
LEMMA ServeOK ==
  ASSUME NEW b \in Book, NEW d \in SUBSET Line
  PROVE  Serve(b, d) \in Book /\ (Sound(b, d) => Sound(Serve(b, d), d))
BY MoveUpType, MoveUpSound DEF Serve

\* The same of the serving that live() leaves for later.
LEMMA DeferredOK ==
  ASSUME NEW b \in Book, NEW d \in SUBSET Line
  PROVE  Deferred(b, d) \in Book /\ (Sound(b, d) => Sound(Deferred(b, d), d))
BY ServeOK DEF Deferred

\* What live() leaves its caller is a sound book.
LEMMA LiveOK ==
  ASSUME NEW b \in Book, NEW d
  PROVE  Live(b) \in Book /\ (Sound(b, d) => Sound(Live(b), d))
<1>1. Lapsed(b) \subseteq Standing(b)
  BY DEF Lapsed
<1>2. ASSUME Sound(b, d) PROVE Sound(Live(b), d)
  BY <1>1, <1>2, LetGoSound DEF Live, Sound, Grounded
<1> QED BY <1>1, <1>2, LetGoType DEF Live

\* A handler that moves only the times of claims and waiters leaves a sound book sound.
LEMMA TimesOnly ==
  ASSUME NEW b \in Book, NEW c \in Book, NEW d, Sound(b, d), c.claimOf = b.claimOf,
         \A i \in Ids : /\ c.claims[i] = None <=> b.claims[i] = None
                        /\ c.claims[i] # None => /\ c.claims[i].soft = b.claims[i].soft
                                                 /\ c.claims[i].lines = b.claims[i].lines
                        /\ c.waits[i] = None <=> b.waits[i] = None
                        /\ c.waits[i] # None => /\ c.waits[i].ahead = b.waits[i].ahead
                                                /\ c.waits[i].prior = b.waits[i].prior
  PROVE  Sound(c, d)
<1>1. Standing(c) = Standing(b) /\ Waiting(c) = Waiting(b)
  BY DEF Standing, Waiting
<1>2. Hard(c) = Hard(b)
  BY <1>1 DEF Hard, Standing
<1>3. Agrees(c)
  BY <1>2 DEF Sound, Agrees, Hard, Standing
<1>4. Grounded(c, d)
  BY <1>1 DEF Sound, Grounded, Standing
<1>5. Orderly(c)
  <2>1. \A i \in Waiting(c) : AheadOf(c)[i] = AheadOf(b)[i] /\ PriorTo(c)[i] = PriorTo(b)[i]
    BY DEF AheadOf, PriorTo, Waiting
  <2> QED BY <1>1, <2>1 DEF Sound, Orderly, Linear
<1> QED BY <1>1, <1>2, <1>3, <1>4, <1>5 DEF Sound

\* A claim laid where nothing is in the way, or an intent, is indexed and leaves the line.
LEMMA LaidOK ==
  ASSUME NEW b \in Book, NEW d \in SUBSET Line, NEW a \in Actors, NEW i \in Ids,
         NEW want \in SUBSET d, want # {}, NEW soft \in BOOLEAN, NEW ttl \in 0..Never
  PROVE  /\ Laid(b, a, i, want, soft, ttl) \in Book
         /\ Sound(b, d) /\ (soft \/ Clash(b, i, want) = {})
              => Sound(Laid(b, a, i, want, soft, ttl), d)
<1> DEFINE k == [who |-> a, lines |-> want, soft |-> soft, grant |-> FALSE,
                 until |-> AtMost(ttl, CapOf(a, b.claims[i])), cap |-> CapOf(a, b.claims[i])]
           m == Index(Off(b, i), i, k)
           c == Leave(m, {i})
<1>1. k \in Claim
  <2>1. CapOf(a, b.claims[i]) \in 0..Never
    <3>1. b.claims[i] \in Claim \/ b.claims[i] = None
      BY DEF Book
    <3> QED BY <3>1 DEF CapOf, Claim
  <2>2. AtMost(ttl, CapOf(a, b.claims[i])) \in 0..Never
    BY <2>1 DEF AtMost, Min2
  <2> QED BY <2>1, <2>2 DEF Claim
<1>2. /\ k.lines = want
      /\ k.soft = soft
  OBVIOUS
<1> HIDE DEF k
<1>3. /\ m \in Book
      /\ m.claims = [b.claims EXCEPT ![i] = k]
      /\ m.waits = b.waits
      /\ \A l \in Line : m.claimOf[l] =
           IF KeepsOff(k, l) THEN i
           ELSE IF b.claims[i] # None /\ l \in b.claims[i].lines /\ b.claimOf[l] = i
                THEN None ELSE b.claimOf[l]
  <2> DEFINE off == [l \in Line |->
                       IF b.claims[i] # None /\ l \in b.claims[i].lines /\ b.claimOf[l] = i
                       THEN None ELSE b.claimOf[l]]
             of == [l \in Line |-> IF KeepsOff(k, l) THEN i ELSE off[l]]
  <2>1. m = [b EXCEPT !.claimOf = of, !.claims = [b.claims EXCEPT ![i] = k]]
    BY DEF Index, Off, Book
  <2>2. of \in [Line -> Ids \cup {None}]
    BY DEF Book
  <2>3. [b.claims EXCEPT ![i] = k] \in [Ids -> Claim \cup {None}]
    BY <1>1 DEF Book
  <2>4. \A l \in Line : of[l] = IF KeepsOff(k, l) THEN i ELSE off[l]
    OBVIOUS
  <2>5. \A l \in Line : off[l] = IF b.claims[i] # None /\ l \in b.claims[i].lines /\ b.claimOf[l] = i
                                 THEN None ELSE b.claimOf[l]
    OBVIOUS
  <2> HIDE DEF m, of, off
  <2> QED BY <2>1, <2>2, <2>3, <2>4, <2>5 DEF Book
<1> HIDE DEF m
<1>4. c \in Book
  BY <1>3, LeaveType
<1>5. ASSUME Sound(b, d), soft \/ Clash(b, i, want) = {}
      PROVE  Sound(c, d)
  <2>1. Orderly(m)
    BY <1>3, <1>5 DEF Sound, Orderly, Waiting, AheadOf, PriorTo
  <2>2. /\ Orderly(c) /\ Waiting(c) = Waiting(m) \ {i}
        /\ c.claims = m.claims /\ c.claimOf = m.claimOf
    BY <1>3, <2>1, LeaveLine
  <2> HIDE DEF c
  <2>3. \A j \in Ids : c.claims[j] = IF j = i THEN k ELSE b.claims[j]
    BY <1>3, <2>2 DEF Book
  <2>4. Standing(c) = Standing(b) \cup {i}
    BY <1>1, <2>3, NoneIsNone DEF Standing
  <2>5. /\ \A j \in Ids \ {i} : j \in Hard(c) <=> j \in Hard(b)
        /\ i \in Hard(c) <=> ~soft
    BY <1>2, <2>3, <2>4 DEF Hard, Standing
  <2>6. Agrees(c)
    <3> SUFFICES ASSUME NEW l \in Line, NEW j \in Ids
                 PROVE  c.claimOf[l] = j <=> j \in Hard(c) /\ l \in c.claims[j].lines
      BY DEF Agrees
    <3>1. \A h \in Ids : b.claimOf[l] = h <=> h \in Hard(b) /\ l \in b.claims[h].lines
      BY <1>5 DEF Sound, Agrees
    <3>2. b.claimOf[l] \in Ids \cup {None}
      BY DEF Book
    <3>3. KeepsOff(k, l) <=> ~soft /\ l \in want
      BY <1>2 DEF KeepsOff
    <3>4. c.claimOf[l] = IF ~soft /\ l \in want THEN i
                         ELSE IF b.claimOf[l] = i THEN None ELSE b.claimOf[l]
      BY <1>3, <2>2, <3>1, <3>3 DEF Hard, Standing
    <3>5. ~soft /\ l \in want => b.claimOf[l] \in {None, i}
      BY <1>5 DEF Clash
    <3>6. CASE j = i
      BY <1>2, <2>3, <2>5, <3>2, <3>4, <3>6, NoneIsNone
    <3>7. CASE j # i
      BY <2>3, <2>5, <3>1, <3>2, <3>4, <3>5, <3>7, NoneIsNone
    <3> QED BY <3>6, <3>7
  <2>7. Grounded(c, d)
    BY <1>2, <1>5, <2>3, <2>4 DEF Sound, Grounded, Standing
  <2>8. Waiting(c) \cap Hard(c) = {}
    BY <1>3, <1>5, <2>2, <2>5 DEF Sound, Waiting
  <2> QED BY <2>2, <2>6, <2>7, <2>8 DEF Sound
<1>6. c = Laid(b, a, i, want, soft, ttl)
  BY DEF c, m, k, Laid
<1> HIDE DEF c
<1> QED BY <1>4, <1>5, <1>6

\* g is the order f of W with i put in just before the members of B, who end it.
PutIn(W, f, g, i, B) ==
  /\ i \notin W /\ B \subseteq W /\ Linear(W, f)
  /\ \A j \in W : \A k \in B : k \in f[j] => j \in B
  /\ g[i] = W \ B
  /\ \A j \in W : g[j] = IF j \in B THEN f[j] \cup {i} ELSE f[j]

\* An order stays one with a member put in before B, which nobody else comes behind.
LEMMA LinearWith ==
  ASSUME NEW W, NEW f, NEW g, NEW i, NEW B, PutIn(W, f, g, i, B)
  PROVE  Linear(W \cup {i}, g)
<1> USE DEF PutIn
<1> SUFFICES ASSUME NEW j \in W \cup {i}, NEW k \in W \cup {i}
             PROVE  /\ j \notin g[j] /\ g[j] \subseteq W \cup {i}
                    /\ j = k \/ (j \in g[k] <=> k \notin g[j])
                    /\ j \in g[k] => g[j] \subseteq g[k]
  BY DEF Linear
<1>1. /\ \A n \in W : n \notin f[n] /\ f[n] \subseteq W
      /\ \A m, n \in W : m = n \/ (m \in f[n] <=> n \notin f[m])
      /\ \A m, n \in W : m \in f[n] => f[m] \subseteq f[n]
  BY DEF Linear
<1>2. ASSUME NEW n \in W
      PROVE  /\ i \notin f[n]
             /\ i \in g[n] <=> n \in B
             /\ \A m \in W : m \in g[n] <=> m \in f[n]
             /\ g[n] \subseteq W \cup {i}
  <2>1. f[n] \subseteq W /\ i \notin W
    BY <1>1
  <2>2. CASE n \in B
    <3>1. g[n] = f[n] \cup {i}
      BY <2>2
    <3> HIDE DEF PutIn
    <3> QED BY <2>1, <2>2, <3>1
  <2>3. CASE n \notin B
    <3>1. g[n] = f[n]
      BY <2>3
    <3> HIDE DEF PutIn
    <3> QED BY <2>1, <2>3, <3>1
  <2> QED BY <2>2, <2>3
<1>3. \A m \in W : (m \in g[i] <=> m \notin B) /\ i \notin g[i] /\ g[i] \subseteq W
  OBVIOUS
<1>4. \A m \in W, n \in B : n \in f[m] => m \in B
  OBVIOUS
<1>5. CASE j = i /\ k = i
  BY <1>5
<1>6. CASE j = i /\ k \in W
  <2>1. k \in B => \A n \in W \ B : n \in f[k]
    BY <1>1, <1>4, <1>6
  <2>2. i \in g[k] => g[i] \subseteq g[k]
    BY <1>2, <1>3, <1>6, <2>1
  <2>3. i \in g[k] <=> k \notin g[i]
    BY <1>2, <1>3, <1>6
  <2> QED BY <1>3, <1>6, <2>2, <2>3
<1>7. CASE j \in W /\ k = i
  <2>1. j \notin B => \A n \in f[j] : n \notin B
    BY <1>4, <1>7
  <2>2. j \in g[i] => g[j] \subseteq g[i]
    BY <1>2, <1>3, <1>7, <2>1
  <2>3. j \in g[i] <=> i \notin g[j]
    BY <1>2, <1>3, <1>7
  <2> QED BY <1>1, <1>2, <1>7, <2>2, <2>3
<1>8. CASE j \in W /\ k \in W
  <2>1. j \in g[k] => g[j] \subseteq g[k]
    BY <1>1, <1>2, <1>4, <1>8
  <2>2. j = k \/ (j \in g[k] <=> k \notin g[j])
    BY <1>1, <1>2, <1>8
  <2> QED BY <1>1, <1>2, <1>8, <2>1, <2>2
<1> QED BY <1>5, <1>6, <1>7, <1>8

\* Getting in line, or asking again, keeps the book sound, whatever the ranks.
LEMMA InLineOK ==
  ASSUME NEW b \in Book, NEW d \in SUBSET Line, NEW a \in Actors, NEW i \in Ids, NEW want \in SUBSET Line
  PROVE  /\ InLine(b, a, i, want) \in Book
         /\ Sound(b, d) /\ i \notin Hard(b) => Sound(InLine(b, a, i, want), d)
<1> DEFINE c == InLine(b, a, i, want)
<1>0. KeepMs \in 0..KeepMs
  OBVIOUS
<1>1. CASE b.waits[i] = None
  <2> DEFINE behind == {k \in Waiting(b) : k \in Lower(b, a) \/ Lower(b, a) \cap b.waits[k].ahead # {}}
             w == [who |-> a, lines |-> want, seen |-> KeepMs,
                   ahead |-> Waiting(b) \ behind, prior |-> Waiting(b)]
             waits == [j \in Ids |->
                        IF j = i THEN w
                        ELSE IF j \in behind THEN [b.waits[j] EXCEPT !.ahead = @ \cup {i}] ELSE b.waits[j]]
  <2>1. c = [b EXCEPT !.waits = waits]
    BY <1>1 DEF InLine, Joined
  <2>2. /\ w \in Waiter /\ w.ahead = Waiting(b) \ behind /\ w.prior = Waiting(b)
    BY <1>0 DEF Waiter, Waiting
  <2>3. behind \in SUBSET Waiting(b)
    OBVIOUS
  <2>4. ASSUME NEW j \in behind
        PROVE  /\ [b.waits[j] EXCEPT !.ahead = @ \cup {i}] \in Waiter
               /\ [b.waits[j] EXCEPT !.ahead = @ \cup {i}].ahead = b.waits[j].ahead \cup {i}
               /\ [b.waits[j] EXCEPT !.ahead = @ \cup {i}].prior = b.waits[j].prior
    <3>1. b.waits[j] \in Waiter
      BY DEF Waiting, Book
    <3> QED BY <3>1 DEF Waiter
  <2>5. \A j \in Ids : waits[j] = IF j = i THEN w
                                  ELSE IF j \in behind THEN [b.waits[j] EXCEPT !.ahead = @ \cup {i}]
                                  ELSE b.waits[j]
    OBVIOUS
  <2> HIDE DEF w
  <2>6. waits \in [Ids -> Waiter \cup {None}]
    BY <2>2, <2>4 DEF Book
  <2>7. c \in Book
    BY <2>1, <2>6 DEF Book
  <2>8. c.waits = waits /\ c.claims = b.claims /\ c.claimOf = b.claimOf
    BY <2>1 DEF Book
  <2> HIDE DEF c, waits
  <2>9. ASSUME Sound(b, d), i \notin Hard(b) PROVE Sound(c, d)
    <3>1. Standing(c) = Standing(b) /\ Hard(c) = Hard(b)
      BY <2>8 DEF Standing, Hard
    <3>2. Waiting(c) = Waiting(b) \cup {i}
      <4>1. ASSUME NEW j \in Ids PROVE c.waits[j] # None <=> j = i \/ b.waits[j] # None
        <5>1. CASE j = i
          BY <2>2, <2>5, <2>8, <5>1, NoneIsNone
        <5>2. CASE j # i /\ j \in behind
          BY <2>4, <2>5, <2>8, <5>2, NoneIsNone DEF Waiting
        <5>3. CASE j # i /\ j \notin behind
          BY <2>5, <2>8, <5>3
        <5> QED BY <5>1, <5>2, <5>3
      <4> QED BY <4>1 DEF Waiting
    <3>3. \A j \in Waiting(b), k \in behind : k \in b.waits[j].ahead => j \in behind
      <4> SUFFICES ASSUME NEW j \in Waiting(b), NEW k \in behind, k \in b.waits[j].ahead
                   PROVE  j \in behind
        OBVIOUS
      <4>1. b.waits[k].ahead \subseteq b.waits[j].ahead
        BY <2>9 DEF Sound, Orderly, Linear, AheadOf, Waiting
      <4> QED BY <4>1
    <3>4. i \notin Waiting(b) /\ Waiting(b) \in SUBSET Ids
      BY <1>1 DEF Waiting
    <3>5. Linear(Waiting(c), AheadOf(c))
      <4>1. AheadOf(c)[i] = Waiting(b) \ behind
        BY <2>2, <2>5, <2>8 DEF AheadOf
      <4>2. \A j \in Waiting(b) : AheadOf(c)[j] = IF j \in behind THEN AheadOf(b)[j] \cup {i}
                                                  ELSE AheadOf(b)[j]
        BY <2>4, <2>5, <2>8, <3>4 DEF AheadOf
      <4>3. \A j \in Waiting(b), k \in behind : k \in AheadOf(b)[j] => j \in behind
        BY <3>3, <3>4 DEF AheadOf
      <4>4. Linear(Waiting(b), AheadOf(b))
        BY <2>9 DEF Sound, Orderly
      <4>5. i \in Ids \ Waiting(b)
        BY <3>4
      <4> DEFINE W == Waiting(b)  f == AheadOf(b)  g == AheadOf(c)  B == behind
      <4>6. PutIn(W, f, g, i, B)
        BY <2>3, <3>4, <4>1, <4>2, <4>3, <4>4, <4>5 DEF PutIn
      <4> HIDE DEF W, f, g, B
      <4>7. Linear(W \cup {i}, g)
        BY ONLY <4>6, LinearWith
      <4> QED BY <3>2, <4>7 DEF W, g
    <3>6. Linear(Waiting(c), PriorTo(c))
      <4>1. PriorTo(c)[i] = Waiting(b) \ {}
        BY <2>2, <2>5, <2>8 DEF PriorTo
      <4>2. \A j \in Waiting(b) : PriorTo(c)[j] = IF j \in {} THEN PriorTo(b)[j] \cup {i}
                                                  ELSE PriorTo(b)[j]
        BY <2>4, <2>5, <2>8, <3>4 DEF PriorTo
      <4>4. Linear(Waiting(b), PriorTo(b))
        BY <2>9 DEF Sound, Orderly
      <4>5. i \in Ids \ Waiting(b) /\ {} \in SUBSET Waiting(b)
        BY <3>4
      <4>6. \A j \in Waiting(b), k \in {} : k \in PriorTo(b)[j] => j \in {}
        OBVIOUS
      <4> DEFINE W == Waiting(b)  f == PriorTo(b)  g == PriorTo(c)  B == {}
      <4>7. PutIn(W, f, g, i, B)
        BY <3>4, <4>1, <4>2, <4>4, <4>5, <4>6 DEF PutIn
      <4> HIDE DEF W, f, g, B
      <4>8. Linear(W \cup {i}, g)
        BY ONLY <4>7, LinearWith
      <4> QED BY <3>2, <4>8 DEF W, g
    <3>7. Agrees(c) /\ Grounded(c, d)
      BY <2>8, <2>9, <3>1 DEF Sound, Agrees, Grounded
    <3>8. Waiting(c) \cap Hard(c) = {}
      BY <2>9, <3>1, <3>2 DEF Sound
    <3> QED BY <3>5, <3>6, <3>7, <3>8 DEF Sound, Orderly
  <2> QED BY <2>7, <2>9 DEF c
<1>2. CASE b.waits[i] # None
  <2> DEFINE w == [b.waits[i] EXCEPT !.seen = KeepMs, !.lines = want]
  <2>1. c = [b EXCEPT !.waits = [b.waits EXCEPT ![i] = w]]
    BY <1>2 DEF InLine, Book
  <2>2. b.waits[i] \in Waiter
    BY <1>2 DEF Book
  <2>3. /\ w \in Waiter /\ w.ahead = b.waits[i].ahead /\ w.prior = b.waits[i].prior
    BY <1>0, <2>2 DEF Waiter
  <2> HIDE DEF w
  <2>4. c \in Book
    BY <2>1, <2>3 DEF Book
  <2>5. /\ c.claims = b.claims /\ c.claimOf = b.claimOf
        /\ \A j \in Ids : c.waits[j] = IF j = i THEN w ELSE b.waits[j]
    BY <2>1 DEF Book
  <2> HIDE DEF c
  <2>6. Sound(b, d) => Sound(c, d)
    BY <1>2, <2>3, <2>4, <2>5, TimesOnly, NoneIsNone
  <2> QED BY <2>4, <2>6 DEF c
<1> QED BY <1>1, <1>2

-----------------------------------------------------------------------------
(* The invariant, and the steps that keep it.                              *)

\* Lines of the file were minted: a line still to mint is in no claim.
Minted == doc \subseteq 1..(nextId - 1)

\* The inductive invariant.
IInv == TypeOK /\ Sound(book, doc) /\ Minted

\* The object starts with the invariant.
LEMMA InitIInv == Init => IInv
<1> SUFFICES ASSUME Init PROVE IInv
  OBVIOUS
<1>1. EmptyBook \in Book
  BY DEF EmptyBook, Book
<1>2. TypeOK
  BY <1>1, LineAssumption DEF Init, TypeOK
<1>3. Standing(EmptyBook) = {} /\ Waiting(EmptyBook) = {}
  BY DEF EmptyBook, Standing, Waiting
<1>4. Sound(EmptyBook, doc)
  <2>1. Agrees(EmptyBook)
    BY <1>3, NoneIsNone DEF Agrees, Hard, EmptyBook
  <2> QED BY <1>3, <2>1 DEF Sound, Grounded, Orderly, Linear, Hard
<1>5. Minted
  BY LineAssumption DEF Init, Minted
<1> QED BY <1>2, <1>4, <1>5 DEF IInv, Init

\* What a handler that leaves the lines alone has to show.
LEMMA SameLines ==
  ASSUME IInv, book' \in Book, Sound(book', doc), alarmAt' \in 0..Never,
         drain' \in {"off", "soon", "due", "told"}, UNCHANGED <<doc, nextId>>
  PROVE  IInv'
BY DEF IInv, TypeOK, Minted

\* A claim laid or renewed keeps the invariant.
LEMMA LayStep ==
  ASSUME IInv, NEW a \in Actors, NEW i \in Ids, NEW want \in SUBSET doc, NEW soft \in BOOLEAN,
         NEW ttl \in 0..Never, Lay(a, i, want, soft, ttl)
  PROVE  IInv'
<1> DEFINE b == Live(book)
           laid == Laid(b, a, i, want, soft, ttl)
<1>1. book \in Book /\ doc \in SUBSET Line /\ Sound(book, doc)
  BY DEF IInv, TypeOK
<1>2. b \in Book /\ Sound(b, doc)
  BY <1>1, LiveOK
<1>3. want # {} /\ (soft \/ Clash(b, i, want) = {})
  BY DEF Lay, MayLay, Heard
<1>4. laid \in Book /\ Sound(laid, doc)
  BY <1>1, <1>2, <1>3, LaidOK
<1>5. book' \in Book /\ Sound(book', doc)
  BY <1>1, <1>4, ServeOK, DeferredOK DEF Lay
<1>6. alarmAt' \in 0..Never /\ UNCHANGED <<doc, nextId, drain>>
  BY <1>5, ArmType DEF Lay
<1> QED BY <1>5, <1>6, SameLines DEF IInv, TypeOK

\* So does an ask to wait.
LEMMA WaitStep ==
  ASSUME IInv, NEW a \in Actors, NEW i \in Ids, NEW want \in SUBSET doc, NEW hold \in BOOLEAN,
         NEW late \in BOOLEAN, Wait(a, i, want, hold, late)
  PROVE  IInv'
<1> DEFINE b == Live(book)
           line == InLine(b, a, i, want)
           Open(c) == IF hold THEN [c EXCEPT !.polls = c.polls \cup {i}] ELSE c
<1>1. book \in Book /\ doc \in SUBSET Line /\ Sound(book, doc)
  BY DEF IInv, TypeOK
<1>2. b \in Book /\ Sound(b, doc)
  BY <1>1, LiveOK
<1>3. i \notin Hard(b)
  BY DEF Wait, Heard, HoldsNone, Hard, Standing
<1>4. line \in Book /\ Sound(line, doc)
  BY <1>1, <1>2, <1>3, InLineOK
<1>5. ASSUME NEW c \in Book, Sound(c, doc) PROVE Open(c) \in Book /\ Sound(Open(c), doc)
  <2>1. CASE hold
    <3>1. /\ Open(c) \in Book
          /\ Open(c).claims = c.claims /\ Open(c).claimOf = c.claimOf /\ Open(c).waits = c.waits
      BY <2>1 DEF Book
    <3> QED BY <1>5, <3>1, TimesOnly
  <2> QED BY <1>5, <2>1
<1> HIDE DEF Open, line
<1>6. book' \in Book /\ Sound(book', doc)
  <2>1. book' = IF late THEN Deferred(Open(line), doc) ELSE Open(Deferred(line, doc))
    BY DEF Wait, Open, line
  <2> QED BY <1>1, <1>4, <1>5, <2>1, DeferredOK
<1>7. alarmAt' \in 0..Never /\ UNCHANGED <<doc, nextId, drain>>
  BY <1>6, ArmType DEF Wait
<1> QED BY <1>6, <1>7, SameLines DEF IInv, TypeOK

\* So does a person's extension.
LEMMA ExtendStep ==
  ASSUME IInv, NEW a \in People, NEW i \in Ids, Extend(a, i)
  PROVE  IInv'
<1> DEFINE b == Live(book)
           c == b.claims[i]
           n == [c EXCEPT !.cap = CapMs, !.until = Max2(c.until, LeaseMs)]
           longer == [b EXCEPT !.claims = [b.claims EXCEPT ![i] = n]]
<1>1. book \in Book /\ doc \in SUBSET Line /\ Sound(book, doc)
  BY DEF IInv, TypeOK
<1>2. b \in Book /\ Sound(b, doc)
  BY <1>1, LiveOK
<1>3. c # None /\ c \in Claim
  BY <1>2 DEF Extend, Book
<1> HIDE DEF c
<1>4. n \in Claim /\ n.soft = c.soft /\ n.lines = c.lines
  <2>1. Max2(c.until, LeaseMs) \in 0..Never /\ CapMs \in 0..Never
    <3>1. c.until \in 0..Never
      BY <1>3 DEF Claim
    <3> QED BY <3>1 DEF Max2
  <2> QED BY <1>3, <2>1 DEF Claim
<1> HIDE DEF n, b
<1> USE DEF c
<1>5. longer \in Book
  BY <1>2, <1>4 DEF Book
<1>6. /\ longer.claimOf = b.claimOf /\ longer.waits = b.waits
      /\ \A j \in Ids : longer.claims[j] = IF j = i THEN n ELSE b.claims[j]
  BY <1>2 DEF Book
<1> HIDE DEF longer
<1>7. Sound(longer, doc)
  BY <1>2, <1>3, <1>4, <1>5, <1>6, TimesOnly, NoneIsNone
<1>8. book' \in Book /\ Sound(book', doc)
  <2>1. book' = Deferred(longer, doc)
    BY DEF Extend, longer, n, b
  <2> QED BY <1>1, <1>5, <1>7, <2>1, DeferredOK
<1>9. alarmAt' \in 0..Never /\ UNCHANGED <<doc, nextId, drain>>
  BY <1>8, ArmType DEF Extend
<1> QED BY <1>8, <1>9, SameLines DEF IInv, TypeOK

\* So do the alarm and a look at the claims, which let go what lapsed.
LEMMA LapseSteps ==
  ASSUME IInv, Look \/ Alarm
  PROVE  IInv'
<1>1. book \in Book /\ doc \in SUBSET Line /\ Sound(book, doc)
  BY DEF IInv, TypeOK
<1>2. book' = Serve(Live(book), doc) /\ alarmAt' = Arm(book') /\ UNCHANGED <<doc, nextId, drain>>
  BY DEF Look, Alarm
<1>3. book' \in Book /\ Sound(book', doc)
  BY <1>1, <1>2, LiveOK, ServeOK
<1> QED BY <1>2, <1>3, ArmType, SameLines DEF IInv, TypeOK

\* So does a release, or a place given up.
LEMMA ReleaseStep ==
  ASSUME IInv, NEW i \in Ids, Release(i)
  PROVE  IInv'
<1>1. book \in Book /\ doc \in SUBSET Line /\ Sound(book, doc)
  BY DEF IInv, TypeOK
<1> DEFINE c == IF i \in Standing(book) THEN LetGo(book, {i}) ELSE Leave(book, {i})
<1>2. c \in Book /\ Sound(c, doc)
  <2>1. CASE i \in Standing(book)
    <3>1. {i} \subseteq Standing(book)
      BY <2>1
    <3>2. Agrees(book) /\ Orderly(book) /\ Waiting(book) \cap Hard(book) = {}
      BY <1>1 DEF Sound
    <3>3. \A j \in Standing(book) \ {i} : book.claims[j].lines # {} /\ book.claims[j].lines \subseteq doc
      BY <1>1 DEF Sound, Grounded
    <3>4. LetGo(book, {i}) \in Book /\ Sound(LetGo(book, {i}), doc)
      BY <1>1, <3>1, <3>2, <3>3, LetGoType, LetGoSound
    <3> QED BY <2>1, <3>4
  <2>2. CASE i \notin Standing(book)
    <3>1. Leave(book, {i}) \in Book
      BY <1>1, LeaveType
    <3> DEFINE v == Leave(book, {i})
    <3>2. /\ Orderly(v) /\ Waiting(v) = Waiting(book) \ {i}
          /\ v.claims = book.claims /\ v.claimOf = book.claimOf
      BY <1>1, LeaveLine DEF Sound
    <3> HIDE DEF v
    <3>3. Standing(v) = Standing(book) /\ Hard(v) = Hard(book)
      BY <3>2 DEF Standing, Hard
    <3>4. Sound(v, doc)
      BY <1>1, <3>2, <3>3 DEF Sound, Agrees, Grounded
    <3> QED BY <2>2, <3>1, <3>4 DEF v
  <2> QED BY <2>1, <2>2
<1> HIDE DEF c
<1>3. book' = Serve(c, doc) /\ alarmAt' = Arm(book') /\ UNCHANGED <<doc, nextId, drain>>
  BY DEF Release, c
<1>4. book' \in Book /\ Sound(book', doc)
  BY <1>1, <1>2, <1>3, ServeOK
<1> QED BY <1>3, <1>4, ArmType, SameLines DEF IInv, TypeOK

\* The renewal an edit brings moves only the time of a claim.
LEMMA RenewedOK ==
  ASSUME NEW b \in Book, b = book, NEW d, Sound(b, d), NEW a, NEW claim \in Ids \cup {None}
  PROVE  /\ Renewed(b, a, claim) \in Book /\ Sound(Renewed(b, a, claim), d)
         /\ Renewed(b, a, claim).waits = b.waits
<1> DEFINE n == [b.claims[claim] EXCEPT !.until = Min2(LeaseMs, b.claims[claim].cap)]
           c == [b EXCEPT !.claims = [b.claims EXCEPT ![claim] = n]]
<1>1. CASE Renews(a, claim)
  <2>1. claim \in Ids /\ b.claims[claim] # None /\ b.claims[claim] \in Claim
    BY <1>1, NoneIsNone DEF Renews, RenewTo, Book
  <2>2. n \in Claim /\ n.soft = b.claims[claim].soft /\ n.lines = b.claims[claim].lines
    <3>1. Min2(LeaseMs, b.claims[claim].cap) \in 0..Never
      BY <2>1 DEF Claim, Min2
    <3> QED BY <2>1, <3>1 DEF Claim
  <2> HIDE DEF n
  <2>3. c \in Book
    BY <2>1, <2>2 DEF Book
  <2>4. /\ c.claimOf = b.claimOf /\ c.waits = b.waits
        /\ \A j \in Ids : c.claims[j] = IF j = claim THEN n ELSE b.claims[j]
    BY <2>1 DEF Book
  <2> HIDE DEF c
  <2>5. Sound(c, d)
    BY <2>1, <2>2, <2>3, <2>4, TimesOnly, NoneIsNone
  <2>6. Renewed(b, a, claim) = c
    BY <1>1 DEF Renewed, RenewTo, c, n
  <2> QED BY <2>3, <2>4, <2>5, <2>6
<1>2. CASE ~Renews(a, claim)
  BY <1>2 DEF Renewed
<1> QED BY <1>1, <1>2

\* An edit that sets a line keeps the invariant.
LEMMA SetLineStep ==
  ASSUME IInv, NEW a, NEW l, NEW claim \in Ids \cup {None}, SetLine(a, l, claim)
  PROVE  IInv'
<1>1. book \in Book /\ doc \in SUBSET Line /\ Sound(book, doc)
  BY DEF IInv, TypeOK
<1>2. book' = Renewed(book, a, claim) /\ alarmAt' = Arm(book') /\ UNCHANGED <<doc, nextId, drain>>
  BY DEF SetLine
<1>3. book' \in Book /\ Sound(book', doc)
  BY <1>1, <1>2, RenewedOK
<1> QED BY <1>2, <1>3, ArmType, SameLines DEF IInv, TypeOK

\* So does deleting a line: it leaves every claim it is in, and claims left empty go.
LEMMA DeleteLineStep ==
  ASSUME IInv, NEW a, NEW l, NEW claim \in Ids \cup {None}, DeleteLine(a, l, claim)
  PROVE  IInv'
<1> DEFINE b == Renewed(book, a, claim)
           claims == [i \in Ids |-> IF i \in On(b, l)
                                    THEN [b.claims[i] EXCEPT !.lines = @ \ {l}] ELSE b.claims[i]]
           less == [b EXCEPT !.claims = claims, !.claimOf = [b.claimOf EXCEPT ![l] = None]]
           empty == {i \in On(b, l) : less.claims[i].lines = {}}
<1>1. book \in Book /\ doc \in SUBSET Line /\ Sound(book, doc) /\ alarmAt \in 0..Never
  BY DEF IInv, TypeOK
<1>2. b \in Book /\ Sound(b, doc)
  BY <1>1, RenewedOK
<1>3. /\ l \in doc /\ doc' = doc \ {l} /\ nextId' = nextId /\ drain' = drain
      /\ book' = IF empty = {} THEN less ELSE Serve(LetGo(less, empty), doc')
      /\ alarmAt' = IF empty # {} \/ Renews(a, claim) THEN Arm(book') ELSE alarmAt
  BY DEF DeleteLine
<1> HIDE DEF b
<1>4. On(b, l) \subseteq Standing(b) /\ l \in Line
  BY <1>1, <1>3 DEF On
\* Every claim with the line is on it: intents by themselves, the others by the index.
<1>5. \A i \in Standing(b) : l \in b.claims[i].lines => i \in On(b, l)
  <2> SUFFICES ASSUME NEW i \in Standing(b), l \in b.claims[i].lines PROVE i \in On(b, l)
    OBVIOUS
  <2>1. ~b.claims[i].soft => b.claimOf[l] = i
    BY <1>2, <1>4 DEF Sound, Agrees, Hard, Standing
  <2> QED BY <2>1 DEF On
<1>6. \A i \in On(b, l) : b.claims[i] \in Claim
  BY <1>2, <1>4 DEF Book, Standing
<1>7. \A i \in On(b, l) : /\ claims[i] \in Claim /\ claims[i].soft = b.claims[i].soft
                          /\ claims[i].lines = b.claims[i].lines \ {l}
  <2> SUFFICES ASSUME NEW i \in On(b, l)
               PROVE  /\ claims[i] \in Claim /\ claims[i].soft = b.claims[i].soft
                      /\ claims[i].lines = b.claims[i].lines \ {l}
    OBVIOUS
  <2>1. claims[i] = [b.claims[i] EXCEPT !.lines = @ \ {l}]
    BY <1>4 DEF Standing
  <2>2. b.claims[i] \in Claim
    BY <1>6
  <2> HIDE DEF claims, less
  <2> QED BY <2>1, <2>2 DEF Claim
<1>8. \A i \in Ids \ On(b, l) : claims[i] = b.claims[i]
  OBVIOUS
<1>9. claims \in [Ids -> Claim \cup {None}]
  BY <1>2, <1>6, <1>7 DEF Book
<1> HIDE DEF claims
<1>10. /\ less \in Book /\ less.claims = claims /\ less.waits = b.waits
       /\ less.claimOf = [b.claimOf EXCEPT ![l] = None]
  BY <1>2, <1>4, <1>9 DEF Book
<1> HIDE DEF less
<1>11. Standing(less) = Standing(b)
  BY <1>4, <1>7, <1>8, <1>10, NoneIsNone DEF Standing
<1>12. Hard(less) = Hard(b)
  <2>1. \A i \in Standing(b) : claims[i].soft = b.claims[i].soft
    BY <1>7, <1>8 DEF Standing
  <2> QED BY <1>10, <1>11, <2>1 DEF Hard
<1>13. Agrees(less)
  <2> SUFFICES ASSUME NEW m \in Line, NEW i \in Ids
               PROVE  less.claimOf[m] = i <=> i \in Hard(less) /\ m \in less.claims[i].lines
    BY DEF Agrees
  <2>1. b.claimOf[m] = i <=> i \in Hard(b) /\ m \in b.claims[i].lines
    BY <1>2 DEF Sound, Agrees
  <2>2. less.claimOf[m] = IF m = l THEN None ELSE b.claimOf[m]
    BY <1>2, <1>10 DEF Book
  <2>3. CASE m = l
    <3>1. i \in Hard(less) => l \notin less.claims[i].lines
      BY <1>5, <1>7, <1>8, <1>10, <1>11 DEF Hard, Standing
    <3> QED BY <2>2, <2>3, <3>1, NoneIsNone
  <2>4. CASE m # l
    <3>1. i \in Hard(b) => (m \in less.claims[i].lines <=> m \in b.claims[i].lines)
      BY <1>7, <1>8, <1>10, <2>4
    <3> QED BY <1>12, <2>1, <2>2, <2>4, <3>1
  <2> QED BY <2>3, <2>4
<1>14. Orderly(less) /\ Waiting(less) \cap Hard(less) = {}
  BY <1>2, <1>10, <1>12 DEF Sound, Orderly, Waiting, AheadOf, PriorTo
<1>15. \A i \in Standing(less) \ empty : less.claims[i].lines # {} /\ less.claims[i].lines \subseteq doc'
  <2> SUFFICES ASSUME NEW i \in Standing(less) \ empty
               PROVE  less.claims[i].lines # {} /\ less.claims[i].lines \subseteq doc'
    OBVIOUS
  <2>1. b.claims[i].lines # {} /\ b.claims[i].lines \subseteq doc
    BY <1>2, <1>11 DEF Sound, Grounded
  <2>2. CASE i \in On(b, l)
    BY <1>3, <1>7, <1>10, <2>1, <2>2
  <2>3. CASE i \notin On(b, l)
    <3>1. l \notin b.claims[i].lines
      BY <1>5, <1>11, <2>3
    <3>2. less.claims[i] = b.claims[i]
      BY <1>8, <1>10, <2>3 DEF Standing
    <3> QED BY <1>3, <2>1, <3>1, <3>2
  <2> QED BY <2>2, <2>3
<1>16. empty \subseteq Standing(less) /\ doc' \in SUBSET Line
  BY <1>1, <1>3, <1>4, <1>11
<1> HIDE DEF empty
<1>17. book' \in Book /\ Sound(book', doc')
  <2>1. CASE empty = {}
    <3>1. Grounded(less, doc')
      BY <1>15, <2>1 DEF Grounded
    <3> QED BY <1>3, <1>10, <1>13, <1>14, <2>1, <3>1 DEF Sound
  <2>2. CASE empty # {}
    <3>1. LetGo(less, empty) \in Book /\ Sound(LetGo(less, empty), doc')
      BY <1>10, <1>13, <1>14, <1>15, <1>16, LetGoType, LetGoSound
    <3>2. book' = Serve(LetGo(less, empty), doc')
      BY <1>3, <2>2
    <3> QED BY <1>16, <3>1, <3>2, ServeOK
  <2> QED BY <2>1, <2>2
<1>18. alarmAt' \in 0..Never
  BY <1>1, <1>3, <1>17, ArmType
<1> QED BY <1>3, <1>16, <1>17, <1>18 DEF IInv, TypeOK, Minted

\* So does inserting a line: it is in no claim yet, and of the claims it joins one is indexed.
LEMMA InsertLineStep ==
  ASSUME IInv, NEW a, NEW l, NEW claim \in Ids \cup {None}, InsertLine(a, l, claim)
  PROVE  IInv'
<1> DEFINE b == Renewed(book, a, claim)
           n == nextId
           mine == IF l = None THEN {}
                   ELSE {i \in On(b, l) : b.claims[i].who = a /\ (a \in People \/ claim = i)}
           claims == [i \in Ids |-> IF i \in mine
                                    THEN [b.claims[i] EXCEPT !.lines = @ \cup {n}] ELSE b.claims[i]]
           c == [b EXCEPT !.claims = claims, !.claimOf = [b.claimOf EXCEPT ![n] = Keeper(b, mine)]]
<1>1. /\ book \in Book /\ doc \in SUBSET Line /\ Sound(book, doc) /\ alarmAt \in 0..Never
      /\ n \in 1..(MaxLine + 1) /\ doc \subseteq 1..(n - 1)
  BY DEF IInv, TypeOK, Minted
<1>2. b \in Book /\ Sound(b, doc)
  BY <1>1, RenewedOK
<1>3. /\ n <= MaxLine /\ doc' = doc \cup {n} /\ nextId' = n + 1 /\ drain' = drain
      /\ book' = c
      /\ alarmAt' = IF Renews(a, claim) THEN Arm(book') ELSE alarmAt
      /\ l # None => l \in doc
  BY DEF InsertLine
<1> HIDE DEF b
<1>4. /\ n \in Line /\ n \notin doc /\ doc' \in SUBSET Line /\ nextId' \in 1..(MaxLine + 1)
      /\ doc' \subseteq 1..(nextId' - 1)
  <2>1. MaxLine \in Nat /\ n \in Nat
    BY <1>1, LineAssumption
  <2>2. n \notin doc
    BY <1>1, <2>1
  <2>3. n \in Line /\ nextId' \in 1..(MaxLine + 1)
    BY <1>1, <1>3, <2>1
  <2>4. doc' \subseteq 1..(nextId' - 1)
    BY <1>1, <1>3, <2>1
  <2> QED BY <1>1, <1>3, <2>2, <2>3, <2>4
<1> HIDE DEF n
<1>5. mine \subseteq On(b, l) /\ mine \subseteq Standing(b)
  BY DEF On
\* A line just minted is in no claim yet.
<1>6. \A i \in Standing(b) : n \notin b.claims[i].lines
  BY <1>2, <1>4 DEF Sound, Grounded
<1>7. \A i \in Ids : b.claimOf[n] # i
  BY <1>2, <1>4, <1>6 DEF Sound, Agrees, Hard
\* The index of the line it goes after names one claim, so at most one of them keeps others off.
<1>8. \A i, j \in mine \cap Hard(b) : i = j
  BY <1>5 DEF On, Hard
<1> HIDE DEF mine
<1>9. \A i \in mine : b.claims[i] \in Claim
  BY <1>2, <1>5 DEF Book, Standing
<1>10. \A i \in mine : /\ claims[i] \in Claim /\ claims[i].soft = b.claims[i].soft
                       /\ claims[i].lines = b.claims[i].lines \cup {n}
  <2> SUFFICES ASSUME NEW i \in mine
               PROVE  /\ claims[i] \in Claim /\ claims[i].soft = b.claims[i].soft
                      /\ claims[i].lines = b.claims[i].lines \cup {n}
    OBVIOUS
  <2>1. claims[i] = [b.claims[i] EXCEPT !.lines = @ \cup {n}]
    BY <1>5 DEF Standing
  <2>2. b.claims[i] \in Claim
    BY <1>9
  <2> HIDE DEF claims
  <2> QED BY <1>4, <2>1, <2>2 DEF Claim
<1>11. \A i \in Ids \ mine : claims[i] = b.claims[i]
  OBVIOUS
<1>12. claims \in [Ids -> Claim \cup {None}]
  BY <1>2, <1>9, <1>10 DEF Book
<1> HIDE DEF claims
\* The index takes the one of them that keeps others off.
<1>13. /\ Keeper(b, mine) \in Ids \cup {None}
       /\ \A i \in Ids : Keeper(b, mine) = i <=> i \in mine \cap Hard(b)
  <2>1. CASE mine \cap Hard(b) = {}
    BY <2>1, NoneIsNone DEF Keeper
  <2>2. CASE mine \cap Hard(b) # {}
    <3>1. Keeper(b, mine) \in mine \cap Hard(b)
      <4>1. Keeper(b, mine) = CHOOSE i \in mine : i \in Hard(b)
        BY <2>2 DEF Keeper
      <4>2. \E i \in mine : i \in Hard(b)
        BY <2>2
      <4> QED BY <4>1, <4>2
    <3> QED BY <1>5, <1>8, <3>1 DEF Standing
  <2> QED BY <2>1, <2>2
<1>14. /\ c \in Book /\ c.claims = claims /\ c.waits = b.waits
       /\ c.claimOf = [b.claimOf EXCEPT ![n] = Keeper(b, mine)]
  BY <1>2, <1>4, <1>12, <1>13 DEF Book
<1> HIDE DEF c
<1>15. Standing(c) = Standing(b)
  BY <1>5, <1>10, <1>11, <1>14, NoneIsNone DEF Standing
<1>16. Hard(c) = Hard(b)
  <2>1. \A i \in Standing(b) : claims[i].soft = b.claims[i].soft
    BY <1>10, <1>11 DEF Standing
  <2> QED BY <1>14, <1>15, <2>1 DEF Hard
<1>17. Agrees(c)
  <2> SUFFICES ASSUME NEW m \in Line, NEW i \in Ids
               PROVE  c.claimOf[m] = i <=> i \in Hard(c) /\ m \in c.claims[i].lines
    BY DEF Agrees
  <2>1. b.claimOf[m] = i <=> i \in Hard(b) /\ m \in b.claims[i].lines
    BY <1>2 DEF Sound, Agrees
  <2>2. c.claimOf[m] = IF m = n THEN Keeper(b, mine) ELSE b.claimOf[m]
    BY <1>2, <1>14 DEF Book
  <2>3. CASE m = n
    <3>1. i \in Hard(b) => (n \in claims[i].lines <=> i \in mine)
      BY <1>6, <1>10, <1>11 DEF Hard, Standing
    <3> QED BY <1>13, <1>14, <1>16, <2>2, <2>3, <3>1
  <2>4. CASE m # n
    <3>1. i \in Hard(b) => (m \in claims[i].lines <=> m \in b.claims[i].lines)
      BY <1>10, <1>11, <2>4
    <3> QED BY <1>14, <1>16, <2>1, <2>2, <2>4, <3>1
  <2> QED BY <2>3, <2>4
<1>18. Grounded(c, doc')
  <2> SUFFICES ASSUME NEW i \in Standing(c)
               PROVE  c.claims[i].lines # {} /\ c.claims[i].lines \subseteq doc'
    BY DEF Grounded
  <2>1. b.claims[i].lines # {} /\ b.claims[i].lines \subseteq doc
    BY <1>2, <1>15 DEF Sound, Grounded
  <2>2. CASE i \in mine
    BY <1>3, <1>10, <1>14, <2>1, <2>2
  <2>3. CASE i \notin mine
    BY <1>3, <1>11, <1>14, <2>1, <2>3 DEF Standing
  <2> QED BY <2>2, <2>3
<1>19. Orderly(c) /\ Waiting(c) \cap Hard(c) = {}
  BY <1>2, <1>14, <1>16 DEF Sound, Orderly, Waiting, AheadOf, PriorTo
<1>20. book' \in Book /\ Sound(book', doc')
  BY <1>3, <1>14, <1>17, <1>18, <1>19 DEF Sound
<1>21. alarmAt' \in 0..Never
  BY <1>1, <1>3, <1>20, ArmType
<1> QED BY <1>3, <1>4, <1>20, <1>21 DEF IInv, TypeOK, Minted

\* Times of waiters, polls and drain don't touch who has what.
LEMMA SeenOnly ==
  ASSUME NEW b \in Book, NEW d, NEW S, NEW P \in SUBSET Ids
  PROVE  LET c == [b EXCEPT
                     !.polls = P,
                     !.waits = [j \in Ids |-> IF j \in S \cap Waiting(b)
                                              THEN [b.waits[j] EXCEPT !.seen = KeepMs]
                                              ELSE b.waits[j]]]
         IN  c \in Book /\ (Sound(b, d) => Sound(c, d))
<1> DEFINE waits == [j \in Ids |-> IF j \in S \cap Waiting(b)
                                   THEN [b.waits[j] EXCEPT !.seen = KeepMs] ELSE b.waits[j]]
           c == [b EXCEPT !.polls = P, !.waits = waits]
<1>1. ASSUME NEW j \in Waiting(b)
      PROVE  /\ [b.waits[j] EXCEPT !.seen = KeepMs] \in Waiter
             /\ [b.waits[j] EXCEPT !.seen = KeepMs].ahead = b.waits[j].ahead
             /\ [b.waits[j] EXCEPT !.seen = KeepMs].prior = b.waits[j].prior
  <2>1. b.waits[j] \in Waiter
    BY DEF Waiting, Book
  <2> QED BY <2>1 DEF Waiter
<1>2. waits \in [Ids -> Waiter \cup {None}]
  BY <1>1 DEF Book
<1>3. ASSUME NEW j \in Ids
      PROVE  /\ waits[j] = None <=> b.waits[j] = None
             /\ b.waits[j] # None => /\ waits[j].ahead = b.waits[j].ahead
                                     /\ waits[j].prior = b.waits[j].prior
  <2>1. CASE j \in S \cap Waiting(b)
    BY <1>1, <2>1, NoneIsNone DEF Waiting
  <2>2. CASE j \notin S \cap Waiting(b)
    BY <2>2
  <2> QED BY <2>1, <2>2
<1> HIDE DEF waits
<1>4. c \in Book /\ c.claims = b.claims /\ c.claimOf = b.claimOf /\ c.waits = waits
  BY <1>2 DEF Book
<1> HIDE DEF c
<1>5. Sound(b, d) => Sound(c, d)
  BY <1>3, <1>4, TimesOnly
<1> QED BY <1>4, <1>5 DEF c, waits

\* So does the end of an ask held open.
LEMMA PollEndStep ==
  ASSUME IInv, NEW i \in Ids, PollEnd(i)
  PROVE  IInv'
<1>1. book \in Book /\ Sound(book, doc) /\ alarmAt \in 0..Never
  BY DEF IInv, TypeOK
<1> DEFINE P == book.polls \ {i}
           waits(S) == [j \in Ids |-> IF j \in S \cap Waiting(book)
                                      THEN [book.waits[j] EXCEPT !.seen = KeepMs]
                                      ELSE book.waits[j]]
<1>2. P \in SUBSET Ids
  BY <1>1 DEF Book
<1>3. book' = [book EXCEPT !.polls = P, !.waits = waits({i})]
  <2>1. \A j \in Ids : (j = i /\ i \in Waiting(book)) <=> j \in {i} \cap Waiting(book)
    OBVIOUS
  <2>2. waits({i}) = [j \in Ids |-> IF j = i /\ i \in Waiting(book)
                                    THEN [book.waits[i] EXCEPT !.seen = KeepMs] ELSE book.waits[j]]
    BY <2>1
  <2> HIDE DEF waits
  <2> QED BY <2>2 DEF PollEnd
<1>4. book' \in Book /\ Sound(book', doc)
  BY <1>1, <1>2, <1>3, SeenOnly
<1> QED BY <1>1, <1>4, SameLines DEF PollEnd, IInv, TypeOK

\* So do the steps of a deploy.
LEMMA DrainSteps ==
  ASSUME IInv, Warn \/ WarningOver \/ Begin \/ Cancel
  PROVE  IInv'
<1>1. book \in Book /\ Sound(book, doc) /\ alarmAt \in 0..Never
  BY DEF IInv, TypeOK
<1>2. CASE Begin
  <2> DEFINE waits(S) == [j \in Ids |-> IF j \in S \cap Waiting(book)
                                        THEN [book.waits[j] EXCEPT !.seen = KeepMs]
                                        ELSE book.waits[j]]
  <2>1. book' = [book EXCEPT !.polls = {}, !.waits = waits(book.polls)]
    BY <1>2 DEF Begin
  <2>2. book' \in Book /\ Sound(book', doc)
    BY <1>1, <2>1, SeenOnly
  <2> QED BY <1>1, <1>2, <2>2, SameLines DEF Begin
<1>3. CASE Warn \/ WarningOver \/ Cancel
  BY <1>1, <1>3, SameLines DEF Warn, WarningOver, Cancel
<1> QED BY <1>2, <1>3

\* So does a wipe.
LEMMA WipeStep ==
  ASSUME IInv, Wipe
  PROVE  IInv'
<1>1. EmptyBook \in Book
  BY DEF EmptyBook, Book
<1>2. Standing(EmptyBook) = {} /\ Waiting(EmptyBook) = {}
  BY DEF EmptyBook, Standing, Waiting
<1>3. Sound(EmptyBook, {})
  <2>1. Agrees(EmptyBook)
    BY <1>2, NoneIsNone DEF Agrees, Hard, EmptyBook
  <2> QED BY <1>2, <2>1 DEF Sound, Grounded, Orderly, Linear, Hard
<1>4. doc' = {} /\ nextId' = 1 /\ book' = EmptyBook /\ alarmAt' = Never /\ drain' = drain
  BY DEF Wipe
<1>5. TypeOK' /\ Minted'
  BY <1>1, <1>4, LineAssumption DEF IInv, TypeOK, Minted
<1> QED BY <1>3, <1>4, <1>5 DEF IInv

\* So does time passing.
LEMMA TickStep ==
  ASSUME IInv, Tick
  PROVE  IInv'
<1> DEFINE older(c) == [c EXCEPT !.until = Down(@), !.cap = Down(@)]
           quieter(w) == [w EXCEPT !.seen = Down(@)]
           claims == [i \in Ids |-> IF book.claims[i] = None THEN None
                                    ELSE [book.claims[i] EXCEPT !.until = Down(@), !.cap = Down(@)]]
           rests == [i \in Ids |-> IF book.rests[i] = None \/ book.rests[i].left = 1 THEN None
                                   ELSE [book.rests[i] EXCEPT !.left = @ - 1]]
           waits == [i \in Ids |-> IF book.waits[i] = None THEN None
                                   ELSE [book.waits[i] EXCEPT !.seen = Down(@)]]
<1>1. book \in Book /\ Sound(book, doc) /\ alarmAt \in 0..Never
  BY DEF IInv, TypeOK
<1>2. /\ \A t \in 0..Never : Down(t) \in 0..Never
      /\ \A t \in 0..KeepMs : Down(t) \in 0..KeepMs
  BY DEF Down
<1>3. ASSUME NEW c \in Claim
      PROVE  older(c) \in Claim /\ older(c).soft = c.soft /\ older(c).lines = c.lines
  BY <1>2 DEF Claim
<1>4. ASSUME NEW w \in Waiter
      PROVE  quieter(w) \in Waiter /\ quieter(w).ahead = w.ahead /\ quieter(w).prior = w.prior
  BY <1>2 DEF Waiter
<1>5. ASSUME NEW r \in Rest, r.left # 1
      PROVE  [r EXCEPT !.left = @ - 1] \in Rest
  <2>1. r.left \in 1..RestMs
    BY DEF Rest
  <2>2. r.left - 1 \in 1..RestMs
    BY <1>5, <2>1
  <2> QED BY <2>2 DEF Rest
<1>6. ASSUME NEW i \in Ids
      PROVE  /\ claims[i] = IF book.claims[i] = None THEN None ELSE older(book.claims[i])
             /\ waits[i] = IF book.waits[i] = None THEN None ELSE quieter(book.waits[i])
             /\ book.claims[i] # None => book.claims[i] \in Claim
             /\ book.waits[i] # None => book.waits[i] \in Waiter
             /\ book.rests[i] # None => book.rests[i] \in Rest
  BY <1>1 DEF Book
<1>7. rests \in [Ids -> Rest \cup {None}]
  <2>1. ASSUME NEW i \in Ids
        PROVE  (IF book.rests[i] = None \/ book.rests[i].left = 1 THEN None
                ELSE [book.rests[i] EXCEPT !.left = @ - 1]) \in Rest \cup {None}
    BY <1>5, <1>6
  <2> QED BY <2>1
<1>8. book' = [book EXCEPT !.claims = claims, !.rests = rests, !.waits = waits]
  BY DEF Tick
<1> HIDE DEF older, quieter
<1>9. claims \in [Ids -> Claim \cup {None}] /\ waits \in [Ids -> Waiter \cup {None}]
  <2> SUFFICES ASSUME NEW i \in Ids
               PROVE  claims[i] \in Claim \cup {None} /\ waits[i] \in Waiter \cup {None}
    OBVIOUS
  <2>1. claims[i] \in Claim \cup {None}
    <3> HIDE DEF claims
    <3> QED BY <1>3, <1>6
  <2>2. waits[i] \in Waiter \cup {None}
    <3> HIDE DEF waits
    <3> QED BY <1>4, <1>6
  <2> QED BY <2>1, <2>2
<1> HIDE DEF claims, waits, rests
<1>10. /\ book' \in Book /\ book'.claims = claims /\ book'.claimOf = book.claimOf
       /\ book'.waits = waits
  BY <1>1, <1>7, <1>8, <1>9 DEF Book
<1>11. \A i \in Ids : /\ claims[i] = None <=> book.claims[i] = None
                      /\ book.claims[i] # None => /\ claims[i].soft = book.claims[i].soft
                                                  /\ claims[i].lines = book.claims[i].lines
  BY <1>3, <1>6, NoneIsNone
<1>12. \A i \in Ids : /\ waits[i] = None <=> book.waits[i] = None
                      /\ book.waits[i] # None => /\ waits[i].ahead = book.waits[i].ahead
                                                 /\ waits[i].prior = book.waits[i].prior
  BY <1>4, <1>6, NoneIsNone
<1>13. Sound(book', doc)
  BY <1>1, <1>10, <1>11, <1>12, TimesOnly
<1>14. alarmAt' \in 0..Never /\ UNCHANGED <<doc, nextId, drain>>
  BY <1>1, <1>2 DEF Tick
<1> QED BY <1>10, <1>13, <1>14, SameLines DEF IInv, TypeOK

\* So does a restart, which reads the claims back, indexes them and lines the waiters up.
LEMMA RestartStep ==
  ASSUME IInv, Restart
  PROVE  IInv'
<1> DEFINE claims == ReadBack
           waits == [i \in Ids |-> Stood(i)]
           claimOf == [l \in Line |-> Holder(ReadBack, l)]
<1>1. book \in Book /\ Sound(book, doc) /\ doc \in SUBSET Line
  BY DEF IInv, TypeOK
\* Reading back moves only the times of grants.
<1>2. ASSUME NEW i \in Ids
      PROVE  /\ claims[i] \in Claim \cup {None}
             /\ claims[i] = None <=> book.claims[i] = None
             /\ claims[i] # None => /\ claims[i].soft = book.claims[i].soft
                                    /\ claims[i].lines = book.claims[i].lines
  <2> DEFINE c == book.claims[i]
  <2>1. claims[i] = IF c # None /\ c.grant /\ c.until < GrantMs THEN [c EXCEPT !.until = GrantMs] ELSE c
    BY DEF ReadBack
  <2>2. c \in Claim \cup {None}
    BY <1>1 DEF Book
  <2> HIDE DEF c, claims
  <2>3. CASE c \in Claim
    <3>1. /\ [c EXCEPT !.until = GrantMs] \in Claim
          /\ [c EXCEPT !.until = GrantMs].soft = c.soft /\ [c EXCEPT !.until = GrantMs].lines = c.lines
      BY <2>3 DEF Claim
    <3>2. CASE claims[i] = c
      BY <2>3, <3>2, NoneIsNone DEF c
    <3>3. CASE claims[i] = [c EXCEPT !.until = GrantMs]
      BY <2>3, <3>1, <3>3, NoneIsNone DEF c
    <3> QED BY <2>1, <3>2, <3>3
  <2>4. CASE c = None
    BY <2>1, <2>4 DEF c
  <2> QED BY <2>2, <2>3, <2>4
<1>3. claims \in [Ids -> Claim \cup {None}]
  BY <1>2 DEF ReadBack
<1>4. ASSUME NEW i \in Ids
      PROVE  /\ waits[i] \in Waiter \cup {None}
             /\ waits[i] = None <=> book.waits[i] = None
             /\ waits[i] # None => /\ waits[i].ahead = book.waits[i].prior
                                   /\ waits[i].prior = book.waits[i].prior
  <2> DEFINE w == book.waits[i]
             v == [w EXCEPT !.seen = KeepMs, !.ahead = w.prior]
  <2>1. waits[i] = IF w = None THEN None ELSE v
    BY DEF Stood
  <2>2. w \in Waiter \cup {None}
    BY <1>1 DEF Book
  <2> HIDE DEF w, waits
  <2>3. CASE w \in Waiter
    <3>1. KeepMs \in 0..KeepMs
      OBVIOUS
    <3>2. v \in Waiter /\ v.ahead = w.prior /\ v.prior = w.prior
      BY <2>3, <3>1 DEF Waiter
    <3> QED BY <2>1, <2>3, <3>2, NoneIsNone DEF w
  <2>4. CASE w = None
    BY <2>1, <2>4 DEF w
  <2> QED BY <2>2, <2>3, <2>4
<1>5. waits \in [Ids -> Waiter \cup {None}]
  BY <1>4
\* The index read back is the one there was: one claim at most keeps others off a line.
<1>6. ASSUME NEW l \in Line
      PROVE  /\ Holder(claims, l) \in Ids \cup {None}
             /\ \A i \in Ids : Holder(claims, l) = i <=> i \in Hard(book) /\ l \in book.claims[i].lines
  <2> DEFINE holders == {i \in Ids : claims[i] # None /\ ~claims[i].soft /\ l \in claims[i].lines}
  <2> HIDE DEF claims
  <2>1. holders = {i \in Hard(book) : l \in book.claims[i].lines}
    BY <1>2 DEF Hard, Standing
  <2>2. \A i \in holders : book.claimOf[l] = i
    BY <1>1, <2>1 DEF Sound, Agrees, Hard, Standing
  <2>3. Holder(claims, l) = IF holders = {} THEN None ELSE CHOOSE i \in holders : TRUE
    BY DEF Holder
  <2>4. holders \subseteq Ids
    OBVIOUS
  <2> HIDE DEF holders
  <2>5. CASE holders = {}
    BY <2>1, <2>3, <2>5, NoneIsNone
  <2>6. CASE holders # {}
    <3>1. Holder(claims, l) \in holders
      BY <2>3, <2>6
    <3> QED BY <2>1, <2>2, <2>4, <3>1
  <2> QED BY <2>5, <2>6
<1>7. claimOf \in [Line -> Ids \cup {None}]
  BY <1>6
<1>8. book' = [book EXCEPT !.claims = claims, !.claimOf = claimOf, !.waits = waits, !.polls = {}]
  BY DEF Restart
<1>9. \A l \in Line : claimOf[l] = Holder(claims, l)
  OBVIOUS
<1> HIDE DEF claims, claimOf, waits
<1>10. /\ book' \in Book /\ book'.claims = claims /\ book'.claimOf = claimOf /\ book'.waits = waits
  BY <1>1, <1>3, <1>5, <1>7, <1>8 DEF Book
<1>11. /\ Standing(book') = Standing(book) /\ Hard(book') = Hard(book)
       /\ Waiting(book') = Waiting(book)
  BY <1>2, <1>4, <1>10 DEF Standing, Hard, Waiting
<1>12. Agrees(book')
  <2> SUFFICES ASSUME NEW l \in Line, NEW i \in Ids
               PROVE  book'.claimOf[l] = i <=> i \in Hard(book') /\ l \in book'.claims[i].lines
    BY DEF Agrees
  <2>1. i \in Hard(book) => book'.claims[i].lines = book.claims[i].lines
    BY <1>2, <1>10 DEF Hard, Standing
  <2> QED BY <1>6, <1>9, <1>10, <1>11, <2>1
<1>13. Grounded(book', doc)
  BY <1>1, <1>2, <1>10, <1>11 DEF Sound, Grounded, Standing
<1>14. Orderly(book')
  <2>1. \A i \in Waiting(book) : /\ AheadOf(book')[i] = PriorTo(book)[i]
                                 /\ PriorTo(book')[i] = PriorTo(book)[i]
    BY <1>4, <1>10 DEF AheadOf, PriorTo, Waiting
  <2> QED BY <1>1, <1>11, <2>1 DEF Sound, Orderly, Linear
<1>15. Sound(book', doc)
  BY <1>1, <1>11, <1>12, <1>13, <1>14 DEF Sound
<1>16. alarmAt' \in 0..Never /\ drain' = "off" /\ UNCHANGED <<doc, nextId>>
  BY <1>10, ArmType DEF Restart
<1> QED BY <1>10, <1>15, <1>16, SameLines

-----------------------------------------------------------------------------
\* Every step of the object keeps the invariant.
LEMMA NextIInv == IInv /\ [Next]_vars => IInv'
<1> SUFFICES ASSUME IInv, [Next]_vars PROVE IInv'
  OBVIOUS
<1>1. ASSUME NEW a \in Actors, Ask(a) PROVE IInv'
  <2>1. PICK i \in IdsOf[a], want \in SUBSET doc :
          \/ \E soft \in Softs, ttl \in Ttls \cup {DefaultTtl(a)} : Lay(a, i, want, soft, ttl)
          \/ \E hold, late \in BOOLEAN : Wait(a, i, want, hold, late)
    BY <1>1 DEF Ask
  <2>2. i \in Ids
    BY IdsAssumption
  <2>3. \A soft \in Softs : soft \in BOOLEAN
    BY SoftAssumption
  <2>4. \A ttl \in Ttls \cup {DefaultTtl(a)} : ttl \in 0..Never
    <3>1. DefaultTtl(a) \in 0..Never
      BY DEF DefaultTtl
    <3>2. 0..CapMs \subseteq 0..Never
      OBVIOUS
    <3> QED BY <3>1, <3>2, TtlAssumption
  <2> QED BY <2>1, <2>2, <2>3, <2>4, LayStep, WaitStep
<1>2. ASSUME NEW a \in People, NEW i \in Ids, Extend(a, i) PROVE IInv'
  BY <1>2, ExtendStep
<1>3. ASSUME NEW a \in Actors \cup {None}, Edit(a) PROVE IInv'
  <2>1. PICK claim \in IF a = None THEN {None} ELSE IdsOf[a] \cup {None} :
          \/ \E l \in doc : SetLine(a, l, claim) \/ DeleteLine(a, l, claim)
          \/ \E l \in doc \cup {None} : InsertLine(a, l, claim)
    BY <1>3 DEF Edit
  <2>2. claim \in Ids \cup {None}
    BY IdsAssumption
  <2> QED BY <2>1, <2>2, SetLineStep, DeleteLineStep, InsertLineStep
<1>4. ASSUME NEW i \in Ids, PollEnd(i) \/ Release(i) PROVE IInv'
  BY <1>4, PollEndStep, ReleaseStep
<1>5. CASE Look \/ Alarm
  BY <1>5, LapseSteps
<1>6. CASE Warn \/ WarningOver \/ Begin \/ Cancel
  BY <1>6, DrainSteps
<1>7. CASE Restart
  BY <1>7, RestartStep
<1>8. CASE Wipe
  BY <1>8, WipeStep
<1>9. CASE Tick
  BY <1>9, TickStep
<1>10. CASE UNCHANGED vars
  BY <1>10 DEF vars, IInv, TypeOK, Sound, Agrees, Grounded, Orderly, Linear, AheadOf, PriorTo, Minted,
              Standing, Hard, Waiting
<1> QED BY <1>1, <1>2, <1>3, <1>4, <1>5, <1>6, <1>7, <1>8, <1>9, <1>10 DEF Next

\* The invariant holds in every state: it is what the theorems below rest on.
THEOREM Invariant == Spec => []IInv
BY InitIInv, NextIInv, PTL DEF Spec

\* Type correctness: no lease, cap, rest or place in line outlives its bound, whoever asks for what.
THEOREM TypeCorrect == Spec => []TypeOK
<1>1. IInv => TypeOK
  BY DEF IInv
<1> QED BY <1>1, Invariant, PTL

\* The index of lines and the claims agree for any number of claimants, ids and lines: a line is in
\* one claim that keeps others off it at most, and edits and asks see exactly the claims there are.
THEOREM IndexIsRight == Spec => []IndexAgrees
<1>1. IInv => IndexAgrees
  BY DEF IInv, Sound, Agrees, IndexAgrees
<1> QED BY <1>1, Invariant, PTL

\* No claim is on a line that is gone, or on none, whatever edits, grants and lapses come between.
THEOREM ClaimsAreOnLines == Spec => []ClaimsOnLines
<1>1. IInv => ClaimsOnLines
  BY DEF IInv, Sound, Grounded, ClaimsOnLines
<1> QED BY <1>1, Invariant, PTL

\* The line of waiters is a line, ranked or not, whoever joins, leaves, is served or stands again
\* after a restart.
THEOREM LineIsALine == Spec => []LineInOrder
<1>1. IInv => LineInOrder
  <2> SUFFICES ASSUME IInv, NEW i \in Waiting(book), NEW j \in Waiting(book)
               PROVE  /\ i \notin book.waits[i].ahead /\ book.waits[i].ahead \subseteq Waiting(book)
                      /\ i = j \/ (i \in book.waits[j].ahead <=> j \notin book.waits[i].ahead)
                      /\ i \in book.waits[j].ahead => book.waits[i].ahead \subseteq book.waits[j].ahead
    BY DEF LineInOrder
  <2>1. Linear(Waiting(book), AheadOf(book))
    BY DEF IInv, Sound, Orderly
  <2>2. AheadOf(book)[i] = book.waits[i].ahead /\ AheadOf(book)[j] = book.waits[j].ahead
    BY DEF AheadOf, Waiting
  <2> QED BY <2>1, <2>2 DEF Linear
<1> QED BY <1>1, Invariant, PTL

-----------------------------------------------------------------------------
(* The alarm is set for the first lapse.  A handler either arms, or leaves *)
(* no time earlier than those the alarm covered before.                    *)

\* Arming covers whatever is due.
LEMMA Armed ==
  ASSUME IInv', alarmAt' = Arm(book')
  PROVE  AlarmCovers'
<1>1. book' \in Book
  BY DEF IInv, TypeOK
<1>2. \A t \in Due(book') : Arm(book') <= t
  BY <1>1, ArmIsFirst
<1> QED BY <1>2 DEF AlarmCovers

\* A handler that doesn't arm may only put times off, or take them away.
LEMMA PutOff ==
  ASSUME IInv, IInv', AlarmCovers, alarmAt' = alarmAt,
         \A t \in Due(book') : \E u \in Due(book) : u <= t
  PROVE  AlarmCovers'
<1> SUFFICES ASSUME NEW t \in Due(book') PROVE alarmAt' <= t
  BY DEF AlarmCovers
<1>1. PICK u \in Due(book) : u <= t
  OBVIOUS
<1>2. alarmAt \in Int /\ u \in Int /\ t \in Int
  <2>1. book \in Book /\ book' \in Book /\ alarmAt \in 0..Never
    BY DEF IInv, TypeOK
  <2> QED BY <2>1, DueInTime
<1>3. alarmAt <= u
  BY DEF AlarmCovers
<1> QED BY <1>1, <1>2, <1>3

\* Waiters that count as having asked just now are quiet later than they were.
LEMMA AskedJustNow ==
  ASSUME IInv, NEW S, book'.claims = book.claims,
         \A j \in Ids : book'.waits[j] = IF j \in S \cap Waiting(book)
                                         THEN [book.waits[j] EXCEPT !.seen = KeepMs]
                                         ELSE book.waits[j]
  PROVE  \A t \in Due(book') : \E u \in Due(book) : u <= t
<1>1. book \in Book
  BY DEF IInv, TypeOK
<1>2. Due(book) \subseteq Int
  BY <1>1, DueInTime
<1>3. Standing(book') = Standing(book)
  BY DEF Standing
<1>4. ASSUME NEW j \in Waiting(book') PROVE \E u \in Due(book) : u <= book'.waits[j].seen
  <2>1. CASE j \in S \cap Waiting(book)
    <3>1. book.waits[j] \in Waiter
      BY <1>1, <2>1 DEF Book, Waiting
    <3>2. book.waits[j].seen \in 0..KeepMs
      BY <3>1 DEF Waiter
    <3>3. book'.waits[j].seen = KeepMs
      BY <2>1, <3>1 DEF Waiter, Waiting
    <3>4. book.waits[j].seen \in Due(book)
      BY <2>1 DEF Due
    <3> QED BY <3>2, <3>3, <3>4
  <2>2. CASE j \notin S \cap Waiting(book)
    <3>1. book'.waits[j] = book.waits[j] /\ j \in Waiting(book)
      BY <2>2 DEF Waiting
    <3>2. book'.waits[j].seen \in Due(book)
      BY <3>1 DEF Due
    <3> QED BY <1>2, <3>2
  <2> QED BY <2>1, <2>2
<1>5. ASSUME NEW i \in Standing(book') PROVE book'.claims[i].until \in Due(book)
  BY <1>3 DEF Due
<1>6. Never \in Due(book)
  BY DEF Due
<1> SUFFICES ASSUME NEW t \in Due(book') PROVE \E u \in Due(book) : u <= t
  OBVIOUS
<1>7. CASE t \in Due(book)
  BY <1>2, <1>7
<1> QED BY <1>4, <1>5, <1>6, <1>7 DEF Due

\* Deleting a line arms, or leaves the times of claims alone.
LEMMA DeleteArms ==
  ASSUME IInv, IInv', AlarmCovers, NEW a, NEW l, NEW claim \in Ids \cup {None}, DeleteLine(a, l, claim)
  PROVE  AlarmCovers'
<1> DEFINE claims == [i \in Ids |-> IF i \in On(book, l)
                                    THEN [book.claims[i] EXCEPT !.lines = @ \ {l}] ELSE book.claims[i]]
           less == [book EXCEPT !.claims = claims, !.claimOf = [book.claimOf EXCEPT ![l] = None]]
<1>1. CASE alarmAt' = Arm(book')
  BY <1>1, Armed
<1>2. CASE alarmAt' # Arm(book')
  <2>1. ~Renews(a, claim) /\ alarmAt' = alarmAt
    BY <1>2 DEF DeleteLine
  <2>2. Renewed(book, a, claim) = book
    BY <2>1 DEF Renewed
  <2>3. book' = less
    BY <1>2, <2>2 DEF DeleteLine
  <2>4. book \in Book /\ book' \in Book
    BY DEF IInv, TypeOK
  <2>5. book'.waits = book.waits /\ book'.claims = claims
    BY <2>3, <2>4 DEF Book
  <2>6. ASSUME NEW i \in Ids
        PROVE  /\ claims[i] = None <=> book.claims[i] = None
               /\ claims[i] # None => claims[i].until = book.claims[i].until
    <3>1. CASE i \in On(book, l)
      <4>1. claims[i] = [book.claims[i] EXCEPT !.lines = @ \ {l}]
        BY <3>1
      <4>2. book.claims[i] \in Claim
        BY <2>4, <3>1 DEF On, Standing, Book
      <4> HIDE DEF claims
      <4>3. claims[i] \in Claim /\ claims[i].until = book.claims[i].until
        BY <4>1, <4>2 DEF Claim
      <4> QED BY <4>2, <4>3, NoneIsNone
    <3>2. CASE i \notin On(book, l)
      BY <3>2
    <3> QED BY <3>1, <3>2
  <2> HIDE DEF claims
  <2>7. Standing(book') = Standing(book) /\ Waiting(book') = Waiting(book)
    BY <2>5, <2>6 DEF Standing, Waiting
  <2>8. Due(book') = Due(book)
    BY <2>5, <2>6, <2>7 DEF Due, Standing
  <2>9. Due(book) \subseteq Int
    BY <2>4, DueInTime
  <2> QED BY <2>1, <2>8, <2>9, PutOff
<1> QED BY <1>1, <1>2

\* Inserting a line arms, or leaves the times of claims alone.
LEMMA InsertArms ==
  ASSUME IInv, IInv', AlarmCovers, NEW a, NEW l, NEW claim \in Ids \cup {None}, InsertLine(a, l, claim)
  PROVE  AlarmCovers'
<1> DEFINE mine == IF l = None THEN {}
                   ELSE {i \in On(book, l) : book.claims[i].who = a /\ (a \in People \/ claim = i)}
           claims == [i \in Ids |-> IF i \in mine
                                    THEN [book.claims[i] EXCEPT !.lines = @ \cup {nextId}]
                                    ELSE book.claims[i]]
           more == [book EXCEPT !.claims = claims,
                                !.claimOf = [book.claimOf EXCEPT ![nextId] = Keeper(book, mine)]]
<1>1. CASE Renews(a, claim)
  BY <1>1, Armed DEF InsertLine
<1>2. CASE ~Renews(a, claim)
  <2>1. alarmAt' = alarmAt
    BY <1>2 DEF InsertLine
  <2>2. Renewed(book, a, claim) = book
    BY <1>2 DEF Renewed
  <2>3. book' = more
    BY <2>2 DEF InsertLine
  <2>4. book \in Book /\ book' \in Book
    BY DEF IInv, TypeOK
  <2>5. book'.waits = book.waits /\ book'.claims = claims
    BY <2>3, <2>4 DEF Book
  <2>6. mine \subseteq Standing(book)
    BY DEF On
  <2> HIDE DEF mine
  <2>7. ASSUME NEW i \in Ids
        PROVE  /\ claims[i] = None <=> book.claims[i] = None
               /\ claims[i] # None => claims[i].until = book.claims[i].until
    <3>1. CASE i \in mine
      <4>1. claims[i] = [book.claims[i] EXCEPT !.lines = @ \cup {nextId}]
        BY <3>1
      <4>2. book.claims[i] \in Claim
        BY <2>4, <2>6, <3>1 DEF Standing, Book
      <4> HIDE DEF claims
      <4>3. claims[i].until = book.claims[i].until
        BY <4>1, <4>2 DEF Claim
      <4>4. claims[i] # None
        <5>1. book'.claims[i] \in Claim \cup {None}
          BY <2>4 DEF Book
        <5>2. claims[i] = [who |-> book.claims[i].who, lines |-> book.claims[i].lines \cup {nextId},
                           soft |-> book.claims[i].soft, grant |-> book.claims[i].grant,
                           until |-> book.claims[i].until, cap |-> book.claims[i].cap]
          BY <4>1, <4>2 DEF Claim
        <5>3. nextId \in Line
          BY LineAssumption DEF IInv, TypeOK, InsertLine
        <5>4. claims[i] \in Claim
          BY <4>2, <5>2, <5>3 DEF Claim
        <5> QED BY <5>4, NoneIsNone
      <4> QED BY <4>2, <4>3, <4>4, NoneIsNone
    <3>2. CASE i \notin mine
      BY <3>2
    <3> QED BY <3>1, <3>2
  <2> HIDE DEF claims
  <2>8. Standing(book') = Standing(book) /\ Waiting(book') = Waiting(book)
    BY <2>5, <2>7 DEF Standing, Waiting
  <2>9. Due(book') = Due(book)
    BY <2>5, <2>7, <2>8 DEF Due, Standing
  <2>10. Due(book) \subseteq Int
    BY <2>4, DueInTime
  <2> QED BY <2>1, <2>9, <2>10, PutOff
<1> QED BY <1>1, <1>2

\* A tick brings the alarm nearer along with what it is set for.
LEMMA TickArms ==
  ASSUME IInv, AlarmCovers, Tick
  PROVE  AlarmCovers'
<1>1. book \in Book /\ alarmAt \in 0..Never /\ alarmAt' = Down(alarmAt)
  BY DEF IInv, TypeOK, Tick
<1>2. Due(book) \subseteq 0..Never
  BY <1>1, DueInTime
<1>3. ASSUME NEW t \in Due(book) PROVE Down(alarmAt) <= Down(t)
  <2>1. alarmAt <= t /\ t \in 0..Never
    BY <1>2 DEF AlarmCovers
  <2> QED BY <1>1, <2>1 DEF Down
\* What is due is what was due, a tick later.
<1>4. ASSUME NEW i \in Standing(book')
      PROVE  \E t \in Due(book) : book'.claims[i].until = Down(t)
  <2>1. book'.claims[i] = IF book.claims[i] = None THEN None
                          ELSE [book.claims[i] EXCEPT !.until = Down(@), !.cap = Down(@)]
    BY <1>1 DEF Tick, Book, Standing
  <2>2. book'.claims[i] # None /\ i \in Ids
    BY DEF Standing
  <2>3. i \in Standing(book) /\ book.claims[i] \in Claim
    BY <1>1, <2>1, <2>2 DEF Standing, Book
  <2>4. book'.claims[i].until = Down(book.claims[i].until)
    BY <2>1, <2>2, <2>3 DEF Claim
  <2> QED BY <2>3, <2>4 DEF Due
<1>5. ASSUME NEW i \in Waiting(book')
      PROVE  \E t \in Due(book) : book'.waits[i].seen = Down(t)
  <2>1. book'.waits[i] = IF book.waits[i] = None THEN None
                         ELSE [book.waits[i] EXCEPT !.seen = Down(@)]
    BY <1>1 DEF Tick, Book, Waiting
  <2>2. book'.waits[i] # None /\ i \in Ids
    BY DEF Waiting
  <2>3. i \in Waiting(book) /\ book.waits[i] \in Waiter
    BY <1>1, <2>1, <2>2 DEF Waiting, Book
  <2>4. book'.waits[i].seen = Down(book.waits[i].seen)
    BY <2>1, <2>2, <2>3 DEF Waiter
  <2> QED BY <2>3, <2>4 DEF Due
<1>6. Never \in Due(book) /\ Never = Down(Never)
  BY DEF Due, Down
<1>7. ASSUME NEW t \in Due(book') PROVE alarmAt' <= t
  <2>1. \E u \in Due(book) : t = Down(u)
    BY <1>4, <1>5, <1>6 DEF Due
  <2> QED BY <1>1, <1>3, <2>1
<1> QED BY <1>7 DEF AlarmCovers

\* Every step leaves the alarm set for what is due first, or earlier.
LEMMA AlarmKept == IInv /\ AlarmCovers /\ [Next]_vars => AlarmCovers'
<1> SUFFICES ASSUME IInv, AlarmCovers, [Next]_vars PROVE AlarmCovers'
  OBVIOUS
<1>1. IInv'
  BY NextIInv
<1>2. book \in Book
  BY DEF IInv, TypeOK
<1>3. ASSUME NEW a \in Actors, Ask(a) PROVE AlarmCovers'
  BY <1>1, <1>3, Armed DEF Ask, Lay, Wait
<1>4. ASSUME NEW a \in People, NEW i \in Ids, Extend(a, i) PROVE AlarmCovers'
  BY <1>1, <1>4, Armed DEF Extend
<1>5. ASSUME NEW a \in Actors \cup {None}, Edit(a) PROVE AlarmCovers'
  <2>1. PICK claim \in IF a = None THEN {None} ELSE IdsOf[a] \cup {None} :
          \/ \E l \in doc : SetLine(a, l, claim) \/ DeleteLine(a, l, claim)
          \/ \E l \in doc \cup {None} : InsertLine(a, l, claim)
    BY <1>5 DEF Edit
  <2>2. claim \in Ids \cup {None}
    BY IdsAssumption
  <2>3. ASSUME NEW l, SetLine(a, l, claim) PROVE AlarmCovers'
    BY <1>1, <2>3, Armed DEF SetLine
  <2> QED BY <1>1, <2>1, <2>2, <2>3, DeleteArms, InsertArms
<1>6. ASSUME NEW i \in Ids, PollEnd(i) PROVE AlarmCovers'
  <2>1. /\ book'.claims = book.claims /\ alarmAt' = alarmAt
        /\ \A j \in Ids : book'.waits[j] = IF j \in {i} \cap Waiting(book)
                                           THEN [book.waits[j] EXCEPT !.seen = KeepMs]
                                           ELSE book.waits[j]
    BY <1>2, <1>6 DEF PollEnd, Book
  <2>2. \A t \in Due(book') : \E u \in Due(book) : u <= t
    BY <2>1, AskedJustNow
  <2> QED BY <1>1, <2>1, <2>2, PutOff
<1>7. CASE Begin
  <2>1. /\ book'.claims = book.claims /\ alarmAt' = alarmAt
        /\ \A j \in Ids : book'.waits[j] = IF j \in book.polls \cap Waiting(book)
                                           THEN [book.waits[j] EXCEPT !.seen = KeepMs]
                                           ELSE book.waits[j]
    BY <1>2, <1>7 DEF Begin, Book
  <2>2. \A t \in Due(book') : \E u \in Due(book) : u <= t
    BY <2>1, AskedJustNow
  <2> QED BY <1>1, <2>1, <2>2, PutOff
<1>8. ASSUME NEW i \in Ids, Release(i) PROVE AlarmCovers'
  BY <1>1, <1>8, Armed DEF Release
<1>9. CASE Look \/ Alarm \/ Restart
  BY <1>1, <1>9, Armed DEF Look, Alarm, Restart
<1>10. CASE Warn \/ WarningOver \/ Cancel
  BY <1>10 DEF Warn, WarningOver, Cancel, AlarmCovers
<1>11. CASE Wipe
  <2>1. book' = EmptyBook /\ alarmAt' = Never
    BY <1>11 DEF Wipe
  <2>2. Due(book') = {Never}
    BY <2>1 DEF Due, EmptyBook, Standing, Waiting
  <2> QED BY <2>1, <2>2 DEF AlarmCovers
<1>12. CASE Tick
  BY <1>12, TickArms
<1>13. CASE UNCHANGED vars
  BY <1>13 DEF vars, AlarmCovers
<1> QED BY <1>3, <1>4, <1>5, <1>6, <1>7, <1>8, <1>9, <1>10, <1>11, <1>12, <1>13 DEF Next

\* Nothing lapses and nobody goes quiet unseen: the alarm is set no later than whatever is due
\* first, though edits, ends of asks and deploys don't set it anew.
THEOREM AlarmIsSet == Spec => []AlarmCovers
<1>1. Init => AlarmCovers
  BY DEF Init, AlarmCovers, EmptyBook, Due, Standing, Waiting
<1> QED BY <1>1, Invariant, AlarmKept, PTL DEF Spec
=============================================================================
