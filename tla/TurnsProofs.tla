------------------------------ MODULE TurnsProofs ------------------------------
(***************************************************************************)
(* More of LineClaims, on top of the sound books of LineClaimsProofs: how  *)
(* long leases last, in which order the line stands and moves up, and who  *)
(* gets no lines while resting or draining.                                *)
(*                                                                         *)
(* Again each handler is a chain of functions from Book to Book, and there *)
(* is a lemma per function: what it keeps of a Proper book, and of the     *)
(* line.                                                                   *)
(***************************************************************************)
EXTENDS LineClaimsProofs

\* A claim is under an id of its holder's, and ends with its cap: only a grant window that a restart
\* starts again goes past it.
ProperClaim(i, c) ==
  /\ i \in IdsOf[c.who]
  /\ c.who \in Agents => c.cap <= CapMs
  /\ c.until <= c.cap \/ ("restart" \in Happens /\ c.until <= GrantMs)

Proper(b) ==
  /\ \A i \in Standing(b) : ProperClaim(i, b.claims[i])
  /\ \A i \in Waiting(b) : i \in IdsOf[b.waits[i].who]

\* Who stays in line stays the same, and so does its place among those that stay.
Thins(b, c) ==
  /\ Waiting(c) \subseteq Waiting(b)
  /\ \A i \in Waiting(c) :
       /\ c.waits[i].who = b.waits[i].who
       /\ \A j \in Waiting(c) : /\ j \in c.waits[i].ahead <=> j \in b.waits[i].ahead
                                /\ j \in c.waits[i].prior <=> j \in b.waits[i].prior

\* The line is by rank, and among equals by who came first.
Ranks(b) ==
  \A i, j \in Waiting(b) :
    LET r == RankOf[b.waits[i].who]  q == RankOf[b.waits[j].who]
    IN  i \in b.waits[j].ahead <=> r > q \/ (r = q /\ i \in b.waits[j].prior)

LEMMA ThinsTwice ==
  ASSUME NEW b, NEW c, NEW e, Thins(b, c), Thins(c, e)
  PROVE  Thins(b, e)
BY DEF Thins

LEMMA ThinsRanks ==
  ASSUME NEW b, NEW c, Thins(b, c), Ranks(b)
  PROVE  Ranks(c)
BY DEF Thins, Ranks

\* What a claim and a waiter in a book are.
LEMMA InBook ==
  ASSUME NEW b \in Book
  PROVE  /\ \A i \in Standing(b) : i \in Ids /\ b.claims[i] \in Claim
         /\ \A i \in Waiting(b) : i \in Ids /\ b.waits[i] \in Waiter
         /\ \A i \in Ids : b.rests[i] # None => b.rests[i] \in Rest
         /\ \A l \in Line : b.claimOf[l] # None => b.claimOf[l] \in Ids
         /\ b.polls \subseteq Ids
BY DEF Book, Standing, Waiting

-----------------------------------------------------------------------------
(* The functions handlers are made of.                                     *)

\* Claims let go: nothing else about the line or other claims changes.
LEMMA LetGoIs ==
  ASSUME NEW b \in Book, NEW D \in SUBSET Standing(b)
  PROVE  LET c == LetGo(b, D)
         IN  /\ c.waits = b.waits /\ c.polls = b.polls
             /\ \A i \in Ids : c.claims[i] = IF i \in D THEN None ELSE b.claims[i]
             /\ \A l \in Line : c.claimOf[l] \in {None, b.claimOf[l]}
             /\ \A i \in Ids : c.rests[i] = IF i \in D /\ Tires(b.claims[i]) THEN RestOf(b.claims[i])
                                            ELSE b.rests[i]
             /\ Standing(c) = Standing(b) \ D
<1> DEFINE c == LetGo(b, D)
<1>1. /\ c.waits = b.waits /\ c.polls = b.polls
      /\ \A i \in Ids : c.claims[i] = IF i \in D THEN None ELSE b.claims[i]
      /\ \A l \in Line : c.claimOf[l] \in {None, b.claimOf[l]}
      /\ \A i \in Ids : c.rests[i] = IF i \in D /\ Tires(b.claims[i]) THEN RestOf(b.claims[i])
                                     ELSE b.rests[i]
  BY DEF LetGo, Book
<1> HIDE DEF c
<1>2. Standing(c) = Standing(b) \ D
  BY <1>1 DEF Standing
<1> QED BY <1>1, <1>2 DEF c

LEMMA LetGoKeeps ==
  ASSUME NEW b \in Book, NEW D \in SUBSET Standing(b)
  PROVE  Thins(b, LetGo(b, D)) /\ (Proper(b) => Proper(LetGo(b, D)))
<1> DEFINE c == LetGo(b, D)
<1>1. /\ c.waits = b.waits /\ Standing(c) = Standing(b) \ D
      /\ \A i \in Standing(c) : c.claims[i] = b.claims[i]
  BY LetGoIs DEF Standing
<1> HIDE DEF c
<1>2. Thins(b, c) /\ (Proper(b) => Proper(c))
  BY <1>1 DEF Thins, Proper, Waiting
<1> QED BY <1>2 DEF c

\* Places given up: nothing else about the others changes.
LEMMA LeaveIs ==
  ASSUME NEW b \in Book, NEW D
  PROVE  LET c == Leave(b, D)
         IN  /\ c.claims = b.claims /\ c.claimOf = b.claimOf /\ c.rests = b.rests
             /\ Waiting(c) = Waiting(b) \ D
             /\ c.polls = b.polls \ (D \cap Waiting(b))
             /\ \A i \in Waiting(c) : /\ c.waits[i].who = b.waits[i].who
                                      /\ c.waits[i].lines = b.waits[i].lines
                                      /\ c.waits[i].seen = b.waits[i].seen
                                      /\ c.waits[i].ahead = b.waits[i].ahead \ D
                                      /\ c.waits[i].prior = b.waits[i].prior \ D
<1> DEFINE c == Leave(b, D)
<1>1. /\ c.claims = b.claims /\ c.claimOf = b.claimOf /\ c.rests = b.rests
      /\ c.polls = b.polls \ (D \cap Waiting(b))
      /\ \A i \in Ids : c.waits[i] = IF i \in D \/ b.waits[i] = None THEN None
                                     ELSE [b.waits[i] EXCEPT !.ahead = @ \ D, !.prior = @ \ D]
  BY DEF Leave, Book
<1> HIDE DEF c
<1>2. ASSUME NEW i \in Waiting(b) \ D
      PROVE  /\ c.waits[i] # None
             /\ c.waits[i].who = b.waits[i].who /\ c.waits[i].lines = b.waits[i].lines
             /\ c.waits[i].seen = b.waits[i].seen
             /\ c.waits[i].ahead = b.waits[i].ahead \ D /\ c.waits[i].prior = b.waits[i].prior \ D
  <2>1. b.waits[i] \in Waiter /\ i \in Ids
    BY InBook
  <2>2. c.waits[i] = [b.waits[i] EXCEPT !.ahead = @ \ D, !.prior = @ \ D]
    BY <1>1 DEF Waiting
  <2>3. c.waits[i] \in Waiter
    BY <2>1, <2>2 DEF Waiter
  <2> QED BY <2>1, <2>2, <2>3, NoneIsNone DEF Waiter
<1>3. Waiting(c) = Waiting(b) \ D
  BY <1>1, <1>2 DEF Waiting
<1> QED BY <1>1, <1>2, <1>3 DEF c

LEMMA LeaveKeeps ==
  ASSUME NEW b \in Book, NEW D
  PROVE  Thins(b, Leave(b, D)) /\ (Proper(b) => Proper(Leave(b, D)))
<1> DEFINE c == Leave(b, D)
<1>1. /\ c.claims = b.claims /\ Waiting(c) = Waiting(b) \ D
      /\ \A i \in Waiting(c) : /\ c.waits[i].who = b.waits[i].who
                               /\ c.waits[i].ahead = b.waits[i].ahead \ D
                               /\ c.waits[i].prior = b.waits[i].prior \ D
  BY LeaveIs
<1> HIDE DEF c
<1>2. Thins(b, c) /\ (Proper(b) => Proper(c))
  BY <1>1 DEF Thins, Proper, Standing
<1> QED BY <1>2 DEF c

\* Those whose turn it is.
Go(b, d) == {i \in Ids : Turn(b, d, i)}

\* The line served: whoever's turn it is has a claim, the others wait on for lines that are there.
LEMMA MoveUpIs ==
  ASSUME NEW b \in Book, NEW d \in SUBSET Line
  PROVE  LET c == MoveUp(b, d)
         IN  /\ c.rests = b.rests
             /\ Go(b, d) \subseteq Waiting(b)
             /\ \A i \in Ids : c.claims[i] = IF i \in Go(b, d) THEN Granted(b, d, i) ELSE b.claims[i]
             /\ Standing(c) = Standing(b) \cup Go(b, d)
             /\ \A l \in Line : c.claimOf[l] = IF l \in d /\ \E i \in Go(b, d) : l \in b.waits[i].lines
                                               THEN CHOOSE i \in Go(b, d) : i \in {k \in Go(b, d) : l \in b.waits[k].lines}
                                               ELSE b.claimOf[l]
             /\ Waiting(c) = {i \in Waiting(b) : Stays(b, d, i)} \ Go(b, d)
             /\ c.polls = b.polls \ (Waiting(b) \ Waiting(c))
             /\ \A i \in Waiting(c) : /\ c.waits[i].who = b.waits[i].who
                                      /\ c.waits[i].lines = b.waits[i].lines \cap d
                                      /\ c.waits[i].seen = b.waits[i].seen
                                      /\ \A j \in Waiting(c) :
                                           /\ j \in c.waits[i].ahead <=> j \in b.waits[i].ahead
                                           /\ j \in c.waits[i].prior <=> j \in b.waits[i].prior
                                      /\ c.waits[i].ahead \subseteq b.waits[i].ahead
<1> DEFINE go == Go(b, d)
           left == {i \in Waiting(b) : ~Stays(b, d, i)} \cup go
           gone == Leave(b, left)
           c == MoveUp(b, d)
<1>1. /\ c.rests = gone.rests /\ c.polls = gone.polls
      /\ \A i \in Ids : c.claims[i] = IF i \in go THEN Granted(b, d, i) ELSE b.claims[i]
      /\ \A l \in Line : c.claimOf[l] = IF l \in d /\ {k \in go : l \in b.waits[k].lines} # {}
                                        THEN CHOOSE i \in go : i \in {k \in go : l \in b.waits[k].lines}
                                        ELSE b.claimOf[l]
      /\ \A i \in Ids : c.waits[i] = IF gone.waits[i] = None THEN None
                                     ELSE [gone.waits[i] EXCEPT !.lines = @ \cap d]
  <2>1. gone \in Book
    BY LeaveType
  <2> QED BY <2>1 DEF MoveUp, Book, Go
<1>2. gone \in Book
  BY LeaveType
<1>3. go \subseteq Waiting(b)
  BY DEF Go, Turn, Stays, Waiting
<1>4. /\ gone.rests = b.rests /\ Waiting(gone) = Waiting(b) \ left
      /\ gone.polls = b.polls \ (left \cap Waiting(b))
      /\ \A i \in Waiting(gone) : /\ gone.waits[i].who = b.waits[i].who
                                  /\ gone.waits[i].lines = b.waits[i].lines
                                  /\ gone.waits[i].seen = b.waits[i].seen
                                  /\ gone.waits[i].ahead = b.waits[i].ahead \ left
                                  /\ gone.waits[i].prior = b.waits[i].prior \ left
  BY LeaveIs
<1>5. \A i \in go : Granted(b, d, i) \in Claim
  BY <1>3, GrantedType
<1> HIDE DEF c, gone
<1>6. Standing(c) = Standing(b) \cup go
  BY <1>1, <1>3, <1>5, NoneIsNone DEF Standing, Waiting
<1>7. ASSUME NEW i \in Waiting(gone)
      PROVE  /\ c.waits[i] # None /\ c.waits[i].who = gone.waits[i].who
             /\ c.waits[i].lines = gone.waits[i].lines \cap d /\ c.waits[i].seen = gone.waits[i].seen
             /\ c.waits[i].ahead = gone.waits[i].ahead /\ c.waits[i].prior = gone.waits[i].prior
  <2>1. i \in Ids /\ gone.waits[i] \in Waiter
    BY <1>2, InBook
  <2>2. c.waits[i] = [gone.waits[i] EXCEPT !.lines = @ \cap d]
    BY <1>1 DEF Waiting
  <2>3. c.waits[i] \in Waiter
    BY <2>1, <2>2 DEF Waiter
  <2> QED BY <2>1, <2>2, <2>3, NoneIsNone DEF Waiter
<1>8. Waiting(c) = Waiting(gone)
  BY <1>1, <1>7 DEF Waiting
<1>9. Waiting(c) = {i \in Waiting(b) : Stays(b, d, i)} \ go
  BY <1>4, <1>8
<1>10. c.polls = b.polls \ (Waiting(b) \ Waiting(c))
  BY <1>1, <1>3, <1>4, <1>8
<1>11. \A l \in Line : c.claimOf[l] = IF l \in d /\ \E i \in go : l \in b.waits[i].lines
                                      THEN CHOOSE i \in go : i \in {k \in go : l \in b.waits[k].lines}
                                      ELSE b.claimOf[l]
  BY <1>1
<1>12. \A i \in Waiting(c) : /\ c.waits[i].who = b.waits[i].who
                             /\ c.waits[i].lines = b.waits[i].lines \cap d
                             /\ c.waits[i].seen = b.waits[i].seen
                             /\ \A j \in Waiting(c) : /\ j \in c.waits[i].ahead <=> j \in b.waits[i].ahead
                                                      /\ j \in c.waits[i].prior <=> j \in b.waits[i].prior
                             /\ c.waits[i].ahead \subseteq b.waits[i].ahead
  BY <1>4, <1>7, <1>8
<1> QED BY <1>1, <1>3, <1>4, <1>6, <1>9, <1>10, <1>11, <1>12 DEF c

LEMMA MoveUpKeeps ==
  ASSUME NEW b \in Book, NEW d \in SUBSET Line
  PROVE  Thins(b, MoveUp(b, d)) /\ (Proper(b) => Proper(MoveUp(b, d)))
<1> DEFINE c == MoveUp(b, d)
<1>1. /\ Go(b, d) \subseteq Waiting(b) /\ Waiting(b) \subseteq Ids
      /\ \A i \in Ids : c.claims[i] = IF i \in Go(b, d) THEN Granted(b, d, i) ELSE b.claims[i]
      /\ Standing(c) = Standing(b) \cup Go(b, d) /\ Standing(c) \subseteq Ids
      /\ Waiting(c) \subseteq Waiting(b)
      /\ \A i \in Waiting(c) : /\ c.waits[i].who = b.waits[i].who
                               /\ \A j \in Waiting(c) : /\ j \in c.waits[i].ahead <=> j \in b.waits[i].ahead
                                                        /\ j \in c.waits[i].prior <=> j \in b.waits[i].prior
  BY MoveUpIs DEF Standing, Waiting
<1>2. ASSUME NEW i \in Go(b, d), Proper(b) PROVE ProperClaim(i, Granted(b, d, i))
  <2> DEFINE g == Granted(b, d, i)
  <2>1. g.who = b.waits[i].who /\ g.cap = (IF g.who \in Agents THEN CapMs ELSE Never)
    BY DEF Granted
  <2>2. g.until = GrantMs \/ g.until = DefaultTtl(g.who)
    BY DEF Granted
  <2>3. i \in IdsOf[g.who]
    BY <1>1, <1>2, <2>1 DEF Proper
  <2> HIDE DEF g
  <2>4. GrantMs \in Nat /\ LeaseMs \in Nat /\ CapMs \in Nat /\ GrantMs <= LeaseMs /\ LeaseMs < CapMs
    BY TimeAssumption
  <2>5. ASSUME NEW who, NEW until, NEW cap, cap = (IF who \in Agents THEN CapMs ELSE Never),
               until = GrantMs \/ until = DefaultTtl(who)
        PROVE  until <= cap /\ (who \in Agents => cap <= CapMs)
    BY <2>4, <2>5 DEF DefaultTtl, Never
  <2>6. g.until <= g.cap /\ (g.who \in Agents => g.cap <= CapMs)
    BY <2>1, <2>2, <2>5
  <2>7. ProperClaim(i, g)
    BY <2>3, <2>6 DEF ProperClaim
  <2> QED BY <2>7 DEF g
<1> HIDE DEF c
<1>3. Thins(b, c)
  BY <1>1 DEF Thins
<1>4. ASSUME Proper(b) PROVE Proper(c)
  <2>1. ASSUME NEW i \in Standing(c) PROVE ProperClaim(i, c.claims[i])
    <3>1. CASE i \in Go(b, d)
      BY <1>1, <1>2, <1>4, <3>1
    <3>2. CASE i \notin Go(b, d)
      BY <1>1, <1>4, <3>2 DEF Proper
    <3> QED BY <3>1, <3>2
  <2> QED BY <1>1, <1>4, <2>1 DEF Proper
<1> QED BY <1>3, <1>4 DEF c

\* The same of serve, and of the serving that live() leaves for later.
LEMMA ThinsSame == ASSUME NEW b PROVE Thins(b, b)
BY DEF Thins

LEMMA ServeKeeps ==
  ASSUME NEW b \in Book, NEW d \in SUBSET Line
  PROVE  /\ Thins(b, Serve(b, d)) /\ (Proper(b) => Proper(Serve(b, d)))
         /\ Thins(b, Deferred(b, d)) /\ (Proper(b) => Proper(Deferred(b, d)))
BY MoveUpKeeps, ThinsSame DEF Serve, Deferred

LEMMA LiveKeeps ==
  ASSUME NEW b \in Book
  PROVE  Thins(b, Live(b)) /\ (Proper(b) => Proper(Live(b)))
<1>1. Lapsed(b) \in SUBSET Standing(b)
  BY DEF Lapsed
<1> QED BY <1>1, LetGoKeeps DEF Live

\* The claim that is laid.
NewClaim(b, a, i, want, soft, ttl) ==
  LET cap == CapOf(a, b.claims[i])
  IN  [who |-> a, lines |-> want, soft |-> soft, grant |-> FALSE, until |-> AtMost(ttl, cap), cap |-> cap]

\* c is b with a claim laid: its holder's place in line goes, the others' claims and places don't change.
Lays(b, c, i, claim) ==
  /\ c.rests = b.rests
  /\ c.claims[i] = claim
  /\ \A k \in Ids : k # i => c.claims[k] = b.claims[k]
  /\ \A l \in Line : c.claimOf[l] = IF KeepsOff(claim, l) THEN i
                                    ELSE IF b.claims[i] # None /\ l \in b.claims[i].lines /\ b.claimOf[l] = i
                                         THEN None ELSE b.claimOf[l]
  /\ Standing(c) = Standing(b) \cup {i}
  /\ Waiting(c) = Waiting(b) \ {i}
  /\ c.polls = b.polls \ ({i} \cap Waiting(b))
  /\ \A k \in Waiting(c) : /\ c.waits[k].who = b.waits[k].who
                           /\ c.waits[k].lines = b.waits[k].lines
                           /\ c.waits[k].seen = b.waits[k].seen
                           /\ c.waits[k].ahead = b.waits[k].ahead \ {i}
                           /\ c.waits[k].prior = b.waits[k].prior \ {i}

LEMMA LaidIs ==
  ASSUME NEW b \in Book, NEW a \in Actors, NEW i \in Ids, NEW want \in SUBSET Line,
         NEW soft \in BOOLEAN, NEW ttl \in 0..Never
  PROVE  Lays(b, Laid(b, a, i, want, soft, ttl), i, NewClaim(b, a, i, want, soft, ttl))
<1> DEFINE cap == CapOf(a, b.claims[i])
           claim == NewClaim(b, a, i, want, soft, ttl)
           put == Index(Off(b, i), i, claim)
           c == Laid(b, a, i, want, soft, ttl)
<1>1. c = Leave(put, {i})
  BY DEF Laid, NewClaim
<1>2. /\ put.rests = b.rests /\ put.waits = b.waits /\ put.polls = b.polls
      /\ put.claims = [b.claims EXCEPT ![i] = claim]
      /\ \A l \in Line : put.claimOf[l] = IF KeepsOff(claim, l) THEN i
                                          ELSE IF b.claims[i] # None /\ l \in b.claims[i].lines /\ b.claimOf[l] = i
                                               THEN None ELSE b.claimOf[l]
  BY DEF Index, Off, Book
<1>4. cap \in 0..Never
  <2>1. b.claims[i] # None => b.claims[i].cap \in 0..Never
    BY DEF Book, Claim
  <2>2. CapMs \in Nat
    BY TimeAssumption
  <2> QED BY <2>1, <2>2 DEF CapOf, Never
<1>5. claim \in Claim
  <2>1. AtMost(ttl, cap) \in 0..Never
    BY <1>4 DEF AtMost, Min2
  <2> QED BY <1>4, <2>1 DEF Claim, NewClaim
<1>6. put \in Book
  <2>1. Off(b, i) \in Book
    BY DEF Off, Book
  <2>2. ASSUME NEW e \in Book, NEW k \in Claim PROVE Index(e, i, k) \in Book
    BY <2>2 DEF Index, Book
  <2> QED BY <1>5, <2>1, <2>2
<1>8. claim # None
  BY <1>5, NoneIsNone
<1> HIDE DEF put, claim, c
<1>9. /\ c.claims = put.claims /\ c.claimOf = put.claimOf /\ c.rests = put.rests
      /\ Waiting(c) = Waiting(put) \ {i}
      /\ c.polls = put.polls \ ({i} \cap Waiting(put))
      /\ \A k \in Waiting(c) : /\ c.waits[k].who = put.waits[k].who
                               /\ c.waits[k].lines = put.waits[k].lines
                               /\ c.waits[k].seen = put.waits[k].seen
                               /\ c.waits[k].ahead = put.waits[k].ahead \ {i}
                               /\ c.waits[k].prior = put.waits[k].prior \ {i}
  BY <1>1, <1>6, LeaveIs
<1>10. Waiting(put) = Waiting(b)
  BY <1>2 DEF Waiting
<1>11. Standing(c) = Standing(b) \cup {i}
  BY <1>2, <1>8, <1>9 DEF Standing, Book
<1>12. c.claims[i] = claim /\ \A k \in Ids : k # i => c.claims[k] = b.claims[k]
  BY <1>2, <1>9 DEF Book
<1>13. Lays(b, c, i, claim)
  BY <1>2, <1>9, <1>10, <1>11, <1>12 DEF Lays
<1> QED BY <1>13 DEF claim, c

LEMMA LaidKeeps ==
  ASSUME NEW b \in Book, NEW a \in Actors, NEW i \in IdsOf[a], NEW want \in SUBSET Line,
         NEW soft \in BOOLEAN, NEW ttl \in 0..Never, b.claims[i] # None => b.claims[i].who = a
  PROVE  /\ Thins(b, Laid(b, a, i, want, soft, ttl))
         /\ Proper(b) => Proper(Laid(b, a, i, want, soft, ttl))
<1> DEFINE cap == CapOf(a, b.claims[i])
           claim == NewClaim(b, a, i, want, soft, ttl)
           c == Laid(b, a, i, want, soft, ttl)
<1>1. i \in Ids
  BY IdsAssumption
<1>2. /\ c.claims[i] = claim /\ \A k \in Ids : k # i => c.claims[k] = b.claims[k]
      /\ Standing(c) = Standing(b) \cup {i}
      /\ Waiting(c) = Waiting(b) \ {i}
      /\ \A k \in Waiting(c) : /\ c.waits[k].who = b.waits[k].who
                               /\ c.waits[k].ahead = b.waits[k].ahead \ {i}
                               /\ c.waits[k].prior = b.waits[k].prior \ {i}
  <2>1. Lays(b, c, i, claim)
    BY <1>1, LaidIs
  <2> HIDE DEF c, claim
  <2> QED BY <2>1 DEF Lays
<1> HIDE DEF c
<1>3. Thins(b, c)
  BY <1>2 DEF Thins
<1>4. ASSUME Proper(b) PROVE Proper(c)
  <2>1. cap \in 0..Never /\ CapMs \in Nat /\ (a \in Agents => cap <= CapMs)
    <3>1. b.claims[i] # None => b.claims[i].cap \in 0..Never
      BY <1>1 DEF Book, Claim
    <3>2. b.claims[i] # None /\ a \in Agents => b.claims[i].cap <= CapMs
      BY <1>1, <1>4 DEF Proper, ProperClaim, Standing
    <3>3. CapMs \in Nat /\ (a \in Agents => a \notin People)
      BY TimeAssumption, PeopleAgents
    <3> QED BY <3>1, <3>2, <3>3 DEF CapOf, Never
  <2>2. AtMost(ttl, cap) <= cap
    BY <2>1 DEF AtMost, Min2
  <2>3. ProperClaim(i, claim)
    BY <2>1, <2>2 DEF ProperClaim, NewClaim
  <2>4. \A k \in Standing(c) : c.claims[k] = IF k = i THEN claim ELSE b.claims[k]
    BY <1>2 DEF Standing, Book
  <2> HIDE DEF claim
  <2>5. ASSUME NEW k \in Standing(c) PROVE ProperClaim(k, c.claims[k])
    BY <1>2, <1>4, <2>3, <2>4 DEF Proper
  <2>6. \A k \in Waiting(c) : k \in IdsOf[c.waits[k].who]
    BY <1>2, <1>4 DEF Proper
  <2> QED BY <2>5, <2>6 DEF Proper
<1> QED BY <1>3, <1>4 DEF c

\* Waiters that are in line before and after stand the same way round.
Steady(b, c) ==
  \A i, j \in Waiting(b) \cap Waiting(c) :
    /\ c.waits[i].who = b.waits[i].who
    /\ j \in c.waits[i].ahead <=> j \in b.waits[i].ahead

LEMMA ThinsSteady == ASSUME NEW b, NEW c, Thins(b, c) PROVE Steady(b, c)
BY DEF Thins, Steady

LEMMA SteadyThins ==
  ASSUME NEW b, NEW c, NEW e, Steady(b, c), Thins(c, e)
  PROVE  Steady(b, e)
BY DEF Thins, Steady

\* A place taken: behind whoever isn't of a lower rank, before those that are or that come after one.
LEMMA JoinedIs ==
  ASSUME NEW b \in Book, NEW a \in Actors, NEW i \in Ids \ Waiting(b), NEW want \in SUBSET Line
  PROVE  LET c == Joined(b, a, i, want)
             lower == Lower(b, a)
             behind == {k \in Waiting(b) : k \in lower \/ lower \cap b.waits[k].ahead # {}}
         IN  /\ c.claims = b.claims /\ c.claimOf = b.claimOf /\ c.rests = b.rests /\ c.polls = b.polls
             /\ Waiting(c) = Waiting(b) \cup {i}
             /\ c.waits[i].who = a /\ c.waits[i].lines = want /\ c.waits[i].seen = KeepMs
             /\ c.waits[i].ahead = Waiting(b) \ behind /\ c.waits[i].prior = Waiting(b)
             /\ \A k \in Waiting(b) :
                  /\ c.waits[k].who = b.waits[k].who /\ c.waits[k].lines = b.waits[k].lines
                  /\ c.waits[k].seen = b.waits[k].seen /\ c.waits[k].prior = b.waits[k].prior
                  /\ c.waits[k].ahead = IF k \in behind THEN b.waits[k].ahead \cup {i} ELSE b.waits[k].ahead
<1> DEFINE c == Joined(b, a, i, want)
           lower == Lower(b, a)
           behind == {k \in Waiting(b) : k \in lower \/ lower \cap b.waits[k].ahead # {}}
           w == [who |-> a, lines |-> want, seen |-> KeepMs,
                 ahead |-> Waiting(b) \ behind, prior |-> Waiting(b)]
<1>1. /\ c.claims = b.claims /\ c.claimOf = b.claimOf /\ c.rests = b.rests /\ c.polls = b.polls
      /\ \A j \in Ids : c.waits[j] = IF j = i THEN w
                                     ELSE IF j \in behind THEN [b.waits[j] EXCEPT !.ahead = @ \cup {i}]
                                     ELSE b.waits[j]
  BY DEF Joined, Book
<1>2. w \in Waiter
  <2>1. KeepMs \in 0..KeepMs
    BY TimeAssumption
  <2> QED BY <2>1 DEF Waiter, Waiting
<1>3. c.waits[i] = w /\ w # None
  BY <1>1, <1>2, NoneIsNone
<1>4. behind \subseteq Waiting(b)
  OBVIOUS
<1> HIDE DEF c, behind
<1>5. ASSUME NEW k \in Waiting(b)
      PROVE  /\ c.waits[k] # None
             /\ c.waits[k].who = b.waits[k].who /\ c.waits[k].lines = b.waits[k].lines
             /\ c.waits[k].seen = b.waits[k].seen /\ c.waits[k].prior = b.waits[k].prior
             /\ c.waits[k].ahead = IF k \in behind THEN b.waits[k].ahead \cup {i} ELSE b.waits[k].ahead
  <2>1. k \in Ids /\ k # i /\ b.waits[k] \in Waiter /\ b.waits[k] # None
    BY InBook DEF Waiting
  <2>2. CASE k \in behind
    <3>1. c.waits[k] = [b.waits[k] EXCEPT !.ahead = @ \cup {i}]
      BY <1>1, <2>1, <2>2
    <3>2. c.waits[k] \in Waiter
      BY <2>1, <3>1 DEF Waiter
    <3> QED BY <2>1, <2>2, <3>1, <3>2, NoneIsNone DEF Waiter
  <2>3. CASE k \notin behind
    BY <1>1, <2>1, <2>3
  <2> QED BY <2>2, <2>3
<1>6. Waiting(c) = Waiting(b) \cup {i}
  <2>1. \A j \in Waiting(c) : j \in Waiting(b) \cup {i}
    BY <1>1, <1>4 DEF Waiting
  <2>2. i \in Waiting(c) /\ Waiting(b) \subseteq Waiting(c)
    BY <1>3, <1>5 DEF Waiting
  <2> QED BY <2>1, <2>2
<1> QED BY <1>1, <1>3, <1>5, <1>6 DEF c, behind

\* Who waited before waits on for the same.
LEMMA JoinedLeaves ==
  ASSUME NEW b \in Book, NEW a \in Actors, NEW i \in Ids \ Waiting(b), NEW want \in SUBSET Line
  PROVE  LET c == Joined(b, a, i, want)
         IN  \A k \in Waiting(b) : c.waits[k].who = b.waits[k].who /\ c.waits[k].lines = b.waits[k].lines
<1> DEFINE c == Joined(b, a, i, want)
           lower == Lower(b, a)
           behind == {k \in Waiting(b) : k \in lower \/ lower \cap b.waits[k].ahead # {}}
<1>1. /\ Waiting(c) = Waiting(b) \cup {i}
      /\ \A k \in Waiting(b) :
           /\ c.waits[k].who = b.waits[k].who /\ c.waits[k].lines = b.waits[k].lines
           /\ c.waits[k].ahead = IF k \in behind THEN b.waits[k].ahead \cup {i} ELSE b.waits[k].ahead
  BY JoinedIs
<1> QED BY <1>1

\* Asking again changes what one waits for, and when one asked.
LEMMA AskedAgain ==
  ASSUME NEW b \in Book, NEW a \in Actors, NEW i \in Waiting(b), NEW want \in SUBSET Line
  PROVE  LET c == InLine(b, a, i, want)
         IN  /\ c.claims = b.claims /\ c.claimOf = b.claimOf /\ c.rests = b.rests /\ c.polls = b.polls
             /\ Waiting(c) = Waiting(b)
             /\ c.waits[i].lines = want /\ c.waits[i].seen = KeepMs
             /\ \A k \in Waiting(b) :
                  /\ c.waits[k].who = b.waits[k].who
                  /\ c.waits[k].ahead = b.waits[k].ahead /\ c.waits[k].prior = b.waits[k].prior
                  /\ k # i => c.waits[k] = b.waits[k]
<1> DEFINE c == InLine(b, a, i, want)
           w == [b.waits[i] EXCEPT !.seen = KeepMs, !.lines = want]
<1>1. i \in Ids /\ b.waits[i] \in Waiter /\ b.waits[i] # None
  BY InBook DEF Waiting
<1>2. /\ c.claims = b.claims /\ c.claimOf = b.claimOf /\ c.rests = b.rests /\ c.polls = b.polls
      /\ \A j \in Ids : c.waits[j] = IF j = i THEN w ELSE b.waits[j]
  BY <1>1 DEF InLine, Book
<1>3. w \in Waiter /\ w # None /\ w.lines = want /\ w.seen = KeepMs /\ w.who = b.waits[i].who
      /\ w.ahead = b.waits[i].ahead /\ w.prior = b.waits[i].prior
  <2>1. KeepMs \in 0..KeepMs
    BY TimeAssumption
  <2>2. w \in Waiter
    BY <1>1, <2>1 DEF Waiter
  <2> QED BY <1>1, <2>2, NoneIsNone DEF Waiter
<1> HIDE DEF c, w
<1>4. Waiting(c) = Waiting(b)
  BY <1>1, <1>2, <1>3 DEF Waiting
<1>5. \A k \in Waiting(b) : /\ c.waits[k].who = b.waits[k].who
                            /\ c.waits[k].ahead = b.waits[k].ahead /\ c.waits[k].prior = b.waits[k].prior
                            /\ k # i => c.waits[k] = b.waits[k]
  BY <1>2, <1>3 DEF Waiting
<1> QED BY <1>1, <1>2, <1>3, <1>4, <1>5 DEF c

LEMMA InLineKeeps ==
  ASSUME NEW b \in Book, NEW a \in Actors, NEW i \in IdsOf[a], NEW want \in SUBSET Line, Orderly(b)
  PROVE  LET c == InLine(b, a, i, want)
         IN  /\ Steady(b, c)
             /\ Proper(b) => Proper(c)
             /\ Ranks(b) => Ranks(c)
<1> DEFINE c == InLine(b, a, i, want)
<1>1. i \in Ids
  BY IdsAssumption
<1>2. CASE i \in Waiting(b)
  <2>1. /\ c.claims = b.claims /\ Waiting(c) = Waiting(b)
        /\ \A k \in Waiting(b) : /\ c.waits[k].who = b.waits[k].who
                                 /\ c.waits[k].ahead = b.waits[k].ahead /\ c.waits[k].prior = b.waits[k].prior
    BY <1>2, AskedAgain
  <2> HIDE DEF c
  <2>2. Steady(b, c) /\ (Proper(b) => Proper(c)) /\ (Ranks(b) => Ranks(c))
    BY <2>1 DEF Steady, Proper, Ranks, Standing
  <2> QED BY <2>2 DEF c
<1>3. CASE i \notin Waiting(b)
  <2> DEFINE lower == Lower(b, a)
             behind == {k \in Waiting(b) : k \in lower \/ lower \cap b.waits[k].ahead # {}}
  <2>1. c = Joined(b, a, i, want) /\ i \in Ids \ Waiting(b)
    BY <1>1, <1>3 DEF InLine, Waiting
  <2>2. /\ c.claims = b.claims
        /\ Waiting(c) = Waiting(b) \cup {i}
        /\ c.waits[i].who = a
        /\ c.waits[i].ahead = Waiting(b) \ behind /\ c.waits[i].prior = Waiting(b)
        /\ \A k \in Waiting(b) :
             /\ c.waits[k].who = b.waits[k].who /\ c.waits[k].prior = b.waits[k].prior
             /\ c.waits[k].ahead = IF k \in behind THEN b.waits[k].ahead \cup {i} ELSE b.waits[k].ahead
    BY <2>1, JoinedIs
  <2> HIDE DEF c, behind
  <2>3. Steady(b, c)
    BY <1>3, <2>2 DEF Steady
  <2>4. Proper(b) => Proper(c)
    BY <2>2 DEF Proper, Standing
  <2>5. ASSUME Ranks(b) PROVE Ranks(c)
    <3>1. \A k \in Waiting(b) : /\ RankOf[b.waits[k].who] \in Nat
                                /\ b.waits[k].ahead \subseteq Waiting(b) /\ b.waits[k].prior \subseteq Waiting(b)
      <4>1. \A k \in Waiting(b) : k \in Ids /\ b.waits[k] \in Waiter
        BY InBook
      <4>2. \A k \in Waiting(b) : RankOf[b.waits[k].who] \in Nat
        BY <4>1, RankAssumption DEF Waiter
      <4>3. \A k \in Waiting(b) : b.waits[k].ahead \subseteq Waiting(b) /\ b.waits[k].prior \subseteq Waiting(b)
        BY <4>1 DEF Orderly, Linear, AheadOf, PriorTo
      <4> QED BY <4>2, <4>3
    <3>2. RankOf[a] \in Nat
      BY RankAssumption
    <3>3. behind = lower
      <4>1. ASSUME NEW k \in Waiting(b), NEW j \in lower \cap b.waits[k].ahead PROVE k \in lower
        <5>1. j \in Waiting(b) /\ RankOf[b.waits[j].who] < RankOf[a]
          BY <4>1 DEF Lower
        <5>2. RankOf[b.waits[j].who] >= RankOf[b.waits[k].who]
          BY <2>5, <3>1, <4>1, <5>1 DEF Ranks
        <5> QED BY <3>1, <3>2, <5>1, <5>2 DEF Lower
      <4> QED BY <4>1 DEF behind, Lower
    <3>4. ASSUME NEW k \in Waiting(c), NEW j \in Waiting(c)
          PROVE  LET r == RankOf[c.waits[k].who]  q == RankOf[c.waits[j].who]
                 IN  k \in c.waits[j].ahead <=> r > q \/ (r = q /\ k \in c.waits[j].prior)
      <4>1. CASE k = i /\ j = i
        BY <1>3, <2>2, <3>2, <4>1
      <4>2. CASE k = i /\ j # i
        <5>1. j \in Waiting(b) /\ i \notin b.waits[j].ahead /\ i \notin b.waits[j].prior
          BY <1>3, <2>2, <3>1, <4>2
        <5>2. k \in c.waits[j].ahead <=> j \in lower
          BY <2>2, <3>3, <4>2, <5>1
        <5>3. j \in lower <=> RankOf[b.waits[j].who] < RankOf[a]
          BY <5>1 DEF Lower
        <5> QED BY <2>2, <3>1, <3>2, <4>2, <5>1, <5>2, <5>3
      <4>3. CASE k # i /\ j = i
        <5>1. k \in Waiting(b)
          BY <2>2, <4>3
        <5>2. k \in c.waits[j].ahead <=> k \notin lower
          BY <2>2, <3>3, <4>3, <5>1
        <5>3. k \in lower <=> RankOf[b.waits[k].who] < RankOf[a]
          BY <5>1 DEF Lower
        <5>4. /\ c.waits[k].who = b.waits[k].who /\ c.waits[j].who = a /\ k \in c.waits[j].prior
              /\ RankOf[b.waits[k].who] \in Nat
          BY <2>2, <3>1, <4>3, <5>1
        <5> QED BY <3>2, <5>2, <5>3, <5>4
      <4>4. CASE k # i /\ j # i
        <5>1. k \in Waiting(b) /\ j \in Waiting(b)
          BY <2>2, <4>4
        <5>2. k \in c.waits[j].ahead <=> k \in b.waits[j].ahead
          <6>1. CASE j \in behind
            BY <2>2, <4>4, <5>1, <6>1
          <6>2. CASE j \notin behind
            BY <2>2, <4>4, <5>1, <6>2
          <6> QED BY <6>1, <6>2
        <5>3. /\ c.waits[k].who = b.waits[k].who /\ c.waits[j].who = b.waits[j].who
              /\ c.waits[j].prior = b.waits[j].prior
          BY <2>2, <5>1
        <5> QED BY <2>5, <5>1, <5>2, <5>3 DEF Ranks
      <4> QED BY <4>1, <4>2, <4>3, <4>4
    <3> QED BY <3>4 DEF Ranks
  <2> QED BY <2>3, <2>4, <2>5 DEF c
<1> QED BY <1>2, <1>3

-----------------------------------------------------------------------------
(* What each handler keeps: the way round waiters stand, Proper and Ranks. *)

Keeps(b, c) == Steady(b, c) /\ (Proper(b) => Proper(c)) /\ (Ranks(b) => Ranks(c))

LEMMA ThinsKeeps ==
  ASSUME NEW b, NEW c, Thins(b, c), Proper(b) => Proper(c)
  PROVE  Keeps(b, c)
BY ThinsSteady, ThinsRanks DEF Keeps

LEMMA KeepsThins ==
  ASSUME NEW b, NEW c, NEW e, Keeps(b, c), Thins(c, e), Proper(c) => Proper(e)
  PROVE  Keeps(b, e)
BY SteadyThins, ThinsRanks DEF Keeps

\* The line as it was, and claims of the same holders within their caps.
LEMMA SameHolders ==
  ASSUME NEW b, NEW c, Waiting(c) = Waiting(b), Standing(c) \subseteq Standing(b),
         \A i \in Waiting(b) : /\ c.waits[i].who = b.waits[i].who
                               /\ c.waits[i].ahead = b.waits[i].ahead /\ c.waits[i].prior = b.waits[i].prior,
         Proper(b) => \A i \in Standing(c) : ProperClaim(i, c.claims[i])
  PROVE  Thins(b, c) /\ (Proper(b) => Proper(c))
BY DEF Thins, Proper

LEMMA SameLineKeeps ==
  ASSUME NEW b, NEW c, NEW e, c.waits = b.waits, Proper(b) => Proper(c), Keeps(c, e)
  PROVE  Keeps(b, e)
BY DEF Keeps, Steady, Ranks, Waiting

LEMMA LayKeeps ==
  ASSUME IInv, NEW a \in Actors, NEW i \in IdsOf[a], NEW want \in SUBSET doc, NEW soft \in BOOLEAN,
         NEW ttl \in 0..Never, Lay(a, i, want, soft, ttl)
  PROVE  Keeps(book, book')
<1> DEFINE b == Live(book)
           laid == Laid(b, a, i, want, soft, ttl)
<1>1. book \in Book /\ doc \in SUBSET Line /\ want \in SUBSET Line /\ i \in Ids /\ want # {}
  BY IdsAssumption DEF IInv, TypeOK, Lay, MayLay, Heard
<1>2. b \in Book /\ Thins(book, b) /\ (Proper(book) => Proper(b))
  BY <1>1, LiveOK, LiveKeeps
<1>3. b.claims[i] # None => b.claims[i].who = a
  BY DEF Lay, MayLay, Heard
<1>4. book' = Serve(laid, doc) \/ book' = Deferred(laid, doc)
  BY DEF Lay
<1>5. laid \in Book
  BY <1>1, <1>2, LaidOK
<1> HIDE DEF b
<1>6. Thins(b, laid) /\ (Proper(b) => Proper(laid))
  BY <1>1, <1>2, <1>3, LaidKeeps
<1> HIDE DEF laid
<1>7. Thins(laid, book') /\ (Proper(laid) => Proper(book'))
  BY <1>1, <1>4, <1>5, ServeKeeps
<1>8. Thins(book, book')
  BY <1>2, <1>6, <1>7, ThinsTwice
<1> QED BY <1>2, <1>6, <1>7, <1>8, ThinsKeeps

\* An ask held open changes nobody's place.
LEMMA OpenKeeps ==
  ASSUME NEW b \in Book, NEW P \in SUBSET Ids
  PROVE  LET c == [b EXCEPT !.polls = P]
         IN  c \in Book /\ Thins(b, c) /\ (Proper(b) => Proper(c))
<1> DEFINE c == [b EXCEPT !.polls = P]
<1>1. c \in Book /\ c.claims = b.claims /\ c.waits = b.waits
  BY DEF Book
<1> HIDE DEF c
<1>2. Thins(b, c) /\ (Proper(b) => Proper(c))
  BY <1>1 DEF Thins, Proper, Standing, Waiting
<1> QED BY <1>1, <1>2 DEF c

LEMMA WaitKeeps ==
  ASSUME IInv, NEW a \in Actors, NEW i \in IdsOf[a], NEW want \in SUBSET doc, NEW hold \in BOOLEAN,
         NEW late \in BOOLEAN, Wait(a, i, want, hold, late)
  PROVE  Keeps(book, book')
<1> DEFINE b == Live(book)
           line == InLine(b, a, i, want)
           open == IF hold THEN [line EXCEPT !.polls = line.polls \cup {i}] ELSE line
           served == Deferred(line, doc)
<1>1. book \in Book /\ doc \in SUBSET Line /\ want \in SUBSET Line /\ i \in Ids /\ Sound(book, doc)
  BY IdsAssumption DEF IInv, TypeOK
<1>2. b \in Book /\ Orderly(b) /\ b.waits = book.waits /\ (Proper(book) => Proper(b))
  <2>1. Lapsed(book) \in SUBSET Standing(book)
    BY DEF Lapsed
  <2>2. b.waits = book.waits
    BY <1>1, <2>1, LetGoIs DEF Live
  <2> QED BY <1>1, <2>2, LiveOK, LiveKeeps DEF Sound
<1>3. book' = IF late THEN Deferred(open, doc)
              ELSE IF hold THEN [served EXCEPT !.polls = served.polls \cup {i}] ELSE served
  BY DEF Wait
<1> HIDE DEF b
<1>4. line \in Book /\ Keeps(b, line)
  BY <1>1, <1>2, InLineOK, InLineKeeps DEF Keeps
<1> HIDE DEF line
<1>5. line.polls \cup {i} \in SUBSET Ids
  BY <1>1, <1>4 DEF Book
<1>6. Keeps(b, book')
  <2>1. CASE late
    <3>1. open \in Book /\ Thins(line, open) /\ (Proper(line) => Proper(open))
      <4>1. CASE hold
        BY <1>4, <1>5, <4>1, OpenKeeps
      <4>2. CASE ~hold
        BY <1>4, <4>2, ThinsSame
      <4> QED BY <4>1, <4>2
    <3> HIDE DEF open
    <3>2. Thins(open, book') /\ (Proper(open) => Proper(book'))
      BY <1>1, <1>3, <2>1, <3>1, ServeKeeps
    <3> QED BY <1>4, <3>1, <3>2, KeepsThins
  <2>2. CASE ~late
    <3>1. served \in Book /\ Thins(line, served) /\ (Proper(line) => Proper(served))
      BY <1>1, <1>4, DeferredOK, ServeKeeps
    <3> HIDE DEF served
    <3>2. Keeps(b, served)
      BY <1>4, <3>1, KeepsThins
    <3>3. CASE hold
      <4>1. served.polls \cup {i} \in SUBSET Ids
        BY <1>1, <3>1 DEF Book
      <4>2. Thins(served, book') /\ (Proper(served) => Proper(book'))
        BY <1>3, <2>2, <3>1, <3>3, <4>1, OpenKeeps
      <4> QED BY <3>2, <4>2, KeepsThins
    <3>4. CASE ~hold
      BY <1>3, <2>2, <3>2, <3>4
    <3> QED BY <3>3, <3>4
  <2> QED BY <2>1, <2>2
<1> QED BY <1>2, <1>6, SameLineKeeps

\* An extended claim ends with its new cap.
LEMMA ExtendKeeps ==
  ASSUME IInv, NEW a, NEW i \in Ids, Extend(a, i)
  PROVE  Keeps(book, book')
<1> DEFINE b == Live(book)
           c == b.claims[i]
           more == [c EXCEPT !.cap = CapMs, !.until = Max2(c.until, LeaseMs)]
           longer == [b EXCEPT !.claims = [b.claims EXCEPT ![i] = more]]
<1>1. book \in Book /\ doc \in SUBSET Line
  BY DEF IInv, TypeOK
<1>2. b \in Book /\ Thins(book, b) /\ (Proper(book) => Proper(b))
  BY <1>1, LiveOK, LiveKeeps
<1>3. c # None /\ c.who \in Agents /\ book' = Deferred(longer, doc)
  BY DEF Extend
<1> HIDE DEF b
<1>4. c \in Claim
  BY <1>2, <1>3 DEF Book
<1>5. CapMs \in Nat /\ LeaseMs \in Nat /\ GrantMs \in Nat /\ GrantMs <= LeaseMs /\ LeaseMs < CapMs
  BY TimeAssumption
<1>6. more \in Claim /\ more.who = c.who /\ more.cap = CapMs /\ more.until = Max2(c.until, LeaseMs)
  <2>1. Max2(c.until, LeaseMs) \in 0..Never
    BY <1>4, <1>5 DEF Max2, Never, Claim
  <2>2. CapMs \in 0..Never
    BY <1>5 DEF Never
  <2> QED BY <1>4, <2>1, <2>2 DEF Claim
<1>7. ProperClaim(i, c) => ProperClaim(i, more)
  <2>1. c.until \in Int /\ c.cap \in Int
    BY <1>4 DEF Claim, Never
  <2>2. ASSUME c.cap <= CapMs, c.until <= c.cap \/ c.until <= GrantMs
        PROVE  Max2(c.until, LeaseMs) <= CapMs
    BY <1>5, <2>1, <2>2 DEF Max2
  <2> HIDE DEF more
  <2>3. ASSUME ProperClaim(i, c) PROVE ProperClaim(i, more)
    <3>1. c.cap <= CapMs /\ (c.until <= c.cap \/ c.until <= GrantMs) /\ i \in IdsOf[c.who]
      BY <1>3, <2>3 DEF ProperClaim
    <3>2. more.until <= more.cap /\ more.cap <= CapMs /\ i \in IdsOf[more.who]
      BY <1>5, <1>6, <2>2, <3>1
    <3> QED BY <3>2 DEF ProperClaim
  <2> QED BY <2>3
<1> HIDE DEF c, more
<1>8. /\ longer \in Book /\ longer.waits = b.waits
      /\ longer.claims[i] = more /\ \A k \in Ids : k # i => longer.claims[k] = b.claims[k]
  BY <1>2, <1>6 DEF Book
<1> HIDE DEF longer
<1>9. Thins(b, longer) /\ (Proper(b) => Proper(longer))
  <2>1. Waiting(longer) = Waiting(b)
    BY <1>8 DEF Waiting
  <2>2. Standing(longer) \subseteq Standing(b)
    BY <1>3, <1>8 DEF Standing, c
  <2>3. Proper(b) => \A k \in Standing(longer) : ProperClaim(k, longer.claims[k])
    <3>1. c = b.claims[i]
      BY DEF c
    <3> QED BY <1>3, <1>7, <1>8, <3>1 DEF Proper, Standing
  <2> QED BY <1>8, <2>1, <2>2, <2>3, SameHolders
<1>10. Thins(longer, book') /\ (Proper(longer) => Proper(book'))
  BY <1>1, <1>3, <1>8, ServeKeeps
<1>11. Thins(book, book')
  BY <1>2, <1>9, <1>10, ThinsTwice
<1> QED BY <1>2, <1>9, <1>10, <1>11, ThinsKeeps

LEMMA LapsesKeep ==
  ASSUME IInv, Look \/ Alarm
  PROVE  Keeps(book, book')
<1>1. book \in Book /\ doc \in SUBSET Line
  BY DEF IInv, TypeOK
<1>2. Live(book) \in Book /\ Thins(book, Live(book)) /\ (Proper(book) => Proper(Live(book)))
  BY <1>1, LiveOK, LiveKeeps
<1>3. book' = Serve(Live(book), doc)
  BY DEF Look, Alarm
<1>4. Thins(Live(book), book') /\ (Proper(Live(book)) => Proper(book'))
  BY <1>1, <1>2, <1>3, ServeKeeps
<1>5. Thins(book, book')
  BY <1>2, <1>4, ThinsTwice
<1> QED BY <1>2, <1>4, <1>5, ThinsKeeps

LEMMA ReleaseKeeps ==
  ASSUME IInv, NEW i \in Ids, Release(i)
  PROVE  Keeps(book, book')
<1>1. book \in Book /\ doc \in SUBSET Line
  BY DEF IInv, TypeOK
<1> DEFINE b == IF i \in Standing(book) THEN LetGo(book, {i}) ELSE Leave(book, {i})
<1>2. b \in Book /\ Thins(book, b) /\ (Proper(book) => Proper(b))
  <2>1. CASE i \in Standing(book)
    BY <1>1, <2>1, LetGoType, LetGoKeeps
  <2>2. CASE i \notin Standing(book)
    BY <1>1, <2>2, LeaveType, LeaveKeeps
  <2> QED BY <2>1, <2>2
<1>3. book' = Serve(b, doc)
  BY DEF Release
<1> HIDE DEF b
<1>4. Thins(b, book') /\ (Proper(b) => Proper(book'))
  BY <1>1, <1>2, <1>3, ServeKeeps
<1>5. Thins(book, book')
  BY <1>2, <1>4, ThinsTwice
<1> QED BY <1>2, <1>4, <1>5, ThinsKeeps
\* A claim an edit renews ends with its cap at the latest.
LEMMA RenewedIs ==
  ASSUME NEW b \in Book, b = book, NEW a, NEW claim \in Ids \cup {None}
  PROVE  LET c == Renewed(b, a, claim)
         IN  /\ c.waits = b.waits /\ c.claimOf = b.claimOf /\ c.rests = b.rests /\ c.polls = b.polls
             /\ Standing(c) = Standing(b)
             /\ \A i \in Standing(b) : /\ c.claims[i].who = b.claims[i].who
                                       /\ c.claims[i].lines = b.claims[i].lines
                                       /\ c.claims[i].soft = b.claims[i].soft
                                       /\ c.claims[i].grant = b.claims[i].grant
                                       /\ b.claims[i].until = 0 => c.claims[i].until = 0
                                       /\ ProperClaim(i, b.claims[i]) => ProperClaim(i, c.claims[i])
<1> DEFINE c == Renewed(b, a, claim)
           old == b.claims[claim]
           new == [old EXCEPT !.until = RenewTo(old)]
<1>1. CASE ~Renews(a, claim)
  BY <1>1 DEF Renewed
<1>2. CASE Renews(a, claim)
  <2>1. claim \in Ids /\ old \in Claim /\ old # None
    BY <1>2 DEF Renews, Book
  <2>2. LeaseMs \in Nat /\ LeaseMs < CapMs /\ CapMs \in Nat
    BY TimeAssumption
  <2>3. old.cap \in 0..Never
    BY <2>1 DEF Claim
  <2>4. RenewTo(old) \in 0..Never /\ RenewTo(old) <= old.cap
    BY <2>2, <2>3 DEF RenewTo, Min2, Never
  <2>5. /\ new \in Claim /\ new.who = old.who /\ new.lines = old.lines /\ new.soft = old.soft
        /\ new.grant = old.grant /\ new.cap = old.cap /\ new.until = RenewTo(old)
    BY <2>1, <2>4 DEF Claim
  <2>6. new # None
    BY <2>5, NoneIsNone
  <2>7. ASSUME ProperClaim(claim, old) PROVE ProperClaim(claim, new)
    BY <2>4, <2>5, <2>7 DEF ProperClaim
  <2>8. /\ c.waits = b.waits /\ c.claimOf = b.claimOf /\ c.rests = b.rests /\ c.polls = b.polls
        /\ c.claims[claim] = new /\ \A k \in Ids : k # claim => c.claims[k] = b.claims[k]
    BY <1>2, <2>1 DEF Renewed, Book
  <2> HIDE DEF c, new
  <2>9. Standing(c) = Standing(b)
    BY <2>1, <2>6, <2>8 DEF Standing
  <2>10. \A i \in Standing(b) : /\ c.claims[i].who = b.claims[i].who
                                /\ c.claims[i].lines = b.claims[i].lines
                                /\ c.claims[i].soft = b.claims[i].soft
                                /\ c.claims[i].grant = b.claims[i].grant
                                /\ b.claims[i].until = 0 => c.claims[i].until = 0
                                /\ ProperClaim(i, b.claims[i]) => ProperClaim(i, c.claims[i])
    <3>1. old.until # 0
      BY <1>2 DEF Renews
    <3> QED BY <2>5, <2>7, <2>8, <3>1 DEF Standing
  <2> QED BY <2>8, <2>9, <2>10 DEF c
<1> QED BY <1>1, <1>2

LEMMA RenewedKeeps ==
  ASSUME NEW b \in Book, b = book, NEW a, NEW claim \in Ids \cup {None}
  PROVE  LET c == Renewed(b, a, claim) IN Thins(b, c) /\ (Proper(b) => Proper(c))
<1> DEFINE c == Renewed(b, a, claim)
<1>1. /\ c.waits = b.waits /\ Standing(c) = Standing(b)
      /\ \A i \in Standing(b) : ProperClaim(i, b.claims[i]) => ProperClaim(i, c.claims[i])
  BY RenewedIs
<1> HIDE DEF c
<1>2. Thins(b, c) /\ (Proper(b) => Proper(c))
  BY <1>1 DEF Thins, Proper, Waiting
<1> QED BY <1>2 DEF c

LEMMA SetLineKeeps ==
  ASSUME IInv, NEW a, NEW l, NEW claim \in Ids \cup {None}, SetLine(a, l, claim)
  PROVE  Keeps(book, book')
<1>1. book \in Book /\ book' = Renewed(book, a, claim)
  BY DEF IInv, TypeOK, SetLine
<1> QED BY <1>1, RenewedKeeps, ThinsKeeps

\* Lines that claims lose or gain change neither their holders nor their times.
Relined(b, c, S, lines) ==
  /\ S \subseteq Standing(b) /\ \A i \in S : lines[i] \in SUBSET Line
  /\ c.waits = b.waits
  /\ \A i \in Ids : c.claims[i] = IF i \in S THEN [b.claims[i] EXCEPT !.lines = lines[i]] ELSE b.claims[i]

LEMMA LinesKeep ==
  ASSUME NEW b \in Book, NEW c, NEW S, NEW lines, Relined(b, c, S, lines)
  PROVE  /\ Standing(c) = Standing(b)
         /\ \A i \in Standing(b) : /\ c.claims[i] \in Claim
                                   /\ c.claims[i].who = b.claims[i].who /\ c.claims[i].soft = b.claims[i].soft
                                   /\ c.claims[i].grant = b.claims[i].grant
                                   /\ c.claims[i].until = b.claims[i].until /\ c.claims[i].cap = b.claims[i].cap
                                   /\ c.claims[i].lines = IF i \in S THEN lines[i] ELSE b.claims[i].lines
         /\ Thins(b, c) /\ (Proper(b) => Proper(c))
<1>1. /\ S \subseteq Standing(b) /\ \A i \in S : lines[i] \in SUBSET Line
      /\ c.waits = b.waits
      /\ \A i \in Ids : c.claims[i] = IF i \in S THEN [b.claims[i] EXCEPT !.lines = lines[i]] ELSE b.claims[i]
  BY DEF Relined
<1>2. ASSUME NEW i \in Standing(b)
      PROVE  /\ c.claims[i] \in Claim /\ c.claims[i] # None
             /\ c.claims[i].who = b.claims[i].who /\ c.claims[i].soft = b.claims[i].soft
             /\ c.claims[i].grant = b.claims[i].grant
             /\ c.claims[i].until = b.claims[i].until /\ c.claims[i].cap = b.claims[i].cap
             /\ c.claims[i].lines = IF i \in S THEN lines[i] ELSE b.claims[i].lines
  <2>1. i \in Ids /\ b.claims[i] \in Claim
    BY InBook
  <2>2. CASE i \in S
    <3>1. c.claims[i] = [b.claims[i] EXCEPT !.lines = lines[i]] /\ lines[i] \in SUBSET Line
      BY <1>1, <2>1, <2>2
    <3>2. c.claims[i] \in Claim
      BY <2>1, <3>1 DEF Claim
    <3> QED BY <2>1, <2>2, <3>1, <3>2, NoneIsNone DEF Claim
  <2>3. CASE i \notin S
    BY <1>1, <2>1, <2>3 DEF Standing
  <2> QED BY <2>2, <2>3
<1>3. Standing(c) = Standing(b)
  <2>1. \A i \in Ids : i \notin Standing(b) => c.claims[i] = None
    BY <1>1 DEF Standing
  <2> QED BY <1>2, <2>1 DEF Standing
<1>4. Thins(b, c) /\ (Proper(b) => Proper(c))
  <2>1. ASSUME NEW i \in Standing(b), ProperClaim(i, b.claims[i]) PROVE ProperClaim(i, c.claims[i])
    BY <1>2, <2>1 DEF ProperClaim
  <2> QED BY <1>1, <1>3, <2>1 DEF Thins, Proper, Waiting
<1> QED BY <1>2, <1>3, <1>4

LEMMA DeleteLineKeeps ==
  ASSUME IInv, NEW a, NEW l, NEW claim \in Ids \cup {None}, DeleteLine(a, l, claim)
  PROVE  Keeps(book, book')
<1> DEFINE b == Renewed(book, a, claim)
           lines == [i \in Ids |-> b.claims[i].lines \ {l}]
           claims == [i \in Ids |-> IF i \in On(b, l)
                                    THEN [b.claims[i] EXCEPT !.lines = @ \ {l}] ELSE b.claims[i]]
           less == [b EXCEPT !.claims = claims, !.claimOf = [b.claimOf EXCEPT ![l] = None]]
           empty == {i \in On(b, l) : less.claims[i].lines = {}}
<1>1. book \in Book /\ doc \in SUBSET Line /\ Sound(book, doc) /\ doc' \in SUBSET Line /\ l \in Line
  BY DEF IInv, TypeOK, DeleteLine
<1>2. b \in Book /\ Thins(book, b) /\ (Proper(book) => Proper(b))
  BY <1>1, RenewedOK, RenewedKeeps
<1>3. book' = IF empty = {} THEN less ELSE Serve(LetGo(less, empty), doc')
  BY DEF DeleteLine
<1> HIDE DEF b
<1>4. On(b, l) \subseteq Standing(b)
  BY DEF On
<1>5. /\ less.waits = b.waits
      /\ \A i \in Ids : less.claims[i] = IF i \in On(b, l) THEN [b.claims[i] EXCEPT !.lines = lines[i]]
                                         ELSE b.claims[i]
  BY <1>2 DEF Book
<1>6. \A i \in On(b, l) : lines[i] \in SUBSET Line
  BY <1>2, <1>4, InBook DEF Claim
<1>7. less \in Book
  <2>1. claims \in [Ids -> Claim \cup {None}]
    <3>1. ASSUME NEW i \in On(b, l) PROVE claims[i] \in Claim
      <4>1. i \in Ids /\ b.claims[i] \in Claim /\ claims[i] = [b.claims[i] EXCEPT !.lines = lines[i]]
        BY <1>2, <1>4, <3>1, InBook
      <4> QED BY <1>6, <3>1, <4>1 DEF Claim
    <3>2. \A i \in Ids \ On(b, l) : claims[i] \in Claim \cup {None}
      BY <1>2 DEF Book
    <3> QED BY <3>1, <3>2
  <2>2. [b.claimOf EXCEPT ![l] = None] \in [Line -> Ids \cup {None}]
    BY <1>1, <1>2 DEF Book
  <2> HIDE DEF claims
  <2> QED BY <1>2, <2>1, <2>2 DEF Book
<1> HIDE DEF lines, less
<1>8. Standing(less) = Standing(b) /\ Thins(b, less) /\ (Proper(b) => Proper(less))
  <2>1. Relined(b, less, On(b, l), lines)
    BY <1>4, <1>5, <1>6 DEF Relined
  <2> QED BY <1>2, <2>1, LinesKeep
<1>9. Thins(less, book') /\ (Proper(less) => Proper(book'))
  <2>1. CASE empty = {}
    BY <1>3, <2>1, ThinsSame
  <2>2. CASE empty # {}
    <3>1. empty \in SUBSET Standing(less)
      BY <1>4, <1>8
    <3> HIDE DEF empty
    <3>2. /\ LetGo(less, empty) \in Book /\ Thins(less, LetGo(less, empty))
          /\ Proper(less) => Proper(LetGo(less, empty))
      BY <1>7, <3>1, LetGoType, LetGoKeeps
    <3>3. Thins(LetGo(less, empty), book') /\ (Proper(LetGo(less, empty)) => Proper(book'))
      BY <1>1, <1>3, <2>2, <3>2, ServeKeeps
    <3> QED BY <3>2, <3>3, ThinsTwice
  <2> QED BY <2>1, <2>2
<1>10. Thins(book, book')
  BY <1>2, <1>8, <1>9, ThinsTwice
<1> QED BY <1>2, <1>8, <1>9, <1>10, ThinsKeeps

LEMMA InsertLineKeeps ==
  ASSUME IInv, NEW a, NEW l, NEW claim \in Ids \cup {None}, InsertLine(a, l, claim)
  PROVE  Keeps(book, book')
<1> DEFINE b == Renewed(book, a, claim)
           mine == IF l = None THEN {}
                   ELSE {i \in On(b, l) : b.claims[i].who = a /\ (a \in People \/ claim = i)}
           lines == [i \in Ids |-> b.claims[i].lines \cup {nextId}]
           claims == [i \in Ids |-> IF i \in mine THEN [b.claims[i] EXCEPT !.lines = @ \cup {nextId}]
                                    ELSE b.claims[i]]
           more == [b EXCEPT !.claims = claims, !.claimOf = [b.claimOf EXCEPT ![nextId] = Keeper(b, mine)]]
<1>1. book \in Book /\ Sound(book, doc) /\ nextId \in Line
  BY LineAssumption DEF IInv, TypeOK, InsertLine, Line
<1>2. b \in Book /\ Thins(book, b) /\ (Proper(book) => Proper(b))
  BY <1>1, RenewedOK, RenewedKeeps
<1>3. book' = more
  BY DEF InsertLine
<1> HIDE DEF b
<1>4. mine \subseteq Standing(b)
  BY DEF On
<1> HIDE DEF mine
<1>5. /\ more.waits = b.waits
      /\ \A i \in Ids : more.claims[i] = IF i \in mine THEN [b.claims[i] EXCEPT !.lines = lines[i]]
                                         ELSE b.claims[i]
  BY <1>2 DEF Book
<1>6. \A i \in mine : lines[i] \in SUBSET Line
  BY <1>1, <1>2, <1>4, InBook DEF Claim
<1> HIDE DEF lines, more
<1>7. Thins(b, more) /\ (Proper(b) => Proper(more))
  <2>1. Relined(b, more, mine, lines)
    BY <1>4, <1>5, <1>6 DEF Relined
  <2> QED BY <1>2, <2>1, LinesKeep
<1>8. Thins(book, book')
  BY <1>2, <1>3, <1>7, ThinsTwice
<1> QED BY <1>2, <1>3, <1>7, <1>8, ThinsKeeps

\* Waiters that count as having asked just now stay where they are.
LEMMA SeenKeeps ==
  ASSUME NEW b \in Book, NEW c, NEW S, c.claims = b.claims,
         \A j \in Ids : c.waits[j] = IF j \in S \cap Waiting(b) THEN [b.waits[j] EXCEPT !.seen = KeepMs]
                                     ELSE b.waits[j]
  PROVE  /\ Waiting(c) = Waiting(b)
         /\ \A j \in Waiting(b) : /\ c.waits[j].who = b.waits[j].who /\ c.waits[j].lines = b.waits[j].lines
                                  /\ c.waits[j].ahead = b.waits[j].ahead /\ c.waits[j].prior = b.waits[j].prior
         /\ Standing(c) = Standing(b) /\ Thins(b, c) /\ Keeps(b, c)
<1>1. ASSUME NEW j \in Waiting(b)
      PROVE  /\ c.waits[j] # None
             /\ c.waits[j].who = b.waits[j].who /\ c.waits[j].lines = b.waits[j].lines
             /\ c.waits[j].ahead = b.waits[j].ahead /\ c.waits[j].prior = b.waits[j].prior
  <2>1. j \in Ids /\ b.waits[j] \in Waiter /\ b.waits[j] # None
    BY InBook DEF Waiting
  <2>2. CASE j \in S
    <3>1. c.waits[j] = [b.waits[j] EXCEPT !.seen = KeepMs] /\ KeepMs \in 0..KeepMs
      BY <2>1, <2>2, TimeAssumption
    <3>2. c.waits[j] \in Waiter
      BY <2>1, <3>1 DEF Waiter
    <3> QED BY <2>1, <3>1, <3>2, NoneIsNone DEF Waiter
  <2>3. CASE j \notin S
    BY <2>1, <2>3
  <2> QED BY <2>2, <2>3
<1>2. Waiting(c) = Waiting(b)
  BY <1>1 DEF Waiting
<1>3. Standing(c) = Standing(b)
  BY DEF Standing
<1>4. Thins(b, c) /\ (Proper(b) => Proper(c))
  BY <1>1, <1>2, <1>3 DEF Thins, Proper
<1> QED BY <1>1, <1>2, <1>3, <1>4, ThinsKeeps

LEMMA PollEndKeeps ==
  ASSUME IInv, NEW i \in Ids, PollEnd(i)
  PROVE  Keeps(book, book')
<1>1. book \in Book
  BY DEF IInv, TypeOK
<1>2. /\ book'.claims = book.claims
      /\ \A j \in Ids : book'.waits[j] = IF j \in {i} \cap Waiting(book)
                                         THEN [book.waits[j] EXCEPT !.seen = KeepMs] ELSE book.waits[j]
  BY <1>1 DEF PollEnd, Book
<1> QED BY <1>1, <1>2, SeenKeeps

LEMMA BeginKeeps ==
  ASSUME IInv, Begin
  PROVE  Keeps(book, book')
<1>1. book \in Book
  BY DEF IInv, TypeOK
<1>2. /\ book'.claims = book.claims
      /\ \A j \in Ids : book'.waits[j] = IF j \in book.polls \cap Waiting(book)
                                         THEN [book.waits[j] EXCEPT !.seen = KeepMs] ELSE book.waits[j]
  BY <1>1 DEF Begin, Book
<1> QED BY <1>1, <1>2, SeenKeeps

LEMMA WipeKeeps ==
  ASSUME Wipe
  PROVE  Keeps(book, book')
<1>1. book' = EmptyBook
  BY DEF Wipe
<1>2. Waiting(book') = {} /\ Standing(book') = {}
  BY <1>1 DEF EmptyBook, Waiting, Standing
<1> QED BY <1>2 DEF Keeps, Steady, Proper, Ranks

\* Time takes as much off a claim as off its cap.
LEMMA TickKeeps ==
  ASSUME IInv, Tick
  PROVE  Thins(book, book') /\ Standing(book') \subseteq Standing(book) /\ Keeps(book, book')
<1>1. book \in Book
  BY DEF IInv, TypeOK
<1>2. /\ \A i \in Ids : book'.claims[i] = IF book.claims[i] = None THEN None
                                          ELSE [book.claims[i] EXCEPT !.until = Down(@), !.cap = Down(@)]
      /\ \A i \in Ids : book'.waits[i] = IF book.waits[i] = None THEN None
                                         ELSE [book.waits[i] EXCEPT !.seen = Down(@)]
  BY <1>1 DEF Tick, Book
<1>3. CapMs \in Nat /\ GrantMs \in Nat /\ GrantMs < CapMs /\ Never = CapMs + 1 /\ KeepMs \in Nat /\ KeepMs <= CapMs
  BY TimeAssumption DEF Never
<1>4. ASSUME NEW i \in Standing(book), ProperClaim(i, book.claims[i])
      PROVE  ProperClaim(i, book'.claims[i])
  <2>1. i \in Ids /\ book.claims[i] \in Claim /\ book.claims[i] # None
    BY <1>1, InBook DEF Standing
  <2> DEFINE c == book.claims[i]
             d == [c EXCEPT !.until = Down(c.until), !.cap = Down(c.cap)]
  <2>2. book'.claims[i] = d
    BY <1>2, <2>1
  <2>3. c.until \in 0..Never /\ c.cap \in 0..Never
    BY <2>1 DEF Claim
  <2>4. d.who = c.who /\ d.until = Down(c.until) /\ d.cap = Down(c.cap)
    BY <2>1 DEF Claim
  <2>5. ASSUME NEW u \in 0..Never, NEW v \in 0..Never
        PROVE  /\ u <= v => Down(u) <= Down(v)
               /\ u <= GrantMs => Down(u) <= GrantMs
               /\ v <= CapMs => Down(v) <= CapMs
    BY <1>3 DEF Down
  <2> HIDE DEF d
  <2>6. ProperClaim(i, c)
    BY <1>4
  <2> HIDE DEF c
  <2>7. ProperClaim(i, d)
    BY <2>3, <2>4, <2>5, <2>6 DEF ProperClaim
  <2> QED BY <2>2, <2>7
<1>5. ASSUME NEW j \in Waiting(book)
      PROVE  /\ book'.waits[j] # None /\ book'.waits[j].who = book.waits[j].who
             /\ book'.waits[j].ahead = book.waits[j].ahead /\ book'.waits[j].prior = book.waits[j].prior
  <2>1. j \in Ids /\ book.waits[j] \in Waiter /\ book.waits[j] # None
    BY <1>1, InBook DEF Waiting
  <2>2. Down(book.waits[j].seen) \in 0..KeepMs
    BY <1>3, <2>1 DEF Waiter, Down
  <2>3. book'.waits[j] = [book.waits[j] EXCEPT !.seen = Down(book.waits[j].seen)]
    BY <1>2, <2>1
  <2>4. book'.waits[j] \in Waiter
    BY <2>1, <2>2, <2>3 DEF Waiter
  <2> QED BY <2>1, <2>3, <2>4, NoneIsNone DEF Waiter
<1>6. Waiting(book') = Waiting(book)
  BY <1>2, <1>5 DEF Waiting
<1>7. Standing(book') \subseteq Standing(book)
  BY <1>2 DEF Standing
<1>8. Thins(book, book') /\ (Proper(book) => Proper(book'))
  <2>1. Proper(book) => \A i \in Standing(book') : ProperClaim(i, book'.claims[i])
    BY <1>4, <1>7 DEF Proper
  <2>2. Thins(book, book')
    BY <1>5, <1>6 DEF Thins
  <2>3. Proper(book) => Proper(book')
    BY <1>5, <1>6, <2>1 DEF Proper
  <2> QED BY <2>2, <2>3
<1> QED BY <1>7, <1>8, ThinsKeeps

\* A restart keeps holders within their caps but for grant windows, and stands the line as it came.
LEMMA RestartKeeps ==
  ASSUME IInv, Restart, "restart" \in Happens
  PROVE  /\ Proper(book) => Proper(book')
         /\ Waiting(book') = Waiting(book)
         /\ \A j \in Waiting(book) : /\ book'.waits[j].who = book.waits[j].who
                                     /\ book'.waits[j].ahead = book.waits[j].prior
                                     /\ book'.waits[j].prior = book.waits[j].prior
<1>1. book \in Book
  BY DEF IInv, TypeOK
<1>2. /\ \A i \in Ids : book'.claims[i] = IF /\ book.claims[i] # None /\ book.claims[i].grant
                                             /\ book.claims[i].until < GrantMs
                                          THEN [book.claims[i] EXCEPT !.until = GrantMs] ELSE book.claims[i]
      /\ \A i \in Ids : book'.waits[i] = IF book.waits[i] = None THEN None
                                         ELSE [book.waits[i] EXCEPT !.seen = KeepMs, !.ahead = book.waits[i].prior]
  BY <1>1 DEF Restart, ReadBack, Stood, Book
<1>3. CapMs \in Nat /\ GrantMs \in Nat /\ GrantMs < CapMs /\ KeepMs \in 0..KeepMs
  BY TimeAssumption
<1>4. ASSUME NEW i \in Standing(book), ProperClaim(i, book.claims[i])
      PROVE  ProperClaim(i, book'.claims[i])
  <2>1. i \in Ids /\ book.claims[i] \in Claim /\ book.claims[i] # None
    BY <1>1, InBook DEF Standing
  <2>2. CASE book.claims[i].grant /\ book.claims[i].until < GrantMs
    <3> DEFINE d == [book.claims[i] EXCEPT !.until = GrantMs]
    <3>1. book'.claims[i] = d
      BY <1>2, <2>1, <2>2
    <3>2. d.who = book.claims[i].who /\ d.cap = book.claims[i].cap /\ d.until = GrantMs
      BY <2>1 DEF Claim
    <3> HIDE DEF d
    <3>3. ProperClaim(i, d)
      BY <1>3, <1>4, <3>2 DEF ProperClaim
    <3> QED BY <3>1, <3>3
  <2>3. CASE ~(book.claims[i].grant /\ book.claims[i].until < GrantMs)
    BY <1>2, <1>4, <2>1, <2>3
  <2> QED BY <2>2, <2>3
<1>5. ASSUME NEW j \in Waiting(book)
      PROVE  /\ book'.waits[j] # None /\ book'.waits[j].who = book.waits[j].who
             /\ book'.waits[j].ahead = book.waits[j].prior /\ book'.waits[j].prior = book.waits[j].prior
  <2>1. j \in Ids /\ book.waits[j] \in Waiter /\ book.waits[j] # None
    BY <1>1, InBook DEF Waiting
  <2>2. book'.waits[j] = [book.waits[j] EXCEPT !.seen = KeepMs, !.ahead = book.waits[j].prior]
    BY <1>2, <2>1
  <2>3. book'.waits[j] \in Waiter
    BY <1>3, <2>1, <2>2 DEF Waiter
  <2> QED BY <2>1, <2>2, <2>3, NoneIsNone DEF Waiter
<1>6. Waiting(book') = Waiting(book)
  BY <1>2, <1>5 DEF Waiting
<1>7. Standing(book') \subseteq Standing(book)
  BY <1>2 DEF Standing
<1>8. Proper(book) => Proper(book')
  BY <1>4, <1>5, <1>6, <1>7 DEF Proper
<1> QED BY <1>5, <1>6, <1>8

-----------------------------------------------------------------------------
(* Leases, places and ranks.                                               *)

LEMMA NextKeeps ==
  ASSUME IInv, [Next]_vars
  PROVE  Keeps(book, book') \/ (Restart /\ "restart" \in Happens)
<1>1. ASSUME NEW a \in Actors, Ask(a) PROVE Keeps(book, book')
  <2>1. PICK i \in IdsOf[a], want \in SUBSET doc :
          \/ \E soft \in Softs, ttl \in Ttls \cup {DefaultTtl(a)} : Lay(a, i, want, soft, ttl)
          \/ \E hold, late \in BOOLEAN : Wait(a, i, want, hold, late)
    BY <1>1 DEF Ask
  <2>2. \A soft \in Softs : soft \in BOOLEAN
    BY SoftAssumption
  <2>3. \A ttl \in Ttls \cup {DefaultTtl(a)} : ttl \in 0..Never
    <3>1. DefaultTtl(a) \in 0..Never
      BY TimeAssumption DEF DefaultTtl, Never
    <3>2. 0..CapMs \subseteq 0..Never
      BY TimeAssumption DEF Never
    <3> QED BY <3>1, <3>2, TtlAssumption
  <2> QED BY <2>1, <2>2, <2>3, LayKeeps, WaitKeeps
<1>2. ASSUME NEW a \in People, NEW i \in Ids, Extend(a, i) PROVE Keeps(book, book')
  BY <1>2, ExtendKeeps
<1>3. ASSUME NEW a \in Actors \cup {None}, Edit(a) PROVE Keeps(book, book')
  <2>1. PICK claim \in IF a = None THEN {None} ELSE IdsOf[a] \cup {None} :
          \/ \E l \in doc : SetLine(a, l, claim) \/ DeleteLine(a, l, claim)
          \/ \E l \in doc \cup {None} : InsertLine(a, l, claim)
    BY <1>3 DEF Edit
  <2>2. claim \in Ids \cup {None}
    BY IdsAssumption
  <2> QED BY <2>1, <2>2, SetLineKeeps, DeleteLineKeeps, InsertLineKeeps
<1>4. ASSUME NEW i \in Ids, PollEnd(i) \/ Release(i) PROVE Keeps(book, book')
  BY <1>4, PollEndKeeps, ReleaseKeeps
<1>5. CASE Look \/ Alarm
  BY <1>5, LapsesKeep
<1>6. CASE Warn \/ WarningOver \/ Cancel \/ UNCHANGED vars
  <2>1. book' = book
    BY <1>6 DEF Warn, WarningOver, Cancel, vars
  <2> QED BY <2>1, ThinsSame, ThinsKeeps
<1>7. CASE Begin
  BY <1>7, BeginKeeps
<1>8. CASE Wipe
  BY <1>8, WipeKeeps
<1>9. CASE Tick
  BY <1>9, TickKeeps
<1> QED BY <1>1, <1>2, <1>3, <1>4, <1>5, <1>6, <1>7, <1>8, <1>9 DEF Next
ClaimsHeldProperly == Proper(book)

LEMMA ProperKept == IInv /\ ClaimsHeldProperly /\ [Next]_vars => ClaimsHeldProperly'
BY NextKeeps, RestartKeeps DEF Keeps, ClaimsHeldProperly

\* Every claim and place is under an id of its holder's, and a claim ends with its cap, but for a
\* grant window that a restart starts again (the constructor): whatever is asked, extended or renewed.
THEOREM ClaimsProper == Spec => []ClaimsHeldProperly
<1>1. Init => ClaimsHeldProperly
  BY DEF Init, EmptyBook, ClaimsHeldProperly, Proper, Standing, Waiting
<1> QED BY <1>1, ProperKept, Invariant, PTL DEF Spec

NoRestart == "restart" \notin Happens

\* No agent's claim stands past its cap while the object isn't restarted (`claim`, `renew`): a renewal,
\* an edit or a grant stays within it, for any times; only a person's extension moves the cap itself.
THEOREM LeaseEndsWithCap == NoRestart => (Spec => []LeaseWithinCap)
<1> SUFFICES ASSUME NoRestart PROVE Spec => []LeaseWithinCap
  OBVIOUS
<1>1. ClaimsHeldProperly => LeaseWithinCap
  BY DEF ClaimsHeldProperly, Proper, ProperClaim, LeaseWithinCap, NoRestart
<1> QED BY <1>1, ClaimsProper, PTL

\* A restart stands the line as it came: in the same order where it is first come first.
InOrder == NoRestart \/ \A a, c \in Actors : RankOf[a] = RankOf[c]

LEMMA RanksKept ==
  ASSUME InOrder, IInv, RankOrder, [Next]_vars
  PROVE  RankOrder'
<1> SUFFICES ASSUME Ranks(book) PROVE Ranks(book')
  BY DEF Ranks, RankOrder
<1>1. CASE Keeps(book, book')
  BY <1>1 DEF Keeps
<1>2. CASE Restart /\ "restart" \in Happens
  <2>1. \A a, c \in Actors : RankOf[a] = RankOf[c]
    BY <1>2 DEF InOrder, NoRestart
  <2>2. /\ Waiting(book') = Waiting(book)
        /\ \A j \in Waiting(book) : /\ book'.waits[j].who = book.waits[j].who
                                    /\ book'.waits[j].ahead = book.waits[j].prior
                                    /\ book'.waits[j].prior = book.waits[j].prior
    BY <1>2, RestartKeeps
  <2>3. \A j \in Waiting(book) : book.waits[j].who \in Actors
    BY InBook DEF IInv, TypeOK, Waiter
  <2>4. ASSUME NEW i \in Waiting(book), NEW j \in Waiting(book)
        PROVE  LET r == RankOf[book'.waits[i].who]  q == RankOf[book'.waits[j].who]
               IN  i \in book'.waits[j].ahead <=> r > q \/ (r = q /\ i \in book'.waits[j].prior)
    <3>1. book.waits[i].who \in Actors /\ book.waits[j].who \in Actors
      BY <2>3
    <3>2. RankOf[book.waits[i].who] \in Nat /\ RankOf[book.waits[i].who] = RankOf[book.waits[j].who]
      BY <2>1, <3>1, RankAssumption
    <3>3. ~(RankOf[book.waits[i].who] > RankOf[book.waits[j].who])
      BY <3>2
    <3> QED BY <2>2, <3>2, <3>3
  <2> QED BY <2>2, <2>4 DEF Ranks
<1> QED BY <1>1, <1>2, NextKeeps

\* The line is by rank, and among equals by who came first (`wait`), through any asks, grants,
\* leavings and drains: that an agent of a higher rank steps ahead of all below it leaves the line so.
THEOREM LineByRank == InOrder => (Spec => []RankOrder)
<1> SUFFICES ASSUME InOrder PROVE Spec => []RankOrder
  OBVIOUS
<1>1. Init => RankOrder
  BY DEF Init, EmptyBook, RankOrder, Waiting
<1>2. IInv /\ RankOrder /\ [Next]_vars => RankOrder'
  BY RanksKept
<1> QED BY <1>1, <1>2, Invariant, PTL DEF Spec

LEMMA Placed ==
  ASSUME InOrder, IInv, RankOrder, [Next]_vars,
         NEW i \in Waiting(book) \cap Waiting(book'), NEW j \in Waiting(book) \cap Waiting(book'),
         j \in book.waits[i].ahead
  PROVE  j \in book'.waits[i].ahead
<1>1. CASE Keeps(book, book')
  BY <1>1 DEF Keeps, Steady
<1>2. CASE Restart /\ "restart" \in Happens
  <2>1. \A a, c \in Actors : RankOf[a] = RankOf[c]
    BY <1>2 DEF InOrder, NoRestart
  <2>2. book.waits[i].who \in Actors /\ book.waits[j].who \in Actors
    BY InBook DEF IInv, TypeOK, Waiter
  <2>3. RankOf[book.waits[i].who] \in Nat /\ RankOf[book.waits[i].who] = RankOf[book.waits[j].who]
    BY <2>1, <2>2, RankAssumption
  <2>4. ~(RankOf[book.waits[j].who] > RankOf[book.waits[i].who])
    BY <2>3
  <2>5. j \in book.waits[i].prior
    BY <2>4 DEF RankOrder
  <2>6. book'.waits[i].ahead = book.waits[i].prior
    BY <1>2, RestartKeeps
  <2> QED BY <2>5, <2>6
<1> QED BY <1>1, <1>2, NextKeeps

\* Of two waiters that stay in line, whoever is ahead stays ahead, whatever the step: a waiter asks again,
\* others join, are served or go quiet, the object drains or restarts.
THEOREM PlacesStay == InOrder => (Spec => PlacesKept)
<1> SUFFICES ASSUME InOrder PROVE Spec => PlacesKept
  OBVIOUS
<1>1. IInv /\ RankOrder /\ [Next]_vars =>
        [\A i, j \in Waiting(book) \cap Waiting(book') :
           j \in book.waits[i].ahead => j \in book'.waits[i].ahead]_vars
  BY Placed
<1>2. Spec => []RankOrder
  BY LineByRank
<1>3. Spec => [][\A i, j \in Waiting(book) \cap Waiting(book') :
                   j \in book.waits[i].ahead => j \in book'.waits[i].ahead]_vars
  BY <1>1, <1>2, Invariant, PTL DEF Spec
<1> QED BY <1>3 DEF PlacesKept
-----------------------------------------------------------------------------
(* Turns.  Most handlers let some claims or places go, and then serve the  *)
(* line; a claim laid and a place taken come on top of that, below.        *)

\* m is b with claims and places let go: on the lines of e nobody new.
Lets(b, m, e) ==
  /\ m \in Book /\ Thins(b, m) /\ Standing(m) \subseteq Standing(b)
  /\ \A l \in e : m.claimOf[l] \in {None, b.claimOf[l]}

\* m's claims, places and rests are b's, or fewer, and rests of claims that went; claims may be on N too.
Sheds(b, m, N) ==
  /\ \A i \in Standing(m) :
       /\ i \in Standing(b)
       /\ m.claims[i].who = b.claims[i].who /\ m.claims[i].soft = b.claims[i].soft
       /\ m.claims[i].grant = b.claims[i].grant
       /\ b.claims[i].until = 0 => m.claims[i].until = 0
       /\ m.claims[i].lines \subseteq b.claims[i].lines \cup N
  /\ \A i \in Waiting(m) :
       i \in Waiting(b) /\ m.waits[i].who = b.waits[i].who /\ m.waits[i].lines \subseteq b.waits[i].lines
  /\ \A k \in Ids : m.rests[k] # None =>
       \/ b.rests[k] # None /\ m.rests[k].who = b.rests[k].who /\ m.rests[k].lines = b.rests[k].lines
       \/ /\ k \in Standing(b) \ Standing(m)
          /\ m.rests[k].who = b.claims[k].who /\ m.rests[k].lines \subseteq b.claims[k].lines

\* c is b with some let go and the line served, unless no line was freed.
Settles(b, c, e, d) ==
  \E m : /\ Lets(b, m, e) /\ Sheds(b, m, d \ e)
         /\ c = Serve(m, d) \/ (c = m /\ \A l \in d : b.claimOf[l] # None => c.claimOf[l] # None)

\* A line served is served to the end: it is nobody's turn any more.
LEMMA NoneLeft ==
  ASSUME NEW b \in Book, NEW d \in SUBSET Line, NEW i \in Ids
  PROVE  ~Turn(MoveUp(b, d), d, i)
<1> DEFINE c == MoveUp(b, d)
<1>1. /\ Go(b, d) \subseteq Waiting(b)
      /\ \A l \in Line : c.claimOf[l] = IF l \in d /\ \E k \in Go(b, d) : l \in b.waits[k].lines
                                        THEN CHOOSE k \in Go(b, d) : k \in {j \in Go(b, d) : l \in b.waits[j].lines}
                                        ELSE b.claimOf[l]
      /\ Waiting(c) = {k \in Waiting(b) : Stays(b, d, k)} \ Go(b, d)
      /\ c.polls = b.polls \ (Waiting(b) \ Waiting(c))
      /\ \A k \in Waiting(c) : /\ c.waits[k].lines = b.waits[k].lines \cap d
                               /\ c.waits[k].seen = b.waits[k].seen
                               /\ \A j \in Waiting(c) : j \in c.waits[k].ahead <=> j \in b.waits[k].ahead
  BY MoveUpIs
<1> HIDE DEF c
<1> SUFFICES ASSUME Turn(c, d, i) PROVE FALSE
  BY DEF c
<1>2. i \in Waiting(c) /\ i \in Waiting(b) /\ Stays(b, d, i) /\ ~Turn(b, d, i)
  BY <1>1 DEF Turn, Stays, Waiting, Go
<1>3. PICK l \in b.waits[i].lines \cap d :
        ~(/\ b.claimOf[l] = None
          /\ \A j \in b.waits[i].ahead : Stays(b, d, j) => l \notin b.waits[j].lines)
  BY <1>2 DEF Turn
<1>4. l \in c.waits[i].lines \cap d /\ l \in Line
  BY <1>1, <1>2, <1>3
<1>5. ~\E k \in Go(b, d) : l \in b.waits[k].lines
  <2> SUFFICES ASSUME \E k \in Go(b, d) : l \in b.waits[k].lines PROVE FALSE
    OBVIOUS
  <2>1. c.claimOf[l] \in Go(b, d)
    BY <1>1, <1>3, <1>4
  <2>2. c.claimOf[l] # None
    BY <2>1, NoneIsNone DEF Go
  <2> QED BY <1>4, <2>2 DEF Turn
<1>6. b.claimOf[l] = None
  BY <1>1, <1>4, <1>5 DEF Turn
<1>7. PICK j \in b.waits[i].ahead : Stays(b, d, j) /\ l \in b.waits[j].lines
  BY <1>3, <1>6
<1>8. j \in Waiting(b)
  <2>1. b.waits[i].ahead \subseteq Ids
    BY <1>2, InBook DEF Waiter
  <2> QED BY <1>7, <2>1 DEF Stays, Waiting
<1>9. j \in Waiting(c)
  BY <1>1, <1>5, <1>7, <1>8
<1>10. Stays(c, d, j) /\ j \in c.waits[i].ahead /\ l \in c.waits[j].lines
  BY <1>1, <1>2, <1>3, <1>7, <1>8, <1>9 DEF Stays, Waiting
<1> QED BY <1>4, <1>10 DEF Turn

\* Lines go to those whose turn it is, who are behind nobody still waiting for them.
LEMMA ServedInTurn ==
  ASSUME NEW b \in Book, NEW d \in SUBSET Line, NEW l \in Line,
         MoveUp(b, d).claimOf[l] # b.claimOf[l]
  PROVE  LET c == MoveUp(b, d)
             i == c.claimOf[l]
         IN  /\ i \in Go(b, d) /\ i \in Waiting(b) /\ l \in b.waits[i].lines \cap d
             /\ i \notin Waiting(c)
             /\ c.claims[i] = Granted(b, d, i) /\ c.claims[i].who = b.waits[i].who
             /\ \A j \in Waiting(c) : l \in c.waits[j].lines => j \notin b.waits[i].ahead
<1> DEFINE c == MoveUp(b, d)
           i == c.claimOf[l]
<1>1. /\ Go(b, d) \subseteq Waiting(b)
      /\ \A k \in Ids : c.claims[k] = IF k \in Go(b, d) THEN Granted(b, d, k) ELSE b.claims[k]
      /\ \A n \in Line : c.claimOf[n] = IF n \in d /\ \E k \in Go(b, d) : n \in b.waits[k].lines
                                        THEN CHOOSE k \in Go(b, d) : k \in {j \in Go(b, d) : n \in b.waits[j].lines}
                                        ELSE b.claimOf[n]
      /\ Waiting(c) = {k \in Waiting(b) : Stays(b, d, k)} \ Go(b, d)
      /\ \A k \in Waiting(c) : c.waits[k].lines = b.waits[k].lines \cap d
  BY MoveUpIs
<1>2. c.claimOf[l] # b.claimOf[l]
  OBVIOUS
<1> HIDE DEF c
<1>3. l \in d /\ \E k \in Go(b, d) : l \in b.waits[k].lines
  BY <1>1, <1>2
<1>4. i \in Go(b, d) /\ l \in b.waits[i].lines
  BY <1>1, <1>3
<1>5. i \in Waiting(b) /\ i \in Ids /\ i \notin Waiting(c)
  BY <1>1, <1>4 DEF Waiting
<1>6. c.claims[i] = Granted(b, d, i)
  BY <1>1, <1>4, <1>5
<1>7. Granted(b, d, i).who = b.waits[i].who
  BY DEF Granted
<1>8. ASSUME NEW j \in Waiting(c), l \in c.waits[j].lines PROVE j \notin b.waits[i].ahead
  <2>1. Stays(b, d, j) /\ l \in b.waits[j].lines
    BY <1>1, <1>8
  <2> QED BY <1>3, <1>4, <2>1 DEF Go, Turn
<1> QED BY <1>3, <1>4, <1>5, <1>6, <1>7, <1>8 DEF c

\* What holds of steps that settle: while draining there are no more claims or places; ...
LEMMA SettlesNoMore ==
  ASSUME NEW b, NEW c, NEW e, NEW d, Settles(b, c, e, d), Draining
  PROVE  Standing(c) \subseteq Standing(b) /\ Waiting(c) \subseteq Waiting(b)
BY DEF Settles, Lets, Serve, Thins

\* ... while not, a line that is freed is nobody's turn; ...
LEMMA SettlesFreed ==
  ASSUME NEW b, NEW c, NEW e, NEW d \in SUBSET Line, Settles(b, c, e, d), ~Draining,
         NEW l \in d, NEW i \in Ids, b.claimOf[l] # None, c.claimOf[l] = None
  PROVE  ~Turn(c, d, i)
<1>1. PICK m : Lets(b, m, e) /\ c = Serve(m, d)
  BY DEF Settles
<1>2. m \in Book /\ c = MoveUp(m, d)
  BY <1>1 DEF Lets, Serve
<1> QED BY <1>2, NoneLeft

\* ... and a line that changes hands goes to a waiter behind nobody who still wants it.
LEMMA SettlesInTurn ==
  ASSUME NEW b \in Book, NEW c, NEW e \in SUBSET Line, NEW d \in SUBSET Line, Settles(b, c, e, d),
         NEW l \in e, NEW j \in Waiting(b) \cap Waiting(c), l \in c.waits[j].lines,
         c.claimOf[l] \notin {None, b.claimOf[l]}
  PROVE  c.claimOf[l] \in Waiting(b) /\ j \notin b.waits[c.claimOf[l]].ahead
<1>1. PICK m : Lets(b, m, e) /\ (c = Serve(m, d) \/ c = m)
  BY DEF Settles
<1>2. m \in Book /\ Thins(b, m) /\ m.claimOf[l] \in {None, b.claimOf[l]}
  BY <1>1 DEF Lets
<1>3. c = MoveUp(m, d) /\ c.claimOf[l] # m.claimOf[l]
  BY <1>1, <1>2 DEF Serve
<1>4. /\ c.claimOf[l] \in Waiting(m)
      /\ \A k \in Waiting(c) : l \in c.waits[k].lines => k \notin m.waits[c.claimOf[l]].ahead
  <2>1. MoveUp(m, d).claimOf[l] # m.claimOf[l] /\ l \in Line
    BY <1>3
  <2> QED BY <1>2, <1>3, <2>1, ServedInTurn
<1>5. j \in Waiting(m)
  <2>1. Thins(m, c)
    BY <1>2, <1>3, MoveUpKeeps
  <2> QED BY <2>1 DEF Thins
<1> QED BY <1>2, <1>4, <1>5 DEF Thins
LEMMA ShedsTwice ==
  ASSUME NEW b, NEW c, NEW m, NEW N, Sheds(b, c, {}), Sheds(c, m, N)
  PROVE  Sheds(b, m, N)
<1>1. /\ \A i \in Standing(m) :
           /\ i \in Standing(b)
           /\ m.claims[i].who = b.claims[i].who /\ m.claims[i].soft = b.claims[i].soft
           /\ m.claims[i].grant = b.claims[i].grant
           /\ b.claims[i].until = 0 => m.claims[i].until = 0
           /\ m.claims[i].lines \subseteq b.claims[i].lines \cup N
      /\ \A i \in Waiting(m) :
           i \in Waiting(b) /\ m.waits[i].who = b.waits[i].who /\ m.waits[i].lines \subseteq b.waits[i].lines
  BY DEF Sheds
<1>2. ASSUME NEW k \in Ids, m.rests[k] # None
      PROVE  \/ b.rests[k] # None /\ m.rests[k].who = b.rests[k].who /\ m.rests[k].lines = b.rests[k].lines
             \/ /\ k \in Standing(b) \ Standing(m)
                /\ m.rests[k].who = b.claims[k].who /\ m.rests[k].lines \subseteq b.claims[k].lines
  <2>1. CASE c.rests[k] # None /\ m.rests[k].who = c.rests[k].who /\ m.rests[k].lines = c.rests[k].lines
    BY <2>1 DEF Sheds
  <2>2. CASE /\ k \in Standing(c) \ Standing(m)
             /\ m.rests[k].who = c.claims[k].who /\ m.rests[k].lines \subseteq c.claims[k].lines
    BY <2>2 DEF Sheds
  <2> QED BY <1>2, <2>1, <2>2 DEF Sheds
<1> QED BY <1>1, <1>2 DEF Sheds

LEMMA ShedsSame == ASSUME NEW b PROVE Sheds(b, b, {})
BY DEF Sheds

LEMMA LetGoSheds ==
  ASSUME NEW b \in Book, NEW D \in SUBSET Standing(b)
  PROVE  Sheds(b, LetGo(b, D), {})
<1> DEFINE c == LetGo(b, D)
<1>1. /\ c.waits = b.waits /\ Standing(c) = Standing(b) \ D
      /\ \A i \in Standing(c) : c.claims[i] = b.claims[i]
      /\ \A i \in Ids : c.rests[i] = IF i \in D /\ Tires(b.claims[i]) THEN RestOf(b.claims[i])
                                     ELSE b.rests[i]
  BY LetGoIs DEF Standing
<1>2. \A i \in Ids : RestOf(b.claims[i]).who = b.claims[i].who /\ RestOf(b.claims[i]).lines = b.claims[i].lines
  BY DEF RestOf
<1> HIDE DEF c
<1>3. Sheds(b, c, {})
  BY <1>1, <1>2 DEF Sheds, Waiting
<1> QED BY <1>3 DEF c

LEMMA LiveSheds ==
  ASSUME NEW b \in Book
  PROVE  Sheds(b, Live(b), {})
<1>1. Lapsed(b) \in SUBSET Standing(b)
  BY DEF Lapsed
<1> QED BY <1>1, LetGoSheds DEF Live

LEMMA LeaveSheds ==
  ASSUME NEW b \in Book, NEW D
  PROVE  Sheds(b, Leave(b, D), {})
<1> DEFINE c == Leave(b, D)
<1>1. /\ c.claims = b.claims /\ c.rests = b.rests /\ Waiting(c) = Waiting(b) \ D
      /\ \A i \in Waiting(c) : c.waits[i].who = b.waits[i].who /\ c.waits[i].lines = b.waits[i].lines
  BY LeaveIs
<1> HIDE DEF c
<1>2. Sheds(b, c, {})
  BY <1>1 DEF Sheds, Standing
<1> QED BY <1>2 DEF c

LEMMA RenewedSheds ==
  ASSUME NEW b \in Book, b = book, NEW a, NEW claim \in Ids \cup {None}
  PROVE  Sheds(b, Renewed(b, a, claim), {})
<1> DEFINE c == Renewed(b, a, claim)
<1>1. /\ c.waits = b.waits /\ c.rests = b.rests /\ Standing(c) = Standing(b)
      /\ \A i \in Standing(b) : /\ c.claims[i].who = b.claims[i].who
                                /\ c.claims[i].lines = b.claims[i].lines
                                /\ c.claims[i].soft = b.claims[i].soft
                                /\ c.claims[i].grant = b.claims[i].grant
                                /\ b.claims[i].until = 0 => c.claims[i].until = 0
  BY RenewedIs
<1> HIDE DEF c
<1>2. Sheds(b, c, {})
  BY <1>1 DEF Sheds, Waiting
<1> QED BY <1>2 DEF c

LEMMA LinesShed ==
  ASSUME NEW b \in Book, NEW c, NEW S, NEW lines, NEW N, Relined(b, c, S, lines), c.rests = b.rests,
         \A i \in S : lines[i] \subseteq b.claims[i].lines \cup N
  PROVE  Sheds(b, c, N)
<1>1. /\ Standing(c) = Standing(b) /\ c.waits = b.waits
      /\ \A i \in Standing(b) : /\ c.claims[i].who = b.claims[i].who /\ c.claims[i].soft = b.claims[i].soft
                                /\ c.claims[i].grant = b.claims[i].grant
                                /\ c.claims[i].until = b.claims[i].until
                                /\ c.claims[i].lines = IF i \in S THEN lines[i] ELSE b.claims[i].lines
  <2>1. c.waits = b.waits
    BY DEF Relined
  <2> QED BY <2>1, LinesKeep
<1> QED BY <1>1 DEF Sheds, Waiting

LEMMA SeenSheds ==
  ASSUME NEW b \in Book, NEW c, NEW S, c.claims = b.claims, c.rests = b.rests,
         \A j \in Ids : c.waits[j] = IF j \in S \cap Waiting(b) THEN [b.waits[j] EXCEPT !.seen = KeepMs]
                                     ELSE b.waits[j]
  PROVE  Sheds(b, c, {})
<1>1. Thins(b, c)
  BY SeenKeeps
<1>2. ASSUME NEW j \in Waiting(c) PROVE c.waits[j].lines = b.waits[j].lines
  <2>1. j \in Ids /\ j \in Waiting(b)
    BY <1>1 DEF Thins, Waiting
  <2>2. b.waits[j] \in Waiter
    BY <2>1, InBook
  <2> QED BY <2>1, <2>2 DEF Waiter
<1> QED BY <1>1, <1>2 DEF Thins, Sheds, Standing

\* What lapsed stays lapsed as time passes.
LEMMA TickSheds ==
  ASSUME IInv, Tick
  PROVE  Sheds(book, book', {})
<1>1. book \in Book
  BY DEF IInv, TypeOK
<1>2. /\ \A i \in Ids : book'.claims[i] = IF book.claims[i] = None THEN None
                                          ELSE [book.claims[i] EXCEPT !.until = Down(@), !.cap = Down(@)]
      /\ \A i \in Ids : book'.rests[i] = IF book.rests[i] = None \/ book.rests[i].left = 1 THEN None
                                         ELSE [book.rests[i] EXCEPT !.left = @ - 1]
      /\ \A i \in Ids : book'.waits[i] = IF book.waits[i] = None THEN None
                                         ELSE [book.waits[i] EXCEPT !.seen = Down(@)]
  BY <1>1 DEF Tick, Book
<1>3. ASSUME NEW i \in Standing(book')
      PROVE  /\ i \in Standing(book)
             /\ book'.claims[i].who = book.claims[i].who /\ book'.claims[i].soft = book.claims[i].soft
             /\ book'.claims[i].grant = book.claims[i].grant
             /\ book.claims[i].until = 0 => book'.claims[i].until = 0
             /\ book'.claims[i].lines = book.claims[i].lines
  <2>1. i \in Ids /\ book.claims[i] # None /\ i \in Standing(book)
    BY <1>2 DEF Standing
  <2>2. book.claims[i] \in Claim
    BY <1>1, <2>1, InBook
  <2>3. book'.claims[i] = [book.claims[i] EXCEPT !.until = Down(book.claims[i].until), !.cap = Down(book.claims[i].cap)]
    BY <1>2, <2>1
  <2>4. Down(0) = 0
    BY DEF Down
  <2> QED BY <2>1, <2>2, <2>3, <2>4 DEF Claim
<1>4. ASSUME NEW i \in Waiting(book')
      PROVE  /\ i \in Waiting(book)
             /\ book'.waits[i].who = book.waits[i].who /\ book'.waits[i].lines = book.waits[i].lines
  <2>1. i \in Ids /\ book.waits[i] # None /\ i \in Waiting(book)
    BY <1>2 DEF Waiting
  <2>2. book.waits[i] \in Waiter
    BY <1>1, <2>1, InBook
  <2>3. book'.waits[i] = [book.waits[i] EXCEPT !.seen = Down(book.waits[i].seen)]
    BY <1>2, <2>1
  <2> QED BY <2>1, <2>2, <2>3 DEF Waiter
<1>5. ASSUME NEW k \in Ids, book'.rests[k] # None
      PROVE  /\ book.rests[k] # None
             /\ book'.rests[k].who = book.rests[k].who /\ book'.rests[k].lines = book.rests[k].lines
  <2>1. book.rests[k] # None /\ book'.rests[k] = [book.rests[k] EXCEPT !.left = @ - 1]
    BY <1>2, <1>5
  <2>2. book.rests[k] \in Rest
    BY <1>1, <2>1, InBook
  <2> QED BY <2>1, <2>2 DEF Rest
<1> QED BY <1>3, <1>4, <1>5 DEF Sheds

LEMMA LetGoLets ==
  ASSUME NEW b \in Book, NEW D \in SUBSET Standing(b)
  PROVE  Lets(b, LetGo(b, D), Line)
<1> DEFINE c == LetGo(b, D)
<1>1. c \in Book /\ Thins(b, c) /\ Standing(c) = Standing(b) \ D
  BY LetGoType, LetGoKeeps, LetGoIs
<1>2. \A l \in Line : c.claimOf[l] \in {None, b.claimOf[l]}
  BY LetGoIs
<1> HIDE DEF c
<1>3. Lets(b, c, Line)
  BY <1>1, <1>2 DEF Lets
<1> QED BY <1>3 DEF c

\* What lapsed let go, and when nothing had, nothing changed.
LEMMA LiveLets ==
  ASSUME NEW b \in Book
  PROVE  /\ Lets(b, Live(b), Line)
         /\ Lapsed(b) = {} => Live(b).claimOf = b.claimOf /\ Standing(Live(b)) = Standing(b)
<1>1. Lapsed(b) \in SUBSET Standing(b)
  BY DEF Lapsed
<1>2. Lets(b, Live(b), Line)
  BY <1>1, LetGoLets DEF Live
<1>3. ASSUME Lapsed(b) = {} PROVE Live(b).claimOf = b.claimOf
  BY <1>3 DEF Live, LetGo, Book
<1>4. ASSUME Lapsed(b) = {} PROVE Standing(Live(b)) = Standing(b)
  BY <1>1, <1>4, LetGoIs DEF Live
<1> QED BY <1>2, <1>3, <1>4

LEMMA ExtendSettles ==
  ASSUME IInv, NEW a, NEW i \in Ids, Extend(a, i)
  PROVE  Settles(book, book', doc, doc')
<1> DEFINE b == Live(book)
           more == [b.claims[i] EXCEPT !.cap = CapMs, !.until = Max2(b.claims[i].until, LeaseMs)]
           longer == [b EXCEPT !.claims = [b.claims EXCEPT ![i] = more]]
<1>1. book \in Book /\ doc \in SUBSET Line /\ doc' = doc /\ doc' \ doc = {}
  BY DEF IInv, TypeOK, Extend
<1>2. /\ Lets(book, b, Line)
      /\ Lapsed(book) = {} => b.claimOf = book.claimOf /\ Standing(b) = Standing(book)
  BY <1>1, LiveLets
<1>3. b.claims[i] # None /\ book' = Deferred(longer, doc)
  BY DEF Extend
<1>4. b \in Book /\ Sheds(book, b, {}) /\ b.claims[i].until # 0
  <2>1. Lapsed(book) \in SUBSET Standing(book)
    BY DEF Lapsed
  <2>2. Standing(b) = Standing(book) \ Lapsed(book)
    BY <1>1, <2>1, LetGoIs DEF Live
  <2>3. b.claims[i] = book.claims[i] /\ i \in Standing(b)
    BY <1>1, <1>3, <2>1, LetGoIs DEF Live, Standing
  <2> QED BY <1>1, <1>2, <2>2, <2>3, LiveSheds DEF Lets, Lapsed
<1> HIDE DEF b
<1>5. /\ more \in Claim /\ more.who = b.claims[i].who /\ more.soft = b.claims[i].soft
      /\ more.grant = b.claims[i].grant /\ more.lines = b.claims[i].lines
  <2>1. b.claims[i] \in Claim
    BY <1>3, <1>4 DEF Book
  <2>2. CapMs \in 0..Never /\ Max2(b.claims[i].until, LeaseMs) \in 0..Never
    BY <2>1, TimeAssumption DEF Claim, Never, Max2
  <2> QED BY <2>1, <2>2 DEF Claim
<1> HIDE DEF more
<1>6. /\ longer \in Book /\ longer.waits = b.waits /\ longer.claimOf = b.claimOf
      /\ longer.rests = b.rests
      /\ longer.claims[i] = more /\ \A k \in Ids : k # i => longer.claims[k] = b.claims[k]
  BY <1>4, <1>5 DEF Book
<1> HIDE DEF longer
<1>7. Standing(longer) \subseteq Standing(b)
  BY <1>3, <1>6 DEF Standing
<1>8. Lets(book, longer, doc)
  BY <1>1, <1>2, <1>6, <1>7 DEF Lets, Thins, Waiting
<1>9. Sheds(book, longer, {})
  <2>1. Sheds(b, longer, {})
    BY <1>3, <1>4, <1>5, <1>6, <1>7 DEF Sheds, Waiting, Standing
  <2> QED BY <1>4, <2>1, ShedsTwice
<1>10. CASE Lapsed(book) = {}
  BY <1>1, <1>2, <1>3, <1>6, <1>8, <1>9, <1>10 DEF Settles, Deferred
<1>11. CASE Lapsed(book) # {}
  BY <1>1, <1>3, <1>8, <1>9, <1>11 DEF Settles, Deferred
<1> QED BY <1>10, <1>11

LEMMA LapsesSettle ==
  ASSUME IInv, Look \/ Alarm
  PROVE  Settles(book, book', doc, doc')
<1>1. book \in Book /\ doc \in SUBSET Line /\ doc' = doc /\ book' = Serve(Live(book), doc')
  BY DEF IInv, TypeOK, Look, Alarm
<1>2. Lets(book, Live(book), doc) /\ Sheds(book, Live(book), doc' \ doc)
  <2>1. doc' \ doc = {}
    BY <1>1
  <2> QED BY <1>1, <2>1, LiveLets, LiveSheds DEF Lets
<1> QED BY <1>1, <1>2 DEF Settles

LEMMA ReleaseSettles ==
  ASSUME IInv, NEW i \in Ids, Release(i)
  PROVE  Settles(book, book', doc, doc')
<1> DEFINE m == IF i \in Standing(book) THEN LetGo(book, {i}) ELSE Leave(book, {i})
<1>1. book \in Book /\ doc \in SUBSET Line /\ doc' = doc /\ book' = Serve(m, doc')
  BY DEF IInv, TypeOK, Release
<1>2. Lets(book, m, doc) /\ Sheds(book, m, {})
  <2>1. CASE i \in Standing(book)
    <3>1. Lets(book, LetGo(book, {i}), Line)
      BY <1>1, <2>1, LetGoLets
    <3> QED BY <1>1, <2>1, <3>1, LetGoSheds DEF Lets
  <2>2. CASE i \notin Standing(book)
    <3> DEFINE c == Leave(book, {i})
    <3>1. c \in Book /\ Thins(book, c) /\ c.claims = book.claims /\ c.claimOf = book.claimOf
      BY <1>1, LeaveType, LeaveKeeps, LeaveIs
    <3> HIDE DEF c
    <3>2. Lets(book, c, doc)
      BY <3>1 DEF Lets, Standing
    <3> QED BY <1>1, <2>2, <3>2, LeaveSheds DEF c
  <2> QED BY <2>1, <2>2
<1>3. doc' \ doc = {}
  BY <1>1
<1> QED BY <1>1, <1>2, <1>3 DEF Settles

LEMMA RenewedLets ==
  ASSUME IInv, NEW a, NEW claim \in Ids \cup {None}
  PROVE  LET c == Renewed(book, a, claim)
         IN /\ Lets(book, c, Line) /\ Sheds(book, c, {}) /\ Standing(c) = Standing(book)
            /\ c.claimOf = book.claimOf /\ c.waits = book.waits
<1> DEFINE c == Renewed(book, a, claim)
<1>1. book \in Book /\ Sound(book, doc)
  BY DEF IInv, TypeOK
<1>2. /\ c \in Book /\ Thins(book, c) /\ Standing(c) = Standing(book)
      /\ c.claimOf = book.claimOf /\ c.waits = book.waits /\ Sheds(book, c, {})
  BY <1>1, RenewedOK, RenewedKeeps, RenewedIs, RenewedSheds
<1> HIDE DEF c
<1>3. Lets(book, c, Line)
  BY <1>2 DEF Lets
<1> QED BY <1>2, <1>3 DEF c

LEMMA SetLineSettles ==
  ASSUME IInv, NEW a, NEW l, NEW claim \in Ids \cup {None}, SetLine(a, l, claim)
  PROVE  Settles(book, book', doc, doc')
<1>1. book' = Renewed(book, a, claim) /\ doc' = doc /\ doc \in SUBSET Line
  BY DEF SetLine, IInv, TypeOK
<1>2. Lets(book, book', Line) /\ Sheds(book, book', {}) /\ book'.claimOf = book.claimOf
  BY <1>1, RenewedLets
<1>3. Lets(book, book', doc)
  BY <1>1, <1>2 DEF Lets
<1>4. doc' \ doc = {}
  BY <1>1
<1> QED BY <1>2, <1>3, <1>4 DEF Settles

LEMMA DeleteLineSettles ==
  ASSUME IInv, NEW a, NEW l, NEW claim \in Ids \cup {None}, DeleteLine(a, l, claim)
  PROVE  Settles(book, book', doc, doc')
<1> DEFINE b == Renewed(book, a, claim)
           lines == [i \in Ids |-> b.claims[i].lines \ {l}]
           claims == [i \in Ids |-> IF i \in On(b, l)
                                    THEN [b.claims[i] EXCEPT !.lines = @ \ {l}] ELSE b.claims[i]]
           less == [b EXCEPT !.claims = claims, !.claimOf = [b.claimOf EXCEPT ![l] = None]]
           empty == {i \in On(b, l) : less.claims[i].lines = {}}
<1>1. book \in Book /\ doc \in SUBSET Line /\ doc' = doc \ {l} /\ l \in Line
  BY DEF IInv, TypeOK, DeleteLine
<1>2. Lets(book, b, Line) /\ Sheds(book, b, {}) /\ Standing(b) = Standing(book) /\ b.claimOf = book.claimOf /\ b \in Book
  BY RenewedLets DEF Lets
<1>3. book' = IF empty = {} THEN less ELSE Serve(LetGo(less, empty), doc')
  BY DEF DeleteLine
<1> HIDE DEF b
<1>4. On(b, l) \subseteq Standing(b)
  BY DEF On
<1>5. /\ less.waits = b.waits /\ less.rests = b.rests
      /\ \A n \in Line : less.claimOf[n] = IF n = l THEN None ELSE b.claimOf[n]
      /\ \A i \in Ids : less.claims[i] = IF i \in On(b, l) THEN [b.claims[i] EXCEPT !.lines = lines[i]]
                                         ELSE b.claims[i]
  BY <1>2 DEF Book
<1>6. \A i \in On(b, l) : lines[i] \in SUBSET Line /\ lines[i] \subseteq b.claims[i].lines
  BY <1>2, <1>4, InBook DEF Claim
<1>7. less \in Book
  <2>1. claims \in [Ids -> Claim \cup {None}]
    <3>1. ASSUME NEW i \in On(b, l) PROVE claims[i] \in Claim
      <4>1. i \in Ids /\ b.claims[i] \in Claim /\ claims[i] = [b.claims[i] EXCEPT !.lines = lines[i]]
        BY <1>2, <1>4, <3>1, InBook
      <4> QED BY <1>6, <3>1, <4>1 DEF Claim
    <3>2. \A i \in Ids \ On(b, l) : claims[i] \in Claim \cup {None}
      BY <1>2 DEF Book
    <3> QED BY <3>1, <3>2
  <2>2. [b.claimOf EXCEPT ![l] = None] \in [Line -> Ids \cup {None}]
    BY <1>1, <1>2 DEF Book
  <2> HIDE DEF claims
  <2> QED BY <1>2, <2>1, <2>2 DEF Book
<1> HIDE DEF lines, less
<1>8. Standing(less) = Standing(b) /\ Thins(b, less) /\ Sheds(book, less, {})
  <2>1. Relined(b, less, On(b, l), lines)
    BY <1>4, <1>5, <1>6 DEF Relined
  <2>2. Sheds(b, less, {})
    BY <1>2, <1>5, <1>6, <2>1, LinesShed
  <2> QED BY <1>2, <2>1, <2>2, LinesKeep, ShedsTwice
<1>9. Lets(book, less, Line)
  <2>1. Thins(book, less)
    BY <1>2, <1>8, ThinsTwice DEF Lets
  <2> QED BY <1>2, <1>5, <1>7, <1>8, <2>1 DEF Lets
<1>10. doc' \ doc = {}
  BY <1>1
<1>11. CASE empty = {}
  <2>1. book' = less
    BY <1>3, <1>11
  <2>2. \A n \in doc' : book.claimOf[n] # None => book'.claimOf[n] # None
    BY <1>1, <1>2, <1>5, <2>1
  <2>3. Lets(book, less, doc)
    BY <1>1, <1>9 DEF Lets
  <2> QED BY <1>8, <1>10, <2>1, <2>2, <2>3 DEF Settles
<1>12. CASE empty # {}
  <2> DEFINE m == LetGo(less, empty)
  <2>1. empty \in SUBSET Standing(less)
    BY <1>4, <1>8
  <2>2. Lets(less, m, Line) /\ Sheds(less, m, {})
    BY <1>7, <2>1, LetGoLets, LetGoSheds
  <2>3. book' = Serve(m, doc')
    BY <1>3, <1>12
  <2> HIDE DEF m
  <2>4. Lets(book, m, doc)
    <3>1. Thins(book, m)
      BY <1>9, <2>2, ThinsTwice DEF Lets
    <3>2. \A n \in doc : m.claimOf[n] \in {None, book.claimOf[n]}
      BY <1>1, <1>9, <2>2 DEF Lets
    <3> QED BY <1>9, <2>2, <3>1, <3>2 DEF Lets
  <2>5. Sheds(book, m, {})
    BY <1>8, <2>2, ShedsTwice
  <2> QED BY <1>10, <2>3, <2>4, <2>5 DEF Settles
<1> QED BY <1>11, <1>12

\* An inserted line was in no claim; the others stay in theirs.
LEMMA InsertLineSettles ==
  ASSUME IInv, NEW a, NEW l, NEW claim \in Ids \cup {None}, InsertLine(a, l, claim)
  PROVE  Settles(book, book', doc, doc')
<1> DEFINE b == Renewed(book, a, claim)
           mine == IF l = None THEN {}
                   ELSE {i \in On(b, l) : b.claims[i].who = a /\ (a \in People \/ claim = i)}
           lines == [i \in Ids |-> b.claims[i].lines \cup {nextId}]
           more == [b EXCEPT
                     !.claims = [i \in Ids |-> IF i \in mine THEN [b.claims[i] EXCEPT !.lines = @ \cup {nextId}]
                                               ELSE b.claims[i]],
                     !.claimOf = [b.claimOf EXCEPT ![nextId] = Keeper(b, mine)]]
<1>1. /\ book \in Book /\ nextId \in Line /\ doc' = doc \cup {nextId} /\ nextId \notin doc
      /\ doc \in SUBSET Line /\ Agrees(book) /\ Grounded(book, doc)
  <2>1. nextId \in Line /\ doc' = doc \cup {nextId} /\ nextId \in Int
    BY LineAssumption DEF IInv, TypeOK, InsertLine, Line
  <2>2. nextId \notin 1..(nextId - 1)
    BY <2>1
  <2> QED BY <2>1, <2>2 DEF IInv, TypeOK, Minted, Sound
<1>2. Lets(book, b, Line) /\ Sheds(book, b, {}) /\ Standing(b) = Standing(book) /\ b.claimOf = book.claimOf /\ b \in Book
  BY RenewedLets DEF Lets
<1>3. book' = more
  BY DEF InsertLine
<1>4. book.claimOf[nextId] = None
  <2>1. ASSUME book.claimOf[nextId] # None PROVE FALSE
    <3>1. book.claimOf[nextId] \in Ids
      BY <1>1, <2>1, InBook
    <3>2. /\ book.claimOf[nextId] \in Standing(book)
          /\ nextId \in book.claims[book.claimOf[nextId]].lines
      BY <1>1, <3>1 DEF Agrees, Hard
    <3> QED BY <1>1, <3>2 DEF Grounded
  <2> QED BY <2>1
<1>5. book' \in Book
  BY InsertLineStep DEF IInv, TypeOK
<1> HIDE DEF b
<1>6. mine \subseteq Standing(b)
  BY DEF On
<1> HIDE DEF mine
<1>7. /\ more.waits = b.waits /\ more.rests = b.rests
      /\ \A n \in Line : n # nextId => more.claimOf[n] = b.claimOf[n]
      /\ \A i \in Ids : more.claims[i] = IF i \in mine THEN [b.claims[i] EXCEPT !.lines = lines[i]]
                                         ELSE b.claims[i]
  BY <1>2 DEF Book
<1>8. \A i \in mine : lines[i] \in SUBSET Line /\ lines[i] \subseteq b.claims[i].lines \cup {nextId}
  BY <1>1, <1>2, <1>6, InBook DEF Claim
<1> HIDE DEF lines, more
<1>9. Standing(more) = Standing(b) /\ Thins(b, more) /\ Sheds(book, more, {nextId})
  <2>1. Relined(b, more, mine, lines)
    BY <1>6, <1>7, <1>8 DEF Relined
  <2>2. Sheds(b, more, {nextId})
    BY <1>2, <1>7, <1>8, <2>1, LinesShed
  <2> QED BY <1>2, <2>1, <2>2, LinesKeep, ShedsTwice
<1>10. Thins(book, more)
  BY <1>2, <1>9, ThinsTwice DEF Lets
<1>11. \A n \in doc : more.claimOf[n] = book.claimOf[n]
  BY <1>1, <1>2, <1>7
<1>12. Lets(book, book', doc)
  BY <1>2, <1>3, <1>5, <1>9, <1>10, <1>11 DEF Lets
<1>13. \A n \in doc' : book.claimOf[n] # None => book'.claimOf[n] # None
  BY <1>1, <1>3, <1>4, <1>11
<1>14. doc' \ doc = {nextId}
  BY <1>1
<1> QED BY <1>3, <1>9, <1>12, <1>13, <1>14 DEF Settles

\* Steps that leave the index and the line alone.
LEMMA StillSettles ==
  ASSUME IInv, IInv', Thins(book, book'), Standing(book') \subseteq Standing(book),
         \A l \in Line : book'.claimOf[l] = book.claimOf[l], Sheds(book, book', {}), doc' = doc
  PROVE  Settles(book, book', doc, doc')
<1>1. book' \in Book /\ doc \subseteq Line /\ doc' \subseteq Line
  BY DEF IInv, TypeOK
<1>2. Lets(book, book', doc)
  BY <1>1 DEF Lets
<1>3. doc' \ doc = {}
  OBVIOUS
<1> QED BY <1>1, <1>2, <1>3 DEF Settles
\* The claim laid, on the book live() leaves, and the line served after.
LEMMA LayIs ==
  ASSUME IInv, NEW a \in Actors, NEW i \in Ids, NEW want \in SUBSET doc, NEW soft \in BOOLEAN,
         NEW ttl \in 0..Never, Lay(a, i, want, soft, ttl)
  PROVE  LET b == Live(book)
             laid == Laid(b, a, i, want, soft, ttl)
         IN  /\ Lets(book, b, Line) /\ b.waits = book.waits
             /\ Lapsed(book) = {} => b.claimOf = book.claimOf
             /\ laid \in Book /\ Lays(b, laid, i, NewClaim(b, a, i, want, soft, ttl))
             /\ book' = IF GivesUp(b, i) THEN Serve(laid, doc) ELSE Deferred(laid, doc)
             /\ doc' = doc
<1>1. book \in Book /\ doc \in SUBSET Line /\ want \in SUBSET Line /\ want # {}
  BY DEF IInv, TypeOK, Lay, MayLay, Heard
<1>2. Lets(book, Live(book), Line) /\ (Lapsed(book) = {} => Live(book).claimOf = book.claimOf)
  BY <1>1, LiveLets
<1>3. Live(book).waits = book.waits
  <2>1. Lapsed(book) \in SUBSET Standing(book)
    BY DEF Lapsed
  <2> QED BY <1>1, <2>1, LetGoIs DEF Live
<1> DEFINE b == Live(book)
           laid == Laid(b, a, i, want, soft, ttl)
<1>4. /\ book' = IF GivesUp(b, i) THEN Serve(laid, doc) ELSE Deferred(laid, doc)
      /\ doc' = doc
  BY DEF Lay
<1>5. b \in Book
  BY <1>2 DEF Lets
<1>6. laid \in Book
  BY <1>1, <1>5, LaidOK
<1>7. Lays(b, laid, i, NewClaim(b, a, i, want, soft, ttl))
  BY <1>1, <1>5, LaidIs
<1> QED BY <1>2, <1>3, <1>4, <1>6, <1>7

\* A draining file lays a claim for nobody who had none.
LEMMA LayNoMore ==
  ASSUME IInv, NEW a \in Actors, NEW i \in Ids, NEW want \in SUBSET doc, NEW soft \in BOOLEAN,
         NEW ttl \in 0..Never, Lay(a, i, want, soft, ttl), Draining
  PROVE  Hard(book') \subseteq Standing(book) /\ Waiting(book') \subseteq Waiting(book)
<1> DEFINE b == Live(book)
           laid == Laid(b, a, i, want, soft, ttl)
           claim == NewClaim(b, a, i, want, soft, ttl)
<1>1. /\ Lets(book, b, Line) /\ Lays(b, laid, i, claim)
      /\ book' = IF GivesUp(b, i) THEN Serve(laid, doc) ELSE Deferred(laid, doc)
  BY LayIs
<1>2. book' = laid
  BY <1>1 DEF Serve, Deferred
<1>3. b.claims[i] # None \/ soft
  BY DEF Lay, MayLay, Heard
<1>4. claim.soft = soft
  BY DEF NewClaim
<1> HIDE DEF b, laid, claim
<1>5. /\ laid.claims[i] = claim /\ Standing(laid) = Standing(b) \cup {i} /\ Waiting(laid) = Waiting(b) \ {i}
  BY <1>1 DEF Lays
<1>6. Standing(b) \subseteq Standing(book) /\ Waiting(b) \subseteq Waiting(book)
  BY <1>1 DEF Lets, Thins
<1> QED BY <1>2, <1>3, <1>4, <1>5, <1>6 DEF Hard, Standing

\* A line a claim gives up, or that lapsed as it was laid, is served on.
LEMMA LayFreed ==
  ASSUME IInv, NEW a \in Actors, NEW i \in Ids, NEW want \in SUBSET doc, NEW soft \in BOOLEAN,
         NEW ttl \in 0..Never, Lay(a, i, want, soft, ttl), ~Draining,
         NEW l \in doc, NEW k \in Ids, book.claimOf[l] # None, book'.claimOf[l] = None
  PROVE  ~Turn(book', doc', k)
<1> DEFINE b == Live(book)
           laid == Laid(b, a, i, want, soft, ttl)
           claim == NewClaim(b, a, i, want, soft, ttl)
<1>1. /\ Lapsed(book) = {} => b.claimOf = book.claimOf
      /\ laid \in Book /\ Lays(b, laid, i, claim)
      /\ book' = IF GivesUp(b, i) THEN Serve(laid, doc) ELSE Deferred(laid, doc)
      /\ doc' = doc
  BY LayIs
<1>2. doc \in SUBSET Line /\ l \in Line /\ i # None
  BY NoneIsNone DEF IInv, TypeOK
<1> HIDE DEF b, laid, claim
<1>3. CASE book' = MoveUp(laid, doc)
  BY <1>1, <1>2, <1>3, NoneLeft
<1>4. CASE book' # MoveUp(laid, doc)
  <2>1. b.claims[i] = None /\ Lapsed(book) = {} /\ book' = laid
    BY <1>1, <1>4 DEF GivesUp, Serve, Deferred
  <2>2. book'.claimOf[l] \in {i, b.claimOf[l]}
    BY <1>1, <1>2, <2>1 DEF Lays
  <2> QED BY <1>1, <1>2, <2>1, <2>2
<1> QED BY <1>3, <1>4

\* Whoever gets a line as a claim is laid isn't passing a waiter: an agent's claim waits its turn.
LEMMA LayInTurn ==
  ASSUME IInv, NEW a \in Actors, NEW i \in Ids, NEW want \in SUBSET doc, NEW soft \in BOOLEAN,
         NEW ttl \in 0..Never, Lay(a, i, want, soft, ttl),
         NEW l \in doc, NEW j \in Waiting(book) \cap Waiting(book'), NEW k, k = book'.claimOf[l],
         k \notin {None, book.claimOf[l]}, book'.claims[k].who \in Agents \/ book'.claims[k].grant,
         l \in book.waits[j].lines, l \in book'.waits[j].lines
  PROVE  k \in Waiting(book) /\ j \notin book.waits[k].ahead
<1> DEFINE b == Live(book)
           laid == Laid(b, a, i, want, soft, ttl)
           claim == NewClaim(b, a, i, want, soft, ttl)
<1>1. /\ Lets(book, b, Line) /\ b.waits = book.waits
      /\ laid \in Book /\ Lays(b, laid, i, claim)
      /\ book' = IF GivesUp(b, i) THEN Serve(laid, doc) ELSE Deferred(laid, doc)
  BY LayIs
<1>2. doc \in SUBSET Line /\ l \in Line
  BY DEF IInv, TypeOK
<1>3. claim.who = a /\ claim.grant = FALSE /\ claim.lines = want /\ claim.soft = soft
  BY DEF NewClaim
<1>4. ~soft => a \in People \/ Ahead(b, i, want) = {}
  BY DEF Lay, MayLay
<1> HIDE DEF b, laid, claim
<1>5. /\ laid.claims[i] = claim
      /\ laid.claimOf[l] = IF KeepsOff(claim, l) THEN i
                           ELSE IF b.claims[i] # None /\ l \in b.claims[i].lines /\ b.claimOf[l] = i
                                THEN None ELSE b.claimOf[l]
      /\ Waiting(laid) = Waiting(b) \ {i}
      /\ \A n \in Waiting(laid) : laid.waits[n].ahead = b.waits[n].ahead \ {i}
  BY <1>1, <1>2 DEF Lays
<1>6. b.claimOf[l] \in {None, book.claimOf[l]} /\ Waiting(b) = Waiting(book)
  BY <1>1, <1>2 DEF Lets, Waiting
<1>7. book' = laid \/ book' = MoveUp(laid, doc)
  BY <1>1 DEF Serve, Deferred
<1>8. Waiting(book') \subseteq Waiting(laid)
  BY <1>1, <1>2, <1>7, MoveUpKeeps DEF Thins
<1>9. CASE k = laid.claimOf[l]
  <2>1. k = i /\ ~soft /\ l \in want
    BY <1>3, <1>5, <1>6, <1>9 DEF KeepsOff
  <2>2. book'.claims[i] = claim
    <3>1. CASE book' = laid
      BY <1>5, <3>1
    <3>2. CASE book' = MoveUp(laid, doc)
      <4>1. /\ Go(laid, doc) \subseteq Waiting(laid)
            /\ \A n \in Ids : book'.claims[n] = IF n \in Go(laid, doc) THEN Granted(laid, doc, n)
                                                ELSE laid.claims[n]
        BY <1>1, <1>2, <3>2, MoveUpIs
      <4> QED BY <1>5, <4>1
    <3> QED BY <1>7, <3>1, <3>2
  <2>3. Ahead(b, i, want) = {}
    BY <1>3, <1>4, <2>1, <2>2, PeopleAgents
  <2>4. j \in Waiting(b) /\ b.waits[j].lines \cap want # {}
    BY <1>1, <1>6, <2>1
  <2>5. b.waits[i] # None /\ j \notin b.waits[i].ahead
    BY <2>3, <2>4 DEF Ahead
  <2> QED BY <1>1, <2>1, <2>5 DEF Waiting
<1>10. CASE k # laid.claimOf[l]
  <2>1. book' = MoveUp(laid, doc)
    BY <1>7, <1>10
  <2>2. k \in Waiting(laid) /\ j \notin laid.waits[k].ahead
    <3>1. MoveUp(laid, doc).claimOf[l] # laid.claimOf[l]
      BY <1>10, <2>1
    <3> QED BY <1>1, <1>2, <2>1, <3>1, ServedInTurn
  <2>3. j \in Waiting(laid)
    BY <1>8
  <2> QED BY <1>1, <1>5, <1>6, <2>2, <2>3
<1> QED BY <1>9, <1>10
\* s is what m becomes as what lapsed is served on; c is s but for an ask of i's that may be open.
Waited(c, s, m, line, i, d) ==
  /\ m \in Book
  /\ m.claims = line.claims /\ m.claimOf = line.claimOf /\ m.waits = line.waits /\ m.rests = line.rests
  /\ s = Deferred(m, d)
  /\ c.claims = s.claims /\ c.claimOf = s.claimOf /\ c.waits = s.waits /\ c.rests = s.rests
  /\ c.polls \in {s.polls, s.polls \cup {i}}

\* A place in line, taken or kept, on the book live() leaves.
LEMMA WaitIs ==
  ASSUME IInv, NEW a \in Actors, NEW i \in Ids, NEW want \in SUBSET doc, NEW hold \in BOOLEAN,
         NEW late \in BOOLEAN, Wait(a, i, want, hold, late)
  PROVE  LET b == Live(book)
             line == InLine(b, a, i, want)
         IN  /\ Lets(book, b, Line) /\ b.waits = book.waits /\ Orderly(b)
             /\ Lapsed(book) = {} => b.claimOf = book.claimOf
             /\ line.claims = b.claims /\ line.claimOf = b.claimOf
             /\ Waiting(line) = Waiting(book) \cup {i}
             /\ line.waits[i].seen = KeepMs
             /\ i \notin Waiting(book) => line.waits[i].who = a /\ line.waits[i].prior = Waiting(book)
             /\ \E m, s : Waited(book', s, m, line, i, doc)
             /\ doc' = doc
<1> DEFINE b == Live(book)
           line == InLine(b, a, i, want)
           open == IF hold THEN [line EXCEPT !.polls = line.polls \cup {i}] ELSE line
           served == Deferred(line, doc)
<1>1. book \in Book /\ doc \in SUBSET Line /\ want \in SUBSET Line /\ Sound(book, doc) /\ doc' = doc
  BY DEF IInv, TypeOK, Wait
<1>2. Lets(book, b, Line) /\ (Lapsed(book) = {} => b.claimOf = book.claimOf)
  BY <1>1, LiveLets
<1>3. b.waits = book.waits /\ b \in Book /\ Orderly(b)
  <2>1. Lapsed(book) \in SUBSET Standing(book)
    BY DEF Lapsed
  <2> QED BY <1>1, <2>1, LetGoIs, LiveOK DEF Live, Sound
<1>4. book' = IF late THEN Deferred(open, doc)
              ELSE IF hold THEN [served EXCEPT !.polls = served.polls \cup {i}] ELSE served
  BY DEF Wait
<1> HIDE DEF b
<1>5. Waiting(b) = Waiting(book)
  BY <1>3 DEF Waiting
<1>6. line \in Book
  BY <1>1, <1>3, InLineOK
<1>7. /\ line.claims = b.claims /\ line.claimOf = b.claimOf
      /\ Waiting(line) = Waiting(book) \cup {i} /\ line.waits[i].seen = KeepMs
      /\ i \notin Waiting(book) => line.waits[i].who = a /\ line.waits[i].prior = Waiting(book)
  <2>1. CASE i \in Waiting(b)
    BY <1>1, <1>3, <1>5, <2>1, AskedAgain
  <2>2. CASE i \notin Waiting(b)
    <3>1. line = Joined(b, a, i, want) /\ i \in Ids \ Waiting(b)
      BY <2>2 DEF InLine, Waiting
    <3> QED BY <1>1, <1>3, <1>5, <2>2, <3>1, JoinedIs
  <2> QED BY <2>1, <2>2
<1> HIDE DEF line
<1>8. \E m, s : Waited(book', s, m, line, i, doc)
  <2>1. CASE late
    <3>1. /\ open \in Book /\ open.claims = line.claims /\ open.claimOf = line.claimOf /\ open.waits = line.waits
          /\ open.rests = line.rests
      BY <1>6 DEF Book
    <3>2. book' = Deferred(open, doc)
      BY <1>4, <2>1
    <3> HIDE DEF open
    <3>3. Waited(book', book', open, line, i, doc)
      BY <3>1, <3>2 DEF Waited
    <3> QED BY <3>3
  <2>2. CASE ~late
    <3>1. served \in Book
      BY <1>1, <1>6, DeferredOK
    <3>2. book' = IF hold THEN [served EXCEPT !.polls = served.polls \cup {i}] ELSE served
      BY <1>4, <2>2
    <3>3. served = Deferred(line, doc)
      OBVIOUS
    <3> HIDE DEF served
    <3>4. /\ book'.claims = served.claims /\ book'.claimOf = served.claimOf /\ book'.waits = served.waits
          /\ book'.rests = served.rests
          /\ book'.polls \in {served.polls, served.polls \cup {i}}
      BY <3>1, <3>2 DEF Book
    <3>5. Waited(book', served, line, line, i, doc)
      BY <1>6, <3>3, <3>4 DEF Waited
    <3> QED BY <3>5
  <2> QED BY <2>1, <2>2
<1> QED BY <1>1, <1>2, <1>3, <1>7, <1>8 DEF b, line

\* A draining file takes no place in line from anyone who has no claim.
LEMMA WaitNoMore ==
  ASSUME IInv, NEW a \in Actors, NEW i \in Ids, NEW want \in SUBSET doc, NEW hold \in BOOLEAN,
         NEW late \in BOOLEAN, Wait(a, i, want, hold, late), Draining
  PROVE  Hard(book') \subseteq Standing(book) /\ Waiting(book') \subseteq Waiting(book) \cup Standing(book)
<1> DEFINE b == Live(book)
           line == InLine(b, a, i, want)
<1>1. /\ Lets(book, b, Line) /\ line.claims = b.claims /\ Waiting(line) = Waiting(book) \cup {i}
      /\ \E m, s : Waited(book', s, m, line, i, doc)
  BY WaitIs
<1>2. b.claims[i] # None
  BY DEF Wait, Heard
<1> HIDE DEF b, line
<1>3. PICK m, s : Waited(book', s, m, line, i, doc)
  BY <1>1
<1>4. s = m
  BY <1>3 DEF Waited, Deferred, Serve
<1>5. book'.claims = b.claims /\ book'.waits = line.waits
  BY <1>1, <1>3, <1>4 DEF Waited
<1>6. i \in Standing(b) /\ Standing(b) \subseteq Standing(book)
  BY <1>1, <1>2 DEF Standing, Lets
<1> QED BY <1>1, <1>5, <1>6 DEF Hard, Standing, Waiting

\* A line that lapsed as a place was taken is served on: who asked just now stays in line, held open or not.
LEMMA WaitFreed ==
  ASSUME IInv, NEW a \in Actors, NEW i \in Ids, NEW want \in SUBSET doc, NEW hold \in BOOLEAN,
         NEW late \in BOOLEAN, Wait(a, i, want, hold, late), ~Draining,
         NEW l \in doc, NEW k \in Ids, book.claimOf[l] # None, book'.claimOf[l] = None
  PROVE  ~Turn(book', doc', k)
<1> DEFINE b == Live(book)
           line == InLine(b, a, i, want)
<1>1. /\ Lapsed(book) = {} => b.claimOf = book.claimOf
      /\ line.claimOf = b.claimOf /\ line.waits[i].seen = KeepMs
      /\ \E m, s : Waited(book', s, m, line, i, doc)
      /\ doc' = doc
  BY WaitIs
<1> HIDE DEF b, line
<1>2. PICK m, s : Waited(book', s, m, line, i, doc)
  BY <1>1
<1>3. /\ m \in Book /\ m.claimOf = line.claimOf /\ m.waits = line.waits /\ s = Deferred(m, doc)
      /\ book'.claimOf = s.claimOf /\ book'.waits = s.waits
      /\ book'.polls \in {s.polls, s.polls \cup {i}}
  BY <1>2 DEF Waited
<1>4. s = MoveUp(m, doc)
  BY <1>1, <1>3 DEF Deferred, Serve
<1>5. doc \in SUBSET Line
  BY DEF IInv, TypeOK
<1>6. ~Turn(s, doc, k)
  BY <1>3, <1>4, <1>5, NoneLeft
<1>7. KeepMs > 0
  BY TimeAssumption
<1>8. i \in Waiting(s) => s.waits[i].seen = KeepMs
  BY <1>1, <1>3, <1>4, <1>5, MoveUpIs
<1>9. \A x : Stays(book', doc, x) <=> Stays(s, doc, x)
  <2> SUFFICES ASSUME NEW x PROVE Stays(book', doc, x) <=> Stays(s, doc, x)
    OBVIOUS
  <2>1. CASE x = i
    BY <1>3, <1>7, <1>8, <2>1 DEF Stays, Waiting
  <2>2. CASE x # i
    BY <1>3, <2>2 DEF Stays
  <2> QED BY <2>1, <2>2
<1> QED BY <1>1, <1>3, <1>6, <1>9 DEF Turn

\* Whoever gets a line as a place is taken isn't passing a waiter, but for one of a lower rank.
LEMMA WaitInTurn ==
  ASSUME IInv, RankOrder, NEW a \in Actors, NEW i \in IdsOf[a], NEW want \in SUBSET doc, NEW hold \in BOOLEAN,
         NEW late \in BOOLEAN, Wait(a, i, want, hold, late),
         NEW l \in doc, NEW j \in Waiting(book) \cap Waiting(book'), NEW k, k = book'.claimOf[l],
         k \notin {None, book.claimOf[l]}, l \in book'.waits[j].lines
  PROVE  \/ k \in Waiting(book) /\ j \notin book.waits[k].ahead
         \/ RankOf[book'.claims[k].who] > RankOf[book.waits[j].who]
<1> DEFINE b == Live(book)
           line == InLine(b, a, i, want)
<1>1. i \in Ids /\ doc \in SUBSET Line /\ l \in Line /\ want \in SUBSET Line
  BY IdsAssumption DEF IInv, TypeOK
<1>2. /\ Lets(book, b, Line) /\ b.waits = book.waits /\ Orderly(b)
      /\ line.claimOf = b.claimOf
      /\ Waiting(line) = Waiting(book) \cup {i}
      /\ i \notin Waiting(book) => line.waits[i].who = a /\ line.waits[i].prior = Waiting(book)
      /\ \E m, s : Waited(book', s, m, line, i, doc)
  BY <1>1, WaitIs
<1> HIDE DEF b
<1>3. b \in Book /\ Ranks(b) /\ Waiting(b) = Waiting(book)
  BY <1>2 DEF Lets, Ranks, RankOrder, Waiting
<1>4. Steady(b, line) /\ Ranks(line)
  BY <1>1, <1>2, <1>3, InLineKeeps
<1> HIDE DEF line
<1>5. PICK m, s : Waited(book', s, m, line, i, doc)
  BY <1>2
<1>6. /\ m \in Book /\ m.claimOf = line.claimOf /\ m.waits = line.waits /\ s = Deferred(m, doc)
      /\ book'.claimOf = s.claimOf /\ book'.waits = s.waits /\ book'.claims = s.claims
  BY <1>5 DEF Waited
<1>7. m.claimOf[l] \in {None, book.claimOf[l]}
  BY <1>1, <1>2, <1>6 DEF Lets
<1>8. s = MoveUp(m, doc) /\ s.claimOf[l] # m.claimOf[l] /\ k = s.claimOf[l]
  BY <1>6, <1>7 DEF Deferred, Serve
<1>9. /\ k \in Waiting(m) /\ s.claims[k].who = m.waits[k].who
      /\ \A x \in Waiting(s) : l \in s.waits[x].lines => x \notin m.waits[k].ahead
  <2>1. MoveUp(m, doc).claimOf[l] # m.claimOf[l]
    BY <1>8
  <2> QED BY <1>1, <1>6, <1>8, <2>1, ServedInTurn
<1>10. j \in Waiting(s) /\ l \in s.waits[j].lines /\ j \notin line.waits[k].ahead /\ k \in Waiting(line)
  BY <1>6, <1>9 DEF Waiting
<1>11. j \in Waiting(b) /\ j \in Waiting(line)
  BY <1>2, <1>3
<1>12. CASE k \in Waiting(book)
  BY <1>2, <1>3, <1>4, <1>10, <1>11, <1>12 DEF Steady
<1>13. CASE k \notin Waiting(book)
  <2>1. k = i /\ line.waits[i].prior = Waiting(book) /\ line.waits[i].who = a
    BY <1>2, <1>10, <1>13
  <2>2. ~(\/ RankOf[line.waits[j].who] > RankOf[line.waits[i].who]
          \/ RankOf[line.waits[j].who] = RankOf[line.waits[i].who] /\ j \in line.waits[i].prior)
    BY <1>4, <1>10, <1>11, <2>1 DEF Ranks
  <2>3. line.waits[j].who = book.waits[j].who
    BY <1>2, <1>4, <1>11 DEF Steady
  <2>4. RankOf[a] \in Nat /\ RankOf[book.waits[j].who] \in Nat
    <3>1. book.waits[j].who \in Actors
      BY InBook DEF IInv, TypeOK, Waiter
    <3> QED BY <3>1, RankAssumption
  <2>5. RankOf[a] > RankOf[book.waits[j].who]
    BY <2>1, <2>2, <2>3, <2>4
  <2>6. book'.claims[k].who = a
    BY <1>6, <1>9, <2>1
  <2> QED BY <2>5, <2>6
<1> QED BY <1>12, <1>13
Asked ==
  \E a \in Actors : \E i \in IdsOf[a], want \in SUBSET doc :
    \/ \E soft \in BOOLEAN, ttl \in 0..Never : soft \in Softs /\ Lay(a, i, want, soft, ttl)
    \/ \E hold, late \in BOOLEAN : Wait(a, i, want, hold, late)

\* Every step but an ask or a restart settles.
LEMMA NextSettles ==
  ASSUME IInv, [Next]_vars
  PROVE  \/ Asked
         \/ Restart /\ "restart" \in Happens
         \/ /\ Settles(book, book', doc, doc')
            /\ drain' = drain \/ book'.claimOf = book.claimOf
<1>1. IInv' /\ book \in Book /\ book' \in Book
  BY NextIInv DEF IInv, TypeOK
<1> DEFINE Done == /\ Settles(book, book', doc, doc')
                   /\ drain' = drain \/ book'.claimOf = book.claimOf
<1>2. ASSUME NEW a \in Actors, Ask(a) PROVE Asked
  <2>1. \A soft \in Softs : soft \in BOOLEAN
    BY SoftAssumption
  <2>2. \A ttl \in Ttls \cup {DefaultTtl(a)} : ttl \in 0..Never
    <3>1. DefaultTtl(a) \in 0..Never
      BY TimeAssumption DEF DefaultTtl, Never
    <3>2. 0..CapMs \subseteq 0..Never
      BY TimeAssumption DEF Never
    <3> QED BY <3>1, <3>2, TtlAssumption
  <2> QED BY <1>2, <2>1, <2>2 DEF Ask, Asked
<1>3. ASSUME NEW a \in People, NEW i \in Ids, Extend(a, i) PROVE Done
  BY <1>3, ExtendSettles DEF Extend
<1>4. ASSUME NEW a \in Actors \cup {None}, Edit(a) PROVE Done
  <2>1. PICK claim \in IF a = None THEN {None} ELSE IdsOf[a] \cup {None} :
          \/ \E l \in doc : SetLine(a, l, claim) \/ DeleteLine(a, l, claim)
          \/ \E l \in doc \cup {None} : InsertLine(a, l, claim)
    BY <1>4 DEF Edit
  <2>2. claim \in Ids \cup {None}
    BY IdsAssumption
  <2>3. Settles(book, book', doc, doc')
    BY <2>1, <2>2, SetLineSettles, DeleteLineSettles, InsertLineSettles
  <2>4. drain' = drain
    BY <2>1 DEF SetLine, DeleteLine, InsertLine
  <2> QED BY <2>3, <2>4
<1>5. ASSUME NEW i \in Ids, Release(i) PROVE Done
  BY <1>5, ReleaseSettles DEF Release
<1>6. ASSUME NEW i \in Ids, PollEnd(i) PROVE Done
  <2>1. /\ book'.claims = book.claims /\ book'.claimOf = book.claimOf /\ book'.rests = book.rests
        /\ drain' = drain /\ doc' = doc
        /\ \A j \in Ids : book'.waits[j] = IF j \in {i} \cap Waiting(book)
                                           THEN [book.waits[j] EXCEPT !.seen = KeepMs] ELSE book.waits[j]
    BY <1>1, <1>6 DEF PollEnd, Book
  <2>2. Thins(book, book') /\ Standing(book') = Standing(book)
    BY <1>1, <2>1, SeenKeeps
  <2>3. Sheds(book, book', {})
    BY <1>1, <2>1, SeenSheds
  <2> QED BY <1>1, <2>1, <2>2, <2>3, StillSettles
<1>7. ASSUME Begin PROVE Done
  <2>1. /\ book'.claims = book.claims /\ book'.claimOf = book.claimOf /\ book'.rests = book.rests
        /\ doc' = doc
        /\ \A j \in Ids : book'.waits[j] = IF j \in book.polls \cap Waiting(book)
                                           THEN [book.waits[j] EXCEPT !.seen = KeepMs] ELSE book.waits[j]
    BY <1>1, <1>7 DEF Begin, Book
  <2>2. Thins(book, book') /\ Standing(book') = Standing(book)
    BY <1>1, <2>1, SeenKeeps
  <2>3. Sheds(book, book', {})
    BY <1>1, <2>1, SeenSheds
  <2> QED BY <1>1, <2>1, <2>2, <2>3, StillSettles
<1>8. ASSUME Look \/ Alarm PROVE Done
  BY <1>8, LapsesSettle DEF Look, Alarm
<1>9. ASSUME Warn \/ WarningOver \/ Cancel \/ UNCHANGED vars PROVE Done
  <2>1. book' = book /\ doc' = doc
    BY <1>9 DEF Warn, WarningOver, Cancel, vars
  <2>2. Thins(book, book') /\ Sheds(book, book', {})
    BY <2>1, ThinsSame, ShedsSame
  <2> QED BY <1>1, <2>1, <2>2, StillSettles
<1>10. ASSUME Wipe PROVE Done
  <2>1. book' = EmptyBook /\ doc' = {} /\ drain' = drain /\ doc \subseteq Line
    BY <1>10 DEF Wipe, IInv, TypeOK
  <2>2. Waiting(book') = {} /\ Standing(book') = {} /\ \A l \in Line : book'.claimOf[l] = None
    BY <2>1 DEF EmptyBook, Waiting, Standing
  <2>3. Lets(book, book', doc) /\ Sheds(book, book', doc' \ doc)
    <3>1. \A k \in Ids : book'.rests[k] = None
      BY <2>1 DEF EmptyBook
    <3> QED BY <1>1, <2>1, <2>2, <3>1 DEF Lets, Thins, Sheds
  <2>4. \A l \in doc' : book.claimOf[l] # None => book'.claimOf[l] # None
    BY <2>1
  <2>5. Settles(book, book', doc, doc')
    BY <2>3, <2>4 DEF Settles
  <2> QED BY <2>1, <2>5
<1>11. ASSUME Tick PROVE Done
  <2>1. book'.claimOf = book.claimOf /\ drain' = drain /\ doc' = doc
    BY <1>1, <1>11 DEF Tick, Book
  <2>2. Thins(book, book') /\ Standing(book') \subseteq Standing(book) /\ Sheds(book, book', {})
    BY <1>11, TickKeeps, TickSheds
  <2> QED BY <1>1, <2>1, <2>2, StillSettles
<1> HIDE DEF Done
<1>12. Asked \/ (Restart /\ "restart" \in Happens) \/ Done
  BY <1>2, <1>3, <1>4, <1>5, <1>6, <1>7, <1>8, <1>9, <1>10, <1>11 DEF Next
<1> QED BY <1>12 DEF Done

\* A restart finds each line in the claim it was in.
LEMMA RestartIndex ==
  ASSUME IInv, IInv', Restart, NEW l \in Line
  PROVE  book'.claimOf[l] = book.claimOf[l]
<1>1. book \in Book /\ book' \in Book /\ Agrees(book) /\ Agrees(book')
  BY DEF IInv, TypeOK, Sound
<1>2. \A i \in Ids : book'.claims[i] = IF /\ book.claims[i] # None /\ book.claims[i].grant
                                             /\ book.claims[i].until < GrantMs
                                       THEN [book.claims[i] EXCEPT !.until = GrantMs] ELSE book.claims[i]
  BY <1>1 DEF Restart, ReadBack, Book
<1>3. ASSUME NEW i \in Ids
      PROVE  i \in Hard(book') /\ l \in book'.claims[i].lines <=> i \in Hard(book) /\ l \in book.claims[i].lines
  <2>1. CASE book.claims[i] # None /\ book.claims[i].grant /\ book.claims[i].until < GrantMs
    <3>1. book.claims[i] \in Claim
      BY <1>1, <2>1 DEF Book
    <3>2. book'.claims[i] = [book.claims[i] EXCEPT !.until = GrantMs]
      BY <1>2, <2>1
    <3>3. book'.claims[i].soft = book.claims[i].soft /\ book'.claims[i].lines = book.claims[i].lines
      BY <3>1, <3>2 DEF Claim
    <3>4. book'.claims[i] # None
      <4>1. book'.claims[i] \in Claim \/ book'.claims[i] = None
        BY <1>1 DEF Book
      <4>2. GrantMs \in 0..Never
        BY TimeAssumption DEF Never
      <4>3. book'.claims[i] \in Claim
        BY <3>1, <3>2, <4>2 DEF Claim
      <4> QED BY <4>3, NoneIsNone
    <3> QED BY <2>1, <3>3, <3>4 DEF Hard, Standing
  <2>2. CASE ~(book.claims[i] # None /\ book.claims[i].grant /\ book.claims[i].until < GrantMs)
    BY <1>2, <2>2 DEF Hard, Standing
  <2> QED BY <2>1, <2>2
<1>4. \A i \in Ids : book'.claimOf[l] = i <=> book.claimOf[l] = i
  BY <1>1, <1>3 DEF Agrees
<1>5. book'.claimOf[l] \in Ids \cup {None} /\ book.claimOf[l] \in Ids \cup {None}
  BY <1>1 DEF Book
<1> QED BY <1>4, <1>5

\* While the object drains, nobody without a claim gets one, or a place, and the line isn't served: whatever
\* lapses, is released, asked for or deleted, until a restart or a cancelled drain (`serve`, `soon`).
THEOREM DrainingTakesNone == Spec => DrainTakesNoneNew
<1>1. IInv /\ [Next]_vars =>
        [Draining /\ drain' # "off" =>
           /\ Hard(book') \subseteq Standing(book)
           /\ Waiting(book') \subseteq Waiting(book) \cup Standing(book)]_vars
  <2> SUFFICES ASSUME IInv, [Next]_vars, Draining, drain' # "off"
               PROVE  /\ Hard(book') \subseteq Standing(book)
                      /\ Waiting(book') \subseteq Waiting(book) \cup Standing(book)
    OBVIOUS
  <2>1. CASE Asked
    <3>1. PICK a \in Actors : \E i \in IdsOf[a], want \in SUBSET doc :
             \/ \E soft \in BOOLEAN, ttl \in 0..Never : Lay(a, i, want, soft, ttl)
             \/ \E hold, late \in BOOLEAN : Wait(a, i, want, hold, late)
      BY <2>1 DEF Asked
    <3>2. IdsOf[a] \subseteq Ids
      BY IdsAssumption
    <3> QED BY <3>1, <3>2, LayNoMore, WaitNoMore
  <2>2. CASE Restart
    BY <2>2 DEF Restart
  <2>3. CASE Settles(book, book', doc, doc')
    BY <2>3, SettlesNoMore DEF Hard
  <2> QED BY <2>1, <2>2, <2>3, NextSettles
<1>2. Spec => [][Draining /\ drain' # "off" =>
                   /\ Hard(book') \subseteq Standing(book)
                   /\ Waiting(book') \subseteq Waiting(book) \cup Standing(book)]_vars
  BY <1>1, Invariant, PTL DEF Spec
<1> QED BY <1>2 DEF DrainTakesNoneNew

LEMMA FreedIsServed ==
  ASSUME IInv, [Next]_vars, NEW l \in doc', NEW i \in Ids,
         book.claimOf[l] # None, book'.claimOf[l] = None, ~Draining'
  PROVE  ~Turn(book', doc', i)
<1>1. IInv' /\ doc' \in SUBSET Line
  BY NextIInv DEF IInv, TypeOK
<1>2. CASE Asked
  <2>1. PICK a \in Actors : \E k \in IdsOf[a], want \in SUBSET doc :
           \/ \E soft \in BOOLEAN, ttl \in 0..Never : Lay(a, k, want, soft, ttl)
           \/ \E hold, late \in BOOLEAN : Wait(a, k, want, hold, late)
    BY <1>2 DEF Asked
  <2>2. IdsOf[a] \subseteq Ids
    BY IdsAssumption
  <2>3. doc' = doc /\ drain' = drain
    BY <2>1 DEF Lay, Wait
  <2>4. ~Draining /\ l \in doc
    BY <2>3 DEF Draining
  <2> QED BY <2>1, <2>2, <2>4, LayFreed, WaitFreed
<1>3. CASE Restart
  BY <1>1, <1>3, RestartIndex
<1>4. CASE Settles(book, book', doc, doc') /\ (drain' = drain \/ book'.claimOf = book.claimOf)
  <2>1. drain' = drain
    BY <1>4
  <2>2. ~Draining
    BY <2>1 DEF Draining
  <2> QED BY <1>1, <1>4, <2>2, SettlesFreed
<1> QED BY <1>2, <1>3, <1>4, NextSettles

\* A line let go, lapsed, given up by a renewal or freed by an edit goes on to whoever's turn it then is, in
\* the same step: no handler leaves a line free that a waiter could have.
THEOREM FreedLinesGoOn == Spec => FreedGoesOn
<1>1. IInv /\ [Next]_vars =>
        [\A l \in doc', i \in Ids :
           book.claimOf[l] # None /\ book'.claimOf[l] = None /\ ~Draining'
             => ~(Turn(book', doc', i) /\ l \in book'.waits[i].lines)]_vars
  BY FreedIsServed
<1>2. Spec => [][\A l \in doc', i \in Ids :
                   book.claimOf[l] # None /\ book'.claimOf[l] = None /\ ~Draining'
                     => ~(Turn(book', doc', i) /\ l \in book'.waits[i].lines)]_vars
  BY <1>1, Invariant, PTL DEF Spec
<1> QED BY <1>2 DEF FreedGoesOn

LEMMA TakenInTurn ==
  ASSUME IInv, RankOrder, [Next]_vars, NEW l \in doc, NEW j \in Waiting(book) \cap Waiting(book'),
         NEW i, i = book'.claimOf[l], i \notin {None, book.claimOf[l]},
         book'.claims[i].who \in Agents \/ book'.claims[i].grant,
         l \in book.waits[j].lines \cap book'.waits[j].lines
  PROVE  \/ i \in Waiting(book) /\ j \notin book.waits[i].ahead
         \/ RankOf[book'.claims[i].who] > RankOf[book.waits[j].who]
<1>1. IInv' /\ book \in Book /\ doc \in SUBSET Line /\ doc' \in SUBSET Line
  BY NextIInv DEF IInv, TypeOK
<1>2. CASE Asked
  <2>0. PICK a \in Actors : \E k \in IdsOf[a], want \in SUBSET doc :
           \/ \E soft \in BOOLEAN, ttl \in 0..Never : Lay(a, k, want, soft, ttl)
           \/ \E hold, late \in BOOLEAN : Wait(a, k, want, hold, late)
    BY <1>2 DEF Asked
  <2>1. PICK k \in IdsOf[a], want \in SUBSET doc :
           \/ \E soft \in BOOLEAN, ttl \in 0..Never : Lay(a, k, want, soft, ttl)
           \/ \E hold, late \in BOOLEAN : Wait(a, k, want, hold, late)
    BY <2>0
  <2>2. k \in Ids
    BY IdsAssumption
  <2>3. ASSUME NEW soft \in BOOLEAN, NEW ttl \in 0..Never, Lay(a, k, want, soft, ttl)
        PROVE  i \in Waiting(book) /\ j \notin book.waits[i].ahead
    BY <2>2, <2>3, LayInTurn
  <2>4. ASSUME NEW hold \in BOOLEAN, NEW late \in BOOLEAN, Wait(a, k, want, hold, late)
        PROVE  \/ i \in Waiting(book) /\ j \notin book.waits[i].ahead
               \/ RankOf[book'.claims[i].who] > RankOf[book.waits[j].who]
    BY <2>4, WaitInTurn
  <2> QED BY <2>1, <2>3, <2>4
<1>3. CASE Restart
  BY <1>1, <1>3, RestartIndex
<1>4. CASE Settles(book, book', doc, doc')
  BY <1>1, <1>4, SettlesInTurn
<1> QED BY <1>2, <1>3, <1>4, NextSettles

\* Lines change hands in turn: an agent, or whoever is granted a place, takes no line that a waiter ahead
\* of it wants and goes on waiting for, however lines are freed; only a higher rank goes before.
THEOREM LinesTakenInTurn == InOrder => (Spec => NoBarging)
<1> SUFFICES ASSUME InOrder PROVE Spec => NoBarging
  OBVIOUS
<1>1. IInv /\ RankOrder /\ [Next]_vars =>
        [\A l \in doc, j \in Waiting(book) \cap Waiting(book') :
           LET i == book'.claimOf[l]
           IN  /\ i \notin {None, book.claimOf[l]}
               /\ book'.claims[i].who \in Agents \/ book'.claims[i].grant
               /\ l \in book.waits[j].lines \cap book'.waits[j].lines
               => \/ i \in Waiting(book) /\ j \notin book.waits[i].ahead
                  \/ RankOf[book'.claims[i].who] > RankOf[book.waits[j].who]]_vars
  BY TakenInTurn
<1>2. Spec => []RankOrder
  BY LineByRank
<1>3. Spec => [][\A l \in doc, j \in Waiting(book) \cap Waiting(book') :
                   LET i == book'.claimOf[l]
                   IN  /\ i \notin {None, book.claimOf[l]}
                       /\ book'.claims[i].who \in Agents \/ book'.claims[i].grant
                       /\ l \in book.waits[j].lines \cap book'.waits[j].lines
                       => \/ i \in Waiting(book) /\ j \notin book.waits[i].ahead
                          \/ RankOf[book'.claims[i].who] > RankOf[book.waits[j].who]]_vars
  BY <1>1, <1>2, Invariant, PTL DEF Spec
<1> QED BY <1>3 DEF NoBarging
-----------------------------------------------------------------------------
(* Rests.                                                                  *)

\* i keeps others off the line, by a claim that hasn't lapsed.
Has(b, i, l) == i \in Hard(b) /\ l \in b.claims[i].lines /\ b.claims[i].until > 0

WaitsFor(b, i, l) == i \in Waiting(b) /\ l \in b.waits[i].lines

\* Nobody resting asked for the line: a rest of `who` from it there isn't.
Fresh(b, who, l) == \A k \in Ids : b.rests[k] # None /\ l \in b.rests[k].lines => who # b.rests[k].who

\* Who is served has what it had, or what it waited for; rests are left alone.
LEMMA ServedHave ==
  ASSUME NEW b \in Book, NEW d \in SUBSET Line, NEW i, NEW l
  PROVE  LET c == MoveUp(b, d)
         IN  /\ c.rests = b.rests
             /\ Has(c, i, l) => \/ Has(b, i, l) /\ c.claims[i].who = b.claims[i].who
                                \/ WaitsFor(b, i, l) /\ c.claims[i].who = b.waits[i].who
             /\ WaitsFor(c, i, l) => WaitsFor(b, i, l) /\ c.waits[i].who = b.waits[i].who
<1> DEFINE c == MoveUp(b, d)
<1>1. /\ c.rests = b.rests
      /\ Go(b, d) \subseteq Waiting(b)
      /\ \A k \in Ids : c.claims[k] = IF k \in Go(b, d) THEN Granted(b, d, k) ELSE b.claims[k]
      /\ Standing(c) = Standing(b) \cup Go(b, d)
      /\ Waiting(c) \subseteq Waiting(b)
      /\ \A k \in Waiting(c) : c.waits[k].who = b.waits[k].who /\ c.waits[k].lines = b.waits[k].lines \cap d
  BY MoveUpIs
<1>2. \A k \in Ids : Granted(b, d, k).who = b.waits[k].who /\ Granted(b, d, k).lines = b.waits[k].lines \cap d
  BY DEF Granted, ThatAreThere
<1> HIDE DEF c
<1>3. ASSUME Has(c, i, l)
      PROVE  \/ Has(b, i, l) /\ c.claims[i].who = b.claims[i].who
             \/ WaitsFor(b, i, l) /\ c.claims[i].who = b.waits[i].who
  <2>1. i \in Ids /\ i \in Standing(c) /\ ~c.claims[i].soft
    BY <1>3 DEF Has, Hard, Standing
  <2>2. CASE i \in Go(b, d)
    BY <1>1, <1>2, <1>3, <2>1, <2>2 DEF Has, WaitsFor
  <2>3. CASE i \notin Go(b, d)
    <3>1. i \in Standing(b) /\ c.claims[i] = b.claims[i]
      BY <1>1, <2>1, <2>3
    <3> QED BY <1>3, <2>1, <3>1 DEF Has, Hard
  <2> QED BY <2>2, <2>3
<1>4. WaitsFor(c, i, l) => WaitsFor(b, i, l) /\ c.waits[i].who = b.waits[i].who
  BY <1>1 DEF WaitsFor
<1> QED BY <1>1, <1>3, <1>4 DEF c

\* The claims live() leaves are those that haven't lapsed; what is asked for and the line stay.
LEMMA LiveLeaves ==
  ASSUME NEW b \in Book, NEW i \in Ids
  PROVE  /\ Live(b).waits = b.waits
         /\ i \notin Standing(Live(b)) => i \notin Standing(b) \/ b.claims[i].until = 0
<1>1. Lapsed(b) \in SUBSET Standing(b)
  BY DEF Lapsed
<1>2. Live(b).waits = b.waits /\ Standing(Live(b)) = Standing(b) \ Lapsed(b)
  BY <1>1, LetGoIs DEF Live
<1> QED BY <1>2 DEF Lapsed

\* Steps that let go and serve bring nobody to a line.
LEMMA SettlesBringNone ==
  ASSUME NEW b \in Book, NEW c, NEW e, NEW d \in SUBSET Line, Settles(b, c, e, d),
         NEW i \in Ids, NEW l, i \notin Standing(Live(b)), ~WaitsFor(b, i, l)
  PROVE  ~Has(c, i, l) /\ ~WaitsFor(c, i, l)
<1>1. PICK m : Lets(b, m, e) /\ Sheds(b, m, d \ e) /\ (c = Serve(m, d) \/ c = m)
  BY DEF Settles
<1>2. m \in Book
  BY <1>1 DEF Lets
<1>3. ~WaitsFor(m, i, l)
  BY <1>1 DEF Sheds, WaitsFor
<1>4. ~Has(m, i, l)
  <2> SUFFICES ASSUME Has(m, i, l) PROVE FALSE
    OBVIOUS
  <2>1. i \in Standing(m) /\ m.claims[i].until > 0
    BY DEF Has, Hard
  <2>2. i \in Standing(b) /\ (b.claims[i].until = 0 => m.claims[i].until = 0)
    BY <1>1, <2>1 DEF Sheds
  <2> QED BY <2>1, <2>2, LiveLeaves
<1>5. CASE c = m
  BY <1>3, <1>4, <1>5
<1>6. CASE c = MoveUp(m, d)
  BY <1>2, <1>3, <1>4, <1>6, ServedHave
<1> QED BY <1>1, <1>5, <1>6 DEF Serve

\* A claim laid afresh is on lines its holder doesn't rest from, and brings nobody else to one.
LEMMA LayFresh ==
  ASSUME IInv, NEW a \in Actors, NEW j \in Ids, NEW want \in SUBSET doc, NEW soft \in BOOLEAN,
         NEW ttl \in 0..Never, Lay(a, j, want, soft, ttl),
         NEW i \in Ids, NEW l, i \notin Standing(Live(book)), ~WaitsFor(book, i, l)
  PROVE  /\ Has(book', i, l) => Fresh(book', book'.claims[i].who, l)
         /\ ~WaitsFor(book', i, l)
<1> DEFINE b == Live(book)
           laid == Laid(b, a, j, want, soft, ttl)
           claim == NewClaim(b, a, j, want, soft, ttl)
<1>1. /\ b.waits = book.waits /\ laid \in Book /\ Lays(b, laid, j, claim)
      /\ book' = IF GivesUp(b, j) THEN Serve(laid, doc) ELSE Deferred(laid, doc)
  BY LayIs
<1>2. doc \in SUBSET Line
  BY DEF IInv, TypeOK
<1>3. claim.who = a /\ claim.lines = want /\ claim.soft = soft
  BY DEF NewClaim
<1>4. b.claims[j] = None /\ ~soft => \A l1 \in want : Fresh(b, a, l1)
  BY DEF Lay, MayLay, Heard, Resting, Fresh
<1>5. i \notin Standing(b) /\ ~WaitsFor(b, i, l)
  BY <1>1 DEF WaitsFor, Waiting
<1> HIDE DEF b, laid, claim
<1>6. /\ laid.rests = b.rests /\ laid.claims[j] = claim
      /\ Standing(laid) = Standing(b) \cup {j} /\ Waiting(laid) \subseteq Waiting(b)
      /\ \A k \in Waiting(laid) : laid.waits[k].lines = b.waits[k].lines
  BY <1>1 DEF Lays
<1>7. ~WaitsFor(laid, i, l)
  BY <1>5, <1>6 DEF WaitsFor
<1>8. Has(laid, i, l) => Fresh(laid, laid.claims[i].who, l)
  <2> SUFFICES ASSUME Has(laid, i, l) PROVE Fresh(laid, laid.claims[i].who, l)
    OBVIOUS
  <2>1. i = j /\ b.claims[j] = None
    BY <1>5, <1>6 DEF Has, Hard, Standing
  <2>2. ~soft /\ l \in want /\ laid.claims[i].who = a
    BY <1>3, <1>6, <2>1 DEF Has, Hard
  <2> QED BY <1>4, <1>6, <2>1, <2>2 DEF Fresh
<1>9. CASE book' = laid
  BY <1>7, <1>8, <1>9
<1>10. CASE book' = MoveUp(laid, doc)
  <2>1. /\ book'.rests = laid.rests /\ ~WaitsFor(book', i, l)
        /\ Has(book', i, l) => Has(laid, i, l) /\ book'.claims[i].who = laid.claims[i].who
    BY <1>1, <1>2, <1>7, <1>10, ServedHave
  <2> QED BY <1>8, <2>1 DEF Fresh
<1> QED BY <1>1, <1>9, <1>10 DEF Serve, Deferred

\* Whoever gets in line for more was asked whether it rests, and brings nobody else to a line.
LEMMA WaitFresh ==
  ASSUME IInv, NEW a \in Actors, NEW j \in Ids, NEW want \in SUBSET doc, NEW hold \in BOOLEAN,
         NEW late \in BOOLEAN, Wait(a, j, want, hold, late),
         NEW i \in Ids, NEW l, i \notin Standing(Live(book)), ~WaitsFor(book, i, l)
  PROVE  /\ Has(book', i, l) => Fresh(book', book'.claims[i].who, l)
         /\ WaitsFor(book', i, l) => Fresh(book', book'.waits[i].who, l)
<1> DEFINE b == Live(book)
           line == InLine(b, a, j, want)
<1>1. b.waits = book.waits /\ Lets(book, b, Line) /\ \E m, s : Waited(book', s, m, line, j, doc)
  BY WaitIs
<1>2. doc \in SUBSET Line /\ want \in SUBSET Line /\ b \in Book
  BY <1>1 DEF IInv, TypeOK, Lets
<1>3. b.claims[j] = None => \A l1 \in want : Fresh(b, a, l1)
  BY DEF Wait, Heard, Resting, Fresh
<1>4. b.waits[j] # None => b.waits[j].who = a
  BY DEF Wait
<1>5. i \notin Standing(b) /\ ~WaitsFor(b, i, l)
  BY <1>1 DEF WaitsFor, Waiting
<1> HIDE DEF b
<1>6. /\ line.rests = b.rests /\ line.claims = b.claims
      /\ Waiting(line) = Waiting(b) \cup {j}
      /\ line.waits[j].who = a /\ line.waits[j].lines = want
      /\ \A k \in Waiting(b) : k # j => line.waits[k].who = b.waits[k].who /\ line.waits[k].lines = b.waits[k].lines
  <2>1. CASE j \in Waiting(b)
    BY <1>2, <1>4, <2>1, AskedAgain DEF Waiting
  <2>2. CASE j \notin Waiting(b)
    <3>1. line = Joined(b, a, j, want) /\ j \in Ids \ Waiting(b)
      BY <2>2 DEF InLine, Waiting
    <3>2. /\ line.rests = b.rests /\ line.claims = b.claims
          /\ Waiting(line) = Waiting(b) \cup {j}
          /\ line.waits[j].who = a /\ line.waits[j].lines = want
      BY <1>2, <3>1, JoinedIs
    <3>3. \A k \in Waiting(b) : line.waits[k].who = b.waits[k].who /\ line.waits[k].lines = b.waits[k].lines
      <4> DEFINE c == Joined(b, a, j, want)
      <4>1. \A k \in Waiting(b) : c.waits[k].who = b.waits[k].who /\ c.waits[k].lines = b.waits[k].lines
        BY <1>2, <3>1, JoinedLeaves
      <4> QED BY <3>1, <4>1
    <3> QED BY <3>2, <3>3
  <2> QED BY <2>1, <2>2
<1> HIDE DEF line
<1>7. PICK m, s : Waited(book', s, m, line, j, doc)
  BY <1>1
<1>8. /\ m \in Book /\ m.claims = b.claims /\ m.waits = line.waits /\ m.rests = b.rests
      /\ s = m \/ s = MoveUp(m, doc)
      /\ book'.claims = s.claims /\ book'.waits = s.waits /\ book'.rests = s.rests
  BY <1>6, <1>7 DEF Waited, Deferred, Serve
<1>9. ~Has(m, i, l)
  BY <1>5, <1>8 DEF Has, Hard, Standing
<1>10. WaitsFor(m, i, l) => Fresh(m, m.waits[i].who, l)
  <2> SUFFICES ASSUME WaitsFor(m, i, l) PROVE Fresh(m, m.waits[i].who, l)
    OBVIOUS
  <2>1. i \in Waiting(b) \cup {j} /\ l \in line.waits[i].lines
    BY <1>6, <1>8 DEF WaitsFor, Waiting
  <2>2. i = j /\ l \in want /\ m.waits[i].who = a
    BY <1>5, <1>6, <1>8, <2>1 DEF WaitsFor
  <2>3. b.claims[j] = None
    BY <1>5, <2>2 DEF Standing
  <2> QED BY <1>3, <1>8, <2>2, <2>3 DEF Fresh
<1>11. /\ s.rests = m.rests
       /\ Has(s, i, l) => WaitsFor(m, i, l) /\ s.claims[i].who = m.waits[i].who
       /\ WaitsFor(s, i, l) => WaitsFor(m, i, l) /\ s.waits[i].who = m.waits[i].who
  <2>1. CASE s = m
    BY <1>9, <2>1
  <2>2. CASE s = MoveUp(m, doc)
    BY <1>2, <1>8, <1>9, <2>2, ServedHave
  <2> QED BY <1>8, <2>1, <2>2
<1>12. /\ Has(book', i, l) <=> Has(s, i, l)
       /\ WaitsFor(book', i, l) <=> WaitsFor(s, i, l)
  BY <1>8 DEF Has, Hard, Standing, WaitsFor, Waiting
<1> QED BY <1>8, <1>10, <1>11, <1>12 DEF Fresh

\* A restart brings nobody to a line, but a grant whose window it starts again.
LEMMA RestartBringsNone ==
  ASSUME IInv, Restart, NEW i \in Ids, NEW l, i \notin Standing(Live(book)), ~WaitsFor(book, i, l)
  PROVE  /\ Has(book', i, l) => i \in Standing(book) /\ book'.claims[i].grant
         /\ ~WaitsFor(book', i, l)
<1>1. book \in Book
  BY DEF IInv, TypeOK
<1>2. /\ book'.claims[i] = IF /\ book.claims[i] # None /\ book.claims[i].grant
                              /\ book.claims[i].until < GrantMs
                           THEN [book.claims[i] EXCEPT !.until = GrantMs] ELSE book.claims[i]
      /\ book'.waits[i] = IF book.waits[i] = None THEN None
                          ELSE [book.waits[i] EXCEPT !.seen = KeepMs, !.ahead = book.waits[i].prior]
  BY <1>1 DEF Restart, ReadBack, Stood, Book
<1>3. ASSUME Has(book', i, l) PROVE i \in Standing(book) /\ book'.claims[i].grant
  <2>1. i \in Standing(book)
    BY <1>2, <1>3 DEF Has, Hard, Standing
  <2>2. book.claims[i].until = 0 /\ book.claims[i] \in Claim
    BY <1>1, <2>1, LiveLeaves, InBook
  <2>3. book'.claims[i] = [book.claims[i] EXCEPT !.until = GrantMs] /\ book.claims[i].grant
    BY <1>2, <1>3, <2>2 DEF Has
  <2> QED BY <2>1, <2>2, <2>3 DEF Claim
<1>4. ~WaitsFor(book', i, l)
  <2> SUFFICES ASSUME WaitsFor(book', i, l) PROVE FALSE
    OBVIOUS
  <2>1. book.waits[i] # None /\ i \in Waiting(book)
    BY <1>2 DEF WaitsFor, Waiting
  <2>2. book.waits[i] \in Waiter
    BY <1>1, <2>1, InBook
  <2>3. book'.waits[i].lines = book.waits[i].lines
    BY <1>2, <2>1, <2>2 DEF Waiter
  <2> QED BY <2>1, <2>3 DEF WaitsFor
<1> QED BY <1>3, <1>4

LEMMA NobodyComesTired ==
  ASSUME IInv, [Next]_vars, NEW l \in doc', NEW i \in Ids \ Standing(Live(book)), NEW k \in Ids,
         ~(i \in Waiting(book) /\ l \in book.waits[i].lines),
         book'.rests[k] # None, l \in book'.rests[k].lines
  PROVE  /\ Takes(book', i, l) => book'.claims[i].who # book'.rests[k].who
         /\ i \in Waiting(book') /\ l \in book'.waits[i].lines
              => book'.waits[i].who # book'.rests[k].who
<1>1. IInv' /\ book \in Book /\ book' \in Book /\ doc' \in SUBSET Line /\ l \in Line
  BY NextIInv DEF IInv, TypeOK
<1>2. ~WaitsFor(book, i, l)
  BY DEF WaitsFor
<1>3. Takes(book', i, l) => Has(book', i, l) /\ (i \in Standing(book) => ~book'.claims[i].grant)
  BY <1>1 DEF Takes, Has, IInv, Sound, Agrees
<1> SUFFICES /\ Has(book', i, l) => \/ Fresh(book', book'.claims[i].who, l)
                                    \/ i \in Standing(book) /\ book'.claims[i].grant
             /\ WaitsFor(book', i, l) => Fresh(book', book'.waits[i].who, l)
  BY <1>3 DEF Fresh, WaitsFor
<1>4. CASE Asked
  <2>1. PICK a \in Actors : \E j \in IdsOf[a], want \in SUBSET doc :
           \/ \E soft \in BOOLEAN, ttl \in 0..Never : Lay(a, j, want, soft, ttl)
           \/ \E hold, late \in BOOLEAN : Wait(a, j, want, hold, late)
    BY <1>4 DEF Asked
  <2>2. IdsOf[a] \subseteq Ids
    BY IdsAssumption
  <2> QED BY <1>2, <2>1, <2>2, LayFresh, WaitFresh
<1>5. CASE Restart
  BY <1>2, <1>5, RestartBringsNone
<1>6. CASE Settles(book, book', doc, doc')
  BY <1>1, <1>2, <1>6, SettlesBringNone
<1> QED BY <1>4, <1>5, <1>6, NextSettles

\* Nobody comes to lines its name rests from, whichever id it asks under, so a cap that has run out isn't
\* had afresh before the rest is over, however claims lapse, are let go, renewed, meant, lost to edits or
\* read back after a restart.  Whoever was in line for them before the rest began keeps its place and is
\* granted them in its turn: `serve` doesn't look at rests.
THEOREM RestedFirst == Spec => FreshOutOfRest
<1>1. IInv /\ [Next]_vars =>
        [\A l \in doc', i \in Ids \ Standing(Live(book)), k \in Ids :
           /\ ~(i \in Waiting(book) /\ l \in book.waits[i].lines)
           /\ book'.rests[k] # None /\ l \in book'.rests[k].lines
           => /\ Takes(book', i, l) => book'.claims[i].who # book'.rests[k].who
              /\ i \in Waiting(book') /\ l \in book'.waits[i].lines
                   => book'.waits[i].who # book'.rests[k].who]_vars
  BY NobodyComesTired
<1>2. Spec => [][\A l \in doc', i \in Ids \ Standing(Live(book)), k \in Ids :
           /\ ~(i \in Waiting(book) /\ l \in book.waits[i].lines)
           /\ book'.rests[k] # None /\ l \in book'.rests[k].lines
           => /\ Takes(book', i, l) => book'.claims[i].who # book'.rests[k].who
              /\ i \in Waiting(book') /\ l \in book'.waits[i].lines
                   => book'.waits[i].who # book'.rests[k].who]_vars
  BY <1>1, Invariant, PTL DEF Spec
<1> QED BY <1>2 DEF FreshOutOfRest
=============================================================================
