------------------------------ MODULE QueueProofs ------------------------------
(***************************************************************************)
(* A message is delivered maxRetries + 1 times at most besides deliveries  *)
(* that were cut off, and leaves its queue only by the delivery it is in,  *)
(* for any number of messages and any sizes and times.                     *)
(***************************************************************************)
EXTENDS Queue, TLAPS

\* What waits in the queue and isn't out.
Idle == On("main") \ batch

\* No round is to deliver a message that is out, or that no longer waits.
Rounds ==
  /\ until \subseteq Idle
  /\ to # None => to \subseteq Idle
  /\ again # None => again \subseteq Idle

\* A message that waits may be delivered once more; one that is out just was.
Counted(m) ==
  /\ where[m] = "main" /\ m \notin batch => attempts[m] <= MaxRetries + cuts[m]
  /\ m \in batch => attempts[m] <= MaxRetries + 1 + cuts[m]
  /\ where[m] = "unsent" => attempts[m] = 0

IInv == TypeOK /\ Rounds /\ \A m \in Msgs : Counted(m)
-----------------------------------------------------------------------------
\* The loop starts, or will go round again, with what is due and waits.
LEMMA DrainRounds ==
  ASSUME NEW visible, Drain(visible), TypeOK, Rounds, visible \subseteq Idle', Idle \subseteq Idle'
  PROVE  /\ Rounds'
         /\ drain' \in {"idle", "asked", "out"} /\ (drain' = "out" <=> drain = "out")
         /\ until' \subseteq Msgs /\ {to', again'} \subseteq (SUBSET Msgs) \cup {None}
<1>1. visible \subseteq Msgs
  BY DEF Idle, On
<1>2. CASE drain = "idle"
  BY <1>1, <1>2 DEF Drain, Ask, Rounds, TypeOK
<1>3. CASE drain # "idle"
  BY <1>1, <1>3 DEF Drain, Ask, Rounds, TypeOK
<1> QED BY <1>2, <1>3

\* The same, when nobody may be consuming.
LEMMA KickedRounds ==
  ASSUME NEW visible, Kicked(visible), TypeOK, Rounds, visible \subseteq Idle', Idle \subseteq Idle'
  PROVE  /\ Rounds'
         /\ drain' \in {"idle", "asked", "out"} /\ (drain' = "out" <=> drain = "out")
         /\ until' \subseteq Msgs /\ {to', again'} \subseteq (SUBSET Msgs) \cup {None}
<1>1. CASE consuming
  BY <1>1, DrainRounds DEF Kicked
<1>2. CASE ~consuming
  BY <1>2 DEF Kicked, Rounds, TypeOK
<1> QED BY <1>1, <1>2

\* What the constants come to.
LEMMA Sizes ==
  /\ LeaseMs \in Nat /\ TimeoutMs \in Nat /\ MaxRetries \in Nat /\ MaxCuts \in Nat
  /\ MaxAttempts \in Nat /\ MaxAttempts = MaxRetries + 1 + MaxCuts
<1>1. LeaseMs \in Nat /\ TimeoutMs \in Nat
  BY SizeAssumption, Zenon
<1> QED BY <1>1, SizeAssumption DEF MaxAttempts

LEMMA InitIInv == Init => IInv
<1> SUFFICES ASSUME Init PROVE IInv
  OBVIOUS
<1>1. where \in [Msgs -> {"unsent", "main", "dead", "gone"}] /\ due \in [Msgs -> 0..LeaseMs]
  BY Sizes DEF Init
<1>2. attempts \in [Msgs -> 0..MaxAttempts] /\ cuts \in [Msgs -> 0..MaxCuts] /\ left \in 0..TimeoutMs
  BY Sizes DEF Init
<1>3. TypeOK
  BY <1>1, <1>2 DEF Init, TypeOK
<1>4. Rounds
  BY DEF Init, Rounds
<1>5. \A m \in Msgs : Counted(m)
  BY Sizes DEF Init, Counted
<1> QED BY <1>3, <1>4, <1>5 DEF IInv

LEMMA SendIInv ==
  ASSUME IInv, NEW S \in SUBSET Msgs, NEW delay \in Delays, Send(S, delay)
  PROVE  IInv'
<1> USE DEF IInv
<1>1. where' \in [Msgs -> {"unsent", "main", "dead", "gone"}] /\ due' \in [Msgs -> 0..LeaseMs]
  BY DelayAssumption DEF Send, TypeOK
<1>2. S \cap batch = {}
  BY DEF Send, TypeOK, On
<1>3. Idle \subseteq Idle' /\ S \subseteq Idle' /\ batch' = batch
  BY <1>2 DEF Send, TypeOK, Idle, On
<1>4. Visible \subseteq Idle
  BY DEF Visible, Idle
<1>5. PICK visible : visible \subseteq Idle' /\ Kicked(visible)
  BY <1>3, <1>4 DEF Send
<1>6. TypeOK'
  BY <1>1, <1>3, <1>5, KickedRounds DEF TypeOK, Send, On
<1>7. ASSUME NEW m \in Msgs PROVE Counted(m)'
  BY <1>2, Sizes DEF Counted, Send, TypeOK, On
<1> QED BY <1>3, <1>5, <1>6, <1>7, KickedRounds

LEMMA PollIInv ==
  ASSUME IInv, Poll
  PROVE  IInv'
<1> USE DEF IInv
<1>1. Visible \subseteq Idle' /\ Idle \subseteq Idle'
  BY DEF Poll, table, Visible, Idle, On
<1>2. Kicked(Visible)
  BY DEF Poll
<1>3. TypeOK'
  BY <1>1, <1>2, KickedRounds DEF Poll, table, TypeOK, On
<1>4. \A m \in Msgs : Counted(m)'
  BY DEF Poll, table, Counted
<1> QED BY <1>1, <1>2, <1>3, <1>4, KickedRounds

LEMMA ConsumeIInv ==
  ASSUME IInv, Consume
  PROVE  IInv'
<1> USE DEF IInv
<1>1. Visible \subseteq Idle' /\ Idle \subseteq Idle'
  BY DEF Consume, table, Visible, Idle, On
<1>2. Drain(Visible)
  BY DEF Consume
<1>3. TypeOK'
  BY <1>1, <1>2, DrainRounds DEF Consume, table, TypeOK, On
<1>4. \A m \in Msgs : Counted(m)'
  BY DEF Consume, table, Counted
<1> QED BY <1>1, <1>2, <1>3, <1>4, DrainRounds

\* A batch is taken from what waits and has a delivery left.
LEMMA HandOverIInv ==
  ASSUME IInv, NEW rows \in SUBSET until, HandOver(rows)
  PROVE  IInv'
<1> USE DEF IInv
<1>1. rows \subseteq Idle /\ rows # {} /\ batch = {}
  BY DEF HandOver, Batch, Rounds, TypeOK
<1>2. ASSUME NEW m \in rows PROVE m \in Msgs /\ where[m] = "main" /\ attempts[m] <= MaxRetries + cuts[m]
  BY <1>1 DEF Counted, Idle, On
<1>3. due' \in [Msgs -> 0..LeaseMs]
  BY Sizes DEF HandOver, Lease, TypeOK
<1>4. attempts' \in [Msgs -> 0..MaxAttempts]
  <2>1. ASSUME NEW m \in Msgs PROVE attempts'[m] \in 0..MaxAttempts
    BY <1>2, Sizes DEF HandOver, Lease, TypeOK
  <2> QED BY <2>1 DEF HandOver, Lease
<1>5. Rounds' /\ {to', again'} \subseteq (SUBSET Msgs) \cup {None}
  BY <1>1 DEF HandOver, Rounds, Idle, On, TypeOK
<1>6. batch' \subseteq On("main")'
  BY <1>1 DEF HandOver, Idle, On
<1>7. TypeOK'
  BY <1>1, <1>3, <1>4, <1>5, <1>6, Sizes DEF HandOver, TypeOK
<1>8. ASSUME NEW m \in Msgs PROVE Counted(m)'
  BY <1>1, <1>2, Sizes DEF HandOver, Lease, Counted, TypeOK
<1> QED BY <1>5, <1>7, <1>8

LEMMA FindNoneIInv ==
  ASSUME IInv, FindNone
  PROVE  IInv'
<1> USE DEF IInv
<1>1. Visible \subseteq Msgs /\ Visible \subseteq Idle /\ Idle' = Idle
  BY DEF FindNone, table, Visible, Idle, On
<1>2. Rounds' /\ {to', again'} \subseteq (SUBSET Msgs) \cup {None} /\ drain' \in {"idle", "asked"}
  BY <1>1 DEF FindNone, RoundEnds, Ask, Rounds, TypeOK
<1>3. until' \subseteq Msgs
  BY <1>1, <1>2 DEF Rounds, Idle, On
<1>4. TypeOK'
  BY <1>2, <1>3 DEF FindNone, table, TypeOK, On
<1>5. \A m \in Msgs : Counted(m)'
  BY DEF FindNone, table, Counted
<1> QED BY <1>2, <1>4, <1>5

\* A message that goes back has a delivery left: it isn't Spent.
LEMMA ReturnIInv ==
  ASSUME IInv, Return
  PROVE  IInv'
<1> USE DEF IInv
<1>1. PICK acked \in SUBSET batch, delay \in [batch -> Delays] : Settle(acked, delay)
  BY DEF Return
<1>2. batch' = {} /\ to' = to /\ again' = again /\ batch \subseteq Msgs
  BY DEF Return, TypeOK, On
<1>3. where' \in [Msgs -> {"unsent", "main", "dead", "gone"}]
  BY <1>1 DEF Settle, TypeOK
<1>4. due' \in [Msgs -> 0..LeaseMs]
  <2>1. ASSUME NEW m \in Msgs PROVE due'[m] \in 0..LeaseMs
    <3>1. m \in batch => delay[m] \in 0..LeaseMs
      BY DelayAssumption
    <3> QED BY <1>1, <3>1, Sizes DEF Settle, TypeOK
  <2> QED BY <1>1, <2>1 DEF Settle
<1>5. attempts' \in [Msgs -> 0..MaxAttempts] /\ cuts' \in [Msgs -> 0..MaxCuts]
  BY <1>1, Sizes DEF Settle, TypeOK
<1>6. Idle \subseteq Idle'
  BY <1>1, <1>2 DEF Settle, Idle, On, TypeOK
<1>7. Visible' \subseteq Idle'
  BY DEF Visible, Idle
<1>8. Rounds'
  BY <1>2, <1>6, <1>7 DEF Return, Ask, Rounds
<1>9. TypeOK'
  BY <1>2, <1>3, <1>4, <1>5, <1>8 DEF Return, Ask, TypeOK, Rounds, Idle, On
<1>10. ASSUME NEW m \in Msgs PROVE Counted(m)'
  <2>1. CASE m \in batch
    BY <1>1, <1>2, <2>1, Sizes DEF Settle, Spent, Counted, TypeOK, On
  <2>2. CASE m \notin batch
    BY <1>1, <1>2, <2>2, Sizes DEF Settle, Counted, TypeOK, On
  <2> QED BY <2>1, <2>2
<1> QED BY <1>8, <1>9, <1>10

\* A delivery that is cut off is one more, and one more that is cut off.
LEMMA CutOffCounted ==
  ASSUME IInv, where' = where, attempts' = attempts, batch' = {},
         \A m \in batch : cuts[m] < MaxCuts,
         cuts' = [m \in Msgs |-> IF m \in batch THEN cuts[m] + 1 ELSE cuts[m]]
  PROVE  /\ cuts' \in [Msgs -> 0..MaxCuts]
         /\ \A m \in Msgs : Counted(m)'
<1> USE DEF IInv
<1>1. cuts' \in [Msgs -> 0..MaxCuts]
  BY Sizes DEF TypeOK
<1>2. ASSUME NEW m \in Msgs PROVE Counted(m)'
  BY Sizes DEF Counted, TypeOK
<1> QED BY <1>1, <1>2

LEMMA AbortIInv ==
  ASSUME IInv, Abort
  PROVE  IInv'
<1> USE DEF IInv
<1>1. cuts' \in [Msgs -> 0..MaxCuts] /\ \A m \in Msgs : Counted(m)'
  BY CutOffCounted DEF Abort
<1>2. Idle \subseteq Idle'
  BY DEF Abort, Idle, On
<1>3. Rounds'
  BY <1>2 DEF Abort, Rounds
<1>4. due' \in [Msgs -> 0..LeaseMs] /\ batch \subseteq Msgs
  BY Sizes DEF Abort, TypeOK, On
<1>5. TypeOK'
  BY <1>1, <1>4 DEF Abort, TypeOK
<1> QED BY <1>1, <1>3, <1>5

LEMMA CrashIInv ==
  ASSUME IInv, Crash
  PROVE  IInv'
<1> USE DEF IInv
<1>1. cuts' \in [Msgs -> 0..MaxCuts] /\ \A m \in Msgs : Counted(m)'
  BY CutOffCounted DEF Crash
<1>2. Rounds'
  BY DEF Crash, Rounds
<1>3. left' \in 0..TimeoutMs /\ late' = {} /\ until' = {} /\ to' = None /\ again' = None
  BY Sizes DEF Crash
<1>4. TypeOK'
  BY <1>1, <1>3 DEF Crash, TypeOK
<1> QED BY <1>1, <1>2, <1>4

LEMMA TickIInv ==
  ASSUME IInv, Tick
  PROVE  IInv'
<1> USE DEF IInv
<1>1. \A n \in Nat : Down(n) \in Nat /\ Down(n) <= n
  BY DEF Down
<1>2. due' \in [Msgs -> 0..LeaseMs] /\ left' \in 0..TimeoutMs
  BY <1>1, Sizes DEF Tick, TypeOK
<1>3. Idle' = Idle
  BY DEF Tick, Idle, On
<1>4. TypeOK' /\ Rounds' /\ \A m \in Msgs : Counted(m)'
  BY <1>2, <1>3 DEF Tick, TypeOK, Rounds, Counted, On
<1> QED BY <1>4

\* Steps that leave the messages and the loop alone.
LEMMA RestIInv ==
  ASSUME IInv, Stop \/ (\E z \in late : ReturnLate(z)) \/ UNCHANGED vars
  PROVE  IInv'
<1> USE DEF IInv
<1>1. UNCHANGED <<table, drain, to, until, again, batch, left>> /\ late' \subseteq late /\ consuming' \in BOOLEAN
  BY DEF Stop, ReturnLate, vars, TypeOK
<1>2. TypeOK' /\ Rounds' /\ \A m \in Msgs : Counted(m)'
  BY <1>1 DEF table, TypeOK, Rounds, Idle, Counted, On
<1> QED BY <1>2

LEMMA Step == IInv /\ [Next]_vars => IInv'
<1> SUFFICES ASSUME IInv, [Next]_vars PROVE IInv'
  OBVIOUS
<1>1. ASSUME NEW S \in SUBSET Msgs, NEW delay \in Delays, Send(S, delay) PROVE IInv'
  BY <1>1, SendIInv
<1>2. CASE Poll
  BY <1>2, PollIInv
<1>3. CASE Deliver
  BY <1>3, HandOverIInv, FindNoneIInv DEF Deliver
<1>4. CASE Return
  BY <1>4, ReturnIInv
<1>5. CASE Abort
  BY <1>5, AbortIInv
<1>6. CASE Consume
  BY <1>6, ConsumeIInv
<1>7. CASE Crash
  BY <1>7, CrashIInv
<1>8. CASE Tick
  BY <1>8, TickIInv
<1>9. CASE Stop \/ (\E z \in late : ReturnLate(z)) \/ UNCHANGED vars
  BY <1>9, RestIInv
<1> QED BY <1>1, <1>2, <1>3, <1>4, <1>5, <1>6, <1>7, <1>8, <1>9 DEF Next

LEMMA Always == Spec => []IInv
BY InitIInv, Step, PTL DEF Spec
-----------------------------------------------------------------------------
\* The loop, its table and its stopped handlers keep their shape, and no message that waits, is
\* out or was settled has been delivered more than MaxAttempts times.
THEOREM QueueTypeCorrect == Spec => []TypeOK
<1>1. IInv => TypeOK
  BY DEF IInv
<1> QED BY <1>1, Always, PTL

\* However often the process dies and handlers hang, a message is delivered maxRetries + 1 times
\* at most besides the deliveries that were cut off (deliverNow).
THEOREM DeliveriesCount == Spec => []CountedDeliveries
<1>1. IInv => CountedDeliveries
  BY Sizes DEF IInv, TypeOK, Counted, CountedDeliveries, On
<1> QED BY <1>1, Always, PTL

\* Only the delivery a message is in settles it (deliverNow, whose stopped handlers say nothing).
THEOREM SettledInFlight == Spec => LeavesFromFlight
<1>1. IInv /\ [Next]_vars => [\A m \in On("main") : where'[m] # "main" => m \in batch]_vars
  <2> SUFFICES ASSUME IInv, Next, NEW m \in On("main"), where'[m] # "main" PROVE m \in batch
    OBVIOUS
  <2>1. m \in Msgs /\ where[m] = "main" /\ where' # where
    BY DEF On
  <2>2. ASSUME NEW S \in SUBSET Msgs, NEW delay \in Delays, Send(S, delay) PROVE m \in batch
    BY <2>1, <2>2 DEF Send
  <2>3. CASE Return
    <3>1. PICK acked \in SUBSET batch, delay \in [batch -> Delays] : Settle(acked, delay)
      BY <2>3 DEF Return
    <3> QED BY <2>1, <3>1 DEF Settle
  <2>4. CASE Poll \/ Deliver \/ Abort \/ (\E z \in late : ReturnLate(z)) \/ Consume \/ Stop \/ Crash \/ Tick
    BY <2>1, <2>4 DEF Poll, Deliver, HandOver, FindNone, Abort, ReturnLate, Consume, Stop, Crash, Tick, table
  <2> QED BY <2>2, <2>3, <2>4 DEF Next
<1> QED BY <1>1, Always, PTL DEF Spec, LeavesFromFlight
-----------------------------------------------------------------------------
(* The queue is a Mailbox: what waits and isn't out waits there, and every *)
(* step of the queue is one of the mailbox's, or none.                     *)

\* Where the mailbox has each message.
Place == [m \in Msgs |-> IF where[m] # "main" THEN where[m] ELSE IF m \in batch THEN "out" ELSE "waiting"]

LEMMA PlaceIn ==
  ASSUME TypeOK
  PROVE  /\ Promise!In("out") = batch
         /\ Promise!In("waiting") = Idle
         /\ Promise!In("unsent") = On("unsent")
BY DEF TypeOK, Promise!In, Idle, On

\* A step that moves nothing the mailbox knows of.
LEMMA Stutters ==
  ASSUME UNCHANGED <<where, attempts, batch>>
  PROVE  UNCHANGED Promise!vars
BY DEF Promise!vars

LEMMA SendMaps ==
  ASSUME IInv, NEW S \in SUBSET Msgs, NEW delay \in Delays, Send(S, delay)
  PROVE  Promise!Send(S)
<1>1. S # {} /\ S \subseteq Promise!In("unsent")
  BY PlaceIn DEF Send, IInv
<1>2. S \cap batch = {}
  BY DEF Send, IInv, TypeOK, On
<1>3. Place' = [m \in Msgs |-> IF m \in S THEN "waiting" ELSE Place[m]]
  BY <1>2 DEF Place, Send
<1>4. attempts' = attempts
  BY DEF Send
<1> QED BY <1>1, <1>3, <1>4 DEF Promise!Send, Promise!Now, Place

\* The mailbox counts as the queue does.
LEMMA SameCardinality == \A S : Promise!Cardinality(S) = Cardinality(S)
BY DEF Cardinality, Promise!Cardinality, IsFiniteSet, Promise!IsFiniteSet

\* One batch at a time, of what waits.
LEMMA HandOverMaps ==
  ASSUME IInv, NEW rows \in SUBSET until, HandOver(rows)
  PROVE  rows \in SUBSET Msgs /\ Promise!HandOver(rows)
<1>1. batch = {} /\ rows \subseteq Idle /\ rows \subseteq Msgs
  BY DEF HandOver, IInv, TypeOK, Rounds, Idle, On
<1>2. /\ Promise!In("out") = {}
      /\ rows # {} /\ rows \subseteq Promise!In("waiting") /\ Cardinality(rows) <= BatchSize
  BY <1>1, PlaceIn DEF IInv, HandOver, Batch
<1>3. Place' = [m \in Msgs |-> IF m \in rows THEN "out" ELSE Place[m]]
  BY <1>1 DEF Place, HandOver, Idle, On
<1>4. attempts' = [m \in Msgs |-> IF m \in rows THEN attempts[m] + 1 ELSE attempts[m]]
  BY DEF HandOver, Lease
<1>5. Promise!HandOver(rows)
  BY <1>2, <1>3, <1>4, SameCardinality DEF Promise!HandOver, Promise!Now, Place
<1> QED BY <1>1, <1>5

\* What the handler made of a batch is its answer.
LEMMA ReturnMaps ==
  ASSUME IInv, Return
  PROVE  \E acked \in SUBSET Promise!In("out") : Promise!Answer(acked)
<1>1. PICK acked \in SUBSET batch, delay \in [batch -> Delays] : Settle(acked, delay)
  BY DEF Return
<1>2. Promise!In("out") = batch /\ batch # {} /\ batch' = {} /\ batch \subseteq On("main")
  BY PlaceIn DEF IInv, Return, TypeOK
<1>3. \A m \in batch : m \in Msgs /\ where[m] = "main" /\ attempts[m] \in Nat
  BY <1>2, Sizes DEF IInv, TypeOK, On
<1>4. Promise!Retried(acked) = {m \in batch \ acked : ~Spent(m)}
  BY <1>2, <1>3, Sizes DEF Promise!Retried, Spent
<1> DEFINE retried == {m \in batch \ acked : ~Spent(m)}
           spent == (batch \ acked) \ retried
<1>5. Place' = [m \in Msgs |-> CASE m \in acked -> "gone"
                                 [] m \in retried -> "waiting"
                                 [] m \in spent -> IF DeadLetters THEN "dead" ELSE "gone"
                                 [] OTHER -> Place[m]]
  <2>1. ASSUME NEW m \in Msgs
        PROVE  Place'[m] = CASE m \in acked -> "gone"
                             [] m \in retried -> "waiting"
                             [] m \in spent -> IF DeadLetters THEN "dead" ELSE "gone"
                             [] OTHER -> Place[m]
    <3>1. Place'[m] = IF where'[m] # "main" THEN where'[m] ELSE "waiting"
      BY <1>2 DEF Place
    <3>2. where'[m] = IF m \notin batch \/ ~(m \in acked \/ Spent(m)) THEN where[m]
                      ELSE IF DeadLetters /\ m \notin acked THEN "dead" ELSE "gone"
      BY <1>1 DEF Settle
    <3>3. CASE m \notin batch
      BY <3>1, <3>2, <3>3 DEF Place
    <3>4. CASE m \in acked
      BY <1>3, <3>1, <3>2, <3>4
    <3>5. CASE m \in batch \ acked
      BY <1>3, <3>1, <3>2, <3>5
    <3> QED BY <3>3, <3>4, <3>5
  <2> QED BY <2>1 DEF Place
<1>6. attempts' = [m \in Msgs |-> IF m \in spent /\ DeadLetters THEN 0 ELSE attempts[m]]
  BY <1>1 DEF Settle
<1>7. Promise!Answer(acked)
  BY <1>2, <1>4, <1>5, <1>6 DEF Promise!Answer, Place
<1> QED BY <1>1, <1>2, <1>7

\* A batch that is stopped, or lost with the process, waits again.
LEMMA CutOffMaps ==
  ASSUME IInv, Abort \/ Crash
  PROVE  Promise!CutOff \/ UNCHANGED Promise!vars
<1>1. where' = where /\ attempts' = attempts /\ batch' = {}
  BY DEF Abort, Crash
<1>2. CASE batch = {}
  BY <1>1, <1>2, Stutters
<1>3. CASE batch # {}
  <2>1. Promise!In("out") = batch /\ batch \subseteq On("main")
    BY PlaceIn DEF IInv, TypeOK
  <2>2. Place' = [m \in Msgs |-> IF m \in batch THEN "waiting" ELSE Place[m]]
    BY <1>1, <2>1 DEF Place, On
  <2> QED BY <1>1, <1>3, <2>1, <2>2 DEF Promise!CutOff, Promise!Now, Place
<1> QED BY <1>2, <1>3

\* Every step of the queue is the mailbox's, or one it doesn't see.
LEMMA StepMaps == IInv /\ [Next]_vars => [Promise!Next]_(Promise!vars)
<1> SUFFICES ASSUME IInv, [Next]_vars PROVE Promise!Next \/ UNCHANGED Promise!vars
  OBVIOUS
<1>1. ASSUME NEW S \in SUBSET Msgs, NEW delay \in Delays, Send(S, delay) PROVE Promise!Next
  BY <1>1, SendMaps DEF Promise!Next
<1>2. ASSUME NEW rows \in SUBSET until, HandOver(rows) PROVE Promise!Next
  BY <1>2, HandOverMaps DEF Promise!Next
<1>3. CASE Return
  BY <1>3, ReturnMaps DEF Promise!Next
<1>4. CASE Abort \/ Crash
  BY <1>4, CutOffMaps DEF Promise!Next
<1>5. CASE Poll \/ FindNone \/ (\E z \in late : ReturnLate(z)) \/ Consume \/ Stop \/ Tick \/ UNCHANGED vars
  BY <1>5, Stutters DEF Poll, FindNone, ReturnLate, Consume, Stop, Tick, vars, table
<1> QED BY <1>1, <1>2, <1>3, <1>4, <1>5 DEF Next, Deliver

LEMMA InitMaps == Init => Promise!Init
BY DEF Init, Promise!Init

\* Leases, polls, timeouts, stops and crashes come to no more than a message that waits a little
\* longer, or is delivered once more: the queue does what a Mailbox may do (queue.ts:1-17).
THEOREM QueueIsMailbox == Spec => IsMailbox
BY InitMaps, StepMaps, Always, PTL DEF Spec, IsMailbox, Promise!Spec
=============================================================================
