--------------------------------- MODULE Queue ---------------------------------
(***************************************************************************)
(* A queue and its consumer (packages/shell-bun/src/bindings/queue.ts):    *)
(* messages in one table, handed to the Worker's handler a batch at a time *)
(* by a loop in the same process.                                          *)
(*                                                                         *)
(* What the loop does between two awaits is one action: it waits for a     *)
(* slot on the scheduler (`drain` is "asked"), leases a batch and calls    *)
(* the handler ("out"), and writes what the handler made of it.  A handler *)
(* stopped for taking too long may still be running (`late`).              *)
(*                                                                         *)
(* A stamp visible_at is what is left of it: `due`, 0 once it is visible.  *)
(* Due messages are ordered by visible_at in the code; here any of them    *)
(* may make up a batch.  A time to deliver up to is the set of messages    *)
(* due by then, and no two things happen in the same millisecond.  `cuts`  *)
(* counts deliveries that were cut off, which the code doesn't: it is what *)
(* the properties compare with.                                            *)
(*                                                                         *)
(* A definition introduced as a slip is a mistake the code could have made *)
(* in the definition after it; the specification doesn't use it.           *)
(***************************************************************************)
EXTENDS Naturals, FiniteSets

CONSTANTS
  Msgs, None,
  BatchSize, MaxRetries,
  LeaseMs, TimeoutMs,   \* LEASE_MS, and how long a batch may run
  Delays,               \* the delays a send or a retry may ask for
  DeadLetters,          \* whether the consumer has a deadLetterQueue
  MaxCuts               \* bound: how often a delivery of each message is cut off

ASSUME MsgsAssumption == IsFiniteSet(Msgs)
ASSUME SizeAssumption ==
  /\ {BatchSize, LeaseMs, TimeoutMs} \subseteq Nat \ {0} /\ MaxRetries \in Nat /\ MaxCuts \in Nat
  /\ TimeoutMs <= LeaseMs
ASSUME DelayAssumption == Delays \subseteq 0..LeaseMs
ASSUME DeadAssumption == DeadLetters \in BOOLEAN

MaxAttempts == MaxRetries + 1 + MaxCuts

VARIABLES
  where,      \* where each message is: "unsent", "main", "dead" or "gone"
  due,        \* time left till it is visible
  attempts,   \* deliveries so far
  cuts,       \* of these, cut off by a timeout or a crash
  drain,      \* the loop: "idle", "asked" for a slot, or "out"
  to,         \* up to when this round of the loop delivers: None for now, at each batch, or the messages due by then
  until,      \* what was due when the batch that is "asked" for was
  again,      \* what was due when a drain was asked for during this one, None if none was
  batch,      \* the messages out
  left,       \* time left till the batch is stopped
  late,       \* batches of handlers that were stopped and haven't returned
  consuming   \* whether there is a consumer

table == <<where, due, attempts, cuts>>
vars == <<table, drain, to, until, again, batch, left, late, consuming>>

On(q) == {m \in Msgs : where[m] = q}

\* What is out is stopped, or back, before its lease ends.
Visible == {m \in On("main") \ batch : due[m] = 0}

\* deliver(to ?? Date.now()): what is due is fixed before the wait for a slot.
Ask(visible) ==
  /\ drain' = "asked"
  /\ until' = IF to' = None THEN visible ELSE to'

\* drain(): starts the loop, or has it go round again up to now.
Drain(visible) ==
  IF drain = "idle" THEN to' = None /\ Ask(visible) /\ UNCHANGED again
  ELSE again' = visible /\ UNCHANGED <<drain, to, until>>

Kicked(visible) == IF consuming THEN Drain(visible) ELSE UNCHANGED <<drain, to, until, again>>

\* send and sendBatch: all of them, or none.
Send(S, delay) ==
  /\ S # {} /\ S \subseteq On("unsent")
  /\ where' = [m \in Msgs |-> IF m \in S THEN "main" ELSE where[m]]
  /\ due' = [m \in Msgs |-> IF m \in S THEN delay ELSE due[m]]
  /\ Kicked(IF delay = 0 THEN Visible \cup S ELSE Visible)
  /\ UNCHANGED <<attempts, cuts, batch, left, late, consuming>>

\* The poll timer.
Poll ==
  /\ consuming
  /\ Kicked(Visible)
  /\ UNCHANGED <<table, batch, left, late, consuming>>

\* drain, when a batch finds nothing due: it goes round again if that was asked, or ends.
RoundEnds ==
  IF again = None THEN drain' = "idle" /\ until' = {} /\ UNCHANGED <<to, again>>
  ELSE to' = again /\ Ask(Visible) /\ again' = None

\* Slip: attempts are counted when the handler returns.
LeaseUncounted(rows) ==
  /\ due' = [m \in Msgs |-> IF m \in rows THEN LeaseMs ELSE due[m]]
  /\ UNCHANGED attempts

\* A batch's messages are hidden for the lease, and one delivery older.
Lease(rows) ==
  /\ due' = [m \in Msgs |-> IF m \in rows THEN LeaseMs ELSE due[m]]
  /\ attempts' = [m \in Msgs |-> IF m \in rows THEN attempts[m] + 1 ELSE attempts[m]]

\* A batch of up to batchSize of the messages due.
Batch(rows) ==
  /\ rows \subseteq until /\ rows # {} /\ Cardinality(rows) <= BatchSize
  /\ Cardinality(rows) = BatchSize \/ rows = until

\* deliverNow: the slot is there; a batch of what is due is leased and handed over.  Its next
\* visible_at is later than any round asked for yet.
HandOver(rows) ==
  /\ drain = "asked" /\ consuming /\ Batch(rows)
  /\ Lease(rows)
  /\ batch' = rows /\ left' = TimeoutMs /\ drain' = "out" /\ until' = {}
  /\ to' = IF to = None THEN None ELSE to \ rows
  /\ again' = IF again = None THEN None ELSE again \ rows
  /\ UNCHANGED <<where, cuts, late, consuming>>

\* Nothing is due, or nobody consumes any more.
FindNone ==
  /\ drain = "asked" /\ (~consuming \/ until = {})
  /\ RoundEnds
  /\ UNCHANGED <<table, batch, left, late, consuming>>

Deliver == FindNone \/ \E rows \in SUBSET until : HandOver(rows)

\* Slip: a message is retried once more.
SpentLate(m) == attempts[m] > MaxRetries + 1

Spent(m) == attempts[m] > MaxRetries

\* What becomes of a batch whose handler acked `acked` and had the rest retried after their delay:
\* deadLetterQueue, DELETE, or later.
Settle(acked, delay) ==
  /\ where' = [m \in Msgs |-> IF m \notin batch \/ ~(m \in acked \/ Spent(m)) THEN where[m]
                              ELSE IF DeadLetters /\ m \notin acked THEN "dead" ELSE "gone"]
  /\ due' = [m \in Msgs |-> IF m \notin batch THEN due[m]
                            ELSE IF m \in acked \/ Spent(m) THEN 0 ELSE delay[m]]
  /\ attempts' = [m \in Msgs |-> IF m \in batch \ acked /\ Spent(m) /\ DeadLetters THEN 0 ELSE attempts[m]]
  /\ cuts' = [m \in Msgs |-> IF m \in batch \ acked /\ Spent(m) /\ DeadLetters THEN 0 ELSE cuts[m]]

\* The handler returns or throws: each message has its verdict, and the loop goes on.
Return ==
  /\ drain = "out"
  /\ \E acked \in SUBSET batch, delay \in [batch -> Delays] : Settle(acked, delay)
  /\ batch' = {}
  /\ UNCHANGED to /\ Ask(Visible')
  /\ UNCHANGED <<again, left, late, consuming>>

\* The scheduler stops a batch past its time: its messages are due again now, the
\* drain fails, and the next poll starts one.
Abort ==
  /\ drain = "out" /\ left = 0
  /\ \A m \in batch : cuts[m] < MaxCuts
  /\ due' = [m \in Msgs |-> IF m \in batch THEN 0 ELSE due[m]]
  /\ cuts' = [m \in Msgs |-> IF m \in batch THEN cuts[m] + 1 ELSE cuts[m]]
  /\ late' = late \cup {batch}
  /\ batch' = {} /\ drain' = "idle" /\ to' = None
  /\ UNCHANGED <<where, attempts, until, again, left, consuming>>

\* Slip: a stopped handler's acks still count.
LateAcks(z) ==
  /\ late' = late \ {z}
  /\ where' = [m \in Msgs |-> IF m \in z /\ where[m] = "main" THEN "gone" ELSE where[m]]
  /\ UNCHANGED <<due, attempts, cuts, drain, to, until, again, batch, left, consuming>>

\* A stopped handler returns, and what it says is ignored.
ReturnLate(z) ==
  /\ late' = late \ {z}
  /\ UNCHANGED <<table, drain, to, until, again, batch, left, consuming>>

\* consume, and the stop() it returns: a batch that is out goes on.
Consume ==
  /\ ~consuming /\ consuming' = TRUE
  /\ Drain(Visible)
  /\ UNCHANGED <<table, batch, left, late>>

Stop ==
  /\ consuming /\ consuming' = FALSE
  /\ UNCHANGED <<table, drain, to, until, again, batch, left, late>>

\* The process dies, and all but the table with it.
Crash ==
  /\ \A m \in batch : cuts[m] < MaxCuts
  /\ cuts' = [m \in Msgs |-> IF m \in batch THEN cuts[m] + 1 ELSE cuts[m]]
  /\ drain' = "idle" /\ to' = None /\ until' = {} /\ again' = None
  /\ batch' = {} /\ left' = TimeoutMs /\ late' = {} /\ consuming' = FALSE
  /\ UNCHANGED <<where, due, attempts>>

Down(n) == IF n = 0 THEN 0 ELSE n - 1

\* Time passes; a batch past its time is stopped before more does, or its handler returns.
Tick ==
  /\ \/ \E m \in Msgs : due[m] > 0
     \/ drain = "out"
  /\ drain = "out" => left > 0
  /\ due' = [m \in Msgs |-> Down(due[m])]
  /\ left' = IF drain = "out" THEN Down(left) ELSE left
  /\ UNCHANGED <<where, attempts, cuts, drain, to, until, again, batch, late, consuming>>
-----------------------------------------------------------------------------
Init ==
  /\ where = [m \in Msgs |-> "unsent"]
  /\ due = [m \in Msgs |-> 0] /\ attempts = [m \in Msgs |-> 0] /\ cuts = [m \in Msgs |-> 0]
  /\ drain = "idle" /\ to = None /\ until = {} /\ again = None
  /\ batch = {} /\ left = TimeoutMs /\ late = {} /\ consuming = FALSE

Next ==
  \/ \E S \in SUBSET Msgs, delay \in Delays : Send(S, delay)
  \/ Poll \/ Deliver \/ Return \/ Abort
  \/ \E z \in late : ReturnLate(z)
  \/ Consume \/ Stop \/ Crash \/ Tick

Spec == Init /\ [][Next]_vars

\* Timers run, a handler returns or is stopped, and whoever stops consuming starts again some time.
\* However often the process goes down, now and then it stays up long enough to lease a batch.
Fairness ==
  /\ WF_vars(Tick) /\ WF_vars(Poll) /\ WF_vars(Return \/ Abort) /\ WF_vars(Consume)
  /\ WF_vars(Deliver) /\ SF_vars(\E rows \in SUBSET until : HandOver(rows))

FairSpec == Spec /\ Fairness
-----------------------------------------------------------------------------
\* The shape of the state, and no message is delivered more often than cut-off deliveries account for.
TypeOK ==
  /\ where \in [Msgs -> {"unsent", "main", "dead", "gone"}]
  /\ due \in [Msgs -> 0..LeaseMs]
  /\ attempts \in [Msgs -> 0..MaxAttempts]
  /\ cuts \in [Msgs -> 0..MaxCuts]
  /\ drain \in {"idle", "asked", "out"} /\ consuming \in BOOLEAN
  /\ until \subseteq Msgs /\ {to, again} \subseteq (SUBSET Msgs) \cup {None}
  /\ batch \in SUBSET On("main") /\ (batch # {} <=> drain = "out")
  /\ left \in 0..TimeoutMs
  /\ late \subseteq SUBSET Msgs

\* A message is retried "until it has been delivered maxRetries + 1 times" (queue.ts), not counting
\* the deliveries that a timeout or a crash cut off.
CountedDeliveries == \A m \in On("main") : attempts[m] <= MaxRetries + 1 + cuts[m]

\* A message leaves the queue only by the delivery it is in: a handler that was stopped settles
\* nothing, whatever it says later, while its messages wait or are out again.
LeavesFromFlight == [][\A m \in On("main") : where'[m] # "main" => m \in batch]_vars

\* Every message sent is acked, dropped or dead-lettered some time, through crashes, stops and
\* restarts, if its deliveries are not cut off for ever (MaxCuts).
EventuallySettled == \A m \in Msgs : where[m] = "main" ~> where[m] \in {"gone", "dead"}
-----------------------------------------------------------------------------
(* What it implements.                                                     *)

Promise == INSTANCE Mailbox WITH
  place <- [m \in Msgs |-> IF where[m] # "main" THEN where[m]
                          ELSE IF m \in batch THEN "out" ELSE "waiting"],
  deliveries <- attempts

\* Polls, leases, timeouts, stops and crashes come to no more than a message waiting a little
\* longer, or being delivered once more: the queue is a Mailbox (queue.ts:1-17).
IsMailbox == Promise!Spec
=============================================================================
