-------------------------------- MODULE Mailbox --------------------------------
(***************************************************************************)
(* What a queue promises whoever sends to it, and whoever handles what it  *)
(* carries, without its table, its loop, its timers and its crashes: a     *)
(* message waits, is handed over in a batch, and comes back or is settled  *)
(* by that batch, for good and by it alone.  Queue implements it.          *)
(***************************************************************************)
EXTENDS Naturals, FiniteSets

CONSTANTS Msgs, BatchSize, MaxRetries, DeadLetters

VARIABLES
  place,       \* of each message: "unsent", "waiting", "out", "gone" or "dead"
  deliveries   \* of each message, cut off or not

vars == <<place, deliveries>>

In(p) == {m \in Msgs : place[m] = p}
Now(S, p) == [m \in Msgs |-> IF m \in S THEN p ELSE place[m]]

Init == place = [m \in Msgs |-> "unsent"] /\ deliveries = [m \in Msgs |-> 0]

Send(S) == /\ S # {} /\ S \subseteq In("unsent")
           /\ place' = Now(S, "waiting")
           /\ UNCHANGED deliveries

\* One batch is out at a time.
HandOver(S) == /\ In("out") = {}
               /\ S # {} /\ S \subseteq In("waiting") /\ Cardinality(S) <= BatchSize
               /\ place' = Now(S, "out")
               /\ deliveries' = [m \in Msgs |-> IF m \in S THEN deliveries[m] + 1 ELSE deliveries[m]]

\* The handler is stopped, or dies: everything it had waits again.
CutOff == /\ In("out") # {}
          /\ place' = Now(In("out"), "waiting")
          /\ UNCHANGED deliveries

Retried(acked) == {m \in In("out") \ acked : deliveries[m] <= MaxRetries}

\* The handler answers for each message: it is done, or delivered again, or has been often enough.
Answer(acked) ==
  LET spent == (In("out") \ acked) \ Retried(acked)
  IN  /\ In("out") # {}
      /\ place' = [m \in Msgs |-> CASE m \in acked -> "gone"
                                    [] m \in Retried(acked) -> "waiting"
                                    [] m \in spent -> IF DeadLetters THEN "dead" ELSE "gone"
                                    [] OTHER -> place[m]]
      /\ deliveries' = [m \in Msgs |-> IF m \in spent /\ DeadLetters THEN 0 ELSE deliveries[m]]

Next == \/ \E S \in SUBSET Msgs : Send(S) \/ HandOver(S)
        \/ CutOff
        \/ \E acked \in SUBSET In("out") : Answer(acked)

Spec == Init /\ [][Next]_vars
=============================================================================
