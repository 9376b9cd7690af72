------------------------------- MODULE Scheduler -------------------------------
(***************************************************************************)
(* The scheduler of a host's background work                               *)
(* (packages/shell-bun/src/priority.ts): normal and low jobs share slots   *)
(* and a memory budget; low ones have a limit besides, which a sampler     *)
(* moves; a job may time out, be put out and queued again, be paused, or   *)
(* step aside at a checkpoint, letting memory go first.                    *)
(*                                                                         *)
(* One thread runs it all, so a handler is never interleaved with another. *)
(* The two loops handlers end in are steps of their own, in which nothing  *)
(* else happens: pump (`pumping`) and watch (`watching`).  Memory is in    *)
(* units of some MB.  realtime and high jobs, which are started at once    *)
(* and only count for themselves, and the pool of warm workers are left    *)
(* out.  A definition introduced as a slip is a mistake the code could     *)
(* have made in the definition after it; the specification doesn't use it. *)
(***************************************************************************)
EXTENDS Integers, SequencesExt

CONSTANTS
  None,
  Normals, Lows,       \* the jobs of each class
  Tracked,             \* those that track child processes
  Pauses,              \* those with `pause`
  Releases,            \* those whose checkpoints can let memory go
  Slots, BudgetMb,     \* slots, memBudgetMb
  Says,                \* memMb of each job
  MaxMb,               \* the most a job may take, and the most one is measured at is a unit more
  Requeues, Window,    \* requeues, window
  Happens              \* which of "timeout", "interrupt" happen

Jobs == Normals \cup Lows
Mb == 0..(MaxMb + 1)

ASSUME SchedulerAssumption ==
  /\ Normals \cap Lows = {} /\ Pauses \subseteq Tracked /\ Tracked \cup Releases \subseteq Jobs
  /\ {Slots, Window} \subseteq Nat \ {0}
  /\ {BudgetMb, Says, MaxMb, Requeues} \subseteq Nat /\ Says <= MaxMb
  /\ IsFiniteSet(Jobs) /\ None \notin Nat \cup Jobs

VARIABLES
  stage,     \* of a job: "new", "queued", "running", "parked", "paused", or "over"
  queue,     \* jobs waiting for a slot
  live,      \* jobs started and not over, in the order they started
  running,   \* how many of each class hold a slot
  asks,      \* what a job says it takes, or was measured at when it was put out
  memMb, measuredMb,   \* of a live one
  before,    \* what a job that let memory go at its checkpoint held before, or None
  letting,   \* what a job held when its release began, or None
  requeues,  \* times it may still be put out and queued again
  back,      \* the low class's limit, with its runs of hot and cool samples
  pumping,   \* whether pump is going on
  watching   \* the room made by pauses since watch began, or None

job == <<stage, asks, memMb, measuredMb, before, letting, requeues>>
vars == <<job, queue, live, running, back, pumping, watching>>

Quiet == ~pumping /\ watching = None
ClassOf(j) == IF j \in Normals THEN "normal" ELSE "low"
Live == ToSet(live)
Away(j) == stage[j] \in {"parked", "paused"}
larger(m, n) == IF m > n THEN m ELSE n
smaller(m, n) == IF m < n THEN m ELSE n
Held(j) == larger(memMb[j], measuredMb[j])

\* What the first n come to.
SumTo(mb, n) == LET sum[i \in 0..n] == IF i = 0 THEN 0 ELSE sum[i - 1] + mb[i] IN sum[n]

UsedMb == SumTo([i \in DOMAIN live |-> Held(live[i])], Len(live))

\* Slip: what is away doesn't count.
Unclaimed(j) == IF Away(j) THEN 0 ELSE asks[j]

\* What a waiting job takes besides what it holds already.
Claims(j) == IF ~Away(j) THEN asks[j] ELSE IF before[j] = None THEN 0 ELSE before[j] - memMb[j]

Fits(j) ==
  /\ running["normal"] + running["low"] < Slots
  /\ j \in Lows => running["low"] < back.limit
  /\ \/ UsedMb = (IF Away(j) THEN Held(j) ELSE 0)
     \/ UsedMb + Claims(j) <= BudgetMb

-----------------------------------------------------------------------------
(* pump and submit.                                                        *)

Submit(j) ==
  /\ Quiet /\ stage[j] = "new"
  /\ stage' = [stage EXCEPT ![j] = "queued"]
  /\ queue' = Append(queue, j)
  /\ pumping' = TRUE
  /\ UNCHANGED <<asks, live, running, memMb, measuredMb, before, letting, requeues, back, watching>>

\* The first waiting job that fits, of the normal ones if any.
NextUp ==
  LET ready(class) == {i \in DOMAIN queue : queue[i] \in class /\ Fits(queue[i])}
  IN  IF ready(Normals) # {} THEN queue[Min(ready(Normals))]
      ELSE IF ready(Lows) # {} THEN queue[Min(ready(Lows))] ELSE None

\* One that was queued starts, one that was away goes on, holding what it held before again.
Take(j) ==
  /\ stage' = [stage EXCEPT ![j] = "running"]
  /\ queue' = RemoveFirst(queue, j)
  /\ running' = [running EXCEPT ![ClassOf(j)] = @ + 1]
  /\ live' = IF Away(j) THEN live ELSE Append(live, j)
  /\ measuredMb' = IF Away(j) THEN measuredMb ELSE [measuredMb EXCEPT ![j] = 0]
  /\ memMb' = IF Away(j) /\ before[j] = None THEN memMb
              ELSE [memMb EXCEPT ![j] = IF Away(j) THEN before[j] ELSE asks[j]]
  /\ before' = [before EXCEPT ![j] = None]

Pump ==
  /\ pumping
  /\ IF NextUp # None THEN Take(NextUp) /\ UNCHANGED pumping
     ELSE pumping' = FALSE /\ UNCHANGED <<stage, queue, running, live, measuredMb, memMb, before>>
  /\ UNCHANGED <<asks, letting, requeues, back, watching>>

-----------------------------------------------------------------------------
(* finish.                                                                 *)

\* Slip: a job that was away gives back a slot it doesn't have.
GivesBackAnyway(j) == TRUE

GivesBack(j) == ~Away(j)

\* A job is over, or put out and queued again at the front, sized as it was measured.
Finish(j, again) ==
  /\ live' = RemoveFirst(live, j)
  /\ running' = IF GivesBack(j) THEN [running EXCEPT ![ClassOf(j)] = @ - 1] ELSE running
  /\ stage' = [stage EXCEPT ![j] = IF again THEN "queued" ELSE "over"]
  /\ queue' = IF again THEN Cons(j, queue) ELSE RemoveFirst(queue, j)
  /\ asks' = IF again THEN [asks EXCEPT ![j] = larger(@, measuredMb[j])] ELSE asks
  /\ memMb' = [memMb EXCEPT ![j] = 0]
  /\ requeues' = [requeues EXCEPT ![j] = IF again THEN @ - 1 ELSE @]
  /\ measuredMb' = [measuredMb EXCEPT ![j] = 0]
  /\ before' = [before EXCEPT ![j] = None] /\ letting' = [letting EXCEPT ![j] = None]
  /\ pumping' = TRUE
  /\ UNCHANGED back

\* Its function returned or threw: wherever it is, for its processes may end on their own.
Return(j) == Quiet /\ j \in Live /\ Finish(j, FALSE) /\ UNCHANGED watching

\* The clock runs while it holds a slot.
Timeout(j) == /\ "timeout" \in Happens
              /\ Quiet /\ j \in Live /\ ~Away(j)
              /\ Finish(j, FALSE) /\ UNCHANGED watching

-----------------------------------------------------------------------------
(* Checkpoints.                                                            *)

Crowded(j, releasing) ==
  \/ releasing /\ UsedMb > BudgetMb
  \/ /\ j \in Lows
     /\ \/ running["low"] > back.limit
        \/ /\ running["normal"] + running["low"] >= Slots
           /\ \E w \in ToSet(queue) : /\ w \in Normals /\ ~Away(w)
                                      /\ UsedMb = 0 \/ UsedMb + asks[w] <= BudgetMb

\* Slip: nobody looks who may have the slot now.
Unpumped == FALSE

\* Whoever gives a slot back lets the next one have it.
Pumped == TRUE

\* park, in front of the others.
Park(j, away) ==
  /\ stage' = [stage EXCEPT ![j] = away]
  /\ running' = [running EXCEPT ![ClassOf(j)] = @ - 1]
  /\ queue' = Cons(j, queue)
  /\ pumping' = Pumped

\* checkpoint, of a job that has nothing to let go.
Checkpoint(j) ==
  /\ Quiet /\ stage[j] = "running" /\ letting[j] = None
  /\ Crowded(j, FALSE) /\ Park(j, "parked")
  /\ UNCHANGED <<asks, live, memMb, measuredMb, before, letting, requeues, back, watching>>

\* checkpoint(release), up to where it waits for the release.
StartRelease(j) ==
  /\ Quiet /\ stage[j] = "running" /\ letting[j] = None /\ j \in Releases
  /\ Crowded(j, TRUE)
  /\ letting' = [letting EXCEPT ![j] = Held(j)]
  /\ UNCHANGED <<stage, asks, queue, live, running, memMb, measuredMb, before, requeues, back, pumping, watching>>

\* ... and its end, at `after`: meanwhile the job may have been paused, or be smaller than it was.
EndRelease(j) ==
  /\ Quiet /\ j \in Live /\ letting[j] # None
  /\ letting' = [letting EXCEPT ![j] = None]
  /\ IF Away(j) THEN UNCHANGED <<stage, queue, running, memMb, measuredMb, before, pumping>>
     ELSE /\ Park(j, "parked")
          /\ \E after \in 0..letting[j] :
               IF after = letting[j] THEN UNCHANGED <<memMb, measuredMb, before>>
               ELSE /\ memMb' = [memMb EXCEPT ![j] = after]
                    /\ measuredMb' = [measuredMb EXCEPT ![j] = smaller(@, after)]
                    /\ before' = [before EXCEPT ![j] = letting[j]]
  /\ UNCHANGED <<asks, live, requeues, back, watching>>

\* Interrupted while parked: it runs on and holds a slot again, past Slots if it must.
Interrupt(j) ==
  /\ "interrupt" \in Happens
  /\ Quiet /\ stage[j] = "parked"
  /\ Take(j)
  /\ UNCHANGED <<asks, letting, requeues, back, pumping, watching>>

-----------------------------------------------------------------------------
(* tick: adapt, watch, pump.                                               *)

\* Slip: the limit goes up past the slots.
RaisedPast(limit) == limit + 1

Raised(limit) == smaller(Slots, limit + 1)

\* adapt, to a sample that is over the budget, well under it, or neither.
Adapt(load) ==
  CASE load = "hot"  -> IF back.hot + 1 >= Window THEN [limit |-> back.limit \div 2, hot |-> 0, cool |-> 0]
                        ELSE [back EXCEPT !.hot = @ + 1, !.cool = 0]
    [] load = "cool" -> IF back.cool + 1 >= Window
                        THEN [limit |-> Raised(back.limit), hot |-> 0, cool |-> 0]
                        ELSE [back EXCEPT !.hot = 0, !.cool = @ + 1]
    [] OTHER         -> [back EXCEPT !.hot = 0, !.cool = 0]

\* A sample, and how big everything is: what is paused doesn't grow.
Tick ==
  /\ Quiet
  /\ \E load \in {"hot", "cool", "between"} : back' = Adapt(load)
  /\ measuredMb' \in [Jobs -> Mb]
  /\ \A j \in Jobs : /\ j \notin Live \cap Tracked => measuredMb'[j] = measuredMb[j]
                     /\ stage[j] = "paused" => measuredMb'[j] <= measuredMb[j]
  /\ watching' = 0
  /\ UNCHANGED <<stage, asks, queue, live, running, memMb, before, letting, requeues, pumping>>

TooBig == {i \in DOMAIN live : live[i] \in Tracked /\ measuredMb[live[i]] > MaxMb}

\* Past its own maxMb, a job is stopped, wherever it is.
StopBig ==
  /\ watching # None /\ ~pumping
  /\ TooBig # {} /\ Finish(live[Min(TooBig)], FALSE)
  /\ UNCHANGED watching

\* The newest measured one, low before normal, and never the oldest that holds a slot.
Victim ==
  LET slotted == {i \in DOMAIN live : ~Away(live[i])}
      measured(class) == {i \in slotted : /\ live[i] \in class /\ measuredMb[live[i]] > 0
                                          /\ i # Min(slotted)}
  IN  IF measured(Lows) # {} THEN live[Max(measured(Lows))]
      ELSE IF measured(Normals) # {} THEN live[Max(measured(Normals))] ELSE None

\* Over the budget, the victim is paused if it asked for that, or put out; else watch is over, and pump is next.
Watch ==
  /\ watching # None /\ ~pumping /\ TooBig = {}
  /\ IF UsedMb - watching <= BudgetMb \/ Victim = None
     THEN /\ watching' = None /\ pumping' = TRUE
          /\ UNCHANGED <<job, queue, live, running, back>>
     ELSE IF Victim \in Pauses
     THEN /\ Park(Victim, "paused")
          /\ watching' = watching + measuredMb[Victim]
          /\ UNCHANGED <<asks, live, memMb, measuredMb, before, letting, requeues, back>>
     ELSE Finish(Victim, requeues[Victim] > 0) /\ UNCHANGED watching
-----------------------------------------------------------------------------

Init ==
  /\ stage = [j \in Jobs |-> "new"] /\ queue = <<>> /\ live = <<>>
  /\ running = [c \in {"normal", "low"} |-> 0]
  /\ asks = [j \in Jobs |-> Says]
  /\ memMb = [j \in Jobs |-> 0] /\ measuredMb = [j \in Jobs |-> 0]
  /\ before = [j \in Jobs |-> None] /\ letting = [j \in Jobs |-> None]
  /\ requeues = [j \in Jobs |-> Requeues]
  /\ back = [limit |-> Slots, hot |-> 0, cool |-> 0]
  /\ pumping = FALSE /\ watching = None

Next == \/ Pump \/ StopBig \/ Watch \/ Tick
        \/ \E j \in Jobs : \/ Submit(j) \/ Return(j) \/ Timeout(j)
                           \/ Checkpoint(j) \/ StartRelease(j) \/ EndRelease(j) \/ Interrupt(j)

Spec == Init /\ [][Next]_vars

-----------------------------------------------------------------------------
(* What should hold.                                                       *)

\* The shape of the state.
TypeOK ==
  /\ stage \in [Jobs -> {"new", "queued", "running", "parked", "paused", "over"}]
  /\ running \in [{"normal", "low"} -> 0..Cardinality(Jobs)]
  /\ asks \in [Jobs -> 0..MaxMb] /\ memMb \in [Jobs -> Mb] /\ measuredMb \in [Jobs -> Mb]
  /\ before \in [Jobs -> Mb \cup {None}] /\ letting \in [Jobs -> Mb \cup {None}]
  /\ requeues \in [Jobs -> 0..Requeues]
  /\ back \in [limit: 0..Slots, hot: 0..(Window - 1), cool: 0..(Window - 1)]
  /\ pumping \in BOOLEAN /\ watching \in Nat \cup {None}

\* The counters, the queue and the live jobs tell of the same jobs, however they stop, step aside,
\* are paused, interrupted or put out: a slot is neither lost nor given back twice, and nobody waits twice.
BooksAgree ==
  /\ \A class \in {Normals, Lows} :
       LET slotted == {j \in class : stage[j] = "running"}
       IN  \A j \in class : running[ClassOf(j)] = Cardinality(slotted)
  /\ IsInjective(queue) /\ ToSet(queue) = {j \in Jobs : stage[j] = "queued" \/ Away(j)}
  /\ IsInjective(live) /\ Live = {j \in Jobs : stage[j] = "running" \/ Away(j)}

\* Between handlers nobody waits who could have a slot: whatever makes room also looks who waits for it.
NoIdleRoom == Quiet => \A j \in ToSet(queue) : ~Fits(j)

\* Whoever is given a slot, at first, again, or back, has one of Slots and leaves the background work
\* within the memory budget, or is alone in it ("how much of it runs at once", priority.ts:3).
RoomForAll ==
  [][\A j \in Jobs : (pumping /\ stage[j] # "running" /\ stage'[j] = "running") =>
       /\ running'["normal"] + running'["low"] <= Slots
       /\ UsedMb' <= BudgetMb \/ UsedMb' = Held(j)']_vars

\* "nothing else running: a job bigger than the whole budget still gets its turn alone" (priority.ts:287).
TurnAlone == Quiet /\ running["normal"] + running["low"] = 0 /\ back.limit > 0 => queue = <<>>
=============================================================================
