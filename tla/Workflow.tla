-------------------------------- MODULE Workflow --------------------------------
(***************************************************************************)
(* One instance of a workflow off the edge (packages/shell-bun/src/        *)
(* bindings/workflow.ts): its row, what its steps left in the database,    *)
(* the events sent to it, and its runs, with whoever pauses, resumes,      *)
(* terminates and restarts it meanwhile, and a process that may die.       *)
(*                                                                         *)
(* What runs between two awaits is one action.  The app's function is any  *)
(* function: it may call any step when it likes, several at a time, and    *)
(* return or throw.  With "abandon" in Happens it may do so while steps it *)
(* called are still going (Promise.race, or one of several that fails).    *)
(* A step that waits at the gate is one not called yet.                    *)
(*                                                                         *)
(* A definition introduced as a slip is a mistake the code could have made *)
(* in the definition after it; the specification doesn't use it.           *)
(***************************************************************************)
EXTENDS Integers, FiniteSets, FiniteSetsExt

CONSTANTS
  Dos, Sleeps, Waits,   \* the function's calls of step.do, sleep and waitForEvent, by key
  None,
  Limit,                \* how often a step.do is retried
  MaxEvents,            \* bound on events sent
  MaxRuns, MaxRestarts, \* bounds on runs started and on restarts asked for
  Happens               \* which of "abandon", "race", "crash" happen

Steps == Dos \cup Sleeps \cup Waits
Timed == Sleeps \cup Waits
Kept == Dos \cup Waits
Events == 1..MaxEvents
Runs == 1..MaxRuns

ASSUME KindsApart == Dos \cap Timed = {} /\ Sleeps \cap Waits = {}
ASSUME BoundsAssumption == {Limit, MaxEvents, MaxRuns, MaxRestarts} \subseteq Nat
ASSUME NoneApart == None \notin Runs \cup Events

Final == {"complete", "errored", "terminated"}
Due == {"queued", "running", "waiting"}
Status == Final \cup Due \cup {"none", "paused"}

Busy == {"calling", "backoff", "sleeping", "woken", "listening"}
Pc == Busy \cup {"idle", "done", "failed"}

(***************************************************************************)
(* A run's closure.  Its phase is "none" before it starts, "going" while   *)
(* the function is, "returned" or "threw" once the function has and the    *)
(* row doesn't say so yet, "written" once it does, and "over" when the     *)
(* instance has forgotten it.  `stopped` and `paused` are those of the     *)
(* code; `pc` and `tries` say how far each step is.                        *)
(***************************************************************************)
Run == [phase: {"none", "going", "returned", "threw", "written", "over"},
        stopped: BOOLEAN, paused: BOOLEAN, pc: [Steps -> Pc], tries: [Dos -> 0..Limit]]

VARIABLES
  status,    \* of the row, "none" without one
  result,    \* workflow_steps: each step's result: the run it is of, or the event it got
  clock,     \* ... and each deadline: "unset", "set" or "past"
  inbox,     \* workflow_events, oldest first
  bound,     \* the app's class is there
  runs, cur, \* every run started, and the one in `runs` and `live`, 0 without
  restarts,  \* restarts that wait for that run to stop
  sent, lost, era  \* history: events sent, events whose step a restart deleted, restarts that did

vars == <<status, result, clock, inbox, bound, runs, cur, restarts, sent, lost, era>>
store == <<result, clock, inbox, sent, lost, era>>

TypeOK ==
  /\ status \in Status
  /\ result \in [Kept -> Runs \cup Events \cup {None}]
  /\ clock \in [Timed -> {"unset", "set", "past"}]
  /\ inbox \subseteq Events /\ lost \subseteq Events
  /\ bound \in BOOLEAN
  /\ runs \in [Runs -> Run]
  /\ cur \in 0..MaxRuns
  /\ restarts \in 0..MaxRestarts /\ era \in 0..MaxRestarts
  /\ sent \in 0..MaxEvents

Idle == [phase |-> "none", stopped |-> FALSE, paused |-> FALSE,
         pc |-> [s \in Steps |-> "idle"], tries |-> [s \in Dos |-> 0]]

Init ==
  /\ status = "none" /\ result = [s \in Kept |-> None]
  /\ clock = [s \in Timed |-> "unset"] /\ inbox = {}
  /\ bound \in BOOLEAN /\ runs = [g \in Runs |-> Idle] /\ cur = 0
  /\ restarts = 0 /\ sent = 0 /\ lost = {} /\ era = 0

-----------------------------------------------------------------------------
(* Runs start and end.                                                     *)

Started == Cardinality({g \in Runs : runs[g].phase # "none"})

\* start and the first lines of run: the row says `otherwise` if it has to wait for the class, or
\* goes on saying it if there is a run already.
Start(otherwise) ==
  IF bound /\ cur = 0
  THEN /\ Started < MaxRuns
       /\ cur' = Started + 1
       /\ runs' = [runs EXCEPT ![Started + 1].phase = "going"]
       /\ status' = "running"
  ELSE UNCHANGED <<cur, runs>> /\ status' = otherwise

Create == /\ status = "none"
          /\ Start("queued")
          /\ UNCHANGED <<bound, restarts, store>>

\* What was queued, running or waiting runs, again from the top.
Bind == /\ ~bound /\ bound' = TRUE
        /\ IF status \in Due
           THEN /\ Started < MaxRuns
                /\ cur' = Started + 1
                /\ runs' = [runs EXCEPT ![Started + 1].phase = "going"]
                /\ status' = "running"
           ELSE UNCHANGED <<cur, runs, status>>
        /\ UNCHANGED <<restarts, store>>

\* The process dies. The database stays.
Crash == /\ "crash" \in Happens /\ bound /\ Started < MaxRuns
         /\ bound' = FALSE /\ cur' = 0 /\ restarts' = 0
         /\ runs' = [g \in Runs |-> IF runs[g].phase = "none" THEN Idle ELSE [Idle EXCEPT !.phase = "over"]]
         /\ UNCHANGED <<status, store>>

\* The function returns or throws: with nothing it called still going, unless it abandons that.
FunctionEnds(g, how) ==
  /\ runs[g].phase = "going" /\ ~runs[g].stopped
  /\ "abandon" \in Happens \/ \A s \in Steps : runs[g].pc[s] \notin Busy
  /\ runs' = [runs EXCEPT ![g].phase = how]
  /\ UNCHANGED <<status, bound, cur, restarts, store>>

\* Slip: nothing tells a run it is stopped while its function goes on.
DeafToStop(g) == FALSE

\* A stopped run doesn't wait for its function.
Interrupted(g) == runs[g].phase = "going" /\ runs[g].stopped

\* The row says how it ended, even if it was stopped since; but a throw of a stopped run is no error.
Write(g) ==
  /\ \/ runs[g].phase = "returned" /\ status' = "complete"
     \/ runs[g].phase = "threw" /\ status' = (IF runs[g].stopped THEN status ELSE "errored")
     \/ Interrupted(g) /\ UNCHANGED status
  /\ runs' = [runs EXCEPT ![g].phase = "written"]
  /\ UNCHANGED <<bound, cur, restarts, store>>

\* What stays of a run that is over: the steps it abandoned, which nothing has told to stop.
Remains(r) == IF r.stopped \/ \A s \in Steps : r.pc[s] \notin Busy
              THEN [Idle EXCEPT !.phase = "over"] ELSE [r EXCEPT !.phase = "over"]

\* The steps go, and the events they got with them.
Wipe == /\ era' = era + 1
        /\ result' = [s \in Kept |-> None] /\ clock' = [s \in Timed |-> "unset"]
        /\ lost' = lost \cup {result[s] : s \in {w \in Waits : result[w] # None}}
        /\ UNCHANGED <<inbox, sent>>

\* finally: the instance forgets the run, and who waited for that to restart it does, one right
\* after another: the first one starts a run, which the second one finds.
End(g) ==
  /\ cur = g /\ runs[g].phase = "written"
  /\ IF restarts = 0
     THEN /\ cur' = 0 /\ runs' = [runs EXCEPT ![g] = Remains(@)]
          /\ UNCHANGED <<status, store>>
     ELSE /\ cur' = Started + 1
          /\ runs' = [runs EXCEPT ![g] = Remains(@), ![Started + 1].phase = "going"]
          /\ status' = IF restarts = 1 THEN "running" ELSE "queued"
          /\ Wipe
  /\ restarts' = 0
  /\ UNCHANGED bound

-----------------------------------------------------------------------------
(* What is asked of the instance.  From when its function ends, or it is   *)
(* told to stop, till the instance forgets a run it is a few microtasks:   *)
(* only with "race" does anyone ask for anything in these.                 *)

Ending == cur # 0 /\ (runs[cur].phase # "going" \/ runs[cur].stopped)
Heard == status # "none" /\ (Ending => "race" \in Happens)

Pause == /\ Heard /\ cur # 0 /\ ~runs[cur].paused
         /\ runs' = [runs EXCEPT ![cur].paused = TRUE]
         /\ status' = "paused"
         /\ UNCHANGED <<bound, cur, restarts, store>>

\* Paused when the process stopped: nothing is live, so it starts again.
Resume == /\ Heard
          /\ IF cur # 0 /\ runs[cur].paused
             THEN /\ runs' = [runs EXCEPT ![cur].paused = FALSE]
                  /\ status' = "running" /\ UNCHANGED cur
             ELSE status = "paused" /\ Start("queued")
          /\ UNCHANGED <<bound, restarts, store>>

Stop == IF cur # 0 THEN [runs EXCEPT ![cur].stopped = TRUE] ELSE runs

Terminate == /\ Heard /\ status \notin Final
             /\ runs' = Stop
             /\ status' = "terminated"
             /\ UNCHANGED <<bound, cur, restarts, store>>

\* Slip: it doesn't wait for the run it stops.
RestartAtOnce == /\ Heard /\ era + restarts < MaxRestarts /\ Started < MaxRuns
                 /\ Wipe
                 /\ runs' = [Stop EXCEPT ![Started + 1].phase = "going"]
                 /\ cur' = Started + 1 /\ status' = "running"
                 /\ UNCHANGED <<restarts, bound>>

Restart == /\ Heard /\ era + restarts < MaxRestarts /\ Started < MaxRuns
           /\ IF cur # 0
              THEN /\ runs' = Stop /\ restarts' = restarts + 1
                   /\ UNCHANGED <<status, cur, store>>
              ELSE Wipe /\ Start("queued") /\ UNCHANGED restarts
           /\ UNCHANGED bound

SendEvent == /\ status # "none" /\ sent < MaxEvents
             /\ sent' = sent + 1 /\ inbox' = inbox \cup {sent + 1}
             /\ UNCHANGED <<status, result, clock, bound, runs, cur, restarts, lost, era>>

-----------------------------------------------------------------------------
(* Steps.  Each waits out a pause, and stops with the run.                 *)

\* Slip: only a stop closes the gate.
PassesPaused(g) == ~runs[g].stopped

PassesGate(g) == ~runs[g].stopped /\ ~runs[g].paused
Called(g, s) == runs[g].phase = "going" /\ runs[g].pc[s] = "idle" /\ PassesGate(g)
At(g, s, where) == runs[g].pc[s] = where /\ ~runs[g].stopped
Goes(g, s, where) == runs' = [runs EXCEPT ![g].pc[s] = where]

\* Slip: results are kept and never looked up.
Forgotten(s) == FALSE

Stored(s) == result[s] # None

\* A stored result is returned; without one the callback is called.
Do(g, s) == /\ Called(g, s)
            /\ Goes(g, s, IF Stored(s) THEN "done" ELSE "calling")
            /\ UNCHANGED <<status, bound, cur, restarts, store>>

Succeed(g, s) == /\ At(g, s, "calling")
                 /\ result' = [result EXCEPT ![s] = g]
                 /\ Goes(g, s, "done")
                 /\ UNCHANGED <<status, clock, inbox, sent, lost, era, bound, cur, restarts>>

\* Slip: one retry more than configured.
OnceMore(g, s) == runs[g].tries[s] <= Limit

MayRetry(g, s) == runs[g].tries[s] < Limit

\* It threw or timed out; for good if that can't be retried, or not any more.
Fail(g, s) == /\ At(g, s, "calling")
              /\ \/ Goes(g, s, "failed")
                 \/ /\ MayRetry(g, s)
                    /\ runs' = [runs EXCEPT ![g].pc[s] = "backoff", ![g].tries[s] = @ + 1]
              /\ UNCHANGED <<status, bound, cur, restarts, store>>

Retry(g, s) == /\ At(g, s, "backoff") /\ PassesGate(g)
               /\ Goes(g, s, "calling")
               /\ UNCHANGED <<status, bound, cur, restarts, store>>

\* Slip: each run counts anew.
FreshClock(s) == clock' = [clock EXCEPT ![s] = "set"]

\* A deadline is stored once.
SetClock(s) == clock' = [clock EXCEPT ![s] = IF @ = "unset" THEN "set" ELSE @]

\* A deadline passes.
Pass(s) == /\ clock[s] = "set"
           /\ clock' = [clock EXCEPT ![s] = "past"]
           /\ UNCHANGED <<status, result, inbox, sent, lost, era, bound, runs, cur, restarts>>

Sleep(g, s) == /\ Called(g, s)
               /\ SetClock(s)
               /\ IF clock[s] = "past" THEN Goes(g, s, "done") /\ UNCHANGED status
                  ELSE Goes(g, s, "sleeping") /\ status' = "waiting"
               /\ UNCHANGED <<result, inbox, sent, lost, era, bound, cur, restarts>>

Wake(g, s) == /\ At(g, s, "sleeping") /\ clock[s] = "past"
              /\ IF runs[g].paused THEN Goes(g, s, "woken") /\ UNCHANGED status
                 ELSE Goes(g, s, "done") /\ status' = "running"
              /\ UNCHANGED <<bound, cur, restarts, store>>

GoOn(g, s) == /\ At(g, s, "woken") /\ PassesGate(g)
              /\ Goes(g, s, "done")
              /\ UNCHANGED <<status, bound, cur, restarts, store>>

\* Slip: the latest event is taken.
Latest == Max(inbox)

Oldest == Min(inbox)

\* One turn of the loop of waitForEvent: the oldest event becomes the step's result and is deleted.
Listen(g, s) ==
  IF inbox # {}
  THEN /\ result' = [result EXCEPT ![s] = Oldest]
       /\ inbox' = inbox \ {Oldest}
       /\ Goes(g, s, "done") /\ status' = "running"
  ELSE /\ IF clock[s] = "past" THEN Goes(g, s, "failed") /\ status' = "running"
          ELSE Goes(g, s, "listening") /\ status' = "waiting"
       /\ UNCHANGED <<result, inbox>>

WaitForEvent(g, s) ==
  /\ Called(g, s)
  /\ IF Stored(s) THEN Goes(g, s, "done") /\ UNCHANGED <<status, result, clock, inbox>>
     ELSE SetClock(s) /\ Listen(g, s)
  /\ UNCHANGED <<sent, lost, era, bound, cur, restarts>>

\* An event wakes who listens in the run the instance knows; its deadline anyone.
Hear(g, s) == /\ At(g, s, "listening") /\ PassesGate(g)
              /\ (g = cur /\ inbox # {}) \/ clock[s] = "past"
              /\ Listen(g, s)
              /\ UNCHANGED <<clock, sent, lost, era, bound, cur, restarts>>

-----------------------------------------------------------------------------

Asked == Create \/ Bind \/ Crash \/ Pause \/ Resume \/ Terminate \/ Restart \/ SendEvent
RunStep(g) == Write(g) \/ End(g) \/ \E how \in {"returned", "threw"} : FunctionEnds(g, how)
Calls(g) == \/ \E s \in Dos : Do(g, s)
            \/ \E s \in Sleeps : Sleep(g, s)
            \/ \E s \in Waits : WaitForEvent(g, s)
Follows(g, s) == \/ s \in Dos /\ (Succeed(g, s) \/ Fail(g, s) \/ Retry(g, s))
                 \/ s \in Sleeps /\ (Wake(g, s) \/ GoOn(g, s))
                 \/ s \in Waits /\ Hear(g, s)

Next == \/ Asked
        \/ \E s \in Timed : Pass(s)
        \/ \E g \in Runs : RunStep(g) \/ Calls(g) \/ \E s \in Steps : Follows(g, s)

Spec == Init /\ [][Next]_vars

(***************************************************************************)
(* Time passes; a callback returns, throws or times out, and a retry's     *)
(* delay runs out; a function that waits for nothing returns or throws;    *)
(* what follows in the runtime follows.  Nobody has to ask for anything,   *)
(* and the function need not call its steps.                               *)
(***************************************************************************)
Fairness ==
  /\ \A s \in Timed : WF_vars(Pass(s))
  /\ \A g \in Runs : WF_vars(RunStep(g)) /\ \A s \in Steps : WF_vars(Follows(g, s))

FairSpec == Spec /\ Fairness

-----------------------------------------------------------------------------
(* Properties.                                                             *)

\* One run at a time: a restart waits till the run before it is over, and nothing else starts one
\* beside it, so no run writes the row or the steps of another (`start`, `restart`).
OneRun == \A g \in Runs : runs[g].phase \notin {"none", "over"} => g = cur

Taken == {result[s] : s \in Waits} \ {None}

\* Every event sent is there to be taken, or is the result of one step, or went with the steps in a
\* restart; and events are taken oldest first (`waitForEvent`, `sendEvent`), whatever died when.
EventsKept ==
  /\ inbox \cup Taken \cup lost = 1..sent
  /\ inbox \cap (Taken \cup lost) = {} /\ Taken \cap lost = {}
  /\ \A s, t \in Waits : result[s] = result[t] /\ s # t => result[s] = None
  /\ \A e \in inbox, f \in Taken \cup lost : f < e

\* The step begins, or tries again.
Begins(g, s) == /\ runs'[g].pc[s] \in {"calling", "sleeping", "listening"}
                /\ runs'[g].pc[s] # runs[g].pc[s]

\* "Its finished steps return their stored results instead of running twice" (:9-10): till a
\* restart, a result stays as it is and no callback is called for it, over runs and crashes.
StepsOnce ==
  [][\A s \in Kept : result[s] # None /\ era' = era =>
       /\ result'[s] = result[s]
       /\ \A g \in Runs : ~Begins(g, s)]_vars

\* "A sleep picks up its remaining time" (:10), and so does a wait for an event: till a restart no
\* deadline is put off.
DeadlinesKept ==
  [][\A s \in Timed : era' = era => /\ (clock[s] = "past" => clock'[s] = "past")
                                   /\ (clock[s] = "set" => clock'[s] # "unset")]_vars

\* While the row says that an instance is paused, or over, no step of it begins, in no run.
QuietWhenStopped ==
  [][(status \in Final \cup {"paused"}) =>
       \A g \in Runs, s \in Steps : ~Begins(g, s)]_vars

\* An instance that is over, and that nothing runs, stays as it ended: only a restart changes that.
EndedStays == [][cur = 0 /\ status \in Final => status' = status \/ era' # era]_vars

\* A run that isn't paused ends, and one that is stopped ends although it is: no event, no wake-up
\* and no retry is missed, and so a terminate or a restart that waits for it comes back.
RunsEnd == \A g \in Runs : cur = g ~> cur # g \/ (runs[g].paused /\ ~runs[g].stopped)
=============================================================================
