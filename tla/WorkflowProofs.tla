---------------------------- MODULE WorkflowProofs ----------------------------
(***************************************************************************)
(* One run of a workflow at a time, whatever is asked of it and however    *)
(* often the process dies, for any steps, retries and events; and, of a    *)
(* function that waits for the steps it calls, that a step happens once,   *)
(* that no event is lost, and that what is stopped is quiet.               *)
(***************************************************************************)
EXTENDS Workflow, SetFacts

Live == {"going", "returned", "threw", "written"}

\* Runs are started in order, and one that isn't is as new.
InOrder(k) == \A g \in Runs : /\ runs[g].phase # "none" <=> g <= k
                              /\ runs[g].phase = "none" => runs[g] = Idle

\* The run the instance knows is the one that isn't over.  Without the class there is none.
OneCur == /\ OneRun
          /\ cur # 0 => runs[cur].phase \in Live
          /\ ~bound => cur = 0

\* Who waits to restart has a run to wait for, and a run left to start.
Waiters == /\ restarts > 0 => cur # 0 /\ \E k \in 0..(MaxRuns - 1) : InOrder(k)
           /\ era + restarts <= MaxRestarts

\* What a wait has got is an event.
GotEvents == \A s \in Waits : result[s] \in Events \cup {None}

IInv == TypeOK /\ GotEvents /\ (\E k \in 0..MaxRuns : InOrder(k)) /\ OneCur /\ Waiters

Active(g) == runs[g].phase = "going" /\ ~runs[g].stopped

\* Only a run that goes on, or was stopped, has steps that do.
NothingLoose == \A g \in Runs : Active(g) \/ runs[g].stopped \/ \A s \in Steps : runs[g].pc[s] \notin Busy

\* No active run is at a step that has a result.
NoneTwice == \A g \in Runs, s \in Kept : Active(g) /\ result[s] # None => runs[g].pc[s] \notin Busy

\* The row of a run that isn't told to wait says so.
RowGoes == cur # 0 /\ Active(cur) /\ ~runs[cur].paused => status \in Due

\* What holds besides, of a function that waits for what it calls.
JInv == IInv /\ NothingLoose /\ NoneTwice /\ RowGoes /\ EventsKept

-----------------------------------------------------------------------------
(* Events, bounds and runs.                                                *)

LEMMA Sizes == Limit \in Nat /\ MaxEvents \in Nat /\ MaxRuns \in Nat /\ MaxRestarts \in Nat
BY BoundsAssumption

\* The oldest event is there, and older than the others.
LEMMA OldestIsFirst ==
  ASSUME inbox \subseteq Events, inbox # {}
  PROVE  /\ Oldest \in inbox /\ Oldest \in Events
         /\ \A e \in inbox : Oldest <= e
<1>1. inbox \subseteq Nat
  BY Sizes DEF Events
<1>2. \E x \in inbox : \A y \in inbox : x <= y
  BY <1>1, LeastNumber
<1> QED BY <1>2 DEF Oldest, Min

\* As many runs were started as the last one's number says.
LEMMA StartedIs ==
  ASSUME NEW k \in 0..MaxRuns, InOrder(k)
  PROVE  Started = k
<1>1. {g \in Runs : runs[g].phase # "none"} = 1..k
  BY Sizes DEF InOrder, Runs
<1>2. Cardinality(1..k) = k
  BY FS_Interval
<1> QED BY <1>1, <1>2 DEF Started

\* An idle run is a run, and so is one that begins.
LEMMA IdleIsRun == Idle \in Run /\ [Idle EXCEPT !.phase = "going"] \in Run /\ [Idle EXCEPT !.phase = "over"] \in Run
<1>1. [s \in Steps |-> "idle"] \in [Steps -> Pc] /\ [s \in Dos |-> 0] \in [Dos -> 0..Limit]
  BY Sizes DEF Pc
<1> QED BY <1>1 DEF Idle, Run

\* A step that leaves every run started or not, and the instance with the run it has.
LEMMA RunGoesOn ==
  ASSUME IInv, NEW g \in Runs, runs[g].phase # "none", runs' \in [Runs -> Run],
         \A h \in Runs \ {g} : runs'[h] = runs[h],
         runs'[g].phase # "none", runs'[g].phase = "over" <=> runs[g].phase = "over",
         UNCHANGED <<cur, bound>>, era' + restarts' <= MaxRestarts, restarts' > 0 => restarts > 0 \/ (cur # 0 /\ Started < MaxRuns)
  PROVE  (\E k \in 0..MaxRuns : InOrder(k)') /\ OneCur' /\ Waiters'
<1>1. ASSUME NEW k, InOrder(k) PROVE InOrder(k)'
  BY <1>1 DEF InOrder
<1>2. OneCur'
  BY DEF IInv, OneCur, OneRun, TypeOK, Run, Live, Runs
<1>3. Waiters'
  <2>1. restarts' > 0 => cur' # 0 /\ \E k \in 0..(MaxRuns - 1) : InOrder(k)'
    <3>1. ASSUME cur # 0, Started < MaxRuns PROVE cur' # 0 /\ \E k \in 0..(MaxRuns - 1) : InOrder(k)'
      BY <1>1, <3>1, StartedIs, Sizes DEF IInv
    <3> QED BY <1>1, <3>1 DEF IInv, Waiters
  <2> QED BY <2>1 DEF Waiters
<1> QED BY <1>1, <1>2, <1>3 DEF IInv

\* A run that begins is the next one, and was as new.
LEMMA RunBegins ==
  ASSUME IInv, Started < MaxRuns, cur = 0, runs' = [runs EXCEPT ![Started + 1].phase = "going"]
  PROVE  /\ Started + 1 \in Runs /\ Started + 1 \in 0..MaxRuns
         /\ runs[Started + 1] = Idle
         /\ runs' = [runs EXCEPT ![Started + 1] = [Idle EXCEPT !.phase = "going"]]
         /\ runs' \in [Runs -> Run]
         /\ \E k \in 0..MaxRuns : InOrder(k)'
         /\ \A h \in Runs : runs'[h].phase \notin {"none", "over"} => h = Started + 1
<1>1. PICK k \in 0..MaxRuns : InOrder(k)
  BY DEF IInv
<1>2. Started = k /\ k < MaxRuns /\ k + 1 \in Runs /\ k + 1 \in 0..MaxRuns
  BY <1>1, StartedIs, Sizes DEF Runs
<1>3. runs[k + 1] = Idle
  BY <1>1, <1>2 DEF InOrder
<1>4. runs' = [runs EXCEPT ![k + 1] = [Idle EXCEPT !.phase = "going"]]
  BY <1>2, <1>3
<1>5. runs' \in [Runs -> Run]
  BY <1>4, IdleIsRun DEF IInv, TypeOK
<1>6. InOrder(k + 1)'
  BY <1>1, <1>2, <1>4 DEF InOrder, IInv, TypeOK, Runs, Idle
<1>7. \A h \in Runs : runs'[h].phase \notin {"none", "over"} => h = k + 1
  BY <1>2, <1>4 DEF IInv, TypeOK, OneCur, OneRun, Runs
<1> QED BY <1>2, <1>3, <1>4, <1>5, <1>6, <1>7
\* How a step that moves one of a run's steps leaves that run.
Moved(g, s, w) ==
  /\ runs'[g] \in Run /\ runs' = [runs EXCEPT ![g] = runs'[g]]
  /\ runs'[g].phase = runs[g].phase
  /\ runs'[g].stopped = runs[g].stopped /\ runs'[g].paused = runs[g].paused
  /\ \A t \in Steps : runs'[g].pc[t] = IF t = s THEN w ELSE runs[g].pc[t]

LEMMA GoesMoves ==
  ASSUME IInv, NEW g \in Runs, NEW s \in Steps, NEW w \in Pc, Goes(g, s, w)
  PROVE  Moved(g, s, w)
<1>1. runs[g] \in Run /\ runs[g].pc \in [Steps -> Pc]
  BY DEF IInv, TypeOK, Run
<1>2. runs'[g] = [runs[g] EXCEPT !.pc[s] = w]
  BY DEF Goes, IInv, TypeOK
<1>3. [runs[g].pc EXCEPT ![s] = w] \in [Steps -> Pc]
  BY <1>1
<1>4. runs'[g] \in Run
  BY <1>1, <1>2, <1>3 DEF Run
<1>5. runs' = [runs EXCEPT ![g] = runs'[g]]
  BY <1>2 DEF Goes, IInv, TypeOK
<1> QED BY <1>1, <1>2, <1>4, <1>5 DEF Moved, Run

LEMMA MovedRuns ==
  ASSUME IInv, NEW g \in Runs, NEW s, NEW w, Moved(g, s, w), runs[g].phase # "none",
         UNCHANGED <<cur, bound, restarts, era>>
  PROVE  /\ runs' \in [Runs -> Run]
         /\ (\E k \in 0..MaxRuns : InOrder(k)') /\ OneCur' /\ Waiters'
<1>1. runs' \in [Runs -> Run] /\ \A h \in Runs \ {g} : runs'[h] = runs[h]
  BY DEF Moved, IInv, TypeOK
<1>2. era' + restarts' <= MaxRestarts
  BY DEF IInv, Waiters
<1> QED BY <1>1, <1>2, RunGoesOn DEF Moved

\* A run with a step that is under way was started.
LEMMA BusyStarted ==
  ASSUME IInv, NEW g \in Runs, NEW s \in Steps, runs[g].pc[s] # "idle"
  PROVE  runs[g].phase # "none"
BY DEF IInv, InOrder, Idle
-----------------------------------------------------------------------------
(* Every action keeps IInv.                                                *)

LEMMA InitIInv == Init => IInv
<1> SUFFICES ASSUME Init PROVE IInv
  OBVIOUS
<1>1. runs \in [Runs -> Run] /\ cur \in 0..MaxRuns /\ 0 \in 0..MaxRestarts /\ 0 \in 0..MaxEvents
  BY IdleIsRun, Sizes DEF Init
<1>2. TypeOK
  BY <1>1 DEF Init, TypeOK, Status
<1>3. InOrder(0) /\ 0 \in 0..MaxRuns
  BY Sizes DEF Init, InOrder, Idle, Runs
<1>4. OneCur /\ GotEvents
  BY DEF Init, OneCur, OneRun, Idle, GotEvents, Kept
<1>5. Waiters
  BY Sizes DEF Init, Waiters
<1> QED BY <1>2, <1>3, <1>4, <1>5 DEF IInv

\* A row that is written without anything begun.
LEMMA RowOnly ==
  ASSUME IInv, status' \in Status, UNCHANGED <<bound, runs, cur, restarts, store>>
  PROVE  IInv'
<1>1. TypeOK' /\ OneCur' /\ GotEvents'
  BY DEF IInv, TypeOK, store, OneCur, OneRun, GotEvents
<1>2. (\E k \in 0..MaxRuns : InOrder(k)') /\ Waiters'
  BY DEF IInv, InOrder, Waiters, store
<1> QED BY <1>1, <1>2 DEF IInv

\* Beginning, or waiting for whatever has to come first.
LEMMA StartIInv ==
  ASSUME IInv, NEW otherwise \in Status, Start(otherwise), UNCHANGED <<bound, restarts>>,
         UNCHANGED store \/ (Wipe /\ era' + restarts <= MaxRestarts)
  PROVE  IInv'
<1>1. result' \in [Kept -> Runs \cup Events \cup {None}] /\ GotEvents'
  BY DEF IInv, TypeOK, GotEvents, store, Wipe, Kept
<1>2. lost' \subseteq Events
  BY DEF IInv, TypeOK, GotEvents, store, Wipe
<1>3. era' \in 0..MaxRestarts /\ era' + restarts' <= MaxRestarts
  BY Sizes DEF IInv, TypeOK, Waiters, store, Wipe
<1>4. clock' \in [Timed -> {"unset", "set", "past"}] /\ inbox' \subseteq Events /\ sent' \in 0..MaxEvents
  BY DEF IInv, TypeOK, store, Wipe
<1>5. CASE bound /\ cur = 0
  <2>1. /\ Started < MaxRuns /\ runs' = [runs EXCEPT ![Started + 1].phase = "going"]
        /\ cur' = Started + 1 /\ status' = "running"
    BY <1>5 DEF Start
  <2>2. TypeOK'
    BY <1>1, <1>2, <1>3, <1>4, <1>5, <2>1, RunBegins DEF TypeOK, Status, IInv, Due
  <2>3. Started + 1 \in Runs /\ Started + 1 # 0
    BY <1>5, <2>1, RunBegins, Sizes DEF Runs
  <2>4. runs'[cur'].phase = "going" /\ bound' /\ cur' # 0
    BY <1>5, <2>1, <2>3, RunBegins DEF IInv, TypeOK, Idle
  <2>5. OneCur'
    BY <1>5, <2>1, <2>4, RunBegins DEF OneCur, OneRun, Live
  <2>6. Waiters'
    <3>1. restarts' = 0
      BY <1>5, Sizes DEF IInv, Waiters, TypeOK
    <3> QED BY <1>3, <3>1 DEF Waiters
  <2> QED BY <1>1, <1>5, <2>1, <2>2, <2>5, <2>6, RunBegins DEF IInv
<1>6. CASE ~(bound /\ cur = 0)
  <2>1. UNCHANGED <<cur, runs, bound, restarts>> /\ status' \in Status
    BY <1>6 DEF Start
  <2>2. TypeOK'
    BY <1>1, <1>2, <1>3, <1>4, <2>1 DEF TypeOK, IInv
  <2>3. (\E k \in 0..MaxRuns : InOrder(k)') /\ OneCur' /\ Waiters'
    BY <1>3, <2>1 DEF IInv, InOrder, OneCur, OneRun, Waiters
  <2> QED BY <1>1, <2>2, <2>3 DEF IInv
<1> QED BY <1>5, <1>6
LEMMA BindIInv ==
  ASSUME IInv, Bind
  PROVE  IInv'
<1>1. cur = 0 /\ restarts = 0 /\ bound' = TRUE /\ UNCHANGED <<restarts, store>>
  BY Sizes DEF Bind, IInv, OneCur, Waiters, TypeOK
<1>2. CASE status \in Due
  <2>1. /\ Started < MaxRuns /\ runs' = [runs EXCEPT ![Started + 1].phase = "going"]
        /\ cur' = Started + 1 /\ status' = "running"
    BY <1>2 DEF Bind
  <2>2. TypeOK' /\ GotEvents'
    BY <1>1, <2>1, RunBegins DEF TypeOK, Status, IInv, Due, store, GotEvents
  <2>3. Started + 1 \in Runs /\ Started + 1 # 0
    BY <1>1, <2>1, RunBegins, Sizes DEF Runs
  <2>4. runs'[cur'].phase = "going" /\ cur' # 0
    BY <1>1, <2>1, <2>3, RunBegins DEF IInv, TypeOK, Idle
  <2>5. OneCur'
    BY <1>1, <2>1, <2>4, RunBegins DEF OneCur, OneRun, Live
  <2>6. Waiters'
    BY <1>1 DEF Waiters, IInv, store
  <2> QED BY <1>1, <2>1, <2>2, <2>5, <2>6, RunBegins DEF IInv
<1>3. CASE status \notin Due
  <2>1. UNCHANGED <<cur, runs, status, restarts, store>>
    BY <1>1, <1>3 DEF Bind
  <2>2. TypeOK' /\ OneCur' /\ GotEvents'
    BY <1>1, <2>1 DEF IInv, TypeOK, store, OneCur, OneRun, GotEvents
  <2>3. (\E k \in 0..MaxRuns : InOrder(k)') /\ Waiters'
    BY <2>1 DEF IInv, InOrder, Waiters, store
  <2> QED BY <2>2, <2>3 DEF IInv
<1> QED BY <1>2, <1>3

\* Every run there was is over, and no more were started.
LEMMA CrashIInv ==
  ASSUME IInv, Crash
  PROVE  IInv'
<1>1. \A g \in Runs : runs'[g] = IF runs[g].phase = "none" THEN Idle ELSE [Idle EXCEPT !.phase = "over"]
  BY DEF Crash
<1>2. runs' \in [Runs -> Run]
  BY IdleIsRun DEF Crash
<1>3. TypeOK' /\ GotEvents'
  <2>1. cur' \in 0..MaxRuns /\ restarts' \in 0..MaxRestarts
    BY Sizes DEF Crash
  <2>3. bound' \in BOOLEAN
    BY Zenon DEF Crash
  <2>2. UNCHANGED <<status, store>>
    BY DEF Crash
  <2> QED BY <1>2, <2>1, <2>2, <2>3 DEF IInv, TypeOK, store, GotEvents
<1>4. ASSUME NEW k, InOrder(k) PROVE InOrder(k)'
  BY <1>1, <1>4 DEF InOrder, Idle
<1>5. OneCur'
  BY <1>1 DEF Crash, OneCur, OneRun, Idle
<1>6. Waiters'
  BY Sizes DEF Crash, Waiters, IInv, TypeOK, store
<1> QED BY <1>3, <1>4, <1>5, <1>6 DEF IInv

\* What a run has to say of itself: its phase, or whether it is stopped or paused.
LEMMA RunSays ==
  ASSUME IInv, NEW g \in Runs, runs[g].phase \in Live, NEW r \in Run, r.phase \in Live,
         runs' = [runs EXCEPT ![g] = r], status' \in Status, UNCHANGED <<bound, cur, store>>,
         restarts' \in 0..MaxRestarts, era + restarts' <= MaxRestarts, restarts' > 0 => restarts > 0 \/ (cur # 0 /\ Started < MaxRuns)
  PROVE  IInv'
<1>1. runs' \in [Runs -> Run] /\ runs'[g] = r /\ \A h \in Runs \ {g} : runs'[h] = runs[h]
  BY DEF IInv, TypeOK
<1>2. TypeOK' /\ GotEvents'
  BY <1>1 DEF IInv, TypeOK, store, GotEvents
<1>3. (\E k \in 0..MaxRuns : InOrder(k)') /\ OneCur' /\ Waiters'
  BY <1>1, RunGoesOn DEF Live, store
<1> QED BY <1>2, <1>3 DEF IInv

LEMMA FunctionEndsIInv ==
  ASSUME IInv, NEW g \in Runs, NEW how \in {"returned", "threw"}, FunctionEnds(g, how)
  PROVE  IInv'
<1>1. /\ runs[g].phase \in Live /\ [runs[g] EXCEPT !.phase = how] \in Run
      /\ runs' = [runs EXCEPT ![g] = [runs[g] EXCEPT !.phase = how]]
      /\ [runs[g] EXCEPT !.phase = how].phase \in Live
  BY DEF FunctionEnds, IInv, TypeOK, Run, Live
<1>2. status' \in Status /\ era + restarts <= MaxRestarts /\ restarts \in 0..MaxRestarts
  BY DEF FunctionEnds, IInv, TypeOK, Waiters
<1> QED BY <1>1, <1>2, RunSays DEF FunctionEnds

LEMMA WriteIInv ==
  ASSUME IInv, NEW g \in Runs, Write(g)
  PROVE  IInv'
<1>1. /\ runs[g].phase \in Live /\ [runs[g] EXCEPT !.phase = "written"] \in Run
      /\ runs' = [runs EXCEPT ![g] = [runs[g] EXCEPT !.phase = "written"]]
      /\ [runs[g] EXCEPT !.phase = "written"].phase \in Live
  BY DEF Write, Interrupted, IInv, TypeOK, Run, Live
<1>2. status' \in Status /\ era + restarts <= MaxRestarts /\ restarts \in 0..MaxRestarts
  BY DEF Write, Interrupted, IInv, TypeOK, Waiters, Status, Final
<1> QED BY <1>1, <1>2, RunSays DEF Write

\* A run that is told something, cur's.
LEMMA CurIsLive ==
  ASSUME IInv, cur # 0
  PROVE  cur \in Runs /\ runs[cur] \in Run /\ runs[cur].phase \in Live
BY Sizes DEF IInv, TypeOK, OneCur, Runs

LEMMA PauseIInv ==
  ASSUME IInv, Pause
  PROVE  IInv'
<1>1. /\ cur \in Runs /\ runs[cur].phase \in Live /\ [runs[cur] EXCEPT !.paused = TRUE] \in Run
      /\ runs' = [runs EXCEPT ![cur] = [runs[cur] EXCEPT !.paused = TRUE]]
      /\ [runs[cur] EXCEPT !.paused = TRUE].phase \in Live
  BY CurIsLive DEF Pause, Run
<1>2. status' \in Status /\ era + restarts <= MaxRestarts /\ restarts \in 0..MaxRestarts
  BY DEF Pause, IInv, TypeOK, Waiters, Status
<1> QED BY <1>1, <1>2, RunSays DEF Pause

LEMMA ResumeIInv ==
  ASSUME IInv, Resume
  PROVE  IInv'
<1>1. CASE cur # 0 /\ runs[cur].paused
  <2>1. /\ cur \in Runs /\ runs[cur].phase \in Live /\ [runs[cur] EXCEPT !.paused = FALSE] \in Run
        /\ runs' = [runs EXCEPT ![cur] = [runs[cur] EXCEPT !.paused = FALSE]]
        /\ [runs[cur] EXCEPT !.paused = FALSE].phase \in Live
    BY <1>1, CurIsLive DEF Resume, Run
  <2>2. status' \in Status /\ era + restarts <= MaxRestarts /\ restarts \in 0..MaxRestarts
    BY <1>1 DEF Resume, IInv, TypeOK, Waiters, Status, Due
  <2> QED BY <1>1, <2>1, <2>2, RunSays DEF Resume
<1>2. CASE ~(cur # 0 /\ runs[cur].paused)
  BY <1>2, StartIInv DEF Resume, Status, Due
<1> QED BY <1>1, <1>2

LEMMA TerminateIInv ==
  ASSUME IInv, Terminate
  PROVE  IInv'
<1>1. status' \in Status
  BY DEF Terminate, Status, Final
<1>2. CASE cur = 0
  BY <1>1, <1>2, RowOnly DEF Terminate, Stop
<1>3. CASE cur # 0
  <2>1. /\ cur \in Runs /\ runs[cur].phase \in Live /\ [runs[cur] EXCEPT !.stopped = TRUE] \in Run
        /\ runs' = [runs EXCEPT ![cur] = [runs[cur] EXCEPT !.stopped = TRUE]]
        /\ [runs[cur] EXCEPT !.stopped = TRUE].phase \in Live
    BY <1>3, CurIsLive DEF Terminate, Stop, Run
  <2>2. era + restarts <= MaxRestarts /\ restarts \in 0..MaxRestarts
    BY DEF IInv, TypeOK, Waiters
  <2> QED BY <1>1, <2>1, <2>2, RunSays DEF Terminate
<1> QED BY <1>2, <1>3
LEMMA RestartIInv ==
  ASSUME IInv, Restart
  PROVE  IInv'
<1>1. Started < MaxRuns /\ era + restarts < MaxRestarts
  BY DEF Restart
<1>2. CASE cur # 0
  <2>1. /\ cur \in Runs /\ runs[cur].phase \in Live /\ [runs[cur] EXCEPT !.stopped = TRUE] \in Run
        /\ runs' = [runs EXCEPT ![cur] = [runs[cur] EXCEPT !.stopped = TRUE]]
        /\ [runs[cur] EXCEPT !.stopped = TRUE].phase \in Live
    BY <1>2, CurIsLive DEF Restart, Stop, Run
  <2>2. status' \in Status /\ UNCHANGED <<bound, cur, store>>
    BY <1>2 DEF Restart, IInv, TypeOK
  <2>3. restarts' \in 0..MaxRestarts /\ era + restarts' <= MaxRestarts
    BY <1>1, <1>2, Sizes DEF Restart, IInv, TypeOK
  <2> QED BY <1>1, <1>2, <2>1, <2>2, <2>3, RunSays
<1>3. CASE cur = 0
  <2>1. Wipe /\ Start("queued") /\ UNCHANGED <<bound, restarts>> /\ "queued" \in Status
    BY <1>3 DEF Restart, Status, Due
  <2>2. era' + restarts <= MaxRestarts
    BY <1>1, <2>1, Sizes DEF Wipe, IInv, TypeOK
  <2> QED BY <2>1, <2>2, StartIInv
<1> QED BY <1>2, <1>3

\* Over, and the next begun for whoever waited.
LEMMA EndIInv ==
  ASSUME IInv, NEW g \in Runs, End(g)
  PROVE  IInv'
<1>1. cur = g /\ runs[g].phase = "written" /\ restarts' = 0 /\ bound' = bound
  BY DEF End
<1> DEFINE r == Remains(runs[g])
<1>2. r \in Run /\ r.phase = "over"
  BY IdleIsRun DEF Remains, IInv, TypeOK, Run, Idle
<1>3. PICK k \in 0..MaxRuns : InOrder(k)
  BY DEF IInv
<1>4. Started = k /\ g <= k
  BY <1>1, <1>3, StartedIs DEF InOrder
<1>5. \A h \in Runs \ {g} : runs[h].phase \in {"none", "over"}
  BY <1>1 DEF IInv, OneCur, OneRun
<1>6. CASE restarts = 0
  <2>1. cur' = 0 /\ runs' = [runs EXCEPT ![g] = r] /\ UNCHANGED <<status, store>>
    BY <1>6 DEF End
  <2>2. runs' \in [Runs -> Run] /\ runs'[g] = r /\ \A h \in Runs \ {g} : runs'[h] = runs[h]
    BY <1>2, <2>1 DEF IInv, TypeOK
  <2>3. TypeOK' /\ GotEvents'
    BY <1>1, <1>6, <2>1, <2>2, Sizes DEF IInv, TypeOK, store, GotEvents
  <2>4. InOrder(k)'
    BY <1>1, <1>2, <1>3, <2>2 DEF InOrder
  <2>5. OneCur'
    BY <1>1, <1>2, <1>5, <2>1, <2>2 DEF IInv, OneCur, OneRun
  <2>6. Waiters'
    BY <1>1, <1>6, <2>1 DEF IInv, Waiters, store
  <2> QED BY <2>3, <2>4, <2>5, <2>6 DEF IInv
<1>7. CASE restarts # 0
  <2>1. k < MaxRuns /\ k + 1 \in Runs \ {g} /\ k + 1 \in 0..MaxRuns
    BY <1>3, <1>4, <1>7, StartedIs, Sizes DEF IInv, TypeOK, Waiters, Runs
  <2>2. runs[k + 1] = Idle
    BY <1>3, <2>1, Sizes DEF InOrder, Runs
  <2>3. /\ cur' = k + 1
        /\ runs' = [runs EXCEPT ![g] = r, ![k + 1] = [Idle EXCEPT !.phase = "going"]]
        /\ status' \in {"running", "queued"} /\ Wipe
    BY <1>4, <1>7, <2>1, <2>2 DEF End, IInv, TypeOK
  <2>4. /\ runs' \in [Runs -> Run] /\ runs'[g] = r /\ runs'[k + 1] = [Idle EXCEPT !.phase = "going"]
        /\ \A h \in Runs \ {g, k + 1} : runs'[h] = runs[h]
    BY <1>2, <2>1, <2>3, IdleIsRun DEF IInv, TypeOK
  <2>5. era' \in 0..MaxRestarts /\ era' + restarts' <= MaxRestarts /\ restarts' \in 0..MaxRestarts
    BY <1>1, <1>7, <2>3, Sizes DEF IInv, Waiters, TypeOK, Wipe
  <2>6. lost' \subseteq Events /\ result' \in [Kept -> Runs \cup Events \cup {None}] /\ GotEvents'
    BY <2>3 DEF Wipe, IInv, TypeOK, GotEvents, Kept
  <2>7. clock' \in [Timed -> {"unset", "set", "past"}] /\ inbox' = inbox /\ sent' = sent /\ status' \in Status
    BY <2>3 DEF Wipe, Status, Due
  <2>8. TypeOK'
    BY <1>1, <2>1, <2>3, <2>4, <2>5, <2>6, <2>7 DEF IInv, TypeOK
  <2>9. InOrder(k + 1)'
    BY <1>2, <1>3, <1>4, <2>1, <2>4, Sizes DEF InOrder, Idle, Runs
  <2>10. OneCur'
    <3>1. cur' # 0 /\ runs'[cur'].phase \in Live
      BY <2>1, <2>3, <2>4, Sizes DEF Idle, Live, Runs
    <3>2. OneRun'
      BY <1>2, <1>5, <2>3, <2>4 DEF OneRun
    <3>3. bound'
      BY <1>1, Sizes DEF IInv, OneCur, TypeOK, Runs
    <3> QED BY <3>1, <3>2, <3>3 DEF OneCur
  <2>11. Waiters'
    BY <1>1, <2>5 DEF Waiters
  <2> QED BY <2>1, <2>6, <2>8, <2>9, <2>10, <2>11 DEF IInv
<1> QED BY <1>6, <1>7

LEMMA SendEventIInv ==
  ASSUME IInv, SendEvent
  PROVE  IInv'
<1>1. sent' \in 0..MaxEvents /\ inbox' \subseteq Events
  BY Sizes DEF SendEvent, IInv, TypeOK, Events
<1>2. UNCHANGED <<status, result, clock, bound, runs, cur, restarts, lost, era>>
  BY DEF SendEvent
<1>3. TypeOK' /\ OneCur' /\ GotEvents'
  BY <1>1, <1>2 DEF IInv, TypeOK, OneCur, OneRun, GotEvents
<1>4. (\E k \in 0..MaxRuns : InOrder(k)') /\ Waiters'
  BY <1>2 DEF IInv, InOrder, Waiters
<1> QED BY <1>3, <1>4 DEF IInv

LEMMA PassIInv ==
  ASSUME IInv, NEW s \in Timed, Pass(s)
  PROVE  IInv'
<1>1. clock' \in [Timed -> {"unset", "set", "past"}]
  BY DEF Pass, IInv, TypeOK
<1>2. UNCHANGED <<status, result, inbox, sent, lost, era, bound, runs, cur, restarts>>
  BY DEF Pass
<1>3. TypeOK' /\ OneCur' /\ GotEvents'
  BY <1>1, <1>2 DEF IInv, TypeOK, OneCur, OneRun, GotEvents
<1>4. (\E k \in 0..MaxRuns : InOrder(k)') /\ Waiters'
  BY <1>2 DEF IInv, InOrder, Waiters
<1> QED BY <1>3, <1>4 DEF IInv

\* A step of a run moves, and leaves in the row and the database what it may.
LEMMA MovedIInv ==
  ASSUME IInv, NEW g \in Runs, NEW s, NEW w, Moved(g, s, w), runs[g].phase # "none",
         UNCHANGED <<cur, bound, restarts, sent, lost, era>>,
         status' \in Status, result' \in [Kept -> Runs \cup Events \cup {None}], GotEvents',
         clock' \in [Timed -> {"unset", "set", "past"}], inbox' \subseteq Events
  PROVE  IInv'
<1>1. TypeOK'
  BY MovedRuns DEF IInv, TypeOK
<1> QED BY <1>1, MovedRuns DEF IInv
\* A step that moves, and writes no more than the row, keeps IInv.
LEMMA GoesIInv ==
  ASSUME IInv, NEW g \in Runs, NEW s \in Steps, NEW w \in Pc, Goes(g, s, w), runs[g].phase # "none",
         status' \in Status, UNCHANGED <<bound, cur, restarts, store>>
  PROVE  IInv'
<1>1. Moved(g, s, w)
  BY GoesMoves
<1>2. /\ UNCHANGED <<cur, bound, restarts, sent, lost, era>>
      /\ result' \in [Kept -> Runs \cup Events \cup {None}] /\ GotEvents'
      /\ clock' \in [Timed -> {"unset", "set", "past"}] /\ inbox' \subseteq Events
  BY DEF IInv, TypeOK, store, GotEvents
<1> QED BY <1>1, <1>2, MovedIInv

LEMMA DoIInv ==
  ASSUME IInv, NEW g \in Runs, NEW s \in Dos, Do(g, s)
  PROVE  IInv'
<1>1. PICK w \in {"done", "calling"} : Goes(g, s, w)
  BY DEF Do
<1>2. w \in Pc /\ s \in Steps /\ runs[g].phase # "none" /\ status' \in Status
  BY DEF Pc, Busy, Steps, Do, Called, IInv, TypeOK
<1> QED BY <1>1, <1>2, GoesIInv DEF Do

LEMMA SucceedIInv ==
  ASSUME IInv, NEW g \in Runs, NEW s \in Dos, Succeed(g, s)
  PROVE  IInv'
<1>1. s \in Steps /\ "done" \in Pc /\ Goes(g, s, "done") /\ runs[g].phase # "none"
  BY BusyStarted DEF Steps, Pc, Succeed, At
<1>2. /\ result' \in [Kept -> Runs \cup Events \cup {None}] /\ GotEvents'
      /\ status' \in Status /\ clock' \in [Timed -> {"unset", "set", "past"}] /\ inbox' \subseteq Events
  BY KindsApart DEF Succeed, IInv, TypeOK, GotEvents, Kept, Timed
<1>3. UNCHANGED <<cur, bound, restarts, sent, lost, era>>
  BY DEF Succeed
<1> QED BY <1>1, <1>2, <1>3, GoesMoves, MovedIInv

LEMMA FailMoves ==
  ASSUME IInv, NEW g \in Runs, NEW s \in Dos, Fail(g, s)
  PROVE  Moved(g, s, "failed") \/ Moved(g, s, "backoff")
<1>1. s \in Steps /\ "failed" \in Pc /\ "backoff" \in Pc
  BY DEF Steps, Pc, Busy
<1>2. CASE Goes(g, s, "failed")
  BY <1>1, <1>2, GoesMoves
<1>3. CASE /\ MayRetry(g, s)
           /\ runs' = [runs EXCEPT ![g].pc[s] = "backoff", ![g].tries[s] = @ + 1]
  <2>1. runs[g] \in Run /\ runs[g].pc \in [Steps -> Pc] /\ runs[g].tries \in [Dos -> 0..Limit]
    BY DEF IInv, TypeOK, Run
  <2>2. runs'[g] = [runs[g] EXCEPT !.pc[s] = "backoff", !.tries[s] = @ + 1]
    BY <1>3, <2>1 DEF IInv, TypeOK
  <2>3. [runs[g].pc EXCEPT ![s] = "backoff"] \in [Steps -> Pc]
    BY <1>1, <2>1
  <2>4. [runs[g].tries EXCEPT ![s] = @ + 1] \in [Dos -> 0..Limit]
    BY <1>3, <2>1, Sizes DEF MayRetry
  <2>5. runs'[g] \in Run
    BY <2>1, <2>2, <2>3, <2>4 DEF Run
  <2>6. runs' = [runs EXCEPT ![g] = runs'[g]]
    BY <1>3, <2>2 DEF IInv, TypeOK
  <2> QED BY <2>1, <2>2, <2>5, <2>6 DEF Moved, Run
<1> QED BY <1>2, <1>3 DEF Fail

LEMMA FailIInv ==
  ASSUME IInv, NEW g \in Runs, NEW s \in Dos, Fail(g, s)
  PROVE  IInv'
<1>1. PICK w : Moved(g, s, w)
  BY FailMoves
<1>2. s \in Steps /\ runs[g].phase # "none"
  BY BusyStarted DEF Steps, Fail, At
<1>3. /\ result' \in [Kept -> Runs \cup Events \cup {None}] /\ GotEvents'
      /\ status' \in Status /\ clock' \in [Timed -> {"unset", "set", "past"}] /\ inbox' \subseteq Events
      /\ UNCHANGED <<cur, bound, restarts, sent, lost, era>>
  BY DEF Fail, IInv, TypeOK, GotEvents, store
<1> QED BY <1>1, <1>2, <1>3, MovedIInv

LEMMA RetryIInv ==
  ASSUME IInv, NEW g \in Runs, NEW s \in Dos, Retry(g, s)
  PROVE  IInv'
<1>1. s \in Steps /\ "calling" \in Pc /\ Goes(g, s, "calling") /\ runs[g].phase # "none" /\ status' \in Status
  BY BusyStarted DEF Steps, Pc, Busy, Retry, At, IInv, TypeOK
<1> QED BY <1>1, GoesIInv DEF Retry

\* A deadline that is set, or was.
LEMMA ClockType ==
  ASSUME IInv, NEW s \in Timed, SetClock(s)
  PROVE  clock' \in [Timed -> {"unset", "set", "past"}]
BY DEF SetClock, IInv, TypeOK

LEMMA SleepIInv ==
  ASSUME IInv, NEW g \in Runs, NEW s \in Sleeps, Sleep(g, s)
  PROVE  IInv'
<1>1. PICK w \in {"done", "sleeping"} : Goes(g, s, w)
  BY DEF Sleep
<1>2. w \in Pc /\ s \in Steps /\ runs[g].phase # "none" /\ s \in Timed
  BY DEF Pc, Busy, Steps, Timed, Sleep, Called
<1>3. status' \in Status /\ UNCHANGED <<result, inbox, sent, lost, era, bound, cur, restarts>>
  BY DEF Sleep, IInv, TypeOK, Status, Due
<1>4. /\ clock' \in [Timed -> {"unset", "set", "past"}] /\ GotEvents'
      /\ result' \in [Kept -> Runs \cup Events \cup {None}] /\ inbox' \subseteq Events
  BY <1>2, <1>3, ClockType DEF Sleep, IInv, TypeOK, GotEvents
<1> QED BY <1>1, <1>2, <1>3, <1>4, GoesMoves, MovedIInv

LEMMA WakeIInv ==
  ASSUME IInv, NEW g \in Runs, NEW s \in Sleeps, Wake(g, s) \/ GoOn(g, s)
  PROVE  IInv'
<1>1. PICK w \in {"done", "woken"} : Goes(g, s, w)
  BY DEF Wake, GoOn
<1>2. w \in Pc /\ s \in Steps /\ runs[g].phase # "none" /\ status' \in Status
  BY BusyStarted DEF Pc, Busy, Steps, Wake, GoOn, At, IInv, TypeOK, Status, Due
<1> QED BY <1>1, <1>2, GoesIInv DEF Wake, GoOn

\* What one turn of the loop of waitForEvent does.
LEMMA ListenKeeps ==
  ASSUME IInv, NEW g \in Runs, NEW s \in Waits, Listen(g, s)
  PROVE  /\ s \in Steps /\ \E w \in {"done", "failed", "listening"} : Moved(g, s, w)
         /\ status' \in {"running", "waiting"} /\ status' \in Status
         /\ result' \in [Kept -> Runs \cup Events \cup {None}] /\ GotEvents' /\ inbox' \subseteq Events
<1>1. s \in Steps /\ s \in Kept /\ {"done", "failed", "listening"} \subseteq Pc
  BY DEF Steps, Kept, Pc, Busy
<1>2. PICK w \in {"done", "failed", "listening"} : Goes(g, s, w)
  BY DEF Listen
<1>3. status' \in {"running", "waiting"} /\ status' \in Status
  BY DEF Listen, Status, Due
<1>4. CASE inbox # {}
  <2>1. Oldest \in Events
    BY <1>4, OldestIsFirst DEF IInv, TypeOK
  <2>2. result' = [result EXCEPT ![s] = Oldest] /\ inbox' = inbox \ {Oldest}
    BY <1>4 DEF Listen
  <2>3. result' \in [Kept -> Runs \cup Events \cup {None}] /\ GotEvents' /\ inbox' \subseteq Events
    BY <1>1, <2>1, <2>2 DEF IInv, TypeOK, GotEvents, Kept
  <2> QED BY <1>1, <1>2, <1>3, <2>3, GoesMoves
<1>5. CASE inbox = {}
  <2>1. UNCHANGED <<result, inbox>>
    BY <1>5 DEF Listen
  <2> QED BY <1>1, <1>2, <1>3, <2>1, GoesMoves DEF IInv, TypeOK, GotEvents
<1> QED BY <1>4, <1>5

LEMMA WaitForEventIInv ==
  ASSUME IInv, NEW g \in Runs, NEW s \in Waits, WaitForEvent(g, s)
  PROVE  IInv'
<1>1. s \in Steps /\ s \in Timed /\ runs[g].phase # "none" /\ UNCHANGED <<sent, lost, era, bound, cur, restarts>>
  BY DEF Steps, Timed, WaitForEvent, Called
<1>2. CASE Stored(s)
  <2>1. Goes(g, s, "done") /\ UNCHANGED <<status, result, clock, inbox>> /\ "done" \in Pc
    BY <1>2 DEF WaitForEvent, Pc
  <2> QED BY <1>1, <2>1, GoesIInv DEF IInv, TypeOK, store
<1>3. CASE ~Stored(s)
  <2>1. Listen(g, s) /\ SetClock(s)
    BY <1>3 DEF WaitForEvent
  <2> QED BY <1>1, <2>1, ListenKeeps, ClockType, MovedIInv
<1> QED BY <1>2, <1>3

LEMMA HearIInv ==
  ASSUME IInv, NEW g \in Runs, NEW s \in Waits, Hear(g, s)
  PROVE  IInv'
<1>1. Listen(g, s) /\ UNCHANGED <<clock, sent, lost, era, bound, cur, restarts>>
  BY DEF Hear
<1>2. runs[g].phase # "none"
  BY BusyStarted DEF Hear, At, Steps
<1> QED BY <1>1, <1>2, ListenKeeps, MovedIInv DEF IInv, TypeOK

LEMMA Step == IInv /\ [Next]_vars => IInv'
<1> SUFFICES ASSUME IInv, [Next]_vars PROVE IInv'
  OBVIOUS
<1>1. CASE Asked
  <2>1. CASE Create
    BY <2>1, StartIInv DEF Create, Status, Due
  <2> QED BY <1>1, <2>1, BindIInv, CrashIInv, PauseIInv, ResumeIInv, TerminateIInv, RestartIInv, SendEventIInv DEF Asked
<1>2. ASSUME NEW g \in Runs, RunStep(g) PROVE IInv'
  BY <1>2, WriteIInv, EndIInv, FunctionEndsIInv DEF RunStep
<1>3. ASSUME NEW g \in Runs, Calls(g) PROVE IInv'
  BY <1>3, DoIInv, SleepIInv, WaitForEventIInv DEF Calls
<1>4. ASSUME NEW g \in Runs, NEW s \in Steps, Follows(g, s) PROVE IInv'
  BY <1>4, SucceedIInv, FailIInv, RetryIInv, WakeIInv, HearIInv DEF Follows
<1>5. CASE UNCHANGED vars
  BY <1>5, RowOnly DEF vars, store, IInv, TypeOK
<1> QED BY <1>1, <1>2, <1>3, <1>4, <1>5, PassIInv DEF Next

LEMMA Always == Spec => []IInv
BY InitIInv, Step, PTL DEF Spec
-----------------------------------------------------------------------------
\* The row, the steps' results and deadlines, the events and every run keep their shape, whatever is
\* asked of the instance and whenever the process dies.
THEOREM WorkflowTypeCorrect == Spec => []TypeOK
<1>1. IInv => TypeOK
  BY DEF IInv
<1> QED BY <1>1, Always, PTL

\* One run at a time, however many restarts are asked for at once, and whatever a function leaves
\* going: no run writes the row or the steps of another (start, restart).
THEOREM RunsAreAlone == Spec => []OneRun
<1>1. IInv => OneRun
  BY DEF IInv, OneCur
<1> QED BY <1>1, Always, PTL
\* A sleep or a wait picks up its remaining time: till a restart no deadline is put off
\* (sleep and waitForEvent, which store it once).
THEOREM DeadlinesStay == Spec => DeadlinesKept
<1> DEFINE Stay == \A s \in Timed : era' = era => /\ (clock[s] = "past" => clock'[s] = "past")
                                                  /\ (clock[s] = "set" => clock'[s] # "unset")
<1>1. IInv /\ [Next]_vars => [Stay]_vars
  <2> SUFFICES ASSUME IInv, Next PROVE Stay
    OBVIOUS
  <2>1. UNCHANGED clock => Stay
    OBVIOUS
  <2>2. era' # era => Stay
    OBVIOUS
  <2>3. Wipe => era' # era
    BY Sizes DEF Wipe, IInv, TypeOK
  <2>4. ASSUME NEW s \in Timed, SetClock(s) PROVE Stay
    BY <2>4 DEF SetClock, IInv, TypeOK
  <2>5. CASE Asked
    BY <2>1, <2>2, <2>3, <2>5
       DEF Asked, Create, Bind, Crash, Pause, Resume, Terminate, Restart, SendEvent, store
  <2>6. ASSUME NEW s \in Timed, Pass(s) PROVE Stay
    BY <2>6 DEF Pass, IInv, TypeOK
  <2>7. ASSUME NEW g \in Runs, RunStep(g) PROVE Stay
    BY <2>1, <2>2, <2>3, <2>7 DEF RunStep, Write, End, FunctionEnds, store
  <2>8. ASSUME NEW g \in Runs, Calls(g) PROVE Stay
    BY <2>1, <2>4, <2>8 DEF Calls, Do, Sleep, WaitForEvent, store, Timed
  <2>9. ASSUME NEW g \in Runs, NEW s \in Steps, Follows(g, s) PROVE Stay
    BY <2>1, <2>9 DEF Follows, Succeed, Fail, Retry, Wake, GoOn, Hear, store
  <2> QED BY <2>5, <2>6, <2>7, <2>8, <2>9 DEF Next
<1>2. IInv /\ [Next]_vars => [\A s \in Timed : era' = era => /\ (clock[s] = "past" => clock'[s] = "past")
                                                            /\ (clock[s] = "set" => clock'[s] # "unset")]_vars
  BY <1>1
<1> QED BY <1>2, Always, PTL DEF Spec, DeadlinesKept
-----------------------------------------------------------------------------
(* Events.                                                                 *)

\* What was taken, by the step that has it.
LEMMA TakenBy == \A e : e \in Taken <=> e # None /\ \E s \in Waits : result[s] = e
BY DEF Taken

LEMMA EventsApart == None \notin Events /\ None \notin Runs
BY NoneApart

LEMMA SameEvents ==
  ASSUME EventsKept, UNCHANGED <<inbox, sent, lost>>, \A s \in Waits : result'[s] = result[s]
  PROVE  EventsKept'
<1>1. Taken' = Taken
  BY DEF Taken
<1> QED BY <1>1 DEF EventsKept

LEMMA EventSent ==
  ASSUME IInv, EventsKept, SendEvent
  PROVE  EventsKept'
<1>1. Taken' = Taken /\ lost' = lost /\ result' = result
  BY DEF SendEvent, Taken
<1>2. inbox' = inbox \cup {sent + 1} /\ sent' = sent + 1 /\ sent \in Nat /\ 1..sent' = (1..sent) \cup {sent + 1}
  BY Sizes DEF SendEvent, IInv, TypeOK
<1>3. \A e \in inbox \cup Taken \cup lost : e \in Nat /\ e < sent + 1
  BY <1>2 DEF EventsKept
<1>4. inbox' \cup Taken' \cup lost' = 1..sent'
  BY <1>1, <1>2 DEF EventsKept
<1>5. inbox' \cap (Taken' \cup lost') = {} /\ Taken' \cap lost' = {}
  BY <1>1, <1>2, <1>3 DEF EventsKept
<1>6. \A e \in inbox', f \in Taken' \cup lost' : f < e
  BY <1>1, <1>2, <1>3 DEF EventsKept
<1> QED BY <1>1, <1>4, <1>5, <1>6 DEF EventsKept

\* The oldest is taken, by a step that had none.
LEMMA EventTaken ==
  ASSUME IInv, EventsKept, NEW s \in Waits, result[s] = None, inbox # {},
         result' = [result EXCEPT ![s] = Oldest], inbox' = inbox \ {Oldest}, UNCHANGED <<sent, lost>>
  PROVE  EventsKept'
<1>1. /\ Oldest \in inbox /\ Oldest \in Events /\ Oldest # None /\ Oldest \notin Taken \cup lost
      /\ \A e \in inbox : Oldest <= e
  BY OldestIsFirst, EventsApart DEF IInv, TypeOK, EventsKept
<1>2. result'[s] = Oldest /\ \A t \in Waits \ {s} : result'[t] = result[t]
  BY DEF IInv, TypeOK, Kept
<1>3. Taken' = Taken \cup {Oldest}
  BY <1>1, <1>2 DEF Taken
<1>4. inbox' \cup Taken' \cup lost' = 1..sent'
  BY <1>1, <1>3 DEF EventsKept
<1>5. inbox' \cap (Taken' \cup lost') = {} /\ Taken' \cap lost' = {}
  BY <1>1, <1>3 DEF EventsKept
<1>6. \A t, u \in Waits : result'[t] = result'[u] /\ t # u => result'[t] = None
  BY <1>1, <1>2, TakenBy DEF EventsKept
<1>7. \A e \in inbox', f \in Taken' \cup lost' : f < e
  BY <1>1, <1>3, Sizes DEF EventsKept, IInv, TypeOK, Events
<1> QED BY <1>4, <1>5, <1>6, <1>7 DEF EventsKept

\* A restart deletes what the steps got with them.
LEMMA EventsWiped ==
  ASSUME IInv, EventsKept, Wipe
  PROVE  EventsKept'
<1>1. \A s \in Waits : result'[s] = None
  BY DEF Wipe, Kept
<1>2. Taken' = {}
  BY <1>1 DEF Taken
<1>3. lost' = lost \cup Taken
  BY DEF Wipe, Taken
<1>4. UNCHANGED <<inbox, sent>>
  BY DEF Wipe
<1> QED BY <1>1, <1>2, <1>3, <1>4 DEF EventsKept-----------------------------------------------------------------------------
(* A function that waits for the steps it calls.                           *)

\* Without this a function may be over while a step it called isn't.
Awaits == "abandon" \notin Happens

\* An active run is the one the instance has.
LEMMA ActiveIsCur ==
  ASSUME IInv, NEW g \in Runs, Active(g)
  PROVE  cur = g /\ cur # 0
BY Sizes DEF IInv, OneCur, OneRun, Active, Runs

\* A step that is under way and wasn't stopped is an active run's.
LEMMA BusyActive ==
  ASSUME JInv, NEW g \in Runs, NEW s \in Steps, runs[g].pc[s] \in Busy, ~runs[g].stopped
  PROVE  Active(g)
BY DEF JInv, NothingLoose

\* A step that begins, or goes on, has no result yet.
LEMMA NoResultYet ==
  ASSUME JInv, NEW g \in Runs, NEW s \in Kept, Active(g), runs[g].pc[s] \in Busy
  PROVE  result[s] = None
BY DEF JInv, NoneTwice

\* What a run that moves a step leaves as it should be.
LEMMA MovedJ ==
  ASSUME JInv, NEW g \in Runs, NEW s \in Steps, NEW w, Moved(g, s, w), Active(g),
         UNCHANGED <<cur, bound, restarts, sent, lost, era>>,
         status' = status \/ status' \in Due,
         \A t \in Kept : result'[t] = result[t] \/ (t = s /\ w \notin Busy),
         s \in Kept /\ result'[s] # None => w \notin Busy
  PROVE  NothingLoose' /\ NoneTwice' /\ RowGoes'
<1>1. /\ \A h \in Runs \ {g} : runs'[h] = runs[h]
      /\ \A t \in Steps : runs'[g].pc[t] = IF t = s THEN w ELSE runs[g].pc[t]
      /\ runs'[g].phase = "going" /\ ~runs'[g].stopped /\ runs'[g].paused = runs[g].paused
  BY DEF Moved, Active, JInv, IInv, TypeOK
<1>2. cur = g /\ \A h \in Runs : Active(h) => h = g
  BY ActiveIsCur DEF JInv
<1>3. NothingLoose'
  BY <1>1 DEF NothingLoose, Active, JInv
<1>4. NoneTwice'
  <2>1. ASSUME NEW t \in Kept, result'[t] # None PROVE runs'[g].pc[t] \notin Busy
    <3>1. CASE t = s
      BY <1>1, <2>1, <3>1
    <3>2. CASE t # s
      BY <1>1, <2>1, <3>2 DEF JInv, NoneTwice, Kept, Steps
    <3> QED BY <3>1, <3>2
  <2>2. ASSUME NEW h \in Runs \ {g} PROVE ~Active(h)'
    BY <1>1, <1>2 DEF Active
  <2> QED BY <2>1, <2>2 DEF NoneTwice
<1>5. RowGoes'
  BY <1>1, <1>2 DEF JInv, RowGoes, Active
<1> QED BY <1>3, <1>4, <1>5

\* What follows from a step that writes no result.
LEMMA MovedSame ==
  ASSUME JInv, NEW g \in Runs, NEW s \in Steps, NEW w, Moved(g, s, w), Active(g),
         UNCHANGED <<cur, bound, restarts, sent, lost, era, inbox, result>>,
         status' = status \/ status' \in Due,
         s \in Kept /\ result[s] # None => w \notin Busy
  PROVE  NothingLoose' /\ NoneTwice' /\ RowGoes' /\ EventsKept'
<1>1. EventsKept'
  BY SameEvents DEF JInv
<1>2. \A t \in Kept : result'[t] = result[t]
  OBVIOUS
<1> QED BY <1>1, <1>2, MovedJ

LEMMA DoJ ==
  ASSUME JInv, NEW g \in Runs, NEW s \in Dos, Do(g, s)
  PROVE  NothingLoose' /\ NoneTwice' /\ RowGoes' /\ EventsKept'
<1>1. Active(g) /\ s \in Steps /\ s \in Kept
  BY DEF Do, Called, PassesGate, Active, Steps, Kept
<1>2. UNCHANGED <<cur, bound, restarts, sent, lost, era, inbox, result, status>>
  BY DEF Do, store
<1>3. CASE result[s] = None
  <2>1. Goes(g, s, "calling") /\ "calling" \in Pc
    BY <1>3 DEF Do, Stored, Pc, Busy
  <2> QED BY <1>1, <1>2, <1>3, <2>1, GoesMoves, MovedSame DEF JInv
<1>4. CASE result[s] # None
  <2>1. Goes(g, s, "done") /\ "done" \in Pc /\ "done" \notin Busy
    BY <1>4 DEF Do, Stored, Pc, Busy
  <2> QED BY <1>1, <1>2, <2>1, GoesMoves, MovedSame DEF JInv
<1> QED BY <1>3, <1>4

LEMMA SucceedJ ==
  ASSUME JInv, NEW g \in Runs, NEW s \in Dos, Succeed(g, s)
  PROVE  NothingLoose' /\ NoneTwice' /\ RowGoes' /\ EventsKept'
<1>1. Active(g) /\ s \in Steps
  BY BusyActive DEF Succeed, At, Busy, Steps
<1>2. Moved(g, s, "done") /\ "done" \notin Busy
  BY <1>1, GoesMoves DEF Succeed, Pc, Busy, JInv
<1>3. UNCHANGED <<cur, bound, restarts, sent, lost, era, inbox, status>>
  BY DEF Succeed
<1>4. \A t \in Kept : result'[t] = result[t] \/ t = s
  BY DEF Succeed, JInv, IInv, TypeOK
<1>5. \A t \in Waits : result'[t] = result[t]
  BY <1>4, KindsApart DEF Kept, Timed
<1>6. EventsKept'
  BY <1>3, <1>5, SameEvents DEF JInv
<1> QED BY <1>1, <1>2, <1>3, <1>4, <1>6, MovedJ

LEMMA FailJ ==
  ASSUME JInv, NEW g \in Runs, NEW s \in Dos, Fail(g, s) \/ Retry(g, s)
  PROVE  NothingLoose' /\ NoneTwice' /\ RowGoes' /\ EventsKept'
<1>1. s \in Steps /\ s \in Kept /\ runs[g].pc[s] \in Busy /\ ~runs[g].stopped
  BY DEF Fail, Retry, At, Busy, Steps, Kept
<1>2. Active(g) /\ result[s] = None
  BY <1>1, BusyActive, NoResultYet
<1>3. \E w : Moved(g, s, w)
  BY <1>1, FailMoves, GoesMoves DEF Retry, Pc, Busy, JInv
<1>4. UNCHANGED <<cur, bound, restarts, sent, lost, era, inbox, result, status>>
  BY DEF Fail, Retry, store
<1> QED BY <1>1, <1>2, <1>3, <1>4, MovedSame

LEMMA SleepJ ==
  ASSUME JInv, NEW g \in Runs, NEW s \in Sleeps, Sleep(g, s) \/ Wake(g, s) \/ GoOn(g, s)
  PROVE  NothingLoose' /\ NoneTwice' /\ RowGoes' /\ EventsKept'
<1>1. s \in Steps /\ s \notin Kept
  BY KindsApart DEF Steps, Kept, Timed
<1>2. Active(g)
  <2>1. CASE Sleep(g, s)
    BY <2>1 DEF Sleep, Called, PassesGate, Active
  <2>2. CASE Wake(g, s) \/ GoOn(g, s)
    BY <1>1, <2>2, BusyActive DEF Wake, GoOn, At, Busy
  <2> QED BY <2>1, <2>2
<1>3. PICK w \in {"done", "sleeping", "woken"} : Goes(g, s, w)
  BY DEF Sleep, Wake, GoOn
<1>4. w \in Pc /\ (status' = status \/ status' \in Due)
  BY DEF Pc, Busy, Sleep, Wake, GoOn, Due
<1>5. UNCHANGED <<cur, bound, restarts, sent, lost, era, inbox, result>>
  BY DEF Sleep, Wake, GoOn, store
<1> QED BY <1>1, <1>2, <1>3, <1>4, <1>5, GoesMoves, MovedSame DEF JInv

\* A turn of the loop of waitForEvent, of a step that has no event.
LEMMA ListenJ ==
  ASSUME JInv, NEW g \in Runs, NEW s \in Waits, Active(g), result[s] = None, Listen(g, s),
         UNCHANGED <<cur, bound, restarts, sent, lost, era>>
  PROVE  NothingLoose' /\ NoneTwice' /\ RowGoes' /\ EventsKept'
<1>1. s \in Steps /\ s \in Kept
  BY DEF Steps, Kept
<1>2. status' \in Due
  BY DEF Listen, Due
<1>3. CASE inbox # {}
  <2>1. Goes(g, s, "done") /\ result' = [result EXCEPT ![s] = Oldest] /\ inbox' = inbox \ {Oldest}
    BY <1>3 DEF Listen
  <2>2. Moved(g, s, "done") /\ "done" \notin Busy
    BY <1>1, <2>1, GoesMoves DEF Pc, Busy, JInv
  <2>3. \A t \in Kept : result'[t] = result[t] \/ t = s
    BY <2>1 DEF JInv, IInv, TypeOK
  <2>4. EventsKept'
    BY <1>3, <2>1, EventTaken DEF JInv
  <2> QED BY <1>1, <1>2, <2>2, <2>3, <2>4, MovedJ
<1>4. CASE inbox = {}
  <2>1. PICK w \in {"failed", "listening"} : Goes(g, s, w)
    BY <1>4 DEF Listen
  <2>2. UNCHANGED <<result, inbox>>
    BY <1>4 DEF Listen
  <2>3. Moved(g, s, w)
    BY <1>1, <2>1, GoesMoves DEF Pc, Busy, JInv
  <2> QED BY <1>1, <1>2, <2>2, <2>3, MovedSame
<1> QED BY <1>3, <1>4

LEMMA WaitJ ==
  ASSUME JInv, NEW g \in Runs, NEW s \in Waits, WaitForEvent(g, s) \/ Hear(g, s)
  PROVE  NothingLoose' /\ NoneTwice' /\ RowGoes' /\ EventsKept'
<1>1. s \in Steps /\ s \in Kept
  BY DEF Steps, Kept
<1>2. CASE WaitForEvent(g, s)
  <2>1. Active(g) /\ UNCHANGED <<cur, bound, restarts, sent, lost, era>>
    BY <1>2 DEF WaitForEvent, Called, PassesGate, Active
  <2>2. CASE result[s] = None
    <3>1. Listen(g, s)
      BY <1>2, <2>2 DEF WaitForEvent, Stored
    <3> QED BY <2>1, <2>2, <3>1, ListenJ
  <2>3. CASE result[s] # None
    <3>1. Goes(g, s, "done") /\ UNCHANGED <<status, result, inbox>> /\ "done" \in Pc /\ "done" \notin Busy
      BY <1>2, <2>3 DEF WaitForEvent, Stored, Pc, Busy
    <3> QED BY <1>1, <2>1, <3>1, GoesMoves, MovedSame DEF JInv
  <2> QED BY <2>2, <2>3
<1>3. CASE Hear(g, s)
  <2>1. Active(g) /\ result[s] = None
    BY <1>1, <1>3, BusyActive, NoResultYet DEF Hear, At, Busy
  <2> QED BY <1>3, <2>1, ListenJ DEF Hear
<1> QED BY <1>2, <1>3
\* A run that begins is idle, and finds the others over.
LEMMA BegunJ ==
  ASSUME JInv, NEW n \in Runs, runs' = [runs EXCEPT ![n] = [Idle EXCEPT !.phase = "going"]],
         cur' = n, status' \in Due,
         \A h \in Runs : runs[h].phase \in {"none", "over"}
  PROVE  NothingLoose' /\ NoneTwice' /\ RowGoes'
<1>1. /\ \A h \in Runs \ {n} : runs'[h] = runs[h] /\ ~Active(h)'
      /\ \A s \in Steps : runs'[n].pc[s] = "idle"
      /\ Active(n)'
  BY DEF JInv, IInv, TypeOK, Active, Idle
<1>2. NothingLoose'
  BY <1>1 DEF JInv, NothingLoose, Active
<1>3. NoneTwice'
  BY <1>1 DEF NoneTwice, Busy, Kept, Steps
<1>4. RowGoes'
  BY DEF RowGoes
<1> QED BY <1>2, <1>3, <1>4

LEMMA NoneLive ==
  ASSUME IInv, cur = 0
  PROVE  \A h \in Runs : runs[h].phase \in {"none", "over"} /\ ~Active(h)
BY Sizes DEF IInv, OneCur, OneRun, Runs, Active

LEMMA StoreEvents ==
  ASSUME JInv, UNCHANGED store \/ Wipe
  PROVE  EventsKept'
<1>1. CASE UNCHANGED store
  BY <1>1, SameEvents DEF store, JInv
<1>2. CASE Wipe
  BY <1>2, EventsWiped DEF JInv
<1> QED BY <1>1, <1>2

LEMMA StartJ ==
  ASSUME JInv, Start("queued"), UNCHANGED store \/ Wipe
  PROVE  NothingLoose' /\ NoneTwice' /\ RowGoes' /\ EventsKept'
<1>1. EventsKept'
  BY StoreEvents
<1>2. CASE bound /\ cur = 0
  <2>1. /\ Started < MaxRuns /\ runs' = [runs EXCEPT ![Started + 1].phase = "going"]
        /\ cur' = Started + 1 /\ status' = "running"
    BY <1>2 DEF Start
  <2>2. Started + 1 \in Runs /\ runs' = [runs EXCEPT ![Started + 1] = [Idle EXCEPT !.phase = "going"]]
    BY <1>2, <2>1, RunBegins DEF JInv
  <2>3. \A h \in Runs : runs[h].phase \in {"none", "over"}
    BY <1>2, NoneLive DEF JInv
  <2>4. status' \in Due
    BY <2>1 DEF Due
  <2> QED BY <1>1, <2>1, <2>2, <2>3, <2>4, BegunJ
<1>3. CASE ~(bound /\ cur = 0)
  <2>1. UNCHANGED <<cur, runs>> /\ status' \in Due
    BY <1>3 DEF Start, Due
  <2>2. NoneTwice'
    BY <2>1 DEF JInv, NoneTwice, Active, store, Wipe
  <2> QED BY <1>1, <2>1, <2>2 DEF JInv, NothingLoose, RowGoes, Active
<1> QED BY <1>2, <1>3

LEMMA BindJ ==
  ASSUME JInv, Bind
  PROVE  NothingLoose' /\ NoneTwice' /\ RowGoes' /\ EventsKept'
<1>1. cur = 0 /\ UNCHANGED store
  BY DEF Bind, JInv, IInv, OneCur
<1>2. EventsKept'
  BY <1>1, StoreEvents
<1>3. CASE status \in Due
  <2>1. /\ Started < MaxRuns /\ runs' = [runs EXCEPT ![Started + 1].phase = "going"]
        /\ cur' = Started + 1 /\ status' = "running"
    BY <1>3 DEF Bind
  <2>2. Started + 1 \in Runs /\ runs' = [runs EXCEPT ![Started + 1] = [Idle EXCEPT !.phase = "going"]]
    BY <1>1, <2>1, RunBegins DEF JInv
  <2>3. \A h \in Runs : runs[h].phase \in {"none", "over"}
    BY <1>1, NoneLive DEF JInv
  <2>4. status' \in Due
    BY <2>1 DEF Due
  <2> QED BY <1>2, <2>1, <2>2, <2>3, <2>4, BegunJ
<1>4. CASE status \notin Due
  <2>1. UNCHANGED <<cur, runs, status, store>>
    BY <1>1, <1>4 DEF Bind
  <2> QED BY <1>2, <2>1 DEF JInv, NothingLoose, NoneTwice, RowGoes, Active, store
<1> QED BY <1>3, <1>4

LEMMA CrashJ ==
  ASSUME JInv, Crash
  PROVE  NothingLoose' /\ NoneTwice' /\ RowGoes' /\ EventsKept'
<1>1. \A h \in Runs : ~Active(h)' /\ \A s \in Steps : runs'[h].pc[s] \notin Busy
  BY DEF Crash, Active, Idle, Busy
<1>2. EventsKept'
  BY StoreEvents DEF Crash
<1>3. RowGoes'
  BY DEF Crash, RowGoes
<1> QED BY <1>1, <1>2, <1>3 DEF NothingLoose, NoneTwice

\* What a run that changes its phase, or is told something, leaves as it should be.
LEMMA SaysJ ==
  ASSUME JInv, NEW g \in Runs, g = cur, NEW r, runs' = [runs EXCEPT ![g] = r], r.pc = runs[g].pc,
         r.phase = "going" /\ ~r.stopped => Active(g),
         r.stopped \/ (r.phase = "going") \/ (\A s \in Steps : r.pc[s] \notin Busy),
         UNCHANGED <<cur, store>>,
         r.phase = "going" /\ ~r.stopped /\ ~r.paused => status' \in Due
  PROVE  NothingLoose' /\ NoneTwice' /\ RowGoes' /\ EventsKept'
<1>1. runs'[g] = r /\ \A h \in Runs \ {g} : runs'[h] = runs[h]
  BY DEF JInv, IInv, TypeOK
<1>2. NothingLoose'
  BY <1>1 DEF JInv, NothingLoose, Active
<1>3. NoneTwice'
  BY <1>1 DEF JInv, NoneTwice, Active, store
<1>4. RowGoes'
  BY <1>1 DEF RowGoes, Active
<1>5. EventsKept'
  BY StoreEvents
<1> QED BY <1>2, <1>3, <1>4, <1>5
\* A run that isn't over, or new, is the instance's.
LEMMA LiveIsCur ==
  ASSUME IInv, NEW g \in Runs, runs[g].phase \in Live
  PROVE  g = cur
BY DEF IInv, OneCur, OneRun, Live

LEMMA FunctionEndsJ ==
  ASSUME Awaits, JInv, NEW g \in Runs, NEW how \in {"returned", "threw"}, FunctionEnds(g, how)
  PROVE  NothingLoose' /\ NoneTwice' /\ RowGoes' /\ EventsKept'
<1> DEFINE r == [runs[g] EXCEPT !.phase = how]
<1>1. runs[g] \in Run
  BY DEF JInv, IInv, TypeOK
<1>2. r.pc = runs[g].pc /\ r.phase = how
  BY <1>1 DEF Run
<1>3. \A s \in Steps : r.pc[s] \notin Busy
  BY <1>2 DEF Awaits, FunctionEnds
<1>4. g = cur
  BY LiveIsCur DEF FunctionEnds, Live, JInv
<1>5. runs' = [runs EXCEPT ![g] = r] /\ UNCHANGED <<cur, store>>
  BY DEF FunctionEnds
<1> HIDE DEF r
<1> QED BY <1>2, <1>3, <1>4, <1>5, SaysJ

LEMMA WriteJ ==
  ASSUME JInv, NEW g \in Runs, Write(g)
  PROVE  NothingLoose' /\ NoneTwice' /\ RowGoes' /\ EventsKept'
<1> DEFINE r == [runs[g] EXCEPT !.phase = "written"]
<1>1. runs[g] \in Run
  BY DEF JInv, IInv, TypeOK
<1>2. r.pc = runs[g].pc /\ r.phase = "written" /\ r.stopped = runs[g].stopped
  BY <1>1 DEF Run
<1>3. r.stopped \/ \A s \in Steps : r.pc[s] \notin Busy
  BY <1>2 DEF Write, Interrupted, JInv, NothingLoose, Active
<1>4. g = cur
  BY LiveIsCur DEF Write, Interrupted, Live, JInv
<1>5. runs' = [runs EXCEPT ![g] = r] /\ UNCHANGED <<cur, store>>
  BY DEF Write
<1> HIDE DEF r
<1> QED BY <1>2, <1>3, <1>4, <1>5, SaysJ

\* Told something: the steps, and whether the function still goes on, stay.
LEMMA ToldJ ==
  ASSUME JInv, cur # 0, NEW stopped \in BOOLEAN, NEW paused \in BOOLEAN,
         runs' = [runs EXCEPT ![cur] = [runs[cur] EXCEPT !.stopped = stopped, !.paused = paused]],
         runs[cur].stopped => stopped, ~stopped /\ ~paused => status' \in Due, UNCHANGED <<cur, store>>
  PROVE  NothingLoose' /\ NoneTwice' /\ RowGoes' /\ EventsKept'
<1> DEFINE r == [runs[cur] EXCEPT !.stopped = stopped, !.paused = paused]
<1>1. cur \in Runs /\ runs[cur] \in Run
  BY CurIsLive DEF JInv
<1>2. r.pc = runs[cur].pc /\ r.phase = runs[cur].phase /\ r.stopped = stopped /\ r.paused = paused
  BY <1>1 DEF Run
<1>3. r.stopped \/ (r.phase = "going") \/ \A s \in Steps : r.pc[s] \notin Busy
  BY <1>1, <1>2 DEF JInv, NothingLoose, Active
<1>4. r.phase = "going" /\ ~r.stopped => Active(cur)
  BY <1>2 DEF Active
<1> HIDE DEF r
<1>5. runs' = [runs EXCEPT ![cur] = r]
  BY DEF r
<1> QED BY <1>1, <1>2, <1>3, <1>4, <1>5, SaysJ

LEMMA PauseJ ==
  ASSUME JInv, Pause
  PROVE  NothingLoose' /\ NoneTwice' /\ RowGoes' /\ EventsKept'
<1>1. cur # 0 /\ cur \in Runs /\ runs[cur] \in Run
  BY CurIsLive DEF Pause, JInv
<1>2. runs' = [runs EXCEPT ![cur] = [runs[cur] EXCEPT !.stopped = runs[cur].stopped, !.paused = TRUE]]
  BY <1>1 DEF Pause, Run, JInv, IInv, TypeOK
<1>3. runs[cur].stopped \in BOOLEAN /\ UNCHANGED <<cur, store>>
  BY <1>1 DEF Pause, Run
<1> QED BY <1>1, <1>2, <1>3, ToldJ

LEMMA ResumeJ ==
  ASSUME JInv, Resume
  PROVE  NothingLoose' /\ NoneTwice' /\ RowGoes' /\ EventsKept'
<1>1. CASE cur # 0 /\ runs[cur].paused
  <2>1. cur \in Runs /\ runs[cur] \in Run
    BY <1>1, CurIsLive DEF JInv
  <2>2. runs' = [runs EXCEPT ![cur] = [runs[cur] EXCEPT !.stopped = runs[cur].stopped, !.paused = FALSE]]
    BY <1>1, <2>1 DEF Resume, Run, JInv, IInv, TypeOK
  <2>3. runs[cur].stopped \in BOOLEAN /\ UNCHANGED <<cur, store>> /\ status' \in Due
    BY <1>1, <2>1 DEF Resume, Run, Due
  <2> QED BY <1>1, <2>1, <2>2, <2>3, ToldJ
<1>2. CASE ~(cur # 0 /\ runs[cur].paused)
  BY <1>2, StartJ DEF Resume
<1> QED BY <1>1, <1>2

\* What is told to stop, by Terminate or Restart.
LEMMA StopJ ==
  ASSUME JInv, runs' = Stop, UNCHANGED <<cur, store>>
  PROVE  NothingLoose' /\ NoneTwice' /\ RowGoes' /\ EventsKept'
<1>1. CASE cur # 0
  <2>1. cur \in Runs /\ runs[cur] \in Run
    BY <1>1, CurIsLive DEF JInv
  <2>2. runs' = [runs EXCEPT ![cur] = [runs[cur] EXCEPT !.stopped = TRUE, !.paused = runs[cur].paused]]
    BY <1>1, <2>1 DEF Stop, Run, JInv, IInv, TypeOK
  <2>3. runs[cur].paused \in BOOLEAN
    BY <2>1 DEF Run
  <2> QED BY <1>1, <2>2, <2>3, ToldJ
<1>2. CASE cur = 0
  <2>1. runs' = runs /\ EventsKept'
    BY <1>2, StoreEvents DEF Stop
  <2> QED BY <1>2, <2>1 DEF JInv, NothingLoose, NoneTwice, RowGoes, Active, store
<1> QED BY <1>1, <1>2

LEMMA RestartJ ==
  ASSUME JInv, Restart
  PROVE  NothingLoose' /\ NoneTwice' /\ RowGoes' /\ EventsKept'
<1>1. CASE cur # 0
  BY <1>1, StopJ DEF Restart
<1>2. CASE cur = 0
  BY <1>2, StartJ DEF Restart
<1> QED BY <1>1, <1>2

LEMMA EndJ ==
  ASSUME JInv, NEW g \in Runs, End(g)
  PROVE  NothingLoose' /\ NoneTwice' /\ RowGoes' /\ EventsKept'
<1>1. cur = g /\ runs[g].phase = "written" /\ runs[g] \in Run
  BY DEF End, JInv, IInv, TypeOK
<1> DEFINE r == Remains(runs[g])
<1>2. r.phase = "over" /\ \A s \in Steps : r.pc[s] \notin Busy
  BY <1>1 DEF Remains, Idle, Busy, JInv, NothingLoose, Active, Run
<1> HIDE DEF r
<1>3. PICK k \in 0..MaxRuns : InOrder(k)
  BY DEF JInv, IInv
<1>4. Started = k /\ g <= k
  BY <1>1, <1>3, StartedIs DEF InOrder
<1>5. \A h \in Runs \ {g} : runs[h].phase \in {"none", "over"}
  BY <1>1 DEF JInv, IInv, OneCur, OneRun
<1>6. CASE restarts = 0
  <2>1. cur' = 0 /\ runs' = [runs EXCEPT ![g] = r] /\ UNCHANGED <<status, store>>
    BY <1>6 DEF End, r
  <2>2. runs'[g] = r /\ \A h \in Runs \ {g} : runs'[h] = runs[h]
    BY <2>1 DEF JInv, IInv, TypeOK
  <2>3. NothingLoose'
    BY <1>2, <2>2 DEF JInv, NothingLoose, Active
  <2>4. NoneTwice'
    BY <1>2, <1>5, <2>2 DEF NoneTwice, Active
  <2>5. RowGoes'
    BY <2>1 DEF RowGoes
  <2> QED BY <2>1, <2>3, <2>4, <2>5, StoreEvents
<1>7. CASE restarts # 0
  <2>1. k < MaxRuns /\ k + 1 \in Runs \ {g}
    BY <1>3, <1>4, <1>7, StartedIs, Sizes DEF JInv, IInv, TypeOK, Waiters, Runs
  <2>2. runs[k + 1] = Idle
    BY <1>3, <2>1, Sizes DEF InOrder, Runs
  <2>3. /\ cur' = k + 1
        /\ runs' = [runs EXCEPT ![g] = r, ![k + 1] = [Idle EXCEPT !.phase = "going"]]
        /\ status' \in {"running", "queued"} /\ Wipe
    BY <1>4, <1>7, <2>1, <2>2 DEF End, JInv, IInv, TypeOK, r
  <2>4. /\ runs'[g] = r /\ runs'[k + 1] = [Idle EXCEPT !.phase = "going"]
        /\ \A h \in Runs \ {g, k + 1} : runs'[h] = runs[h]
    BY <2>1, <2>3 DEF JInv, IInv, TypeOK
  <2>5. Active(k + 1)' /\ \A s \in Steps : runs'[k + 1].pc[s] = "idle"
    BY <2>4 DEF Active, Idle
  <2>6. NothingLoose'
    BY <1>2, <2>4, <2>5 DEF JInv, NothingLoose, Active
  <2>7. NoneTwice'
    BY <1>2, <1>5, <2>4, <2>5 DEF NoneTwice, Active, Busy, Kept, Steps
  <2>8. RowGoes'
    BY <2>3 DEF RowGoes, Due
  <2> QED BY <2>3, <2>6, <2>7, <2>8, StoreEvents
<1> QED BY <1>6, <1>7

\* Steps that leave the runs alone.
LEMMA RestJ ==
  ASSUME JInv, SendEvent \/ (\E s \in Timed : Pass(s)) \/ UNCHANGED vars
  PROVE  NothingLoose' /\ NoneTwice' /\ RowGoes' /\ EventsKept'
<1>1. UNCHANGED <<status, result, runs, cur>>
  BY DEF SendEvent, Pass, vars
<1>2. EventsKept'
  BY EventSent, SameEvents DEF JInv, Pass, vars
<1> QED BY <1>1, <1>2 DEF JInv, NothingLoose, NoneTwice, RowGoes, Active

LEMMA StepJ == Awaits /\ JInv /\ [Next]_vars => JInv'
<1> SUFFICES ASSUME Awaits, JInv, [Next]_vars PROVE NothingLoose' /\ NoneTwice' /\ RowGoes' /\ EventsKept'
  BY Step DEF JInv
<1>1. CASE Create \/ Bind \/ Crash \/ Pause \/ Resume \/ Restart
  BY <1>1, StartJ, BindJ, CrashJ, PauseJ, ResumeJ, RestartJ DEF Create
<1>2. CASE Terminate
  BY <1>2, StopJ DEF Terminate
<1>3. CASE SendEvent \/ (\E s \in Timed : Pass(s)) \/ UNCHANGED vars
  BY <1>3, RestJ
<1>4. ASSUME NEW g \in Runs, RunStep(g) PROVE NothingLoose' /\ NoneTwice' /\ RowGoes' /\ EventsKept'
  BY <1>4, WriteJ, EndJ, FunctionEndsJ DEF RunStep
<1>5. ASSUME NEW g \in Runs, Calls(g) PROVE NothingLoose' /\ NoneTwice' /\ RowGoes' /\ EventsKept'
  BY <1>5, DoJ, SleepJ, WaitJ DEF Calls
<1>6. ASSUME NEW g \in Runs, NEW s \in Steps, Follows(g, s) PROVE NothingLoose' /\ NoneTwice' /\ RowGoes' /\ EventsKept'
  BY <1>6, SucceedJ, FailJ, SleepJ, WaitJ DEF Follows
<1> QED BY <1>1, <1>2, <1>3, <1>4, <1>5, <1>6 DEF Next, Asked

LEMMA InitJInv == Init => JInv
<1> SUFFICES ASSUME Init PROVE JInv
  OBVIOUS
<1>1. NothingLoose /\ NoneTwice /\ RowGoes
  BY DEF Init, NothingLoose, NoneTwice, RowGoes, Active, Idle, Busy, Kept
<1>2. Taken = {}
  BY DEF Init, Taken, Kept
<1>3. EventsKept
  BY <1>2 DEF Init, EventsKept, Kept
<1> QED BY <1>1, <1>3, InitIInv DEF JInv

LEMMA AlwaysJ == Awaits => (Spec => []JInv)
<1> SUFFICES ASSUME Awaits PROVE Spec => []JInv
  OBVIOUS
<1>1. JInv /\ [Next]_vars => JInv'
  BY StepJ
<1> QED BY <1>1, InitJInv, PTL DEF Spec-----------------------------------------------------------------------------
(* What begins.                                                            *)

\* A step that moves is this one; the others are where they were.
LEMMA OnlyThatMoves ==
  ASSUME JInv, NEW h \in Runs, NEW t \in Steps, NEW w, Moved(h, t, w),
         NEW g \in Runs, NEW s \in Steps, Begins(g, s)
  PROVE  g = h /\ s = t /\ w \in {"calling", "sleeping", "listening"} /\ runs[g].pc[s] # w
<1>1. runs'[g] = IF g = h THEN runs'[h] ELSE runs[g]
  BY DEF Moved, JInv, IInv, TypeOK
<1>2. g = h
  BY <1>1 DEF Begins
<1> QED BY <1>2 DEF Moved, Begins

LEMMA CallsBegin ==
  ASSUME JInv, NEW h \in Runs, Calls(h), NEW g \in Runs, NEW s \in Steps, Begins(g, s)
  PROVE  Active(g) /\ PassesGate(g) /\ (s \in Kept => result[s] = None)
<1>1. ASSUME NEW t \in Dos, Do(h, t) PROVE Active(g) /\ PassesGate(g) /\ (s \in Kept => result[s] = None)
  <2>1. t \in Steps /\ Active(h) /\ PassesGate(h)
    BY <1>1 DEF Steps, Do, Called, PassesGate, Active
  <2>2. Moved(h, t, IF Stored(t) THEN "done" ELSE "calling")
    BY <1>1, <2>1, GoesMoves DEF Do, JInv, Pc, Busy
  <2> QED BY <2>1, <2>2, OnlyThatMoves DEF Stored
<1>2. ASSUME NEW t \in Sleeps, Sleep(h, t) PROVE Active(g) /\ PassesGate(g) /\ (s \in Kept => result[s] = None)
  <2>1. t \in Steps /\ t \notin Kept /\ Active(h) /\ PassesGate(h)
    BY <1>2, KindsApart DEF Steps, Sleep, Called, PassesGate, Active, Kept, Timed
  <2>2. Moved(h, t, "done") \/ Moved(h, t, "sleeping")
    BY <1>2, <2>1, GoesMoves DEF Sleep, JInv, Pc, Busy
  <2> QED BY <2>1, <2>2, OnlyThatMoves
<1>3. ASSUME NEW t \in Waits, WaitForEvent(h, t) PROVE Active(g) /\ PassesGate(g) /\ (s \in Kept => result[s] = None)
  <2>1. t \in Steps /\ Active(h) /\ PassesGate(h)
    BY <1>3 DEF Steps, WaitForEvent, Called, PassesGate, Active
  <2>2. CASE Stored(t)
    <3>1. Moved(h, t, "done")
      BY <1>3, <2>1, <2>2, GoesMoves DEF WaitForEvent, JInv, Pc
    <3> QED BY <2>1, <3>1, OnlyThatMoves
  <2>3. CASE ~Stored(t)
    <3>1. \E w : Moved(h, t, w)
      BY <1>3, <2>3, ListenKeeps DEF WaitForEvent, JInv
    <3> QED BY <2>1, <2>3, <3>1, OnlyThatMoves DEF Stored
  <2> QED BY <2>2, <2>3
<1> QED BY <1>1, <1>2, <1>3 DEF Calls

\* Of what is under way only a retry begins again.
LEMMA RetriesBegin ==
  ASSUME JInv, NEW h \in Runs, NEW t \in Steps, Follows(h, t), NEW g \in Runs, NEW s \in Steps, Begins(g, s)
  PROVE  Active(g) /\ PassesGate(g) /\ (s \in Kept => result[s] = None)
<1>1. CASE t \in Dos /\ Succeed(h, t)
  <2>1. Moved(h, t, "done")
    BY <1>1, GoesMoves DEF Succeed, JInv, Pc
  <2> QED BY <2>1, OnlyThatMoves
<1>2. CASE t \in Dos /\ Fail(h, t)
  <2>1. Moved(h, t, "failed") \/ Moved(h, t, "backoff")
    BY <1>2, FailMoves DEF JInv
  <2> QED BY <2>1, OnlyThatMoves
<1>3. CASE t \in Dos /\ Retry(h, t)
  <2>1. Moved(h, t, "calling") /\ PassesGate(h) /\ runs[h].pc[t] \in Busy /\ ~runs[h].stopped
    BY <1>3, GoesMoves DEF Retry, At, JInv, Pc, Busy
  <2>2. Active(h) /\ (t \in Kept => result[t] = None)
    BY <2>1, BusyActive, NoResultYet
  <2> QED BY <2>1, <2>2, OnlyThatMoves
<1>4. CASE t \in Sleeps /\ (Wake(h, t) \/ GoOn(h, t))
  <2>1. Moved(h, t, "done") \/ Moved(h, t, "woken")
    BY <1>4, GoesMoves DEF Wake, GoOn, JInv, Pc, Busy
  <2> QED BY <2>1, OnlyThatMoves
<1>5. CASE t \in Waits /\ Hear(h, t)
  <2>1. PICK w \in {"done", "failed", "listening"} : Moved(h, t, w)
    BY <1>5, ListenKeeps DEF Hear, JInv
  <2>2. runs[h].pc[t] = "listening"
    BY <1>5 DEF Hear, At
  <2> QED BY <2>1, <2>2, OnlyThatMoves
<1> QED BY <1>1, <1>2, <1>3, <1>4, <1>5 DEF Follows

\* Only an active run's steps begin, and none that has a result.
LEMMA BeginsIf ==
  ASSUME JInv, Next, NEW g \in Runs, NEW s \in Steps, Begins(g, s)
  PROVE  Active(g) /\ PassesGate(g) /\ (s \in Kept => result[s] = None)
<1>1. ASSUME runs'[g].pc[s] \in {runs[g].pc[s], "idle"} PROVE FALSE
  BY <1>1 DEF Begins
<1>2. CASE Start("queued") \/ Bind
  <2>1. runs' = runs \/ (cur = 0 /\ Started < MaxRuns /\ runs' = [runs EXCEPT ![Started + 1].phase = "going"])
    BY <1>2 DEF Start, Bind, JInv, IInv, OneCur
  <2>2. CASE runs' = runs
    BY <1>1, <2>2
  <2>3. CASE cur = 0 /\ Started < MaxRuns /\ runs' = [runs EXCEPT ![Started + 1].phase = "going"]
    <3>1. Started + 1 \in Runs /\ runs' = [runs EXCEPT ![Started + 1] = [Idle EXCEPT !.phase = "going"]]
      BY <2>3, RunBegins DEF JInv
    <3> QED BY <1>1, <3>1 DEF JInv, IInv, TypeOK, Idle
  <2> QED BY <2>1, <2>2, <2>3
<1>3. CASE Crash
  BY <1>1, <1>3 DEF Crash, Idle
<1>4. ASSUME NEW h \in Runs, NEW r, r.pc = runs[h].pc, runs' = [runs EXCEPT ![h] = r] PROVE FALSE
  BY <1>1, <1>4 DEF JInv, IInv, TypeOK
<1>5. CASE runs' = Stop
  <2>1. CASE cur = 0
    BY <1>1, <1>5, <2>1 DEF Stop
  <2>2. CASE cur # 0
    <3>1. cur \in Runs /\ [runs[cur] EXCEPT !.stopped = TRUE].pc = runs[cur].pc
      BY <2>2, CurIsLive DEF JInv, Run
    <3> QED BY <1>4, <1>5, <2>2, <3>1 DEF Stop
  <2> QED BY <2>1, <2>2
<1>6. CASE (Pause \/ Resume) /\ cur # 0 /\ ~Start("queued")
  <2>1. cur \in Runs /\ \A b \in BOOLEAN : [runs[cur] EXCEPT !.paused = b].pc = runs[cur].pc
    BY <1>6, CurIsLive DEF JInv, Run
  <2>2. \E b \in BOOLEAN : runs' = [runs EXCEPT ![cur] = [runs[cur] EXCEPT !.paused = b]]
    BY <1>6, <2>1 DEF Pause, Resume
  <2> QED BY <1>4, <2>1, <2>2
<1>7. CASE Asked
  BY <1>1, <1>2, <1>3, <1>5, <1>6, <1>7 DEF Asked, Create, Pause, Resume, Terminate, Restart, SendEvent
<1>8. ASSUME NEW h \in Runs, Write(h) \/ (\E how \in {"returned", "threw"} : FunctionEnds(h, how)) PROVE FALSE
  <2>1. \A how : [runs[h] EXCEPT !.phase = how].pc = runs[h].pc
    BY DEF JInv, IInv, TypeOK, Run
  <2>2. \E how : runs' = [runs EXCEPT ![h] = [runs[h] EXCEPT !.phase = how]]
    BY <1>8 DEF Write, FunctionEnds
  <2> QED BY <1>4, <2>1, <2>2
<1>9. ASSUME NEW h \in Runs, End(h) PROVE FALSE
  <2>1. runs[h].phase = "written" /\ runs[h] \in Run /\ cur = h
    BY <1>9 DEF End, JInv, IInv, TypeOK
  <2>2. \A t \in Steps : Remains(runs[h]).pc[t] \in {runs[h].pc[t], "idle"}
    BY <2>1 DEF Remains, Idle, Run
  <2>3. PICK k \in 0..MaxRuns : InOrder(k)
    BY DEF JInv, IInv
  <2>4. Started = k /\ h <= k
    BY <2>1, <2>3, StartedIs DEF InOrder
  <2>5. CASE restarts = 0
    <3>1. runs' = [runs EXCEPT ![h] = Remains(runs[h])]
      BY <1>9, <2>5 DEF End
    <3> QED BY <1>1, <2>2, <3>1 DEF JInv, IInv, TypeOK
  <2>6. CASE restarts # 0
    <3>1. k < MaxRuns /\ k + 1 \in Runs \ {h}
      BY <2>3, <2>4, <2>6, StartedIs, Sizes DEF JInv, IInv, TypeOK, Waiters, Runs
    <3>2. runs[k + 1] = Idle
      BY <2>3, <3>1, Sizes DEF InOrder, Runs
    <3>3. runs' = [runs EXCEPT ![h] = Remains(runs[h]), ![k + 1] = [Idle EXCEPT !.phase = "going"]]
      BY <1>9, <2>4, <2>6, <3>1, <3>2 DEF End, JInv, IInv, TypeOK
    <3>4. /\ runs'[h] = Remains(runs[h]) /\ runs'[k + 1].pc = Idle.pc
          /\ \A i \in Runs \ {h, k + 1} : runs'[i] = runs[i]
      BY <3>1, <3>3 DEF JInv, IInv, TypeOK, Idle
    <3> QED BY <1>1, <2>2, <3>4 DEF Idle
  <2> QED BY <2>5, <2>6
<1>10. ASSUME NEW t \in Timed, Pass(t) PROVE FALSE
  BY <1>1, <1>10 DEF Pass
<1> QED BY <1>7, <1>8, <1>9, <1>10, CallsBegin, RetriesBegin DEF Next, RunStep
\* A result changes when a restart deletes it, or by the step it is of, which had none.
LEMMA ResultStays ==
  ASSUME JInv, Next, NEW s \in Kept, result[s] # None, era' = era
  PROVE  result'[s] = result[s]
<1>1. ~Wipe
  BY Sizes DEF Wipe, JInv, IInv, TypeOK
<1>2. CASE Asked
  BY <1>1, <1>2 DEF Asked, Create, Bind, Crash, Pause, Resume, Terminate, Restart, SendEvent, store
<1>3. ASSUME NEW t \in Timed, Pass(t) PROVE result'[s] = result[s]
  BY <1>3 DEF Pass
<1>4. ASSUME NEW g \in Runs, RunStep(g) PROVE result'[s] = result[s]
  BY <1>1, <1>4 DEF RunStep, Write, End, FunctionEnds, store
<1>5. ASSUME NEW g \in Runs, NEW t \in Dos, Succeed(g, t) PROVE result'[s] = result[s]
  <2>1. t \in Kept /\ t \in Steps /\ result[t] = None
    BY <1>5, BusyActive, NoResultYet DEF Succeed, At, Busy, Kept, Steps
  <2> QED BY <1>5, <2>1 DEF Succeed, JInv, IInv, TypeOK
<1>6. ASSUME NEW g \in Runs, NEW t \in Waits, WaitForEvent(g, t) \/ Hear(g, t) PROVE result'[s] = result[s]
  <2>1. t \in Kept /\ t \in Steps
    BY DEF Kept, Steps
  <2>2. CASE result[t] # None
    <3>1. ~Hear(g, t)
      BY <2>1, <2>2, BusyActive, NoResultYet DEF Hear, At, Busy
    <3> QED BY <1>6, <2>2, <3>1 DEF WaitForEvent, Stored
  <2>3. CASE result[t] = None
    <3>1. Listen(g, t)
      BY <1>6, <2>3 DEF WaitForEvent, Stored, Hear
    <3>2. result' = result \/ result' = [result EXCEPT ![t] = Oldest]
      BY <3>1 DEF Listen
    <3> QED BY <2>1, <2>3, <3>2 DEF JInv, IInv, TypeOK
  <2> QED BY <2>2, <2>3
<1>7. ASSUME NEW g \in Runs, Calls(g) PROVE result'[s] = result[s]
  BY <1>6, <1>7 DEF Calls, Do, Sleep, store
<1>8. ASSUME NEW g \in Runs, NEW t \in Steps, Follows(g, t) PROVE result'[s] = result[s]
  BY <1>5, <1>6, <1>8 DEF Follows, Fail, Retry, Wake, GoOn, store
<1> QED BY <1>2, <1>3, <1>4, <1>7, <1>8 DEF Next
-----------------------------------------------------------------------------
\* Of a function that waits for the steps it calls: every event sent is there to be taken, is the
\* result of one step, or went with the steps in a restart; and events are taken oldest first
\* (waitForEvent, sendEvent), whatever died when.
THEOREM NoEventLost == Awaits => (Spec => []EventsKept)
<1> SUFFICES ASSUME Awaits PROVE Spec => []EventsKept
  OBVIOUS
<1>1. JInv => EventsKept
  BY DEF JInv
<1>2. Spec => []JInv
  BY AlwaysJ
<1> QED BY <1>1, <1>2, PTL

\* Of such a function, a finished step returns its stored result instead of running twice, over any
\* number of runs, crashes, pauses and retries, till a restart (do, waitForEvent).
THEOREM StepsRunOnce == Awaits => (Spec => StepsOnce)
<1> SUFFICES ASSUME Awaits PROVE Spec => StepsOnce
  OBVIOUS
<1>1. JInv /\ [Next]_vars => [\A s \in Kept : result[s] # None /\ era' = era =>
                                /\ result'[s] = result[s]
                                /\ \A g \in Runs : ~Begins(g, s)]_vars
  BY BeginsIf, ResultStays DEF Kept, Steps
<1>2. Spec => []JInv
  BY AlwaysJ
<1> QED BY <1>1, <1>2, PTL DEF Spec, StepsOnce

\* Of such a function, no step begins in any run while the row says that the instance is paused, or
\* over: pause, terminate and what a run writes at its end reach every step (gate).
THEOREM StoppedIsQuiet == Awaits => (Spec => QuietWhenStopped)
<1> SUFFICES ASSUME Awaits PROVE Spec => QuietWhenStopped
  OBVIOUS
<1>1. ASSUME JInv, Next, NEW g \in Runs, NEW s \in Steps, Begins(g, s) PROVE status \in Due
  <2>1. Active(g) /\ ~runs[g].paused
    BY <1>1, BeginsIf DEF PassesGate
  <2>2. cur = g /\ cur # 0
    BY <1>1, <2>1, ActiveIsCur DEF JInv
  <2> QED BY <1>1, <2>1, <2>2 DEF JInv, RowGoes
<1>2. status \in Due => status \notin Final \cup {"paused"}
  BY DEF Due, Final
<1>3. JInv /\ [Next]_vars => [(status \in Final \cup {"paused"}) =>
                                \A g \in Runs, s \in Steps : ~Begins(g, s)]_vars
  BY <1>1, <1>2
<1>4. Spec => []JInv
  BY AlwaysJ
<1> QED BY <1>3, <1>4, PTL DEF Spec, QuietWhenStopped

\* Of such a function, an instance that is over and has no run stays as it ended till a restart; of
\* one that abandons a sleep it does not (the run that finds it says so).
THEOREM WhatEndedStays == Awaits => (Spec => EndedStays)
<1> SUFFICES ASSUME Awaits PROVE Spec => EndedStays
  OBVIOUS
<1>1. ASSUME JInv, Next, cur = 0, status \in Final PROVE status' = status \/ era' # era
  <2>1. Wipe => era' # era
    BY Sizes DEF Wipe, JInv, IInv, TypeOK
  <2>2. status \notin Due \cup {"none", "paused"}
    BY <1>1 DEF Final, Due
  <2>3. \A g \in Runs : runs[g].phase \in {"none", "over"} /\ ~Active(g)
    BY <1>1, NoneLive DEF JInv
  <2>4. CASE Asked
    BY <1>1, <2>1, <2>2, <2>4
       DEF Asked, Create, Bind, Crash, Pause, Resume, Terminate, Restart, SendEvent
  <2>5. ASSUME NEW s \in Timed, Pass(s) PROVE status' = status
    BY <2>5 DEF Pass
  <2>6. ASSUME NEW g \in Runs, RunStep(g) PROVE FALSE
    BY <1>1, <2>3, <2>6, Sizes DEF RunStep, Write, Interrupted, End, FunctionEnds, Runs
  <2>7. ASSUME NEW g \in Runs, Calls(g) PROVE FALSE
    BY <2>3, <2>7 DEF Calls, Do, Sleep, WaitForEvent, Called
  <2>8. ASSUME NEW g \in Runs, NEW s \in Steps, Follows(g, s) PROVE FALSE
    <3>1. runs[g].pc[s] \in Busy /\ ~runs[g].stopped
      BY <2>8 DEF Follows, Succeed, Fail, Retry, Wake, GoOn, Hear, At, Busy
    <3> QED BY <1>1, <2>3, <3>1, BusyActive
  <2> QED BY <1>1, <2>4, <2>5, <2>6, <2>7, <2>8 DEF Next
<1>2. JInv /\ [Next]_vars => [cur = 0 /\ status \in Final => status' = status \/ era' # era]_vars
  BY <1>1
<1>3. Spec => []JInv
  BY AlwaysJ
<1> QED BY <1>2, <1>3, PTL DEF Spec, EndedStays
=============================================================================
