# RustyBuns in TLA+

Models of the parts of this repository whose correctness hangs on the order of things: who holds
lines of a shared file, what its history says, who holds the lock of a deploy, how often a queue
delivers, what a workflow does twice, who gets a slot of the machine. TLC checks them on small
instances; TLAPS proves what matters most for instances of any size.

## The system

RustyBuns runs Workers applications off the edge: `packages/shell-bun` is the runtime (Durable
Objects, queues, workflows, crons, stores, a scheduler, over sqlite and one Bun process),
`packages/cli` builds and deploys, and `apps/` holds applications, the largest `apps/codesplitter`,
a code host on which people and AI agents edit the same files at the same time. The rest is
libraries (`packages/ui`, `render`, `rig`, `terrain`, ...), native hosts (`native/`) and examples.

| Component | Its state | Operations | Talks to | What is hard |
|---|---|---|---|---|
| **Claims of a file** (`apps/codesplitter/src/file-do.ts`, a Durable Object per file) | claims and their index by line, rests, the line of waiters, asks held open, one alarm, the drain of a deploy | claim, renew, extend, wait, leave, release, edit, alarm, drain, restart, wipe | the Worker calls it; storage and alarm of the runtime; sockets | a line that two want, leases and caps, waiters who go quiet, deploys in the middle, lines that come and go |
| **History of a file** (same object, `lines.ts`, `doc-store.ts`) | document, log of ops, snapshots, commits | edit, at, snapshot, sweep, commit, fork, wipe | storage, D1, the branch | crashes between puts, awaits between reads |
| **codeSplitter's Worker** (`worker.ts`) | D1 rows `held` | routes, the check across files | every file object | read, then ask: stale by then |
| **Agent runs** (`agent-run.ts`) | a claim, its heartbeat | claim, think, edit, release | file objects | a lease that ends while a model thinks |
| **Threads, branches, train, mirrors, deploys** | D1 and objects of their own | - | GitHub, containers | late answers, retries |
| **Lock of the deploy state** (`packages/cli/src/state.ts`, `lifecycle.ts`) | a file; a child process | take, note the child, release | other commands, by the file only | every call of every command is a step of its own; SIGKILL; Ctrl-C twice |
| **Queues** (`shell-bun/src/bindings/queue.ts`) | one table; a drain loop | send, drain, lease, settle, time out, consume, stop | the Worker's handler, the scheduler | death with a batch out, handlers that hang and answer late |
| **Workflows** (`bindings/workflow.ts`) | instances, steps, events; live runs | create, pause, resume, terminate, restart, events | the app's class | controls racing the end of a run |
| **Durable Objects** (`bindings/durable-object.ts`) | slots, instances, alarms, the input gate | deliver, evict, alarm | all of the above | instances that outlive eviction |
| **Scheduler, crons** (`priority.ts`, `cron.ts`) | slots, back-off, memory | run, checkpoint, pause, put out, sample | queues, crons, builds | jobs that stop, step aside and grow at any moment; waiting on each other |

What makes each correct:

- Claims: two never both keep others off a line; claims are on lines that are there; lines are taken
  in turn, in an order that stays; a lease ends at its cap and its holder rests; nothing lapses
  unseen; nobody waits for ever; a drain takes nothing new.
- History: every revision it reaches is the document as it was; nobody's edit goes uncredited; what
  it doesn't reach goes.
- Workflow: a step that finished isn't run again, an event isn't lost or taken twice, a deadline isn't
  put off; one run at a time; nothing begins while paused or stopped; every run ends.
- Scheduler: slots and memory add up, whoever fits gets in, and nobody waits on those that wait.
- Lock: one command at a time works on the state, or its orphan does; a stale lock stops nobody.
- Queue: every message is settled, once, by the delivery it is in, after as many deliveries as it
  may have.

## Modules

| Module | Models | Lines of code |
|---|---|---|
| `LineClaims` | the claims of one file object | `file-do.ts` 60-87, 147-250, 281-289, 344-353, 370-381, 455-482, 690-1053 |
| `LineClaimsProofs` | theorems about it: what is sound in every state | |
| `TurnsProofs` | theorems about it: turns, leases, rests, drains | |
| `MCLineClaims` + four `.cfg` | its instances | |
| `Past` | what a file promises whoever reads its history: the abstract specification | |
| `Lines` | a file's lines, the ops on them, and replaying a log | `lines.ts` 28-141 |
| `FileHistory` | the document of one file object and its past; implements `Past` | `file-do.ts` 180-207, 370-375, 395-406, 423-479, 553-620 |
| `FileHistoryProofs` | theorems about it, the refinement among them | |
| `MCFileHistory` + a `.cfg` | its instance | |
| `StateLock` | the lock of the deploy state | `state.ts` 58-111, `lifecycle.ts` 33-80 |
| `StateLockProofs` | theorems about it | |
| `MCStateLock` + two `.cfg` | its instances | |
| `Mailbox` | what a queue promises: the abstract specification | |
| `Queue` | a queue and its consumer; implements `Mailbox` | `queue.ts` 60-205 |
| `QueueProofs` | theorems about it, the refinement among them | |
| `MCQueue` + a `.cfg` | its instance | |
| `Workflow` | an instance of a workflow and its runs | `workflow.ts` 54-270 |
| `WorkflowProofs` | theorems about it | |
| `MCWorkflow` + two `.cfg` | its instances | |
| `Scheduler` | the scheduler of background work | `priority.ts` 116-124, 265-420, 483-521 |
| `SchedulerProofs` | theorems about it | |
| `MCScheduler` + two `.cfg` | its instances | |
| `SetFacts` | facts about finite sets and numbers that proofs share | |

A *slip* in a module is a mistake the code could have made in the definition after it (a guard
dropped, an off-by-one, a copy not kept). No specification uses them: put in place of the definition,
each makes TLC find the property it is paired with in `PROJECT.json` (`mutants`) violated, and every
property of a passing run has one.

### LineClaims

A handler is one action. That is what the runtime gives: the input gate
(`packages/shell-bun/src/bindings/durable-object.ts:92-165`, `deliver` :288-302) lets no other event
in while a handler awaits its own storage, and claims' handlers await nothing else. The one that
yields is a wait held open (`?wait`), which is two actions, `Wait(hold)` and `PollEnd`, with anything
in between; and `live()`, which lets lapsed claims go and does not await the `serve` that this
starts, so the handler goes on with lines free that a waiter is due. `Live`, then the handler's own
change, then `Deferred` is that order; in `Wait` the deferred serve may come before or after the ask
is open (`late`).

- The object's maps are the fields of `book`: `claims`, `claimOf` (the index), `rests`, `waits`,
  `polls` (the waiters with an ask open). A handler is a chain of functions from Book to Book named
  for the methods they stand for: `Live`, `LetGo` (release), `Index`, `Leave` (unwait), `MoveUp` and
  `Serve` (serve), `Laid` (the end of claim), `InLine` (the start of wait), `Arm`.
- A stamp is kept as what is left of it, so that the state space is finite; `Tick` is a unit of time.
  `Never` is a hold with no ttl and, in `cap`, a person.
- The array of waiters is `ahead`, for each of them who is in front; the order of their `at` stamps,
  which is all that storage keeps, is `prior`. Ranks make the two differ.
- Storage holds what the maps hold: each handler writes what it changes before the gate opens again.
  `Restart` keeps that and loses `polls`, the drain and the array's order. It also stands for idle
  eviction, which loses the same.
- Actions: `Lay` (claim, renew, retake), `Wait`, `PollEnd`, `Look` (anything that only calls
  `live()`: a read, a claim refused), `Extend`, `Release`, `Alarm`, `SetLine`, `DeleteLine`,
  `InsertLine` (edit, by a claimant or, with `None`, a merge), `Warn`, `WarningOver`, `Begin`,
  `Cancel` (drain), `Restart`, `Wipe`, `Tick`.
- Abstracted: two equal `at` stamps; batches of several ops (one at a time); rests that ran out are
  dropped as time passes and not when next looked at; several lapsed claims are let go together;
  a waiter's stored lines are kept cut to the file (ids of lines are never used again); answers,
  sockets and the feed. An ask is never held past `PollMs`; alarms may be late.
- Left out: `live=locked` and `live=line` policies, `scrub`, the copy of claims in D1, the check
  across files, and a process that dies in the middle of a handler: `Restart` comes between handlers, while the
  code awaits its puts and deletes one by one (:917-918, :957-958, :1051 before :478).

### StateLock

Nothing guards a file between two calls, so each call of a command is an action: `openSync("wx")`,
`readFileSync`, `rmSync`, `writeSync`, and in `noteChild` a read, then `writeFileSync`'s truncation
and its write. A file is an inode: `<<p, "lock">>` the one p's `openSync` makes, `<<p, "note">>` one
its `writeFileSync` makes where none is; `path` says which is at the lock's place. A command goes
`start -> open -> (read -> check -> remove -> open) -> write -> hold -> spawned -> truncate -> renote
-> run -> yield -> unlink -> done`, or is refused, or dies. One command, one pid, one child.
`Happens` chooses what the instance allows: "kill", "quit". Commands overlap in any way.

Two things go wrong, and `gaps`, a history variable that no action reads, remembers whether they have: a
lock is removed that somebody was writing, or had written since it was looked at ("raced"), and a
command is killed between starting alchemy and noting it ("unnoted"). `KeptApart` says that one at a
time is at work as long as neither has happened. `together` is what the first one leads to.

### Queue

What the loop does between two awaits is one action: `Kicked`/`Drain` (the start of a round), `Ask`
(`deliver(to ?? Date.now())`, whose `until` is fixed before the wait for a slot of the scheduler),
`HandOver` (the slot is there: select, lease, call the handler), `FindNone`, `Return` (verdicts
written), `Abort` (stopped by the scheduler after `timeoutMs`), `ReturnLate` (its handler comes back
all the same), and outside it `Send`, `Poll`, `Consume`, `Stop`, `Crash`, `Tick`. A time is the set of
messages due by then. `again` survives a drain that failed, as in the code. Any of the due messages
may make a batch: the order by `visible_at` is abstracted. `cuts` is a history variable: deliveries
cut off by a timeout or a death, which the code does not count.

`Mailbox` is the queue without table, loop, timers and deaths: a message waits, is handed over in a
batch, and comes back or is settled by that batch, for good and by it alone. `Queue!IsMailbox` is the
refinement: a message's `place` is read off its row and the batch that is out.

Left out: `drain(until)` called by hand (tests), `renamedFrom`, encoding and its size limit, a
`timeoutMs` of 0 or above the lease. A queue's job cannot be evicted for memory: `priority.ts:496`
picks only jobs with measured processes.

### FileHistory, Lines, Past

The disk is a function from keys to values. Puts issued without an await between them land together
(`doc-store.ts:65` counts on it), so an edit is up to four steps, any of which a stop may follow:
`Edit` (applied in memory), `Save` (the document and its ops), `Snapshot` (a snapshot, the list of
them, `trimmed`), `Drop` (the oldest one, and a sweep asked for). No event is let in between them,
for all that is awaited is storage. `Sweep` goes on beside the events, a page at a time. A commit
awaits a hash, which isn't storage: `StartCommit` and `EndCommit`, with edits and forks in between
when "slowsha" happens. `Restart` is eviction, a deploy or a death, at any step; `Wipe` an evicted
repo, not during a hash; `Fork` a branch's copy. `Edit` is an edit of one author or a merge, with an
author for each op.

A line's text is told by who wrote it at which revision, so two documents are equal when text, blame
and order are. Left out: the chunks of `doc-store.ts` (a document is one value), `rebase`, private
lines, `scrub`, shas and messages, sockets, the feed.

`Past` is the promise: the file is the sequence of all its documents from some revision on, each an
op away from the one before; new ones come at its end, old ones go at its start, none changes.
`KeepsThePast` is the refinement, with `past` mapped to what `at(rev)` reads from the disk for every
readable revision: it fails as soon as a snapshot, a trim, a sweep or a stop between two puts makes
one revision read otherwise than it was.

### Workflow

What runs between two awaits is one action. The app's function is any function: it calls any step
when it likes, several at a time, and returns or throws. A run is a closure (`phase`, `stopped`,
`paused`, and how far each step is), and old runs stay in the state so that what they still do is
seen. Actions: `Create`, `Bind` (the class is there after a start: what was going runs again from the
top), `Crash`, `Pause`, `Resume`, `Terminate`, `Restart`, `SendEvent`; `FunctionEnds`, `Write` (the
row), `End` (the instance forgets the run, and restarts that waited go on); `Do`, `Succeed`, `Fail`,
`Retry`; `Sleep`, `Wake`, `GoOn`; `WaitForEvent`, `Hear`; `Pass` (a deadline). "abandon" lets the
function end while steps it called go on; "race" lets somebody ask for something in the few
microtasks between a run's end and the instance forgetting it.

Left out: `createBatch`, payloads, a pause that is taken back in the same turn of the event loop; with
"abandon", steps that a branch the function left behind goes on to call (a step it had called already
goes on); and the one microtask in which a restart without a live run awaits nothing (`workflow.ts:146`):
`Restart` is then one step. Two
restarts at once leave the row at `queued` though a run goes on: nothing says otherwise.

### Scheduler

One thread runs it all, so a handler is one action, but for the two loops handlers end in, whose
steps are actions in which nothing else happens: `Pump` lets one waiting job in, `StopBig` and
`Watch` stop, pause or put out one job. Actions: `Submit`, `Return`, `Timeout`, `Checkpoint`,
`StartRelease`/`EndRelease` (a checkpoint that awaits the job's release), `Interrupt`, `Tick`.
`Finish` is the one way a slot, a place and the memory of a job go; `Park` the one way it steps aside
or is paused. Memory is in units of some MB; the sizes a tick measures are any sizes, but those of
paused jobs don't grow.

Left out: realtime and high jobs (started at once, counted for themselves), the pool of warm workers,
jobs that submit jobs from within their start, the plumbing of `spawn` and `worker`, crons.

## Runs

| Run | Instance | Checks | Shows |
|---|---|---|---|
| `turns` | three agents, one ranked higher, one under two ids of which another may take one; one line; fair timers, edits | `TypeOK LineInOrder RankOrder LeaseWithinCap NoBarging PlacesKept FreshOutOfRest EventuallyServed` | the line is taken in turn, by rank, in any order of asks, renewals, extensions, lapses and timers; leases end, rests are kept by every id of a name, everyone waiting is served or leaves |
| `changes` | a person and an agent; a line at first, two ever; edits, merges, intents, drains, restarts, eviction of the repo | `IndexAgrees ClaimsOnLines AlarmCovers NoBarging FreedGoesOn FreshOutOfRest PlacesKept DrainTakesNoneNew` | claims follow the lines, lines are handed on and rested from whatever ends a claim, and claims, places and the alarm come through a deploy |
| `grantlost` | three agents, one line | `GrantCanBeTaken` violated | finding 1 |
| `circle` | two people under two ids each; two lines | `NoCircle` violated | finding 2 |
| `history` | a writer, a line at most, six revisions; snapshots every two ops, two kept; two commits; forks, wipes, restarts, edits during a hash | `TypeOK EndsWithNow Credited KeepsThePast Swept` | every revision history reaches reads as it was, every edit is credited, the rest goes |
| `apart` | two commands, at the lock at once or not; SIGKILL, second Ctrl-C, at any step | `TypeOK KeptApart StaleGivesWay` | one at a time, until one falls into one of two gaps; stale locks give way |
| `together` | two commands at once | `OneAlchemy` violated | finding 3 |
| `settled` | two messages, batches of two, one retry, one cut each; stops, deaths | `TypeOK CountedDeliveries LeavesFromFlight IsMailbox EventuallySettled` | settled once, after as many deliveries as allowed; a queue is a mailbox |
| `workflows` | a step with one retry, a sleep, a wait; two events, three runs, two restarts; crashes, races | `TypeOK OneRun EventsKept StepsOnce DeadlinesKept QuietWhenStopped RunsEnd` | one run at a time, no step or event twice, nothing begins when stopped, every run ends |
| `revived` | a step and a sleep; a function that ends while the sleep goes on | `EndedStays` violated | finding 4 |
| `slots` | a normal and two low jobs, two slots, room for two units; all that may happen to them | `TypeOK BooksAgree NoIdleRoom RoomForAll` | slots and places go exactly once, room goes to whoever waits, nobody starts where there is none |
| `stuck` | three jobs that may be paused | `TurnAlone` violated | finding 5 |

**Bounds.** Three claimants are the least with someone in front of, and someone behind, a waiter; two
lines, in `changes`, `grantlost` and `circle`, the least on which claims overlap in part. `turns` has one, for its liveness: what
it says of turns, places and ranks is proved for any number of lines and claimants (below). `MaxLine` bounds line ids ever made. Times are the
least with the code's inequalities between them, which `TimeAssumption` names: grants and polls 1,
leases, rests and a quiet waiter's keep 2, caps 3. `MaxCuts` bounds how often a delivery is cut off,
without which a message may be delivered for ever; delays are bounded by the lease.
Two messages fill a batch and leave one behind when they come apart. In `turns` an agent has two
ids and another agent may take one of them, as where a harness runs several agents under one name
(`file-do.ts:64-65`); in `circle` each of two has two. In the other runs each has one (`OwnIds`); the
proofs allow any ids, shared or not.

In `history` six revisions are three snapshots of two ops, one more than are kept, so that one goes;
batches of one op or five (past `KeepSnaps * SnapEvery` at once) give a file its first snapshot early or late.
The one trim that fits makes one sweep, so `MaxSweeps` of 1 delays none. A line at most still tells inserts, sets and
deletes apart, as its id, writer and revision are told. `ListLimit` is out of reach. In `workflows`
two events meet one wait, three runs are a first, one after a crash or a restart, and another. In
`slots` three jobs on two slots are the least with one waiting, sizes go to one unit past the whole
budget, and a window of 2 has runs of hot and cool samples.

Deadlock is checked for claims, history, queues and scheduler, which never stop; commands and instances
end, so the lock's and the workflows' configurations turn it off.

**Fairness.** `LineClaims`: time passes, a due alarm fires, an ask held open ends (`setTimeout`s of
the runtime); no claimant has to do anything, so waiters may go quiet and holders never release.
`StateLock`: a command that has begun goes on through taking the lock (straight-line code); nobody
has to begin, work, release or be killed. `Queue`: time passes, the poll timer runs while there is a
consumer, a handler returns or is stopped, a drained loop takes its next step, a consumer that
stopped or died comes back some time, and, the one strong fairness, a loop that has a batch asked for
again and again is not killed each time before it gets it. Without that the process may die at the
same point for ever, and nothing can be promised. `Workflow`: time passes, a callback returns, throws or
times out, a function that waits for nothing ends, and what follows in the runtime follows; nobody has
to ask for anything, and the function need not call its steps. `FileHistory`: a sweep goes on and an
edit's last deletes are done, weakly, so a restart may always come first; nobody has to edit, and
`Swept` rests on the constructor taking the sweep up again. `Scheduler` has no liveness: whether a job
ends is the job's affair, and `NoIdleRoom` says that nothing else keeps one waiting.

## Findings

1. **A grant may not be claimable** (`grantlost`, `file-do.ts:757`). A waiter granted its lines while
   not asking has a window "to take by claiming again by id" (:83-84). `claim()` asks who is ahead of
   it with `findIndex`, which is -1 for an id no longer in line, and counts everybody in line
   (:825-829): with someone behind it the claim is refused, and with `wait` refused for holding.
2. **Two may wait for each other** (`circle`, `file-do.ts:844`). Who holds lines may not get in line,
   lest "two waiters end up waiting on each other for ever" (:840-842), but that is looked at only when
   it asks. One that is in line under one id may be granted lines under another (`serve`), or lay a
   claim under another (:753-757). Two people who do each end up holding what the other waits for, and
   people's holds have no end. (Leases would end it between agents.)
3. **Two commands get the lock** (`together`, `state.ts:94`). One that looks between another's
   `openSync` and `writeSync` takes the empty file for stale.
4. **A finished instance comes back to `running`** (`revived`, `workflow.ts:254`). A sleep that its
   function left behind (a race, one of several that threw) sets the status when it ends, unless the
   run was paused or stopped; a run that ended is neither, and the next start runs it again.
5. **Everything waits and nothing runs** (`stuck`, `priority.ts:290`). A paused or parked job waits for
   the others' memory, which paused and parked ones hold: two of them keep each other off, and every
   queued job too, though "a job bigger than the whole budget still gets its turn alone" (:287).

What the models also show, and no run is kept for:

- Ranked places are lost by a restart: the line comes back in order of `at`.
- While a file drains, `arm` counts waiters that went quiet and `serve` does nothing: the alarm is set
  for the past until the drain is over (`file-do.ts:904`).
- With several ids of one name, one that is in line when a rest of that name begins is granted the lines
  all the same: `serve` doesn't look at rests (:902-924), which are there for others to get a
  turn (:93-97). Who renews an intent as a hold isn't asked about rests either (:751). `FreshOutOfRest`
  speaks of whoever comes to the lines.
- An intent's renewal may harden it while the file drains; an agent's renewal under its own id is
  refused as soon as anyone waits.
- A SIGKILL between alchemy's start and the end of `noteChild` leaves a lock that names a command that
  is gone, or nobody, while alchemy runs; of two commands that find the same stale lock, the slower one
  removes the lock the faster one has made. These are the two gaps of `StateLock`.
- A batch that is stopped is due again without a look at how often it was delivered: a message whose
  handler always hangs is delivered for ever (`queue.ts:185`). `CountedDeliveries` leaves out `cuts`.
- Edits that come while a commit waits for its hash are in its `rev`, `writers` and published text,
  not in its content (`file-do.ts:438-451`).
- `wipe` deletes what one `list()` returns, at most 10,000 keys off the edge (`storage.ts:45`), where
  the log alone may have 22,000 ops: the rest would meet the next document of that file.
- A stop between a snapshot's puts and its deletes leaks the chunks of the oldest snapshot.

## What is proved

All theorems hold for every value of the constants that satisfies the ASSUMEs of the modules:
any number of people, agents, ids, ranks, lines; any number of commands; any number of messages and
any sizes, delays and times; any writers, ops, snapshot intervals and pages. Where a theorem needs more
of the constants than that, its statement begins with it, and this section says why. They follow from `Init` and `[Next]_vars` alone, no fairness.

**LineClaimsProofs**: `TypeCorrect` (`TypeOK`), `IndexIsRight` (`IndexAgrees`), `ClaimsAreOnLines`
(`ClaimsOnLines`), `LineIsALine` (`LineInOrder`), `AlarmIsSet` (`AlarmCovers`). The inductive
invariant is `IInv == TypeOK /\ Sound(book, doc) /\ Minted`. `Sound` says that the index agrees, that
claims are grounded in the document, that the line is an order and the order of arrival is one too
(a restart replaces the first by the second), and that no id both waits and holds hard (a grant would
lay one claim over another). `Minted` says that lines not yet made are in no claim. Each function on
books has its lemma (`LetGoSound`, `LeaveLine`, `MoveUpSound`, `LaidOK`, `InLineOK`, ...), each action
one made of those. `AlarmCovers` is not part of `Sound`: it is proved after it, from "each handler
arms, or only puts deadlines off" (`Armed`, `PutOff`).

**StateLockProofs**: `LockTypeCorrect` (`TypeOK`), and `LockKeepsApart` (`KeptApart`): for any number of
commands that overlap in any way and are killed or stopped at any step, one at a time is at work, or
one killed command's alchemy, as long as no gap was met. There is no assumption on the commands; what
the theorem adds to finding 3 is that the two gaps are all there is: were a lock removed only while it
still says what was read of it, and alchemy started and noted at once, the lock would hold. The
invariant has two parts. Always: a lock names only who has taken it (`Named`), so whoever it was clear
to remove it from stays gone (`Clear`). Until a gap is met (`LockInv`): one has the lock (`OneHas`), it
says who and whether its alchemy is noted (`Says`), commands that have no lock yet left it alone
(`Fresh`), and a file just made is the lock, empty, and nobody else has it (`Made`). The step that
matters is `Remove`: a lock that says what was read, and that nobody is writing, is nobody's.

**QueueProofs**: `QueueTypeCorrect` (`TypeOK`), `DeliveriesCount` (`CountedDeliveries`),
`SettledInFlight` (`LeavesFromFlight`), and `QueueIsMailbox`: the queue implements `Mailbox`
(`IsMailbox`), step by step. The invariant adds that no round is to deliver what is out or gone
(`Rounds`) and that a message that waits has a delivery left, but for cut-off ones (`Counted`).

**TurnsProofs** stands on the invariant of `LineClaimsProofs`; some of what it proves needs a
hypothesis on the constants, and each hypothesis is one that TLC shows is needed. Ids may be shared and
intents laid in all of it.

| Theorem | Property | Hypothesis | Without it |
|---|---|---|---|
| `FreedLinesGoOn` | `FreedGoesOn` | | |
| `DrainingTakesNone` | `DrainTakesNoneNew` | | |
| `LineByRank` | `RankOrder` | `InOrder`: no restarts, or all ranks equal | a restart orders the line by `at`, so a ranked waiter's place goes |
| `PlacesStay` | `PlacesKept` | `InOrder` | the same |
| `LinesTakenInTurn` | `NoBarging` | `InOrder` | the same: those in front are then others |
| `LeaseEndsWithCap` | `LeaseWithinCap` | `NoRestart` | a start gives a granted waiter its window again (`file-do.ts:210`), past the cap of the claim |
| `RestedFirst` | `FreshOutOfRest` | | |

The runs set the same switches, so that what they check is what is proved. The invariants are `Proper`
(claims are of who minted them, leases within caps) and `Ranks`. Handlers are chains of functions on
books, so the argument is too: each function lets go of lines only to whoever is first in line for
them (`Lets`, `Settles`), keeps the order (`Keeps`), sheds claims and rests only where it says so
(`Sheds`), and a handler does what its parts do. `RestedFirst` needs no invariant about rests: what
lets go and serves brings nobody to a line it wasn't in line for (`SettlesBringNone`), and what lays a
claim or a place has looked at every rest of the name first.

**WorkflowProofs**: `WorkflowTypeCorrect` (`TypeOK`), `RunsAreAlone` (`OneRun`), `DeadlinesStay`
(`DeadlinesKept`) for every instance; `NoEventLost` (`EventsKept`), `StepsRunOnce` (`StepsOnce`),
`StoppedIsQuiet` (`QuietWhenStopped`), `WhatEndedStays` (`EndedStays`) if a function awaits what it
called (`Awaits == "abandon" \notin Happens`): finding 4 is that without it they fail. The first
invariant, `IInv`, is about phases: only the last run is going, and an instance that runs knows it.
The second, `JInv`, ties each step of a run to its row: one that a run has behind it is done on the
disk, and only a run that goes on has steps on the way.

**SchedulerProofs**: `SchedulerTypeCorrect` (`TypeOK`), `BooksAlwaysAgree` (`BooksAgree`),
`RoomIsThere` (`RoomForAll`), `NoRoomIdle` (`NoIdleRoom`), for any jobs, slots and sizes. The
invariant is `TypeOK /\ Books /\ Sized`. What makes it long is that memory in use is a sum over jobs,
a recursive function: that it exists (`SumsExist`), what it is when one job's size changes
(`SumChanged`) or one more joins (`SumAppended`), and that it bounds its parts (`SumBound`) is induction,
done by hand: the least number at which it fails (`SetFacts!LeastNumber`) is no such number.

**FileHistoryProofs**: `HistoryTypeCorrect` (`TypeOK`) for every instance; `HistoryEndsWithNow`
(`EndsWithNow`), `HistoryCredits` (`Credited`), and `HistoryIsKept`: a file's object implements `Past`
(`KeepsThePast`), if a wipe gets every key (`WholeWipes`: no wipes, or no more keys than a list has).
Without that what a wipe leaves behind is read as the next document's, which TLC finds at once with a
`ListLimit` of 4. The argument has three layers.

- Data. What an op makes of a document is a document of the next revision, with no more ids than
  revisions, and what the log keeps of the op, replayed, gives the same one (`StepIs`). A batch is
  a chain of such steps (`Chain`, `BatchIs`). `Replay` is a recursive function of a log: it exists
  (`DocsExist`), a log without ops gives what it started from (`ReplayNone`), and one with an op after
  all others gives that op on what the others gave (`ReplayMore`).
- What history reaches. `Logged`: there is an op for each revision after the start of history, none
  past the saved one, none of a base. `Snapped`: the snapshots listed ascend, are there, and history
  starts at the first once it is trimmed. `Ends`: the saved revision reads as the saved document. `Now`: the
  one in memory is the one saved, or the edit's log leads there. `Remembered`: what memory holds beside
  is on the disk, so that a stop at any step loses nothing but the edit. `Dropping`: the snapshot to
  drop isn't listed any more. Of those follows for each action what it does to what can be read: `Save` puts documents
  at the end, each an op further (`SaveReads`), `Snapshot` takes some from the start and the others
  read as before from a snapshot more or less (`SnapshotReads`), and all that deletes only touches what
  no reading uses (`KeptHist`).
- Commits. `Names`: the last commit names whoever edited between its text and its revision, as far as
  history goes. `Awaited`: what a commit read before its hash still holds after it, whatever edits,
  trims and forks came in. An edit before the last commit's revision is then in that one's `writers`, one
  after it in the new one's (`EndCommitCredits`).

**SetFacts**: of some subsets of a finite set one has none of the others in it (`Minimal`,
`MinimalSubset`); of some numbers one is the least (`LeastNumber`), and of some below a bound one is
the greatest (`GreatestNumber`). Induction over the elements of a set is written as
the least counterexample, for the library's induction rules take an operator as a parameter.

**Model-checked only.** Everything temporal under fairness (`EventuallyServed`,
`StaleGivesWay`, `EventuallySettled`, `RunsEnd`, `Swept`): there is no proof of ENABLED here. Every
invariant, action property and refinement that a passing run checks is proved.

## Not modelled, and the plan

Modules that could follow:

1. `DurableObject` (the input gate, alarms, eviction), on which the atomicity of `LineClaims` and the
   edits of `FileHistory` rest. Both take it as given.
2. Two file objects and the Worker's check (`worker.ts:860`, :1081): no circle of waiters across files.
3. `Train` (`apps/codesplitter/src/train.ts`, `packages/util/src/train.ts`), `ThreadRoom`.
4. Chunks of `doc-store.ts` below `FileHistory`.

Not planned: pages, search and statistics (views), bindings that wrap sqlite, the CLI's generation of
files, GitHub and git themselves, native shells, graphics and UI libraries, the other applications
and examples: their states are local, or their difficulty is in data and outside services. They are
most of the repository's lines.

## Running

    tlc -workers 2 -config MCLineClaims_turns.cfg MCLineClaims.tla
    tlapm LineClaimsProofs.tla

Each run takes from a second to three minutes; the proofs of a module up to a few minutes.
