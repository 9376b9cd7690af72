------------------------------- MODULE StateLock -------------------------------
(***************************************************************************)
(* The lock beside an app's shared Alchemy state (packages/cli/src/        *)
(* state.ts, lifecycle.ts): several `rustybuns` commands, from worktrees   *)
(* of one repo, each take it, run alchemy as a child, and give it back.    *)
(*                                                                         *)
(* The lock is a file, and every call on it is a step of its own: other    *)
(* commands run between an open and the write after it, or between a read  *)
(* and what is done about it.  A file is an inode; removing it takes the   *)
(* path away, not the inode, and a write goes to the inode it was opened   *)
(* on.  A command is run once and its pid names no other process.          *)
(*                                                                         *)
(* A definition introduced as a slip is a mistake the code could have made *)
(* in the definition after it; the specification doesn't use it.           *)
(***************************************************************************)

CONSTANTS
  Procs,      \* the commands, by pid
  None,
  Happens     \* which of "kill" (a SIGKILL) and "quit" (a second Ctrl-C, which doesn't wait for
              \* the child) happen

\* What the file says: whose it is, and whether its child is noted.  Blank doesn't parse.
Text == [pid: Procs \cup {None}, child: BOOLEAN]
Blank == [pid |-> None, child |-> FALSE]
Names(p) == [pid |-> p, child |-> FALSE]

\* Slip: the note is written without what was read.
NotedAlone(p) == [child |-> TRUE]

Noted(p) == [pid |-> p, child |-> TRUE]

\* The file lockState makes for p, and the one its noteChild makes if the path is empty.
Inode == Procs \X {"lock", "note"}

ASSUME NoneIsNone == None \notin Procs \cup Inode

VARIABLES
  path,    \* the inode at <base>/lock, None without
  text,    \* what each inode says
  fd,      \* the inode each command has open for writing
  pc,      \* where each command is
  tries,   \* whether lockState has made its first try
  held,    \* what it last read
  child,   \* each command's alchemy: "none", "running", "ended"
  gaps     \* not of the code: the gaps in the lock that commands have fallen into so far

vars == <<path, text, fd, pc, tries, held, child, gaps>>

(***************************************************************************)
(* The lock has two gaps.  gaps remembers which of them were met:          *)
(*   "raced"    a lock was removed that somebody was writing, or had       *)
(*              written since it was looked at;                            *)
(*   "unnoted"  a command was killed when alchemy ran, before it had noted *)
(*              it in the lock.                                            *)
(* No action looks at it.                                                  *)
(***************************************************************************)
Gap == {"raced", "unnoted"}

Taking == {"open", "read", "check", "remove", "write"}
Noting == {"spawned", "truncate", "renote"}
Working == {"hold", "run"} \cup Noting
Releasing == {"yield", "unlink"}
Alive(p) == pc[p] \in Taking \cup Working \cup Releasing

\* Somebody has the file at the path open, and has still to write what it says.
BeingWritten == \E q \in Procs : fd[q] = path /\ pc[q] \in {"write", "renote"}

\* The gap a step falls into, if it does.
Meets(gap, met) == gaps' = IF met THEN gaps \cup {gap} ELSE gaps

Goto(p, at) == pc' = [pc EXCEPT ![p] = at]
-----------------------------------------------------------------------------
(* lockState                                                               *)

Begin(p) ==
  /\ pc[p] = "start"
  /\ Goto(p, "open")
  /\ UNCHANGED <<path, text, fd, tries, held, child, gaps>>

\* openSync(file, "wx")
Open(p) ==
  /\ pc[p] = "open"
  /\ \/ /\ path = None
        /\ path' = <<p, "lock">> /\ fd' = [fd EXCEPT ![p] = path']
        /\ Goto(p, "write")
     \/ /\ path # None
        /\ Goto(p, "read")
        /\ UNCHANGED <<path, fd>>
  /\ UNCHANGED <<text, tries, held, child, gaps>>

\* readFileSync; a file that is gone by now, or doesn't parse, says nothing.
Read(p) ==
  /\ pc[p] = "read"
  /\ held' = [held EXCEPT ![p] = IF path = None THEN Blank ELSE text[path]]
  /\ Goto(p, "check")
  /\ UNCHANGED <<path, text, fd, tries, child, gaps>>

\* Slip: a lock whose command is gone is free.
InUseByPid(p) == held[p].pid \notin {None, p} /\ Alive(held[p].pid)

\* Slip: a lock that doesn't parse is held.
InUseIfTorn(p) ==
  \/ held[p].pid = None
  \/ held[p].pid # p /\ Alive(held[p].pid)
  \/ held[p].child /\ child[held[p].pid] = "running"

\* The command that holds it is alive, or the alchemy it started is.
InUse(p) ==
  /\ held[p].pid # None
  /\ \/ held[p].pid # p /\ Alive(held[p].pid)
     \/ held[p].child /\ child[held[p].pid] = "running"

Check(p) ==
  /\ pc[p] = "check"
  /\ Goto(p, IF InUse(p) THEN "refused" ELSE "remove")
  /\ UNCHANGED <<path, text, fd, tries, held, child, gaps>>

\* rmSync, and round again, once.
Remove(p) ==
  /\ pc[p] = "remove"
  /\ path' = None
  /\ tries' = [tries EXCEPT ![p] = TRUE]
  /\ Meets("raced", path # None /\ (BeingWritten \/ text[path] # held[p]))
  /\ Goto(p, IF tries[p] THEN "refused" ELSE "open")
  /\ UNCHANGED <<text, fd, held, child>>

\* writeSync: over what somebody else wrote into the file meanwhile, neither parses.
Write(p) ==
  /\ pc[p] = "write"
  /\ text' = [text EXCEPT ![fd[p]] = IF @ = Blank THEN Names(p) ELSE Blank]
  /\ Goto(p, "hold")
  /\ UNCHANGED <<path, fd, tries, held, child, gaps>>
-----------------------------------------------------------------------------
(* The command holds the lock: it starts alchemy, and notes its pid.       *)

\* Bun.spawn
Spawn(p) ==
  /\ pc[p] = "hold" /\ child[p] = "none"
  /\ child' = [child EXCEPT ![p] = "running"]
  /\ Goto(p, "spawned")
  /\ UNCHANGED <<path, text, fd, tries, held, gaps>>

\* noteChild reads the lock, and leaves one that isn't its own alone.
NoteRead(p) ==
  /\ pc[p] = "spawned"
  /\ Goto(p, IF path # None /\ text[path].pid = p THEN "truncate" ELSE "run")
  /\ UNCHANGED <<path, text, fd, tries, held, child, gaps>>

\* writeFileSync opens whatever is at the path by now, or makes it, and empties it.
NoteOpen(p) ==
  /\ pc[p] = "truncate"
  /\ path' = IF path = None THEN <<p, "note">> ELSE path
  /\ fd' = [fd EXCEPT ![p] = path']
  /\ text' = [text EXCEPT ![path'] = Blank]
  /\ Goto(p, "renote")
  /\ UNCHANGED <<tries, held, child, gaps>>

NoteWrite(p) ==
  /\ pc[p] = "renote"
  /\ text' = [text EXCEPT ![fd[p]] = Noted(p)]
  /\ Goto(p, "run")
  /\ UNCHANGED <<path, fd, tries, held, child, gaps>>

\* Alchemy ends, by itself or asked to (stopChild waits for it).
ChildEnds(p) ==
  /\ child[p] = "running"
  /\ child' = [child EXCEPT ![p] = "ended"]
  /\ UNCHANGED <<path, text, fd, pc, tries, held, gaps>>

\* Its scope closes: done, failed or interrupted, its child stopped first.
Close(p) ==
  /\ pc[p] \in {"hold", "run"} /\ child[p] # "running"
  /\ Goto(p, "yield")
  /\ UNCHANGED <<path, text, fd, tries, held, child, gaps>>

\* A second Ctrl-C: process.exit, whose "exit" event releases the lock.
Quit(p) ==
  /\ "quit" \in Happens
  /\ pc[p] = "run" /\ child[p] = "running"
  /\ Goto(p, "yield")
  /\ UNCHANGED <<path, text, fd, tries, held, child, gaps>>

\* release: only a lock that names this command.
Yield(p) ==
  /\ pc[p] = "yield"
  /\ Goto(p, IF path # None /\ text[path].pid = p THEN "unlink" ELSE "done")
  /\ UNCHANGED <<path, text, fd, tries, held, child, gaps>>

Unlink(p) ==
  /\ pc[p] = "unlink"
  /\ path' = None
  /\ Goto(p, "done")
  /\ UNCHANGED <<text, fd, tries, held, child, gaps>>

\* SIGKILL: the command is gone, its child and the lock stay.
Kill(p) ==
  /\ "kill" \in Happens
  /\ Alive(p)
  /\ Meets("unnoted", pc[p] \in Noting /\ child[p] = "running")
  /\ Goto(p, "dead")
  /\ UNCHANGED <<path, text, fd, tries, held, child>>
-----------------------------------------------------------------------------
Init ==
  /\ path = None
  /\ text = [i \in Inode |-> Blank]
  /\ fd \in [Procs -> Inode] /\ \A p \in Procs : fd[p] = <<p, "lock">>
  /\ pc = [p \in Procs |-> "start"]
  /\ tries = [p \in Procs |-> FALSE]
  /\ held = [p \in Procs |-> Blank]
  /\ child = [p \in Procs |-> "none"]
  /\ gaps = {}

Take(p) == Begin(p) \/ Open(p) \/ Read(p) \/ Check(p) \/ Remove(p) \/ Write(p)
Run(p) == Spawn(p) \/ NoteRead(p) \/ NoteOpen(p) \/ NoteWrite(p)
Release(p) == Close(p) \/ Quit(p) \/ Yield(p) \/ Unlink(p)

Next == \E p \in Procs : Take(p) \/ Run(p) \/ ChildEnds(p) \/ Release(p) \/ Kill(p)

Spec == Init /\ [][Next]_vars

\* A command that runs goes on; nobody has to start one or to kill one, and alchemy may run for long.
FairSpec == Spec /\ \A p \in Procs : WF_vars(pc[p] # "start" /\ Take(p))
-----------------------------------------------------------------------------
TypeOK ==
  /\ path \in Inode \cup {None}
  /\ text \in [Inode -> Text]
  /\ fd \in [Procs -> Inode]
  /\ pc \in [Procs -> {"start", "refused", "done", "dead"} \cup Taking \cup Working \cup Releasing]
  /\ tries \in [Procs -> BOOLEAN]
  /\ held \in [Procs -> Text]
  /\ child \in [Procs -> {"none", "running", "ended"}]
  /\ gaps \subseteq Gap

\* At work: holding the lock, or killed with its alchemy still running.
AtWork(p) == pc[p] \in Working \/ (pc[p] = "dead" /\ child[p] = "running")

\* The lock is one command's at a time, or its orphan's ("A lock whose process is gone is taken over,
\* unless the alchemy it started (noteChild) is still running", lockState), however commands overlap
\* and whenever they are killed or stopped, until one falls into a gap: there is no third.
KeptApart == gaps = {} => \A p, q \in Procs : AtWork(p) /\ AtWork(q) => p = q

\* "A lock beside it keeps two of them from running Alchemy against it at once" (state.ts).
OneAlchemy == \A p, q \in Procs : child[p] = "running" /\ child[q] = "running" => p = q

\* A lock left by commands that are gone, with no alchemy running, stops nobody that finds it, unless
\* somebody else comes for it too ("A lock whose process is gone is taken over", lockState).
StaleGivesWay ==
  \A p \in Procs :
    /\ pc[p] = "open" /\ ~tries[p]
    /\ \A q \in Procs \ {p} : ~Alive(q) /\ child[q] # "running"
    ~> pc[p] \in Working \cup {"done", "dead"} \/ \E q \in Procs \ {p} : Alive(q)
=============================================================================
