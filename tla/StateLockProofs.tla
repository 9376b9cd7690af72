---------------------------- MODULE StateLockProofs ----------------------------
(***************************************************************************)
(* The state lock keeps commands apart, for any number of them, however    *)
(* they overlap and whenever they are killed or stopped, until a lock is   *)
(* removed that somebody was writing or had written since it was looked    *)
(* at, or a command is killed before it noted its alchemy.                 *)
(***************************************************************************)
EXTENDS StateLock, TLAPS

\* Who has the lock, and hasn't given it back: at work, or about to release it.
Has(p) == AtWork(p) \/ pc[p] \in Releasing

\* Whoever a lock names, and whoever a command has read of, has taken the lock.
Named ==
  \A q \in Procs : pc[q] \in {"start"} \cup Taking =>
    /\ \A i \in Inode : text[i].pid # q
    /\ \A p \in Procs : held[p].pid # q

\* A command about to remove a lock has seen nobody in it that uses it, and nobody has come back since.
Clear(p) == pc[p] = "remove" => ~InUse(p)

\* A command that hasn't made its file yet has made none, and none starts alchemy before it has the lock.
Fresh(p) ==
  /\ pc[p] \in {"start"} \cup (Taking \ {"write"}) => text[<<p, "lock">>] = Blank /\ path # <<p, "lock">>
  /\ pc[p] \in {"start", "hold"} \cup Taking => child[p] = "none"

\* The lock says who has it, and that its alchemy runs once it has noted that.
Says(p) ==
  Has(p) =>
    /\ path # None
    /\ pc[p] = "renote" => fd[p] = path /\ text[path] = Blank
    /\ pc[p] # "renote" => text[path].pid = p
    /\ pc[p] \notin Noting /\ child[p] = "running" => text[path].child

\* The file a command has made is there, and empty, till it writes it, and nobody has the lock.
Made(p) ==
  pc[p] = "write" =>
    /\ fd[p] = <<p, "lock">> /\ path = fd[p]
    /\ text[path] = Blank
    /\ \A q \in Procs : ~Has(q)

\* One has it.
OneHas == \A p, q \in Procs : Has(p) /\ Has(q) => p = q

LockInv == OneHas /\ \A p \in Procs : Fresh(p) /\ Says(p) /\ Made(p)

IInv ==
  /\ TypeOK
  /\ Named
  /\ \A p \in Procs : Clear(p)
  /\ gaps = {} => LockInv
-----------------------------------------------------------------------------
\* Nobody has the lock and nothing is written before the first command begins.
LEMMA InitOK == Init => IInv
<1> SUFFICES ASSUME Init PROVE IInv
  OBVIOUS
<1>1. TypeOK
  BY DEF Init, TypeOK, Text, Blank
<1>2. Named
  BY NoneIsNone DEF Init, Named, Blank
<1>3. \A p \in Procs : ~Has(p) /\ pc[p] = "start"
  BY DEF Init, Has, AtWork, Working, Noting, Releasing
<1>4. ASSUME NEW p \in Procs PROVE Fresh(p)
  <2>1. <<p, "lock">> \in Inode
    BY DEF Inode
  <2> QED BY <2>1, NoneIsNone DEF Init, Fresh
<1>5. LockInv
  BY <1>3, <1>4 DEF LockInv, OneHas, Says, Made
<1> QED BY <1>1, <1>2, <1>3, <1>5 DEF IInv, Clear

\* The shape of the state, action by action.
LEMMA TypeStep == TypeOK /\ [Next]_vars => TypeOK'
<1> SUFFICES ASSUME TypeOK, [Next]_vars PROVE TypeOK'
  OBVIOUS
<1> USE DEF TypeOK, Taking, Working, Noting, Releasing, Gap, Goto, Meets
<1>1. ASSUME NEW p \in Procs, Begin(p) PROVE TypeOK'
  BY <1>1 DEF Begin
<1>2. ASSUME NEW p \in Procs, Open(p) PROVE TypeOK'
  BY <1>2 DEF Open, Inode
<1>3. ASSUME NEW p \in Procs, Read(p) PROVE TypeOK'
  BY <1>3 DEF Read, Text, Blank
<1>4. ASSUME NEW p \in Procs, Check(p) PROVE TypeOK'
  BY <1>4 DEF Check
<1>5. ASSUME NEW p \in Procs, Remove(p) PROVE TypeOK'
  BY <1>5 DEF Remove
<1>6. ASSUME NEW p \in Procs, Write(p) PROVE TypeOK'
  BY <1>6 DEF Write, Text, Blank, Names
<1>7. ASSUME NEW p \in Procs, Spawn(p) PROVE TypeOK'
  BY <1>7 DEF Spawn
<1>8. ASSUME NEW p \in Procs, NoteRead(p) PROVE TypeOK'
  BY <1>8 DEF NoteRead
<1>9. ASSUME NEW p \in Procs, NoteOpen(p) PROVE TypeOK'
  <2>1. path' \in Inode
    BY <1>9 DEF NoteOpen, Inode
  <2> QED BY <1>9, <2>1 DEF NoteOpen, Text, Blank
<1>10. ASSUME NEW p \in Procs, NoteWrite(p) PROVE TypeOK'
  BY <1>10 DEF NoteWrite, Text, Noted
<1>11. ASSUME NEW p \in Procs, ChildEnds(p) PROVE TypeOK'
  BY <1>11 DEF ChildEnds
<1>12. ASSUME NEW p \in Procs, Release(p) \/ Kill(p) PROVE TypeOK'
  BY <1>12 DEF Release, Close, Quit, Yield, Unlink, Kill
<1>13. CASE UNCHANGED vars
  BY <1>13 DEF vars
<1> QED
  BY <1>1, <1>2, <1>3, <1>4, <1>5, <1>6, <1>7, <1>8, <1>9, <1>10, <1>11, <1>12, <1>13 DEF Next, Take, Run

\* Type correctness: whatever the commands do, together or apart, the lock and they stay in shape.
THEOREM LockTypeCorrect == Spec => []TypeOK
<1>1. Init => TypeOK
  BY InitOK DEF IInv
<1> QED BY <1>1, TypeStep, PTL DEF Spec
-----------------------------------------------------------------------------
\* A lock names a command only once that has written it, and nobody goes back to taking the lock.
LEMMA NamedStep == TypeOK /\ Named /\ [Next]_vars => Named'
<1> SUFFICES ASSUME TypeOK, Named, [Next]_vars PROVE Named'
  OBVIOUS
<1> USE DEF TypeOK, Named, Taking, Goto
<1>1. ASSUME NEW p \in Procs, Begin(p) \/ Open(p) \/ Check(p) \/ Remove(p) PROVE Named'
  BY <1>1 DEF Begin, Open, Check, Remove
<1>2. ASSUME NEW p \in Procs, Read(p) PROVE Named'
  BY <1>2, NoneIsNone DEF Read, Blank
<1>3. ASSUME NEW p \in Procs, Write(p) PROVE Named'
  BY <1>3, NoneIsNone DEF Write, Blank, Names
<1>4. ASSUME NEW p \in Procs, Spawn(p) \/ NoteRead(p) PROVE Named'
  BY <1>4 DEF Spawn, NoteRead
<1>5. ASSUME NEW p \in Procs, NoteOpen(p) PROVE Named'
  BY <1>5, NoneIsNone DEF NoteOpen, Blank
<1>6. ASSUME NEW p \in Procs, NoteWrite(p) PROVE Named'
  BY <1>6 DEF NoteWrite, Noted
<1>7. ASSUME NEW p \in Procs, ChildEnds(p) \/ Release(p) \/ Kill(p) PROVE Named'
  BY <1>7 DEF ChildEnds, Release, Close, Quit, Yield, Unlink, Kill
<1>8. CASE UNCHANGED vars
  BY <1>8 DEF vars
<1> QED BY <1>1, <1>2, <1>3, <1>4, <1>5, <1>6, <1>7, <1>8 DEF Next, Take, Run

\* A command that is gone doesn't come back, nor does its alchemy: who was seen not to use the lock
\* doesn't use it later.
LEMMA ClearStep ==
  ASSUME TypeOK, Named, \A p \in Procs : Clear(p), [Next]_vars
  PROVE  (\A p \in Procs : Clear(p))'
<1> SUFFICES ASSUME NEW r \in Procs PROVE Clear(r)'
  OBVIOUS
<1> USE DEF TypeOK, Named, Clear, InUse, Alive, Taking, Working, Noting, Releasing, Goto
<1>1. ASSUME NEW p \in Procs, Begin(p) PROVE Clear(r)'
  BY <1>1 DEF Begin, Text
<1>2. ASSUME NEW p \in Procs, Open(p) \/ Read(p) PROVE Clear(r)'
  BY <1>2 DEF Open, Read, Text
<1>3. ASSUME NEW p \in Procs, Check(p) PROVE Clear(r)'
  BY <1>3 DEF Check, Text
<1>4. ASSUME NEW p \in Procs, Remove(p) \/ Write(p) PROVE Clear(r)'
  BY <1>4 DEF Remove, Write, Text
<1>5. ASSUME NEW p \in Procs, Spawn(p) PROVE Clear(r)'
  BY <1>5 DEF Spawn, Text
<1>6. ASSUME NEW p \in Procs, NoteRead(p) \/ NoteOpen(p) \/ NoteWrite(p) PROVE Clear(r)'
  BY <1>6 DEF NoteRead, NoteOpen, NoteWrite, Text
<1>7. ASSUME NEW p \in Procs, ChildEnds(p) \/ Release(p) \/ Kill(p) PROVE Clear(r)'
  BY <1>7 DEF ChildEnds, Release, Close, Quit, Yield, Unlink, Kill, Text
<1>8. CASE UNCHANGED vars
  BY <1>8 DEF vars
<1> QED BY <1>1, <1>2, <1>3, <1>4, <1>5, <1>6, <1>7, <1>8 DEF Next, Take, Run
-----------------------------------------------------------------------------
\* LockInv, step by step, from a state in which no gap was met, to one in which none was met yet.
Sound == TypeOK /\ Named /\ (\A p \in Procs : Clear(p)) /\ LockInv

\* A command sets out.
LEMMA BeginStep ==
  ASSUME Sound, NEW p \in Procs, Begin(p), gaps' = {}
  PROVE  LockInv'
<1> USE DEF Begin, Goto
<1>1. TypeOK /\ Named /\ OneHas /\ \A r \in Procs : Clear(r) /\ Fresh(r) /\ Says(r) /\ Made(r)
  BY DEF Sound, LockInv
<1>2. \A q \in Procs : Has(q)' <=> Has(q)
  BY <1>1 DEF TypeOK, Has, AtWork, Taking, Working, Noting, Releasing
<1>3. OneHas'
  BY <1>1, <1>2 DEF OneHas
<1>4. ASSUME NEW r \in Procs PROVE Fresh(r)'
  BY <1>1 DEF TypeOK, Fresh, Taking
<1>5. ASSUME NEW r \in Procs PROVE Says(r)'
  BY <1>1, <1>2 DEF TypeOK, Says, Noting
<1>6. ASSUME NEW r \in Procs PROVE Made(r)'
  BY <1>1, <1>2 DEF TypeOK, Made
<1> QED BY <1>3, <1>4, <1>5, <1>6 DEF LockInv

\* It makes the file, when nobody has the lock, or finds one.
LEMMA OpenStep ==
  ASSUME Sound, NEW p \in Procs, Open(p), gaps' = {}
  PROVE  LockInv'
<1> USE DEF Open, Goto
<1>1. TypeOK /\ Named /\ OneHas /\ \A r \in Procs : Clear(r) /\ Fresh(r) /\ Says(r) /\ Made(r)
  BY DEF Sound, LockInv
<1>2. \A q \in Procs : Has(q)' <=> Has(q)
  BY <1>1 DEF TypeOK, Has, AtWork, Taking, Working, Noting, Releasing
<1>3. text[<<p, "lock">>] = Blank /\ path # <<p, "lock">> /\ child[p] = "none"
  BY <1>1 DEF Fresh, Taking
<1>4. path = None => \A q \in Procs : ~Has(q) /\ pc[q] # "write"
  BY <1>1, NoneIsNone DEF Says, Made, Inode
<1>5. <<p, "lock">> \in Inode /\ None \notin Inode
  BY NoneIsNone DEF Inode
<1>6. OneHas'
  BY <1>1, <1>2 DEF OneHas
<1>7. ASSUME NEW r \in Procs PROVE Fresh(r)'
  BY <1>1 DEF TypeOK, Fresh, Taking
<1>8. ASSUME NEW r \in Procs PROVE Says(r)'
  BY <1>1, <1>2, <1>4 DEF TypeOK, Says, Noting
<1>9. ASSUME NEW r \in Procs PROVE Made(r)'
  BY <1>1, <1>2, <1>3, <1>4, <1>5 DEF TypeOK, Made
<1> QED BY <1>6, <1>7, <1>8, <1>9 DEF LockInv

\* It reads the lock.
LEMMA ReadStep ==
  ASSUME Sound, NEW p \in Procs, Read(p), gaps' = {}
  PROVE  LockInv'
<1> USE DEF Read, Goto
<1>1. TypeOK /\ Named /\ OneHas /\ \A r \in Procs : Clear(r) /\ Fresh(r) /\ Says(r) /\ Made(r)
  BY DEF Sound, LockInv
<1>2. \A q \in Procs : Has(q)' <=> Has(q)
  BY <1>1 DEF TypeOK, Has, AtWork, Taking, Working, Noting, Releasing
<1>3. OneHas'
  BY <1>1, <1>2 DEF OneHas
<1>4. ASSUME NEW r \in Procs PROVE Fresh(r)'
  BY <1>1 DEF TypeOK, Fresh, Taking
<1>5. ASSUME NEW r \in Procs PROVE Says(r)'
  BY <1>1, <1>2 DEF TypeOK, Says, Noting
<1>6. ASSUME NEW r \in Procs PROVE Made(r)'
  BY <1>1, <1>2 DEF TypeOK, Made
<1> QED BY <1>3, <1>4, <1>5, <1>6 DEF LockInv

\* It is refused, or goes on to remove it.
LEMMA CheckStep ==
  ASSUME Sound, NEW p \in Procs, Check(p), gaps' = {}
  PROVE  LockInv'
<1> USE DEF Check, Goto
<1>1. TypeOK /\ Named /\ OneHas /\ \A r \in Procs : Clear(r) /\ Fresh(r) /\ Says(r) /\ Made(r)
  BY DEF Sound, LockInv
<1>2. \A q \in Procs : Has(q)' <=> Has(q)
  BY <1>1 DEF TypeOK, Has, AtWork, Taking, Working, Noting, Releasing
<1>3. OneHas'
  BY <1>1, <1>2 DEF OneHas
<1>4. ASSUME NEW r \in Procs PROVE Fresh(r)'
  BY <1>1 DEF TypeOK, Fresh, Taking
<1>5. ASSUME NEW r \in Procs PROVE Says(r)'
  BY <1>1, <1>2 DEF TypeOK, Says, Noting
<1>6. ASSUME NEW r \in Procs PROVE Made(r)'
  BY <1>1, <1>2 DEF TypeOK, Made
<1> QED BY <1>3, <1>4, <1>5, <1>6 DEF LockInv

\* It removes a lock that says what it read, and that nobody is writing: nobody has it, for whoever has
\* is named in it, and alive, or killed with its alchemy running and noted.
LEMMA RemoveStep ==
  ASSUME Sound, NEW p \in Procs, Remove(p), gaps' = {}
  PROVE  LockInv'
<1> USE DEF Remove, Goto
<1>1. TypeOK /\ Named /\ OneHas /\ \A r \in Procs : Clear(r) /\ Fresh(r) /\ Says(r) /\ Made(r)
  BY DEF Sound, LockInv
<1>2. \A q \in Procs : Has(q)' <=> Has(q)
  BY <1>1 DEF TypeOK, Has, AtWork, Taking, Working, Noting, Releasing
<1>3. path = None \/ (~BeingWritten /\ text[path] = held[p])
  BY DEF Meets
<1>4. \A q \in Procs : ~Has(q)
  <2> SUFFICES ASSUME NEW q \in Procs, Has(q) PROVE FALSE
    OBVIOUS
  <2>1. path # None /\ text[path] = held[p] /\ pc[q] # "renote"
    BY <1>1, <1>3 DEF Says, BeingWritten
  <2>2. held[p].pid = q
    BY <1>1, <2>1 DEF Says
  <2>3. q # p
    BY DEF Has, AtWork, Working, Noting, Releasing
  <2>4. ~Alive(q) /\ ~(held[p].child /\ child[q] = "running")
    BY <1>1, <2>2, <2>3, NoneIsNone DEF Clear, InUse
  <2>5. pc[q] = "dead" /\ child[q] = "running"
    BY <2>4 DEF Has, AtWork, Alive
  <2> QED BY <1>1, <2>1, <2>4, <2>5 DEF Says, Noting
<1>5. \A q \in Procs : pc[q] # "write"
  BY <1>1, <1>3, NoneIsNone DEF Made, BeingWritten, Inode
<1>6. OneHas'
  BY <1>2, <1>4 DEF OneHas
<1>7. ASSUME NEW r \in Procs PROVE Fresh(r)'
  BY <1>1, NoneIsNone DEF TypeOK, Fresh, Taking, Inode
<1>8. ASSUME NEW r \in Procs PROVE Says(r)'
  BY <1>2, <1>4 DEF Says
<1>9. ASSUME NEW r \in Procs PROVE Made(r)'
  BY <1>1, <1>5 DEF TypeOK, Made
<1> QED BY <1>6, <1>7, <1>8, <1>9 DEF LockInv

\* It writes its name in the file it made, which still is the lock.
LEMMA WriteStep ==
  ASSUME Sound, NEW p \in Procs, Write(p), gaps' = {}
  PROVE  LockInv'
<1> USE DEF Write, Goto
<1>1. TypeOK /\ Named /\ OneHas /\ \A r \in Procs : Clear(r) /\ Fresh(r) /\ Says(r) /\ Made(r)
  BY DEF Sound, LockInv
<1>2. \A q \in Procs : Has(q)' <=> q = p
  BY <1>1 DEF TypeOK, Has, AtWork, Working, Noting, Releasing, Made
<1>3. path = <<p, "lock">> /\ fd[p] = path /\ path # None /\ text[path] = Blank /\ child[p] = "none"
  <2>1. child[p] = "none"
    BY <1>1 DEF Fresh, Taking
  <2>2. <<p, "lock">> \in Inode /\ None \notin Inode
    BY NoneIsNone DEF Inode
  <2> QED BY <1>1, <2>1, <2>2 DEF Made
<1>4. text' = [text EXCEPT ![path] = Names(p)]
  BY <1>3
<1>5. OneHas'
  BY <1>2 DEF OneHas
<1>6. ASSUME NEW r \in Procs PROVE Fresh(r)'
  BY <1>1, <1>3, <1>4 DEF TypeOK, Fresh, Taking
<1>7. ASSUME NEW r \in Procs PROVE Says(r)'
  BY <1>1, <1>2, <1>3, <1>4 DEF TypeOK, Says, Names, Noting
<1>8. ASSUME NEW r \in Procs PROVE Made(r)'
  BY <1>1, <1>3 DEF TypeOK, Made
<1> QED BY <1>5, <1>6, <1>7, <1>8 DEF LockInv

\* It starts alchemy.
LEMMA SpawnStep ==
  ASSUME Sound, NEW p \in Procs, Spawn(p), gaps' = {}
  PROVE  LockInv'
<1> USE DEF Spawn, Goto
<1>1. TypeOK /\ Named /\ OneHas /\ \A r \in Procs : Clear(r) /\ Fresh(r) /\ Says(r) /\ Made(r)
  BY DEF Sound, LockInv
<1>2. \A q \in Procs : Has(q)' <=> Has(q)
  BY <1>1 DEF TypeOK, Has, AtWork, Taking, Working, Noting, Releasing
<1>3. OneHas'
  BY <1>1, <1>2 DEF OneHas
<1>4. ASSUME NEW r \in Procs PROVE Fresh(r)'
  BY <1>1 DEF TypeOK, Fresh, Taking
<1>5. ASSUME NEW r \in Procs PROVE Says(r)'
  BY <1>1, <1>2 DEF TypeOK, Says, Noting
<1>6. ASSUME NEW r \in Procs PROVE Made(r)'
  BY <1>1, <1>2 DEF TypeOK, Made
<1> QED BY <1>3, <1>4, <1>5, <1>6 DEF LockInv

\* It finds its own name in the lock.
LEMMA NoteReadStep ==
  ASSUME Sound, NEW p \in Procs, NoteRead(p), gaps' = {}
  PROVE  LockInv'
<1> USE DEF NoteRead, Goto
<1>1. TypeOK /\ Named /\ OneHas /\ \A r \in Procs : Clear(r) /\ Fresh(r) /\ Says(r) /\ Made(r)
  BY DEF Sound, LockInv
<1>2. \A q \in Procs : Has(q)' <=> Has(q)
  BY <1>1 DEF TypeOK, Has, AtWork, Taking, Working, Noting, Releasing
<1>3. Has(p)
  BY DEF Has, AtWork, Working, Noting, Releasing
<1>4. path # None /\ text[path].pid = p
  BY <1>1, <1>3 DEF Says, Releasing
<1>5. OneHas'
  BY <1>1, <1>2 DEF OneHas
<1>6. ASSUME NEW r \in Procs PROVE Fresh(r)'
  BY <1>1 DEF TypeOK, Fresh, Taking
<1>7. ASSUME NEW r \in Procs PROVE Says(r)'
  BY <1>1, <1>2, <1>4 DEF TypeOK, Says, Noting
<1>8. ASSUME NEW r \in Procs PROVE Made(r)'
  BY <1>1, <1>2 DEF TypeOK, Made
<1> QED BY <1>5, <1>6, <1>7, <1>8 DEF LockInv

\* It empties its own lock.
LEMMA NoteOpenStep ==
  ASSUME Sound, NEW p \in Procs, NoteOpen(p), gaps' = {}
  PROVE  LockInv'
<1> USE DEF NoteOpen, Goto
<1>1. TypeOK /\ Named /\ OneHas /\ \A r \in Procs : Clear(r) /\ Fresh(r) /\ Says(r) /\ Made(r)
  BY DEF Sound, LockInv
<1>2. \A q \in Procs : Has(q)' <=> Has(q)
  BY <1>1 DEF TypeOK, Has, AtWork, Taking, Working, Noting, Releasing
<1>3. Has(p)
  BY DEF Has, AtWork, Working, Noting, Releasing
<1>4. path # None /\ text[path].pid = p
  BY <1>1, <1>3 DEF Says, Releasing
<1>5. \A q \in Procs : (Has(q) => q = p) /\ pc[q] # "write"
  BY <1>1, <1>3 DEF OneHas, Made
<1>6. path' = path /\ text' = [text EXCEPT ![path] = Blank]
  BY <1>4
<1>7. OneHas'
  BY <1>1, <1>2 DEF OneHas
<1>8. ASSUME NEW r \in Procs PROVE Fresh(r)'
  BY <1>1, <1>6 DEF TypeOK, Fresh, Taking
<1>9. ASSUME NEW r \in Procs PROVE Says(r)'
  BY <1>1, <1>2, <1>4, <1>5, <1>6 DEF TypeOK, Says, Noting
<1>10. ASSUME NEW r \in Procs PROVE Made(r)'
  BY <1>1, <1>5 DEF TypeOK, Made
<1> QED BY <1>7, <1>8, <1>9, <1>10 DEF LockInv

\* It notes its alchemy in its own lock.
LEMMA NoteWriteStep ==
  ASSUME Sound, NEW p \in Procs, NoteWrite(p), gaps' = {}
  PROVE  LockInv'
<1> USE DEF NoteWrite, Goto
<1>1. TypeOK /\ Named /\ OneHas /\ \A r \in Procs : Clear(r) /\ Fresh(r) /\ Says(r) /\ Made(r)
  BY DEF Sound, LockInv
<1>2. \A q \in Procs : Has(q)' <=> Has(q)
  BY <1>1 DEF TypeOK, Has, AtWork, Taking, Working, Noting, Releasing
<1>3. Has(p)
  BY DEF Has, AtWork, Working, Noting, Releasing
<1>4. path # None /\ fd[p] = path
  BY <1>1, <1>3 DEF Says
<1>5. \A q \in Procs : (Has(q) => q = p) /\ pc[q] # "write"
  BY <1>1, <1>3 DEF OneHas, Made
<1>6. text' = [text EXCEPT ![path] = Noted(p)]
  BY <1>4
<1>7. OneHas'
  BY <1>1, <1>2 DEF OneHas
<1>8. ASSUME NEW r \in Procs PROVE Fresh(r)'
  BY <1>1, <1>6 DEF TypeOK, Fresh, Taking
<1>9. ASSUME NEW r \in Procs PROVE Says(r)'
  BY <1>1, <1>2, <1>4, <1>5, <1>6 DEF TypeOK, Says, Noted, Noting
<1>10. ASSUME NEW r \in Procs PROVE Made(r)'
  BY <1>1, <1>5 DEF TypeOK, Made
<1> QED BY <1>7, <1>8, <1>9, <1>10 DEF LockInv

\* Alchemy ends.
LEMMA ChildEndsStep ==
  ASSUME Sound, NEW p \in Procs, ChildEnds(p), gaps' = {}
  PROVE  LockInv'
<1> USE DEF ChildEnds, Goto
<1>1. TypeOK /\ Named /\ OneHas /\ \A r \in Procs : Clear(r) /\ Fresh(r) /\ Says(r) /\ Made(r)
  BY DEF Sound, LockInv
<1>2. \A q \in Procs : Has(q)' => Has(q)
  BY <1>1 DEF TypeOK, Has, AtWork, Taking, Working, Noting, Releasing
<1>3. OneHas'
  BY <1>1, <1>2 DEF OneHas
<1>4. ASSUME NEW r \in Procs PROVE Fresh(r)'
  BY <1>1 DEF TypeOK, Fresh, Taking
<1>5. ASSUME NEW r \in Procs PROVE Says(r)'
  BY <1>1, <1>2 DEF TypeOK, Says, Noting
<1>6. ASSUME NEW r \in Procs PROVE Made(r)'
  BY <1>1, <1>2 DEF TypeOK, Made
<1> QED BY <1>3, <1>4, <1>5, <1>6 DEF LockInv

\* It is done with the lock.
LEMMA CloseStep ==
  ASSUME Sound, NEW p \in Procs, Close(p), gaps' = {}
  PROVE  LockInv'
<1> USE DEF Close, Goto
<1>1. TypeOK /\ Named /\ OneHas /\ \A r \in Procs : Clear(r) /\ Fresh(r) /\ Says(r) /\ Made(r)
  BY DEF Sound, LockInv
<1>2. \A q \in Procs : Has(q)' => Has(q)
  BY <1>1 DEF TypeOK, Has, AtWork, Taking, Working, Noting, Releasing
<1>3. OneHas'
  BY <1>1, <1>2 DEF OneHas
<1>4. ASSUME NEW r \in Procs PROVE Fresh(r)'
  BY <1>1 DEF TypeOK, Fresh, Taking
<1>5. ASSUME NEW r \in Procs PROVE Says(r)'
  BY <1>1, <1>2 DEF TypeOK, Says, Noting
<1>6. ASSUME NEW r \in Procs PROVE Made(r)'
  BY <1>1, <1>2 DEF TypeOK, Made
<1> QED BY <1>3, <1>4, <1>5, <1>6 DEF LockInv

\* It gives it back without waiting for alchemy.
LEMMA QuitStep ==
  ASSUME Sound, NEW p \in Procs, Quit(p), gaps' = {}
  PROVE  LockInv'
<1> USE DEF Quit, Goto
<1>1. TypeOK /\ Named /\ OneHas /\ \A r \in Procs : Clear(r) /\ Fresh(r) /\ Says(r) /\ Made(r)
  BY DEF Sound, LockInv
<1>2. \A q \in Procs : Has(q)' => Has(q)
  BY <1>1 DEF TypeOK, Has, AtWork, Taking, Working, Noting, Releasing
<1>3. OneHas'
  BY <1>1, <1>2 DEF OneHas
<1>4. ASSUME NEW r \in Procs PROVE Fresh(r)'
  BY <1>1 DEF TypeOK, Fresh, Taking
<1>5. ASSUME NEW r \in Procs PROVE Says(r)'
  BY <1>1, <1>2 DEF TypeOK, Says, Noting
<1>6. ASSUME NEW r \in Procs PROVE Made(r)'
  BY <1>1, <1>2 DEF TypeOK, Made
<1> QED BY <1>3, <1>4, <1>5, <1>6 DEF LockInv

\* The lock still says its name.
LEMMA YieldStep ==
  ASSUME Sound, NEW p \in Procs, Yield(p), gaps' = {}
  PROVE  LockInv'
<1> USE DEF Yield, Goto
<1>1. TypeOK /\ Named /\ OneHas /\ \A r \in Procs : Clear(r) /\ Fresh(r) /\ Says(r) /\ Made(r)
  BY DEF Sound, LockInv
<1>2. \A q \in Procs : Has(q)' => Has(q)
  BY <1>1 DEF TypeOK, Has, AtWork, Taking, Working, Noting, Releasing
<1>3. Has(p)
  BY DEF Has, AtWork, Working, Noting, Releasing
<1>4. path # None /\ text[path].pid = p
  BY <1>1, <1>3 DEF Says, Releasing
<1>5. OneHas'
  BY <1>1, <1>2 DEF OneHas
<1>6. ASSUME NEW r \in Procs PROVE Fresh(r)'
  BY <1>1 DEF TypeOK, Fresh, Taking
<1>7. ASSUME NEW r \in Procs PROVE Says(r)'
  BY <1>1, <1>2 DEF TypeOK, Says, Noting
<1>8. ASSUME NEW r \in Procs PROVE Made(r)'
  BY <1>1, <1>2 DEF TypeOK, Made
<1> QED BY <1>5, <1>6, <1>7, <1>8 DEF LockInv

\* It removes its own lock, and nobody has it.
LEMMA UnlinkStep ==
  ASSUME Sound, NEW p \in Procs, Unlink(p), gaps' = {}
  PROVE  LockInv'
<1> USE DEF Unlink, Goto
<1>1. TypeOK /\ Named /\ OneHas /\ \A r \in Procs : Clear(r) /\ Fresh(r) /\ Says(r) /\ Made(r)
  BY DEF Sound, LockInv
<1>2. \A q \in Procs : Has(q)' => Has(q)
  BY <1>1 DEF TypeOK, Has, AtWork, Taking, Working, Noting, Releasing
<1>3. Has(p) /\ ~Has(p)'
  BY <1>1 DEF TypeOK, Has, AtWork, Working, Noting, Releasing
<1>4. \A q \in Procs : ~Has(q)' /\ pc[q] # "write"
  BY <1>1, <1>2, <1>3 DEF OneHas, Made
<1>5. OneHas'
  BY <1>4 DEF OneHas
<1>6. ASSUME NEW r \in Procs PROVE Fresh(r)'
  BY <1>1, NoneIsNone DEF TypeOK, Fresh, Taking, Inode
<1>7. ASSUME NEW r \in Procs PROVE Says(r)'
  BY <1>4 DEF Says
<1>8. ASSUME NEW r \in Procs PROVE Made(r)'
  BY <1>1, <1>4 DEF TypeOK, Made
<1> QED BY <1>5, <1>6, <1>7, <1>8 DEF LockInv

\* It is killed, and its alchemy is noted or isn't running.
LEMMA KillStep ==
  ASSUME Sound, NEW p \in Procs, Kill(p), gaps' = {}
  PROVE  LockInv'
<1> USE DEF Kill, Goto
<1>1. TypeOK /\ Named /\ OneHas /\ \A r \in Procs : Clear(r) /\ Fresh(r) /\ Says(r) /\ Made(r)
  BY DEF Sound, LockInv
<1>2. pc[p] \notin Noting \/ child[p] # "running"
  BY DEF Meets
<1>3. \A q \in Procs : Has(q)' => Has(q)
  BY <1>1 DEF TypeOK, Has, AtWork, Taking, Working, Noting, Releasing, Fresh, Alive
<1>4. OneHas'
  BY <1>1, <1>3 DEF OneHas
<1>5. ASSUME NEW r \in Procs PROVE Fresh(r)'
  BY <1>1 DEF TypeOK, Fresh, Taking
<1>6. ASSUME NEW r \in Procs PROVE Says(r)'
  <2>1. CASE r = p
    <3>1. pc'[p] = "dead"
      BY <1>1 DEF TypeOK
    <3>2. Has(p)' => child[p] = "running"
      BY <3>1 DEF Has, AtWork, Working, Noting, Releasing
    <3> QED BY <1>1, <1>2, <1>3, <2>1, <3>1, <3>2 DEF Says, Noting
  <2>2. CASE r # p
    BY <1>1, <1>3, <2>2 DEF TypeOK, Says
  <2> QED BY <2>1, <2>2
<1>7. ASSUME NEW r \in Procs PROVE Made(r)'
  BY <1>1, <1>3 DEF TypeOK, Made
<1> QED BY <1>4, <1>5, <1>6, <1>7 DEF LockInv

\* Every step leaves the invariant true.
LEMMA IInvStep == IInv /\ [Next]_vars => IInv'
<1> SUFFICES ASSUME IInv, [Next]_vars PROVE IInv'
  OBVIOUS
<1>1. TypeOK' /\ Named' /\ (\A p \in Procs : Clear(p))'
  BY TypeStep, NamedStep, ClearStep DEF IInv
<1>2. ASSUME gaps' = {} PROVE LockInv'
  <2>1. gaps \subseteq gaps'
    BY DEF Next, Take, Run, Release, Begin, Open, Read, Check, Remove, Write, Spawn, NoteRead, NoteOpen,
           NoteWrite, ChildEnds, Close, Quit, Yield, Unlink, Kill, Meets, vars
  <2>2. Sound
    BY <1>2, <2>1 DEF IInv, Sound
  <2>3. CASE UNCHANGED vars
    BY <2>2, <2>3 DEF Sound, vars, LockInv, OneHas, Fresh, Says, Made, Has, AtWork
  <2>4. ASSUME NEW p \in Procs, Take(p) PROVE LockInv'
    BY <1>2, <2>2, <2>4, BeginStep, OpenStep, ReadStep, CheckStep, RemoveStep, WriteStep DEF Take
  <2>5. ASSUME NEW p \in Procs, Run(p) \/ ChildEnds(p) PROVE LockInv'
    BY <1>2, <2>2, <2>5, SpawnStep, NoteReadStep, NoteOpenStep, NoteWriteStep, ChildEndsStep DEF Run
  <2>6. ASSUME NEW p \in Procs, Release(p) \/ Kill(p) PROVE LockInv'
    BY <1>2, <2>2, <2>6, CloseStep, QuitStep, YieldStep, UnlinkStep, KillStep DEF Release
  <2> QED BY <2>3, <2>4, <2>5, <2>6 DEF Next
<1> QED BY <1>1, <1>2 DEF IInv

\* One command at a time is at work on the state, or one killed command's alchemy, for any number of
\* commands at the lock at once, killed or stopped at any moment: till the lock is removed by one that
\* looked at it before its owner wrote it, or one is killed before noteChild has noted its alchemy.
THEOREM LockKeepsApart == Spec => []KeptApart
<1>1. Init => IInv
  BY InitOK
<1>2. IInv => KeptApart
  BY DEF IInv, LockInv, OneHas, Has, KeptApart
<1> QED BY <1>1, <1>2, IInvStep, PTL DEF Spec
=============================================================================
