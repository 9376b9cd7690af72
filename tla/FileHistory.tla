------------------------------ MODULE FileHistory ------------------------------
(***************************************************************************)
(* The document of one file's Durable Object and its past                  *)
(* (apps/codesplitter/src/file-do.ts): edits with their log, snapshots and *)
(* the trimming of what they make unreachable, commits, forks, eviction of *)
(* its repo, and the process that may stop between any two awaits.         *)
(*                                                                         *)
(* Puts issued without an await between them land together, as doc-store.ts*)
(* (:65) has it.  While a handler waits for its storage no other event is  *)
(* let in, so an edit's steps (`edit`) run in one go or are cut off; the   *)
(* sweep goes on beside the events.  The one await that isn't storage is   *)
(* the hash of a commit: with "slowsha" in Happens, events come in then.   *)
(*                                                                         *)
(* The disk is a function from keys to values, in the order storage lists  *)
(* its keys.  A document is one value (the chunks of doc-store.ts are left *)
(* out).  A definition introduced as a slip is a mistake the code could    *)
(* have made in the definition after it; the specification doesn't use it. *)
(***************************************************************************)
EXTENDS Lines

CONSTANTS
  None,
  SnapEvery, KeepSnaps, OpPage,   \* SNAP_EVERY, KEEP_SNAPS, OP_PAGE
  ListLimit,                      \* how many keys a plain list() returns at most
  Batches,                        \* sizes of the batches of ops
  MaxCommits, MaxSweeps,          \* bounds
  Happens                         \* which of "fork", "wipe", "restart", "slowsha" happen

ASSUME SizesAssumption ==
  /\ {SnapEvery, KeepSnaps, OpPage, ListLimit, MaxRev} \subseteq Nat \ {0}
  /\ {MaxCommits, MaxLines, MaxSweeps} \subseteq Nat /\ Batches \subseteq Nat \ {0}

Rev == 1..MaxRev

\* What a commit says: the rev it has and its writers.  `of` and `carries` are told besides: the rev
\* its text is of, and whose edits, that history still reaches, lie between its text and the last one's.
Commit == [of: 0..MaxRev, rev: 0..MaxRev, writers: SUBSET Writers, carries: SUBSET Writers]

\* A commit waiting for its hash.
Hashing == [n: 1..MaxCommits, since: 0..MaxRev, of: 0..MaxRev, carries: SUBSET [rev: Rev, by: Writers]]

ASSUME NoneIsNone == None \notin Nat \cup Doc \cup Commit \cup Hashing

\* Keys, in the order of their names.
BaseKey == <<1, 0>>
CommitKey(n) == <<2, n>>
CommitsKey == <<3, 0>>
DocKey == <<4, 0>>
OpKey(r) == <<5, r>>
SnapKey(r) == <<6, r>>
SnapsKey == <<7, 0>>
TrimmedKey == <<8, 0>>
Before(j, k) == j[1] < k[1] \/ (j[1] = k[1] /\ j[2] < k[2])

VARIABLES
  disk,                               \* storage
  doc, base, commits, snaps, trimmed, \* the object's memory
  edit,     \* the edit being handled: "idle", "applied", "saved", or "snapped" with the rev of the snapshot to drop
  log,      \* what it applied
  sweeps,   \* sweeps asked for and not done
  hashing   \* the commit waiting for its hash, or None

memory == <<doc, base, commits, snaps, trimmed>>
vars == <<disk, memory, edit, log, sweeps, hashing>>

\* What is put lands together: a set of keys with their values.
Put(puts) ==
  [k \in DOMAIN disk \cup {p[1] : p \in puts} |->
     IF \E p \in puts : p[1] = k THEN (CHOOSE p \in puts : p[1] = k)[2] ELSE disk[k]]
Has(k) == k \in DOMAIN disk
Get(k, otherwise) == IF Has(k) THEN disk[k] ELSE otherwise
Without(keys) == Restrict(disk, DOMAIN disk \ keys)

Idle == edit = [at |-> "idle", drop |-> None]
BaseRev == IF base = None THEN 0 ELSE base.rev

\* ops: the log after rev `since` up to `until`, by rev.
OpsIn(since, until) == [r \in {r \in Rev : Has(OpKey(r)) /\ since < r /\ r <= until} |-> disk[OpKey(r)]]

-----------------------------------------------------------------------------
(* Edits.                                                                  *)

\* apply, of n ops on a document, by one author or by one for each op (a merge).
Batch(d, n) ==
  LET ways[k \in 0..n] ==
        IF k = 0 THEN {[doc |-> d, log |-> <<>>]}
        ELSE UNION {{[doc |-> Step(way.doc, op, by), log |-> Append(way.log, Applied(way.doc, op, by))] :
                       op \in Ops(way.doc), by \in Writers} : way \in ways[k - 1]}
  IN  ways[n]

Edit == /\ Idle
        /\ \E n \in Batches :
             /\ doc.rev + n <= MaxRev
             /\ \E made \in Batch(doc, n) : doc' = made.doc /\ log' = made.log
        /\ edit' = [edit EXCEPT !.at = "applied"]
        /\ UNCHANGED <<disk, base, commits, snaps, trimmed, sweeps, hashing>>

\* The document and the log of the batch, in one go.
Save == /\ edit.at = "applied"
        /\ disk' = Put({<<DocKey, doc>>} \cup {<<OpKey(a.rev), a>> : a \in ToSet(log)})
        /\ edit' = [edit EXCEPT !.at = "saved"]
        /\ log' = <<>>
        /\ UNCHANGED <<memory, sweeps, hashing>>

LastSnap == IF snaps = <<>> THEN BaseRev ELSE Last(snaps)

\* The edit is answered, if it is no time for a snapshot.
Done == /\ edit.at = "saved" /\ doc.rev - LastSnap < SnapEvery
        /\ edit' = [edit EXCEPT !.at = "idle"]
        /\ UNCHANGED <<disk, memory, log, sweeps, hashing>>

\* Slip: one snapshot too many is kept.
OneMore(all) == Len(all) > KeepSnaps + 1

\* Whether the oldest one goes.
TooMany(all) == Len(all) > KeepSnaps

\* Slip: history starts at the snapshot that goes.
FromDrop(all, kept) == Head(all)

\* History starts at the oldest snapshot kept.
From(all, kept) == Head(kept)

\* snapshot, up to where its puts have landed.
Snapshot ==
  LET all == Append(snaps, doc.rev)
      long == snaps = <<>> /\ doc.rev - BaseRev > KeepSnaps * SnapEvery
      drop == IF TooMany(all) THEN Head(all) ELSE None
      kept == IF drop = None THEN all ELSE Tail(all)
  IN  /\ edit.at = "saved" /\ doc.rev - LastSnap >= SnapEvery
      /\ snaps' = kept
      /\ trimmed' = IF drop # None \/ long THEN From(all, kept) ELSE trimmed
      /\ disk' = Put({<<SnapKey(doc.rev), doc>>, <<SnapsKey, kept>>, <<TrimmedKey, trimmed'>>})
      /\ edit' = [at |-> IF drop # None \/ long THEN "snapped" ELSE "idle", drop |-> drop]
      /\ UNCHANGED <<doc, base, commits, log, sweeps, hashing>>

\* ... and its end: the oldest one goes, and a sweep is asked for.
Drop == /\ edit.at = "snapped" /\ sweeps < MaxSweeps
        /\ disk' = Without(IF edit.drop = None THEN {} ELSE {SnapKey(edit.drop)})
        /\ sweeps' = sweeps + 1
        /\ edit' = [at |-> "idle", drop |-> None]
        /\ UNCHANGED <<memory, log, hashing>>

\* sweep, a page of it.
Sweep ==
  LET old == {r \in Rev : Has(OpKey(r)) /\ r <= trimmed}
      page == {r \in old : Cardinality({q \in old : q < r}) < OpPage}
  IN  /\ sweeps > 0
      /\ disk' = Without({OpKey(r) : r \in page})
      /\ sweeps' = IF Cardinality(page) < OpPage THEN sweeps - 1 ELSE sweeps
      /\ UNCHANGED <<memory, edit, log, hashing>>

-----------------------------------------------------------------------------
(* Commits, forks, eviction, restarts.                                     *)

LastCommit == IF commits = 0 THEN None ELSE Get(CommitKey(commits), None)
RevOf(c) == IF c = None THEN 0 ELSE c.rev
Authors(since) == {a.by : a \in Range(OpsIn(since, MaxRev))}
Later(r) == IF r > trimmed THEN r ELSE trimmed

\* commit, up to its hash: the text it is of is read, and its number, and the last commit's rev.
StartCommit ==
  LET last == IF LastCommit = None THEN 0 ELSE LastCommit.of
  IN  /\ Idle /\ hashing = None /\ commits < MaxCommits
      /\ hashing' = [n |-> commits + 1, since |-> RevOf(LastCommit), of |-> doc.rev,
                     carries |-> {[rev |-> a.rev, by |-> a.by] : a \in Range(OpsIn(last, doc.rev))}]
      /\ UNCHANGED <<disk, memory, edit, log, sweeps>>

\* Slip: the first edit since isn't counted.
AfterNext(h) == h.since + 1

\* Where the edits a commit carries start.
Since(h) == h.since

\* ... and its end: the rev the file has then, and who edited since the last commit's.
EndCommit ==
  LET commit == [of |-> hashing.of, rev |-> doc.rev, writers |-> Authors(Later(Since(hashing))),
                 carries |-> {e.by : e \in {h \in hashing.carries : h.rev > trimmed}}]
  IN  /\ Idle /\ hashing # None
      /\ commits' = hashing.n
      /\ disk' = Put({<<CommitKey(hashing.n), commit>>, <<CommitsKey, hashing.n>>})
      /\ hashing' = None
      /\ UNCHANGED <<doc, base, snaps, trimmed, edit, log, sweeps>>

\* Whether an event may start.
Let_in == Idle /\ (hashing = None \/ "slowsha" \in Happens)

Fork == /\ "fork" \in Happens /\ Let_in
        /\ base = None /\ doc.rev = 0
        /\ \E made \in UNION {Batch(empty, n) : n \in Batches \cap Rev} :
             /\ base' = made.doc /\ doc' = made.doc
             /\ disk' = Put({<<BaseKey, made.doc>>, <<DocKey, made.doc>>})
        /\ UNCHANGED <<commits, snaps, trimmed, edit, log, sweeps, hashing>>

\* wipe: the keys storage lists are deleted, and the object forgets everything.  (Not while a
\* commit waits for its hash.)
Wipe == /\ "wipe" \in Happens /\ Idle /\ hashing = None
        /\ disk' = Without({k \in DOMAIN disk :
                              Cardinality({j \in DOMAIN disk : Before(j, k)}) < ListLimit})
        /\ doc' = empty /\ base' = None /\ commits' = 0 /\ snaps' = <<>> /\ trimmed' = 0
        /\ UNCHANGED <<edit, log, sweeps, hashing>>

\* Slip: the sweep the object was stopped in isn't picked up.
NotResumed(to) == 0

\* A sweep it was evicted in the middle of picks up where it stopped.
Resumed(to) == IF to > 0 THEN 1 ELSE 0

\* The object is evicted, or its process stops, and it is made again from storage.
Restart ==
  /\ "restart" \in Happens
  /\ doc' = Get(DocKey, empty) /\ base' = Get(BaseKey, None) /\ commits' = Get(CommitsKey, 0)
  /\ snaps' = Get(SnapsKey, <<>>) /\ trimmed' = Get(TrimmedKey, 0)
  /\ edit' = [at |-> "idle", drop |-> None] /\ log' = <<>> /\ hashing' = None
  /\ sweeps' = Resumed(trimmed')
  /\ UNCHANGED disk
-----------------------------------------------------------------------------

Init ==
  /\ disk = [k \in {} |-> None]
  /\ doc = empty /\ base = None /\ commits = 0 /\ snaps = <<>> /\ trimmed = 0
  /\ edit = [at |-> "idle", drop |-> None] /\ log = <<>> /\ sweeps = 0 /\ hashing = None

Next == \/ (Let_in /\ (Edit \/ StartCommit))
        \/ Save \/ Done \/ Snapshot \/ Drop \/ Sweep
        \/ EndCommit \/ Fork \/ Wipe \/ Restart

Spec == Init /\ [][Next]_vars

\* A sweep goes on; nobody has to edit or to ask for anything, and a restart may always come.
FairSpec == Spec /\ WF_vars(Sweep) /\ WF_vars(Drop)

-----------------------------------------------------------------------------
(* What should hold.                                                       *)

\* The shape of the state: no more snapshots than are kept.
TypeOK ==
  /\ {doc, Get(DocKey, empty)} \subseteq Doc /\ base \in Doc \cup {None}
  /\ commits \in 0..MaxCommits
  /\ snaps \in BoundedSeq(Rev, KeepSnaps) /\ trimmed \in 0..MaxRev
  /\ edit.at \in {"idle", "applied", "saved", "snapped"}
  /\ \A n \in 1..MaxCommits : Get(CommitKey(n), None) \in Commit \cup {None}

\* at: time travel to rev, from the last snapshot at or before it, or from the start.
At(rev) ==
  LET upto == {i \in DOMAIN snaps : snaps[i] <= rev}
      snap == IF upto = {} THEN 0 ELSE snaps[Max(upto)]
      from == IF snap # 0 THEN Get(SnapKey(snap), empty) ELSE IF base = None THEN empty ELSE base
  IN  Replay(OpsIn(snap, rev), from)

SavedRev == Get(DocKey, empty).rev
Readable == (IF trimmed > BaseRev THEN trimmed ELSE BaseRev)..SavedRev

History == INSTANCE Past WITH past <- [r \in Readable |-> At(r)]

\* "The doc as it was at rev" (`at`): every document history reaches can be read as it was, line by
\* line and blame and all, over snapshots, trims, sweeps, forks and restarts between any two of them.
KeepsThePast == History!Spec

\* The document in memory is the one history ends with, whenever the object answers for it.
EndsWithNow == Idle => doc = Get(DocKey, empty) /\ At(doc.rev) = doc

\* Nobody's edit goes by uncredited, however late a commit reads who edited: each who wrote between
\* the documents of two commits is in the `writers` of the one or of the other.
Credited ==
  \A n \in 1..MaxCommits :
    LET c == Get(CommitKey(n), None)
        p == Get(CommitKey(n - 1), None)
    IN  c # None => c.carries \subseteq c.writers \cup IF p = None THEN {} ELSE p.writers

\* The ops history doesn't reach are all deleted some time: a sweep cut off is picked up.
Swept == []<>(\A r \in 1..trimmed : ~Has(OpKey(r)))
=============================================================================
