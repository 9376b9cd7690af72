--------------------------------- MODULE Lines ---------------------------------
(***************************************************************************)
(* The lines of a file, and the ops that change them one at a time         *)
(* (apps/codesplitter/src/lines.ts): applying an op to the document, and   *)
(* replaying what the log says of it onto an older one.                    *)
(*                                                                         *)
(* A line's text is told by who wrote it at which rev; ids are numbers.    *)
(***************************************************************************)
EXTENDS Naturals, SequencesExt

CONSTANTS Writers, MaxRev, MaxLines

Line == [id: 1..MaxRev, by: Writers, rev: 1..MaxRev]
Doc == [rev: 0..MaxRev, nextId: 1..(MaxRev + 1), lines: BoundedSeq(Line, MaxLines)]
empty == [rev |-> 0, nextId |-> 1, lines |-> <<>>]

\* Where line id is in lines, 0 if it isn't: after the top, for an insert.
Locate(lines, id) == SelectInSeq(lines, LAMBDA l : l.id = id)

\* The ops that go through on a document: the others leave it as it is.
Ops(d) ==
  LET ids == {l.id : l \in ToSet(d.lines)}
  IN  [kind: {"set", "delete"}, line: ids]
        \cup IF Len(d.lines) < MaxLines THEN [kind: {"insert"}, after: ids \cup {0}] ELSE {}

\* Applied: what the log keeps of an op.
Applied(d, op, by) ==
  [rev |-> d.rev + 1, by |-> by, op |-> op,
   line |-> IF op.kind = "insert" THEN d.nextId ELSE op.line]

\* step, what apply does for each op of a batch.
Step(d, op, by) ==
  LET rev == d.rev + 1
      new(id) == [id |-> id, by |-> by, rev |-> rev]
  IN  IF op.kind = "insert"
      THEN [rev |-> rev, nextId |-> d.nextId + 1,
            lines |-> InsertAt(d.lines, Locate(d.lines, op.after) + 1, new(d.nextId))]
      ELSE LET i == Locate(d.lines, op.line)
           IN  [d EXCEPT !.rev = rev,
                         !.lines = IF op.kind = "set" THEN ReplaceAt(@, i, new(op.line)) ELSE RemoveAt(@, i)]

\* Slip: a replayed set keeps the line's old rev, as if nobody had written it.
SetAt(d, i, a) == [d.lines EXCEPT ![i].by = a.by]

\* The line as its op left it.
Written(d, i, a) == [d.lines EXCEPT ![i] = [id |-> a.line, by |-> a.by, rev |-> a.rev]]

\* One op of the log replayed: the logged ids and revs are forced, and nothing is checked.
Again(d, a) ==
  LET larger(x, y) == IF x > y THEN x ELSE y
      i == Locate(d.lines, IF a.op.kind = "insert" THEN a.op.after ELSE a.line)
  IN  IF a.op.kind = "insert"
      THEN [rev |-> a.rev, nextId |-> larger(d.nextId, a.line + 1),
            lines |-> InsertAt(d.lines, i + 1, [id |-> a.line, by |-> a.by, rev |-> a.rev])]
      ELSE [d EXCEPT !.rev = a.rev,
                     !.lines = CASE a.op.kind = "set" -> IF i = 0 THEN @ ELSE Written(d, i, a)
                                 [] OTHER -> IF i = 0 THEN Front(@) ELSE RemoveAt(@, i)]

\* replay, of a log no longer than it should be: docs[r] is what the ops up to r make.  (Sets of one
\* document: TLC works each one out once.)
Replay(log, from) ==
  LET docs[r \in 0..MaxRev] == IF r = 0 THEN {from}
                               ELSE IF r \in DOMAIN log THEN {Again(d, log[r]) : d \in docs[r - 1]}
                               ELSE docs[r - 1]
  IN  CHOOSE d \in docs[MaxRev] : TRUE
=============================================================================
