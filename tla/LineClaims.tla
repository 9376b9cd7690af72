------------------------------ MODULE LineClaims ------------------------------
(***************************************************************************)
(* The claims of one file's Durable Object (apps/codesplitter/src/         *)
(* file-do.ts): who holds which lines, who waits in line for them, and how *)
(* holds lapse, rest, drain for a deploy and survive a restart.            *)
(*                                                                         *)
(* The object runs one handler at a time: a handler awaits nothing but its *)
(* own storage, and the input gate keeps other events out meanwhile.  So a *)
(* handler is one action.  The exception is an ask of `wait` held open     *)
(* (`polls`): it opens in one action and ends in another.                  *)
(*                                                                         *)
(* Times are what is left of them.  A stamp `until` of the code is here    *)
(* until - now, no less than 0, and Tick takes one off every one of them.  *)
(*                                                                         *)
(* A definition introduced as a slip is a mistake the code could have made *)
(* in the definition after it; the specification doesn't use it.  Each is  *)
(* there to show which property would notice.                              *)
(***************************************************************************)
EXTENDS Integers, FiniteSets

CONSTANTS
  People, Agents,   \* who claims: "agent-..." names are agents
  Ids,              \* ids of claims and of places in line
  IdsOf,            \* the ids each of them claims under
  RankOf,           \* each one's rank in line (codesplitter-order=rank), 0 without
  None,
  InitLines, MaxLine,   \* lines at first, and the bound on ids ever minted
  GrantMs, PollMs, KeepMs, LeaseMs, RestMs, CapMs, SlackMs,
  Ttls,             \* the ttls a claim may ask for, next to the default
  Softs,            \* whether claims may be intents: {FALSE} or BOOLEAN
  Happens           \* which of "edit", "merge", "drain", "restart", "wipe" happen

Actors == People \cup Agents
Line == 1..MaxLine
Never == CapMs + 1
Min2(x, y) == IF x <= y THEN x ELSE y
Max2(x, y) == IF x >= y THEN x ELSE y

ASSUME PeopleAgents == People \cap Agents = {}
ASSUME IdsAssumption == IdsOf \in [Actors -> SUBSET Ids] /\ IsFiniteSet(Ids)
ASSUME RankAssumption == RankOf \in [Actors -> Nat]
ASSUME LineAssumption == InitLines \in Nat /\ MaxLine \in Nat /\ InitLines <= MaxLine
ASSUME TimeAssumption ==
  /\ {GrantMs, PollMs, KeepMs, LeaseMs, RestMs, CapMs, SlackMs} \subseteq Nat \ {0}
  /\ PollMs < KeepMs /\ GrantMs <= LeaseMs /\ LeaseMs < CapMs
  /\ KeepMs <= CapMs /\ RestMs <= CapMs
ASSUME SoftAssumption == Softs \subseteq BOOLEAN
ASSUME TtlAssumption == Ttls \subseteq 0..CapMs

(***************************************************************************)
(* A claim's `until` is Never for a hold with no ttl, and its `cap` is     *)
(* Never for a person, who has none.  A waiter knows who is in front of it *)
(* (`ahead`, its place in the array) and who came before it (`prior`, the  *)
(* order of the `at` stamps).                                              *)
(***************************************************************************)
Claim == [who: Actors, lines: SUBSET Line, soft: BOOLEAN, grant: BOOLEAN,
          until: 0..Never, cap: 0..Never]
Waiter == [who: Actors, lines: SUBSET Line, seen: 0..KeepMs,
           ahead: SUBSET Ids, prior: SUBSET Ids]
Rest == [who: Actors, lines: SUBSET Line, left: 1..RestMs]

ASSUME NoneIsNone == None \notin Ids \cup Actors \cup Claim \cup Waiter \cup Rest

(***************************************************************************)
(* The object's memory of who has what.  Storage holds claims, rests and   *)
(* waits too, written by the handler that changes them.                    *)
(***************************************************************************)
Book == [claims: [Ids -> Claim \cup {None}],
         claimOf: [Line -> Ids \cup {None}],
         rests: [Ids -> Rest \cup {None}],
         waits: [Ids -> Waiter \cup {None}],
         polls: SUBSET Ids]

VARIABLES
  doc,      \* ids of the lines in the file
  nextId,   \* the next line id to mint
  book,     \* a Book
  alarmAt,  \* when the alarm is set for, Never for null
  drain     \* "off", "soon" (warned), "due" (the warning ran out), "told"

vars == <<doc, nextId, book, alarmAt, drain>>

Standing(b) == {i \in Ids : b.claims[i] # None}
Hard(b) == {i \in Standing(b) : ~b.claims[i].soft}
Lapsed(b) == {i \in Standing(b) : b.claims[i].until = 0}
Waiting(b) == {i \in Ids : b.waits[i] # None}
Draining == drain \in {"due", "told"}

EmptyBook == [claims |-> [i \in Ids |-> None], claimOf |-> [l \in Line |-> None],
              rests |-> [i \in Ids |-> None], waits |-> [i \in Ids |-> None],
              polls |-> {}]

-----------------------------------------------------------------------------
(* What the handlers are made of, each a function from a Book to a Book.   *)

\* What a claim lasts unless it asks for less or more: a lease, or, a person's, till it is lifted.
DefaultTtl(a) == IF a \in Agents THEN LeaseMs ELSE Never

\* An agent's claim that ends within a lease of its cap makes its holder rest.
Tires(c) == c.who \in Agents /\ ~c.soft /\ c.cap <= LeaseMs /\ c.lines # {}

\* Slip: the rest lasts till the claim's cap.
RestTillCap(c) == [who |-> c.who, lines |-> c.lines, left |-> c.cap]

RestOf(c) == [who |-> c.who, lines |-> c.lines, left |-> RestMs]

\* release, up to its first await: the claims of D go.
LetGo(b, D) ==
  [b EXCEPT
    !.claims = [i \in Ids |-> IF i \in D THEN None ELSE b.claims[i]],
    !.claimOf = [l \in Line |-> IF /\ b.claimOf[l] \in D
                                   /\ l \in b.claims[b.claimOf[l]].lines
                                THEN None ELSE b.claimOf[l]],
    !.rests = [i \in Ids |-> IF i \in D /\ Tires(b.claims[i]) THEN RestOf(b.claims[i])
                             ELSE b.rests[i]]]

\* live, as its caller sees it: what lapsed is gone, nobody in line is served yet.
Live(b) == LetGo(b, Lapsed(b))

KeepsOff(c, l) == ~c.soft /\ l \in c.lines

\* index
Index(b, i, c) ==
  [b EXCEPT !.claims = [b.claims EXCEPT ![i] = c],
            !.claimOf = [l \in Line |-> IF KeepsOff(c, l) THEN i ELSE b.claimOf[l]]]

\* unwait, and the answer its held-open ask gets.
Leave(b, D) ==
  [b EXCEPT
    !.waits = [i \in Ids |-> IF i \in D \/ b.waits[i] = None THEN None
                             ELSE [b.waits[i] EXCEPT !.ahead = @ \ D, !.prior = @ \ D]],
    !.polls = b.polls \ (D \cap Waiting(b))]

\* Who is still in line when it is served: someone asking or not yet quiet, for a line that is there.
Stays(b, d, i) == /\ b.waits[i] # None
                  /\ b.waits[i].lines \cap d # {}
                  /\ i \in b.polls \/ b.waits[i].seen > 0

\* Whose turn it is: nobody holds its lines, and nobody ahead of it wants any of them.
Turn(b, d, i) ==
  /\ Stays(b, d, i)
  /\ \A l \in b.waits[i].lines \cap d :
       /\ b.claimOf[l] = None
       /\ \A j \in b.waits[i].ahead : Stays(b, d, j) => l \notin b.waits[j].lines

\* Slip: lines deleted while it waited are granted too.
AsAsked(w, d) == w.lines

\* What is left of the lines a waiter asked for.
ThatAreThere(w, d) == w.lines \cap d

\* The claim a waiter is granted: like any other if it is asking, else for a grant window.
Granted(b, d, i) ==
  LET w == b.waits[i]
  IN  [who |-> w.who, lines |-> ThatAreThere(w, d), soft |-> FALSE, grant |-> i \notin b.polls,
       until |-> IF i \notin b.polls THEN GrantMs ELSE DefaultTtl(w.who),
       cap |-> IF w.who \in Agents THEN CapMs ELSE Never]

\* serve, when it serves: first come first, all whose turn it is at once.
MoveUp(b, d) ==
  LET go == {i \in Ids : Turn(b, d, i)}
      left == {i \in Waiting(b) : ~Stays(b, d, i)} \cup go
      gone == Leave(b, left)
      taker(l) == {i \in go : l \in b.waits[i].lines}
  IN  [gone EXCEPT
        !.claims = [i \in Ids |-> IF i \in go THEN Granted(b, d, i) ELSE b.claims[i]],
        !.claimOf = [l \in Line |-> IF l \in d /\ taker(l) # {}
                                    THEN CHOOSE i \in go : i \in taker(l)
                                    ELSE b.claimOf[l]],
        !.waits = [i \in Ids |-> IF gone.waits[i] = None THEN None
                                 ELSE [gone.waits[i] EXCEPT !.lines = @ \cap d]]]

\* Slip: it serves the line while it drains.
ServeAnyway(b, d) == MoveUp(b, d)

\* serve: a draining file grants nothing.
Serve(b, d) == IF Draining THEN b ELSE MoveUp(b, d)

\* arm: the earliest lapse or quiet waiter.
Due(b) == {b.claims[i].until : i \in Standing(b)} \cup {b.waits[i].seen : i \in Waiting(b)}
            \cup {Never}
\* Slip: quiet waiters don't set the alarm.
ArmForClaims(b) ==
  LET due == {b.claims[i].until : i \in Standing(b)} \cup {Never}
  IN  CHOOSE t \in due : \A u \in due : t <= u

Arm(b) == CHOOSE t \in Due(b) : \A u \in Due(b) : t <= u

\* What live() left to do once its caller awaits: the lapsed claims' lines are served.
Deferred(b, d) == IF Lapsed(book) = {} THEN b ELSE Serve(b, d)
-----------------------------------------------------------------------------
(* POST /claims: what claim() decides, on the book live() left.            *)

\* The claims in the way.
Clash(b, i, want) == {b.claimOf[l] : l \in want} \ {None, i}

\* Slip: findIndex's -1 taken for an index, so the last in line doesn't count.
AheadButLast(b, i, want) ==
  {j \in IF b.waits[i] # None THEN b.waits[i].ahead
         ELSE {j \in Waiting(b) : \E k \in Waiting(b) : j \in b.waits[k].ahead} :
     b.waits[j].lines \cap want # {}}

\* Waiters ahead of waiter i, or all of them for someone not in line, who want any of `want`.
Ahead(b, i, want) ==
  {j \in IF b.waits[i] = None THEN Waiting(b) ELSE b.waits[i].ahead :
     b.waits[j].lines \cap want # {}}

Resting(b, a, want) ==
  \E i \in Ids : b.rests[i] # None /\ b.rests[i].who = a /\ b.rests[i].lines \cap want # {}

\* Slip: rests aren't looked at.
HeardTired(b, a, i, want, soft) ==
  /\ want # {} /\ want \subseteq doc
  /\ b.claims[i] # None => b.claims[i].who = a
  /\ Draining => b.claims[i] # None \/ soft

\* Slip: only the rest its own id left is looked at, not those of its name.
HeardAlone(b, a, i, want, soft) ==
  /\ want # {} /\ want \subseteq doc
  /\ b.claims[i] # None => b.claims[i].who = a
  /\ Draining => b.claims[i] # None \/ soft
  /\ b.claims[i] # None \/ soft \/ ~(b.rests[i] # None /\ b.rests[i].lines \cap want # {})

\* What every claim gets past before it looks at who is in its way.
Heard(b, a, i, want, soft) ==
  LET old == b.claims[i]
  IN  /\ want # {} /\ want \subseteq doc
      /\ old # None => old.who = a
      /\ Draining => old # None \/ soft
      /\ old # None \/ soft \/ ~Resting(b, a, want)

\* Whether a claim is laid, and not refused or sent to the line.  A person who
\* doesn't ask to wait goes before those in line.
MayLay(b, a, i, want, soft) ==
  /\ Heard(b, a, i, want, soft)
  /\ soft \/ /\ Clash(b, i, want) = {}
             /\ a \in People \/ Ahead(b, i, want) = {}

\* An agent's cap stays where it was laid: only a person moves it.
CapOf(a, old) == IF a \in People THEN Never ELSE IF old # None THEN old.cap ELSE CapMs

\* Slip: the ttl asked for is not held to the cap.
AskedFor(ttl, cap) == ttl

AtMost(ttl, cap) == Min2(ttl, cap)

\* The lines of an old claim out of the index.
Off(b, i) ==
  [b EXCEPT !.claimOf = [l \in Line |->
     IF b.claims[i] # None /\ l \in b.claims[i].lines /\ b.claimOf[l] = i
     THEN None ELSE b.claimOf[l]]]

\* A claim is laid, or renewed: its old lines swapped for the new, its place in line given up.
Laid(b, a, i, want, soft, ttl) ==
  LET cap == CapOf(a, b.claims[i])
      c == [who |-> a, lines |-> want, soft |-> soft, grant |-> FALSE,
            until |-> AtMost(ttl, cap), cap |-> cap]
  IN  Leave(Index(Off(b, i), i, c), {i})

\* Slip: the lines a renewal gives up are offered to nobody.
GivesNothing(b, i) == FALSE

\* Whether a claim is a renewal, which may give up lines.
GivesUp(b, i) == b.claims[i] # None

\* claim, when nothing is in its way.
Lay(a, i, want, soft, ttl) ==
  LET b == Live(book)
      laid == Laid(b, a, i, want, soft, ttl)
  IN  /\ MayLay(b, a, i, want, soft)
      /\ book' = IF GivesUp(b, i) THEN Serve(laid, doc) ELSE Deferred(laid, doc)
      /\ alarmAt' = Arm(book')
      /\ UNCHANGED <<doc, nextId, drain>>

\* A person extends an agent's claim past its cap.
Extend(a, i) ==
  LET b == Live(book)
      c == b.claims[i]
      longer == [b EXCEPT !.claims = [b.claims EXCEPT ![i] =
                  [c EXCEPT !.cap = CapMs, !.until = Max2(c.until, LeaseMs)]]]
  IN  /\ a \in People /\ c # None
      /\ c.who \in Agents
      /\ book' = Deferred(longer, doc)
      /\ alarmAt' = Arm(book')
      /\ UNCHANGED <<doc, nextId, drain>>

\* Slip: it steps ahead of its equals too.
NoHigher(b, a) == {j \in Waiting(b) : RankOf[b.waits[j].who] <= RankOf[a]}

Lower(b, a) == {j \in Waiting(b) : RankOf[b.waits[j].who] < RankOf[a]}

\* A new waiter steps ahead of waiters of lower rank, behind its equals.
Joined(b, a, i, want) ==
  LET lower == Lower(b, a)
      behind == {k \in Waiting(b) : k \in lower \/ lower \cap b.waits[k].ahead # {}}
      w == [who |-> a, lines |-> want, seen |-> KeepMs,
            ahead |-> Waiting(b) \ behind, prior |-> Waiting(b)]
  IN  [b EXCEPT !.waits = [j \in Ids |->
         IF j = i THEN w
         ELSE IF j \in behind THEN [b.waits[j] EXCEPT !.ahead = @ \cup {i}] ELSE b.waits[j]]]

\* Slip: every ask joins the line, of whoever is in it too.
JoinedTwice(b, a, i, want) == Joined(b, a, i, want)

\* Slip: asking again costs a waiter its place.
AtBack(b, a, i, want) == Joined(Leave(b, {i}), a, i, want)

\* In line, at the end or in the place one has.
InLine(b, a, i, want) ==
  IF b.waits[i] = None THEN Joined(b, a, i, want)
  ELSE [b EXCEPT !.waits = [b.waits EXCEPT ![i] = [@ EXCEPT !.seen = KeepMs, !.lines = want]]]

\* Someone holding lines here may not wait.
HoldsNone(b, a) == \A j \in Hard(b) : b.claims[j].who # a

\* wait: get in line, or ask again from one's place.  `hold` keeps the ask open.  What live() let
\* go is served while wait stores its place and arms: before the ask is open, or (`late`) after.
Wait(a, i, want, hold, late) ==
  LET b == Live(book)
      line == InLine(b, a, i, want)
      Open(c) == IF hold THEN [c EXCEPT !.polls = c.polls \cup {i}] ELSE c
  IN  /\ Heard(b, a, i, want, FALSE)
      /\ Clash(b, i, want) \cup Ahead(b, i, want) # {}
      /\ HoldsNone(b, a)
      /\ b.waits[i] # None => b.waits[i].who = a
      /\ book' = IF late THEN Deferred(Open(line), doc) ELSE Open(Deferred(line, doc))
      /\ alarmAt' = Arm(book')
      /\ UNCHANGED <<doc, nextId, drain>>

\* A held-open ask runs out, and the waiter counts as having just asked.
PollEnd(i) ==
  /\ i \in book.polls
  /\ book' = [book EXCEPT
                !.polls = @ \ {i},
                !.waits = [j \in Ids |-> IF j = i /\ i \in Waiting(book)
                                         THEN [book.waits[i] EXCEPT !.seen = KeepMs]
                                         ELSE book.waits[j]]]
  /\ UNCHANGED <<doc, nextId, alarmAt, drain>>

\* GET /claims, and every POST /claims that is refused: what lapsed goes.
Look ==
  /\ Lapsed(book) # {}
  /\ book' = Serve(Live(book), doc)
  /\ alarmAt' = Arm(book')
  /\ UNCHANGED <<doc, nextId, drain>>

\* release: a claim is let go or lifted, or a place in line given up.
Release(i) ==
  /\ i \in Standing(book) \cup Waiting(book)
  /\ book' = Serve(IF i \in Standing(book) THEN LetGo(book, {i}) ELSE Leave(book, {i}), doc)
  /\ alarmAt' = Arm(book')
  /\ UNCHANGED <<doc, nextId, drain>>

\* alarm, expire
Alarm ==
  /\ alarmAt = 0
  /\ book' = Serve(Live(book), doc)
  /\ alarmAt' = Arm(book')
  /\ UNCHANGED <<doc, nextId, drain>>
-----------------------------------------------------------------------------
(* Edits.  A batch of one op; None writes for a merge, which claims don't stop. *)

\* held: whether a line is someone else's just now.
HeldOff(a, l, claim) ==
  LET i == book.claimOf[l]
  IN  /\ a # None /\ i # None
      /\ book.claims[i].until > 0
      /\ ~(book.claims[i].who = a /\ (a \in People \/ claim = i))

\* Slip: an edit renews a claim past its cap.
LeaseFromNow(c) == LeaseMs

\* What is left of a claim an edit renews.
RenewTo(c) == Min2(LeaseMs, c.cap)

\* renew
Renews(a, claim) ==
  /\ claim # None
  /\ LET c == book.claims[claim]
     IN  /\ c # None
         /\ c.who = a /\ a \in Agents /\ c.until > 0
         /\ RenewTo(c) - c.until >= SlackMs

Renewed(b, a, claim) ==
  IF Renews(a, claim)
  THEN [b EXCEPT !.claims = [b.claims EXCEPT ![claim] =
          [b.claims[claim] EXCEPT !.until = RenewTo(b.claims[claim])]]]
  ELSE b

\* A line's text is set: only the lease hears of it.
SetLine(a, l, claim) ==
  /\ l \in doc /\ ~HeldOff(a, l, claim) /\ Renews(a, claim)
  /\ book' = Renewed(book, a, claim)
  /\ alarmAt' = Arm(book')
  /\ UNCHANGED <<doc, nextId, drain>>

\* The claims covering a line: the one holding it, and intents.
On(b, l) == {i \in Standing(b) : b.claimOf[l] = i \/ (b.claims[i].soft /\ l \in b.claims[i].lines)}

\* follow, for a deleted line: it leaves the claims on it, and one left empty goes.
DeleteLine(a, l, claim) ==
  LET b == Renewed(book, a, claim)
      less == [b EXCEPT
                !.claims = [i \in Ids |-> IF i \in On(b, l)
                                          THEN [b.claims[i] EXCEPT !.lines = @ \ {l}] ELSE b.claims[i]],
                !.claimOf = [b.claimOf EXCEPT ![l] = None]]
      empty == {i \in On(b, l) : less.claims[i].lines = {}}
  IN  /\ l \in doc /\ ~HeldOff(a, l, claim)
      /\ doc' = doc \ {l}
      /\ book' = IF empty = {} THEN less ELSE Serve(LetGo(less, empty), doc')
      /\ alarmAt' = IF empty # {} \/ Renews(a, claim) THEN Arm(book') ELSE alarmAt
      /\ UNCHANGED <<nextId, drain>>

\* Of the writer's claims a line joins, the one that keeps others off it.
Keeper(b, mine) == IF mine \cap Hard(b) = {} THEN None ELSE CHOOSE i \in mine : i \in Hard(b)

\* follow, for an inserted line: it joins the writer's own claims on the line it goes after.
InsertLine(a, l, claim) ==
  LET b == Renewed(book, a, claim)
      mine == IF l = None THEN {}
              ELSE {i \in On(b, l) : b.claims[i].who = a /\ (a \in People \/ claim = i)}
  IN  /\ nextId <= MaxLine
      /\ l # None => l \in doc /\ ~HeldOff(a, l, claim)
      /\ doc' = doc \cup {nextId}
      /\ nextId' = nextId + 1
      /\ book' = [b EXCEPT
                   !.claims = [i \in Ids |-> IF i \in mine
                                             THEN [b.claims[i] EXCEPT !.lines = @ \cup {nextId}]
                                             ELSE b.claims[i]],
                   !.claimOf = [b.claimOf EXCEPT ![nextId] = Keeper(b, mine)]]
      /\ alarmAt' = IF Renews(a, claim) THEN Arm(book') ELSE alarmAt
      /\ UNCHANGED drain
-----------------------------------------------------------------------------
(* Deploys, restarts, eviction.                                            *)

\* drain {in: seconds}, {cancel: true}, and the warning's timer.
Warn == drain = "off" /\ drain' = "soon" /\ UNCHANGED <<doc, nextId, book, alarmAt>>
WarningOver == drain = "soon" /\ drain' = "due" /\ UNCHANGED <<doc, nextId, book, alarmAt>>
Cancel == drain # "off" /\ drain' = "off" /\ UNCHANGED <<doc, nextId, book, alarmAt>>

\* begin: asks held open are answered "still in line", and count as asked just now.
Begin ==
  /\ drain # "told" /\ drain' = "told"
  /\ book' = [book EXCEPT
                !.polls = {},
                !.waits = [i \in Ids |-> IF i \in book.polls \cap Waiting(book)
                                         THEN [book.waits[i] EXCEPT !.seen = KeepMs]
                                         ELSE book.waits[i]]]
  /\ UNCHANGED <<doc, nextId, alarmAt>>

\* Claims as the constructor reads them back: a grant window cut short starts again.
ReadBack == [i \in Ids |->
  LET c == book.claims[i]
  IN  IF c # None /\ c.grant /\ c.until < GrantMs THEN [c EXCEPT !.until = GrantMs] ELSE c]

\* Slip: claims are read back and not indexed.
HolderUnread(claims, l) == None

\* The claim that indexes a line once they are all read back.
Holder(claims, l) ==
  LET holders == {i \in Ids : claims[i] # None /\ ~claims[i].soft /\ l \in claims[i].lines}
  IN  IF holders = {} THEN None ELSE CHOOSE i \in holders : TRUE

\* Slip: the line is read back latest first.
StoodLatest(i) ==
  IF book.waits[i] = None THEN None
  ELSE [book.waits[i] EXCEPT !.seen = KeepMs,
                             !.ahead = {j \in Waiting(book) : i \in book.waits[j].prior}]

\* A waiter stands in the order they came, and has KeepMs to ask again.
Stood(i) ==
  IF book.waits[i] = None THEN None
  ELSE [book.waits[i] EXCEPT !.seen = KeepMs, !.ahead = book.waits[i].prior]

\* The constructor: everything but storage is gone.
Restart ==
  /\ book' = [book EXCEPT
               !.claims = ReadBack, !.claimOf = [l \in Line |-> Holder(ReadBack, l)],
               !.waits = [i \in Ids |-> Stood(i)], !.polls = {}]
  /\ alarmAt' = Arm(book')
  /\ drain' = "off"
  /\ UNCHANGED <<doc, nextId>>

\* wipe: its repo was evicted.
Wipe ==
  /\ doc' = {} /\ nextId' = 1 /\ book' = EmptyBook /\ alarmAt' = Never
  /\ UNCHANGED drain
-----------------------------------------------------------------------------
Down(t) == IF t \in {0, Never} THEN t ELSE t - 1

\* Time passes.  An ask is held open for PollMs at most; alarms may come late.
Tick ==
  /\ \A i \in book.polls \cap Waiting(book) : book.waits[i].seen > KeepMs - PollMs
  /\ alarmAt' = Down(alarmAt)
  /\ book' = [book EXCEPT
       !.claims = [i \in Ids |-> IF book.claims[i] = None THEN None
                     ELSE [book.claims[i] EXCEPT !.until = Down(@), !.cap = Down(@)]],
       !.rests = [i \in Ids |-> IF book.rests[i] = None \/ book.rests[i].left = 1 THEN None
                    ELSE [book.rests[i] EXCEPT !.left = @ - 1]],
       !.waits = [i \in Ids |-> IF book.waits[i] = None THEN None
                     ELSE [book.waits[i] EXCEPT !.seen = Down(@)]]]
  /\ UNCHANGED <<doc, nextId, drain>>

Init ==
  /\ doc = 1..InitLines /\ nextId = InitLines + 1
  /\ book = EmptyBook /\ alarmAt = Never /\ drain = "off"

Ask(a) ==
  \E i \in IdsOf[a], want \in SUBSET doc :
    \/ \E soft \in Softs, ttl \in Ttls \cup {DefaultTtl(a)} : Lay(a, i, want, soft, ttl)
    \/ \E hold, late \in BOOLEAN : Wait(a, i, want, hold, late)

Edit(a) ==
  \E claim \in IF a = None THEN {None} ELSE IdsOf[a] \cup {None} :
    \/ \E l \in doc : SetLine(a, l, claim) \/ DeleteLine(a, l, claim)
    \/ \E l \in doc \cup {None} : InsertLine(a, l, claim)

Next ==
  \/ \E a \in Actors : Ask(a)
  \/ \E a \in People, i \in Ids : Extend(a, i)
  \/ "edit" \in Happens /\ \E a \in Actors : Edit(a)
  \/ "merge" \in Happens /\ Edit(None)
  \/ \E i \in Ids : PollEnd(i) \/ Release(i)
  \/ Look
  \/ Alarm
  \/ "drain" \in Happens /\ (Warn \/ WarningOver \/ Begin \/ Cancel)
  \/ "restart" \in Happens /\ Restart
  \/ "wipe" \in Happens /\ Wipe
  \/ Tick

Spec == Init /\ [][Next]_vars

\* Timers run: time passes, a due alarm fires, an ask held open ends.  Nobody has to ask.
Fairness == WF_vars(Tick) /\ WF_vars(Alarm) /\ \A i \in Ids : WF_vars(PollEnd(i))
FairSpec == Spec /\ Fairness
-----------------------------------------------------------------------------
(* What should hold.                                                       *)

\* The shape of the state: no lease, cap or place outlives the bounds above.
TypeOK ==
  /\ doc \subseteq Line /\ nextId \in 1..(MaxLine + 1)
  /\ book \in Book
  /\ alarmAt \in 0..Never
  /\ drain \in {"off", "soon", "due", "told"}

\* claimOf is exactly the lines of the claims that keep others off, so "a line is in one claim at
\* most" (Claim, file-do.ts): through renewals, grants, inserts, deletes, lapses and restarts.
IndexAgrees ==
  \A l \in Line, i \in Ids : book.claimOf[l] = i <=> i \in Hard(book) /\ l \in book.claims[i].lines

\* No claim covers a line that is gone, or none at all: `follow` and `serve` keep claims on lines of the file.
ClaimsOnLines == \A i \in Standing(book) : book.claims[i].lines # {} /\ book.claims[i].lines \subseteq doc

\* The line is a line: of two waiters one is ahead, and whoever is ahead of one ahead is ahead.
LineInOrder ==
  \A i, j \in Waiting(book) :
    /\ i \notin book.waits[i].ahead /\ book.waits[i].ahead \subseteq Waiting(book)
    /\ i = j \/ (i \in book.waits[j].ahead <=> j \notin book.waits[i].ahead)
    /\ i \in book.waits[j].ahead => book.waits[i].ahead \subseteq book.waits[j].ahead

\* Nothing lapses unseen: the alarm is set no later than the first lapse or quiet waiter (`arm`).
AlarmCovers == \A t \in Due(book) : alarmAt <= t

\* An agent's claim stands "never past `cap` unless a person extends it" (Claim, file-do.ts).
LeaseWithinCap == \A i \in Standing(book) : book.claims[i].until <= book.claims[i].cap

\* Whether a waiter waits for a line this claimant holds till it lets go.
WaitsOn(i, a) == \E l \in book.waits[i].lines :
  LET k == book.claimOf[l]
  IN  k # None /\ book.claims[k].who = a /\ book.claims[k].until = Never

\* "Someone holding lines here may not wait.  Holding some lines while waiting for others is how two
\* waiters end up waiting on each other for ever" (`wait`): no two of them do.
NoCircle ==
  \A i, j \in Waiting(book) :
    LET a == book.waits[i].who  c == book.waits[j].who
    IN  a # c => ~(WaitsOn(i, c) /\ WaitsOn(j, a))

\* A line a claim lets go of, however it ends, goes straight to whoever's turn it then is
\* (`release`, `claim`); a draining file keeps it free.
FreedGoesOn ==
  [][\A l \in doc', i \in Ids :
       book.claimOf[l] # None /\ book'.claimOf[l] = None /\ ~Draining'
         => ~(Turn(book', doc', i) /\ l \in book'.waits[i].lines)]_vars

\* A waiter granted between asks can take its lines by claiming again by id, in its grant window
\* (Waiter, GRANT_MS).
GrantCanBeTaken ==
  \A i \in Hard(book) :
    LET c == book.claims[i]
    IN  c.grant /\ c.until > 0 => MayLay(Live(book), c.who, i, c.lines, FALSE)

\* A line that changes hands goes to nobody who should have let a waiter ahead of it have it first:
\* agents, and anyone granted a place, take lines in turn (`claim`, `serve`).
NoBarging ==
  [][\A l \in doc, j \in Waiting(book) \cap Waiting(book') :
       LET i == book'.claimOf[l]
       IN  /\ i \notin {None, book.claimOf[l]}
           /\ book'.claims[i].who \in Agents \/ book'.claims[i].grant
           /\ l \in book.waits[j].lines \cap book'.waits[j].lines
           => \/ i \in Waiting(book) /\ j \notin book.waits[i].ahead
              \/ RankOf[book'.claims[i].who] > RankOf[book.waits[j].who]]_vars

\* Two waiters that stay in line stay in that order.
PlacesKept ==
  [][\A i, j \in Waiting(book) \cap Waiting(book') :
       j \in book.waits[i].ahead => j \in book'.waits[i].ahead]_vars

\* Ranked, the line is by rank, and among equals by who came first ("it steps ahead of waiters of
\* lower rank, behind its equals", `wait`): however waiters come, leave and are served.
RankOrder ==
  \A i, j \in Waiting(book) :
    LET r == RankOf[book.waits[i].who]  q == RankOf[book.waits[j].who]
    IN  i \in book.waits[j].ahead <=> r > q \/ (r = q /\ i \in book.waits[j].prior)

\* Whether a book's claim takes a line: it holds it, and isn't a grant a restart read back.
Takes(c, i, l) ==
  c.claimOf[l] = i /\ c.claims[i].until > 0 /\ (i \in Standing(book) => ~c.claims[i].grant)

\* Nobody comes to lines its name rests from: whoever asks for them while it rests, or just as the
\* rest begins, gets neither them nor a place in line for them, under any of its ids.  It "may
\* not claim any of `lines` again till `until`, so whoever waits gets a turn" (Rest, file-do.ts).
\* Whoever has a claim may renew it, and whoever was in line for them already stays so.
FreshOutOfRest ==
  [][\A l \in doc', i \in Ids \ Standing(Live(book)), k \in Ids :
       /\ ~(i \in Waiting(book) /\ l \in book.waits[i].lines)
       /\ book'.rests[k] # None /\ l \in book'.rests[k].lines
       => /\ Takes(book', i, l) => book'.claims[i].who # book'.rests[k].who
          /\ i \in Waiting(book') /\ l \in book'.waits[i].lines
               => book'.waits[i].who # book'.rests[k].who]_vars

\* A draining file "takes no new claims, waiters or leases" (`soon`): whoever had no claim gets
\* none and no place, and nobody in line gets lines.  (Renewals carry on, :748, and one of an intent
\* may still make it a hold, or a place in line.)
DrainTakesNoneNew ==
  [][Draining /\ drain' # "off" =>
       /\ Hard(book') \subseteq Standing(book)
       /\ Waiting(book') \subseteq Waiting(book) \cup Standing(book)]_vars

\* Where only agents claim, nobody waits for ever: leases end at their cap, holders rest, and the
\* line moves up.
EventuallyServed == \A i \in Ids : i \in Waiting(book) ~> i \notin Waiting(book)
=============================================================================
