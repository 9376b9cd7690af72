---------------------------------- MODULE Past ----------------------------------
(***************************************************************************)
(* What a file promises whoever reads its history: it is the sequence of   *)
(* all its documents from some rev on, each an op away from the one        *)
(* before.  New ones come at its end and old ones go at its start, and no  *)
(* document ever changes, whatever is stored, trimmed, restarted or        *)
(* committed meanwhile.  FileHistory implements it.                        *)
(***************************************************************************)
EXTENDS Lines

VARIABLE past   \* the documents that can be read, by rev

First == CHOOSE r \in DOMAIN past : \A q \in DOMAIN past : r <= q
Latest == CHOOSE r \in DOMAIN past : \A q \in DOMAIN past : q <= r

Init == past = [r \in {0} |-> empty]

Edit == \E upto \in (Latest + 1)..MaxRev :
          /\ DOMAIN past' = First..upto
          /\ \A r \in First..Latest : past'[r] = past[r]
          /\ \A r \in Latest..(upto - 1) :
               \E op \in Ops(past'[r]), by \in Writers : past'[r + 1] = Step(past'[r], op, by)

Trim == \E r \in DOMAIN past : past' = Restrict(past, r..Latest)

\* A branch's copy starts as another file's document.
Fork == /\ past = [r \in {0} |-> empty]
        /\ \E r \in 1..MaxRev : DOMAIN past' = {r} /\ past'[r].rev = r

\* The file is no more.
Forget == past' = [r \in {0} |-> empty]

Next == Edit \/ Trim \/ Fork \/ Forget
Spec == Init /\ [][Next]_past
=============================================================================
