----------------------------- MODULE MCLineClaims -----------------------------
(* Instances of LineClaims for TLC: who claims, under which ids, at which rank. *)
EXTENDS LineClaims

CONSTANTS pat, x, y,   \* claimants: people or agents
          ip, ix, iy,  \* their ids
          jp, jx       \* second ids of pat's and x's

\* Everyone claims under one id of their own.
OwnIds == [a \in Actors |-> IF a = pat THEN {ip} ELSE IF a = x THEN {ix} ELSE {iy}]
\* x goes under two ids, as a harness does for two of its agents; one of them y may take as well.
SharedIds == [a \in Actors |-> IF a = pat THEN {ip} ELSE IF a = x THEN {ix, iy} ELSE {iy}]
\* pat and x lay claims under a fresh id now and then.
FreshIds == [a \in Actors |-> IF a = pat THEN {ip, jp} ELSE IF a = x THEN {ix, jx} ELSE {iy}]

\* First come first.
Unranked == [a \in Actors |-> 0]
\* y outranks pat and x.
Ranked == [a \in Actors |-> IF a = y THEN 1 ELSE 0]
=============================================================================
