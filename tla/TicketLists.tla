----------------------------- MODULE TicketLists -----------------------------
(***************************************************************************)
(* Lists cut down to some of their positions, in the order they had.       *)
(***************************************************************************)
EXTENDS Integers, Sequences

(* The members of S among 1 .. n, ascending. *)
Positions(n, S) ==
  LET upTo[k \in 0 .. n] ==
        IF k = 0 THEN <<>>
        ELSE IF k \in S THEN Append(upTo[k - 1], k) ELSE upTo[k - 1]
  IN  upTo[n]

At(s, positions) == [k \in DOMAIN positions |-> s[positions[k]]]

(* The list s without the members of drop. *)
Less(s, drop) == At(s, Positions(Len(s), {i \in DOMAIN s : s[i] \notin drop}))
=============================================================================
