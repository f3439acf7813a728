------------------------------- MODULE Outbox -------------------------------
(***************************************************************************)
(* What the ticket queue promises its user, whatever happens inside:       *)
(*                                                                         *)
(*   a ticket the user asked to have logged, and did not take back, stays  *)
(*   in the queue until a log run has delivered it.                        *)
(*                                                                         *)
(* The promise is at-least-once.  A delivered ticket may come back into    *)
(* the queue and be delivered again.  It is void once the queue file has   *)
(* been torn by a crash in the middle of a write: the file is then         *)
(* unreadable and reads as an empty queue.                                 *)
(***************************************************************************)
CONSTANT Item     \* a ticket on a date

VARIABLES
  owed,       \* asked for by the user and not taken back
  waiting,    \* in the queue
  delivered,  \* logged since it was last asked for
  torn        \* a crash tore the queue file

vars == <<owed, waiting, delivered, torn>>

Init ==
  /\ owed = {}
  /\ waiting = {}
  /\ delivered = {}
  /\ torn = FALSE

(* The user queues S.  Items of S that no running log pass has just        *)
(* delivered are owed anew.  What a pass has meanwhile taken out may come  *)
(* back, nothing goes.                                                     *)
Ask(S) ==
  /\ owed' = owed \cup S
  /\ waiting \cup S \subseteq waiting'
  /\ \E again \in SUBSET S : delivered' = delivered \ again
  /\ UNCHANGED torn

(* The user takes S back. *)
TakeBack(S) ==
  /\ owed' = owed \ S
  /\ waiting' = waiting \ S
  /\ UNCHANGED <<delivered, torn>>

(* A log run has written S to the timesheets. *)
Deliver(S) ==
  /\ delivered' = delivered \cup S
  /\ UNCHANGED <<owed, waiting, torn>>

(* The program drops S from the queue: only what it has delivered. *)
Settle(S) ==
  /\ S \cap owed \subseteq delivered
  /\ waiting' = waiting \ S
  /\ UNCHANGED <<owed, delivered, torn>>

TearFile ==
  /\ torn' = TRUE
  /\ waiting' = {}
  /\ UNCHANGED <<owed, delivered>>

Next ==
  \/ \E S \in SUBSET Item : Ask(S) \/ TakeBack(S) \/ Deliver(S) \/ Settle(S)
  \/ TearFile

Spec == Init /\ [][Next]_vars

(* Nothing the user is owed is ever missing: it waits, or it was delivered. *)
NothingLost == torn \/ owed \subseteq waiting \cup delivered
=============================================================================
