------------------------------ MODULE DrainGate ------------------------------
(***************************************************************************)
(* TrayApp.DrainAsync as a gate: one log run at a time, and a request made *)
(* during a run is folded into one more pass.  The callers are the daily   *)
(* timer (a thread-pool thread) and the user's buttons and the catch-up    *)
(* (the UI thread).  One step is one Interlocked operation.                *)
(***************************************************************************)
CONSTANT Callers

VARIABLES
  draining,       \* TrayApp._draining
  redrainPending, \* TrayApp._redrainPending
  pc,             \* per caller: idle, enter, join, body, again
  unserved,       \* history: callers told "Joined", no pass begun since
  late            \* history: a request was flagged with nobody left to see it

vars == <<draining, redrainPending, pc, unserved, late>>

TypeOK ==
  /\ draining \in BOOLEAN
  /\ redrainPending \in BOOLEAN
  /\ pc \in [Callers -> {"idle", "enter", "join", "body", "again"}]
  /\ unserved \subseteq Callers
  /\ late \in BOOLEAN

Init ==
  /\ draining = FALSE
  /\ redrainPending = FALSE
  /\ pc = [c \in Callers |-> "idle"]
  /\ unserved = {}
  /\ late = FALSE

(* The timer fires, the user clicks "Log queue now", or the catch-up runs. *)
Request(c) ==
  /\ pc[c] = "idle"
  /\ pc' = [pc EXCEPT ![c] = "enter"]
  /\ UNCHANGED <<draining, redrainPending, unserved, late>>

(* CompareExchange(ref _draining, 1, 0) = 0: a pass begins, and its        *)
(* snapshot is read after everything requested so far.                     *)
WinUnchecked(c) ==
  /\ pc[c] = "enter"
  /\ draining' = TRUE
  /\ pc' = [pc EXCEPT ![c] = "body"]
  /\ unserved' = {}
  /\ UNCHANGED <<redrainPending, late>>
Win(c) ==
  /\ pc[c] = "enter"
  /\ ~draining
  /\ draining' = TRUE
  /\ pc' = [pc EXCEPT ![c] = "body"]
  /\ unserved' = {}
  /\ UNCHANGED <<redrainPending, late>>

(* The exchange found 1. *)
LoseUnflagged(c) ==
  /\ pc[c] = "enter"
  /\ draining
  /\ pc' = [pc EXCEPT ![c] = "idle"]
  /\ unserved' = unserved \cup {c}
  /\ UNCHANGED <<draining, redrainPending, late>>
Lose(c) ==
  /\ pc[c] = "enter"
  /\ draining
  /\ pc' = [pc EXCEPT ![c] = "join"]
  /\ unserved' = unserved \cup {c}
  /\ UNCHANGED <<draining, redrainPending, late>>

Awake(e) == pc[e] \in {"enter", "body", "again"}

(* Exchange(ref _redrainPending, 1), and the caller returns "Joined". *)
Flag(c) ==
  /\ pc[c] = "join"
  /\ redrainPending' = TRUE
  /\ late' = (late \/ ~\E e \in Callers : Awake(e))
  /\ pc' = [pc EXCEPT ![c] = "idle"]
  /\ UNCHANGED <<draining, unserved>>

(* The run succeeded, kept entries, timed out or threw: the finally block  *)
(* gives the gate back in every case.                                      *)
Leave(c) ==
  /\ pc[c] = "body"
  /\ draining' = FALSE
  /\ pc' = [pc EXCEPT ![c] = "again"]
  /\ UNCHANGED <<redrainPending, unserved, late>>

(* Exchange(ref _redrainPending, 0): it was 1, and DrainAsync is called    *)
(* once more, or it was 0 and the caller is done.                          *)
GoHome(c) ==
  /\ pc[c] = "again"
  /\ redrainPending' = FALSE
  /\ pc' = [pc EXCEPT ![c] = "idle"]
  /\ UNCHANGED <<draining, unserved, late>>
GoAgain(c) ==
  /\ pc[c] = "again"
  /\ redrainPending' = FALSE
  /\ pc' = [pc EXCEPT ![c] = IF redrainPending THEN "enter" ELSE "idle"]
  /\ UNCHANGED <<draining, unserved, late>>

Step(c) == Win(c) \/ Lose(c) \/ Flag(c) \/ Leave(c) \/ GoAgain(c)

Next == \E c \in Callers : Request(c) \/ Step(c)

(* A thread inside DrainAsync is scheduled and the body ends: it is bounded *)
(* by DrainTimeout.  Nobody has to ask for a drain.                         *)
Spec == Init /\ [][Next]_vars /\ \A c \in Callers : WF_vars(Step(c))

-----------------------------------------------------------------------------
(* Two log runs never overlap: one browser sniff, one snapshot, one set of *)
(* workbook cells at a time.                                               *)
OneDrainAtATime ==
  \A c, e \in Callers : pc[c] = "body" /\ pc[e] = "body" => c = e

(* The gate is shut exactly while somebody is inside: no outcome of a run  *)
(* leaves it shut behind, or opens it under a run.                         *)
ShutIffInside == draining <=> \E c \in Callers : pc[c] = "body"

(* A request that met a running drain is in good hands until a pass begins: *)
(* the flag is up and somebody is still to read it, or somebody is on his   *)
(* way to the gate or to the flag.  The one exception is a flag raised      *)
(* after the last reader has gone.                                          *)
InGoodHands ==
  unserved # {} /\ ~late =>
    \/ redrainPending /\ \E c \in Callers : pc[c] \in {"body", "again"}
    \/ \E c \in Callers : pc[c] \in {"enter", "join"}

(* ... so with that exception a later pass does begin. *)
JoinedIsServedUnlessLate == (unserved # {}) ~> (unserved = {} \/ late)

(* What the comment in DrainAsync says of every request that met a running *)
(* drain: one more pass runs after it.                                     *)
JoinedIsServed == (unserved # {}) ~> (unserved = {})
=============================================================================
