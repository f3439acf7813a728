--------------------------- MODULE DrainGate_proofs ---------------------------
(***************************************************************************)
(* For any set of callers: the gate excludes, is shut exactly while        *)
(* somebody is inside, and loses a request only through the one window     *)
(* DrainGate names.                                                        *)
(***************************************************************************)
EXTENDS DrainGate, TLAPS

(* Every variable keeps its type. *)
THEOREM TypeCorrect == Spec => []TypeOK
<1>1. Init => TypeOK
  BY DEF Init, TypeOK
<1>2. TypeOK /\ [Next]_vars => TypeOK'
  <2> SUFFICES ASSUME TypeOK, [Next]_vars PROVE TypeOK'
    OBVIOUS
  <2> USE DEF TypeOK
  <2>1. ASSUME NEW c \in Callers, Request(c) PROVE TypeOK'
    BY <2>1 DEF Request
  <2>2. ASSUME NEW c \in Callers, Win(c) PROVE TypeOK'
    BY <2>2 DEF Win
  <2>3. ASSUME NEW c \in Callers, Lose(c) PROVE TypeOK'
    BY <2>3 DEF Lose
  <2>4. ASSUME NEW c \in Callers, Flag(c) PROVE TypeOK'
    BY <2>4 DEF Flag, Awake
  <2>5. ASSUME NEW c \in Callers, Leave(c) PROVE TypeOK'
    BY <2>5 DEF Leave
  <2>6. ASSUME NEW c \in Callers, GoAgain(c) PROVE TypeOK'
    BY <2>6 DEF GoAgain
  <2>7. CASE UNCHANGED vars
    BY <2>7 DEF vars
  <2> QED
    BY <2>1, <2>2, <2>3, <2>4, <2>5, <2>6, <2>7 DEF Next, Step
<1> QED
  BY <1>1, <1>2, PTL DEF Spec

(* Mutual exclusion needs to know what the gate says: it is inductive only *)
(* together with ShutIffInside.                                            *)
GateInv == OneDrainAtATime /\ ShutIffInside

LEMMA GateInvHolds == Spec => []GateInv
<1>1. Init => GateInv
  BY DEF Init, GateInv, OneDrainAtATime, ShutIffInside
<1>2. TypeOK /\ GateInv /\ [Next]_vars => GateInv'
  <2> SUFFICES ASSUME TypeOK, GateInv, [Next]_vars PROVE GateInv'
    OBVIOUS
  <2> USE DEF TypeOK, GateInv, OneDrainAtATime, ShutIffInside
  <2>1. ASSUME NEW c \in Callers, Request(c) PROVE GateInv'
    BY <2>1 DEF Request
  <2>2. ASSUME NEW c \in Callers, Win(c) PROVE GateInv'
    BY <2>2 DEF Win
  <2>3. ASSUME NEW c \in Callers, Lose(c) PROVE GateInv'
    BY <2>3 DEF Lose
  <2>4. ASSUME NEW c \in Callers, Flag(c) PROVE GateInv'
    BY <2>4 DEF Flag
  <2>5. ASSUME NEW c \in Callers, Leave(c) PROVE GateInv'
    BY <2>5 DEF Leave
  <2>6. ASSUME NEW c \in Callers, GoAgain(c) PROVE GateInv'
    BY <2>6 DEF GoAgain
  <2>7. CASE UNCHANGED vars
    BY <2>7 DEF vars
  <2> QED
    BY <2>1, <2>2, <2>3, <2>4, <2>5, <2>6, <2>7 DEF Next, Step
<1> QED
  BY <1>1, <1>2, TypeCorrect, PTL DEF Spec

(* However many callers race for _draining, at most one log run is inside. *)
THEOREM MutualExclusion == Spec => []OneDrainAtATime
<1>1. GateInv => OneDrainAtATime
  BY DEF GateInv
<1> QED
  BY <1>1, GateInvHolds, PTL

(* _draining is 1 exactly while a log run is inside. *)
THEOREM NeverLeftShut == Spec => []ShutIffInside
<1>1. GateInv => ShutIffInside
  BY DEF GateInv
<1> QED
  BY <1>1, GateInvHolds, PTL

(* A request that met a running drain always has somebody to serve it, up  *)
(* to the one late flag.                                                   *)
THEOREM RequestsInGoodHands == Spec => []InGoodHands
<1>1. Init => InGoodHands
  BY DEF Init, InGoodHands
<1>2. TypeOK /\ InGoodHands /\ [Next]_vars => InGoodHands'
  <2> SUFFICES ASSUME TypeOK, InGoodHands, [Next]_vars PROVE InGoodHands'
    OBVIOUS
  <2> USE DEF TypeOK, InGoodHands
  <2>1. ASSUME NEW c \in Callers, Request(c) PROVE InGoodHands'
    BY <2>1 DEF Request
  <2>2. ASSUME NEW c \in Callers, Win(c) PROVE InGoodHands'
    BY <2>2 DEF Win
  <2>3. ASSUME NEW c \in Callers, Lose(c) PROVE InGoodHands'
    <3>1. pc'[c] = "join"
      BY <2>3 DEF Lose
    <3> QED
      BY <3>1
  <2>4. ASSUME NEW c \in Callers, Flag(c) PROVE InGoodHands'
    <3>1. CASE \E e \in Callers : Awake(e)
      <4>1. PICK e \in Callers : Awake(e)
        BY <3>1
      <4>2. pc'[e] = pc[e]
        BY <2>4, <4>1 DEF Flag, Awake
      <4> QED
        BY <2>4, <4>1, <4>2 DEF Flag, Awake
    <3>2. CASE ~\E e \in Callers : Awake(e)
      BY <2>4, <3>2 DEF Flag
    <3> QED
      BY <3>1, <3>2
  <2>5. ASSUME NEW c \in Callers, Leave(c) PROVE InGoodHands'
    BY <2>5 DEF Leave
  <2>6. ASSUME NEW c \in Callers, GoAgain(c) PROVE InGoodHands'
    BY <2>6 DEF GoAgain
  <2>7. CASE UNCHANGED vars
    BY <2>7 DEF vars
  <2> QED
    BY <2>1, <2>2, <2>3, <2>4, <2>5, <2>6, <2>7 DEF Next, Step
<1> QED
  BY <1>1, <1>2, TypeCorrect, PTL DEF Spec
=============================================================================
