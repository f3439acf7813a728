------------------------------ MODULE Letters ------------------------------
(***************************************************************************)
(* What the Teams tab promises about a reply the user wrote: it stays in   *)
(* the reply box until it is in Teams.  A reply may be let go only when    *)
(* the user put another text into the box, or when the view mistakes an    *)
(* older answer for the reply's own (Mislay).                              *)
(***************************************************************************)
CONSTANT Texts

VARIABLES
  box,        \* the text in the reply box, "" when empty
  delivered,  \* the texts that are in Teams
  letGo       \* the texts nothing is promised about any more

vars == <<box, delivered, letGo>>

Boxed == {box} \ {""}

Init == box = "" /\ delivered = {} /\ letGo = {}

\* The user writes a new text; the one it replaces is let go.
Write(t) ==
  /\ t \notin Boxed \cup delivered \cup letGo
  /\ box' = t /\ letGo' = letGo \cup Boxed
  /\ UNCHANGED delivered

\* A text put into the box while the one before it is being sent.
Interrupt(t) ==
  /\ t \notin Boxed \cup delivered \cup letGo
  /\ box' = t /\ letGo' = letGo \cup Boxed \cup {t}
  /\ UNCHANGED delivered

\* Only what was written can reach Teams.
Deliver(t) ==
  /\ t \in Boxed \cup delivered \cup letGo
  /\ delivered' = delivered \cup {t}
  /\ UNCHANGED <<box, letGo>>

\* The box empties of a text that is in Teams.
Clear ==
  /\ box \in delivered \cup letGo
  /\ box' = "" /\ UNCHANGED <<delivered, letGo>>

Mislay ==
  /\ box \in Texts
  /\ box' = "" /\ letGo' = letGo \cup {box}
  /\ UNCHANGED delivered

Next ==
  \/ \E t \in Texts : Write(t) \/ Interrupt(t) \/ Deliver(t)
  \/ Clear \/ Mislay

Spec == Init /\ [][Next]_vars
=============================================================================
