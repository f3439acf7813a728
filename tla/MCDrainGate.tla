----------------------------- MODULE MCDrainGate -----------------------------
(* The daily timer, a button, and the catch-up after a sign-in. *)
EXTENDS DrainGate
=============================================================================
