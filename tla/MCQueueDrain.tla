----------------------------- MODULE MCQueueDrain -----------------------------
(* Two dates, so that a run can log one entry and keep the other, and two   *)
(* tickets.                                                                 *)
EXTENDS QueueDrain
=============================================================================
