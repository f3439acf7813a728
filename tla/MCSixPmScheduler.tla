--------------------------- MODULE MCSixPmScheduler ---------------------------
(* Two times of day, either of which LOG_TIME may be; the clock shows the  *)
(* target itself, or is past it, or sleeps past the next one as well.      *)
EXTENDS SixPmScheduler

Times == 0 .. 1
=============================================================================
