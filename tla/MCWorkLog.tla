------------------------------- MODULE MCWorkLog -------------------------------
(* Morning, three o'clock (LOG_TIME, in one run), and six o'clock, when    *)
(* HRM takes the whole day.                                                *)
EXTENDS WorkLog

CONSTANTS a, b

Clock == {540, 900, 1080}
Evening == {540, 1080}

(* The other lists are these with the two tickets renamed. *)
SomeLists == {<<a>>, <<a, b>>}
=============================================================================
