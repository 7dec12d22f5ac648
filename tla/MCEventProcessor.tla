------------------------- MODULE MCEventProcessor -------------------------
(* Small instances of EventProcessor for TLC: the fingerprint of an event  *)
(* and which events may parse or fail, chosen so that two events of a      *)
(* batch share a fingerprint and the kinds of events meet in one batch.    *)
EXTENDS EventProcessor

CONSTANTS f1, f2

\* Event 1 and 2 fall in the same minute, user and address.
MCFpOf == [e \in Events |-> IF e <= 2 THEN f1 ELSE f2]
=============================================================================
