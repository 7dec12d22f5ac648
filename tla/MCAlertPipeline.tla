--------------------------- MODULE MCAlertPipeline ---------------------------
(* Small instances of AlertPipeline for TLC.  A scan raises an alert at once, *)
(* failed logins do when there are two of them.                              *)
EXTENDS AlertPipeline

CONSTANTS login, scan

Thresholds == [r \in Rules |-> IF r = login THEN 2 ELSE 1]

\* A suppression by category, which both rules are in.
OneForBoth == {Rules}

ScanThenLogin == <<{scan}, {login}>>
=============================================================================
