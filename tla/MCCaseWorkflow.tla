--------------------------- MODULE MCCaseWorkflow ---------------------------
(* Small instances of CaseWorkflow for TLC: a user who is the manager or,   *)
(* demoted, a second-tier analyst, a first-tier analyst he may name, one    *)
(* case, two alerts, one item of each kind.                                 *)
EXTENDS CaseWorkflow, TLC

CONSTANTS mia, ann

MCRolesOf == [u \in Users |->
    IF u = mia THEN {"SOC_MANAGER", "SOC_TIER_2_ANALYST"} ELSE {"SOC_TIER_1_ANALYST"}]

MCAssignedTo == [a \in Alerts |-> mia]

\* Bound: a case has contents only while one of the alerts is as it was created.
Untouched(a) == bin[a] = Live /\ caseOf[a] = NoCase /\ \A s \in Sessions : a \notin Loaded(s)
OneAlertWithContents ==
    (\E c \in Cases : Size(row[c]) > 0) => \E a \in Alerts : Untouched(a)

\* Alerts differ in nothing but their ids.
AlertSymmetry == Permutations(Alerts)
=============================================================================
