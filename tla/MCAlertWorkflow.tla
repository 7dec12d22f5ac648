-------------------------- MODULE MCAlertWorkflow --------------------------
(* Small instances of AlertWorkflow for TLC: a manager who may be demoted,  *)
(* an analyst who may be removed, and a second analyst.                     *)
EXTENDS AlertWorkflow, TLC

CONSTANTS mia, ann, bob

MCRolesOf == [u \in Users |->
    CASE u = mia -> {"SOC_MANAGER", "SOC_VIEWER"}
      [] u = ann -> {"SOC_TIER_2_ANALYST", NoRole}
      [] u = bob -> {"SOC_TIER_1_ANALYST"}]

SessionSymmetry == Permutations(Sessions)
=============================================================================
