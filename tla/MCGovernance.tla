---------------------------- MODULE MCGovernance ----------------------------
(* Small instances of Governance for TLC: ann owns the workspace, alone or   *)
(* with bob, and eve is not a member yet.                                    *)
EXTENDS Governance

CONSTANTS ann, bob, eve

OneOwner == [u \in Users |-> IF u = ann THEN "ORG_OWNER" ELSE "NONE"]

TwoOwners == [u \in Users |-> IF u = eve THEN "NONE" ELSE "ORG_OWNER"]
=============================================================================
