----------------------------- MODULE MCIngestion -----------------------------
(* Small instances of Ingestion for TLC: an organization with a manager and  *)
(* an analyst, one key of each table, and requests that overlap.             *)
EXTENDS Ingestion, TLC

CONSTANTS f1, f2, mia, ann

MCRoleOf == [u \in Users |-> IF u = mia THEN "SOC_MANAGER" ELSE "SOC_TIER_1_ANALYST"]

\* Event 1 and 2 fall in the same minute, user and address.
MCFpOf == [e \in Events |-> IF e <= 2 THEN f1 ELSE f2]

\* Interchangeable requests.
RequestSymmetry == Permutations(Requests)
=============================================================================
