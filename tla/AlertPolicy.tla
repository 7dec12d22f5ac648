----------------------------- MODULE AlertPolicy -----------------------------
(***************************************************************************)
(* Who may do what to an alert: the decisions of alerts/permissions,       *)
(* role_hierarchy, assignment_policy, locking_policy, lock_utils and       *)
(* status_transitions, on a row of what those functions read of an Alert   *)
(* and on the roles, which Governance changes under the work on alerts.    *)
(***************************************************************************)
EXTENDS Integers

CONSTANTS
    Users,        \* the accounts
    RolesOf,      \* the roles each account may be given here; NoRole: no active membership
    Nobody,       \* a NULL user column
    NoRole,
    LockTimeout   \* LOCK_TIMEOUT_MINUTES, in units of the clock

VARIABLE roleOf   \* get_role_code for this workspace

Analysts == {"SOC_TIER_1_ANALYST", "SOC_TIER_2_ANALYST", "SOC_TIER_3_ANALYST"}
Managers == {"SOC_MANAGER", "ORG_OWNER", "PERSONAL_OWNER"}
Roles == Analysts \cup Managers \cup {"SOC_VIEWER"}

ASSUME AlertPolicyAssumption ==
    /\ RolesOf \in [Users -> (SUBSET (Roles \cup {NoRole})) \ {{}}]
    /\ NoRole \notin Roles
    /\ Nobody \notin Users
    /\ LockTimeout \in Nat

Final == {"RESOLVED", "FALSE_POSITIVE"}
Statuses == Final \cup
    {"OPEN", "ACKNOWLEDGED", "IN_PROGRESS", "REOPENED", "CORRELATED"}

RolesInit == roleOf \in {f \in [Users -> Roles \cup {NoRole}] :
                            \A u \in Users : f[u] \in RolesOf[u]}

\* A member is given another role, removed or readmitted.  What he is assigned
\* and what he has locked is left as it is.
ChangeRole(u) ==
    \E r \in RolesOf[u] \ {roleOf[u]} : roleOf' = [roleOf EXCEPT ![u] = r]

IsManager(u) == roleOf[u] \in Managers

\* ALLOWED_TRANSITIONS, and the two ways out of a final status.  Nothing leads
\* into or out of CORRELATED.
CanTransition(from, to, manager) ==
    \/ from = "OPEN" /\ to = "ACKNOWLEDGED"
    \/ from = "ACKNOWLEDGED" /\ to = "IN_PROGRESS"
    \/ from = "IN_PROGRESS" /\ to \in Final
    \/ from = "REOPENED" /\ to = "ACKNOWLEDGED"
    \/ from \in Final /\ to \in {"REOPENED", "OPEN"} /\ manager

-----------------------------------------------------------------------------
\* ROLE_ASSIGNMENT_SCOPE: a tier assigns to its own and lower tiers, a manager
\* role to every analyst, to SOC_MANAGER and to itself; a viewer to nobody.
AssignmentScope(role) ==
    CASE role = "SOC_TIER_1_ANALYST" -> {"SOC_TIER_1_ANALYST"}
      [] role = "SOC_TIER_2_ANALYST" -> {"SOC_TIER_1_ANALYST", "SOC_TIER_2_ANALYST"}
      [] role = "SOC_TIER_3_ANALYST" -> Analysts
      [] role \in Managers -> Analysts \cup {"SOC_MANAGER", role}
      [] OTHER -> {}

\* assignment_policy.can_assign
CanAssign(u, target) == roleOf[target] \in AssignmentScope(roleOf[u])

\* permissions.can_assign_alert: any member but a viewer
CanAssignAlert(u) == roleOf[u] \in Analysts \cup Managers

\* permissions.can_change_status
CanChangeStatus(u, r) ==
    \/ IsManager(u)
    \/ roleOf[u] \in Analysts /\ r.status \notin Final /\ r.assignee = u

LockedByOther(u, r) == r.locker \notin {Nobody, u}

\* lock_utils.is_lock_expired
LockExpired(r) == r.locker # Nobody /\ r.lockAge > LockTimeout

\* Mutant: any analyst may lock an alert, whoever holds it.
CanLockAlways(u, r) == TRUE

\* locking_policy: only a free or an own lock is taken; a manager may release
\* another's, and only another's counts as forcing.
CanLock(u, r) == ~LockedByOther(u, r)
CanUnlock(u, r) == LockedByOther(u, r) => IsManager(u)
CanForceUnlock(u, r) == LockedByOther(u, r) /\ IsManager(u)
=============================================================================
