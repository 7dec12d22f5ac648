---------------------------- MODULE AlertWorkflow ----------------------------
(***************************************************************************)
(* Work on alerts: the mutations of alerts/services.py that assign an      *)
(* alert, move its status and lock it, the views that call them, the       *)
(* auto-unlock job of alerts/tasks.py, and the correlation engine's write. *)
(*                                                                         *)
(* A request first loads the alert (or, for the bulk operations, a set of  *)
(* them) and then calls the service, which checks the loaded object and    *)
(* saves the columns it changed with update_fields.  Other requests, the   *)
(* job and the engine may write in between: a session is therefore two     *)
(* steps, Load and one of the operations, and an operation decides on the  *)
(* copy but writes to the row.  Roles are read when the operation runs,    *)
(* and change at any time.                                                 *)
(***************************************************************************)
EXTENDS AlertPolicy, FiniteSets

CONSTANTS
    Alerts,        \* alert ids, numbers: the job goes through them in order
    Sessions,      \* requests in progress at the same time
    Clients,       \* the users that send requests
    Targets,       \* the users they name as assignee
    SystemUser,    \* the account the auto-unlock job runs as, Nobody if it never runs
    Correlatable   \* the alerts the correlation engine may match

ASSUME AlertWorkflowAssumption ==
    /\ Alerts \subseteq Nat
    /\ Clients \cup Targets \subseteq Users
    /\ SystemUser \in Users \cup {Nobody}
    /\ Correlatable \subseteq Alerts

VARIABLES
    row,     \* the Alert rows: status, assigned_to, locked_by, age of locked_at, resolved_at set
    actor,   \* the user of each request, Nobody between requests
    copy,    \* the alerts a request has loaded: what it reads of them, as it loaded it
    sweep,   \* the alerts the running auto-unlock job still has to unlock
    seen,    \* locked_by of those alerts when the job selected them
    retaken  \* history: those of them locked anew since

vars == <<roleOf, row, actor, copy, sweep, seen, retaken>>

NotLocked == -1

Row == [status : Statuses, assignee : Users \cup {Nobody}, locker : Users \cup {Nobody},
        lockAge : NotLocked .. LockTimeout + 1, resolved : BOOLEAN]

\* What Alert.objects.create gives a new alert.
NewAlert == [status |-> "OPEN", assignee |-> Nobody, locker |-> Nobody,
             lockAge |-> NotLocked, resolved |-> FALSE]

Init ==
    /\ row = [a \in Alerts |-> NewAlert]
    /\ actor = [s \in Sessions |-> Nobody]
    /\ copy = [s \in Sessions |-> << >>]
    /\ sweep = {}
    /\ seen = << >>
    /\ retaken = {}
    /\ RolesInit

Loaded(s) == DOMAIN copy[s]

\* Of the loaded alert the operations read status, assignee and locker only.
Seen(r) == [r EXCEPT !.lockAge = NotLocked, !.resolved = FALSE]

Load(s, u, S) ==
    /\ actor[s] = Nobody
    /\ S # {}
    /\ actor' = [actor EXCEPT ![s] = u]
    /\ copy' = [copy EXCEPT ![s] = [a \in S |-> Seen(row[a])]]
    /\ UNCHANGED <<roleOf, row, sweep, seen, retaken>>

\* The request is over, with a write or with a refusal.
Finish(s) ==
    /\ actor' = [actor EXCEPT ![s] = Nobody]
    /\ copy' = [copy EXCEPT ![s] = << >>]
    /\ UNCHANGED <<roleOf, sweep, seen>>

Respond(s) == Finish(s) /\ UNCHANGED retaken

Refuse(s) == actor[s] # Nobody /\ Respond(s) /\ UNCHANGED row

-----------------------------------------------------------------------------
(* The operations, on the loaded copy r of user u. *)

MayAssign(u, t, r) ==
    /\ CanAssignAlert(u)
    /\ CanAssign(u, t)
    /\ LockedByOther(u, r) => IsManager(u)

\* Mutant: the transition table is not consulted.
MayChangeUnchecked(u, r, new) ==
    CanChangeStatus(u, r) /\ (LockedByOther(u, r) => IsManager(u))

MayChangeStatus(u, r, new) ==
    /\ CanChangeStatus(u, r)
    /\ LockedByOther(u, r) => IsManager(u)
    /\ CanTransition(r.status, new, IsManager(u))

\* Mutant: resolved_at is only stamped when the copy had none.
StatusWriteNoStamp(cur, r, new) ==
    [cur EXCEPT !.status = new,
                !.resolved = IF new = "REOPENED" THEN FALSE ELSE @]

\* Mutant: the lock survives a final status.
StatusWriteKeepLock(cur, r, new) ==
    [cur EXCEPT !.status = new,
                !.resolved = (new \in Final) \/ (@ /\ new # "REOPENED")]

\* The columns change_status saves: a final status stamps resolved_at and, if
\* the copy was locked, clears the lock; REOPENED clears resolved_at.
StatusWrite(cur, r, new) ==
    LET unlock == new \in Final /\ r.locker # Nobody IN
    [cur EXCEPT !.status = new,
                !.resolved = (new \in Final) \/ (@ /\ new # "REOPENED"),
                !.locker = IF unlock THEN Nobody ELSE @,
                !.lockAge = IF unlock THEN NotLocked ELSE @]

\* assign_alert and, for several alerts, bulk_assign: one transaction, in
\* which an alert the user may not assign is skipped.
AssignAlerts(s, t) ==
    LET u == actor[s]
        granted == {a \in Loaded(s) : MayAssign(u, t, copy[s][a])}
    IN  /\ u # Nobody
        /\ granted # {}
        /\ row' = [a \in Alerts |->
                     IF a \in granted THEN [row[a] EXCEPT !.assignee = t] ELSE row[a]]
        /\ Respond(s)

\* change_status; resolve_alert and mark_false_positive are calls of it.
ChangeStatus(s, a, new) ==
    LET r == copy[s][a] IN
    /\ Loaded(s) = {a}
    /\ MayChangeStatus(actor[s], r, new)
    /\ row' = [row EXCEPT ![a] = StatusWrite(@, r, new)]
    /\ Respond(s)

BulkResolve(s) ==
    LET u == actor[s]
        granted == {a \in Loaded(s) : MayChangeStatus(u, copy[s][a], "RESOLVED")}
    IN  /\ u # Nobody
        /\ granted # {}
        /\ row' = [a \in Alerts |->
                     IF a \in granted THEN StatusWrite(row[a], copy[s][a], "RESOLVED")
                                      ELSE row[a]]
        /\ Respond(s)

\* acknowledge_alert: from OPEN only, and without a look at the lock.
AcknowledgeAlert(s, a) ==
    LET r == copy[s][a] IN
    /\ Loaded(s) = {a}
    /\ CanChangeStatus(actor[s], r)
    /\ r.status = "OPEN"
    /\ row' = [row EXCEPT ![a].status = "ACKNOWLEDGED"]
    /\ Respond(s)

ReopenAlert(s, a) ==
    LET r == copy[s][a] IN
    /\ Loaded(s) = {a}
    /\ IsManager(actor[s])
    /\ r.status \in Final
    /\ row' = [row EXCEPT ![a].status = "REOPENED", ![a].resolved = FALSE]
    /\ Respond(s)

\* Mutant: the lock is taken without its time.
StampLockLate == NotLocked

StampLock == 0

\* alert_lock: the view asks for an analyst, the service for a lock that is
\* free or the user's own, which is then taken afresh.
LockAlert(s, a) ==
    LET r == copy[s][a]
        u == actor[s]
    IN  /\ Loaded(s) = {a}
        /\ CanAssignAlert(u)
        /\ CanLock(u, r)
        /\ row' = [row EXCEPT ![a].locker = u, ![a].lockAge = StampLock]
        /\ retaken' = retaken \cup ({a} \cap sweep)
        /\ Finish(s)

\* alert_unlock: also of an alert that was not locked.
UnlockAlert(s, a) ==
    LET r == copy[s][a]
        u == actor[s]
    IN  /\ Loaded(s) = {a}
        /\ CanAssignAlert(u)
        /\ CanUnlock(u, r)
        /\ row' = [row EXCEPT ![a].locker = Nobody, ![a].lockAge = NotLocked]
        /\ Respond(s)

-----------------------------------------------------------------------------
(* The auto-unlock job, the correlation engine and the clock. *)

\* Mutant: an alert without locked_at counts as expired.
ExpiredOrFree == {a \in Alerts : row[a].lockAge \notin 0 .. LockTimeout}

Expired == {a \in Alerts : LockExpired(row[a])}

\* auto_unlock_expired_locks evaluates its query once ...
BeginSweep ==
    /\ SystemUser # Nobody /\ IsManager(SystemUser)
    /\ sweep = {}
    /\ Expired # {}
    /\ sweep' = Expired
    /\ seen' = [a \in Expired |-> row[a].locker]
    /\ UNCHANGED <<roleOf, row, actor, copy, retaken>>

\* ... and unlocks what it found one by one, renewed or not.  An alert locked by
\* the account itself is not a forced unlock: PermissionError ends the whole job.
SweepNext ==
    LET a == CHOOSE b \in sweep : \A c \in sweep : b <= c IN
    /\ sweep # {}
    /\ \/ /\ CanForceUnlock(SystemUser, [locker |-> seen[a]])
          /\ row' = [row EXCEPT ![a].locker = Nobody, ![a].lockAge = NotLocked]
          /\ sweep' = sweep \ {a}
          /\ seen' = [b \in sweep \ {a} |-> seen[b]]
          /\ retaken' = retaken \ {a}
       \/ /\ ~CanForceUnlock(SystemUser, [locker |-> seen[a]])
          /\ sweep' = {}
          /\ seen' = << >>
          /\ retaken' = {}
          /\ UNCHANGED row
    /\ UNCHANGED <<roleOf, actor, copy>>

\* evaluate_correlation_rules marks whatever alerts its rules matched, in one
\* transaction and whatever their status is.
Correlate(S) ==
    /\ S # {}
    /\ row' = [a \in Alerts |->
                 IF a \in S THEN [row[a] EXCEPT !.status = "CORRELATED"] ELSE row[a]]
    /\ UNCHANGED <<roleOf, actor, copy, sweep, seen, retaken>>

\* Only "longer than LockTimeout" is asked of a lock's age: it saturates there.
Tick ==
    /\ \E a \in Alerts : row[a].lockAge \in 0 .. LockTimeout
    /\ row' = [a \in Alerts |->
                 IF row[a].lockAge \in 0 .. LockTimeout
                 THEN [row[a] EXCEPT !.lockAge = @ + 1] ELSE row[a]]
    /\ UNCHANGED <<roleOf, actor, copy, sweep, seen, retaken>>

-----------------------------------------------------------------------------
Request(s) ==
    \/ \E u \in Clients, S \in SUBSET Alerts : Load(s, u, S)
    \/ Refuse(s)
    \/ \E t \in Targets : AssignAlerts(s, t)
    \/ \E a \in Alerts, new \in Statuses : ChangeStatus(s, a, new)
    \/ BulkResolve(s)
    \/ \E a \in Alerts :
         \/ AcknowledgeAlert(s, a)
         \/ ReopenAlert(s, a)
         \/ LockAlert(s, a)
         \/ UnlockAlert(s, a)

Sweep == BeginSweep \/ SweepNext

Next ==
    \/ \E s \in Sessions : Request(s)
    \/ Sweep
    \/ \E S \in SUBSET Correlatable : Correlate(S)
    \/ (\E u \in Users : ChangeRole(u)) /\ UNCHANGED <<row, actor, copy, sweep, seen, retaken>>
    \/ Tick

Spec == Init /\ [][Next]_vars

-----------------------------------------------------------------------------
(* Properties. *)

\* Every column and every copy holds a value of its type.
TypeOK ==
    /\ roleOf \in [Users -> Roles \cup {NoRole}]
    /\ row \in [Alerts -> Row]
    /\ actor \in [Sessions -> Users \cup {Nobody}]
    /\ DOMAIN copy = Sessions
    /\ \A s \in Sessions : Loaded(s) \subseteq Alerts /\ copy[s] \in [Loaded(s) -> Row]
    /\ sweep \subseteq Alerts
    /\ seen \in [sweep -> Users]
    /\ retaken \subseteq sweep

\* A lock always carries its time and a free alert carries none, whoever raced
\* whom to write them: a lock without a time would never expire.
LocksAreTimed ==
    \A a \in Alerts : row[a].locker = Nobody <=> row[a].lockAge = NotLocked

\* A final alert has its resolved_at, without which the resolution time and
\* SLA figures (monitoring.py, dashboard_selectors.py) silently drop it, also
\* when the status was written from an outdated copy.
FinalIsStamped ==
    \A a \in Alerts : row[a].status \in Final => row[a].resolved

\* The request of s ends in this step.
Answered(s) == actor[s] # Nobody /\ actor'[s] = Nobody

\* The status of a is moved by the engine, or by a request that may move it so
\* from the status it has read.
MovesLegally(a) ==
    row'[a].status # row[a].status =>
      \/ a \in Correlatable /\ row'[a].status = "CORRELATED" /\ UNCHANGED actor
      \/ \E s \in Sessions :
            /\ Answered(s) /\ a \in Loaded(s)
            /\ CanTransition(copy[s][a].status, row'[a].status, IsManager(actor[s]))

\* change_status's "Transition from ... to ... is not allowed": a status only
\* moves along the transitions of the user whose request moves it.  A move the
\* table does not have is the engine's, or that of a request which another
\* writer has overtaken.
TransitionsAreLegal == [][\A a \in Alerts : MovesLegally(a)]_vars

\* The lock of a is ended by the job, after it has expired unless it was taken
\* anew since the job listed it; by its holder or a manager, who free it; or by
\* a request that has not seen it.
EndsDuly(a) ==
    LET holder == row[a].locker IN
    holder # Nobody /\ row'[a].locker # holder =>
      \/ /\ a \in sweep \ sweep'
         /\ row'[a].locker = Nobody
         /\ LockExpired(row[a]) \/ a \in retaken
      \/ \E s \in Sessions :
            /\ Answered(s) /\ a \in Loaded(s)
            /\ \/ copy[s][a].locker # holder
               \/ /\ row'[a].locker = Nobody
                  /\ actor[s] = holder \/ IsManager(actor[s])

\* lock_alert's "If locked by another user, raise PermissionError": a lock that a
\* request has seen passes to no other user, and the job takes none away early
\* but one that was renewed under its hands.
LocksAreRespected == [][\A a \in Alerts : EndsDuly(a)]_vars

\* An alert made final is free, unless its request had loaded it unlocked.
UnlocksWhenFinal(a) ==
    row[a].status \notin Final /\ row'[a].status \in Final =>
      \/ row'[a].locker = Nobody
      \/ \E s \in Sessions : Answered(s) /\ a \in Loaded(s) /\ copy[s][a].locker = Nobody

\* change_status's "On RESOLVED/FALSE_POSITIVE sets resolved_at and clears lock":
\* a lock outlives the resolution only if the request could not have seen it.
ResolvingUnlocks == [][\A a \in Alerts : UnlocksWhenFinal(a)]_vars

\* lock_alert's "If lock is expired (should_auto_unlock), clear it first": an
\* expired lock does not keep another analyst from locking the alert.
ExpiredLockCanBeTaken ==
    \A a \in Alerts, u \in Clients :
        LockExpired(row[a]) /\ CanAssignAlert(u) => CanLock(u, row[a])
=============================================================================
