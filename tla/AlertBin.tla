------------------------------- MODULE AlertBin -------------------------------
(***************************************************************************)
(* The recycle bin of alerts: soft_delete_alert, restore_alert and         *)
(* permanently_delete_alert of alerts/services.py and the retention job of *)
(* alerts/tasks.py.  The rows that link alerts to cases protect what they  *)
(* point to, so the bin is modelled with the CaseAlert table; CaseWorkflow *)
(* builds on this module and says who writes that table.                   *)
(*                                                                         *)
(* A request loads one row, an alert here or a case in CaseWorkflow, and   *)
(* calls a service on the loaded object: two steps, as in AlertWorkflow.   *)
(* Who an alert is assigned to is AlertWorkflow's and does not change here; *)
(* roles do, at any time.                                                   *)
(***************************************************************************)
EXTENDS AlertPolicy, FiniteSets

CONSTANTS
    Alerts,       \* alert ids
    Cases,        \* case ids
    NoCase,       \* no CaseAlert row for this alert
    Sessions,     \* requests in progress at the same time
    Clients,      \* the users that send requests
    AssignedTo,   \* Alert.assigned_to
    Purger,       \* the account the retention job runs as, Nobody if it never runs
    Retention     \* the 15 days, in units of the clock

ASSUME AlertBinAssumption ==
    /\ IsFiniteSet(Alerts)
    /\ Alerts \cap Cases = {}
    /\ NoCase \notin Cases
    /\ Clients \subseteq Users
    /\ AssignedTo \in [Alerts -> Users \cup {Nobody}]
    /\ Purger \in Users \cup {Nobody}
    /\ Retention \in Nat

VARIABLES
    bin,     \* the Alert rows: in the list, in the bin since some time, or deleted
    caseOf,  \* the CaseAlert rows, of which the table allows one to an alert
    actor,   \* the user of each request, Nobody between requests
    held,    \* the row a request has loaded, as it loaded it
    sweep    \* the alerts the running retention job still has to delete

binVars == <<bin, sweep>>

\* is_deleted and the age of deleted_at; a deleted row is "gone".
Live == [place |-> "list", age |-> 0]
Gone == [place |-> "gone", age |-> 0]
Bin == [place : {"list", "bin", "gone"}, age : 0 .. Retention + 1]

Loaded(s) == DOMAIN held[s]

BinInit ==
    /\ bin = [a \in Alerts |-> Live]
    /\ caseOf = [a \in Alerts |-> NoCase]
    /\ actor = [s \in Sessions |-> Nobody]
    /\ held = [s \in Sessions |-> << >>]
    /\ sweep = {}
    /\ RolesInit

\* A request of user u loads row r of object x.
Fetch(s, u, x, r) ==
    /\ actor[s] = Nobody
    /\ actor' = [actor EXCEPT ![s] = u]
    /\ held' = [held EXCEPT ![s] = [y \in {x} |-> r]]
    /\ UNCHANGED <<roleOf, bin, sweep, caseOf>>

\* The request is over, with a write or with a refusal.
Respond(s) ==
    /\ actor[s] # Nobody
    /\ actor' = [actor EXCEPT ![s] = Nobody]
    /\ held' = [held EXCEPT ![s] = << >>]
    /\ UNCHANGED roleOf

-----------------------------------------------------------------------------
(* The services, on the loaded alert. *)

\* Of the loaded alert the services read is_deleted, not since when.
LoadAlert(s, u, a) == bin[a] # Gone /\ Fetch(s, u, a, [bin[a] EXCEPT !.age = 0])

Binned(s, a) == Loaded(s) = {a} /\ held[s][a].place = "bin"

\* A row that is gone is not written: save(update_fields=...) of it raises.
PutBin(a, r) == bin[a] # Gone /\ bin' = [bin EXCEPT ![a] = r]

SoftDeleteAlert(s, a) ==
    /\ Loaded(s) = {a}
    /\ held[s][a].place = "list"
    /\ roleOf[actor[s]] # NoRole
    /\ IsManager(actor[s]) \/ AssignedTo[a] = actor[s]
    /\ PutBin(a, [place |-> "bin", age |-> 0])
    /\ Respond(s)
    /\ UNCHANGED <<caseOf, sweep>>

RestoreAlert(s, a) ==
    /\ Binned(s, a)
    /\ IsManager(actor[s])
    /\ PutBin(a, Live)
    /\ Respond(s)
    /\ UNCHANGED <<caseOf, sweep>>

\* CaseAlert.alert is on_delete=PROTECT.  (The join table of Case.alerts, which
\* only the correlation engine fills and nothing reads, cascades instead.)
Deletable(a) == caseOf[a] = NoCase

PermanentlyDeleteAlert(s, a) ==
    /\ Binned(s, a)
    /\ IsManager(actor[s])
    /\ Deletable(a)
    /\ bin' = [bin EXCEPT ![a] = Gone]
    /\ Respond(s)
    /\ UNCHANGED <<caseOf, sweep>>

-----------------------------------------------------------------------------
(* The retention job. *)

Overdue == {a \in Alerts : bin[a].place = "bin" /\ bin[a].age > Retention}

\* permanently_delete_expired_alerts evaluates its query once ...
BeginPurge ==
    /\ Purger # Nobody /\ IsManager(Purger)
    /\ sweep = {}
    /\ Overdue # {}
    /\ sweep' = Overdue
    /\ UNCHANGED <<roleOf, bin, caseOf, actor, held>>

\* ... and deletes what it found one by one, each in a transaction of its own,
\* on the object the query returned: an alert restored meanwhile goes as well.
\* One that a case holds is protected, and the account may have lost its role:
\* either error ends the job.  The order is that of the ids, which say nothing of
\* when an alert was binned: any order.
PurgeNext(a) ==
    /\ a \in sweep
    /\ \/ /\ IsManager(Purger)
          /\ Deletable(a)
          /\ bin' = [bin EXCEPT ![a] = Gone]
          /\ sweep' = sweep \ {a}
       \/ /\ ~(IsManager(Purger) /\ Deletable(a))
          /\ sweep' = {}
          /\ UNCHANGED bin
    /\ UNCHANGED <<roleOf, caseOf, actor, held>>

\* Only "longer than Retention" is asked of the age in the bin.
Older(r) == IF r.place = "bin" /\ r.age <= Retention THEN [r EXCEPT !.age = @ + 1] ELSE r

BinNext ==
    \/ \E s \in Sessions, a \in Alerts :
         \/ \E u \in Clients : LoadAlert(s, u, a)
         \/ SoftDeleteAlert(s, a)
         \/ RestoreAlert(s, a)
         \/ PermanentlyDeleteAlert(s, a)
    \/ BeginPurge
    \/ \E a \in Alerts : PurgeNext(a)
=============================================================================
