----------------------------- MODULE CaseWorkflow -----------------------------
(***************************************************************************)
(* Case management: the services of cases/services.py on the models of     *)
(* cases/models.py, the SLA check, and the correlation engine, which opens *)
(* cases on its own.  The alerts a case holds are rows of AlertBin's       *)
(* CaseAlert table; this module is the composition of the two.             *)
(*                                                                         *)
(* Every service but create_case is handed a loaded case, checks it, and   *)
(* saves the columns it changed in one transaction, which SQLite, the      *)
(* configured database, serializes with all others: one action.  The       *)
(* columns of the case and the list of its alerts, which its loaders       *)
(* prefetch, are as old as the load; what else it asks of other tables it  *)
(* queries then and there.                                                 *)
(*                                                                         *)
(* Titles, severities, texts and files are left out; a case has one SLA    *)
(* duration.                                                               *)
(***************************************************************************)
EXTENDS AlertBin

CONSTANTS
    Titles,      \* titles of tasks, unique in a case
    Iocs,        \* (type, normalized value) pairs, unique in a case
    Files,       \* attachments
    Tags,        \* tag names of the workspace
    Notes,       \* notes
    Sla,         \* SLA_POLICY[severity], in units of the clock
    MaxContent,  \* bound: tasks, IOCs, attachments, tags, notes and collaborators of a case
    PassesCase   \* _ensure_actor_in_workspace is given a case, as its signature
                 \* asks; the services give it case.workspace, so: FALSE

ASSUME CaseAssumption == Sla \in Nat \ {0} /\ MaxContent \in Nat /\ PassesCase \in BOOLEAN

VARIABLES
    row,      \* the Case rows with the tasks, items and collaborators of each
    listed,   \* the prefetched case_alerts of the case a request has loaded
    paused,   \* remaining_seconds of the last SLA_PAUSED activity of each case
    worked,   \* history: time on the clock since the case was last given its full SLA
    crashed   \* some call ended in an AttributeError

caseVars == <<row, listed, paused, worked, crashed>>
vars == <<roleOf, bin, caseOf, actor, held, sweep, row, listed, paused, worked, crashed>>

NoTime == -2      \* sla_deadline is NULL, or there is no SLA_PAUSED activity
Past == -1        \* sla_deadline < now, as far as it is told apart

CaseStatuses == {"OPEN", "IN_PROGRESS", "ON_HOLD", "RESOLVED", "CLOSED"}
TaskStates == {"none", "open", "done"}
Items == Iocs \cup Files \cup Tags \cup Notes

CaseRow == [status : CaseStatuses \cup {"ABSENT"},
            assignee : Users \cup {Nobody},
            left : NoTime .. Sla,          \* sla_deadline - now
            breached : BOOLEAN,            \* sla_breached, and sla_breached_at set
            stamped : BOOLEAN,             \* closed_at set
            archived : BOOLEAN,
            tasks : [Titles -> TaskStates],
            items : SUBSET Items,
            collaborators : SUBSET Users]

NewCase(status, left) ==
    [status |-> status, assignee |-> Nobody, left |-> left, breached |-> FALSE,
     stamped |-> FALSE, archived |-> FALSE, tasks |-> [t \in Titles |-> "none"],
     items |-> {}, collaborators |-> {}]

Absent == NewCase("ABSENT", NoTime)

Init ==
    /\ BinInit
    /\ row = [c \in Cases |-> Absent]
    /\ listed = [s \in Sessions |-> {}]
    /\ paused = [c \in Cases |-> NoTime]
    /\ worked = [c \in Cases |-> 0]
    /\ crashed = FALSE

\* case.case_alerts
AlertsOf(c) == {a \in Alerts : caseOf[a] = c}

-----------------------------------------------------------------------------
(* Who may do what to a loaded case r, and where its status may go. *)

IsL1(u) == roleOf[u] = "SOC_TIER_1_ANALYST"
IsL2(u) == roleOf[u] = "SOC_TIER_2_ANALYST"
IsL3(u) == roleOf[u] = "SOC_TIER_3_ANALYST"
IsViewer(u) == roleOf[u] = "SOC_VIEWER"

\* _ensure_case_modifiable
Modifiable(r) == ~r.archived /\ r.status # "CLOSED"

\* _can_change_status, _can_add_remove_alerts, _can_modify_case_content and
\* _can_remove_collaborator, which are one rule: the manager or the assignee.
MayWork(u, r) == IsManager(u) \/ (~IsViewer(u) /\ r.assignee = u)

MayAddCollaborator(u, r, v) ==
    \/ IsManager(u)
    \/ /\ ~IsL1(u)
       /\ r.assignee = u
       /\ IsL2(u) => IsL1(v)
       /\ IsL3(u) => IsL1(v) \/ IsL2(v)
       /\ IsL2(u) \/ IsL3(u)

\* VALID_TRANSITIONS; a closed case is left through reopen_case only.
CanMove(from, to) ==
    \/ from = "OPEN" /\ to = "IN_PROGRESS"
    \/ from = "IN_PROGRESS" /\ to \in {"ON_HOLD", "RESOLVED"}
    \/ from = "ON_HOLD" /\ to = "IN_PROGRESS"
    \/ from = "RESOLVED" /\ to = "CLOSED"

-----------------------------------------------------------------------------
(* Opening a case, and loading one. *)

\* The selectors prefetch the alerts of a case, all of them or those not in the bin.
LoadCase(s, u, c) ==
    /\ row[c] # Absent
    /\ Fetch(s, u, c, row[c])
    /\ \E S \in {AlertsOf(c), {a \in AlertsOf(c) : bin[a].place # "bin"}} :
         listed' = [listed EXCEPT ![s] = S]
    /\ UNCHANGED <<row, paused, worked, crashed>>

\* The request on a case is over.
Leave(s) == Respond(s) /\ listed' = [listed EXCEPT ![s] = {}]

\* create_case: any member; the SLA starts to run.
CreateCase(u, c) ==
    /\ row[c] = Absent
    /\ roleOf[u] # NoRole
    /\ row' = [row EXCEPT ![c] = NewCase("OPEN", Sla)]
    /\ UNCHANGED <<roleOf, bin, caseOf, actor, held, sweep, listed, paused, worked, crashed>>

\* evaluate_correlation_rules creates its cases without a deadline, and links
\* the alerts through the join table of Case.alerts, which no service reads: it
\* loses its rows with the alerts the bin deletes, and is left out.
CorrelateCase(c) ==
    /\ row[c] = Absent
    /\ row' = [row EXCEPT ![c] = NewCase("OPEN", NoTime)]
    /\ UNCHANGED <<roleOf, bin, caseOf, actor, held, sweep, listed, paused, worked, crashed>>

\* A service called on the loaded case c gets past _ensure_actor_in_workspace to
\* its own checks.
Enters(s, c) ==
    /\ Loaded(s) = {c}
    /\ PassesCase
    /\ roleOf[actor[s]] # NoRole

\* Handed case.workspace, the membership check raises AttributeError.  Some
\* service comes to it whatever the state of the case: archive_case checks
\* nothing before.
Raises(s) == ~PassesCase /\ \E c \in Cases : Loaded(s) = {c}

\* A request that writes nothing: it only reads, or is refused, or raises.
Refuse(s) ==
    /\ crashed' \in {crashed, crashed \/ Raises(s)}
    /\ Leave(s)
    /\ UNCHANGED <<bin, caseOf, sweep, row, paused, worked>>

\* The call of s writes r to case c and nothing else.
Save(s, c, r) ==
    /\ row' = [row EXCEPT ![c] = r]
    /\ Leave(s)
    /\ UNCHANGED <<bin, caseOf, sweep, crashed>>

-----------------------------------------------------------------------------
(* Assignment and status. *)

AssignCase(s, c, t) ==
    /\ Enters(s, c)
    /\ Modifiable(held[s][c])
    /\ IF t = Nobody THEN IsManager(actor[s])
       ELSE roleOf[t] # NoRole /\ ~IsViewer(t) /\ CanAssign(actor[s], t)
    /\ Save(s, c, [row[c] EXCEPT !.assignee = t])
    /\ UNCHANGED <<paused, worked>>

\* Mutant: max(0, ...) forgotten, an overdue case notes a negative rest.
RemainingRaw(r) == r.left

\* remaining_seconds of a case that goes on hold.
Remaining(r) == IF r.left = Past THEN 0 ELSE r.left

\* Mutant: the case resumes with its full SLA whatever was left.
ResumedAfresh(c) == Sla

\* The deadline of a case that comes back from hold; a negative rest is none.
Resumed(c) == IF paused[c] < 0 THEN Sla ELSE paused[c]

\* change_case_status to anything but ON_HOLD, and not from ON_HOLD.
MoveCase(s, c, new) ==
    LET r == held[s][c] IN
    /\ Enters(s, c)
    /\ Modifiable(r)
    /\ MayWork(actor[s], r)
    /\ CanMove(r.status, new)
    /\ "ON_HOLD" \notin {r.status, new}
    /\ Save(s, c, [row[c] EXCEPT !.status = new, !.stamped = @ \/ new = "CLOSED"])
    /\ UNCHANGED <<paused, worked>>

\* change_case_status to ON_HOLD: what is left of the deadline is put down in
\* the SLA_PAUSED activity and the deadline is cleared.
HoldCase(s, c) ==
    LET r == held[s][c]
        stops == r.left # NoTime
    IN  /\ Enters(s, c)
        /\ Modifiable(r)
        /\ MayWork(actor[s], r)
        /\ CanMove(r.status, "ON_HOLD")
        /\ Save(s, c, [row[c] EXCEPT !.status = "ON_HOLD",
                                     !.left = IF stops THEN NoTime ELSE @])
        /\ paused' = IF stops THEN [paused EXCEPT ![c] = Remaining(r)] ELSE paused
        /\ UNCHANGED worked

\* change_case_status from ON_HOLD: the clock goes on where it was stopped, or
\* from the full SLA where no pause is on record.
ResumeCase(s, c) ==
    LET r == held[s][c] IN
    /\ Enters(s, c)
    /\ Modifiable(r)
    /\ MayWork(actor[s], r)
    /\ r.status = "ON_HOLD"
    /\ CanMove(r.status, "IN_PROGRESS")
    /\ Save(s, c, [row[c] EXCEPT !.status = "IN_PROGRESS", !.left = Resumed(c),
                                 !.breached = FALSE])
    /\ worked' = IF paused[c] = NoTime THEN [worked EXCEPT ![c] = 0] ELSE worked
    /\ UNCHANGED paused

\* Mutant: closing forgets closed_at.
ClosedUnstamped(r) == [r EXCEPT !.status = "CLOSED"]

Closed(r) == [r EXCEPT !.status = "CLOSED", !.stamped = TRUE]

\* close_case, given a resolution summary.
CloseCase(s, c) ==
    LET r == held[s][c] IN
    /\ Enters(s, c)
    /\ ~r.archived
    /\ MayWork(actor[s], r)
    /\ r.status = "RESOLVED"
    /\ Cardinality(listed[s]) >= 1
    /\ Save(s, c, Closed(row[c]))
    /\ UNCHANGED <<paused, worked>>

ReopenCase(s, c) ==
    LET r == held[s][c] IN
    /\ Enters(s, c)
    /\ ~r.archived
    /\ IsManager(actor[s])
    /\ r.status = "CLOSED"
    /\ Save(s, c, [row[c] EXCEPT !.status = "IN_PROGRESS", !.left = Sla, !.breached = FALSE])
    /\ worked' = [worked EXCEPT ![c] = 0]
    /\ UNCHANGED paused

ArchiveCase(s, c) ==
    LET r == held[s][c] IN
    /\ Enters(s, c)
    /\ IsManager(actor[s])
    /\ ~r.archived
    /\ r.status = "CLOSED"
    /\ Save(s, c, [row[c] EXCEPT !.archived = TRUE])
    /\ UNCHANGED <<paused, worked>>

-----------------------------------------------------------------------------
(* The alerts of a case. *)

Link(s, a, c) ==
    /\ caseOf' = [caseOf EXCEPT ![a] = c]
    /\ Leave(s)
    /\ UNCHANGED <<bin, sweep, row, paused, worked, crashed>>

\* add_alert_to_case: an alert in the bin is as good as another; one that is
\* gone violates the foreign key.
AddAlertToCase(s, c, a) ==
    /\ Enters(s, c)
    /\ Modifiable(held[s][c])
    /\ bin[a] # Gone
    /\ caseOf[a] = NoCase
    /\ MayWork(actor[s], held[s][c])
    /\ Link(s, a, c)

\* Mutant: the last alert may be removed.
EnoughAlertsAny(s) == TRUE

\* "Case must always have at least one alert.", by the prefetched list.
EnoughAlerts(s) == Cardinality(listed[s]) > 1

RemoveAlertFromCase(s, c, a) ==
    /\ Enters(s, c)
    /\ Modifiable(held[s][c])
    /\ MayWork(actor[s], held[s][c])
    /\ EnoughAlerts(s)
    /\ caseOf[a] = c
    /\ Link(s, a, NoCase)

-----------------------------------------------------------------------------
(* The contents of a case. *)

Size(r) == Cardinality({t \in Titles : r.tasks[t] # "none"})
             + Cardinality(r.items) + Cardinality(r.collaborators)

\* Mutant: the content services look at the archive flag only.
EditsArchivedOnly(s, c) ==
    /\ Enters(s, c)
    /\ ~held[s][c].archived
    /\ MayWork(actor[s], held[s][c])

\* What the services for tasks, IOCs, attachments and tags, and
\* remove_collaborator, ask.
Edits(s, c) ==
    /\ Enters(s, c)
    /\ Modifiable(held[s][c])
    /\ MayWork(actor[s], held[s][c])

SaveContent(s, c, r) ==
    /\ Size(r) <= MaxContent
    /\ Save(s, c, r)
    /\ UNCHANGED <<paused, worked>>

AddItem(s, c, x) == SaveContent(s, c, [row[c] EXCEPT !.items = @ \cup {x}])
RemoveItem(s, c, x) == SaveContent(s, c, [row[c] EXCEPT !.items = @ \ {x}])
SetTask(s, c, t, to) == SaveContent(s, c, [row[c] EXCEPT !.tasks[t] = to])

\* A second task of the same title, or IOC of the same value, violates the
\* unique constraint.
CreateTask(s, c, t) == Edits(s, c) /\ row[c].tasks[t] = "none" /\ SetTask(s, c, t, "open")
CompleteTask(s, c, t) == Edits(s, c) /\ held[s][c].tasks[t] = "open" /\ SetTask(s, c, t, "done")
ReopenTask(s, c, t) == Edits(s, c) /\ held[s][c].tasks[t] = "done" /\ SetTask(s, c, t, "open")

AddIoc(s, c, i) == Edits(s, c) /\ i \notin row[c].items /\ AddItem(s, c, i)
RemoveIoc(s, c, i) == Edits(s, c) /\ i \in held[s][c].items /\ RemoveItem(s, c, i)
AddAttachment(s, c, f) == Edits(s, c) /\ f \notin row[c].items /\ AddItem(s, c, f)
AddTag(s, c, g) == Edits(s, c) /\ AddItem(s, c, g)
RemoveTag(s, c, g) == Edits(s, c) /\ g \in row[c].items /\ RemoveItem(s, c, g)

\* add_note: any member but a viewer, also on a closed case.
AddNote(s, c, n) ==
    /\ Enters(s, c)
    /\ ~held[s][c].archived
    /\ ~IsViewer(actor[s])
    /\ n \notin row[c].items
    /\ AddItem(s, c, n)

AddCollaborator(s, c, v) ==
    /\ Enters(s, c)
    /\ Modifiable(held[s][c])
    /\ roleOf[v] # NoRole
    /\ MayAddCollaborator(actor[s], held[s][c], v)
    /\ SaveContent(s, c, [row[c] EXCEPT !.collaborators = @ \cup {v}])

RemoveCollaborator(s, c, v) ==
    /\ Edits(s, c)
    /\ SaveContent(s, c, [row[c] EXCEPT !.collaborators = @ \ {v}])

-----------------------------------------------------------------------------
(* The SLA check, the clock, and the next-state relation. *)

\* Mutant: the check compares with <= now.
LateTooEarly(c) == row[c].left \in {Past, 0}

Late(c) == row[c].left = Past

\* check_case_sla_breaches, one transaction over all the cases.
Breaching == {c \in Cases :
    /\ ~row[c].archived
    /\ row[c].status \notin {"ABSENT", "CLOSED"}
    /\ ~row[c].breached
    /\ Late(c)}

CheckCaseSlaBreaches ==
    /\ Breaching # {}
    /\ row' = [c \in Cases |-> IF c \in Breaching THEN [row[c] EXCEPT !.breached = TRUE]
                                                  ELSE row[c]]
    /\ UNCHANGED <<roleOf, bin, caseOf, actor, held, sweep, listed, paused, worked, crashed>>

\* A deadline comes nearer, in the row and in every copy of it.
Nearer(r) == [r EXCEPT !.left = IF @ >= 0 THEN @ - 1 ELSE @]

OnClock(c) == row[c].status \notin {"ABSENT", "ON_HOLD"} /\ row[c].left # NoTime

Tick ==
    /\ \/ \E c \in Cases : row[c].left >= 0
       \/ \E a \in Alerts : bin[a] # Older(bin[a])
    /\ bin' = [a \in Alerts |-> Older(bin[a])]
    /\ row' = [c \in Cases |-> Nearer(row[c])]
    /\ held' = [s \in Sessions |-> [x \in Loaded(s) |->
                  IF x \in Cases THEN Nearer(held[s][x]) ELSE held[s][x]]]
    /\ worked' = [c \in Cases |->
                    IF OnClock(c) /\ worked[c] <= Sla THEN worked[c] + 1 ELSE worked[c]]
    /\ UNCHANGED <<roleOf, caseOf, actor, sweep, listed, paused, crashed>>

CallOn(s, c) ==
    \/ \E u \in Clients : LoadCase(s, u, c)
    \/ \E t \in Users \cup {Nobody} : AssignCase(s, c, t)
    \/ \E new \in CaseStatuses : MoveCase(s, c, new)
    \/ HoldCase(s, c)
    \/ ResumeCase(s, c)
    \/ CloseCase(s, c)
    \/ ReopenCase(s, c)
    \/ ArchiveCase(s, c)
    \/ \E a \in Alerts : AddAlertToCase(s, c, a) \/ RemoveAlertFromCase(s, c, a)

EditOn(s, c) ==
    \/ \E t \in Titles : CreateTask(s, c, t) \/ CompleteTask(s, c, t) \/ ReopenTask(s, c, t)
    \/ \E i \in Iocs : AddIoc(s, c, i) \/ RemoveIoc(s, c, i)
    \/ \E f \in Files : AddAttachment(s, c, f)
    \/ \E g \in Tags : AddTag(s, c, g) \/ RemoveTag(s, c, g)
    \/ \E n \in Notes : AddNote(s, c, n)
    \/ \E v \in Users : AddCollaborator(s, c, v) \/ RemoveCollaborator(s, c, v)

Next ==
    \/ \E c \in Cases : CorrelateCase(c) \/ \E u \in Clients : CreateCase(u, c)
    \/ \E s \in Sessions, c \in Cases : CallOn(s, c) \/ EditOn(s, c)
    \/ \E s \in Sessions : Refuse(s)
    \/ BinNext /\ UNCHANGED caseVars
    \/ CheckCaseSlaBreaches
    \/ /\ \E u \in Users : ChangeRole(u)
       /\ UNCHANGED <<bin, caseOf, actor, held, sweep, caseVars>>
    \/ Tick

Spec == Init /\ [][Next]_vars

-----------------------------------------------------------------------------
(* Properties. *)

\* Every column, copy and activity holds a value of its type.
TypeOK ==
    /\ roleOf \in [Users -> Roles \cup {NoRole}]
    /\ bin \in [Alerts -> Bin]
    /\ caseOf \in [Alerts -> Cases \cup {NoCase}]
    /\ row \in [Cases -> CaseRow]
    /\ paused \in [Cases -> {NoTime} \cup 0 .. Sla]
    /\ worked \in [Cases -> 0 .. Sla + 1]
    /\ actor \in [Sessions -> Users \cup {Nobody}]
    /\ DOMAIN held = Sessions
    /\ \A s \in Sessions :
         /\ Loaded(s) \subseteq Alerts \cup Cases
         /\ \A x \in Loaded(s) : held[s][x] \in IF x \in Alerts THEN Bin ELSE CaseRow
    /\ listed \in [Sessions -> SUBSET Alerts]
    /\ sweep \subseteq Alerts
    /\ crashed \in BOOLEAN

\* Holding and resuming neither gives nor takes SLA time, however often a case
\* is held and with the SLA check and the clock in between: what is left of the
\* deadline, or was left when it was stopped, is what work has not used up yet.
\* (A case the correlation engine opened is off the clock until it is resumed.)
SLAClockIsExact ==
    \A c \in Cases :
        LET t == IF row[c].status = "ON_HOLD" THEN paused[c] ELSE row[c].left IN
        t # NoTime => IF worked[c] <= Sla THEN t = Sla - worked[c] ELSE t <= 0

\* check_case_sla_breaches marks what it finds on a running deadline, and a
\* hold or a reopening may follow: a case is marked as breached only if work on
\* it did take longer than its SLA.
BreachesAreJustified ==
    \A c \in Cases : row[c].breached => worked[c] > Sla

\* "Closed cases cannot be modified", "Archived cases cannot be modified": as
\* long as a case is closed only notes are added and nothing else of its
\* contents, links or assignment changes, and once it is archived nothing does.
ClosedIsFrozen ==
    [][\A c \in Cases :
         /\ row[c].status = "CLOSED" /\ row'[c].status = "CLOSED" =>
              /\ row'[c].assignee = row[c].assignee
              /\ row'[c].tasks = row[c].tasks
              /\ row'[c].items \ Notes = row[c].items \ Notes
              /\ row'[c].collaborators = row[c].collaborators
              /\ AlertsOf(c)' = AlertsOf(c)
         /\ row[c].archived =>
              [row'[c] EXCEPT !.left = row[c].left] = row[c]]_<<row, caseOf>>

\* A step that takes the last alert of c is that of a request whose list of the
\* alerts was out of date: another request has removed one since.
EmptiesUnaware(c) ==
    AlertsOf(c) # {} /\ AlertsOf(c)' = {} =>
        \E s \in Sessions :
            /\ Loaded(s) = {c} /\ actor'[s] = Nobody
            /\ ~(listed[s] \subseteq AlertsOf(c))

\* remove_alert_from_case's "Case must always have at least one alert": once a
\* case has an alert it never runs out of them, whatever the bin, the retention
\* job and one request after another do, unless two requests remove at once.
EvidenceStays == [][\A c \in Cases : EmptiesUnaware(c)]_vars

\* A closed case has its closed_at, without which the resolution times
\* (cases/metrics.py) leave it out, whichever of the two services closed it.
ClosedIsStamped ==
    \A c \in Cases : row[c].status = "CLOSED" => row[c].stamped

\* _ensure_actor_in_workspace's "Raise CasePermissionDenied if actor not in case
\* workspace": a call is carried out or refused, and never fails on that check.
CallsAreDecided == ~crashed
=============================================================================
