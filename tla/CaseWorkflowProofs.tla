-------------------------- MODULE CaseWorkflowProofs --------------------------
(***************************************************************************)
(* Proofs about CaseWorkflow, for any number of requests, cases and        *)
(* alerts.  Every request decides on a copy that others may have made      *)
(* stale, so the first part assumes nothing of a copy but its type.  The   *)
(* SLA clock, the breaches and the frozen cases need more: they hold in    *)
(* every behaviour in which no two requests hold the same case (Apart),    *)
(* where a copy agrees with its row in the columns the decisions rest on   *)
(* (CopyIsCurrent) and the deadline with the work done (ClockExact).       *)
(***************************************************************************)
EXTENDS CaseWorkflow, FiniteSetTheorems, TLAPS

\* What the invariant says of one Case row.
CaseSound(r) == r \in CaseRow /\ (r.status = "CLOSED" => r.stamped)

RowsSound ==
    /\ row = [c \in Cases |-> row[c]]
    /\ \A c \in Cases : CaseSound(row[c])

AlertsSound ==
    /\ bin \in [Alerts -> Bin]
    /\ caseOf \in [Alerts -> Cases \cup {NoCase}]
    /\ sweep \subseteq Alerts
    /\ roleOf \in [Users -> Roles \cup {NoRole}]

ClocksSound ==
    /\ paused \in [Cases -> {NoTime} \cup 0 .. Sla]
    /\ worked \in [Cases -> 0 .. Sla + 1]
    /\ crashed \in BOOLEAN

CopySound(q) ==
    /\ Loaded(q) \subseteq Alerts \cup Cases
    /\ \A x \in Loaded(q) : held[q][x] \in IF x \in Alerts THEN Bin ELSE CaseRow

RequestsSound ==
    /\ actor \in [Sessions -> Users \cup {Nobody}]
    /\ DOMAIN held = Sessions
    /\ listed \in [Sessions -> SUBSET Alerts]
    /\ \A q \in Sessions : CopySound(q)

Inv == RowsSound /\ AlertsSound /\ ClocksSound /\ RequestsSound

-----------------------------------------------------------------------------
(* What the services make of one row. *)

LEMMA NewCaseSound ==
    /\ CaseSound(NewCase("OPEN", Sla))
    /\ CaseSound(NewCase("OPEN", NoTime))
    /\ CaseSound(Absent)
BY CaseAssumption DEF CaseSound, CaseRow, TaskStates, NewCase, Absent, CaseStatuses, NoTime

LEMMA AssigneeSound ==
    ASSUME NEW r, CaseSound(r), NEW t \in Users \cup {Nobody}
    PROVE  CaseSound([r EXCEPT !.assignee = t])
BY DEF CaseSound, CaseRow, TaskStates

\* A status write, with closed_at stamped when the case is closed.
LEMMA StatusSound ==
    ASSUME NEW r, CaseSound(r), NEW new \in CaseStatuses
    PROVE  CaseSound([r EXCEPT !.status = new, !.stamped = @ \/ new = "CLOSED"])
<1> DEFINE b == r.stamped \/ new = "CLOSED"
<1>1. b \in BOOLEAN
  BY DEF CaseSound, CaseRow, TaskStates
<1>2. \A x \in BOOLEAN : (new = "CLOSED" => x) => CaseSound([r EXCEPT !.status = new, !.stamped = x])
  BY DEF CaseSound, CaseRow, TaskStates, CaseStatuses
<1> QED
  BY <1>1, <1>2

LEMMA ClosedSound ==
    ASSUME NEW r, CaseSound(r)
    PROVE  CaseSound(Closed(r))
BY DEF CaseSound, CaseRow, TaskStates, Closed, CaseStatuses

LEMMA HeldSound ==
    ASSUME NEW r, CaseSound(r), NEW stops \in BOOLEAN
    PROVE  CaseSound([r EXCEPT !.status = "ON_HOLD", !.left = IF stops THEN NoTime ELSE @])
<1> DEFINE n == IF stops THEN NoTime ELSE r.left
<1>1. n \in NoTime .. Sla
  BY CaseAssumption DEF CaseSound, CaseRow, TaskStates, NoTime
<1>2. \A x \in NoTime .. Sla : CaseSound([r EXCEPT !.status = "ON_HOLD", !.left = x])
  BY DEF CaseSound, CaseRow, TaskStates, CaseStatuses
<1> QED
  BY <1>1, <1>2

\* A deadline is set and the breach cleared: resuming, and reopening.
LEMMA RunningSound ==
    ASSUME NEW r, CaseSound(r), NEW n \in 0 .. Sla
    PROVE  CaseSound([r EXCEPT !.status = "IN_PROGRESS", !.left = n, !.breached = FALSE])
<1>1. n \in NoTime .. Sla
  BY CaseAssumption DEF NoTime
<1> QED
  BY <1>1 DEF CaseSound, CaseRow, TaskStates, CaseStatuses

LEMMA FlagsSound ==
    ASSUME NEW r, CaseSound(r)
    PROVE  CaseSound([r EXCEPT !.archived = TRUE]) /\ CaseSound([r EXCEPT !.breached = TRUE])
BY DEF CaseSound, CaseRow, TaskStates

LEMMA ItemsSound ==
    ASSUME NEW r, CaseSound(r), NEW x \in Items
    PROVE  /\ CaseSound([r EXCEPT !.items = @ \cup {x}])
           /\ CaseSound([r EXCEPT !.items = @ \ {x}])
<1>1. \A S \in SUBSET Items : CaseSound([r EXCEPT !.items = S])
  BY DEF CaseSound, CaseRow, TaskStates
<1>2. r.items \cup {x} \in SUBSET Items /\ r.items \ {x} \in SUBSET Items
  BY DEF CaseSound, CaseRow, TaskStates
<1> QED
  BY <1>1, <1>2

LEMMA CollaboratorsSound ==
    ASSUME NEW r, CaseSound(r), NEW v \in Users
    PROVE  /\ CaseSound([r EXCEPT !.collaborators = @ \cup {v}])
           /\ CaseSound([r EXCEPT !.collaborators = @ \ {v}])
<1>1. \A S \in SUBSET Users : CaseSound([r EXCEPT !.collaborators = S])
  BY DEF CaseSound, CaseRow, TaskStates
<1>2. r.collaborators \cup {v} \in SUBSET Users /\ r.collaborators \ {v} \in SUBSET Users
  BY DEF CaseSound, CaseRow, TaskStates
<1> QED
  BY <1>1, <1>2

LEMMA TasksSound ==
    ASSUME NEW r, CaseSound(r), NEW t \in Titles, NEW to \in {"none", "open", "done"}
    PROVE  CaseSound([r EXCEPT !.tasks[t] = to])
<1>1. \A f \in [Titles -> {"none", "open", "done"}] : CaseSound([r EXCEPT !.tasks = f])
  BY DEF CaseSound, CaseRow, TaskStates
<1>2. [r.tasks EXCEPT ![t] = to] \in [Titles -> {"none", "open", "done"}]
  BY DEF CaseSound, CaseRow, TaskStates
<1>3. [r EXCEPT !.tasks[t] = to] = [r EXCEPT !.tasks = [r.tasks EXCEPT ![t] = to]]
  BY DEF CaseSound, CaseRow, TaskStates
<1> QED
  BY <1>1, <1>2, <1>3

LEMMA NearerSound ==
    ASSUME NEW r, r \in CaseRow
    PROVE  /\ Nearer(r) \in CaseRow
           /\ Nearer(r).status = r.status /\ Nearer(r).stamped = r.stamped
<1> DEFINE n == IF r.left >= 0 THEN r.left - 1 ELSE r.left
<1>1. n \in NoTime .. Sla
  BY CaseAssumption DEF CaseRow, TaskStates, NoTime
<1>2. \A x \in NoTime .. Sla :
        /\ [r EXCEPT !.left = x] \in CaseRow
        /\ [r EXCEPT !.left = x].status = r.status /\ [r EXCEPT !.left = x].stamped = r.stamped
  BY DEF CaseRow, TaskStates
<1>3. Nearer(r) = [r EXCEPT !.left = n]
  BY DEF Nearer
<1> QED
  BY <1>1, <1>2, <1>3

LEMMA OlderSound ==
    ASSUME NEW r \in Bin
    PROVE  Older(r) \in Bin /\ (r # Gone => Older(r) # Gone)
<1>1. CASE r.place = "bin" /\ r.age <= Retention
  <2>1. Older(r) = [r EXCEPT !.age = r.age + 1] /\ r.age + 1 \in 0 .. Retention + 1
    BY <1>1, AlertBinAssumption DEF Older, Bin
  <2>2. \A n \in 0 .. Retention + 1 : /\ [r EXCEPT !.age = n] \in Bin
                                      /\ [r EXCEPT !.age = n].place = r.place
    BY DEF Bin
  <2> QED
    BY <1>1, <2>1, <2>2 DEF Gone
<1>2. CASE ~(r.place = "bin" /\ r.age <= Retention)
  BY <1>2 DEF Older
<1> QED
  BY <1>1, <1>2

-----------------------------------------------------------------------------
(* Requests. *)

LEMMA RespondSound ==
    ASSUME RequestsSound, NEW s \in Sessions, Respond(s),
           listed' \in [Sessions -> SUBSET Alerts]
    PROVE  RequestsSound'
<1>1. actor' \in [Sessions -> Users \cup {Nobody}] /\ DOMAIN held' = Sessions
  BY DEF RequestsSound, Respond
<1>2. ASSUME NEW q \in Sessions
      PROVE  CopySound(q)'
  <2>1. CASE q = s
    BY <2>1 DEF RequestsSound, Respond, CopySound, Loaded
  <2>2. CASE q # s
    <3>1. held'[q] = held[q]
      BY <2>2 DEF RequestsSound, Respond
    <3> QED
      BY <3>1 DEF RequestsSound, CopySound, Loaded
  <2> QED
    BY <2>1, <2>2
<1> QED
  BY <1>1, <1>2 DEF RequestsSound

LEMMA LeaveSound ==
    ASSUME RequestsSound, NEW s \in Sessions, Leave(s)
    PROVE  RequestsSound'
<1>1. listed' \in [Sessions -> SUBSET Alerts]
  BY DEF RequestsSound, Leave
<1> QED
  BY <1>1, RespondSound DEF Leave

LEMMA FetchSound ==
    ASSUME RequestsSound, NEW s \in Sessions, NEW u \in Clients, NEW x \in Alerts \cup Cases,
           NEW r, r \in IF x \in Alerts THEN Bin ELSE CaseRow, Fetch(s, u, x, r),
           listed' \in [Sessions -> SUBSET Alerts]
    PROVE  RequestsSound'
<1>1. actor' \in [Sessions -> Users \cup {Nobody}] /\ DOMAIN held' = Sessions
  BY AlertBinAssumption DEF RequestsSound, Fetch
<1>2. ASSUME NEW q \in Sessions
      PROVE  CopySound(q)'
  <2>1. CASE q = s
    <3>1. held'[s] = [y \in {x} |-> r]
      BY DEF RequestsSound, Fetch
    <3>2. Loaded(s)' = {x} /\ held'[s][x] = r
      BY <3>1 DEF Loaded
    <3> QED
      BY <2>1, <3>2 DEF CopySound
  <2>2. CASE q # s
    <3>1. held'[q] = held[q]
      BY <2>2 DEF RequestsSound, Fetch
    <3> QED
      BY <3>1 DEF RequestsSound, CopySound, Loaded
  <2> QED
    BY <2>1, <2>2
<1> QED
  BY <1>1, <1>2 DEF RequestsSound

\* The copy of a case a request has loaded is a row of the table.
LEMMA CopyIsRow ==
    ASSUME RequestsSound, NEW s \in Sessions, NEW c \in Cases, Loaded(s) = {c}
    PROVE  held[s][c] \in CaseRow
<1>1. c \notin Alerts
  BY AlertBinAssumption
<1> QED
  BY <1>1 DEF RequestsSound, CopySound

\* A service that writes a sound row leaves everything else as sound as it was.
LEMMA SaveSound ==
    ASSUME Inv, NEW s \in Sessions, NEW c \in Cases, NEW r, CaseSound(r), Save(s, c, r)
    PROVE  RowsSound' /\ AlertsSound' /\ RequestsSound' /\ crashed' = crashed
<1>1. RowsSound'
  BY DEF Inv, RowsSound, Save
<1>2. AlertsSound'
  BY DEF Inv, AlertsSound, Save, Leave, Respond
<1>3. RequestsSound'
  BY LeaveSound DEF Inv, Save
<1> QED
  BY <1>1, <1>2, <1>3 DEF Save

LEMMA SavedInv ==
    ASSUME Inv, NEW s \in Sessions, NEW c \in Cases, NEW r, CaseSound(r), Save(s, c, r),
           UNCHANGED <<paused, worked>>
    PROVE  Inv'
BY SaveSound DEF Inv, ClocksSound

\* The row a service changes is sound.
LEMMA RowIsSound ==
    ASSUME Inv, NEW c \in Cases
    PROVE  CaseSound(row[c])
BY DEF Inv, RowsSound

-----------------------------------------------------------------------------
(* Init and the actions. *)

LEMMA InitInv == Init => Inv
<1> SUFFICES ASSUME Init PROVE Inv
  OBVIOUS
<1>1. RowsSound
  BY NewCaseSound DEF Init, RowsSound
<1>2. AlertsSound
  <2>1. Live \in Bin
    BY AlertBinAssumption DEF Live, Bin
  <2> QED
    BY <2>1 DEF Init, BinInit, RolesInit, AlertsSound
<1>3. ClocksSound
  <2>1. 0 \in 0 .. Sla + 1
    BY CaseAssumption
  <2> QED
    BY <2>1 DEF Init, ClocksSound
<1>4. RequestsSound
  BY DEF Init, BinInit, RequestsSound, CopySound, Loaded
<1> QED
  BY <1>1, <1>2, <1>3, <1>4 DEF Inv

LEMMA OpeningInv ==
    ASSUME Inv, NEW c \in Cases, CorrelateCase(c) \/ \E u \in Clients : CreateCase(u, c)
    PROVE  Inv'
<1>1. PICK r : CaseSound(r) /\ row' = [row EXCEPT ![c] = r]
  BY NewCaseSound DEF CorrelateCase, CreateCase
<1>2. UNCHANGED <<roleOf, bin, caseOf, actor, held, sweep, listed, paused, worked, crashed>>
  BY DEF CorrelateCase, CreateCase
<1>3. RowsSound'
  BY <1>1 DEF Inv, RowsSound
<1>4. AlertsSound' /\ ClocksSound'
  BY <1>2 DEF Inv, AlertsSound, ClocksSound
<1>5. RequestsSound'
  BY <1>2 DEF Inv, RequestsSound, CopySound, Loaded
<1> QED
  BY <1>3, <1>4, <1>5 DEF Inv

LEMMA CallInv ==
    ASSUME Inv, NEW s \in Sessions, NEW c \in Cases, CallOn(s, c)
    PROVE  Inv'
<1> USE RowIsSound
<1>1. ASSUME NEW u \in Clients, LoadCase(s, u, c) PROVE Inv'
  <2>1. row[c] \in IF c \in Alerts THEN Bin ELSE CaseRow
    BY AlertBinAssumption DEF CaseSound
  <2>4. listed' \in [Sessions -> SUBSET Alerts]
    BY <1>1 DEF LoadCase, AlertsOf, Inv, RequestsSound
  <2>2. RequestsSound'
    BY <1>1, <2>1, <2>4, FetchSound DEF Inv, LoadCase
  <2>3. RowsSound' /\ AlertsSound' /\ ClocksSound'
    BY <1>1 DEF Inv, LoadCase, Fetch, RowsSound, AlertsSound,
                ClocksSound
  <2> QED
    BY <2>2, <2>3 DEF Inv
<1>2. ASSUME NEW t \in Users \cup {Nobody}, AssignCase(s, c, t) PROVE Inv'
  BY <1>2, AssigneeSound, SavedInv DEF AssignCase
<1>3. ASSUME NEW new \in CaseStatuses, MoveCase(s, c, new) PROVE Inv'
  BY <1>3, StatusSound, SavedInv DEF MoveCase
<1>4. CASE HoldCase(s, c)
  <2> DEFINE r == held[s][c]
             stops == r.left # NoTime
             w == [row[c] EXCEPT !.status = "ON_HOLD", !.left = IF stops THEN NoTime ELSE @]
  <2>1. r \in CaseRow
    BY <1>4, CopyIsRow DEF Inv, HoldCase, Enters
  <2>2. CaseSound(w) /\ Save(s, c, w)
    BY <1>4, HeldSound DEF HoldCase
  <2>3. RowsSound' /\ AlertsSound' /\ RequestsSound' /\ crashed' = crashed
    BY <2>2, SaveSound
  <2>4. stops => Remaining(r) \in 0 .. Sla
    BY <2>1, CaseAssumption DEF CaseRow, TaskStates, Remaining, NoTime, Past
  <2>5. /\ paused' = IF stops THEN [paused EXCEPT ![c] = Remaining(r)] ELSE paused
        /\ worked' = worked
    BY <1>4 DEF HoldCase
  <2>6. ClocksSound'
    BY <2>3, <2>4, <2>5 DEF Inv, ClocksSound
  <2> QED
    BY <2>3, <2>6 DEF Inv
<1>5. CASE ResumeCase(s, c)
  <2>1. Resumed(c) \in 0 .. Sla
    BY CaseAssumption DEF Inv, ClocksSound, Resumed, NoTime
  <2>2. RowsSound' /\ AlertsSound' /\ RequestsSound' /\ crashed' = crashed
    BY <1>5, <2>1, RunningSound, SaveSound DEF ResumeCase
  <2>3. worked' \in [Cases -> 0 .. Sla + 1] /\ paused' = paused
    BY <1>5, CaseAssumption DEF ResumeCase, Inv, ClocksSound
  <2> QED
    BY <2>2, <2>3 DEF Inv, ClocksSound
<1>6. CASE CloseCase(s, c)
  BY <1>6, ClosedSound, SavedInv DEF CloseCase
<1>7. CASE ReopenCase(s, c)
  <2>1. Sla \in 0 .. Sla /\ 0 \in 0 .. Sla + 1
    BY CaseAssumption
  <2>2. RowsSound' /\ AlertsSound' /\ RequestsSound' /\ crashed' = crashed
    BY <1>7, <2>1, RunningSound, SaveSound DEF ReopenCase
  <2>3. worked' \in [Cases -> 0 .. Sla + 1] /\ paused' = paused
    BY <1>7, <2>1 DEF ReopenCase, Inv, ClocksSound
  <2> QED
    BY <2>2, <2>3 DEF Inv, ClocksSound
<1>8. CASE ArchiveCase(s, c)
  BY <1>8, FlagsSound, SavedInv DEF ArchiveCase
<1>9. ASSUME NEW a \in Alerts, AddAlertToCase(s, c, a) \/ RemoveAlertFromCase(s, c, a)
      PROVE  Inv'
  <2>1. PICK x \in Cases \cup {NoCase} : Link(s, a, x)
    BY <1>9, AlertBinAssumption DEF AddAlertToCase, RemoveAlertFromCase
  <2>2. AlertsSound'
    BY <2>1 DEF Link, Leave, Respond, Inv, AlertsSound
  <2>3. RequestsSound'
    BY <2>1, LeaveSound DEF Link, Inv
  <2>4. RowsSound' /\ ClocksSound'
    BY <2>1 DEF Link, Inv, RowsSound, ClocksSound
  <2> QED
    BY <2>2, <2>3, <2>4 DEF Inv
<1> QED
  BY <1>1, <1>2, <1>3, <1>4, <1>5, <1>6, <1>7, <1>8, <1>9 DEF CallOn

\* The content services.
LEMMA EditInv ==
    ASSUME Inv, NEW s \in Sessions, NEW c \in Cases, EditOn(s, c)
    PROVE  Inv'
<1> USE RowIsSound
<1>1. ASSUME NEW r, CaseSound(r), SaveContent(s, c, r) PROVE Inv'
  BY <1>1, SavedInv DEF SaveContent
<1>2. ASSUME NEW x \in Items, AddItem(s, c, x) \/ RemoveItem(s, c, x) PROVE Inv'
  BY <1>1, <1>2, ItemsSound DEF AddItem, RemoveItem
<1>3. ASSUME NEW t \in Titles, NEW to \in {"none", "open", "done"}, SetTask(s, c, t, to)
      PROVE  Inv'
  BY <1>1, <1>3, TasksSound DEF SetTask
<1>4. ASSUME NEW t \in Titles, CreateTask(s, c, t) \/ CompleteTask(s, c, t) \/ ReopenTask(s, c, t)
      PROVE  Inv'
  BY <1>3, <1>4 DEF CreateTask, CompleteTask, ReopenTask
<1>5. ASSUME NEW i \in Iocs, AddIoc(s, c, i) \/ RemoveIoc(s, c, i) PROVE Inv'
  BY <1>2, <1>5 DEF AddIoc, RemoveIoc, Items
<1>6. ASSUME NEW f \in Files, AddAttachment(s, c, f) PROVE Inv'
  BY <1>2, <1>6 DEF AddAttachment, Items
<1>7. ASSUME NEW g \in Tags, AddTag(s, c, g) \/ RemoveTag(s, c, g) PROVE Inv'
  BY <1>2, <1>7 DEF AddTag, RemoveTag, Items
<1>8. ASSUME NEW n \in Notes, AddNote(s, c, n) PROVE Inv'
  BY <1>2, <1>8 DEF AddNote, Items
<1>9. ASSUME NEW v \in Users, AddCollaborator(s, c, v) \/ RemoveCollaborator(s, c, v)
      PROVE  Inv'
  BY <1>1, <1>9, CollaboratorsSound DEF AddCollaborator, RemoveCollaborator
<1> QED
  BY <1>4, <1>5, <1>6, <1>7, <1>8, <1>9 DEF EditOn

\* A refusal, whatever is recorded of it.
LEMMA RefuseInv ==
    ASSUME Inv, NEW s \in Sessions, Refuse(s)
    PROVE  Inv'
<1>1. RequestsSound'
  BY LeaveSound DEF Refuse, Inv
<1>2. crashed' \in BOOLEAN
  BY DEF Refuse, Inv, ClocksSound
<1>3. RowsSound' /\ AlertsSound' /\ ClocksSound'
  BY <1>2 DEF Refuse, Leave, Respond, Inv, RowsSound, AlertsSound, ClocksSound
<1> QED
  BY <1>1, <1>3 DEF Inv

\* The bin and the retention job.
LEMMA BinInv ==
    ASSUME Inv, BinNext, UNCHANGED caseVars
    PROVE  Inv'
<1>1. RowsSound' /\ ClocksSound'
  BY DEF Inv, RowsSound, ClocksSound, caseVars
<1>7. listed' = listed
  BY DEF caseVars
<1>2. Live \in Bin /\ Gone \in Bin /\ [place |-> "bin", age |-> 0] \in Bin
  BY AlertBinAssumption DEF Live, Gone, Bin
<1>4. ASSUME NEW s \in Sessions, NEW u \in Clients, NEW a \in Alerts, LoadAlert(s, u, a)
      PROVE  Inv'
  <2>1. [bin[a] EXCEPT !.age = 0] \in Bin
    BY AlertBinAssumption DEF Inv, AlertsSound, Bin
  <2>2. RequestsSound'
    BY <1>4, <1>7, <2>1, FetchSound DEF Inv, LoadAlert, RequestsSound
  <2>3. AlertsSound'
    BY <1>4 DEF Inv, LoadAlert, Fetch, AlertsSound
  <2> QED
    BY <1>1, <2>2, <2>3 DEF Inv
<1>5. ASSUME NEW s \in Sessions, NEW a \in Alerts,
             SoftDeleteAlert(s, a) \/ RestoreAlert(s, a) \/ PermanentlyDeleteAlert(s, a)
      PROVE  Inv'
  <2>1. PICK r \in Bin : bin' = [bin EXCEPT ![a] = r]
    BY <1>2, <1>5 DEF SoftDeleteAlert, RestoreAlert, PermanentlyDeleteAlert, PutBin
  <2>2. UNCHANGED <<caseOf, sweep>> /\ Respond(s)
    BY <1>5 DEF SoftDeleteAlert, RestoreAlert, PermanentlyDeleteAlert
  <2>3. AlertsSound'
    BY <2>1, <2>2 DEF Inv, AlertsSound, Respond
  <2> QED
    BY <1>1, <1>7, <2>2, <2>3, RespondSound DEF Inv, RequestsSound
<1>6. ASSUME BeginPurge \/ \E a \in Alerts : PurgeNext(a)
      PROVE  Inv'
  <2>1. AlertsSound'
    <3>1. CASE BeginPurge
      BY <3>1 DEF BeginPurge, Overdue, Inv, AlertsSound
    <3>2. ASSUME NEW a \in Alerts, PurgeNext(a)
          PROVE  AlertsSound'
      BY <1>2, <3>2 DEF PurgeNext, Inv, AlertsSound
    <3> QED
      BY <1>6, <3>1, <3>2
  <2>2. RequestsSound'
    BY <1>6, <1>7 DEF BeginPurge, PurgeNext, Inv, RequestsSound, CopySound, Loaded
  <2> QED
    BY <1>1, <2>1, <2>2 DEF Inv
<1> QED
  BY <1>4, <1>5, <1>6 DEF BinNext

LEMMA BreachInv ==
    ASSUME Inv, CheckCaseSlaBreaches
    PROVE  Inv'
<1>1. RowsSound'
  BY FlagsSound DEF CheckCaseSlaBreaches, Inv, RowsSound
<1>2. AlertsSound' /\ ClocksSound'
  BY DEF CheckCaseSlaBreaches, Inv, AlertsSound, ClocksSound
<1>3. RequestsSound'
  BY DEF CheckCaseSlaBreaches, Inv, RequestsSound, CopySound, Loaded
<1> QED
  BY <1>1, <1>2, <1>3 DEF Inv

LEMMA TickInv ==
    ASSUME Inv, Tick
    PROVE  Inv'
<1>1. RowsSound'
  BY NearerSound DEF Tick, Inv, RowsSound, CaseSound
<1>2. AlertsSound'
  BY OlderSound DEF Tick, Inv, AlertsSound
<1>3. ClocksSound'
  <2>1. \A c \in Cases : worked[c] <= Sla => worked[c] + 1 \in 0 .. Sla + 1
    BY CaseAssumption DEF Inv, ClocksSound
  <2> QED
    BY <2>1 DEF Tick, Inv, ClocksSound
<1>4. RequestsSound'
  <2>1. actor' = actor /\ listed' = listed /\ DOMAIN held' = Sessions
    BY DEF Tick
  <2>2. ASSUME NEW q \in Sessions
        PROVE  CopySound(q)'
    <3>1. Loaded(q)' = Loaded(q)
      BY DEF Tick, Loaded
    <3>2. \A x \in Loaded(q) : held'[q][x] = IF x \in Cases THEN Nearer(held[q][x]) ELSE held[q][x]
      BY DEF Tick, Loaded
    <3>3. ASSUME NEW x \in Loaded(q)
          PROVE  held'[q][x] \in IF x \in Alerts THEN Bin ELSE CaseRow
      <4>1. CASE x \in Alerts
        BY <3>2, <4>1, AlertBinAssumption DEF Inv, RequestsSound, CopySound
      <4>2. CASE x \notin Alerts
        BY <3>2, <4>2, NearerSound DEF Inv, RequestsSound, CopySound
      <4> QED
        BY <4>1, <4>2
    <3> QED
      BY <3>1, <3>3 DEF Inv, RequestsSound, CopySound
  <2> QED
    BY <2>1, <2>2 DEF Inv, RequestsSound
<1> QED
  BY <1>1, <1>2, <1>3, <1>4 DEF Inv

LEMMA RolesInv ==
    ASSUME Inv, NEW u \in Users, ChangeRole(u),
           UNCHANGED <<bin, caseOf, actor, held, sweep, caseVars>>
    PROVE  Inv'
<1>1. roleOf' \in [Users -> Roles \cup {NoRole}]
  BY AlertPolicyAssumption DEF ChangeRole, Inv, AlertsSound
<1> QED
  BY <1>1 DEF caseVars, Inv, RowsSound, AlertsSound, ClocksSound, RequestsSound, CopySound, Loaded

LEMMA NextInv == Inv /\ [Next]_vars => Inv'
<1> SUFFICES ASSUME Inv, [Next]_vars PROVE Inv'
  OBVIOUS
<1>1. CASE Next
  BY <1>1, OpeningInv, CallInv, EditInv, RefuseInv, BinInv, BreachInv, RolesInv, TickInv DEF Next
<1>2. CASE UNCHANGED vars
  BY <1>2 DEF vars, Inv, RowsSound, AlertsSound, ClocksSound, RequestsSound,
              CopySound, Loaded
<1> QED
  BY <1>1, <1>2

-----------------------------------------------------------------------------
(* The theorems. *)

\* Inv is an invariant of every instance.
THEOREM InductiveInvariant == Spec => []Inv
<1> QED
  BY InitInv, NextInv, PTL DEF Spec

\* Every column, copy and activity is of its type, for any number of requests.
THEOREM TypeCorrect == Spec => []TypeOK
<1>1. Inv => TypeOK
  BY DEF Inv, RowsSound, CaseSound, AlertsSound, ClocksSound, RequestsSound, CopySound, TypeOK
<1> QED
  BY <1>1, InductiveInvariant, PTL

\* However stale the copies it was worked on with, a closed case has closed_at.
THEOREM ClosedStamped == Spec => []ClosedIsStamped
<1>1. Inv => ClosedIsStamped
  BY DEF Inv, RowsSound, CaseSound, ClosedIsStamped
<1> QED
  BY <1>1, InductiveInvariant, PTL

\* Links are made and removed by the two services of that name only.
LEMMA LinkWriters ==
    ASSUME Next
    PROVE  \/ caseOf' = caseOf
           \/ \E s \in Sessions, d \in Cases, a \in Alerts :
                AddAlertToCase(s, d, a) \/ RemoveAlertFromCase(s, d, a)
<1>1. ASSUME NEW s \in Sessions, NEW d \in Cases, CallOn(s, d)
      PROVE  \/ caseOf' = caseOf
             \/ \E a \in Alerts : AddAlertToCase(s, d, a) \/ RemoveAlertFromCase(s, d, a)
  BY <1>1 DEF CallOn, LoadCase, Fetch, AssignCase, MoveCase, HoldCase, ResumeCase, CloseCase,
              ReopenCase, ArchiveCase, Save
<1>2. ASSUME NEW s \in Sessions, NEW d \in Cases, EditOn(s, d)
      PROVE  caseOf' = caseOf
  BY <1>2 DEF EditOn, CreateTask, CompleteTask, ReopenTask, SetTask, AddIoc, RemoveIoc,
              AddAttachment, AddTag, RemoveTag, AddNote, AddItem, RemoveItem, AddCollaborator,
              RemoveCollaborator, SaveContent, Save
<1>3. BinNext => caseOf' = caseOf
  BY DEF BinNext, LoadAlert, Fetch, SoftDeleteAlert, RestoreAlert, PermanentlyDeleteAlert,
         BeginPurge, PurgeNext
<1> QED
  BY <1>1, <1>2, <1>3 DEF Next, CorrelateCase, CreateCase, Refuse, CheckCaseSlaBreaches,
     Tick

\* remove_alert_from_case asks for two alerts in its list: if that is not out of
\* date, one is left.
LEMMA StepKeepsEvidence ==
    ASSUME Inv, Next, NEW c \in Cases
    PROVE  EmptiesUnaware(c)
<1> SUFFICES ASSUME AlertsOf(c) # {}, AlertsOf(c)' = {}
             PROVE  \E s \in Sessions : /\ Loaded(s) = {c} /\ actor'[s] = Nobody
                                        /\ ~(listed[s] \subseteq AlertsOf(c))
  BY DEF EmptiesUnaware
<1>1. PICK b \in Alerts : caseOf[b] = c
  BY DEF AlertsOf
<1>2. caseOf'[b] # c
  BY DEF AlertsOf
<1>3. ~ \E s \in Sessions, d \in Cases, a \in Alerts : AddAlertToCase(s, d, a)
  BY <1>1, <1>2, AlertBinAssumption DEF AddAlertToCase, Link, Inv, AlertsSound
<1>4. PICK s \in Sessions, d \in Cases, a \in Alerts : RemoveAlertFromCase(s, d, a)
  BY <1>1, <1>2, <1>3, LinkWriters
<1>5. /\ caseOf' = [caseOf EXCEPT ![a] = NoCase] /\ caseOf[a] = d
      /\ Loaded(s) = {d} /\ actor'[s] = Nobody
      /\ Cardinality(listed[s]) > 1
  BY <1>4 DEF RemoveAlertFromCase, Enters, Link, Leave, Respond, EnoughAlerts, Inv, RequestsSound
<1>6. a = b /\ d = c
  BY <1>1, <1>2, <1>5 DEF Inv, AlertsSound
<1>7. AlertsOf(c) = {a}
  <2>1. ASSUME NEW e \in AlertsOf(c), e # a PROVE FALSE
    BY <1>5, <2>1 DEF AlertsOf, Inv, AlertsSound
  <2> QED
    BY <1>1, <1>6, <2>1 DEF AlertsOf
<1>8. ~(listed[s] \subseteq {a})
  <2>1. IsFiniteSet({a}) /\ Cardinality({a}) = 1
    BY FS_Singleton
  <2>2. listed[s] \subseteq {a} => Cardinality(listed[s]) <= 1
    BY <2>1, FS_Subset
  <2>3. listed[s] \subseteq {a} => Cardinality(listed[s]) \in Nat
    BY <2>1, FS_Subset, FS_CardinalityType
  <2> QED
    BY <1>5, <2>2, <2>3
<1> QED
  BY <1>5, <1>6, <1>7, <1>8

\* Only a request that counts an outdated list takes a case's last alert.
THEOREM EvidenceKept == Spec => EvidenceStays
<1>1. Inv /\ [Next]_vars => [\A c \in Cases : EmptiesUnaware(c)]_vars
  BY StepKeepsEvidence
<1> QED
  BY <1>1, InductiveInvariant, PTL DEF Spec, EvidenceStays

-----------------------------------------------------------------------------
(* Requests that have no case in common, as when each locks the row it loads   *)
(* or there is one at a time: then a loaded case is out of date only by what   *)
(* the SLA check did since, and by new links.                                  *)

Apart == \A s, t \in Sessions : s # t => Loaded(s) \cap Loaded(t) \cap Cases = {}

\* One request at a time, as in case_work, is kept apart.
LEMMA OneIsApart == (\A s, t \in Sessions : s = t) => Apart
BY DEF Apart

\* r is the row of c as it is now, in the columns the decisions rest on.
Current(c, r) ==
    /\ r.status = row[c].status /\ r.status # "ABSENT"
    /\ r.left = row[c].left
    /\ r.archived = row[c].archived

CopyIsCurrent == \A s \in Sessions : \A c \in Loaded(s) \cap Cases : Current(c, held[s][c])

\* The clock of a case with row r, remainder p on record and work w: what is
\* left, or was left at the hold, is what work has not used up; a hold stops the
\* clock; and a case that never had a deadline has no remainder either.
ClockOK(r, p, w) ==
    /\ r.status = "ABSENT" => r = Absent /\ p = NoTime /\ w = 0
    /\ r.status = "ON_HOLD" => r.left = NoTime
    /\ r.status # "ON_HOLD" /\ r.left = NoTime => p = NoTime
    /\ LET t == IF r.status = "ON_HOLD" THEN p ELSE r.left IN
       t # NoTime => IF w <= Sla THEN t = Sla - w ELSE t <= 0
    /\ r.breached => w > Sla

ClockExact(c) == ClockOK(row[c], paused[c], worked[c])

CurrentInv == Inv /\ CopyIsCurrent /\ \A c \in Cases : ClockExact(c)

\* What ClosedIsFrozen asks of a step on the row of one case.
FrozenRow(c) ==
    /\ row[c].status = "CLOSED" /\ row'[c].status = "CLOSED" =>
         /\ row'[c].assignee = row[c].assignee
         /\ row'[c].tasks = row[c].tasks
         /\ row'[c].items \ Notes = row[c].items \ Notes
         /\ row'[c].collaborators = row[c].collaborators
    /\ row[c].archived => [row'[c] EXCEPT !.left = row[c].left] = row[c]

\* A write that leaves the deadline, the breach and whether the case is on hold.
LEMMA ClockUntouched ==
    ASSUME NEW r, NEW q, NEW p, NEW w, ClockOK(r, p, w),
           r.status # "ABSENT", q.status # "ABSENT",
           q.status = "ON_HOLD" <=> r.status = "ON_HOLD",
           q.left = r.left, q.breached = r.breached
    PROVE  ClockOK(q, p, w)
BY DEF ClockOK

\* A case that is neither closed nor archived is not frozen, and an untouched
\* row is.
LEMMA NotFrozen ==
    ASSUME NEW c \in Cases, row[c].status # "CLOSED", ~row[c].archived
    PROVE  FrozenRow(c)
BY DEF FrozenRow

LEMMA Untouched ==
    ASSUME Inv, NEW c \in Cases, ClockExact(c),
           row'[c] = row[c], paused'[c] = paused[c], worked'[c] = worked[c]
    PROVE  ClockExact(c)' /\ FrozenRow(c)
<1>1. row[c] \in CaseRow
  BY RowIsSound DEF CaseSound
<1>2. FrozenRow(c)
  BY <1>1 DEF FrozenRow, CaseRow
<1> QED
  BY <1>2 DEF ClockExact

\* A service that decided on a current copy to write r, clocks aside.
LEMMA SavedStep ==
    ASSUME CurrentInv, NEW s \in Sessions, NEW c \in Cases, NEW r, Save(s, c, r),
           UNCHANGED <<paused, worked>>, row[c].status # "ABSENT", r.status # "ABSENT",
           r.status = "ON_HOLD" <=> row[c].status = "ON_HOLD",
           r.left = row[c].left, r.breached = row[c].breached
    PROVE  row'[c] = r /\ ClockExact(c)'
<1>1. row'[c] = r
  BY DEF Save, CurrentInv, Inv, RowsSound
<1> QED
  BY <1>1, ClockUntouched DEF CurrentInv, ClockExact

\* What a service knows of its case.
LEMMA CallerKnows ==
    ASSUME CurrentInv, NEW s \in Sessions, NEW c \in Cases, Enters(s, c)
    PROVE  Current(c, held[s][c])
BY DEF CurrentInv, CopyIsCurrent, Enters

\* The services that set status and assignment, on their own case.
LEMMA CallStep ==
    ASSUME CurrentInv, NEW s \in Sessions, NEW c \in Cases, CallOn(s, c)
    PROVE  ClockExact(c)' /\ FrozenRow(c)
<1>1. /\ row = [d \in Cases |-> row[d]] /\ row[c] \in CaseRow
      /\ paused \in [Cases -> {NoTime} \cup 0 .. Sla]
      /\ worked \in [Cases -> 0 .. Sla + 1]
      /\ ClockOK(row[c], paused[c], worked[c])
  BY RowIsSound DEF CurrentInv, Inv, RowsSound, CaseSound, ClocksSound, ClockExact
<1>2. CASE UNCHANGED <<row, paused, worked>>
  BY <1>2, Untouched DEF CurrentInv
<1>3. ASSUME NEW u \in Clients, LoadCase(s, u, c)
      PROVE  ClockExact(c)' /\ FrozenRow(c)
  BY <1>2, <1>3 DEF LoadCase, Fetch
<1>4. ASSUME NEW t \in Users \cup {Nobody}, AssignCase(s, c, t)
      PROVE  ClockExact(c)' /\ FrozenRow(c)
  <2> DEFINE r == [row[c] EXCEPT !.assignee = t]
  <2>1. /\ Enters(s, c) /\ Modifiable(held[s][c]) /\ Save(s, c, r)
        /\ UNCHANGED <<paused, worked>>
    BY <1>4 DEF AssignCase
  <2>2. Current(c, held[s][c])
    BY <2>1, CallerKnows
  <2>3. r.status = row[c].status /\ r.left = row[c].left /\ r.breached = row[c].breached
    BY <1>1 DEF CaseRow
  <2>4. FrozenRow(c)
    BY <2>1, <2>2, NotFrozen DEF Current, Modifiable
  <2> HIDE DEF r
  <2> QED
    BY <2>1, <2>2, <2>3, <2>4, SavedStep DEF Current
<1>5. ASSUME NEW new \in CaseStatuses, MoveCase(s, c, new)
      PROVE  ClockExact(c)' /\ FrozenRow(c)
  <2> DEFINE r == [row[c] EXCEPT !.status = new, !.stamped = @ \/ new = "CLOSED"]
  <2>1. /\ Enters(s, c) /\ Modifiable(held[s][c]) /\ Save(s, c, r)
        /\ UNCHANGED <<paused, worked>> /\ "ON_HOLD" \notin {held[s][c].status, new}
    BY <1>5 DEF MoveCase
  <2>2. Current(c, held[s][c])
    BY <2>1, CallerKnows
  <2>3. r.status = new /\ r.left = row[c].left /\ r.breached = row[c].breached
    <3>1. \A b : LET q == [row[c] EXCEPT !.status = new, !.stamped = b] IN
            q.status = new /\ q.left = row[c].left /\ q.breached = row[c].breached
      BY <1>1 DEF CaseRow
    <3> QED
      BY <3>1
  <2>4. FrozenRow(c)
    BY <2>1, <2>2, NotFrozen DEF Current, Modifiable
  <2>5. new # "ABSENT"
    BY DEF CaseStatuses
  <2> HIDE DEF r
  <2> QED
    BY <2>1, <2>2, <2>3, <2>4, <2>5, SavedStep DEF Current
<1>6. CASE HoldCase(s, c)
  <2> DEFINE q == held[s][c]
             stops == q.left # NoTime
             n == IF stops THEN NoTime ELSE row[c].left
             r == [row[c] EXCEPT !.status = "ON_HOLD", !.left = n]
  <2>1. /\ Enters(s, c) /\ Modifiable(q) /\ q.status = "IN_PROGRESS"
        /\ row' = [row EXCEPT ![c] = r]
        /\ paused' = IF stops THEN [paused EXCEPT ![c] = Remaining(q)] ELSE paused
        /\ worked' = worked
    BY <1>6 DEF HoldCase, CanMove, Save
  <2>2. Current(c, q)
    BY <2>1, CallerKnows
  <2>3. r.status = "ON_HOLD" /\ r.left = NoTime /\ r.breached = row[c].breached
    BY <1>1, <2>2 DEF CaseRow, Current
  <2>4. FrozenRow(c)
    BY <2>1, <2>2, NotFrozen DEF Current, Modifiable
  <2>5. row'[c] = r
    BY <1>1, <2>1
  <2> HIDE DEF r
  <2>6. ClockOK(r, paused'[c], worked[c])
    <3>1. CASE stops
      <4>1. paused'[c] = Remaining(q) /\ q.left = row[c].left
        BY <1>1, <2>1, <2>2, <3>1 DEF Current
      <4>2. IF worked[c] <= Sla THEN row[c].left = Sla - worked[c] ELSE row[c].left <= 0
        BY <1>1, <2>1, <2>2, <3>1 DEF Current, ClockOK
      <4>3. row[c].left \in -2 .. Sla /\ row[c].left # -2 /\ worked[c] \in Nat
        BY <1>1, <2>2, <3>1, CaseAssumption DEF CaseRow, NoTime, Current
      <4>4. IF worked[c] <= Sla THEN Remaining(q) = Sla - worked[c] ELSE Remaining(q) <= 0
        BY <4>1, <4>2, <4>3, CaseAssumption DEF Remaining, Past
      <4> QED
        BY <1>1, <2>3, <4>1, <4>4 DEF ClockOK
    <3>2. CASE ~stops
      <4>1. paused'[c] = NoTime
        BY <1>1, <2>1, <2>2, <3>2 DEF Current, ClockOK
      <4> QED
        BY <1>1, <2>3, <4>1 DEF ClockOK
    <3> QED
      BY <3>1, <3>2
  <2> QED
    BY <2>1, <2>4, <2>5, <2>6 DEF ClockExact
<1>7. CASE ResumeCase(s, c)
  <2> DEFINE q == held[s][c]
             r == [row[c] EXCEPT !.status = "IN_PROGRESS", !.left = Resumed(c), !.breached = FALSE]
  <2>1. /\ Enters(s, c) /\ Modifiable(q) /\ q.status = "ON_HOLD"
        /\ row' = [row EXCEPT ![c] = r]
        /\ worked' = IF paused[c] = NoTime THEN [worked EXCEPT ![c] = 0] ELSE worked
        /\ paused' = paused
    BY <1>7 DEF ResumeCase, Save
  <2>2. Current(c, q)
    BY <2>1, CallerKnows
  <2>3. r.status = "IN_PROGRESS" /\ r.left = Resumed(c) /\ r.breached = FALSE
    BY <1>1 DEF CaseRow
  <2>4. FrozenRow(c)
    BY <2>1, <2>2, NotFrozen DEF Current, Modifiable
  <2>5. row'[c] = r
    BY <1>1, <2>1
  <2> HIDE DEF r
  <2>6. ClockOK(r, paused[c], worked'[c])
    <3>1. CASE paused[c] = NoTime
      <4>1. worked'[c] = 0 /\ Resumed(c) = Sla
        BY <1>1, <2>1, <3>1 DEF Resumed, NoTime
      <4> QED
        BY <2>3, <4>1, CaseAssumption DEF ClockOK, NoTime
    <3>2. CASE paused[c] # NoTime
      <4>1. worked'[c] = worked[c] /\ paused[c] \in 0 .. Sla
        BY <1>1, <2>1, <3>2
      <4>2. Resumed(c) = paused[c]
        BY <4>1, CaseAssumption DEF Resumed
      <4>3. IF worked[c] <= Sla THEN paused[c] = Sla - worked[c] ELSE paused[c] <= 0
        BY <1>1, <2>1, <2>2, <3>2 DEF Current, ClockOK
      <4>4. paused[c] # NoTime
        BY <3>2
      <4> QED
        BY <2>3, <4>1, <4>2, <4>3, <4>4 DEF ClockOK
    <3> QED
      BY <3>1, <3>2
  <2> QED
    BY <2>1, <2>4, <2>5, <2>6 DEF ClockExact
<1>8. CASE CloseCase(s, c)
  <2> DEFINE r == Closed(row[c])
  <2>1. /\ Enters(s, c) /\ ~held[s][c].archived /\ held[s][c].status = "RESOLVED"
        /\ Save(s, c, r) /\ UNCHANGED <<paused, worked>>
    BY <1>8 DEF CloseCase
  <2>2. Current(c, held[s][c])
    BY <2>1, CallerKnows
  <2>3. r.status = "CLOSED" /\ r.left = row[c].left /\ r.breached = row[c].breached
    BY <1>1 DEF CaseRow, Closed
  <2>4. FrozenRow(c)
    BY <2>1, <2>2, NotFrozen DEF Current
  <2> HIDE DEF r
  <2> QED
    BY <2>1, <2>2, <2>3, <2>4, SavedStep DEF Current
<1>9. CASE ReopenCase(s, c)
  <2> DEFINE r == [row[c] EXCEPT !.status = "IN_PROGRESS", !.left = Sla, !.breached = FALSE]
  <2>1. /\ Enters(s, c) /\ ~held[s][c].archived
        /\ row' = [row EXCEPT ![c] = r]
        /\ worked' = [worked EXCEPT ![c] = 0]
    BY <1>9 DEF ReopenCase, Save
  <2>2. Current(c, held[s][c])
    BY <2>1, CallerKnows
  <2>3. r.status = "IN_PROGRESS" /\ r.left = Sla /\ r.breached = FALSE
    BY <1>1 DEF CaseRow
  <2>4. row'[c] = r /\ worked'[c] = 0
    BY <1>1, <2>1
  <2> HIDE DEF r
  <2>5. FrozenRow(c)
    BY <2>1, <2>2, <2>3, <2>4 DEF Current, FrozenRow
  <2>6. ClockOK(r, paused'[c], 0)
    BY <2>3, CaseAssumption DEF ClockOK, NoTime
  <2> QED
    BY <2>4, <2>5, <2>6 DEF ClockExact
<1>10. CASE ArchiveCase(s, c)
  <2> DEFINE r == [row[c] EXCEPT !.archived = TRUE]
  <2>1. /\ Enters(s, c) /\ ~held[s][c].archived
        /\ Save(s, c, r) /\ UNCHANGED <<paused, worked>>
    BY <1>10 DEF ArchiveCase
  <2>2. Current(c, held[s][c])
    BY <2>1, CallerKnows
  <2>3. /\ r.status = row[c].status /\ r.left = row[c].left /\ r.breached = row[c].breached
        /\ r.assignee = row[c].assignee /\ r.tasks = row[c].tasks /\ r.items = row[c].items
        /\ r.collaborators = row[c].collaborators
    BY <1>1 DEF CaseRow
  <2> HIDE DEF r
  <2>4. row'[c] = r /\ ClockExact(c)'
    BY <2>1, <2>2, <2>3, SavedStep DEF Current
  <2> QED
    BY <2>1, <2>2, <2>3, <2>4 DEF FrozenRow, Current
<1>11. ASSUME NEW a \in Alerts, AddAlertToCase(s, c, a) \/ RemoveAlertFromCase(s, c, a)
       PROVE  ClockExact(c)' /\ FrozenRow(c)
  BY <1>2, <1>11 DEF AddAlertToCase, RemoveAlertFromCase, Link
<1> QED
  BY <1>3, <1>4, <1>5, <1>6, <1>7, <1>8, <1>9, <1>10, <1>11 DEF CallOn

\* Everything but the notes of a case is edited only while it is modifiable.
LEMMA EditStep ==
    ASSUME CurrentInv, NEW s \in Sessions, NEW c \in Cases, EditOn(s, c)
    PROVE  ClockExact(c)' /\ FrozenRow(c)
<1>1. row[c] \in CaseRow
  BY RowIsSound DEF CurrentInv, CaseSound
<1>2. ASSUME NEW r, Enters(s, c), Modifiable(held[s][c]), SaveContent(s, c, r),
             r.status = row[c].status, r.left = row[c].left, r.breached = row[c].breached
      PROVE  ClockExact(c)' /\ FrozenRow(c)
  <2>1. Current(c, held[s][c])
    BY <1>2, CallerKnows
  <2>2. FrozenRow(c)
    BY <1>2, <2>1, NotFrozen DEF Current, Modifiable
  <2>3. ClockExact(c)'
    BY <1>2, <2>1, SavedStep DEF Current, SaveContent
  <2> QED
    BY <2>2, <2>3
<1>3. ASSUME NEW S, NEW r, r = [row[c] EXCEPT !.items = S]
      PROVE  /\ r.status = row[c].status /\ r.left = row[c].left /\ r.breached = row[c].breached
             /\ r.assignee = row[c].assignee /\ r.tasks = row[c].tasks /\ r.items = S
             /\ r.collaborators = row[c].collaborators
  BY <1>1, <1>3 DEF CaseRow
<1>4. ASSUME NEW x, Edits(s, c), AddItem(s, c, x) \/ RemoveItem(s, c, x)
      PROVE  ClockExact(c)' /\ FrozenRow(c)
  <2>1. PICK S : SaveContent(s, c, [row[c] EXCEPT !.items = S])
    BY <1>4 DEF AddItem, RemoveItem
  <2> QED
    BY <1>2, <1>3, <1>4, <2>1 DEF Edits
<1>5. ASSUME NEW t \in Titles, NEW to, Edits(s, c), SetTask(s, c, t, to)
      PROVE  ClockExact(c)' /\ FrozenRow(c)
  <2> DEFINE r == [row[c] EXCEPT !.tasks[t] = to]
  <2>1. r.status = row[c].status /\ r.left = row[c].left /\ r.breached = row[c].breached
    BY <1>1 DEF CaseRow
  <2>2. SaveContent(s, c, r)
    BY <1>5 DEF SetTask
  <2> HIDE DEF r
  <2> QED
    BY <1>2, <1>5, <2>1, <2>2 DEF Edits
<1>6. ASSUME NEW S, Enters(s, c), Modifiable(held[s][c]),
             SaveContent(s, c, [row[c] EXCEPT !.collaborators = S])
      PROVE  ClockExact(c)' /\ FrozenRow(c)
  <2> DEFINE r == [row[c] EXCEPT !.collaborators = S]
  <2>1. r.status = row[c].status /\ r.left = row[c].left /\ r.breached = row[c].breached
    BY <1>1 DEF CaseRow
  <2>2. SaveContent(s, c, r)
    BY <1>6
  <2> HIDE DEF r
  <2> QED
    BY <1>2, <1>6, <2>1, <2>2
<1>7. ASSUME NEW n \in Notes, AddNote(s, c, n)
      PROVE  ClockExact(c)' /\ FrozenRow(c)
  <2> DEFINE r == [row[c] EXCEPT !.items = row[c].items \cup {n}]
  <2>1. /\ Enters(s, c) /\ ~held[s][c].archived
        /\ Save(s, c, r) /\ UNCHANGED <<paused, worked>>
    BY <1>7 DEF AddNote, AddItem, SaveContent
  <2>2. Current(c, held[s][c])
    BY <2>1, CallerKnows
  <2>3. /\ r.status = row[c].status /\ r.left = row[c].left /\ r.breached = row[c].breached
        /\ r.assignee = row[c].assignee /\ r.tasks = row[c].tasks
        /\ r.items = row[c].items \cup {n} /\ r.collaborators = row[c].collaborators
    BY <1>3
  <2> HIDE DEF r
  <2>4. row'[c] = r /\ ClockExact(c)'
    BY <2>1, <2>2, <2>3, SavedStep DEF Current
  <2>5. r.items \ Notes = row[c].items \ Notes
    BY <2>3
  <2> QED
    BY <2>1, <2>2, <2>3, <2>4, <2>5 DEF FrozenRow, Current
<1>8. ASSUME NEW t \in Titles, CreateTask(s, c, t) \/ CompleteTask(s, c, t) \/ ReopenTask(s, c, t)
      PROVE  ClockExact(c)' /\ FrozenRow(c)
  BY <1>5, <1>8 DEF CreateTask, CompleteTask, ReopenTask
<1>9. ASSUME NEW x, \/ AddIoc(s, c, x) \/ RemoveIoc(s, c, x) \/ AddAttachment(s, c, x)
                    \/ AddTag(s, c, x) \/ RemoveTag(s, c, x)
      PROVE  ClockExact(c)' /\ FrozenRow(c)
  BY <1>4, <1>9 DEF AddIoc, RemoveIoc, AddAttachment, AddTag, RemoveTag
<1>10. ASSUME NEW v \in Users, AddCollaborator(s, c, v) \/ RemoveCollaborator(s, c, v)
       PROVE  ClockExact(c)' /\ FrozenRow(c)
  BY <1>6, <1>10 DEF AddCollaborator, RemoveCollaborator, Edits
<1> QED
  BY <1>7, <1>8, <1>9, <1>10 DEF EditOn

\* A service writes no case but its own.
LEMMA OwnCaseOnly ==
    ASSUME CurrentInv, NEW s \in Sessions, NEW c \in Cases, CallOn(s, c) \/ EditOn(s, c),
           NEW d \in Cases, d # c
    PROVE  row'[d] = row[d] /\ paused'[d] = paused[d] /\ worked'[d] = worked[d]
<1>1. row = [e \in Cases |-> row[e]] /\ DOMAIN paused = Cases /\ DOMAIN worked = Cases
  BY DEF CurrentInv, Inv, RowsSound, ClocksSound
<1>2. CASE EditOn(s, c)
  BY <1>1, <1>2 DEF EditOn, CreateTask, CompleteTask, ReopenTask, SetTask, AddIoc, RemoveIoc,
     AddAttachment, AddTag, RemoveTag, AddNote, AddItem, RemoveItem, AddCollaborator,
     RemoveCollaborator, SaveContent, Save
<1>3. CASE CallOn(s, c)
  BY <1>1, <1>3 DEF CallOn, LoadCase, AssignCase, MoveCase, HoldCase, ResumeCase, CloseCase,
     ReopenCase, ArchiveCase, AddAlertToCase, RemoveAlertFromCase, Link, Save
<1> QED
  BY <1>2, <1>3

\* A breach is marked on a deadline that work has overrun.
LEMMA BreachStep ==
    ASSUME CurrentInv, CheckCaseSlaBreaches, NEW c \in Cases
    PROVE  ClockExact(c)' /\ FrozenRow(c)
<1>1. /\ row[c] \in CaseRow /\ ClockOK(row[c], paused[c], worked[c])
      /\ worked[c] \in Nat /\ paused' = paused /\ worked' = worked
  BY RowIsSound DEF CurrentInv, Inv, CaseSound, ClocksSound, ClockExact, CheckCaseSlaBreaches
<1>2. CASE c \in Breaching
  <2> DEFINE r == [row[c] EXCEPT !.breached = TRUE]
  <2>1. /\ ~row[c].archived /\ row[c].status \notin {"ABSENT", "CLOSED"} /\ row[c].left = -1
        /\ row'[c] = r
    BY <1>2 DEF Breaching, Late, Past, CheckCaseSlaBreaches
  <2>2. r.status = row[c].status /\ r.left = row[c].left /\ r.breached = TRUE
    BY <1>1 DEF CaseRow
  <2> HIDE DEF r
  <2>3. row[c].status # "ON_HOLD" /\ worked[c] > Sla
    BY <1>1, <2>1, CaseAssumption DEF ClockOK, NoTime
  <2>4. ClockOK(r, paused[c], worked[c])
    BY <1>1, <2>1, <2>2, <2>3 DEF ClockOK
  <2>5. FrozenRow(c)
    BY <2>1, NotFrozen
  <2> QED
    BY <1>1, <2>1, <2>4, <2>5 DEF ClockExact
<1>3. CASE c \notin Breaching
  <2>1. row'[c] = row[c]
    BY <1>3 DEF CheckCaseSlaBreaches
  <2> QED
    BY <1>1, <2>1, Untouched DEF CurrentInv
<1> QED
  BY <1>2, <1>3

\* The clock takes from the deadline what it adds to the work.
LEMMA TickStep ==
    ASSUME CurrentInv, Tick, NEW c \in Cases
    PROVE  ClockExact(c)' /\ FrozenRow(c)
<1> DEFINE r == row[c]
           w == worked[c]
           p == paused[c]
           q == Nearer(row[c])
           n == IF r.left >= 0 THEN r.left - 1 ELSE r.left
           v == IF OnClock(c) /\ w <= Sla THEN w + 1 ELSE w
<1>1. /\ r \in CaseRow /\ ClockOK(r, p, w) /\ w \in Nat /\ r.left \in -2 .. Sla
      /\ p \in {NoTime} \cup 0 .. Sla
  BY RowIsSound DEF CurrentInv, Inv, CaseSound, ClocksSound, ClockExact, CaseRow, NoTime
<1>2. row'[c] = q /\ worked'[c] = v /\ paused'[c] = p
  BY DEF Tick
<1>3. /\ q.status = r.status /\ q.left = n /\ q.breached = r.breached
      /\ q.assignee = r.assignee /\ q.tasks = r.tasks /\ q.items = r.items
      /\ q.collaborators = r.collaborators /\ [q EXCEPT !.left = r.left] = r
  BY <1>1 DEF Nearer, CaseRow
<1>4. r.status = "ABSENT" => q = r /\ v = w
  BY <1>1 DEF Nearer, OnClock, ClockOK, Absent, NewCase, NoTime, CaseRow
<1>5. FrozenRow(c)
  BY <1>2, <1>3 DEF FrozenRow
<1>6. r.status \in {"ABSENT", "ON_HOLD"} => r.left = -2
  BY <1>1 DEF ClockOK, Absent, NewCase, NoTime
<1>7. OnClock(c) <=> r.left # -2
  BY <1>6 DEF OnClock, NoTime
<1> HIDE DEF q
<1>8. ClockOK(q, p, v)
  <2>1. r.status = "ON_HOLD" => n = NoTime /\ v = w
    BY <1>6, <1>7 DEF NoTime
  <2>2. r.left = NoTime <=> n = NoTime
    BY <1>1 DEF NoTime
  <2>3. r.breached => v > Sla
    BY <1>1, CaseAssumption DEF ClockOK
  <2>4. r.status # "ON_HOLD" /\ n # NoTime => IF v <= Sla THEN n = Sla - v ELSE n <= 0
    <3> SUFFICES ASSUME r.status # "ON_HOLD", n # NoTime
                 PROVE  IF v <= Sla THEN n = Sla - v ELSE n <= 0
      OBVIOUS
    <3>1. r.left # -2 /\ OnClock(c) /\ r.left \in -1 .. Sla
      BY <1>1, <1>7, <2>2 DEF NoTime
    <3>2. IF w <= Sla THEN r.left = Sla - w ELSE r.left <= 0
      BY <1>1, <3>1 DEF ClockOK, NoTime
    <3> QED
      BY <1>1, <3>1, <3>2, CaseAssumption
  <2>5. r.status = "ABSENT" => q = Absent /\ p = NoTime /\ v = 0
    BY <1>1, <1>4 DEF ClockOK
  <2> HIDE DEF n, v
  <2> QED
    BY <1>1, <1>3, <2>1, <2>2, <2>3, <2>4, <2>5 DEF ClockOK
<1> QED
  BY <1>2, <1>5, <1>8 DEF ClockExact

\* A new case starts with its clock unused, or without one.
LEMMA OpeningStep ==
    ASSUME CurrentInv, NEW c \in Cases, CorrelateCase(c) \/ \E u \in Clients : CreateCase(u, c),
           NEW d \in Cases
    PROVE  ClockExact(d)' /\ FrozenRow(d)
<1>1. /\ row = [e \in Cases |-> row[e]] /\ ClockOK(row[c], paused[c], worked[c])
      /\ paused' = paused /\ worked' = worked
  BY DEF CurrentInv, Inv, RowsSound, ClockExact, CorrelateCase, CreateCase
<1>2. CASE d = c
  <2>1. PICK left \in {Sla, NoTime} : row[c] = Absent /\ row'[c] = NewCase("OPEN", left)
    BY <1>1 DEF CorrelateCase, CreateCase
  <2>2. row[c].status = "ABSENT" /\ ~row[c].archived /\ paused[c] = NoTime /\ worked[c] = 0
    BY <1>1, <2>1 DEF ClockOK, Absent, NewCase
  <2>3. ClockOK(NewCase("OPEN", left), NoTime, 0)
    BY CaseAssumption DEF ClockOK, NewCase, NoTime
  <2>4. FrozenRow(c)
    BY <2>2, NotFrozen
  <2> QED
    BY <1>1, <1>2, <2>1, <2>2, <2>3, <2>4 DEF ClockExact
<1>3. CASE d # c
  <2>1. row'[d] = row[d]
    BY <1>1, <1>3 DEF CorrelateCase, CreateCase
  <2> QED
    BY <1>1, <2>1, Untouched DEF CurrentInv
<1> QED
  BY <1>2, <1>3

\* Every step keeps the clocks exact and leaves closed and archived cases alone.
LEMMA CaseStep ==
    ASSUME CurrentInv, [Next]_vars, NEW d \in Cases
    PROVE  ClockExact(d)' /\ FrozenRow(d)
<1>1. ASSUME UNCHANGED <<row, paused, worked>>
      PROVE  ClockExact(d)' /\ FrozenRow(d)
  BY <1>1, Untouched DEF CurrentInv
<1>2. ASSUME NEW s \in Sessions, NEW c \in Cases, CallOn(s, c) \/ EditOn(s, c)
      PROVE  ClockExact(d)' /\ FrozenRow(d)
  <2>1. CASE d = c
    BY <1>2, <2>1, CallStep, EditStep
  <2>2. CASE d # c
    BY <1>2, <2>2, OwnCaseOnly, Untouched DEF CurrentInv
  <2> QED
    BY <2>1, <2>2
<1>3. CASE BinNext /\ UNCHANGED caseVars
  BY <1>1, <1>3 DEF caseVars
<1>4. CASE \E s \in Sessions : Refuse(s)
  BY <1>1, <1>4 DEF Refuse
<1>5. CASE UNCHANGED vars
  BY <1>1, <1>5 DEF vars
<1>6. CASE UNCHANGED <<bin, caseOf, actor, held, sweep, caseVars>>
  BY <1>1, <1>6 DEF caseVars
<1> QED
  BY <1>2, <1>3, <1>4, <1>5, <1>6, OpeningStep, BreachStep, TickStep DEF Next

\* Nor does it link or unlink an alert of a closed case.
LEMMA ClosedLinks ==
    ASSUME CurrentInv, [Next]_vars, NEW c \in Cases, row[c].status = "CLOSED"
    PROVE  AlertsOf(c)' = AlertsOf(c)
<1>1. CASE caseOf' = caseOf
  BY <1>1 DEF AlertsOf
<1>2. ASSUME NEW s \in Sessions, NEW d \in Cases, NEW a \in Alerts,
             AddAlertToCase(s, d, a) \/ RemoveAlertFromCase(s, d, a)
      PROVE  AlertsOf(c)' = AlertsOf(c)
  <2>1. /\ Enters(s, d) /\ Modifiable(held[s][d])
        /\ \/ caseOf[a] = NoCase /\ caseOf' = [caseOf EXCEPT ![a] = d]
           \/ caseOf[a] = d /\ caseOf' = [caseOf EXCEPT ![a] = NoCase]
    BY <1>2 DEF AddAlertToCase, RemoveAlertFromCase, Link
  <2>2. d # c
    BY <2>1, CallerKnows DEF Modifiable, Current
  <2>3. \A b \in Alerts : caseOf'[b] = c <=> caseOf[b] = c
    BY <2>1, <2>2, AlertBinAssumption DEF CurrentInv, Inv, AlertsSound
  <2> QED
    BY <2>3 DEF AlertsOf
<1>3. CASE UNCHANGED vars
  BY <1>1, <1>3 DEF vars
<1> QED
  BY <1>1, <1>2, <1>3, LinkWriters

\* A service has loaded the case it writes.
LEMMA WriterHasLoaded ==
    ASSUME NEW s \in Sessions, NEW c \in Cases, CallOn(s, c) \/ EditOn(s, c), Respond(s)
    PROVE  Loaded(s) = {c} \/ row' = row
<1>1. CASE EditOn(s, c)
  BY <1>1 DEF EditOn, CreateTask, CompleteTask, ReopenTask, AddIoc, RemoveIoc, AddAttachment,
     AddTag, RemoveTag, AddNote, AddCollaborator, RemoveCollaborator, Edits, Enters
<1>2. CASE CallOn(s, c)
  BY <1>2 DEF CallOn, LoadCase, AssignCase, MoveCase, HoldCase, ResumeCase, CloseCase,
     ReopenCase, ArchiveCase, AddAlertToCase, RemoveAlertFromCase, Enters
<1> QED
  BY <1>1, <1>2

\* Copies stay current: nobody else writes the case a request has loaded.
LEMMA CurrentKept ==
    ASSUME Apart, CurrentInv, [Next]_vars
    PROVE  CopyIsCurrent'
<1>1. /\ row = [c \in Cases |-> row[c]] /\ \A c \in Cases : row[c] \in CaseRow
      /\ DOMAIN held = Sessions
      /\ \A c \in Cases : row[c].status = "ABSENT" => row[c] = Absent
  BY DEF CurrentInv, Inv, RowsSound, CaseSound, RequestsSound, ClockExact, ClockOK
<1>2. ASSUME NEW s \in Sessions, Respond(s),
             \A d \in Cases \ Loaded(s) : row'[d] = row[d]
      PROVE  CopyIsCurrent'
  <2>1. ASSUME NEW q \in Sessions, NEW c \in Loaded(q)' \cap Cases
        PROVE  Current(c, held[q][c])'
    <3>1. Loaded(s)' = {}
      BY <1>1, <1>2 DEF Respond, Loaded
    <3>2. q # s /\ held'[q] = held[q]
      BY <1>1, <1>2, <2>1, <3>1 DEF Respond
    <3>3. c \in Loaded(q) /\ c \in Cases \ Loaded(s)
      BY <2>1, <3>2 DEF Loaded, Apart
    <3>4. Current(c, held[q][c])
      BY <3>3 DEF CurrentInv, CopyIsCurrent
    <3> QED
      BY <1>2, <3>2, <3>3, <3>4 DEF Current
  <2> QED
    BY <2>1 DEF CopyIsCurrent
<1>3. ASSUME NEW s \in Sessions, NEW u \in Clients, NEW x \in Alerts \cup Cases, NEW r,
             Fetch(s, u, x, r), row' = row, x \in Cases => r = row[x] /\ r # Absent
      PROVE  CopyIsCurrent'
  <2>1. held'[s] = [y \in {x} |-> r] /\ \A q \in Sessions \ {s} : held'[q] = held[q]
    BY <1>1, <1>3 DEF Fetch
  <2>2. Loaded(s)' = {x} /\ held'[s][x] = r
    BY <2>1 DEF Loaded
  <2>3. \A c \in Loaded(s)' \cap Cases : Current(c, held[s][c])'
    BY <1>1, <1>3, <2>2 DEF Current
  <2>4. \A q \in Sessions \ {s} : \A c \in Loaded(q)' \cap Cases : Current(c, held[q][c])'
    BY <1>3, <2>1 DEF CurrentInv, CopyIsCurrent, Current, Loaded
  <2> QED
    BY <2>3, <2>4 DEF CopyIsCurrent
<1>4. ASSUME NEW s \in Sessions, NEW c \in Cases, CallOn(s, c) \/ EditOn(s, c), Respond(s)
      PROVE  CopyIsCurrent'
  <2>1. \A d \in Cases \ Loaded(s) : row'[d] = row[d]
    BY <1>4, WriterHasLoaded, OwnCaseOnly
  <2> QED
    BY <1>2, <1>4, <2>1
<1>5. ASSUME held' = held,
             \A c \in Cases : row[c].status = "ABSENT" \/
               (/\ row'[c].status = row[c].status /\ row'[c].left = row[c].left
                /\ row'[c].archived = row[c].archived)
      PROVE  CopyIsCurrent'
  BY <1>5 DEF CurrentInv, CopyIsCurrent, Current, Loaded
<1>6. ASSUME NEW s \in Sessions, NEW c \in Cases, CallOn(s, c)
      PROVE  CopyIsCurrent'
  <2>1. CASE Respond(s)
    BY <1>4, <1>6, <2>1
  <2>2. ASSUME NEW u \in Clients, LoadCase(s, u, c)
        PROVE  CopyIsCurrent'
    BY <1>3, <2>2 DEF LoadCase
  <2>3. Respond(s) \/ \E u \in Clients : LoadCase(s, u, c)
    BY <1>6 DEF CallOn, AssignCase, MoveCase, HoldCase, ResumeCase, CloseCase,
       ReopenCase, ArchiveCase, AddAlertToCase, RemoveAlertFromCase, Link, Save, Leave
  <2> QED
    BY <2>1, <2>2, <2>3
<1>7. ASSUME NEW s \in Sessions, NEW c \in Cases, EditOn(s, c)
      PROVE  CopyIsCurrent'
  <2>1. Respond(s)
    BY <1>7 DEF EditOn, CreateTask, CompleteTask, ReopenTask, SetTask, AddIoc, RemoveIoc,
       AddAttachment, AddTag, RemoveTag, AddNote, AddItem, RemoveItem, AddCollaborator,
       RemoveCollaborator, SaveContent, Save, Leave
  <2> QED
    BY <1>4, <1>7, <2>1
<1>8. CASE BinNext /\ UNCHANGED caseVars
  <2>1. row' = row
    BY <1>8 DEF caseVars
  <2>2. ASSUME NEW s \in Sessions, NEW u \in Clients, NEW a \in Alerts, LoadAlert(s, u, a)
        PROVE  CopyIsCurrent'
    <3>1. a \notin Cases
      BY AlertBinAssumption
    <3> QED
      BY <1>3, <2>1, <2>2, <3>1 DEF LoadAlert
  <2>3. \/ \E s \in Sessions, u \in Clients, a \in Alerts : LoadAlert(s, u, a)
        \/ \E s \in Sessions : Respond(s)
        \/ held' = held
    BY <1>8 DEF BinNext, SoftDeleteAlert, RestoreAlert, PermanentlyDeleteAlert, BeginPurge,
       PurgeNext
  <2> QED
    BY <1>2, <1>5, <2>1, <2>2, <2>3
<1>9. ASSUME NEW c \in Cases, CorrelateCase(c) \/ \E u \in Clients : CreateCase(u, c)
      PROVE  CopyIsCurrent'
  <2>1. held' = held /\ row[c].status = "ABSENT" /\ \A d \in Cases \ {c} : row'[d] = row[d]
    BY <1>1, <1>9 DEF CorrelateCase, CreateCase, Absent, NewCase
  <2> QED
    BY <1>5, <2>1
<1>10. CASE CheckCaseSlaBreaches
  <2>1. \A c \in Cases : row'[c] \in {row[c], [row[c] EXCEPT !.breached = TRUE]}
    BY <1>10 DEF CheckCaseSlaBreaches
  <2>2. \A c \in Cases : /\ row'[c].status = row[c].status /\ row'[c].left = row[c].left
                         /\ row'[c].archived = row[c].archived
    BY <1>1, <2>1 DEF CaseRow
  <2> QED
    BY <1>5, <1>10, <2>2 DEF CheckCaseSlaBreaches
<1>11. CASE Tick
  <2>1. ASSUME NEW s \in Sessions, NEW c \in Loaded(s)' \cap Cases
        PROVE  Current(c, held[s][c])'
    <3>1. c \in Loaded(s) /\ held'[s][c] = Nearer(held[s][c]) /\ row'[c] = Nearer(row[c])
      BY <1>11, <2>1 DEF Tick, Loaded
    <3>2. Current(c, held[s][c])
      BY <2>1, <3>1 DEF CurrentInv, CopyIsCurrent
    <3>3. held[s][c] \in CaseRow /\ row[c] \in CaseRow
      BY <1>1, <3>1, AlertBinAssumption DEF CurrentInv, Inv, RequestsSound, CopySound
    <3>4. \A r \in CaseRow : /\ Nearer(r).status = r.status /\ Nearer(r).archived = r.archived
                             /\ Nearer(r).left = IF r.left >= 0 THEN r.left - 1 ELSE r.left
      BY DEF CaseRow, Nearer
    <3> QED
      BY <3>1, <3>2, <3>3, <3>4 DEF Current
  <2> QED
    BY <2>1 DEF CopyIsCurrent
<1>12. CASE UNCHANGED vars
  BY <1>5, <1>12 DEF vars
<1>13. CASE UNCHANGED <<bin, caseOf, actor, held, sweep, caseVars>>
  BY <1>5, <1>13 DEF caseVars
<1>14. CASE \E s \in Sessions : Refuse(s)
  BY <1>2, <1>14 DEF Refuse, Leave
<1> QED
  BY <1>6, <1>7, <1>8, <1>9, <1>10, <1>11, <1>12, <1>13, <1>14 DEF Next

\* The case a request has loaded is the row, and every clock is exact.
THEOREM CurrentInvariant == Spec /\ []Apart => []CurrentInv
<1> DEFINE Clocks == \A c \in Cases : ClockExact(c)
<1>1. Init => CopyIsCurrent /\ Clocks
  BY CaseAssumption DEF Init, BinInit, CopyIsCurrent, Loaded, ClockExact, ClockOK, Absent, NewCase
<1>2. Inv /\ CopyIsCurrent /\ Clocks /\ Apart /\ [Next]_vars => CopyIsCurrent' /\ Clocks'
  <2> SUFFICES ASSUME Apart, CurrentInv, [Next]_vars PROVE CopyIsCurrent' /\ Clocks'
    BY DEF CurrentInv
  <2> QED
    BY CurrentKept, CaseStep
<1>3. CurrentInv <=> Inv /\ CopyIsCurrent /\ Clocks
  BY DEF CurrentInv
<1> HIDE DEF Clocks
<1> QED
  BY <1>1, <1>2, <1>3, InductiveInvariant, PTL DEF Spec

\* However often a case is held, resumed and reopened, and whenever the SLA
\* check comes in between, no SLA time is given or taken.
THEOREM SLAExact == Spec /\ []Apart => []SLAClockIsExact
<1>1. CurrentInv => SLAClockIsExact
  BY DEF CurrentInv, ClockExact, ClockOK, SLAClockIsExact
<1> QED
  BY <1>1, CurrentInvariant, PTL

\* A case marked as breached was worked on for longer than its SLA.
THEOREM BreachesJustified == Spec /\ []Apart => []BreachesAreJustified
<1>1. CurrentInv => BreachesAreJustified
  BY DEF CurrentInv, ClockExact, ClockOK, BreachesAreJustified
<1> QED
  BY <1>1, CurrentInvariant, PTL

\* A closed case gains notes and nothing else, an archived one not even those.
THEOREM ClosedFrozen == Spec /\ []Apart => ClosedIsFrozen
<1>1. CurrentInv /\ [Next]_vars =>
        [\A c \in Cases :
           /\ row[c].status = "CLOSED" /\ row'[c].status = "CLOSED" =>
                /\ row'[c].assignee = row[c].assignee
                /\ row'[c].tasks = row[c].tasks
                /\ row'[c].items \ Notes = row[c].items \ Notes
                /\ row'[c].collaborators = row[c].collaborators
                /\ AlertsOf(c)' = AlertsOf(c)
           /\ row[c].archived =>
                [row'[c] EXCEPT !.left = row[c].left] = row[c]]_<<row, caseOf>>
  BY CaseStep, ClosedLinks DEF FrozenRow
<1> QED
  BY <1>1, CurrentInvariant, PTL DEF Spec, ClosedIsFrozen
=============================================================================
