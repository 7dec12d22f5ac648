# AegiSphere in TLA+

AegiSphere is a Django application for security operations: agents post raw
events, workers normalize them, detection rules turn them into alerts,
analysts work on the alerts, related alerts become cases, and people join
and leave the workspaces all of this lives in.  It runs as web processes, three
worker loops and a few scheduled jobs over one relational database (SQLite by
default) and has no locks of its own: what is not inside `transaction.atomic`
interleaves statement by statement, and every Django object is a copy of its
row that may be outdated when it is saved.

This directory holds TLA+ models of that system, the TLC configurations that
check them, and proofs that TLAPS checks.  To repeat a run:

    tlc -workers 2 -config EventProcessor_work.cfg MCEventProcessor.tla
    tlapm EventProcessorProofs.tla

## Inventory

| Part | State it keeps | Operations | What makes it hard |
|---|---|---|---|
| Ingestion API (`api/views/ingestion.py`, `api/authentication.py`, `api/services`) | `IngestionEvent` rows, `ApiKey` rows with `is_active` and a usage counter | authenticate, post a batch; create, revoke keys | requests save the key object they loaded, so an old copy overwrites a newer row |
| Organization keys (`organizations/services.py`, `organizations/views.py`) | `OrganizationAPIKey` rows | generate, revoke, rotate | a second key table, which authentication never reads |
| Event processor (`api/workers/event_processor.py`) | status, retry counter, claim time of each event; `NormalizedEvent` rows | recover stuck, select, claim, fetch, parse, store, mark | several workers, crashes between any two statements, timeouts, stale counters |
| Parsers (`parsers/`) | none | payload to fields | pure |
| Detection engine (`alerts/workers/detection_engine.py`) | none beyond its loop | count events per rule and window, trigger | sliding window against fixed buckets, restarts, overlap |
| Alert creation (`alerts/services.py`) | `Alert` rows | suppress, merge, create | read, then write |
| Correlation engine (`alerts/workers/correlation_engine.py`) | `Case` rows, alert status | match conditions, open cases, mark alerts | snapshot of alerts that analysts change |
| Alert workflow (`alerts/services.py` and its policies, `alerts/tasks.py`) | status, assignee, lock, `resolved_at` | assign, change status, acknowledge, reopen, bulk operations, lock, unlock, auto-unlock | stale copies, lock expiry, a job that can be aborted |
| Alert bin (`alerts/services.py`, `alerts/tasks.py`) | `is_deleted`, `deleted_at`; also suppression, escalation, deadline | soft delete, restore, delete, retention job; suppress, escalate, extend | the job deletes what it read earlier; alerts that cases protect |
| Case management (`cases/`) | case status, assignee, deadline, breach mark, alerts, collaborators, tasks, notes, IOCs, attachments, tags; the pause in the activity log | create, assign, hold, resume, close, reopen, archive, link and unlink alerts, edit contents, SLA check | a clock that is stopped and restarted through the log; rows shared with the bin |
| Governance (`workspaces/`, `organizations/services.py`, `core/models.py`) | memberships, join requests, invites, block list, accounts, the workspace | submit, withdraw, approve, reject, invite, revoke, accept, block, unblock, change role, remove, leave, transfer, add, delete account, delete workspace; expiry and purge jobs | check-then-write, deadlines, rows that come back after archiving |
| Workspace selection, settings, audit, notifications | session data, log rows | switch, update, append | none |
| Dashboards, metrics, exports, admin, UI | none | read | none |

How the parts meet: the API writes events that the processor reads; the
processor's normalized rows are counted by the detection engine, which calls
`create_alert`; the alerts are shared by analysts, the auto-unlock job and the
correlation engine, which opens cases.  Analysts put alerts into cases and the
bin deletes them, unless a case holds them.  Memberships decide who may do what
to alerts and cases; a member who is demoted or removed keeps the alerts assigned to him
and his locks.  There are no messages or callbacks, the database is the only channel.

What makes each part correct:

* API: nothing enters without a key that was valid when it was asked for, a
  revoked key stays revoked, use is on record;
* processor: no event is lost or settled twice, no event is PROCESSED without
  its normalized row, retries are bounded and every event is settled;
* detection, alert creation and correlation: one alert per interval, no burst
  lost but to a suppression, suppressed alerts keep their distance, every match
  ends in a case;
* alert workflow: statuses move along the table, a lock that was seen is
  respected, a final alert is stamped and unlocked;
* cases and bin: SLA time is neither lost nor won, a closed case stays as it was
  closed, a case loses its last alert to nothing but two removals at once;
* governance: an owner always remains, only granted people come in, decisions
  and blocks hold, nothing waits for ever.

`PROJECT.json` lists every part with its status, and every hazard at its line.

## Modules

| Module | Models | State |
|---|---|---|
| `EventProcessor` | the ingestion pipeline, one action per database statement of a worker | rows (`status`, `retry`, `age`, `normalized`) and each worker's Python variables (`ids`, `todo`, `snap`, `done`, `pc`) |
| `EventLedger` | what the pipeline promises: an accepted event is settled once and for all | `outcome`, `rows` |
| `Ingestion` | the API requests and both key tables, composed with `EventProcessor`: the events they insert are the workers' input | `keyRow`, of each request the key object it holds (`req`); history `uses`, `author` |
| `AlertPolicy` | roles and how they change, transition table, assignment and lock rules, as operators on rows | `roleOf` |
| `AlertWorkflow` | requests that load alerts and later write columns of them, the auto-unlock job, the engine's status write | `row`, and per request `actor`, `copy`; the job's `sweep`, `seen`; history `retaken` |
| `AlertBin` | recycle bin and retention job of alerts, and the `CaseAlert` rows that protect them | `bin`, `caseOf`, per request `actor`, `held`; the job's `sweep` |
| `CaseWorkflow` | every case service, the SLA check and the clock, composed with `AlertBin` | `row` (cases with their contents), `listed` (the prefetched alerts of a loaded case), `paused` (the activity log); history `worked`, `crashed` |
| `AlertPipeline` | detection engine with `create_alert`, correlation engine, analysts around them | `event`, `alert`, `cases`, positions of the workers (`detector`, `engine`), `now` |
| `Governance` | membership of one organization workspace, up to its deletion | `member`, `request`, `invite`, `blocked`, `exists`, `deleted`, and per session what it has checked (`doing`); history `overtaken` |
| `EventProcessorProofs`, `EventLedgerProofs`, `IngestionProofs`, `AlertWorkflowProofs`, `CaseWorkflowProofs`, `AlertPipelineProofs`, `GovernanceProofs` | proofs about the module they are named after | |
| `MC*` | names and small constants for TLC | |

How they compose: `Ingestion` extends `EventProcessor`, and its specification
implements that of the workers alone (`RequestsOnlyFeed`); `EventProcessor`
implements `EventLedger` as long as claims are exclusive, as they are with one
worker; `CaseWorkflow` extends
`AlertBin`, which like `AlertWorkflow` extends `AlertPolicy`.  `AlertPipeline` and
`AlertWorkflow` look at the same rows from two sides: the first has all the alerts
and of the analysts' work only that a status is written at any moment, whatever it is by then; the
second has all of that work and one write of the engine.

**Atomicity.**  One action is one database statement or one `atomic` block.
The code of `EventProcessor` has no transactions, so each statement is an action and a
worker can stop between any two.  A web request of `AlertWorkflow` is `Load`
(read the rows) and one operation that decides on the copy and writes exactly
the columns of the code's `update_fields`.  An API request of `Ingestion` is three:
the SELECT of the key, its save, and the insert of the events, with the checks on
the object in between.  A case service is likewise a load and one transaction,
which SQLite, the configured database, serializes with all the others.  The columns of
the case and the list of its alerts, which the loaders prefetch and the services count, are as
old as the load; everything else is queried inside the transaction.  A request of `Governance` is
`Check...` (the tests a service makes in autocommit) and the write, with the
tests that lie inside the transaction in the write; `leave_workspace` tests
inside and is therefore one step.  The two steps have the same name but for
`Check`.  `AlertPipeline` separates reading the clock, counting, `create_alert`'s
reads and its write, and for the correlation engine the snapshot and, in each turn of
the loop over conditions, the look-up of the case and the transaction that makes it.
The catch-all of a rule, in either engine, may end it at any of these steps.

**Time.**  `EventProcessor`, `AlertWorkflow` and `AlertBin` have an `age` that counts up to
one past the timeout, since only "older than the timeout" is ever asked.
`Governance` keeps one bit per deadline (`late`, `recent`, `cooling`), flipped
by an action of the environment at any moment.  `CaseWorkflow` has what is left of a deadline, down to
"past", in the row and in every copy.  `AlertPipeline` counts
instants up to `MaxTime`, in which both windows and buckets are measured.

**Abstractions.**  Parsing is which events may fail and which fingerprint they
yield; an event whose parsing meets a database error counts among those that may fail.  An alert's title, severity and payload are left out.  A detection rule
with a `group_by` counts as one rule per group.  A suppression rule
is the set of detection rules whose alerts it matches: its name is optional and
matches as a part of a source or title, and a category matches several rules, so one
rule's alert may silence another's.  In `AlertPipeline` the statuses that
`create_alert` merges with are one value and the others, but for CORRELATED, another;
`AlertWorkflow` has all of them.  Roles change at any moment in `AlertWorkflow`, `AlertBin` and
`CaseWorkflow`, among those `RolesOf` gives a user.  In `Ingestion` they are constant: a
role is read once per request, when a key is made or revoked, and nothing that is checked depends on
it.  In `Governance` analysts' tiers
are represented by the viewer role, which has the same rights there.
Requests of `Governance` that the workspace's own switches close (`invite_only`,
`allow_join_by_id`) are those of a workspace that takes requests.  Keys have no secrets,
and the throttle and payload checks are refusals that may come at any time.

**The membership check of the case services.**  `_ensure_actor_in_workspace` takes
a case and is handed `case.workspace` by nearly all its callers; it raises
`AttributeError`, so as the code stands no case can be worked on.  What the services
do behind it is worth checking all the same, for the day the argument is put right.  `PassesCase`
is that argument: FALSE is the code, and `case_lookup` shows what it does to
the calls; TRUE is the check as its signature asks, and is used by `case_work` and, in
either value, by the proofs.

## Runs

Passing runs (`expect: pass`):

| Run | Question | Bounds |
|---|---|---|
| `ep_work` | Do two workers with a crash or failed write keep rows, counters and outcomes consistent, and settle every event? | 2 workers, 2 events, batch 2 so that batches overlap; timeout 0 so that a claim expires as soon as time passes; the code's retry limit of 3; 1 fault; one event can parse or fail, the other only fail |
| `ep_keys` | Do the API requests, the key pages and one worker together keep keys and events as promised, and implement `EventLedger`? | 2 overlapping requests, one key of each table, 2 uses of a key, so that an old copy can overwrite a newer row; 2 events of one fingerprint; 1 fault |
| `aw_work` | Are columns of an alert consistent, transitions legal and locks respected when requests race each other, the job and the engine? | two requests; one alert, as each property is about one and a bulk operation treats each of its alerts by itself; a manager who may be demoted and an analyst who may be removed; the job runs as the manager, so that it also meets his own lock and is aborted; a lock timeout of 0 |
| `case_work` | Does the life of a case keep its clock, its evidence and its closed state? | one request at a time, of a manager who may be demoted to tier 2, and a tier 1 analyst he can name; 1 case; 2 alerts so that the last one differs from the others; one title, IOC, file, tag and note with at most one in the case at a time, and those only while one of the alerts is as it was created (`OneAlertWithContents`), since no service looks at contents and at a second alert; SLA of 1 so that it can be whole, used up and past; a retention of 0 |
| `gov_work` | Does any sequence of membership operations keep the promises, with jobs and deadlines between check and write? | an owner and a joiner, who can become owner in turn; one request at a time; 2 join requests so that one can follow the other; 1 invite; invites and role changes give the manager role, approval the viewer role and transfer the owner role, so that all three occur |
| `pipe_work` | Are bursts reported once and matches brought into cases while analysts write statuses and workers fail and restart? | 2 rules with thresholds 1 and 2, one suppression that matches both, so that one rule's alert silences the other; `MaxTime` 2 with windows of 2 and a suppression window of 1, so that two buckets and a boundary occur; 1 event of a rule per instant |

What they show:

* `ep_work`: `ProcessedIsNormalized` (a PROCESSED event has a row with its
  fingerprint), `StuckIsDetectable` (a PROCESSING event always has the time
  that recovery searches by), `RetryBudget`, `OutcomesAreJustified`, and
  `EventuallySettled`.
* `ep_keys`: `HeldIsProcessing`, `ImplementsLedger` (the refinement, of the whole
  composition), `UsageIsCounted` (lost updates keep the counter between one and
  the number of uses), `EventsAreAttributed` (no event without a key on record as
  used), `RevocationIsFinal`.  With two workers the refinement fails (a settled
  event can be reopened by a stale save), which is why the run has one.
* `aw_work`: `LocksAreTimed` and `FinalIsStamped` (the columns that belong together stay
  together whichever request overwrites which), `TransitionsAreLegal` (a status is moved
  along the table from what its request has read, or by the engine), `LocksAreRespected`
  (a lock ends by its holder, a manager, the job after the timeout, or a request that had not
  seen it), `ResolvingUnlocks` (only a lock that the request had not seen survives a
  resolution).
* `case_work`: `SLAClockIsExact` (hold and resume neither give nor take time),
  `BreachesAreJustified`, `ClosedIsStamped`, `ClosedIsFrozen`, `EvidenceStays` (neither the
  bin nor the retention job nor a request takes the last alert of a case).
* `gov_work`: `OwnersRemain`, `BlocksHold`, `OwnersAreProtected`,
  `DecisionsStand`, `AdmissionsAreGranted`, `RequestsAreSettled`.
* `pipe_work`: `OneAlertPerBucket`, `MutedStayQuiet`, `BurstsAreReported` (what is not
  reported was suppressed, or its rule failed and stays in the window for the next evaluation),
  `MatchesReachACase` (skipped, failed and half-finished evaluations leave nothing behind
  that a later one would take for done).

What two requests that decide on old copies can do to each other is part of these
properties where it could be said in terms of what each has read: the three action properties
of alerts name the copy, `EvidenceStays` the list, and the action properties of `Governance` except what
a request writes after another has written since it checked (`ByOvertaken`).
`aw_work` has two requests.  `case_work` and `gov_work` have one, since two are more states
than TLC gets through in minutes; with one, `ByOvertaken` is never true and no list names an
alert its case has lost, so the exceptions do not weaken these runs.  For any number
of requests, with the exceptions, the properties are proved.  `SLAClockIsExact`,
`BreachesAreJustified` and `ClosedIsFrozen` do not survive two requests on one case; they are proved for requests
that are kept apart (under Proofs).

Runs in which the program breaks something a comment or docstring says:

| Run | Statement | What happens |
|---|---|---|
| `ep_claims` | "Fetch only the events successfully claimed" | the fetch asks for PROCESSING rows among the candidates, so it also returns those another worker claimed |
| `aw_takeover` | "If lock is expired (should_auto_unlock), clear it first" | `can_lock` refuses before the expiry is looked at |
| `case_lookup` | "Raise CasePermissionDenied if actor not in case workspace" | the check is handed a workspace and raises `AttributeError` |
| `gov_visible` | approval "create/reactivate membership" | the row stays archived, and the reactivated member is invisible to every check |
| `gov_owner` | "If user is last ORG_OWNER in any organization, raise" | the other owner may be an account that was deleted before |
| `pipe_conditions` | "All conditions met! Create a Case" | the block is inside the loop and runs without any match |

Deadlock is checked except where the cfg says why the system may really stop, as
in `Governance_work.cfg`: a workspace without anybody who can act is at rest.
`ep_keys` and `aw_work` take their requests and `case_work` its alerts as symmetric: they
check no liveness, and the definitions name no single one.

### Fairness

* `EventProcessor`: a worker process keeps executing its loop
  (`run_worker` is `while True` and survives exceptions), the clock runs, and a
  worker overruns the 600 second timeout only finitely often (`Timely`).  The last one is
  an assumption about load, not something the code enforces: without it two
  workers can take an event from each other for ever.  The number of faults is
  bounded.
* `Governance`: the command `expire_join_requests`, whose docstring gives its
  daily cron entry, and the passing of each deadline.
* `Ingestion`, `AlertWorkflow`, `CaseWorkflow` and `AlertPipeline`: none, their properties
  are safety properties.  In particular nothing is said about expired locks being freed: the auto-unlock
  job is a plain function for which the repository holds no schedule, and an expired
  lock of its own account aborts it.

## Proofs

`EventProcessorProofs` proves for any number of workers, events,
fingerprints, any batch size, retry limit, timeout and number of faults:
`TypeOK`, `ProcessedIsNormalized`, `StuckIsDetectable`, `RetryBudget` and
`OutcomesAreJustified`, each as `Spec => []...`.  The assumptions are those of
`EventProcessorAssumption`.  None of the properties is inductive alone: a
worker writes from what it remembers.  The invariant `IInv` adds what its memory must satisfy,
`BatchesAreSound` (what a worker is about to mark PROCESSED has a row,
what it counts as failed can fail, its remembered counters are within the
budget) and `AbsentIsFresh`.  One lemma per action shows that it is preserved.

`AlertWorkflowProofs` proves every property of `aw_work` for any users, alerts and number of
concurrent requests, without further hypotheses.  `TypeOK`, `LocksAreTimed` and
`FinalIsStamped` are properties of one row (`RowSound`); a copy is a row some time ago, and
every write sets the columns that depend on each other together, so it does not matter how old
the copy was.  For `TransitionsAreLegal`, `LocksAreRespected` and `ResolvingUnlocks` each step is split into
what it does to one alert: a request's operation was allowed by its copy, the engine
writes one status, and the job takes only a lock that it found expired and still is, unless it
was taken anew (`SweepIsJust`, inductive by itself).

**Kept apart.**  A few properties cannot be had when two requests, or two workers, decide on
what they read earlier.  They are stated as `Spec /\ []Apart => ...`: in `CaseWorkflow` no two requests hold
the same case, in `Governance` no two are between check and write, and in `AlertPipeline` no two detection
workers are between look-up and write of the same rule (`Apart`), or of rules that one
suppression matches (`QuietApart`).  The code does not
enforce it; locking the rows from the load to the write would, and so does a server that
handles one request at a time.  The theorems say that nothing else is needed: jobs, engine, deadlines, restarts and
requests on other rows may come at any moment.  A single session or worker satisfies it
(`OneIsApart`), so each of these runs is an instance.  This concerns `SLAClockIsExact`,
`BreachesAreJustified`, `ClosedIsFrozen`, `OneAlertPerBucket`, `MutedStayQuiet` and the
state form of `OwnersRemain`, `OwnerRemains`.

`AlertPipelineProofs` proves, for any rules, thresholds, windows, suppressions and conditions,
`TypeOK`, `BurstsAreReported` and `MatchesReachACase` with any number of
detection workers, and `OneAlertPerBucket` and `MutedStayQuiet` with workers kept
apart.  Every writer of the alerts either keeps their ids, rules,
intervals and times (`Kept`) or appends one (`CreateRows`).  `OneAlertPerBucket` and
`MutedStayQuiet` are not inductive alone, because a worker writes what it looked up earlier:
`TriggerIsFresh` and `MuteIsFresh` say that what it found is still true when it
writes, and another worker at the same rule, or the same suppression, is the one thing that could make it false.
`BurstsAreReported` rests on `MergeTarget`: the alert found for a merge keeps its rule and
interval whoever writes it (`IntervalsKept`), so a merge reports the burst as a
new alert would.  `MatchesReachACase` needs no more than types: at the last
condition `condition_matches` holds all that match, and either the look-up has found a case of
exactly these or the transaction makes it.

`EventLedgerProofs` proves the refinement of `EventLedger` for any number of workers,
events, batch size, timeout, retries and faults, in every behaviour with exclusive
claims: `Spec /\ []ClaimsAreExclusive => ImplementsLedger`.  The hypothesis is what
`process_batch`'s comment says of the claim, and `ep_claims` shows that the fetch breaks it; the
theorem says that nothing else stands between the code and the ledger.  The recovery may
offer an event again that is being worked on; until somebody else fetches it, it stays
PENDING or PROCESSING until its worker settles it (`HeldIsOpen`), so each settling
write is a step of the ledger, and all other statements are stutters (`SettleStep`,
`LedgerStep`).  `OneWorkerImplements` is the case of the run.  `HeldIsProcessing` needs a single worker
(`OneWorker`), whose recovery runs before it has fetched anything (`BatchIsHeld`).

`IngestionProofs` proves that the composition implements the workers'
specification (`RequestsOnlyFeed`), so that each theorem above carries over, and, for any keys and
any number of concurrent requests, `WebTypeOK`, `UsageIsCounted`, `EventsAreAttributed`
and `RevocationIsFinal`.  The strengthening is what a request may hold: a copy of a
key is that key some time ago, and its counter is not ahead of the uses.

`CaseWorkflowProofs` proves `TypeOK`, `ClosedIsStamped` and
`EvidenceStays` for any users, cases, alerts and number of requests and either value
of `PassesCase`.  A copy may be outdated in every column, but a
status is only ever written with the stamp it needs.  For `EvidenceStays` a step that takes a link is
one of two services; if the list it counts has more than one alert and the row is left with
none, the list names an alert the case no longer has.
`SLAClockIsExact`, `BreachesAreJustified` and `ClosedIsFrozen` are proved with requests kept
apart.  Two facts make them inductive: the held case agrees with its row in status, deadline and
archiving (`CopyIsCurrent`; new links and a breach mark may have come since), and
`ClockExact`, by which what is left of the deadline, or was left at the hold, is the SLA less the
time worked, a held case has no deadline, and no case is marked before that time is over.

`GovernanceProofs` proves for any users, join requests, invites and number of sessions
`TypeOK`, `OwnersRemain`, `BlocksHold`, `OwnersAreProtected`, `DecisionsStand` and
`AdmissionsAreGranted`, and with requests kept apart the invariant `OwnerRemains`.  None is
inductive, since a write relies on what was checked before: `Remembered` says that what a
session's check has found still holds, unless the session was overtaken.  The
core of the proof is that no job and no deadline that may pass in between can undo it; and since
every write puts the other sessions among the overtaken, the properties say that an overtaken request is the
only thing that can do harm.

Only model-checked: the liveness properties `EventuallySettled` and `RequestsAreSettled`.  Liveness under fairness is out of the prover's reach.  Every
other property of a passing run is a theorem.

## What the models say beyond the runs

These follow from the models, many under constants that no run uses, and agree with a
reading of the code:

* With two sessions in `Governance` the exceptions come about: two owners who
  downgrade each other at the same moment both pass the last-owner test, which
  is outside the transaction, and none remains; a request submitted while its user is
  blocked stays pending; the second of two reviewers overwrites the first; two users redeem one
  invite.
* An expired join request can still be approved by a reviewer who checked it in time.
* With two sessions in `AlertWorkflow` (as in `aw_work`) two requests both find the alert free and the second
  locker takes the lock from the first; a resolution leaves a lock that came after its
  load; and a status decided on an old copy overwrites a newer one, CORRELATED included.
* Nothing takes the alerts and locks of a demoted or removed member away, so an
  alert may be assigned to, or locked by, somebody who may no longer work on it.
* Two removals at once, each with a list of two alerts, leave a case without any.
* The alerts of a case the engine opened are no `CaseAlert` rows, so the bin and the retention job
  may delete them, and the join table of `Case.alerts` cascades.
* The auto-unlock job unlocks a lock that was renewed after its query, and is
  aborted by an expired lock of its own account, for which it may not use `force`.
* The correlation engine turns closed alerts into CORRELATED, and no transition
  leaves CORRELATED but that of a request which loaded the alert before.
* A suppression without a name, or with a short one, silences other rules' bursts.
* With two detectors, `OneAlertPerBucket` fails.
* `leave_workspace` needs `can_remove_members`, so viewers and analysts cannot
  leave; `accept_invite` does not consult the block list.
* With two sessions in `CaseWorkflow`, `SLAClockIsExact`, `BreachesAreJustified` and
  `ClosedIsFrozen` fail: a case is edited on the copy of a time when it was open, and
  two holds of one case put the rest of the SLA down twice.
* The retention job deletes an alert that a manager restored after its query, and ends with
  an error at the first alert a case protects, so the alerts after it stay.
* An `OrganizationAPIKey` authenticates nothing, although its docstring says it is "for SIEM
  integrations, log ingestion, and external services" (`organizations/models.py:60`);
  rotating a revoked one hands out a secret and leaves it revoked; the
  `api_access_enabled` switch is never consulted.
* `delete_workspace` is refused by the database as long as there is any case, resolved and
  archived ones included, although its message asks for no more than that.
* The case services, the bin and the services of `ApiKey` have no view that calls them;
  they are modelled as the functions they are.
* `add_member`, `transfer_ownership` and the two membership purge jobs have no
  caller in the application; they are modelled as the service functions they are.

## Not modelled

* Parsers: pure; `EventProcessor` keeps which events fail and which fingerprints meet.
* `suppress_alert`, `unsuppress_alert`, `escalate_alert` and `extend_sla`: each writes columns of
  one alert that nothing else decides on, and none has a caller.
* Rule seeding of the detection engine, risk, priority and SLA values of `create_alert`:
  data.
* Organization settings: switches that are stored and, but for the two `Governance`
  assumes open, not consulted.
* Workspace selection and middleware: session data; the membership is read again on every
  request.
* The signal that creates a personal workspace: one step, once per account.
* Audit and notification rows: appended, failures swallowed, never read to decide anything.
* Dashboards, metrics, selectors, exports, serializers: reading and layout.
* Admin, migrations, scripts, settings, templates.

## What is left

1. Composition of `Ingestion` and `AlertPipeline` through the normalized rows, to bound how
   late an event may be and still be counted.
2. A weaker hypothesis for the SLA clock and the frozen case: which requests on the same case
   may overlap because they write different columns.
3. A smaller instance of `Governance` in which two sessions can be checked, for instance
   without invites, to see in TLC the exceptions that the proofs allow for.
