--------------------------- MODULE EventProcessor ---------------------------
(***************************************************************************)
(* The ingestion pipeline of api/workers/event_processor.py: web requests  *)
(* bulk-insert raw IngestionEvent rows, and any number of worker processes *)
(* run `run_worker`, which recovers stuck rows, claims a batch of PENDING  *)
(* rows, parses each of them and stores the normalized result.             *)
(*                                                                         *)
(* No statement of the worker runs inside a transaction, so every database *)
(* statement is one atomic action here and workers interleave between any  *)
(* two of them.  What a worker holds in Python (the ids it selected, the   *)
(* event objects it fetched, with their retry_count at that time) is its   *)
(* local state and is lost when the iteration is cut short.                *)
(***************************************************************************)
EXTENDS Integers, FiniteSets

CONSTANTS
    Workers,        \* the worker processes
    Events,         \* the rows that may be ingested, numbered by received_at
    Fingerprints,   \* (workspace, event_fingerprint) pairs, the unique key of NormalizedEvent
    FpOf,           \* the fingerprint build_normalized_event computes for each event
    CanSucceed,     \* events that some attempt may parse
    CanFail,        \* events that some attempt may fail on (no source, parser or database, bad log)
    BatchSize,      \* EVENT_PROCESSOR_BATCH_SIZE
    RetryLimit,     \* EVENT_PROCESSOR_RETRY_LIMIT
    StuckTimeout,   \* EVENT_PROCESSOR_STUCK_TIMEOUT_SECONDS, in units of Tick
    MaxFaults,      \* bound: crashes and failed database writes in a behaviour
    NoEvent         \* "no NormalizedEvent row has this fingerprint"

ASSUME EventProcessorAssumption ==
    /\ Events \subseteq Nat
    /\ FpOf \in [Events -> Fingerprints]
    /\ CanSucceed \cup CanFail = Events
    /\ BatchSize \in Nat \ {0}
    /\ RetryLimit \in Nat \ {0}
    /\ StuckTimeout \in Nat
    /\ MaxFaults \in Nat
    /\ NoEvent \notin Events

VARIABLES
    \* the database
    status,      \* IngestionEvent.processing_status, "ABSENT" before the row exists
    retry,       \* IngestionEvent.retry_count
    age,         \* time since processing_started_at, NotStarted when that is NULL
    normalized,  \* the raw_event of the NormalizedEvent row of each fingerprint
    \* the workers
    pc,          \* the next statement of each worker
    ids,         \* event_ids: the candidates it selected
    todo,        \* the fetched event objects it has not handled yet
    snap,        \* retry_count of those objects, as fetched
    done,        \* events_to_mark_processed
    \* the environment
    faults       \* faults so far, at most MaxFaults

dbVars == <<status, retry, age, normalized>>
localVars == <<pc, ids, todo, snap, done>>
vars == <<status, retry, age, normalized, pc, ids, todo, snap, done, faults>>

Statuses == {"ABSENT", "PENDING", "PROCESSING", "PROCESSED", "FAILED"}
Terminal == {"PROCESSED", "FAILED"}
PCs == {"recover", "select", "claim", "fetch", "loop", "create", "mark"}
NotStarted == -1

(***************************************************************************)
(* A retry_count stays below RetryLimit while the event may be retried,    *)
(* and one failed iteration adds at most two to it (UpdateEventFailure).   *)
(***************************************************************************)
Retries == 0 .. RetryLimit + 1

WithStatus(s) == {e \in Events : status[e] = s}

Init ==
    /\ status = [e \in Events |-> "ABSENT"]
    /\ retry = [e \in Events |-> 0]
    /\ age = [e \in Events |-> NotStarted]
    /\ normalized = [f \in Fingerprints |-> NoEvent]
    /\ pc = [w \in Workers |-> "recover"]
    /\ ids = [w \in Workers |-> {}]
    /\ todo = [w \in Workers |-> {}]
    /\ snap = [w \in Workers |-> [e \in Events |-> 0]]
    /\ done = [w \in Workers |-> {}]
    /\ faults = 0

-----------------------------------------------------------------------------
(* The web request and the clock. *)

\* IngestEventsView.post: one bulk_create of PENDING rows per request.
IngestEvents(S) ==
    /\ S # {}
    /\ S \subseteq WithStatus("ABSENT")
    /\ status' = [e \in Events |-> IF e \in S THEN "PENDING" ELSE status[e]]
    /\ UNCHANGED <<retry, age, normalized, localVars, faults>>

\* Time passes.  Only "older than StuckTimeout" is ever asked of an age, so it
\* saturates there.
Tick ==
    /\ \E e \in Events : age[e] \in 0 .. StuckTimeout
    /\ age' = [e \in Events |->
                 IF age[e] \in 0 .. StuckTimeout THEN age[e] + 1 ELSE age[e]]
    /\ UNCHANGED <<status, retry, normalized, localVars, faults>>

-----------------------------------------------------------------------------
(* The worker loop, one action per statement. *)

Goto(w, label) == pc' = [pc EXCEPT ![w] = label]

\* The end of an iteration, however it is reached: process_batch's locals die.
EndIteration(w) ==
    /\ Goto(w, "recover")
    /\ ids' = [ids EXCEPT ![w] = {}]
    /\ todo' = [todo EXCEPT ![w] = {}]
    /\ snap' = [snap EXCEPT ![w] = [e \in Events |-> 0]]
    /\ done' = [done EXCEPT ![w] = {}]

\* Mutant: the recovery UPDATE without its filter on PROCESSING.
StuckInAnyStatus == {e \in Events : age[e] > StuckTimeout}

\* processing_started_at < now - STUCK_TIMEOUT; NULL compares with nothing.
Stuck == {e \in WithStatus("PROCESSING") : age[e] > StuckTimeout}

RecoverStuckEvents(w) ==
    /\ pc[w] = "recover"
    /\ status' = [e \in Events |-> IF e \in Stuck THEN "PENDING" ELSE status[e]]
    /\ age' = [e \in Events |-> IF e \in Stuck THEN NotStarted ELSE age[e]]
    /\ Goto(w, "select")
    /\ UNCHANGED <<retry, normalized, ids, todo, snap, done, faults>>

\* The BatchSize PENDING rows received first.
Candidates ==
    LET pending == WithStatus("PENDING")
    IN  {e \in pending : Cardinality({d \in pending : d < e}) < BatchSize}

SelectCandidates(w) ==
    /\ pc[w] = "select"
    /\ \/ /\ Candidates = {}
          /\ EndIteration(w)
       \/ /\ Candidates # {}
          /\ ids' = [ids EXCEPT ![w] = Candidates]
          /\ Goto(w, "claim")
          /\ UNCHANGED <<todo, snap, done>>
    /\ UNCHANGED <<dbVars, faults>>

\* Mutant: the claim leaves processing_started_at NULL.
NeverStamped == NotStarted

\* processing_started_at = timezone.now()
JustStarted == 0

Claimable(w) == ids[w] \cap WithStatus("PENDING")

ClaimEvents(w) ==
    /\ pc[w] = "claim"
    /\ status' = [e \in Events |-> IF e \in Claimable(w) THEN "PROCESSING" ELSE status[e]]
    /\ age' = [e \in Events |-> IF e \in Claimable(w) THEN JustStarted ELSE age[e]]
    /\ \/ /\ Claimable(w) = {}
          /\ EndIteration(w)
       \/ /\ Claimable(w) # {}
          /\ Goto(w, "fetch")
          /\ UNCHANGED <<ids, todo, snap, done>>
    /\ UNCHANGED <<retry, normalized, faults>>

\* The second SELECT filters on the ids and on PROCESSING, not on who claimed.
Fetchable(w) == ids[w] \cap WithStatus("PROCESSING")

FetchClaimed(w) ==
    /\ pc[w] = "fetch"
    /\ todo' = [todo EXCEPT ![w] = Fetchable(w)]
    /\ snap' = [snap EXCEPT ![w] = [e \in Events |-> IF e \in Fetchable(w) THEN retry[e] ELSE 0]]
    /\ Goto(w, "loop")
    /\ UNCHANGED <<dbVars, ids, done, faults>>

\* Mutant: no `continue` after a handled event, which stays in the batch.
KeepInBatch(w, e) == UNCHANGED <<todo, snap>>

\* The loop moves past e; the object fetched for it is not looked at again.
Handled(w, e) ==
    /\ todo' = [todo EXCEPT ![w] = @ \ {e}]
    /\ snap' = [snap EXCEPT ![w][e] = 0]

\* Mutant: whatever parse_event did, the event is collected.
ParsedUnchecked(w) == todo[w]

Parsed(w) == todo[w] \cap CanSucceed

\* Source lookup, parser loading, parse_event and build_normalized_event all
\* went through: the event is collected, the database is not touched yet.
CollectParsed(w, e) ==
    /\ pc[w] = "loop"
    /\ e \in Parsed(w)
    /\ Handled(w, e)
    /\ done' = [done EXCEPT ![w] = @ \cup {e}]
    /\ UNCHANGED <<dbVars, pc, ids, faults>>

\* Mutant: one more retry than the limit allows.
ExhaustedLate(n) == n > RetryLimit

Exhausted(n) == n >= RetryLimit

(***************************************************************************)
(* update_event_failure writes retry_count, parse_error and                *)
(* processing_status of the fetched object over whatever the row holds     *)
(* now.  When that save raises, the catch-all of the loop calls it again   *)
(* on the same object, whose counter has been incremented already (n = 2), *)
(* and when that one raises too the event is passed over (LoseFailure).    *)
(***************************************************************************)
UpdateEventFailure(w, e, n) ==
    /\ pc[w] = "loop"
    /\ e \in todo[w] \cap CanFail
    /\ n = 2 => faults < MaxFaults
    /\ faults' = IF n = 2 THEN faults + 1 ELSE faults
    /\ retry' = [retry EXCEPT ![e] = snap[w][e] + n]
    /\ status' = [status EXCEPT ![e] =
                    IF Exhausted(snap[w][e] + n) THEN "FAILED" ELSE "PENDING"]
    /\ Handled(w, e)
    /\ UNCHANGED <<age, normalized, pc, ids, done>>

LoseFailure(w, e) ==
    /\ pc[w] = "loop"
    /\ e \in todo[w] \cap CanFail
    /\ faults < MaxFaults
    /\ faults' = faults + 1
    /\ Handled(w, e)
    /\ UNCHANGED <<dbVars, pc, ids, done>>

\* Mutant: the batch is marked PROCESSED before its rows are inserted.
MarkFirst(w) ==
    /\ pc[w] = "loop"
    /\ todo[w] = {}
    /\ Goto(w, "mark")
    /\ UNCHANGED <<dbVars, ids, todo, snap, done, faults>>

LeaveLoop(w) ==
    /\ pc[w] = "loop"
    /\ todo[w] = {}
    /\ \/ /\ done[w] = {}
          /\ EndIteration(w)
       \/ /\ done[w] # {}
          /\ Goto(w, "create")
          /\ UNCHANGED <<ids, todo, snap, done>>
    /\ UNCHANGED <<dbVars, faults>>

\* The events of a batch that normalize to fingerprint f.
Rivals(w, f) == {e \in done[w] : FpOf[e] = f}

\* bulk_create(ignore_conflicts=True): an existing row wins, and of a batch
\* with the same fingerprint the one the loop met first wins.
BulkCreate(w) ==
    /\ pc[w] = "create"
    /\ normalized' \in [Fingerprints -> Events \cup {NoEvent}]
    /\ \A f \in Fingerprints :
         IF normalized[f] # NoEvent \/ Rivals(w, f) = {}
         THEN normalized'[f] = normalized[f]
         ELSE normalized'[f] \in Rivals(w, f)
    /\ Goto(w, "mark")
    /\ UNCHANGED <<status, retry, age, ids, todo, snap, done, faults>>

\* The last UPDATE filters on the ids only.
MarkProcessed(w) ==
    /\ pc[w] = "mark"
    /\ status' = [e \in Events |-> IF e \in done[w] THEN "PROCESSED" ELSE status[e]]
    /\ EndIteration(w)
    /\ UNCHANGED <<retry, age, normalized, faults>>

\* A crash of the process (which restarts), or an exception of a statement,
\* which run_worker catches: either way the iteration is abandoned here.
AbortIteration(w) ==
    /\ pc[w] # "recover"
    /\ faults < MaxFaults
    /\ faults' = faults + 1
    /\ EndIteration(w)
    /\ UNCHANGED dbVars

-----------------------------------------------------------------------------
\* What a running worker does next.
Work(w) ==
    \/ RecoverStuckEvents(w)
    \/ SelectCandidates(w)
    \/ ClaimEvents(w)
    \/ FetchClaimed(w)
    \/ \E e \in Events : CollectParsed(w, e)
    \/ \E e \in Events, n \in 1 .. 2 : UpdateEventFailure(w, e, n)
    \/ \E e \in Events : LoseFailure(w, e)
    \/ LeaveLoop(w)
    \/ BulkCreate(w)
    \/ MarkProcessed(w)

Next ==
    \/ \E S \in SUBSET Events : IngestEvents(S)
    \/ Tick
    \/ \E w \in Workers : Work(w) \/ AbortIteration(w)

Spec == Init /\ [][Next]_vars

\* The batch a worker has claimed and not finished with.
Held(w) == IF pc[w] \in {"fetch", "loop", "create", "mark"} THEN ids[w] ELSE {}

\* No claim runs into the timeout while the worker that made it is at work.
Timely ==
    \A w \in Workers : \A e \in Held(w) :
        age[e] = StuckTimeout => age'[e] # StuckTimeout + 1

(***************************************************************************)
(* A worker process is never parked for ever between two statements, the   *)
(* clock runs, and a worker overruns the timeout (600 seconds for a batch  *)
(* of 100 parses) only finitely often: without the last one two workers    *)
(* can take an event away from each other for ever.  Nothing is assumed of *)
(* the clients.                                                            *)
(***************************************************************************)
Fairness ==
    /\ WF_vars(Tick)
    /\ \A w \in Workers : WF_vars(Work(w))
    /\ <>[][Timely]_vars

FairSpec == Spec /\ Fairness

-----------------------------------------------------------------------------
(* Properties. *)

\* Every column and every local variable holds a value of its type; in
\* particular no interleaving of stale writes takes retry_count past its bound.
TypeOK ==
    /\ status \in [Events -> Statuses]
    /\ retry \in [Events -> Retries]
    /\ age \in [Events -> NotStarted .. StuckTimeout + 1]
    /\ normalized \in [Fingerprints -> Events \cup {NoEvent}]
    /\ pc \in [Workers -> PCs]
    /\ ids \in [Workers -> SUBSET Events]
    /\ todo \in [Workers -> SUBSET Events]
    /\ snap \in [Workers -> [Events -> Retries]]
    /\ done \in [Workers -> SUBSET Events]
    /\ faults \in 0 .. MaxFaults

\* An event is only ever PROCESSED when the NormalizedEvent its fingerprint
\* names is stored: process_batch inserts before it marks, and neither a crash
\* between the two nor another worker's stale write can turn that around.
ProcessedIsNormalized ==
    \A e \in WithStatus("PROCESSED") : normalized[FpOf[e]] # NoEvent

\* recover_stuck_events finds a row only by its processing_started_at: no row
\* is ever PROCESSING with a NULL there, which would strand it for good.
StuckIsDetectable ==
    \A e \in WithStatus("PROCESSING") : age[e] # NotStarted

\* Whatever stale retry_count a slow worker writes back, a row is FAILED only
\* once its counter reached the limit, and is offered for another attempt only
\* while it is below: no row is retried for ever on a spent budget.
RetryBudget ==
    \A e \in Events :
        /\ status[e] = "FAILED" => retry[e] >= RetryLimit
        /\ status[e] \in {"PENDING", "PROCESSING"} => retry[e] < RetryLimit

\* Outcomes agree with the data through every retry, recovery and duplicate
\* claim: FAILED only for an event an attempt can fail on, PROCESSED and the
\* authorship of a normalized row only for one an attempt can parse.
OutcomesAreJustified ==
    /\ WithStatus("FAILED") \subseteq CanFail
    /\ WithStatus("PROCESSED") \subseteq CanSucceed
    /\ \A f \in Fingerprints : normalized[f] # NoEvent =>
          /\ normalized[f] \in CanSucceed \ WithStatus("ABSENT")
          /\ FpOf[normalized[f]] = f

\* process_batch's "This prevents multiple workers from processing the same
\* events": no event object is in the hands of two workers.
ClaimsAreExclusive ==
    \A v, w \in Workers :
        v # w => (todo[v] \cup done[v]) \cap (todo[w] \cup done[w]) = {}

\* With one worker process a batch is the worker's own: no recovery and no
\* failure takes an event out of PROCESSING while it is being worked on.
HeldIsProcessing ==
    \A w \in Workers : \A e \in todo[w] \cup done[w] : status[e] = "PROCESSING"

\* With one worker process the pipeline implements EventLedger: PENDING and
\* PROCESSING are the ledger's OPEN.
OutcomeOf(s) == IF s \in {"PENDING", "PROCESSING"} THEN "OPEN" ELSE s

Ledger == INSTANCE EventLedger WITH
    outcome <- [e \in Events |-> OutcomeOf(status[e])], rows <- normalized

ImplementsLedger == Ledger!Spec

\* Every row that was ingested reaches an outcome and in the end keeps it,
\* through crashes, failed writes, recoveries and duplicate claims.
EventuallySettled ==
    \A e \in Events : <>[](status[e] \in Terminal \cup {"ABSENT"})

-----------------------------------------------------------------------------
(* The inductive invariant behind the safety properties. *)

\* A row that does not exist yet has the defaults bulk_create gives it.
AbsentIsFresh == \A e \in WithStatus("ABSENT") : retry[e] = 0

\* What a worker holds: rows that exist, objects with budget left when they
\* were fetched, parsed events, and stored ones once it is about to mark.
BatchesAreSound ==
    \A w \in Workers :
        /\ \A e \in ids[w] \cup todo[w] \cup done[w] : status[e] # "ABSENT"
        /\ \A e \in todo[w] : snap[w][e] < RetryLimit
        /\ done[w] \subseteq CanSucceed
        /\ pc[w] = "mark" => \A e \in done[w] : normalized[FpOf[e]] # NoEvent

IInv ==
    /\ TypeOK
    /\ RetryBudget
    /\ StuckIsDetectable
    /\ ProcessedIsNormalized
    /\ OutcomesAreJustified
    /\ AbsentIsFresh
    /\ BatchesAreSound
=============================================================================
