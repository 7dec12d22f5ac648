------------------------ MODULE EventProcessorProofs ------------------------
(***************************************************************************)
(* The safety properties of EventProcessor for any number of workers,      *)
(* events and fingerprints, any batch size, retry limit and timeout, and   *)
(* any number of faults.  They all follow from one inductive invariant,    *)
(* IInv: the properties themselves, plus what each worker's local state    *)
(* must satisfy for its stale writes to be harmless.                       *)
(***************************************************************************)
EXTENDS EventProcessor, TLAPS

\* The initial state satisfies the inductive invariant.
LEMMA InitIInv == Init => IInv
<1> SUFFICES ASSUME Init PROVE IInv
  OBVIOUS
<1> USE EventProcessorAssumption DEF Init
<1>1. TypeOK
  BY DEF TypeOK, Statuses, Retries, NotStarted, PCs
<1>2. RetryBudget /\ StuckIsDetectable /\ ProcessedIsNormalized
  BY DEF RetryBudget, StuckIsDetectable, ProcessedIsNormalized, WithStatus
<1>3. OutcomesAreJustified
  BY DEF OutcomesAreJustified, WithStatus
<1>4. AbsentIsFresh /\ BatchesAreSound
  BY DEF AbsentIsFresh, BatchesAreSound, WithStatus
<1>5. QED
  BY <1>1, <1>2, <1>3, <1>4 DEF IInv

\* The request and the clock preserve it.
LEMMA IngestIInv ==
  ASSUME IInv, NEW S \in SUBSET Events, IngestEvents(S)
  PROVE  IInv'
<1> USE EventProcessorAssumption DEF IInv, IngestEvents, localVars, WithStatus
<1>1. TypeOK'
  BY DEF TypeOK, Statuses
<1>2. RetryBudget'
  BY DEF TypeOK, Statuses, RetryBudget, AbsentIsFresh
<1>3. StuckIsDetectable'
  BY DEF TypeOK, Statuses, StuckIsDetectable
<1>4. ProcessedIsNormalized'
  BY DEF TypeOK, Statuses, ProcessedIsNormalized
<1>5. OutcomesAreJustified'
  BY DEF TypeOK, Statuses, OutcomesAreJustified
<1>6. AbsentIsFresh'
  BY DEF TypeOK, Statuses, AbsentIsFresh
<1>7. BatchesAreSound'
  BY DEF TypeOK, Statuses, BatchesAreSound
<1>8. QED
  BY <1>1, <1>2, <1>3, <1>4, <1>5, <1>6, <1>7

LEMMA TickIInv ==
  ASSUME IInv, Tick
  PROVE  IInv'
<1> USE EventProcessorAssumption DEF IInv, Tick, localVars, WithStatus, NotStarted
<1>1. TypeOK'
  BY DEF TypeOK
<1>2. RetryBudget' /\ ProcessedIsNormalized' /\ OutcomesAreJustified'
  BY DEF RetryBudget, ProcessedIsNormalized, OutcomesAreJustified
<1>3. StuckIsDetectable'
  <2> SUFFICES ASSUME NEW e \in Events, status[e] = "PROCESSING"
               PROVE  age'[e] # -1
    BY DEF StuckIsDetectable
  <2>1. age[e] \in 0 .. StuckTimeout + 1
    BY DEF TypeOK, StuckIsDetectable
  <2>2. age'[e] \in 0 .. StuckTimeout + 1
    BY <2>1
  <2>3. QED
    BY <2>2
<1>4. AbsentIsFresh' /\ BatchesAreSound'
  BY DEF AbsentIsFresh, BatchesAreSound
<1>5. QED
  BY <1>1, <1>2, <1>3, <1>4

\* So does each statement of a worker.  The end of an iteration forgets
\* everything a worker held.
LEMMA EndIterationSound ==
  ASSUME IInv, NEW w \in Workers, EndIteration(w),
         \A e \in Events : status'[e] = "ABSENT" => status[e] = "ABSENT",
         normalized' = normalized
  PROVE  /\ BatchesAreSound'
         /\ pc' \in [Workers -> PCs]
         /\ ids' \in [Workers -> SUBSET Events]
         /\ todo' \in [Workers -> SUBSET Events]
         /\ snap' \in [Workers -> [Events -> Retries]]
         /\ done' \in [Workers -> SUBSET Events]
<1> USE EventProcessorAssumption
<1>1. 0 \in Retries
  BY DEF Retries
<1>2. /\ pc' \in [Workers -> PCs]
      /\ ids' \in [Workers -> SUBSET Events]
      /\ todo' \in [Workers -> SUBSET Events]
      /\ snap' \in [Workers -> [Events -> Retries]]
      /\ done' \in [Workers -> SUBSET Events]
  BY <1>1 DEF IInv, TypeOK, EndIteration, Goto, PCs
<1>3. BatchesAreSound'
  BY DEF IInv, TypeOK, EndIteration, Goto, BatchesAreSound
<1>4. QED
  BY <1>2, <1>3

LEMMA RecoverIInv ==
  ASSUME IInv, NEW w \in Workers, RecoverStuckEvents(w)
  PROVE  IInv'
<1> USE EventProcessorAssumption DEF IInv, RecoverStuckEvents, Stuck, Goto, WithStatus
<1>1. TypeOK'
  BY DEF TypeOK, Statuses, PCs, NotStarted
<1>2. RetryBudget' /\ AbsentIsFresh'
  BY DEF TypeOK, RetryBudget, AbsentIsFresh
<1>3. StuckIsDetectable'
  BY DEF TypeOK, StuckIsDetectable
<1>4. ProcessedIsNormalized'
  BY DEF TypeOK, ProcessedIsNormalized
<1>5. OutcomesAreJustified'
  BY DEF TypeOK, OutcomesAreJustified
<1>6. BatchesAreSound'
  BY DEF TypeOK, BatchesAreSound
<1>7. QED
  BY <1>1, <1>2, <1>3, <1>4, <1>5, <1>6

\* Steps that leave the database as it is preserve everything about it.
LEMMA DbUnchangedIInv ==
  ASSUME IInv, UNCHANGED dbVars, faults' \in 0 .. MaxFaults, BatchesAreSound',
         pc' \in [Workers -> PCs],
         ids' \in [Workers -> SUBSET Events],
         todo' \in [Workers -> SUBSET Events],
         snap' \in [Workers -> [Events -> Retries]],
         done' \in [Workers -> SUBSET Events]
  PROVE  IInv'
BY DEF IInv, dbVars, TypeOK, RetryBudget, StuckIsDetectable, ProcessedIsNormalized,
       OutcomesAreJustified, AbsentIsFresh, WithStatus

LEMMA SelectIInv ==
  ASSUME IInv, NEW w \in Workers, SelectCandidates(w)
  PROVE  IInv'
<1> USE EventProcessorAssumption
<1>1. CASE EndIteration(w)
  BY <1>1, EndIterationSound, DbUnchangedIInv DEF SelectCandidates, dbVars, IInv, TypeOK
<1>2. CASE /\ ids' = [ids EXCEPT ![w] = Candidates]
           /\ Goto(w, "claim")
           /\ UNCHANGED <<todo, snap, done>>
  <2>1. Candidates \subseteq WithStatus("PENDING")
    BY DEF Candidates
  <2>2. BatchesAreSound'
    BY <1>2, <2>1 DEF SelectCandidates, Goto, dbVars, IInv, TypeOK, BatchesAreSound, WithStatus
  <2>3. /\ pc' \in [Workers -> PCs]
        /\ ids' \in [Workers -> SUBSET Events]
    BY <1>2, <2>1 DEF Goto, IInv, TypeOK, PCs, WithStatus
  <2>4. QED
    BY <1>2, <2>2, <2>3, DbUnchangedIInv DEF SelectCandidates, IInv, TypeOK
<1>3. QED
  BY <1>1, <1>2 DEF SelectCandidates

LEMMA ClaimIInv ==
  ASSUME IInv, NEW w \in Workers, ClaimEvents(w)
  PROVE  IInv'
<1> USE EventProcessorAssumption DEF IInv, ClaimEvents, Claimable, WithStatus
<1>1. /\ BatchesAreSound'
      /\ pc' \in [Workers -> PCs]
      /\ ids' \in [Workers -> SUBSET Events]
      /\ todo' \in [Workers -> SUBSET Events]
      /\ snap' \in [Workers -> [Events -> Retries]]
      /\ done' \in [Workers -> SUBSET Events]
  <2>1. \A e \in Events : status'[e] = "ABSENT" => status[e] = "ABSENT"
    BY DEF TypeOK
  <2>2. CASE EndIteration(w)
    BY <2>1, <2>2, EndIterationSound
  <2>3. CASE Goto(w, "fetch") /\ UNCHANGED <<ids, todo, snap, done>>
    BY <2>1, <2>3 DEF Goto, TypeOK, PCs, BatchesAreSound
  <2>4. QED
    BY <2>2, <2>3
<1>2. TypeOK'
  BY <1>1 DEF TypeOK, Statuses, JustStarted, NotStarted
<1>3. RetryBudget' /\ AbsentIsFresh'
  BY DEF TypeOK, RetryBudget, AbsentIsFresh
<1>4. StuckIsDetectable'
  BY DEF TypeOK, StuckIsDetectable, JustStarted, NotStarted
<1>5. ProcessedIsNormalized'
  BY DEF TypeOK, ProcessedIsNormalized
<1>6. OutcomesAreJustified'
  BY DEF TypeOK, OutcomesAreJustified
<1>7. QED
  BY <1>1, <1>2, <1>3, <1>4, <1>5, <1>6

LEMMA FetchIInv ==
  ASSUME IInv, NEW w \in Workers, FetchClaimed(w)
  PROVE  IInv'
<1> USE EventProcessorAssumption
<1>1. Fetchable(w) \subseteq Events /\ \A e \in Fetchable(w) : retry[e] < RetryLimit
  BY DEF IInv, TypeOK, Fetchable, WithStatus, RetryBudget
<1>2. /\ pc' \in [Workers -> PCs]
      /\ todo' \in [Workers -> SUBSET Events]
      /\ snap' \in [Workers -> [Events -> Retries]]
  BY <1>1 DEF IInv, TypeOK, FetchClaimed, Goto, PCs, Retries
<1>3. BatchesAreSound'
  <2> SUFFICES ASSUME NEW v \in Workers
               PROVE  /\ \A e \in ids'[v] \cup todo'[v] \cup done'[v] : status'[e] # "ABSENT"
                      /\ \A e \in todo'[v] : snap'[v][e] < RetryLimit
                      /\ done'[v] \subseteq CanSucceed
                      /\ pc'[v] = "mark" => \A e \in done'[v] : normalized'[FpOf[e]] # NoEvent
    BY DEF BatchesAreSound
  <2>1. CASE v = w
    BY <1>1, <2>1 DEF IInv, TypeOK, FetchClaimed, Goto, BatchesAreSound, dbVars, Fetchable, WithStatus
  <2>2. CASE v # w
    BY <2>2 DEF IInv, TypeOK, FetchClaimed, Goto, BatchesAreSound, dbVars
  <2>3. QED
    BY <2>1, <2>2
<1>4. QED
  BY <1>2, <1>3, DbUnchangedIInv DEF FetchClaimed, IInv, TypeOK

\* Moving past an event only shrinks what the worker still has to handle.
LEMMA HandledSound ==
  ASSUME IInv, NEW w \in Workers, NEW e \in Events, Handled(w, e)
  PROVE  /\ todo' \in [Workers -> SUBSET Events]
         /\ snap' \in [Workers -> [Events -> Retries]]
         /\ \A v \in Workers : todo'[v] \subseteq todo[v]
         /\ \A v \in Workers : \A d \in todo'[v] : snap'[v][d] = snap[v][d]
<1> USE EventProcessorAssumption DEF Handled, IInv, TypeOK, Retries
<1>1. todo' \in [Workers -> SUBSET Events] /\ snap' \in [Workers -> [Events -> Retries]]
  OBVIOUS
<1>2. \A v \in Workers : todo'[v] \subseteq todo[v]
  OBVIOUS
<1>3. ASSUME NEW v \in Workers, NEW d \in todo'[v]
      PROVE  snap'[v][d] = snap[v][d]
  <2>1. CASE v = w
    <3>1. d # e /\ d \in Events
      BY <1>3, <2>1
    <3>2. QED
      BY <2>1, <3>1
  <2>2. CASE v # w
    BY <2>2
  <2>3. QED
    BY <2>1, <2>2
<1>4. QED
  BY <1>1, <1>2, <1>3

LEMMA CollectIInv ==
  ASSUME IInv, NEW w \in Workers, NEW e \in Events, CollectParsed(w, e)
  PROVE  IInv'
<1> USE DEF CollectParsed, Parsed
<1>1. done' \in [Workers -> SUBSET Events]
  BY DEF IInv, TypeOK
<1>2. BatchesAreSound'
  <2>1. pc[w] # "mark" /\ e \in CanSucceed /\ status[e] # "ABSENT"
    BY DEF IInv, BatchesAreSound
  <2>2. \A v \in Workers : done'[v] = IF v = w THEN done[v] \cup {e} ELSE done[v]
    BY DEF IInv, TypeOK
  <2>3. QED
    BY <2>1, <2>2, HandledSound DEF IInv, BatchesAreSound, dbVars
<1>3. QED
  BY <1>1, <1>2, HandledSound, DbUnchangedIInv DEF IInv, TypeOK

LEMMA LoseIInv ==
  ASSUME IInv, NEW w \in Workers, NEW e \in Events, LoseFailure(w, e)
  PROVE  IInv'
<1> USE EventProcessorAssumption DEF LoseFailure
<1>1. BatchesAreSound'
  BY HandledSound DEF IInv, BatchesAreSound, dbVars
<1>2. faults' \in 0 .. MaxFaults
  BY DEF IInv, TypeOK
<1>3. QED
  BY <1>1, <1>2, HandledSound, DbUnchangedIInv DEF IInv, TypeOK

\* A stale failure writes a counter that was below the limit when it was read.
LEMMA FailureIInv ==
  ASSUME IInv, NEW w \in Workers, NEW e \in Events, NEW n \in 1 .. 2,
         UpdateEventFailure(w, e, n)
  PROVE  IInv'
<1> USE EventProcessorAssumption
<1> DEFINE r == snap[w][e] + n
<1>1. /\ r \in 1 .. RetryLimit + 1
      /\ e \in CanFail
      /\ status[e] # "ABSENT"
  BY DEF UpdateEventFailure, IInv, TypeOK, BatchesAreSound, Retries
<1>2. /\ retry' = [retry EXCEPT ![e] = r]
      /\ status' = [status EXCEPT ![e] = IF r >= RetryLimit THEN "FAILED" ELSE "PENDING"]
      /\ UNCHANGED <<age, normalized, pc, ids, done>>
  BY DEF UpdateEventFailure, Exhausted
<1>3. faults' \in 0 .. MaxFaults
  BY DEF UpdateEventFailure, IInv, TypeOK
<1>4. /\ todo' \in [Workers -> SUBSET Events]
      /\ snap' \in [Workers -> [Events -> Retries]]
      /\ \A v \in Workers : todo'[v] \subseteq todo[v]
      /\ \A v \in Workers : \A d \in todo'[v] : snap'[v][d] = snap[v][d]
  BY HandledSound DEF UpdateEventFailure
<1> HIDE DEF r
<1>5. /\ status' \in [Events -> Statuses]
      /\ retry' \in [Events -> Retries]
      /\ \A d \in Events : d # e => status'[d] = status[d] /\ retry'[d] = retry[d]
      /\ status'[e] = IF r >= RetryLimit THEN "FAILED" ELSE "PENDING"
      /\ retry'[e] = r
  BY <1>1, <1>2 DEF IInv, TypeOK, Statuses, Retries
<1>6. TypeOK'
  BY <1>2, <1>3, <1>4, <1>5 DEF IInv, TypeOK
<1>7. RetryBudget'
  BY <1>1, <1>5 DEF IInv, RetryBudget
<1>8. StuckIsDetectable' /\ ProcessedIsNormalized' /\ AbsentIsFresh'
  BY <1>1, <1>2, <1>5 DEF IInv, StuckIsDetectable, ProcessedIsNormalized, AbsentIsFresh,
                          WithStatus
<1>9. OutcomesAreJustified'
  BY <1>1, <1>2, <1>5 DEF IInv, TypeOK, OutcomesAreJustified, WithStatus
<1>10. BatchesAreSound'
  BY <1>2, <1>4, <1>5 DEF IInv, TypeOK, BatchesAreSound
<1>11. QED
  BY <1>6, <1>7, <1>8, <1>9, <1>10 DEF IInv

LEMMA LeaveIInv ==
  ASSUME IInv, NEW w \in Workers, LeaveLoop(w)
  PROVE  IInv'
<1>1. CASE EndIteration(w)
  BY <1>1, EndIterationSound, DbUnchangedIInv DEF LeaveLoop, dbVars, IInv, TypeOK
<1>2. CASE Goto(w, "create") /\ UNCHANGED <<ids, todo, snap, done>>
  <2>1. pc' \in [Workers -> PCs] /\ BatchesAreSound'
    BY <1>2 DEF LeaveLoop, Goto, dbVars, IInv, TypeOK, PCs, BatchesAreSound
  <2>2. QED
    BY <1>2, <2>1, DbUnchangedIInv DEF LeaveLoop, IInv, TypeOK
<1>3. QED
  BY <1>1, <1>2 DEF LeaveLoop

\* The insert leaves a row behind for every event of the batch and replaces none.
LEMMA CreateIInv ==
  ASSUME IInv, NEW w \in Workers, BulkCreate(w)
  PROVE  IInv'
<1> USE EventProcessorAssumption DEF BulkCreate
<1>1. \A f \in Fingerprints : normalized[f] # NoEvent => normalized'[f] = normalized[f]
  OBVIOUS
<1>2. \A e \in done[w] : normalized'[FpOf[e]] # NoEvent
  <2> SUFFICES ASSUME NEW e \in done[w], normalized[FpOf[e]] = NoEvent
               PROVE  normalized'[FpOf[e]] # NoEvent
    BY <1>1 DEF IInv, TypeOK
  <2>1. e \in Rivals(w, FpOf[e]) /\ FpOf[e] \in Fingerprints /\ Rivals(w, FpOf[e]) \subseteq Events
    BY DEF Rivals, IInv, TypeOK
  <2>2. QED
    BY <2>1
<1>3. pc' \in [Workers -> PCs] /\ TypeOK'
  BY DEF IInv, TypeOK, Goto, PCs
<1>4. RetryBudget' /\ StuckIsDetectable' /\ AbsentIsFresh'
  BY DEF IInv, RetryBudget, StuckIsDetectable, AbsentIsFresh, WithStatus
<1>5. ProcessedIsNormalized'
  BY <1>1 DEF IInv, ProcessedIsNormalized, WithStatus
<1>6. OutcomesAreJustified'
  <2> SUFFICES ASSUME NEW f \in Fingerprints, normalized'[f] # NoEvent
               PROVE  /\ normalized'[f] \in CanSucceed \ WithStatus("ABSENT")
                      /\ FpOf[normalized'[f]] = f
    BY DEF IInv, OutcomesAreJustified, WithStatus
  <2>1. CASE normalized[f] # NoEvent
    BY <1>1, <2>1 DEF IInv, OutcomesAreJustified
  <2>2. CASE normalized[f] = NoEvent
    <3>1. normalized'[f] \in Rivals(w, f)
      BY <2>2
    <3>2. QED
      BY <3>1 DEF Rivals, IInv, TypeOK, BatchesAreSound, WithStatus
  <2>3. QED
    BY <2>1, <2>2
<1>7. BatchesAreSound'
  BY <1>1, <1>2 DEF IInv, TypeOK, BatchesAreSound, Goto
<1>8. QED
  BY <1>3, <1>4, <1>5, <1>6, <1>7 DEF IInv

LEMMA MarkIInv ==
  ASSUME IInv, NEW w \in Workers, MarkProcessed(w)
  PROVE  IInv'
<1> USE EventProcessorAssumption DEF IInv, MarkProcessed, WithStatus
<1>1. /\ done[w] \subseteq CanSucceed
      /\ \A e \in done[w] : status[e] # "ABSENT" /\ normalized[FpOf[e]] # NoEvent
  BY DEF BatchesAreSound
<1>2. \A e \in Events : status'[e] = "ABSENT" => status[e] = "ABSENT"
  OBVIOUS
<1>3. BatchesAreSound' /\ TypeOK'
  BY <1>2, EndIterationSound DEF TypeOK, Statuses
<1>4. RetryBudget' /\ AbsentIsFresh'
  BY DEF TypeOK, RetryBudget, AbsentIsFresh
<1>5. StuckIsDetectable'
  BY DEF TypeOK, StuckIsDetectable
<1>6. ProcessedIsNormalized'
  BY <1>1 DEF TypeOK, ProcessedIsNormalized
<1>7. OutcomesAreJustified'
  BY <1>1 DEF TypeOK, OutcomesAreJustified
<1>8. QED
  BY <1>3, <1>4, <1>5, <1>6, <1>7

LEMMA AbortIInv ==
  ASSUME IInv, NEW w \in Workers, AbortIteration(w)
  PROVE  IInv'
<1> USE EventProcessorAssumption
<1>1. faults' \in 0 .. MaxFaults
  BY DEF AbortIteration, IInv, TypeOK
<1>2. QED
  BY <1>1, EndIterationSound, DbUnchangedIInv DEF AbortIteration, dbVars

\* A stuttering step changes none of it.
LEMMA StutterIInv == IInv /\ UNCHANGED vars => IInv'
BY DEF vars, IInv, TypeOK, RetryBudget, StuckIsDetectable, ProcessedIsNormalized,
       OutcomesAreJustified, AbsentIsFresh, BatchesAreSound, WithStatus

LEMMA NextIInv == IInv /\ [Next]_vars => IInv'
<1> SUFFICES ASSUME IInv, [Next]_vars PROVE IInv'
  OBVIOUS
<1>1. CASE \E S \in SUBSET Events : IngestEvents(S)
  BY <1>1, IngestIInv
<1>2. CASE Tick
  BY <1>2, TickIInv
<1>3. ASSUME NEW w \in Workers, Work(w) PROVE IInv'
  BY <1>3, RecoverIInv, SelectIInv, ClaimIInv, FetchIInv, CollectIInv, FailureIInv,
     LoseIInv, LeaveIInv, CreateIInv, MarkIInv DEF Work
<1>4. ASSUME NEW w \in Workers, AbortIteration(w) PROVE IInv'
  BY <1>4, AbortIInv
<1>5. CASE UNCHANGED vars
  BY <1>5, StutterIInv
<1>6. QED
  BY <1>1, <1>2, <1>3, <1>4, <1>5 DEF Next

\* The inductive invariant holds in every reachable state.
THEOREM InductiveInvariant == Spec => []IInv
BY InitIInv, NextIInv, PTL DEF Spec

-----------------------------------------------------------------------------
(* The results. *)

\* Type correctness, with the bound on retry_count that no interleaving of
\* stale writes can pass.
THEOREM TypeCorrect == Spec => []TypeOK
<1>1. IInv => TypeOK
  BY DEF IInv
<1>2. QED
  BY <1>1, InductiveInvariant, PTL

\* An event marked PROCESSED has its normalized row, through any crash.
THEOREM ProcessedHasRow == Spec => []ProcessedIsNormalized
<1>1. IInv => ProcessedIsNormalized
  BY DEF IInv
<1>2. QED
  BY <1>1, InductiveInvariant, PTL

\* Every PROCESSING row can be found by the stuck-event recovery.
THEOREM StuckDetection == Spec => []StuckIsDetectable
<1>1. IInv => StuckIsDetectable
  BY DEF IInv
<1>2. QED
  BY <1>1, InductiveInvariant, PTL

\* Rows are FAILED exactly on a spent budget and retried only below it.
THEOREM BudgetRespected == Spec => []RetryBudget
<1>1. IInv => RetryBudget
  BY DEF IInv
<1>2. QED
  BY <1>1, InductiveInvariant, PTL

\* Outcomes and normalized rows are those the data can justify.
THEOREM OutcomesSound == Spec => []OutcomesAreJustified
<1>1. IInv => OutcomesAreJustified
  BY DEF IInv
<1>2. QED
  BY <1>1, InductiveInvariant, PTL
=============================================================================
