--------------------------- MODULE EventLedgerProofs ---------------------------
(***************************************************************************)
(* What the exclusive claims of process_batch are for.  In every behaviour *)
(* that keeps them exclusive (ClaimsAreExclusive: no event object in the   *)
(* hands of two workers) the pipeline implements EventLedger, for any      *)
(* workers, events, batch size, retry limit, timeout and number of faults. *)
(*                                                                         *)
(* The recovery may offer an event again that somebody still works on, and *)
(* that alone does no harm: while nobody else fetches it, it stays open    *)
(* until its worker settles it (HeldIsOpen), and every step is a step of   *)
(* the ledger or changes nothing the ledger sees.  A single worker even    *)
(* finds its batch PROCESSING throughout (HeldIsProcessing).               *)
(***************************************************************************)
EXTENDS EventProcessorProofs

OneWorker == \A v, w \in Workers : v = w

Open == {"PENDING", "PROCESSING"}

Batch(w) == todo[w] \cup done[w]

\* Between iterations a worker holds nothing, and in one every event it holds
\* is either still to be parsed or parsed.
BatchIsHeld ==
    \A w \in Workers :
        /\ todo[w] \cap done[w] = {}
        /\ pc[w] \in {"recover", "select", "claim", "fetch"} => todo[w] = {} /\ done[w] = {}

\* Nobody settles an event that is in the hands of another.
HeldIsOpen == \A w \in Workers : \A e \in Batch(w) : status[e] \in Open

LedgerInv == IInv /\ BatchIsHeld /\ HeldIsOpen

SoloInv == IInv /\ BatchIsHeld /\ HeldIsProcessing

LEMMA InvsInit == Init => LedgerInv /\ SoloInv
  BY InitIInv DEF Init, LedgerInv, SoloInv, HeldIsOpen, HeldIsProcessing, BatchIsHeld, Batch

\* EndIteration leaves the worker with nothing.
LEMMA EndHolds ==
    ASSUME IInv, NEW w \in Workers, EndIteration(w)
    PROVE  pc'[w] = "recover" /\ todo'[w] = {} /\ done'[w] = {}
  BY DEF EndIteration, Goto, IInv, TypeOK

\* What a worker holds after a step of its own it held before, in the same
\* status, or has just fetched.
LEMMA WorkHolds ==
    ASSUME IInv, BatchIsHeld, NEW w \in Workers, Work(w) \/ AbortIteration(w),
           NEW S, "PROCESSING" \in S, \A e \in Batch(w) : status[e] \in S
    PROVE  /\ \A e \in Batch(w)' : status'[e] \in S
           /\ todo'[w] \cap done'[w] = {}
           /\ pc'[w] \in {"recover", "select", "claim", "fetch"} =>
                 todo'[w] = {} /\ done'[w] = {}
<1> DEFINE Holds == /\ \A e \in Batch(w)' : status'[e] \in S
                    /\ todo'[w] \cap done'[w] = {}
                    /\ pc'[w] \in {"recover", "select", "claim", "fetch"} =>
                          todo'[w] = {} /\ done'[w] = {}
<1>1. TypeOK
  BY DEF IInv
<1>2. /\ \A e \in Batch(w) : status[e] \in S
      /\ todo[w] \cap done[w] = {}
      /\ pc[w] \in {"recover", "select", "claim", "fetch"} => todo[w] = {} /\ done[w] = {}
  BY DEF BatchIsHeld
<1>3. ASSUME EndIteration(w) PROVE Holds
  BY <1>3, EndHolds DEF Batch
<1> USE <1>1, <1>2 DEF TypeOK, Goto, dbVars, Batch
<1>4. CASE RecoverStuckEvents(w)
  BY <1>4 DEF RecoverStuckEvents
<1>5. CASE SelectCandidates(w)
  BY <1>3, <1>5 DEF SelectCandidates
<1>6. CASE ClaimEvents(w)
  BY <1>3, <1>6 DEF ClaimEvents
<1>7. CASE FetchClaimed(w)
  BY <1>7 DEF FetchClaimed, Fetchable, WithStatus
<1>8. ASSUME NEW e \in Events, CollectParsed(w, e) PROVE Holds
  BY <1>8 DEF CollectParsed, Handled, Parsed
<1>9. ASSUME NEW e \in Events, NEW n \in 1 .. 2, UpdateEventFailure(w, e, n) PROVE Holds
  BY <1>9 DEF UpdateEventFailure, Handled
<1>10. ASSUME NEW e \in Events, LoseFailure(w, e) PROVE Holds
  BY <1>10 DEF LoseFailure, Handled
<1>11. CASE LeaveLoop(w)
  BY <1>3, <1>11 DEF LeaveLoop
<1>12. CASE BulkCreate(w)
  BY <1>12 DEF BulkCreate
<1>13. CASE MarkProcessed(w)
  BY <1>3, <1>13 DEF MarkProcessed
<1>14. CASE AbortIteration(w)
  BY <1>3, <1>14 DEF AbortIteration
<1> QED
  BY <1>4, <1>5, <1>6, <1>7, <1>8, <1>9, <1>10, <1>11, <1>12, <1>13, <1>14 DEF Work

\* A worker touches no other's locals, and settles only what it holds itself.
LEMMA WorkLeaves ==
    ASSUME IInv, NEW w \in Workers, Work(w) \/ AbortIteration(w)
    PROVE  /\ \A v \in Workers \ {w} : /\ pc'[v] = pc[v]
                                       /\ todo'[v] = todo[v]
                                       /\ done'[v] = done[v]
           /\ \A e \in Events \ Batch(w) : status[e] \in Open => status'[e] \in Open
<1>1. TypeOK
  BY DEF IInv
<1> DEFINE Leaves == /\ \A v \in Workers \ {w} : /\ pc'[v] = pc[v]
                                                /\ todo'[v] = todo[v]
                                                /\ done'[v] = done[v]
                     /\ \A e \in Events \ Batch(w) : status[e] \in Open => status'[e] \in Open
<1> USE <1>1 DEF TypeOK, Goto, dbVars, Open, Batch, EndIteration, Handled
<1>2. CASE RecoverStuckEvents(w) \/ SelectCandidates(w) \/ ClaimEvents(w) \/ FetchClaimed(w)
  BY <1>2 DEF RecoverStuckEvents, SelectCandidates, ClaimEvents, FetchClaimed
<1>3. ASSUME NEW e \in Events, CollectParsed(w, e) \/ LoseFailure(w, e) PROVE Leaves
  BY <1>3 DEF CollectParsed, LoseFailure
<1>4. ASSUME NEW e \in Events, NEW n \in 1 .. 2, UpdateEventFailure(w, e, n) PROVE Leaves
  BY <1>4 DEF UpdateEventFailure
<1>5. CASE LeaveLoop(w) \/ BulkCreate(w) \/ MarkProcessed(w) \/ AbortIteration(w)
  BY <1>5 DEF LeaveLoop, BulkCreate, MarkProcessed, AbortIteration
<1> QED
  BY <1>2, <1>3, <1>4, <1>5 DEF Work

\* Requests and the clock touch no worker and no open event.
LEMMA OthersLeave ==
    ASSUME IInv, Tick \/ UNCHANGED vars \/ \E S \in SUBSET Events : IngestEvents(S)
    PROVE  /\ UNCHANGED <<pc, todo, done>>
           /\ \A e \in Events : status[e] \in Open => status'[e] = status[e]
<1>1. CASE Tick \/ UNCHANGED vars
  BY <1>1 DEF Tick, vars, localVars
<1>2. ASSUME NEW S \in SUBSET Events, IngestEvents(S)
      PROVE  /\ UNCHANGED <<pc, todo, done>>
             /\ \A e \in Events : status[e] \in Open => status'[e] = status[e]
  BY <1>2 DEF IngestEvents, localVars, WithStatus, Open
<1> QED
  BY <1>1, <1>2

LEMMA LedgerInvNext == ClaimsAreExclusive /\ LedgerInv /\ [Next]_vars => LedgerInv'
<1> SUFFICES ASSUME ClaimsAreExclusive, LedgerInv, [Next]_vars PROVE LedgerInv'
  OBVIOUS
<1>1. IInv /\ IInv' /\ \A v \in Workers : Batch(v) \subseteq Events
  BY NextIInv DEF LedgerInv, IInv, TypeOK, Batch
<1>2. ASSUME NEW w \in Workers, Work(w) \/ AbortIteration(w)
      PROVE  HeldIsOpen' /\ BatchIsHeld'
  <2>1. /\ \A e \in Batch(w)' : status'[e] \in Open
        /\ todo'[w] \cap done'[w] = {}
        /\ pc'[w] \in {"recover", "select", "claim", "fetch"} =>
              todo'[w] = {} /\ done'[w] = {}
    BY <1>2, WorkHolds DEF LedgerInv, HeldIsOpen, Open
  <2>2. /\ \A v \in Workers \ {w} : /\ pc'[v] = pc[v]
                                   /\ todo'[v] = todo[v]
                                   /\ done'[v] = done[v]
        /\ \A e \in Events \ Batch(w) : status[e] \in Open => status'[e] \in Open
    BY <1>1, <1>2, WorkLeaves
  <2>3. ASSUME NEW v \in Workers \ {w}, NEW e \in Batch(v)' PROVE status'[e] \in Open
    <3>1. e \in Batch(v) /\ e \notin Batch(w)
      BY <2>2 DEF ClaimsAreExclusive, Batch
    <3> QED
      BY <1>1, <2>2, <3>1 DEF LedgerInv, HeldIsOpen
  <2>4. HeldIsOpen'
    BY <2>1, <2>3 DEF HeldIsOpen
  <2>5. BatchIsHeld'
    BY <2>1, <2>2 DEF LedgerInv, BatchIsHeld
  <2> QED
    BY <2>4, <2>5
<1>3. ASSUME UNCHANGED <<pc, todo, done>>,
             \A e \in Events : status[e] \in Open => status'[e] = status[e]
      PROVE  HeldIsOpen' /\ BatchIsHeld'
  BY <1>1, <1>3 DEF LedgerInv, HeldIsOpen, BatchIsHeld, Batch
<1> QED
  BY <1>1, <1>2, <1>3, OthersLeave DEF Next, LedgerInv

LEMMA LedgerAlways == Spec /\ []ClaimsAreExclusive => []LedgerInv
<1>1. LedgerInv /\ ClaimsAreExclusive /\ [Next]_vars => LedgerInv'
  BY LedgerInvNext
<1> QED
  BY InvsInit, <1>1, PTL DEF Spec

LEMMA SoloNext == OneWorker /\ SoloInv /\ [Next]_vars => SoloInv'
<1> SUFFICES ASSUME OneWorker, SoloInv, [Next]_vars PROVE SoloInv'
  OBVIOUS
<1>1. IInv /\ IInv' /\ \A v \in Workers : Batch(v) \subseteq Events
  BY NextIInv DEF SoloInv, IInv, TypeOK, Batch
<1>2. ASSUME NEW w \in Workers, Work(w) \/ AbortIteration(w)
      PROVE  HeldIsProcessing' /\ BatchIsHeld'
  <2>1. /\ \A e \in Batch(w)' : status'[e] \in {"PROCESSING"}
        /\ todo'[w] \cap done'[w] = {}
        /\ pc'[w] \in {"recover", "select", "claim", "fetch"} =>
              todo'[w] = {} /\ done'[w] = {}
    BY <1>2, WorkHolds DEF SoloInv, HeldIsProcessing, Batch
  <2> QED
    BY <2>1 DEF OneWorker, HeldIsProcessing, BatchIsHeld, Batch
<1>3. ASSUME UNCHANGED <<pc, todo, done>>,
             \A e \in Events : status[e] \in Open => status'[e] = status[e]
      PROVE  HeldIsProcessing' /\ BatchIsHeld'
  BY <1>1, <1>3 DEF SoloInv, HeldIsProcessing, BatchIsHeld, Batch, Open
<1> QED
  BY <1>1, <1>2, <1>3, OthersLeave DEF Next, SoloInv

\* What a single worker has fetched stays PROCESSING while it works on it: no
\* recovery and no failure of its own takes it away.
THEOREM BatchesHeld == OneWorker => (Spec => []HeldIsProcessing)
<1> SUFFICES ASSUME OneWorker PROVE Spec => []HeldIsProcessing
  OBVIOUS
<1>1. SoloInv /\ [Next]_vars => SoloInv'
  BY SoloNext
<1>2. SoloInv => HeldIsProcessing
  BY DEF SoloInv
<1> QED
  BY InvsInit, <1>1, <1>2, PTL DEF Spec

-----------------------------------------------------------------------------
(* Every step is one of the ledger's, or a stutter. *)

\* Moving events between PENDING and PROCESSING is nothing the ledger sees.
LEMMA SameOutcomes ==
    ASSUME TypeOK, TypeOK',
           \A e \in Events : \/ status'[e] = status[e]
                             \/ /\ status[e] \in {"PENDING", "PROCESSING"}
                                /\ status'[e] \in {"PENDING", "PROCESSING"}
    PROVE  [e \in Events |-> OutcomeOf(status[e])]' = [e \in Events |-> OutcomeOf(status[e])]
  BY DEF OutcomeOf

LEMMA SettleStep ==
    ASSUME LedgerInv, TypeOK', NEW w \in Workers, Work(w) \/ AbortIteration(w)
    PROVE  [Ledger!Next]_(Ledger!vars)
<1> DEFINE Stutter == UNCHANGED normalized /\
             \A e \in Events : \/ status'[e] = status[e]
                               \/ /\ status[e] \in {"PENDING", "PROCESSING"}
                                  /\ status'[e] \in {"PENDING", "PROCESSING"}
<1>1. TypeOK /\ BatchesAreSound
  BY DEF LedgerInv, IInv
<1>2. \A e \in todo[w] \cup done[w] : status[e] \in {"PENDING", "PROCESSING"}
  BY DEF LedgerInv, HeldIsOpen, Batch, Open
<1>3. ASSUME Stutter PROVE UNCHANGED Ledger!vars
  BY <1>1, <1>3, SameOutcomes DEF Ledger!vars
<1>4. CASE RecoverStuckEvents(w)
  BY <1>1, <1>3, <1>4 DEF RecoverStuckEvents, Stuck, WithStatus, TypeOK
<1>5. CASE ClaimEvents(w)
  BY <1>1, <1>3, <1>5 DEF ClaimEvents, Claimable, WithStatus, TypeOK
<1>6. ASSUME UNCHANGED <<status, normalized>> PROVE UNCHANGED Ledger!vars
  BY <1>3, <1>6
<1>7. ASSUME NEW e \in Events, NEW n \in 1 .. 2, UpdateEventFailure(w, e, n)
      PROVE  [Ledger!Next]_(Ledger!vars)
  <2>1. status[e] \in {"PENDING", "PROCESSING"} /\ e \in CanFail /\ UNCHANGED normalized
    BY <1>2, <1>7 DEF UpdateEventFailure
  <2>2. CASE Exhausted(snap[w][e] + n)
    <3>1. status' = [status EXCEPT ![e] = "FAILED"]
      BY <1>7, <2>2 DEF UpdateEventFailure
    <3>2. /\ \A d \in {e} : OutcomeOf(status[d]) = "OPEN"
          /\ [d \in Events |-> OutcomeOf(status'[d])] =
                [d \in Events |-> IF d \in {e} THEN "FAILED" ELSE OutcomeOf(status[d])]
      BY <1>1, <2>1, <3>1 DEF OutcomeOf, TypeOK
    <3>3. Ledger!Reject(e)
      BY <2>1, <3>2 DEF Ledger!Reject, Ledger!Move
    <3> QED
      BY <3>3 DEF Ledger!Next
  <2>3. CASE ~Exhausted(snap[w][e] + n)
    <3>1. status' = [status EXCEPT ![e] = "PENDING"]
      BY <1>7, <2>3 DEF UpdateEventFailure
    <3> QED
      BY <1>1, <1>3, <2>1, <3>1 DEF TypeOK
  <2> QED
    BY <2>2, <2>3
<1>8. CASE BulkCreate(w)
  <2>1. \A f \in Fingerprints :
          \/ normalized'[f] = normalized[f]
          \/ /\ normalized[f] = NoEvent
             /\ normalized'[f] \in CanSucceed
             /\ OutcomeOf(status[normalized'[f]]) = "OPEN"
             /\ FpOf[normalized'[f]] = f
    BY <1>1, <1>2, <1>8 DEF BulkCreate, Rivals, BatchesAreSound, OutcomeOf
  <2>2. normalized' \in [Fingerprints -> Events \cup {NoEvent}] /\ UNCHANGED status
    BY <1>8 DEF BulkCreate
  <2>3. \A f \in Fingerprints : normalized'[f] # NoEvent => normalized'[f] \in Events
    BY <2>2
  <2>4. \A f \in Fingerprints :
          \/ normalized'[f] = normalized[f]
          \/ /\ normalized[f] = NoEvent
             /\ normalized'[f] \in CanSucceed
             /\ [e \in Events |-> OutcomeOf(status[e])][normalized'[f]] = "OPEN"
             /\ FpOf[normalized'[f]] = f
    BY <2>1, <2>3, EventProcessorAssumption
  <2>5. Ledger!Store
    BY <2>2, <2>4 DEF Ledger!Store
  <2> QED
    BY <2>5 DEF Ledger!Next
<1>9. CASE MarkProcessed(w)
  <2>1. /\ status' = [e \in Events |-> IF e \in done[w] THEN "PROCESSED" ELSE status[e]]
        /\ UNCHANGED normalized /\ done[w] \subseteq Events
    BY <1>1, <1>9 DEF MarkProcessed, TypeOK
  <2>2. CASE done[w] = {}
    BY <1>1, <1>3, <2>1, <2>2 DEF TypeOK
  <2>3. CASE done[w] # {}
    <3>1. \A e \in done[w] : e \in CanSucceed /\ normalized[FpOf[e]] # NoEvent
      BY <1>1, <1>9 DEF MarkProcessed, BatchesAreSound
    <3>2. /\ \A e \in done[w] : [d \in Events |-> OutcomeOf(status[d])][e] = "OPEN"
          /\ [d \in Events |-> OutcomeOf(status'[d])] =
                [d \in Events |-> IF d \in done[w] THEN "PROCESSED" ELSE OutcomeOf(status[d])]
      BY <1>2, <2>1 DEF OutcomeOf
    <3>3. Ledger!Accept(done[w])
      BY <2>1, <2>3, <3>1, <3>2 DEF Ledger!Accept, Ledger!Move
    <3> QED
      BY <2>1, <3>3 DEF Ledger!Next
  <2> QED
    BY <2>2, <2>3
<1> QED
  BY <1>4, <1>5, <1>6, <1>7, <1>8, <1>9
     DEF Work, SelectCandidates, FetchClaimed, CollectParsed, LoseFailure, LeaveLoop,
         AbortIteration, dbVars

LEMMA LedgerStep == LedgerInv /\ [Next]_vars /\ TypeOK' => [Ledger!Next]_(Ledger!vars)
<1> SUFFICES ASSUME LedgerInv, [Next]_vars, TypeOK' PROVE [Ledger!Next]_(Ledger!vars)
  OBVIOUS
<1>1. TypeOK
  BY DEF LedgerInv, IInv
<1>2. ASSUME NEW S \in SUBSET Events, IngestEvents(S) PROVE Ledger!Submit(S)
  <2>1. /\ S # {} /\ UNCHANGED normalized
        /\ \A e \in S : [d \in Events |-> OutcomeOf(status[d])][e] = "ABSENT"
        /\ [d \in Events |-> OutcomeOf(status'[d])] =
              [d \in Events |-> IF d \in S THEN "OPEN" ELSE OutcomeOf(status[d])]
    BY <1>1, <1>2 DEF IngestEvents, WithStatus, OutcomeOf
  <2> QED
    BY <2>1 DEF Ledger!Submit, Ledger!Move
<1>3. CASE Tick \/ UNCHANGED vars
  BY <1>3 DEF Tick, vars, Ledger!vars
<1> QED
  BY <1>2, <1>3, SettleStep DEF Next, Ledger!Next

\* While claims are exclusive the pipeline implements EventLedger, with any
\* number of workers: through recoveries, retries, lost failures and crashes an
\* accepted event is settled at most once.
THEOREM LedgerImplemented == Spec /\ []ClaimsAreExclusive => ImplementsLedger
<1>1. Init => Ledger!Init
  BY DEF Init, Ledger!Init, OutcomeOf
<1>2. LedgerInv => TypeOK
  BY DEF LedgerInv, IInv
<1>3. LedgerInv /\ [Next]_vars /\ TypeOK' => [Ledger!Next]_(Ledger!vars)
  BY LedgerStep
<1> QED
  BY LedgerAlways, <1>1, <1>2, <1>3, PTL DEF Spec, ImplementsLedger, Ledger!Spec

\* A single worker's claims are exclusive, so that the run is an instance of it.
COROLLARY OneWorkerImplements == OneWorker => (Spec => ImplementsLedger)
<1> SUFFICES ASSUME OneWorker PROVE Spec => ImplementsLedger
  OBVIOUS
<1>1. ClaimsAreExclusive
  BY DEF OneWorker, ClaimsAreExclusive
<1> QED
  BY <1>1, LedgerImplemented, PTL
=============================================================================
