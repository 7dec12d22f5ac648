------------------------- MODULE AlertPipelineProofs -------------------------
(***************************************************************************)
(* Proofs about AlertPipeline, for any rules, suppressions, windows,       *)
(* conditions and bounds.  Typed, BurstsAreReported and MatchesReachACase  *)
(* hold for any number of detection workers; what makes the second         *)
(* inductive is that the alert a worker merges with stays one of its       *)
(* interval (MergeTarget).  OneAlertPerBucket holds in every behaviour in  *)
(* which no two workers are between the look-up and the write of the same  *)
(* rule (Apart), and MutedStayQuiet in those in which no two are there     *)
(* with rules of one suppression (QuietApart): such a worker still finds   *)
(* no alert with the fingerprint it is about to use, and no recent one     *)
(* that would suppress it.                                                 *)
(***************************************************************************)
EXTENDS AlertPipeline, SequenceTheorems, TLAPS

-----------------------------------------------------------------------------
(* The inductive invariants. *)

Todo == (SUBSET Rules) \ {{}}

\* What the local variables of a detection worker hold at each position.
WorkerState ==
    {Asleep}
    \cup [pc : {"rules"}, todo : Todo, at : Time]
    \cup [pc : {"look"}, todo : Todo, at : Time, rule : Rules]
    \cup [pc : {"create"}, todo : Todo, at : Time, rule : Rules, existing : Nat, count : Nat]

EngineState ==
    {Asleep} \cup [pc : {"conditions", "create"}, at : Time, next : DOMAIN Conditions,
                   alerts : SUBSET AlertIds]

AlertsTyped == alert \in Seq(AlertRow)

WorkersTyped ==
    /\ now \in Time
    /\ event \subseteq Rules \X Time
    /\ detector \in [Detectors -> WorkerState]
    /\ \A d \in Detectors : detector[d].pc # "sleep" => detector[d].at <= now
    /\ \A d \in Detectors :
          detector[d].pc = "create" => detector[d].existing \in AlertIds \cup {0}

CasesTyped ==
    /\ cases \in Seq([bucket : Time, alerts : SUBSET AlertIds])
    /\ engine \in EngineState

Typed == AlertsTyped /\ WorkersTyped /\ CasesTyped

\* A worker that found no alert in its interval is right until it writes.
TriggerIsFresh ==
    \A d \in Detectors :
        /\ detector[d].pc \in {"look", "create"} =>
              Fingerprint(detector[d].rule, detector[d].at) = {}
        /\ detector[d].pc = "create" => detector[d].existing = 0

\* No two workers are between the look-up and the write of one rule, as when
\* there is a single worker, or the rule is locked meanwhile.
Apart ==
    \A d, e \in Detectors :
        /\ d # e
        /\ detector[d].pc \in {"look", "create"}
        /\ detector[e].pc \in {"look", "create"}
        => detector[d].rule # detector[e].rule

\* Nor with two rules that one suppression matches.
QuietApart ==
    \A d, e \in Detectors :
        /\ d # e
        /\ detector[d].pc \in {"look", "create"}
        /\ detector[e].pc \in {"look", "create"}
        => \A S \in Suppressions : ~(detector[d].rule \in S /\ detector[e].rule \in S)

\* A single worker, as in pipe_work, is kept apart.
LEMMA OneIsApart == (\A d, e \in Detectors : d = e) => Apart /\ QuietApart
BY DEF Apart, QuietApart

TriggerInv == Typed /\ OneAlertPerBucket /\ TriggerIsFresh

-----------------------------------------------------------------------------
(* Facts about sequences and times. *)

\* A bucket's number is no larger than the times in it.
LEMMA BucketsAreTimes ==
    ASSUME NEW t \in Time, NEW w \in Nat \ {0}
    PROVE  t \div w \in Time
  BY PipelineAssumption, SMT DEF Time

\* Rewriting the elements of a sequence in place gives a sequence.
LEMMA Rewrite ==
    ASSUME NEW S, NEW s \in Seq(S), NEW t, t = [i \in DOMAIN s |-> t[i]],
           \A i \in DOMAIN s : t[i] \in S
    PROVE  t \in Seq(S) /\ DOMAIN t = DOMAIN s
  BY LenProperties, SeqDef, Z3

\* The elements of a sequence with one more element at the end.
LEMMA Extend ==
    ASSUME NEW S, NEW s \in Seq(S), NEW x \in S, NEW t, t = Append(s, x)
    PROVE  /\ t \in Seq(S)
           /\ DOMAIN t = DOMAIN s \cup {Len(s) + 1}
           /\ Len(s) + 1 \notin DOMAIN s
           /\ t[Len(s) + 1] = x
           /\ \A i \in DOMAIN s : t[i] = s[i]
<1>1. t \in Seq(S) /\ Len(t) = Len(s) + 1 /\ t[Len(s) + 1] = x
  BY AppendProperties
<1>2. \A i \in 1 .. Len(s) : t[i] = s[i]
  BY AppendProperties
<1>3. DOMAIN s = 1 .. Len(s) /\ Len(s) \in Nat /\ DOMAIN t = 1 .. Len(t)
  BY <1>1, LenProperties
<1> QED
  BY <1>1, <1>2, <1>3

-----------------------------------------------------------------------------
(* Types. *)

\* The alerts change in three ways only, and never lose an alert.
Rows == /\ alert' \in Seq(AlertRow)
        /\ AlertIds \subseteq DOMAIN alert'

\* The two parts of a worker's steps that several actions share.
LEMMA WorkerMoves ==
    ASSUME WorkersTyped, Rows, now' = now, event' = event, NEW d \in Detectors,
           NEW v \in WorkerState, detector' = [detector EXCEPT ![d] = v],
           v.pc # "sleep" => v.at <= now,
           v.pc = "create" => v.existing \in AlertIds \cup {0}
    PROVE  WorkersTyped'
<1>1. now' \in Time /\ event' \subseteq Rules \X Time
  BY DEF WorkersTyped
<1>2. detector \in [Detectors -> WorkerState] /\ detector' \in [Detectors -> WorkerState]
  BY DEF WorkersTyped
<1>3. detector'[d] = v /\ \A e \in Detectors \ {d} : detector'[e] = detector[e]
  BY <1>2
<1>4. \A e \in Detectors : detector'[e].pc # "sleep" => detector'[e].at <= now'
  BY <1>3 DEF WorkersTyped
<1>5. AlertIds \subseteq AlertIds'
  BY DEF Rows, AlertIds
<1>6. ASSUME NEW e \in Detectors, detector'[e].pc = "create"
      PROVE  detector'[e].existing \in AlertIds' \cup {0}
  BY <1>3, <1>5, <1>6 DEF WorkersTyped
<1> QED
  BY <1>1, <1>2, <1>4, <1>6 DEF WorkersTyped, WorkerState

LEMMA NextRuleTyped ==
    ASSUME WorkersTyped, Rows, now' = now, event' = event, NEW d \in Detectors, NEW r,
           detector[d].pc # "sleep", NextRule(d, r)
    PROVE  WorkersTyped' /\ detector'[d].pc \in {"sleep", "rules"}
           /\ \A e \in Detectors \ {d} : detector'[e] = detector[e]
<1> DEFINE v == IF detector[d].todo \ {r} = {} THEN Asleep
                ELSE [pc |-> "rules", todo |-> detector[d].todo \ {r}, at |-> detector[d].at]
<1>1. detector' = [detector EXCEPT ![d] = v]
  BY DEF NextRule
<1>2. detector[d] \in WorkerState /\ detector \in [Detectors -> WorkerState]
  BY DEF WorkersTyped
<1>3. detector[d].todo \in Todo /\ detector[d].at \in Time /\ detector[d].at <= now
  BY <1>2 DEF WorkerState, WorkersTyped, Asleep
<1>4. v \in WorkerState /\ v.pc \in {"sleep", "rules"} /\ (v.pc # "sleep" => v.at <= now)
  BY <1>3 DEF WorkerState, Todo, Asleep
<1> HIDE DEF v
<1>5. WorkersTyped'
  BY <1>1, <1>4, WorkerMoves
<1> QED
  BY <1>1, <1>2, <1>4, <1>5

\* What a worker knows about itself at each position.
LEMMA WorkerKnows ==
    ASSUME WorkersTyped, NEW d \in Detectors
    PROVE  /\ detector[d].pc \in {"sleep", "rules", "look", "create"}
           /\ detector[d].pc # "sleep" =>
                /\ detector[d].todo \in Todo /\ detector[d].at \in Time
                /\ detector[d].at <= now
           /\ detector[d].pc \in {"look", "create"} => detector[d].rule \in Rules
           /\ detector[d].pc = "create" =>
                /\ detector[d].existing \in AlertIds \cup {0}
                /\ detector[d].count \in Nat
<1>1. detector[d] \in WorkerState
  BY DEF WorkersTyped
<1>2. detector[d].pc # "sleep" => detector[d].at <= now
  BY DEF WorkersTyped
<1>3. detector[d].pc = "create" => detector[d].existing \in AlertIds \cup {0}
  BY DEF WorkersTyped
<1> QED
  BY <1>1, <1>2, <1>3 DEF WorkerState, Asleep

-----------------------------------------------------------------------------
(* What the writers of the alerts do to them. *)

\* The rows keep their ids, rules, buckets and times.
Kept == /\ AlertIds' = AlertIds
        /\ \A a \in AlertIds : /\ alert'[a].rule = alert[a].rule
                               /\ alert'[a].bucket = alert[a].bucket
                               /\ alert'[a].at = alert[a].at

LEMMA MergeRows ==
    ASSUME Typed, NEW d \in Detectors, CreateOrMerge(d), detector[d].existing # 0
    PROVE  /\ Rows /\ Kept
           /\ \A a \in AlertIds : alert'[a].status = alert[a].status
<1> DEFINE x == detector[d].existing
           n == detector[d].count + 1
<1>1. x \in AlertIds /\ n \in Nat
  BY WorkerKnows DEF Typed, CreateOrMerge
<1>2. alert' = [alert EXCEPT ![x].count = n]
  BY DEF CreateOrMerge
<1>3. alert \in Seq(AlertRow) /\ \A a \in AlertIds : alert[a] \in AlertRow
  BY ElementOfSeq, LenProperties DEF Typed, AlertsTyped, AlertIds
<1> HIDE DEF n, x
<1>4. /\ alert' = [a \in DOMAIN alert |-> alert'[a]]
      /\ \A a \in DOMAIN alert :
            alert'[a] = IF a = x THEN [alert[a] EXCEPT !.count = n] ELSE alert[a]
  BY <1>2, <1>3 DEF AlertIds
<1>5. \A a \in DOMAIN alert : /\ alert'[a] \in AlertRow
                              /\ alert'[a].rule = alert[a].rule
                              /\ alert'[a].bucket = alert[a].bucket
                              /\ alert'[a].at = alert[a].at
                              /\ alert'[a].status = alert[a].status
  BY <1>1, <1>3, <1>4 DEF AlertRow, AlertIds
<1>6. alert' \in Seq(AlertRow) /\ DOMAIN alert' = DOMAIN alert
  BY <1>3, <1>4, <1>5, Rewrite
<1> QED
  BY <1>5, <1>6 DEF Rows, Kept, AlertIds

LEMMA CreateRows ==
    ASSUME Typed, NEW d \in Detectors, CreateOrMerge(d), detector[d].existing = 0
    PROVE  /\ Rows
           /\ \A a \in AlertIds : alert'[a] = alert[a]
           /\ \E n : /\ n \notin AlertIds /\ AlertIds' = AlertIds \cup {n}
                     /\ alert'[n].rule = detector[d].rule
                     /\ alert'[n].bucket = Bucket(detector[d].at)
                     /\ alert'[n].at = now /\ alert'[n].status = "open"
                     /\ \A a \in AlertIds : a < n
<1> DEFINE x == [rule |-> detector[d].rule, bucket |-> Bucket(detector[d].at),
                 at |-> now, count |-> 1, status |-> "open"]
<1>1. detector[d].rule \in Rules /\ detector[d].at \in Time
  BY WorkerKnows DEF Typed, CreateOrMerge
<1>2. Bucket(detector[d].at) \in Time
  BY <1>1, BucketsAreTimes, PipelineAssumption DEF Bucket
<1>3. x \in AlertRow
  BY <1>1, <1>2 DEF AlertRow, Typed, WorkersTyped
<1>4. alert' = Append(alert, x) /\ alert \in Seq(AlertRow)
  BY DEF CreateOrMerge, Typed, AlertsTyped
<1>5. x.rule = detector[d].rule /\ x.bucket = Bucket(detector[d].at)
      /\ x.at = now /\ x.status = "open"
  OBVIOUS
<1> HIDE DEF x
<1>6. /\ alert' \in Seq(AlertRow)
      /\ DOMAIN alert' = DOMAIN alert \cup {Len(alert) + 1}
      /\ Len(alert) + 1 \notin DOMAIN alert
      /\ alert'[Len(alert) + 1] = x
      /\ \A a \in DOMAIN alert : alert'[a] = alert[a]
  BY <1>3, <1>4, Extend
<1>7. \A a \in DOMAIN alert : a < Len(alert) + 1
  BY <1>4, LenProperties
<1> QED
  BY <1>5, <1>6, <1>7 DEF Rows, AlertIds

LEMMA CaseRows ==
    ASSUME Typed, CreateCase
    PROVE  Rows /\ Kept
<1> DEFINE ids == Matched(engine.next)
<1>1. alert \in Seq(AlertRow) /\ \A a \in AlertIds : alert[a] \in AlertRow
  BY ElementOfSeq, LenProperties DEF Typed, AlertsTyped, AlertIds
<1>2. /\ alert' = [a \in DOMAIN alert |-> alert'[a]]
      /\ \A a \in DOMAIN alert :
            alert'[a] = IF a \in ids THEN [alert[a] EXCEPT !.status = "CORRELATED"] ELSE alert[a]
  BY DEF CreateCase, AlertIds
<1> HIDE DEF ids
<1>3. \A a \in DOMAIN alert :
         /\ alert'[a] \in AlertRow
         /\ alert'[a].rule = alert[a].rule /\ alert'[a].bucket = alert[a].bucket
         /\ alert'[a].at = alert[a].at
  BY <1>1, <1>2 DEF AlertRow, AlertIds
<1>4. alert' \in Seq(AlertRow) /\ DOMAIN alert' = DOMAIN alert
  BY <1>1, <1>2, <1>3, Rewrite
<1> QED
  BY <1>3, <1>4 DEF Rows, Kept, AlertIds

LEMMA StatusRows ==
    ASSUME Typed, NEW x \in AlertIds, NEW new \in {"open", "closed"}, ChangeStatus(x, new)
    PROVE  Rows /\ Kept
<1>1. alert \in Seq(AlertRow) /\ \A a \in AlertIds : alert[a] \in AlertRow
  BY ElementOfSeq, LenProperties DEF Typed, AlertsTyped, AlertIds
<1>2. alert' = [alert EXCEPT ![x] = [alert[x] EXCEPT !.status = new]]
  BY <1>1 DEF ChangeStatus, AlertRow
<1>3. /\ alert' = [a \in DOMAIN alert |-> alert'[a]]
      /\ \A a \in DOMAIN alert :
            alert'[a] = IF a = x THEN [alert[a] EXCEPT !.status = new] ELSE alert[a]
  BY <1>1, <1>2 DEF AlertIds
<1>4. \A a \in DOMAIN alert :
         /\ alert'[a] \in AlertRow
         /\ alert'[a].rule = alert[a].rule /\ alert'[a].bucket = alert[a].bucket
         /\ alert'[a].at = alert[a].at
  BY <1>1, <1>2, <1>3 DEF AlertRow, AlertIds
<1>5. alert' \in Seq(AlertRow) /\ DOMAIN alert' = DOMAIN alert
  BY <1>1, <1>3, <1>4, Rewrite
<1> QED
  BY <1>4, <1>5 DEF Rows, Kept, AlertIds

LEMMA SameRows ==
    ASSUME Typed, UNCHANGED alert
    PROVE  Rows /\ Kept /\ \A a \in AlertIds : alert'[a] = alert[a]
  BY DEF Rows, Kept, AlertIds, Typed, AlertsTyped

-----------------------------------------------------------------------------
(* Every step keeps the types. *)

LEMMA TypedInit == Init => Typed
<1> SUFFICES ASSUME Init PROVE Typed
  OBVIOUS
<1>1. AlertsTyped
  BY EmptySeq DEF Init, AlertsTyped
<1>2. WorkersTyped
  BY PipelineAssumption DEF Init, WorkersTyped, WorkerState, Asleep, Time
<1>3. CasesTyped
  BY EmptySeq DEF Init, CasesTyped, EngineState
<1> QED
  BY <1>1, <1>2, <1>3 DEF Typed

LEMMA RowsNext ==
    ASSUME Typed, [Next]_vars
    PROVE  Rows
<1>1. CASE UNCHANGED alert
  BY <1>1, SameRows
<1>2. CASE \E d \in Detectors : CreateOrMerge(d)
  BY <1>2, MergeRows, CreateRows
<1>3. CASE CreateCase
  BY <1>3, CaseRows
<1>4. CASE \E a \in AlertIds, new \in {"open", "closed"} : ChangeStatus(a, new)
  BY <1>4, StatusRows
<1> QED
  BY <1>1, <1>2, <1>3, <1>4
     DEF Next, vars, Detection, Correlation, BeginEvaluation, EvaluateRule, LookForDuplicate,
         BeginCorrelation, EvaluateCondition, RuleFails, CorrelationFails, Arrive, Restart, Tick

LEMMA WorkersNext ==
    ASSUME Typed, Rows, [Next]_vars
    PROVE  WorkersTyped'
<1> USE DEF Typed
<1>1. AlertIds \subseteq AlertIds'
  BY DEF Rows, AlertIds
<1>2. ASSUME NEW d \in Detectors, BeginEvaluation(d) PROVE WorkersTyped'
  <2> DEFINE v == [pc |-> "rules", todo |-> Rules, at |-> now]
  <2>1. v \in WorkerState /\ v.at <= now /\ v.pc = "rules"
    BY PipelineAssumption DEF WorkerState, Todo, WorkersTyped, Time
  <2>2. detector' = [detector EXCEPT ![d] = v] /\ now' = now /\ event' = event
    BY <1>2 DEF BeginEvaluation
  <2> HIDE DEF v
  <2> QED
    BY <2>1, <2>2, WorkerMoves
<1>3. ASSUME NEW d \in Detectors, NEW r \in Rules, EvaluateRule(d, r) PROVE WorkersTyped'
  <2> DEFINE v == [pc |-> "look", todo |-> detector[d].todo, at |-> detector[d].at, rule |-> r]
  <2>1. v \in WorkerState /\ v.at <= now /\ v.pc = "look"
    BY <1>3, WorkerKnows DEF WorkerState, EvaluateRule
  <2>2. now' = now /\ event' = event /\ detector[d].pc # "sleep"
        /\ (NextRule(d, r) \/ detector' = [detector EXCEPT ![d] = v])
    BY <1>3 DEF EvaluateRule
  <2> HIDE DEF v
  <2> QED
    BY <2>1, <2>2, WorkerMoves, NextRuleTyped
<1>4. ASSUME NEW d \in Detectors, LookForDuplicate(d) PROVE WorkersTyped'
  <2> DEFINE r == detector[d].rule
             open == {a \in Fingerprint(r, detector[d].at) : alert[a].status = "open"}
             v(a) == [pc |-> "create", todo |-> detector[d].todo, at |-> detector[d].at,
                      rule |-> r, existing |-> a, count |-> IF a = 0 THEN 0 ELSE alert[a].count]
  <2>1. now' = now /\ event' = event /\ detector[d].pc = "look"
    BY <1>4 DEF LookForDuplicate
  <2>2. CASE NextRule(d, r)
    BY <2>1, <2>2, NextRuleTyped
  <2>3. ASSUME NEW a \in IF open = {} THEN {0} ELSE open,
               detector' = [detector EXCEPT ![d] = v(a)]
        PROVE  WorkersTyped'
    <3>1. a = 0 \/ a \in AlertIds
      BY <2>3 DEF Fingerprint
    <3>2. \A b \in AlertIds : b \in Nat /\ alert[b] \in AlertRow
      BY ElementOfSeq, LenProperties DEF AlertsTyped, AlertIds
    <3>3. a \in Nat /\ (a # 0 => alert[a].count \in Nat)
      BY <3>1, <3>2 DEF AlertRow
    <3>4. v(a) \in WorkerState /\ v(a).at <= now /\ v(a).existing = a
      BY <2>1, <3>3, WorkerKnows DEF WorkerState
    <3> HIDE DEF v
    <3> QED
      BY <2>1, <2>3, <3>1, <3>4, WorkerMoves
  <2>4. NextRule(d, r) \/ \E a \in IF open = {} THEN {0} ELSE open :
                             detector' = [detector EXCEPT ![d] = v(a)]
    BY <1>4 DEF LookForDuplicate
  <2> QED
    BY <2>2, <2>3, <2>4
<1>5. ASSUME NEW d \in Detectors, CreateOrMerge(d) PROVE WorkersTyped'
  BY <1>5, NextRuleTyped DEF CreateOrMerge
<1>6. CASE UNCHANGED detector /\ now' = now /\ event' \subseteq Rules \X Time
  BY <1>1, <1>6 DEF WorkersTyped
<1>7. CASE Tick
  <2>1. now' \in Time /\ now <= now' /\ detector' = detector /\ event' = event
    BY <1>7, PipelineAssumption DEF Tick, WorkersTyped, Time
  <2>2. \A d \in Detectors : detector[d].pc # "sleep" => detector[d].at <= now'
    BY <2>1, WorkerKnows, PipelineAssumption DEF WorkersTyped, Time
  <2> QED
    BY <1>1, <2>1, <2>2 DEF WorkersTyped
<1>8. CASE Restart
  <2>1. ASSUME NEW d \in Detectors, detector' = [detector EXCEPT ![d] = Asleep]
        PROVE  WorkersTyped'
    <3>1. Asleep \in WorkerState /\ Asleep.pc = "sleep" /\ now' = now /\ event' = event
      BY <1>8 DEF WorkerState, Asleep, Restart
    <3> QED
      BY <2>1, <3>1, WorkerMoves
  <2> QED
    BY <1>1, <1>8, <2>1 DEF WorkersTyped, Restart
<1>9. ASSUME NEW r \in Rules, NEW t \in Time, Arrive(r, t)
      PROVE  event' \subseteq Rules \X Time
  BY <1>9 DEF Arrive, WorkersTyped
<1>10. ASSUME NEW d \in Detectors, NEW r \in Rules, RuleFails(d, r) PROVE WorkersTyped'
  BY <1>10, NextRuleTyped DEF RuleFails
<1> QED
  BY <1>2, <1>3, <1>4, <1>5, <1>6, <1>7, <1>8, <1>9, <1>10
     DEF Next, vars, Detection, Correlation, EvaluateCondition, CreateCase, BeginCorrelation,
         CorrelationFails, Arrive, ChangeStatus, WorkersTyped

LEMMA CasesNext ==
    ASSUME Typed, Rows, [Next]_vars
    PROVE  CasesTyped'
<1> USE DEF Typed
<1> DEFINE Case == [bucket : Time, alerts : SUBSET AlertIds]
<1>1. AlertIds \subseteq AlertIds'
  BY DEF Rows, AlertIds
<1>2. Seq(Case) \subseteq Seq(Case')
  <2>1. Case \subseteq Case'
    BY <1>1
  <2> HIDE DEF Case
  <2> QED
    BY <2>1, SeqMonotonic
<1>3. EngineState \subseteq EngineState'
  BY <1>1 DEF EngineState, Asleep
<1>4. CASE UNCHANGED <<cases, engine>>
  BY <1>2, <1>3, <1>4 DEF CasesTyped
<1>5. CASE BeginCorrelation
  <2>1. 1 \in DOMAIN Conditions
    BY PipelineAssumption, EmptySeq, LenProperties
  <2>2. engine' \in EngineState /\ cases' = cases
    BY <1>5, <2>1 DEF BeginCorrelation, EngineState, WorkersTyped
  <2> QED
    BY <1>2, <1>3, <2>2 DEF CasesTyped
<1>6. CASE EvaluateCondition \/ CreateCase
  <2>1. engine \in EngineState /\ engine.pc \in {"conditions", "create"}
    BY <1>6 DEF EvaluateCondition, CreateCase, CasesTyped
  <2>2. engine.at \in Time /\ engine.alerts \subseteq AlertIds /\ engine.next \in DOMAIN Conditions
    BY <2>1 DEF EngineState, Asleep
  <2>3. [engine EXCEPT !.pc = "create"] \in EngineState
    BY <2>1, <2>2 DEF EngineState, Asleep
  <2>4. ASSUME NextCondition PROVE engine' \in EngineState
    <3>1. CASE engine.next = Len(Conditions)
      BY <2>4, <3>1 DEF NextCondition, EngineState
    <3>2. CASE engine.next # Len(Conditions)
      <4>1. engine.next + 1 \in DOMAIN Conditions
        BY <2>2, <3>2, PipelineAssumption, LenProperties
      <4> DEFINE v == [engine EXCEPT !.pc = "conditions"]
      <4>2. v \in EngineState /\ v.pc = "conditions"
        BY <2>1, <2>2 DEF EngineState, Asleep
      <4>3. engine' = [v EXCEPT !.next = engine.next + 1]
        BY <2>4, <3>2 DEF NextCondition
      <4> HIDE DEF v
      <4> QED
        BY <4>1, <4>2, <4>3 DEF EngineState, Asleep
    <3> QED
      BY <3>1, <3>2
  <2>5. engine' \in EngineState
    BY <1>6, <2>3, <2>4 DEF EvaluateCondition, SkipCondition, CreateCase
  <2>6. cases' \in Seq(Case)
    <3> DEFINE c == [bucket |-> CaseBucket, alerts |-> Matched(engine.next)]
    <3>1. c \in Case
      BY <2>2, BucketsAreTimes, PipelineAssumption DEF CaseBucket, Matched
    <3>2. cases' = cases \/ cases' = Append(cases, c)
      BY <1>6 DEF EvaluateCondition, CreateCase
    <3>3. cases \in Seq(Case)
      BY DEF CasesTyped
    <3> HIDE DEF c, Case
    <3> QED
      BY <3>1, <3>2, <3>3, AppendProperties
  <2> QED
    BY <1>2, <1>3, <2>5, <2>6 DEF CasesTyped
<1>7. CASE cases' = cases /\ engine' = Asleep
  BY <1>2, <1>7 DEF CasesTyped, EngineState
<1> QED
  BY <1>4, <1>5, <1>6, <1>7
     DEF Next, vars, Detection, Correlation, BeginEvaluation, EvaluateRule, LookForDuplicate,
         CreateOrMerge, RuleFails, CorrelationFails, Arrive, ChangeStatus, Restart, Tick

LEMMA TypedNext == Typed /\ [Next]_vars => Typed'
  BY RowsNext, WorkersNext, CasesNext DEF Typed, Rows, AlertsTyped

LEMMA TypedIsTypeOK == Typed => TypeOK
<1> SUFFICES ASSUME Typed PROVE TypeOK
  OBVIOUS
<1>1. \A d \in Detectors : detector[d].pc # "sleep" => detector[d].todo # {}
  BY WorkerKnows DEF Typed, Todo
<1>2. /\ engine.pc \in {"sleep", "conditions", "create"}
      /\ engine.pc # "sleep" => /\ engine.alerts \subseteq AlertIds
                                /\ engine.next \in DOMAIN Conditions
  BY DEF Typed, CasesTyped, EngineState, Asleep
<1> QED
  BY <1>1, <1>2, WorkerKnows DEF Typed, TypeOK, AlertsTyped, WorkersTyped, CasesTyped

\* Every reachable state is well typed, and the ids that workers and the engine
\* carry from one transaction to the next name alerts (evaluate_rules,
\* create_alert, evaluate_correlation_rules).
THEOREM TypeCorrect == Spec => []TypeOK
<1>1. Spec => []Typed
  BY TypedInit, TypedNext, PTL DEF Spec
<1> QED
  BY <1>1, TypedIsTypeOK, PTL

-----------------------------------------------------------------------------
(* One alert per interval. *)

\* No alert has the fingerprint of the trigger with a given rule and time.
LEMMA Unseen ==
    ASSUME NEW r, NEW t
    PROVE  Fingerprint(r, t) = {} <=>
             \A a \in AlertIds : ~(alert[a].rule = r /\ alert[a].bucket = Bucket(t))
  BY DEF Fingerprint

\* Steps that keep the alerts and leave every worker as it was or between rules.
LEMMA FreshAlone ==
    ASSUME TriggerInv, Kept,
           \A d \in Detectors : \/ detector'[d] = detector[d]
                                \/ detector'[d].pc \in {"sleep", "rules"}
    PROVE  OneAlertPerBucket' /\ TriggerIsFresh'
<1>1. OneAlertPerBucket'
  BY DEF TriggerInv, Kept, OneAlertPerBucket
<1>2. ASSUME NEW d \in Detectors, detector'[d].pc \in {"look", "create"}
      PROVE  /\ detector'[d].pc = "create" => detector'[d].existing = 0
             /\ \A a \in AlertIds' : ~(/\ alert'[a].rule = detector'[d].rule
                                       /\ alert'[a].bucket = Bucket(detector'[d].at))
  <2>1. detector'[d] = detector[d]
    BY <1>2
  <2>2. /\ detector[d].pc = "create" => detector[d].existing = 0
        /\ Fingerprint(detector[d].rule, detector[d].at) = {}
    BY <1>2, <2>1 DEF TriggerInv, TriggerIsFresh
  <2>3. \A a \in AlertIds : ~(/\ alert[a].rule = detector[d].rule
                              /\ alert[a].bucket = Bucket(detector[d].at))
    BY <2>2, Unseen
  <2> QED
    BY <2>1, <2>2, <2>3 DEF Kept
<1>3. TriggerIsFresh'
  BY <1>2 DEF TriggerIsFresh, Fingerprint
<1> QED
  BY <1>1, <1>3

\* A worker that evaluates a rule goes on with the next or has a fresh trigger.
LEMMA EvaluateKeepsFresh ==
    ASSUME TriggerInv, NEW d \in Detectors, NEW r \in Rules, EvaluateRule(d, r)
    PROVE  OneAlertPerBucket' /\ TriggerIsFresh'
<1>1. Typed /\ Kept /\ WorkersTyped /\ Rows
  BY SameRows DEF TriggerInv, EvaluateRule, Typed
<1>2. CASE NextRule(d, r)
  <2>1. now' = now /\ event' = event /\ detector[d].pc # "sleep"
    BY DEF EvaluateRule
  <2> QED
    BY <1>1, <1>2, <2>1, NextRuleTyped, FreshAlone
<1>3. CASE /\ Fingerprint(r, detector[d].at) = {}
           /\ detector' = [detector EXCEPT ![d] =
                [pc |-> "look", todo |-> detector[d].todo, at |-> detector[d].at, rule |-> r]]
  <2>1. alert' = alert /\ detector \in [Detectors -> WorkerState]
    BY <1>1 DEF EvaluateRule, WorkersTyped
  <2>2. /\ detector'[d].pc = "look" /\ detector'[d].rule = r /\ detector'[d].at = detector[d].at
        /\ \A e \in Detectors \ {d} : detector'[e] = detector[e]
    BY <1>3, <2>1
  <2>3. TriggerIsFresh'
    BY <1>3, <2>1, <2>2 DEF TriggerInv, TriggerIsFresh, Fingerprint, AlertIds
  <2>4. OneAlertPerBucket'
    BY <2>1 DEF TriggerInv, OneAlertPerBucket, AlertIds
  <2> QED
    BY <2>3, <2>4
<1> QED
  BY <1>2, <1>3 DEF EvaluateRule

\* create_alert's look-up finds nothing to merge with after a fresh trigger.
LEMMA LookKeepsFresh ==
    ASSUME TriggerInv, NEW d \in Detectors, LookForDuplicate(d)
    PROVE  OneAlertPerBucket' /\ TriggerIsFresh'
<1> DEFINE r == detector[d].rule
<1>1. Typed /\ Kept /\ WorkersTyped /\ Rows
  BY SameRows DEF TriggerInv, LookForDuplicate, Typed
<1>2. /\ now' = now /\ event' = event /\ alert' = alert /\ detector[d].pc = "look"
      /\ Fingerprint(r, detector[d].at) = {}
  BY DEF LookForDuplicate, TriggerInv, TriggerIsFresh
<1>3. CASE NextRule(d, r)
  BY <1>1, <1>2, <1>3, NextRuleTyped, FreshAlone
<1>4. CASE detector' = [detector EXCEPT ![d] =
             [pc |-> "create", todo |-> detector[d].todo, at |-> detector[d].at, rule |-> r,
              existing |-> 0, count |-> 0]]
  <2>1. detector \in [Detectors -> WorkerState]
    BY <1>1 DEF WorkersTyped
  <2>2. /\ detector'[d].pc = "create" /\ detector'[d].rule = r
        /\ detector'[d].at = detector[d].at /\ detector'[d].existing = 0
        /\ \A e \in Detectors \ {d} : detector'[e] = detector[e]
    BY <1>4, <2>1
  <2>3. TriggerIsFresh'
    BY <1>2, <2>2 DEF TriggerInv, TriggerIsFresh, Fingerprint, AlertIds
  <2>4. OneAlertPerBucket'
    BY <1>2 DEF TriggerInv, OneAlertPerBucket, AlertIds
  <2> QED
    BY <2>3, <2>4
<1> QED
  BY <1>2, <1>3, <1>4 DEF LookForDuplicate

\* With no other worker at its rule, the fingerprint is still free at the write;
\* and the write takes no fingerprint from another worker.
LEMMA CreateKeepsFresh ==
    ASSUME Apart, TriggerInv, NEW d \in Detectors, CreateOrMerge(d)
    PROVE  OneAlertPerBucket' /\ TriggerIsFresh'
<1>1. Typed /\ WorkersTyped /\ Rows
  BY RowsNext DEF TriggerInv, Typed, Next, Detection
<1>2. /\ detector[d].pc = "create" /\ now' = now /\ event' = event
      /\ NextRule(d, detector[d].rule)
  BY DEF CreateOrMerge
<1>3. /\ detector'[d].pc \in {"sleep", "rules"}
      /\ \A e \in Detectors \ {d} : detector'[e] = detector[e]
  BY <1>1, <1>2, NextRuleTyped
<1>4. /\ detector[d].existing = 0
      /\ Fingerprint(detector[d].rule, detector[d].at) = {}
  BY <1>2 DEF TriggerInv, TriggerIsFresh
<1>5. PICK n : /\ n \notin AlertIds /\ AlertIds' = AlertIds \cup {n}
               /\ alert'[n].rule = detector[d].rule
               /\ alert'[n].bucket = Bucket(detector[d].at)
               /\ \A a \in AlertIds : alert'[a] = alert[a]
  BY <1>1, <1>4, CreateRows
<1>6. ASSUME NEW e \in Detectors, detector'[e].pc \in {"look", "create"}
      PROVE  /\ Fingerprint(detector[e].rule, detector[e].at)' = {}
             /\ detector'[e].pc = "create" => detector'[e].existing = 0
  <2>1. e # d /\ detector'[e] = detector[e] /\ detector[e].rule # detector[d].rule
    BY <1>2, <1>3, <1>6 DEF Apart
  <2>2. Fingerprint(detector[e].rule, detector[e].at) = {}
        /\ (detector[e].pc = "create" => detector[e].existing = 0)
    BY <1>6, <2>1 DEF TriggerInv, TriggerIsFresh
  <2>3. \A a \in AlertIds' : ~(/\ alert'[a].rule = detector[e].rule
                               /\ alert'[a].bucket = Bucket(detector[e].at))
    BY <1>5, <2>1, <2>2, Unseen
  <2> QED
    BY <2>1, <2>2, <2>3 DEF Fingerprint, Bucket
<1>7. TriggerIsFresh'
  BY <1>6 DEF TriggerIsFresh
<1>8. \A a \in AlertIds : ~(/\ alert[a].rule = alert'[n].rule
                            /\ alert[a].bucket = alert'[n].bucket)
  BY <1>4, <1>5, Unseen
<1>9. OneAlertPerBucket'
  BY <1>5, <1>8 DEF TriggerInv, OneAlertPerBucket
<1> QED
  BY <1>7, <1>9

LEMMA TriggerNext == Apart /\ TriggerInv /\ [Next]_vars => TriggerInv'
<1> SUFFICES ASSUME Apart, TriggerInv, [Next]_vars
             PROVE  OneAlertPerBucket' /\ TriggerIsFresh'
  BY TypedNext DEF TriggerInv
<1>1. Typed /\ WorkersTyped
  BY DEF TriggerInv, Typed
<1>2. CASE UNCHANGED <<alert, detector>>
  BY <1>1, <1>2, SameRows, FreshAlone
<1>3. ASSUME NEW d \in Detectors, BeginEvaluation(d)
      PROVE  OneAlertPerBucket' /\ TriggerIsFresh'
  <2>1. \A e \in Detectors : detector'[e] = detector[e] \/ detector'[e].pc = "rules"
    BY <1>1, <1>3 DEF BeginEvaluation, WorkersTyped
  <2>2. Kept
    BY <1>1, <1>3, SameRows DEF BeginEvaluation
  <2> QED
    BY <2>1, <2>2, FreshAlone
<1>4. CASE CreateCase
  <2>1. Kept /\ detector' = detector
    BY <1>1, <1>4, CaseRows DEF CreateCase
  <2> QED
    BY <2>1, FreshAlone
<1>5. ASSUME NEW a \in AlertIds, NEW new \in {"open", "closed"}, ChangeStatus(a, new)
      PROVE  OneAlertPerBucket' /\ TriggerIsFresh'
  <2>1. Kept /\ detector' = detector
    BY <1>1, <1>5, StatusRows DEF ChangeStatus
  <2> QED
    BY <2>1, FreshAlone
<1>6. CASE Restart
  <2>1. \A e \in Detectors : detector'[e] = detector[e] \/ detector'[e].pc = "sleep"
    BY <1>1, <1>6 DEF Restart, WorkersTyped, Asleep
  <2>2. Kept
    BY <1>1, <1>6, SameRows DEF Restart
  <2> QED
    BY <2>1, <2>2, FreshAlone
<1>7. ASSUME NEW d \in Detectors, NEW r \in Rules, RuleFails(d, r)
      PROVE  OneAlertPerBucket' /\ TriggerIsFresh'
  <2>1. /\ detector[d].pc # "sleep" /\ NextRule(d, r) /\ now' = now /\ event' = event
        /\ Kept /\ Rows
    BY <1>1, <1>7, SameRows DEF RuleFails
  <2> QED
    BY <1>1, <2>1, NextRuleTyped, FreshAlone
<1> QED
  BY <1>2, <1>3, <1>4, <1>5, <1>6, <1>7, EvaluateKeepsFresh, LookKeepsFresh, CreateKeepsFresh
     DEF Next, vars, Detection, Correlation, BeginCorrelation, EvaluateCondition,
         CorrelationFails, Arrive, Tick

\* trigger_alert_idempotent's "only one alert per window interval per group",
\* with workers kept apart: nothing that analysts, the correlation engine or a
\* restart does between the two look-ups and the write can double it.
THEOREM OneAlert == Spec /\ []Apart => []OneAlertPerBucket
<1>1. Init => TriggerInv
  <2>1. Init => AlertIds = {}
    BY LenProperties, EmptySeq DEF Init, AlertIds
  <2> QED
    BY <2>1, TypedInit
       DEF TriggerInv, OneAlertPerBucket, TriggerIsFresh, Init, Asleep
<1>2. TriggerInv /\ Apart /\ [Next]_vars => TriggerInv'
  BY TriggerNext
<1>3. TriggerInv => OneAlertPerBucket
  BY DEF TriggerInv
<1> QED
  BY <1>1, <1>2, <1>3, PTL DEF Spec

-----------------------------------------------------------------------------
(* Suppression. *)

\* A worker about to write an alert is right that what matches a suppression of
\* its rule has been quiet.
MuteIsFresh ==
    \A d \in Detectors, S \in Suppressions :
        detector[d].pc = "create" /\ detector[d].existing = 0 /\ detector[d].rule \in S
        => \A a \in AlertIds : alert[a].rule \in S => now - alert[a].at > MuteWindow

MuteInv == Typed /\ MutedStayQuiet /\ MuteIsFresh

LEMMA AlertTimes ==
    ASSUME Typed, NEW a \in AlertIds
    PROVE  alert[a].at \in Time /\ alert[a].rule \in Rules
<1>1. alert[a] \in AlertRow
  BY ElementOfSeq, LenProperties DEF Typed, AlertsTyped, AlertIds
<1> QED
  BY <1>1 DEF AlertRow

\* Steps that keep the alerts and bring no worker to its write.
LEMMA MuteAlone ==
    ASSUME MuteInv, Typed', Kept, now' \in Time, now <= now',
           \A d \in Detectors : detector'[d] = detector[d] \/ detector'[d].pc # "create"
    PROVE  MutedStayQuiet' /\ MuteIsFresh'
<1>1. MutedStayQuiet'
  BY DEF MuteInv, MutedStayQuiet, Kept
<1>2. ASSUME NEW d \in Detectors, NEW S \in Suppressions,
             detector'[d].pc = "create", detector'[d].existing = 0,
             detector'[d].rule \in S, NEW a \in AlertIds', alert'[a].rule \in S
      PROVE  now' - alert'[a].at > MuteWindow
  <2>1. /\ detector'[d] = detector[d] /\ a \in AlertIds
        /\ alert[a].rule \in S /\ alert'[a].at = alert[a].at
    BY <1>2 DEF Kept
  <2>2. now - alert[a].at > MuteWindow
    BY <1>2, <2>1 DEF MuteInv, MuteIsFresh
  <2>3. alert[a].at \in Int /\ now \in Int /\ now' \in Int /\ MuteWindow \in Int
    BY <2>1, AlertTimes, PipelineAssumption DEF MuteInv, Typed, WorkersTyped, Time
  <2> QED
    BY <2>1, <2>2, <2>3
<1>3. MuteIsFresh'
  BY <1>2 DEF MuteIsFresh
<1> QED
  BY <1>1, <1>3

LEMMA LookKeepsQuiet ==
    ASSUME MuteInv, Typed', NEW d \in Detectors, LookForDuplicate(d)
    PROVE  MutedStayQuiet' /\ MuteIsFresh'
<1> DEFINE r == detector[d].rule
<1>1. Typed /\ Kept /\ WorkersTyped /\ Rows /\ now \in Time
  BY SameRows DEF MuteInv, LookForDuplicate, Typed, WorkersTyped
<1>2. now' = now /\ event' = event /\ alert' = alert /\ detector[d].pc = "look"
  BY DEF LookForDuplicate
<1>3. CASE NextRule(d, r)
  <2>1. \A e \in Detectors : detector'[e] = detector[e] \/ detector'[e].pc # "create"
    BY <1>1, <1>2, <1>3, NextRuleTyped
  <2>2. now <= now'
    BY <1>1, <1>2, PipelineAssumption DEF Time
  <2> QED
    BY <1>1, <1>2, <2>1, <2>2, MuteAlone
<1>4. CASE /\ ~SuppressedNow(r)
           /\ \A e \in Detectors \ {d} : detector'[e] = detector[e]
           /\ detector'[d].rule = r
  <2>1. MutedStayQuiet'
    BY <1>2 DEF MuteInv, MutedStayQuiet, AlertIds
  <2>2. ASSUME NEW S \in Suppressions, r \in S, NEW a \in AlertIds, alert[a].rule \in S
        PROVE  now - alert[a].at > MuteWindow
    <3>1. ~(alert[a].at >= now - MuteWindow)
      BY <1>4, <2>2 DEF SuppressedNow, Muting
    <3>2. alert[a].at \in Int /\ now \in Int /\ MuteWindow \in Int
      BY <1>1, AlertTimes, PipelineAssumption DEF Time
    <3> QED
      BY <3>1, <3>2
  <2>3. MuteIsFresh'
    BY <1>2, <1>4, <2>2 DEF MuteInv, MuteIsFresh, AlertIds
  <2> QED
    BY <2>1, <2>3
<1>5. NextRule(d, r) \/ ( /\ ~SuppressedNow(r)
                          /\ \A e \in Detectors \ {d} : detector'[e] = detector[e]
                          /\ detector'[d].rule = r )
  BY <1>1 DEF LookForDuplicate, WorkersTyped
<1> QED
  BY <1>3, <1>4, <1>5

LEMMA CreateKeepsQuiet ==
    ASSUME QuietApart, MuteInv, Typed', NEW d \in Detectors, CreateOrMerge(d)
    PROVE  MutedStayQuiet' /\ MuteIsFresh'
<1>1. Typed /\ WorkersTyped /\ Rows /\ now \in Time
  BY RowsNext DEF MuteInv, Typed, Next, Detection, WorkersTyped
<1>2. /\ detector[d].pc = "create" /\ now' = now /\ event' = event
      /\ NextRule(d, detector[d].rule)
  BY DEF CreateOrMerge
<1>3. /\ detector'[d].pc \in {"sleep", "rules"}
      /\ \A e \in Detectors \ {d} : detector'[e] = detector[e]
  BY <1>1, <1>2, NextRuleTyped
<1>4. ASSUME \A e \in Detectors \ {d}, S \in Suppressions, a \in AlertIds' :
               /\ detector[e].pc = "create" /\ detector[e].rule \in S
               /\ alert'[a].rule \in S
               => a \in AlertIds /\ alert[a].rule = alert'[a].rule /\ alert[a].at = alert'[a].at
      PROVE  MuteIsFresh'
  BY <1>2, <1>3, <1>4 DEF MuteInv, MuteIsFresh
<1>5. CASE detector[d].existing # 0
  BY <1>1, <1>4, <1>5, MergeRows DEF MuteInv, MutedStayQuiet, Kept
<1>6. CASE detector[d].existing = 0
  <2>1. PICK n : /\ AlertIds' = AlertIds \cup {n}
                 /\ alert'[n].rule = detector[d].rule /\ alert'[n].at = now
                 /\ \A a \in AlertIds : a < n
                 /\ \A a \in AlertIds : alert'[a] = alert[a]
    BY <1>1, <1>6, CreateRows
  <2>2. ASSUME NEW S \in Suppressions, alert'[n].rule \in S,
               NEW a \in AlertIds, alert'[a].rule \in S
        PROVE  alert'[n].at - alert'[a].at > MuteWindow
    BY <1>2, <1>6, <2>1, <2>2 DEF MuteInv, MuteIsFresh
  <2>3. AlertIds' \subseteq Nat
    BY <1>1, LenProperties DEF Rows, AlertIds
  <2>4. \A a \in AlertIds' : ~(n < a)
    BY <2>1, <2>3
  <2>5. MutedStayQuiet'
    BY <2>1, <2>2, <2>4 DEF MuteInv, MutedStayQuiet
  <2>6. \A e \in Detectors \ {d}, S \in Suppressions :
           detector[e].pc = "create" => ~(detector[e].rule \in S /\ alert'[n].rule \in S)
    BY <1>2, <2>1 DEF QuietApart
  <2>7. MuteIsFresh'
    BY <1>4, <2>1, <2>6
  <2> QED
    BY <2>5, <2>7
<1> QED
  BY <1>5, <1>6

LEMMA MuteNext == QuietApart /\ MuteInv /\ [Next]_vars => MuteInv'
<1> SUFFICES ASSUME QuietApart, MuteInv, [Next]_vars
             PROVE  MutedStayQuiet' /\ MuteIsFresh'
  BY TypedNext DEF MuteInv
<1>1. Typed /\ Typed' /\ Rows /\ WorkersTyped /\ now \in Time
  BY TypedNext, RowsNext DEF MuteInv, Typed, WorkersTyped
<1>2. now' \in Time /\ now <= now'
  <2>1. now' = now \/ now' = now + 1
    BY DEF Next, vars, Detection, Correlation, BeginEvaluation, EvaluateRule, LookForDuplicate,
           CreateOrMerge, RuleFails, BeginCorrelation, EvaluateCondition, CreateCase,
           CorrelationFails, Arrive, ChangeStatus, Restart, Tick
  <2> QED
    BY <1>1, <2>1, PipelineAssumption DEF Typed, WorkersTyped, Time
<1>3. ASSUME Kept,
             \A d \in Detectors : detector'[d] = detector[d] \/ detector'[d].pc # "create"
      PROVE  MutedStayQuiet' /\ MuteIsFresh'
  BY <1>1, <1>2, <1>3, MuteAlone
<1>4. CASE UNCHANGED <<alert, detector>>
  BY <1>1, <1>3, <1>4, SameRows
<1>5. ASSUME NEW d \in Detectors, BeginEvaluation(d)
      PROVE  MutedStayQuiet' /\ MuteIsFresh'
  <2>1. \A e \in Detectors : detector'[e] = detector[e] \/ detector'[e].pc = "rules"
    BY <1>1, <1>5 DEF BeginEvaluation, WorkersTyped
  <2>2. Kept
    BY <1>1, <1>5, SameRows DEF BeginEvaluation
  <2> QED
    BY <1>3, <2>1, <2>2
<1>6. ASSUME NEW d \in Detectors, NEW r \in Rules, EvaluateRule(d, r)
      PROVE  MutedStayQuiet' /\ MuteIsFresh'
  <2>1. Kept /\ detector[d].pc # "sleep" /\ now' = now /\ event' = event
    BY <1>1, <1>6, SameRows DEF EvaluateRule
  <2>2. CASE NextRule(d, r)
    BY <1>1, <1>3, <2>1, <2>2, NextRuleTyped
  <2>3. CASE detector' = [detector EXCEPT ![d] = [pc |-> "look", todo |-> detector[d].todo,
                                                  at |-> detector[d].at, rule |-> r]]
    <3>1. \A e \in Detectors : detector'[e] = detector[e] \/ detector'[e].pc = "look"
      BY <1>1, <2>3 DEF WorkersTyped
    <3> QED
      BY <1>3, <2>1, <3>1
  <2> QED
    BY <1>6, <2>2, <2>3 DEF EvaluateRule
<1>7. CASE CreateCase
  <2>1. Kept /\ detector' = detector
    BY <1>1, <1>7, CaseRows DEF CreateCase
  <2> QED
    BY <1>3, <2>1
<1>8. ASSUME NEW a \in AlertIds, NEW new \in {"open", "closed"}, ChangeStatus(a, new)
      PROVE  MutedStayQuiet' /\ MuteIsFresh'
  <2>1. Kept /\ detector' = detector
    BY <1>1, <1>8, StatusRows DEF ChangeStatus
  <2> QED
    BY <1>3, <2>1
<1>9. CASE Restart
  <2>1. \A e \in Detectors : detector'[e] = detector[e] \/ detector'[e].pc = "sleep"
    BY <1>1, <1>9 DEF Restart, WorkersTyped, Asleep
  <2>2. Kept
    BY <1>1, <1>9, SameRows DEF Restart
  <2> QED
    BY <1>3, <2>1, <2>2
<1>10. ASSUME NEW d \in Detectors, Detection(d)
       PROVE  MutedStayQuiet' /\ MuteIsFresh'
  <2>1. CASE LookForDuplicate(d)
    BY <1>1, <2>1, LookKeepsQuiet
  <2>2. CASE CreateOrMerge(d)
    BY <1>1, <2>2, CreateKeepsQuiet
  <2> QED
    BY <1>5, <1>6, <1>10, <2>1, <2>2 DEF Detection
<1>11. ASSUME NEW d \in Detectors, NEW r \in Rules, RuleFails(d, r)
       PROVE  MutedStayQuiet' /\ MuteIsFresh'
  <2>1. /\ detector[d].pc # "sleep" /\ NextRule(d, r) /\ now' = now /\ event' = event /\ Kept
    BY <1>1, <1>11, SameRows DEF RuleFails
  <2> QED
    BY <1>1, <1>3, <2>1, NextRuleTyped
<1> QED
  BY <1>4, <1>7, <1>8, <1>9, <1>10, <1>11
     DEF Next, vars, Correlation, BeginCorrelation, EvaluateCondition, CorrelationFails, Arrive,
         Tick

\* create_alert's suppression, with workers kept apart: two alerts that one
\* suppression matches have more than the window between them, although the
\* clock moves on between the look-up and the write.
THEOREM MutedQuiet == Spec /\ []QuietApart => []MutedStayQuiet
<1>1. Init => MuteInv
  <2>1. Init => AlertIds = {}
    BY LenProperties, EmptySeq DEF Init, AlertIds
  <2> QED
    BY <2>1, TypedInit DEF MuteInv, MutedStayQuiet, MuteIsFresh
<1>2. MuteInv /\ QuietApart /\ [Next]_vars => MuteInv'
  BY MuteNext
<1>3. MuteInv => MutedStayQuiet
  BY DEF MuteInv
<1> QED
  BY <1>1, <1>2, <1>3, PTL DEF Spec

-----------------------------------------------------------------------------
(* No burst is lost, whatever other workers do. *)

\* The alert a worker is about to merge with is one of its interval.
MergeTarget ==
    \A d \in Detectors :
        detector[d].pc = "create" /\ detector[d].existing # 0 =>
            /\ alert[detector[d].existing].rule = detector[d].rule
            /\ alert[detector[d].existing].bucket = Bucket(detector[d].at)

MergeInv == Typed /\ MergeTarget

\* Whoever writes the alerts, a row keeps its rule and its interval.
LEMMA IntervalsKept ==
    ASSUME Typed, [Next]_vars, NEW a \in AlertIds
    PROVE  /\ a \in AlertIds'
           /\ alert'[a].rule = alert[a].rule
           /\ alert'[a].bucket = alert[a].bucket
<1>1. CASE UNCHANGED alert
  BY <1>1, SameRows DEF Kept
<1>2. CASE \E d \in Detectors : CreateOrMerge(d)
  <2>1. PICK d \in Detectors : CreateOrMerge(d)
    BY <1>2
  <2>2. CASE detector[d].existing # 0
    BY <2>1, <2>2, MergeRows DEF Kept
  <2>3. CASE detector[d].existing = 0
    BY <2>1, <2>3, CreateRows
  <2> QED
    BY <2>2, <2>3
<1>3. CASE CreateCase
  BY <1>3, CaseRows DEF Kept
<1>4. CASE \E x \in AlertIds, new \in {"open", "closed"} : ChangeStatus(x, new)
  BY <1>4, StatusRows DEF Kept
<1> QED
  BY <1>1, <1>2, <1>3, <1>4
     DEF Next, vars, Detection, Correlation, BeginEvaluation, EvaluateRule, LookForDuplicate,
         BeginCorrelation, EvaluateCondition, RuleFails, CorrelationFails, Arrive, Restart, Tick

\* A worker comes to its write by a look-up of its own only.
LEMMA OnlyLookUpCreates ==
    ASSUME Typed, [Next]_vars, NEW d \in Detectors, detector'[d].pc = "create"
    PROVE  detector'[d] = detector[d] \/ LookForDuplicate(d)
<1>1. WorkersTyped /\ detector \in [Detectors -> WorkerState]
  BY DEF Typed, WorkersTyped
<1>2. ASSUME NEW e \in Detectors, Detection(e)
      PROVE  detector'[d] = detector[d] \/ LookForDuplicate(d)
  <2>1. CASE e # d
    BY <1>1, <1>2, <2>1 DEF Detection, BeginEvaluation, EvaluateRule, LookForDuplicate,
       CreateOrMerge, NextRule
  <2>2. CASE e = d
    <3>1. ASSUME NEW r, NextRule(d, r) PROVE FALSE
      BY <1>1, <3>1 DEF NextRule, Asleep
    <3>2. ~BeginEvaluation(d) /\ ~CreateOrMerge(d) /\ \A r \in Rules : ~EvaluateRule(d, r)
      BY <1>1, <3>1 DEF BeginEvaluation, CreateOrMerge, EvaluateRule
    <3> QED
      BY <1>2, <2>2, <3>2 DEF Detection
  <2> QED
    BY <2>1, <2>2
<1>3. CASE Restart
  BY <1>1, <1>3 DEF Restart, Asleep
<1>4. ASSUME NEW e \in Detectors, NEW r \in Rules, RuleFails(e, r)
      PROVE  detector'[d] = detector[d]
  <2>1. e # d
    BY <1>1, <1>4 DEF RuleFails, NextRule, Asleep
  <2> QED
    BY <1>1, <1>4, <2>1 DEF RuleFails, NextRule
<1> QED
  BY <1>2, <1>3, <1>4 DEF Next, vars, Correlation, BeginCorrelation, EvaluateCondition,
     CreateCase, CorrelationFails, Arrive, ChangeStatus, Tick

\* What the look-up finds to merge with is of the rule and the interval.
LEMMA LookFindsTarget ==
    ASSUME Typed, NEW d \in Detectors, LookForDuplicate(d), detector'[d].pc = "create",
           detector'[d].existing # 0
    PROVE  /\ detector'[d].existing \in AlertIds
           /\ alert[detector'[d].existing].rule = detector'[d].rule
           /\ alert[detector'[d].existing].bucket = Bucket(detector'[d].at)
<1> DEFINE r == detector[d].rule
           open == {a \in Fingerprint(r, detector[d].at) : alert[a].status = "open"}
<1>1. detector \in [Detectors -> WorkerState]
  BY DEF Typed, WorkersTyped
<1>2. ~NextRule(d, r)
  BY <1>1 DEF NextRule, Asleep
<1>3. PICK a \in IF open = {} THEN {0} ELSE open :
         detector' = [detector EXCEPT ![d] =
           [pc |-> "create", todo |-> detector[d].todo, at |-> detector[d].at, rule |-> r,
            existing |-> a, count |-> IF a = 0 THEN 0 ELSE alert[a].count]]
  BY <1>2 DEF LookForDuplicate
<1>4. detector'[d].existing = a /\ detector'[d].rule = r /\ detector'[d].at = detector[d].at
  BY <1>1, <1>3
<1>5. a \in open
  BY <1>3, <1>4
<1> QED
  BY <1>4, <1>5 DEF Fingerprint

LEMMA MergeNext == MergeInv /\ [Next]_vars => MergeInv'
<1> SUFFICES ASSUME MergeInv, [Next]_vars,
                    NEW d \in Detectors, detector'[d].pc = "create", detector'[d].existing # 0
             PROVE  /\ alert'[detector'[d].existing].rule = detector'[d].rule
                    /\ alert'[detector'[d].existing].bucket = Bucket(detector'[d].at)
  BY TypedNext DEF MergeInv, MergeTarget, Bucket
<1> DEFINE x == detector'[d].existing
<1>1. x \in AlertIds /\ alert[x].rule = detector'[d].rule
      /\ alert[x].bucket = Bucket(detector'[d].at)
  <2>1. CASE detector'[d] = detector[d]
    BY <2>1, WorkerKnows DEF MergeInv, MergeTarget, Typed
  <2>2. CASE LookForDuplicate(d)
    BY <2>2, LookFindsTarget DEF MergeInv
  <2> QED
    BY <2>1, <2>2, OnlyLookUpCreates DEF MergeInv
<1> QED
  BY <1>1, IntervalsKept DEF MergeInv

\* A worker is through with the rule it was at, and with no other.
LEMMA ThroughWithOne ==
    ASSUME WorkersTyped, NEW d \in Detectors, NEW q, NextRule(d, q), NEW r \in detector[d].todo,
           \/ detector'[d] = Asleep
           \/ detector'[d].pc = "rules" /\ r \notin detector'[d].todo
    PROVE  r = q
<1> DEFINE todo == detector[d].todo \ {q}
           v == [pc |-> "rules", todo |-> todo, at |-> detector[d].at]
<1>1. detector'[d] = IF todo = {} THEN Asleep ELSE v
  BY DEF NextRule, WorkersTyped
<1>2. v # Asleep /\ v.todo = todo
  BY DEF Asleep
<1> QED
  BY <1>1, <1>2

\* When it is, the burst of the rule has been reported.
LEMMA ThroughIsReported ==
    ASSUME MergeInv, NEW d \in Detectors, NEW r \in Rules, Detection(d),
           detector[d].pc # "sleep", r \in detector[d].todo, Bursting(r, detector[d].at),
           \/ detector'[d] = Asleep
           \/ detector'[d].pc = "rules" /\ r \notin detector'[d].todo
    PROVE  \/ \E b \in DOMAIN alert' : /\ alert'[b].rule = r
                                       /\ alert'[b].bucket = Bucket(detector[d].at)
           \/ \E S \in Suppressions : r \in S /\ Muting(S) # {}
<1>1. Typed /\ WorkersTyped /\ detector \in [Detectors -> WorkerState]
  BY DEF MergeInv, Typed, WorkersTyped
<1>2. ~BeginEvaluation(d)
  BY DEF BeginEvaluation
<1>3. ASSUME NEW q \in Rules, EvaluateRule(d, q)
      PROVE  \E b \in DOMAIN alert' : /\ alert'[b].rule = r
                                      /\ alert'[b].bucket = Bucket(detector[d].at)
  <2>1. CASE /\ ~(Bursting(q, detector[d].at) /\ Fingerprint(q, detector[d].at) = {})
             /\ NextRule(d, q)
    <3>1. r = q
      BY <1>1, <2>1, ThroughWithOne
    <3>2. Fingerprint(r, detector[d].at) # {} /\ alert' = alert
      BY <1>3, <2>1, <3>1 DEF EvaluateRule
    <3> QED
      BY <3>2 DEF Fingerprint, AlertIds
  <2>2. CASE detector' = [detector EXCEPT ![d] =
                [pc |-> "look", todo |-> detector[d].todo, at |-> detector[d].at, rule |-> q]]
    <3>1. detector'[d].pc = "look"
      BY <1>1, <2>2
    <3> QED
      BY <3>1 DEF Asleep
  <2> QED
    BY <1>3, <2>1, <2>2 DEF EvaluateRule
<1>4. ASSUME LookForDuplicate(d)
      PROVE  \E S \in Suppressions : r \in S /\ Muting(S) # {}
  <2>1. detector'[d].pc # "create"
    BY DEF Asleep
  <2>2. SuppressedNow(detector[d].rule) /\ NextRule(d, detector[d].rule)
    BY <1>1, <1>4, <2>1 DEF LookForDuplicate
  <2>3. r = detector[d].rule
    BY <1>1, <2>2, ThroughWithOne
  <2> QED
    BY <2>2, <2>3 DEF SuppressedNow
<1>5. ASSUME CreateOrMerge(d)
      PROVE  \E b \in DOMAIN alert' : /\ alert'[b].rule = r
                                      /\ alert'[b].bucket = Bucket(detector[d].at)
  <2>1. r = detector[d].rule /\ detector[d].pc = "create"
    BY <1>1, <1>5, ThroughWithOne DEF CreateOrMerge
  <2>2. CASE detector[d].existing = 0
    <3>1. \E n : /\ n \in AlertIds' /\ alert'[n].rule = r
                 /\ alert'[n].bucket = Bucket(detector[d].at)
      BY <1>1, <1>5, <2>1, <2>2, CreateRows
    <3> QED
      BY <3>1 DEF AlertIds
  <2>3. CASE detector[d].existing # 0
    <3> DEFINE x == detector[d].existing
    <3>1. /\ x \in AlertIds /\ alert[x].rule = r
          /\ alert[x].bucket = Bucket(detector[d].at)
      BY <1>1, <2>1, <2>3, WorkerKnows DEF MergeInv, MergeTarget
    <3>2. /\ x \in AlertIds' /\ alert'[x].rule = r
          /\ alert'[x].bucket = Bucket(detector[d].at)
      BY <1>1, <1>5, <2>3, <3>1, MergeRows DEF Kept
    <3> QED
      BY <3>2 DEF AlertIds
  <2> QED
    BY <2>2, <2>3
<1> QED
  BY <1>2, <1>3, <1>4, <1>5 DEF Detection

\* Suppression and deduplication lose no burst, for any number of workers: a
\* worker that is through with a rule over its threshold leaves an alert of the
\* interval behind, or a suppression of the rule had one in its window.
THEOREM BurstsReported == Spec => BurstsAreReported
<1>1. Init => MergeInv
  BY TypedInit DEF MergeInv, MergeTarget, Init, Asleep
<1>2. MergeInv /\ [Next]_vars =>
        [\A d \in Detectors, r \in Rules :
           LET at == detector[d].at IN
           /\ detector[d].pc # "sleep"
           /\ r \in detector[d].todo
           /\ Bursting(r, at)
           /\ \/ detector'[d] = Asleep
              \/ detector'[d].pc = "rules" /\ r \notin detector'[d].todo
           /\ Detection(d)
           => \/ \E b \in DOMAIN alert' : alert'[b].rule = r /\ alert'[b].bucket = Bucket(at)
              \/ \E S \in Suppressions : r \in S /\ Muting(S) # {}]_vars
  BY ThroughIsReported
<1> QED
  BY <1>1, <1>2, MergeNext, PTL DEF Spec, BurstsAreReported

-----------------------------------------------------------------------------
(* Cases. *)

\* The step that ends the loop leaves the case of all that has matched.
LEMMA LastTurn ==
    ASSUME Typed, Correlation, engine # Asleep, engine' = Asleep
    PROVE  \E c \in DOMAIN cases' :
              /\ cases'[c].bucket = CaseBucket
              /\ {a \in engine.alerts : Matches(a)} \subseteq cases'[c].alerts
<1> DEFINE ids == Matched(engine.next)
           case == [bucket |-> CaseBucket, alerts |-> ids]
<1>1. /\ engine \in EngineState /\ cases \in Seq([bucket : Time, alerts : SUBSET AlertIds])
  BY DEF Typed, CasesTyped
<1>2. /\ engine.pc # "sleep" /\ engine.at \in Time /\ engine.alerts \subseteq AlertIds
      /\ engine.next \in DOMAIN Conditions
  BY <1>1 DEF EngineState, Asleep
<1>3. ASSUME NextCondition PROVE engine.next = Len(Conditions)
  <2>1. [engine EXCEPT !.pc = "conditions", !.next = @ + 1] # Asleep
    BY <1>1, <1>2 DEF EngineState, Asleep
  <2> QED
    BY <1>3, <2>1 DEF NextCondition
<1>4. ASSUME engine.next = Len(Conditions)
      PROVE  {a \in engine.alerts : Matches(a)} \subseteq ids
  BY <1>4, PipelineAssumption, LenProperties DEF Matches, Matched
<1>5. CASE EvaluateCondition
  <2>1. [engine EXCEPT !.pc = "create"] # Asleep
    BY <1>1, <1>2 DEF EngineState, Asleep
  <2>2. Known(ids) /\ NextCondition /\ cases' = cases
    BY <1>5, <2>1 DEF EvaluateCondition, SkipCondition
  <2>3. PICK c \in DOMAIN cases : cases[c] = case
    BY <2>2 DEF Known
  <2> QED
    BY <1>3, <1>4, <2>2, <2>3
<1>6. CASE CreateCase
  <2>1. NextCondition /\ cases' = Append(cases, case)
    BY <1>6 DEF CreateCase
  <2>2. case \in [bucket : Time, alerts : SUBSET AlertIds]
    BY <1>2, BucketsAreTimes, PipelineAssumption DEF CaseBucket, Matched
  <2>3. case.bucket = CaseBucket /\ case.alerts = ids
    OBVIOUS
  <2> HIDE DEF case
  <2>4. Len(cases) + 1 \in DOMAIN cases' /\ cases'[Len(cases) + 1] = case
    BY <1>1, <2>1, <2>2, Extend
  <2> QED
    BY <1>3, <1>4, <2>1, <2>3, <2>4
<1> QED
  BY <1>2, <1>5, <1>6 DEF Correlation, BeginCorrelation

\* For any conditions and number of workers, an evaluation of the correlation
\* rule that gets through leaves the matching alerts of its snapshot together in
\* one case of its interval, whatever cases it found or made before.
THEOREM MatchesReach == Spec => MatchesReachACase
<1>1. Spec => []Typed
  BY TypedInit, TypedNext, PTL DEF Spec
<1>2. Typed => [Correlation /\ engine # Asleep /\ engine' = Asleep =>
          \E c \in DOMAIN cases' :
             /\ cases'[c].bucket = CaseBucket
             /\ {a \in engine.alerts : Matches(a)} \subseteq cases'[c].alerts]_vars
  BY LastTurn
<1> QED
  BY <1>1, <1>2, PTL DEF MatchesReachACase
=============================================================================
