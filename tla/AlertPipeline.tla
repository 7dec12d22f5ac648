---------------------------- MODULE AlertPipeline ----------------------------
(***************************************************************************)
(* From normalized events to alerts to cases, in one workspace: the        *)
(* detection engine (detection_engine.py) with create_alert, which it      *)
(* calls, and the correlation engine (correlation_engine.py).  Analysts    *)
(* change the status of alerts in between.                                 *)
(*                                                                         *)
(* Rules group nothing here: a rule with a group_by is as many rules as    *)
(* it has groups, which share no fingerprints.  An AlertSuppressionRule is *)
(* the set of the rules whose source, title and category it matches; one   *)
(* with a group_by is such a set for each group.  One with an event_type   *)
(* is none: the engine's payload has no such field, and never matches.     *)
(* Bounds: MaxTime, and one event of a rule per instant.                   *)
(***************************************************************************)
EXTENDS Integers, Sequences, FiniteSets

CONSTANTS
    Rules,           \* the DetectionRules; evaluate_rules first seeds the defaults
    Threshold,       \* threshold_count of each rule
    Window,          \* time_window_seconds of every rule
    Suppressions,    \* the AlertSuppressionRules, as the sets of rules they match
    MuteWindow,      \* suppression_window_seconds
    Conditions,      \* of the AlertCorrelationRule: the detection rules each one matches
    CaseWindow,      \* its time_window_seconds
    Lateness,        \* how late EventProcessor may deliver an event
    Detectors,       \* the detection workers
    MaxTime

ASSUME PipelineAssumption ==
    /\ Rules # {}
    /\ Threshold \in [Rules -> Nat \ {0}]
    /\ Window \in Nat \ {0} /\ MuteWindow \in Nat /\ CaseWindow \in Nat \ {0}
    /\ Suppressions \subseteq SUBSET Rules
    /\ Conditions \in Seq(SUBSET Rules) \ {<< >>}
    /\ Lateness \in Nat /\ MaxTime \in Nat

VARIABLES
    now,
    event,      \* the NormalizedEvents, as <<rule they match, event_time>>
    alert,      \* the alerts, in the order of their ids
    detector,   \* where each detection worker is
    cases,      \* the cases the correlation engine made
    engine      \* where the correlation engine is

vars == <<now, event, alert, detector, cases, engine>>

Time == 0 .. MaxTime
AlertIds == DOMAIN alert

\* "open": OPEN, ACKNOWLEDGED or IN_PROGRESS, which create_alert merges with.
\* "closed": RESOLVED, FALSE_POSITIVE or REOPENED.
AlertRow == [rule : Rules, bucket : Time, at : Time, count : Nat,
             status : {"open", "closed", "CORRELATED"}]

\* todo: the rules the loop has not come to.  at: the time of the evaluation.
\* existing: the alert to merge with, 0 if there is none.
Asleep == [pc |-> "sleep"]

Init ==
    /\ now = 0
    /\ event = {}
    /\ alert = << >>
    /\ detector = [d \in Detectors |-> Asleep]
    /\ cases = << >>
    /\ engine = Asleep

-----------------------------------------------------------------------------
(* The detection engine. *)

Bucket(t) == t \div Window

\* event_time is within the rule's window of time t.
Recent(r, t) == {e \in event : e[1] = r /\ e[2] >= t - Window}
Bursting(r, t) == Cardinality(Recent(r, t)) >= Threshold[r]

\* Mutant: an alert that is closed does not count.
OpenFingerprint(r, t) ==
    {a \in AlertIds : alert[a].rule = r /\ alert[a].bucket = Bucket(t)
                      /\ alert[a].status = "open"}

\* Mutant: the bucket is not part of the fingerprint.
EternalFingerprint(r, t) == {a \in AlertIds : alert[a].rule = r}

Fingerprint(r, t) ==
    {a \in AlertIds : alert[a].rule = r /\ alert[a].bucket = Bucket(t)}

BeginEvaluation(d) ==
    /\ detector[d].pc = "sleep"
    /\ detector' = [detector EXCEPT ![d] = [pc |-> "rules", todo |-> Rules, at |-> now]]
    /\ UNCHANGED <<now, event, alert, cases, engine>>

\* Mutant: the loop is not left after its last rule.
NextRuleForEver(d, r) ==
    detector' = [detector EXCEPT ![d] = [pc |-> "rules", todo |-> @.todo \ {r}, at |-> @.at]]

\* The worker is done with its rule and goes on with the others.
NextRule(d, r) ==
    LET todo == detector[d].todo \ {r} IN
    detector' = [detector EXCEPT ![d] =
                   IF todo = {} THEN Asleep
                   ELSE [pc |-> "rules", todo |-> todo, at |-> @.at]]

\* One rule of evaluate_rules, up to trigger_alert_idempotent's early return.
\* The events are counted later than the evaluation began.
EvaluateRule(d, r) ==
    LET at == detector[d].at IN
    /\ detector[d].pc = "rules"
    /\ r \in detector[d].todo
    /\ IF Bursting(r, at) /\ Fingerprint(r, at) = {}
       THEN detector' = [detector EXCEPT ![d] =
                           [pc |-> "look", todo |-> @.todo, at |-> @.at, rule |-> r]]
       ELSE NextRule(d, r)
    /\ UNCHANGED <<now, event, alert, cases, engine>>

\* The alerts of the window that suppression S matches.
Muting(S) == {a \in AlertIds : alert[a].rule \in S /\ alert[a].at >= now - MuteWindow}

\* Mutant: suppression looks at the rule's own alerts only.
SuppressedByOwn(r) ==
    \E S \in Suppressions : r \in S /\ \E a \in Muting(S) : alert[a].rule = r

\* Any alert the suppression matches will do, whichever rule raised it.
SuppressedNow(r) == \E S \in Suppressions : r \in S /\ Muting(S) # {}

\* create_alert's reads: suppression, then the open alert to merge with.
LookForDuplicate(d) ==
    LET r == detector[d].rule
        open == {a \in Fingerprint(r, detector[d].at) : alert[a].status = "open"}
    IN  /\ detector[d].pc = "look"
        /\ IF SuppressedNow(r) THEN NextRule(d, r)
           ELSE \E a \in IF open = {} THEN {0} ELSE open :
                   /\ \A b \in open : a <= b
                   /\ detector' = [detector EXCEPT ![d] =
                        [pc |-> "create", todo |-> @.todo, at |-> @.at, rule |-> r,
                         existing |-> a, count |-> IF a = 0 THEN 0 ELSE alert[a].count]]
        /\ UNCHANGED <<now, event, alert, cases, engine>>

\* create_alert's write.
CreateOrMerge(d) ==
    LET r == detector[d].rule
        a == detector[d].existing
    IN  /\ detector[d].pc = "create"
        /\ alert' = IF a # 0 THEN [alert EXCEPT ![a].count = detector[d].count + 1]
                    ELSE Append(alert, [rule |-> r, bucket |-> Bucket(detector[d].at),
                                        at |-> now, count |-> 1, status |-> "open"])
        /\ NextRule(d, r)
        /\ UNCHANGED <<now, event, cases, engine>>

\* Whatever is raised for one rule is logged, and the loop goes on.
RuleFails(d, r) ==
    /\ \/ detector[d].pc = "rules" /\ r \in detector[d].todo
       \/ detector[d].pc \in {"look", "create"} /\ r = detector[d].rule
    /\ NextRule(d, r)
    /\ UNCHANGED <<now, event, alert, cases, engine>>

-----------------------------------------------------------------------------
(* The correlation engine. *)

BeginCorrelation ==
    /\ engine.pc = "sleep"
    /\ engine' = [pc |-> "conditions", at |-> now, next |-> 1,
                  alerts |-> {a \in AlertIds : alert[a].at >= now - CaseWindow}]
    /\ UNCHANGED <<now, event, alert, detector, cases>>

\* condition_matches holds the conditions met so far.
Matched(i) ==
    {a \in engine.alerts : \E j \in 1 .. i : alert[a].rule \in Conditions[j]}

CaseBucket == engine.at \div CaseWindow

Known(ids) == \E c \in DOMAIN cases : cases[c] = [bucket |-> CaseBucket, alerts |-> ids]

NextCondition ==
    engine' = IF engine.next = Len(Conditions) THEN Asleep
              ELSE [engine EXCEPT !.pc = "conditions", !.next = @ + 1]

\* Mutant: a known case ends the loop (break for continue).
SkipConditions == engine' = Asleep

SkipCondition == NextCondition

\* One turn of the loop over the conditions: the block that makes the case is
\* inside the loop, and is reached whatever has matched.
EvaluateCondition ==
    /\ engine.pc = "conditions"
    /\ IF Known(Matched(engine.next)) THEN SkipCondition
       ELSE engine' = [engine EXCEPT !.pc = "create"]
    /\ UNCHANGED <<now, event, alert, detector, cases>>

\* The transaction: the case, its alerts, and their status.
CreateCase ==
    LET ids == Matched(engine.next) IN
    /\ engine.pc = "create"
    /\ cases' = Append(cases, [bucket |-> CaseBucket, alerts |-> ids])
    /\ alert' = [a \in AlertIds |->
                   IF a \in ids THEN [alert[a] EXCEPT !.status = "CORRELATED"] ELSE alert[a]]
    /\ NextCondition
    /\ UNCHANGED <<now, event, detector>>

\* Whatever is raised, an alert deleted since the snapshot for one, is logged,
\* and ends the rule with its remaining conditions.
CorrelationFails ==
    /\ engine # Asleep
    /\ engine' = Asleep
    /\ UNCHANGED <<now, event, alert, detector, cases>>

-----------------------------------------------------------------------------
(* Their surroundings. *)

\* EventProcessor stores an event that happened at t.
Arrive(r, t) ==
    /\ t <= now /\ t >= now - Lateness
    /\ event' = event \cup {<<r, t>>}
    /\ UNCHANGED <<now, alert, detector, cases, engine>>

\* change_status decides on the copy its request has loaded, at any time since
\* the alert was made, and writes to the row: also over CORRELATED, which no
\* transition leaves.
ChangeStatus(a, new) ==
    /\ alert' = [alert EXCEPT ![a].status = new]
    /\ UNCHANGED <<now, event, detector, cases, engine>>

\* A worker dies and is started again.
Restart ==
    /\ \/ \E d \in Detectors : detector[d] # Asleep
                               /\ detector' = [detector EXCEPT ![d] = Asleep]
                               /\ UNCHANGED engine
       \/ engine # Asleep /\ engine' = Asleep /\ UNCHANGED detector
    /\ UNCHANGED <<now, event, alert, cases>>

Tick ==
    /\ now < MaxTime
    /\ now' = now + 1
    /\ UNCHANGED <<event, alert, detector, cases, engine>>

Detection(d) ==
    \/ BeginEvaluation(d)
    \/ \E r \in Rules : EvaluateRule(d, r)
    \/ LookForDuplicate(d)
    \/ CreateOrMerge(d)

Correlation == BeginCorrelation \/ EvaluateCondition \/ CreateCase

Next ==
    \/ \E d \in Detectors : Detection(d) \/ \E r \in Rules : RuleFails(d, r)
    \/ Correlation
    \/ CorrelationFails
    \/ \E r \in Rules, t \in Time : Arrive(r, t)
    \/ \E a \in AlertIds, new \in {"open", "closed"} : ChangeStatus(a, new)
    \/ Restart
    \/ Tick

Spec == Init /\ [][Next]_vars

-----------------------------------------------------------------------------
(* Properties. *)

\* Columns and worker positions have their types; a detector that merges, and
\* the correlation engine, name alerts that exist.
TypeOK ==
    /\ now \in Time
    /\ event \subseteq Rules \X Time
    /\ alert \in Seq(AlertRow)
    /\ \A d \in Detectors :
          /\ detector[d].pc \in {"sleep", "rules", "look", "create"}
          /\ detector[d].pc # "sleep" => detector[d].todo # {} /\ detector[d].at <= now
          /\ detector[d].pc = "create" => detector[d].existing \in AlertIds \cup {0}
    /\ cases \in Seq([bucket : Time, alerts : SUBSET AlertIds])
    /\ engine.pc \in {"sleep", "conditions", "create"}
    /\ engine.pc # "sleep" => /\ engine.alerts \subseteq AlertIds
                              /\ engine.next \in DOMAIN Conditions

\* trigger_alert_idempotent's "Bucketing window to ensure only one alert per
\* window interval per group", whatever analysts did with the first one and
\* however often the worker is restarted.
OneAlertPerBucket ==
    \A a, b \in AlertIds :
        alert[a].rule = alert[b].rule /\ alert[a].bucket = alert[b].bucket => a = b

\* The suppression engine of create_alert: two alerts that one suppression rule
\* matches, of one detection rule or of two, are further apart than its window.
MutedStayQuiet ==
    \A S \in Suppressions, a, b \in AlertIds :
        a < b /\ alert[a].rule \in S /\ alert[b].rule \in S
        => alert[b].at - alert[a].at > MuteWindow

\* Suppression and deduplication lose no burst: when a worker is through with a
\* rule whose threshold was reached, the burst's interval has its alert, or a
\* suppression that matches the rule has one in its window.  (Detection: a rule
\* that fails, or a worker that dies, leaves the burst to the next evaluation.)
BurstsAreReported ==
    [][\A d \in Detectors, r \in Rules :
          LET at == detector[d].at IN
          /\ detector[d].pc # "sleep"
          /\ r \in detector[d].todo
          /\ Bursting(r, at)
          /\ \/ detector'[d] = Asleep
             \/ detector'[d].pc = "rules" /\ r \notin detector'[d].todo
          /\ Detection(d)
          => \/ \E b \in DOMAIN alert' : alert'[b].rule = r /\ alert'[b].bucket = Bucket(at)
             \/ \E S \in Suppressions : r \in S /\ Muting(S) # {}]_vars

\* Some condition of the correlation rule matches alert a.
Matches(a) == \E i \in DOMAIN Conditions : alert[a].rule \in Conditions[i]

\* "We can store fingerprint in description and use it to dedup": whatever cases
\* earlier evaluations have made or left unmade, one that gets through its
\* conditions leaves all the matching alerts of its window in one case of its
\* interval.
MatchesReachACase ==
    [][Correlation /\ engine # Asleep /\ engine' = Asleep =>
          \E c \in DOMAIN cases' :
             /\ cases'[c].bucket = CaseBucket
             /\ {a \in engine.alerts : Matches(a)} \subseteq cases'[c].alerts]_vars

\* "All conditions met! Create a Case": a case has an alert for each condition.
CasesMeetAllConditions ==
    \A c \in DOMAIN cases, i \in DOMAIN Conditions :
        \E a \in cases[c].alerts : alert[a].rule \in Conditions[i]
=============================================================================
