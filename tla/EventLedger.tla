---------------------------- MODULE EventLedger ----------------------------
(***************************************************************************)
(* What the ingestion pipeline promises, without workers, claims, retries  *)
(* or timeouts: an accepted event stays open until it is settled once and  *)
(* for all, as PROCESSED when a normalized row with its fingerprint is     *)
(* stored or as FAILED, and the normalized rows form a set that only       *)
(* grows, one row to a fingerprint.                                        *)
(***************************************************************************)
CONSTANTS Events, Fingerprints, FpOf, CanSucceed, CanFail, NoEvent

VARIABLES
    outcome,  \* "ABSENT", "OPEN", "PROCESSED" or "FAILED", for each event
    rows      \* the event a fingerprint's normalized row was made from

vars == <<outcome, rows>>

Init ==
    /\ outcome = [e \in Events |-> "ABSENT"]
    /\ rows = [f \in Fingerprints |-> NoEvent]

\* Move a set of events from one outcome to another.
Move(S, from, to) ==
    /\ S # {}
    /\ \A e \in S : outcome[e] = from
    /\ outcome' = [e \in Events |-> IF e \in S THEN to ELSE outcome[e]]

Submit(S) == Move(S, "ABSENT", "OPEN") /\ UNCHANGED rows

\* Store rows of open events under fingerprints that have none yet.
Store ==
    /\ rows' \in [Fingerprints -> Events \cup {NoEvent}]
    /\ \A f \in Fingerprints :
         \/ rows'[f] = rows[f]
         \/ /\ rows[f] = NoEvent
            /\ rows'[f] \in CanSucceed
            /\ outcome[rows'[f]] = "OPEN"
            /\ FpOf[rows'[f]] = f
    /\ UNCHANGED outcome

Accept(S) ==
    /\ \A e \in S : e \in CanSucceed /\ rows[FpOf[e]] # NoEvent
    /\ Move(S, "OPEN", "PROCESSED")
    /\ UNCHANGED rows

Reject(e) == e \in CanFail /\ Move({e}, "OPEN", "FAILED") /\ UNCHANGED rows

Next ==
    \/ \E S \in SUBSET Events : Submit(S) \/ Accept(S)
    \/ Store
    \/ \E e \in Events : Reject(e)

Spec == Init /\ [][Next]_vars
=============================================================================
