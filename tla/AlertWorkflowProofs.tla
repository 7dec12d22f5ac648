------------------------- MODULE AlertWorkflowProofs -------------------------
(***************************************************************************)
(* Proofs about AlertWorkflow, for any users, roles, alerts and number of  *)
(* concurrent requests, and with roles that change at any time.  The       *)
(* invariants are proved together; the rules about transitions and locks   *)
(* are decided on copies, and what is proved of a step speaks of the copy  *)
(* its request decided on.                                                 *)
(***************************************************************************)
EXTENDS AlertWorkflow, WellFoundedInduction, TLAPS

\* Between requests a session holds no copies.
IdleHoldsNothing == \A s \in Sessions : actor[s] = Nobody => Loaded(s) = {}

Inv == TypeOK /\ LocksAreTimed /\ FinalIsStamped /\ IdleHoldsNothing

\* The property of one row that Inv states of every row.
RowSound(r) ==
    /\ r \in Row
    /\ r.locker = Nobody <=> r.lockAge = NotLocked
    /\ r.status \in Final => r.resolved

\* The part of TypeOK about users and requests, and the part about the job.
RequestsTyped ==
    /\ roleOf \in [Users -> Roles \cup {NoRole}]
    /\ actor \in [Sessions -> Users \cup {Nobody}]
    /\ DOMAIN copy = Sessions
    /\ \A s \in Sessions : Loaded(s) \subseteq Alerts /\ copy[s] \in [Loaded(s) -> Row]
    /\ IdleHoldsNothing

SweepTyped ==
    /\ sweep \subseteq Alerts
    /\ seen \in [sweep -> Users]
    /\ retaken \subseteq sweep

RowsSound ==
    /\ row = [a \in Alerts |-> row[a]]
    /\ \A a \in Alerts : RowSound(row[a])

\* Inv, regrouped by the variables it speaks of.
LEMMA Regroup == Inv <=> RowsSound /\ RequestsTyped /\ SweepTyped
BY DEF Inv, TypeOK, LocksAreTimed, FinalIsStamped, RowsSound, RowSound,
       RequestsTyped, SweepTyped

-----------------------------------------------------------------------------
(* What the operations make of one row. *)

LEMMA AssignSound ==
    ASSUME NEW cur, RowSound(cur), NEW t \in Users
    PROVE  RowSound([cur EXCEPT !.assignee = t])
BY DEF RowSound, Row

\* A status write is sound whatever copy it was decided on.
LEMMA StatusWriteSound ==
    ASSUME NEW cur, RowSound(cur), NEW r \in Row, NEW new \in Statuses
    PROVE  RowSound(StatusWrite(cur, r, new))
<1> DEFINE unlock == new \in Final /\ r.locker # Nobody
           b == (new \in Final) \/ (cur.resolved /\ new # "REOPENED")
           l == IF unlock THEN Nobody ELSE cur.locker
           n == IF unlock THEN NotLocked ELSE cur.lockAge
           w == StatusWrite(cur, r, new)
<1>1. cur \in Row /\ b \in BOOLEAN /\ l \in Users \cup {Nobody}
  BY DEF RowSound, Row
<1>2. n \in NotLocked .. LockTimeout + 1
  BY AlertPolicyAssumption DEF RowSound, Row, NotLocked
<1>3. w = [cur EXCEPT !.status = new, !.resolved = b, !.locker = l, !.lockAge = n]
  BY DEF StatusWrite
<1> HIDE DEF w
<1>4. /\ w \in Row
      /\ w.status = new /\ w.assignee = cur.assignee /\ (b => w.resolved)
      /\ w.locker = l /\ w.lockAge = n
  <2>1. PICK bit \in BOOLEAN, ll \in Users \cup {Nobody}, nn \in NotLocked .. LockTimeout + 1 :
            bit = b /\ ll = l /\ nn = n
    BY <1>1, <1>2
  <2> HIDE DEF b, l, n
  <2>2. w = [cur EXCEPT !.status = new, !.resolved = bit, !.locker = ll, !.lockAge = nn]
    BY <1>3, <2>1
  <2>3. cur \in Row
    BY <1>1
  <2>4. /\ w \in Row
        /\ w.status = new /\ w.assignee = cur.assignee /\ w.resolved = bit
        /\ w.locker = ll /\ w.lockAge = nn
    BY <2>2, <2>3 DEF Row
  <2> QED
    BY <2>1, <2>4
<1>5. l = Nobody <=> n = NotLocked
  BY DEF RowSound
<1> QED
  BY <1>4, <1>5 DEF RowSound, w

LEMMA MoveSound ==
    ASSUME NEW cur, RowSound(cur), NEW new \in Statuses \ Final, NEW b \in BOOLEAN
    PROVE  /\ RowSound([cur EXCEPT !.status = new])
           /\ RowSound([cur EXCEPT !.status = new, !.resolved = b])
BY DEF RowSound, Row

LEMMA LockSound ==
    ASSUME NEW cur, RowSound(cur), NEW u \in Users
    PROVE  RowSound([cur EXCEPT !.locker = u, !.lockAge = StampLock])
<1>1. StampLock \in NotLocked .. LockTimeout + 1 /\ StampLock # NotLocked /\ u # Nobody
  BY AlertPolicyAssumption DEF StampLock, NotLocked
<1> QED
  BY <1>1 DEF RowSound, Row

LEMMA UnlockSound ==
    ASSUME NEW cur, RowSound(cur)
    PROVE  RowSound([cur EXCEPT !.locker = Nobody, !.lockAge = NotLocked])
<1>1. NotLocked \in NotLocked .. LockTimeout + 1
  BY AlertPolicyAssumption DEF NotLocked
<1> QED
  BY <1>1 DEF RowSound, Row

LEMMA SeenTyped ==
    ASSUME NEW r \in Row
    PROVE  Seen(r) \in Row
<1>1. NotLocked \in NotLocked .. LockTimeout + 1
  BY AlertPolicyAssumption DEF NotLocked
<1> QED
  BY <1>1 DEF Seen, Row

LEMMA AgeSound ==
    ASSUME NEW cur, RowSound(cur), cur.lockAge \in 0 .. LockTimeout
    PROVE  RowSound([cur EXCEPT !.lockAge = @ + 1])
BY AlertPolicyAssumption DEF RowSound, Row, NotLocked

-----------------------------------------------------------------------------
(* The invariant. *)

LEMMA InitInv == Init => Inv
<1> SUFFICES ASSUME Init PROVE RowsSound /\ RequestsTyped /\ SweepTyped
  BY Regroup
<1>1. RowSound(NewAlert)
  <2>1. NotLocked \in NotLocked .. LockTimeout + 1
    BY AlertPolicyAssumption DEF NotLocked
  <2> QED
    BY <2>1 DEF RowSound, Row, NewAlert, Statuses, Final
<1> QED
  BY <1>1 DEF Init, RolesInit, RowsSound, RequestsTyped, SweepTyped, Loaded, IdleHoldsNothing

\* The end of a request keeps users, requests and the job's list typed.
LEMMA Finished ==
    ASSUME Inv, NEW s \in Sessions, Finish(s), retaken' \subseteq sweep
    PROVE  RequestsTyped' /\ SweepTyped'
<1>1. RequestsTyped /\ SweepTyped
  BY Regroup
<1>2. RequestsTyped'
  BY <1>1 DEF Finish, RequestsTyped, Loaded, IdleHoldsNothing
<1> QED
  BY <1>1, <1>2 DEF Finish, SweepTyped

LEMMA Responded ==
    ASSUME Inv, NEW s \in Sessions, Respond(s)
    PROVE  RequestsTyped' /\ SweepTyped'
<1>1. retaken \subseteq sweep
  BY Regroup DEF SweepTyped
<1> QED
  BY <1>1, Finished DEF Respond

\* A step that rewrites one row soundly, and a step that rewrites all.
LEMMA OneRow ==
    ASSUME Inv, NEW a \in Alerts, NEW new, RowSound(new), row' = [row EXCEPT ![a] = new]
    PROVE  RowsSound'
<1>1. RowsSound
  BY Regroup
<1> QED
  BY <1>1 DEF RowsSound

LEMMA RequestInv ==
    ASSUME Inv, NEW s \in Sessions, Request(s)
    PROVE  Inv'
<1> SUFFICES RowsSound' /\ RequestsTyped' /\ SweepTyped'
  BY Regroup, PTL
<1>1. RowsSound /\ RequestsTyped /\ SweepTyped
  BY Regroup
<1>2. \A a \in Loaded(s) : copy[s][a] \in Row
  BY <1>1 DEF RequestsTyped
<1>3. actor[s] # Nobody => actor[s] \in Users
  BY <1>1 DEF RequestsTyped
<1>4. ASSUME NEW u \in Clients, NEW S \in SUBSET Alerts, Load(s, u, S)
      PROVE  RowsSound' /\ RequestsTyped' /\ SweepTyped'
  <2>1. RowsSound' /\ SweepTyped'
    BY <1>1, <1>4 DEF Load, RowsSound, SweepTyped
  <2>2. \A a \in S : Seen(row[a]) \in Row
    BY <1>1, SeenTyped DEF RowsSound, RowSound
  <2>3. RequestsTyped'
    <3>1. u \in Users /\ u # Nobody
      BY AlertPolicyAssumption, AlertWorkflowAssumption
    <3>2. actor' \in [Sessions -> Users \cup {Nobody}] /\ DOMAIN copy' = Sessions
      BY <1>1, <1>4, <3>1 DEF Load, RequestsTyped
    <3>3. ASSUME NEW q \in Sessions
          PROVE  /\ Loaded(q)' \subseteq Alerts /\ copy'[q] \in [Loaded(q)' -> Row]
                 /\ actor'[q] = Nobody => Loaded(q)' = {}
      <4>1. CASE q = s
        <5>1. copy'[s] = [a \in S |-> Seen(row[a])] /\ actor'[s] = u
          BY <1>1, <1>4, <4>1 DEF Load, RequestsTyped, Loaded, IdleHoldsNothing
        <5> QED
          BY <2>2, <3>1, <4>1, <5>1 DEF Loaded
      <4>2. CASE q # s
        <5>1. copy'[q] = copy[q] /\ actor'[q] = actor[q]
          BY <1>1, <1>4, <4>2 DEF Load, RequestsTyped
        <5> QED
          BY <1>1, <5>1 DEF RequestsTyped, Loaded, IdleHoldsNothing
      <4> QED
        BY <4>1, <4>2
    <3>4. roleOf' \in [Users -> Roles \cup {NoRole}]
      BY <1>1, <1>4 DEF Load, RequestsTyped
    <3> QED
      BY <3>2, <3>3, <3>4 DEF RequestsTyped, IdleHoldsNothing
  <2> QED
    BY <2>1, <2>3
<1>5. CASE Refuse(s)
  BY <1>1, <1>5, Responded DEF Refuse, RowsSound
<1>6. ASSUME NEW t \in Targets, AssignAlerts(s, t)
      PROVE  RowsSound' /\ RequestsTyped' /\ SweepTyped'
  <2> DEFINE granted == {a \in Loaded(s) : MayAssign(actor[s], t, copy[s][a])}
  <2>1. /\ actor[s] # Nobody
        /\ granted # {}
        /\ row' = [a \in Alerts |->
                     IF a \in granted THEN [row[a] EXCEPT !.assignee = t] ELSE row[a]]
        /\ Respond(s)
    BY <1>6 DEF AssignAlerts
  <2>2. t \in Users
    BY AlertWorkflowAssumption
  <2>3. \A a \in Alerts : RowSound([row[a] EXCEPT !.assignee = t])
    BY <1>1, <2>2, AssignSound DEF RowsSound
  <2>4. RowsSound'
    <3> HIDE DEF granted
    <3> QED BY <1>1, <2>1, <2>3 DEF RowsSound
  <2> QED
    BY <2>1, <2>4, Responded
<1>7. ASSUME NEW a \in Alerts, NEW new \in Statuses, ChangeStatus(s, a, new)
      PROVE  RowsSound' /\ RequestsTyped' /\ SweepTyped'
  <2>1. RowSound(StatusWrite(row[a], copy[s][a], new))
    BY <1>1, <1>2, <1>7, StatusWriteSound DEF ChangeStatus, RowsSound
  <2>2. row' = [row EXCEPT ![a] = StatusWrite(row[a], copy[s][a], new)]
    BY <1>7 DEF ChangeStatus
  <2>3. RowsSound'
    BY <2>1, <2>2, OneRow
  <2> QED
    BY <1>7, <2>3, Responded DEF ChangeStatus
<1>8. CASE BulkResolve(s)
  <2> DEFINE granted == {a \in Loaded(s) : MayChangeStatus(actor[s], copy[s][a], "RESOLVED")}
  <2>1. /\ row' = [a \in Alerts |->
                     IF a \in granted THEN StatusWrite(row[a], copy[s][a], "RESOLVED")
                                      ELSE row[a]]
        /\ Respond(s)
    BY <1>8 DEF BulkResolve
  <2>2. \A a \in granted : RowSound(StatusWrite(row[a], copy[s][a], "RESOLVED"))
    <3>1. "RESOLVED" \in Statuses
      BY DEF Statuses, Final
    <3>2. granted \subseteq Alerts
      BY <1>1 DEF RequestsTyped
    <3> QED
      BY <1>1, <1>2, <3>1, <3>2, StatusWriteSound DEF RowsSound
  <2>3. RowsSound'
    <3> HIDE DEF granted
    <3> QED BY <1>1, <2>1, <2>2 DEF RowsSound
  <2> QED
    BY <2>1, <2>3, Responded
<1>9. ASSUME NEW a \in Alerts, AcknowledgeAlert(s, a)
      PROVE  RowsSound' /\ RequestsTyped' /\ SweepTyped'
  <2>1. RowSound([row[a] EXCEPT !.status = "ACKNOWLEDGED"])
    BY <1>1, MoveSound DEF RowsSound, Statuses, Final
  <2>2. row' = [row EXCEPT ![a] = [row[a] EXCEPT !.status = "ACKNOWLEDGED"]]
    BY <1>9 DEF AcknowledgeAlert
  <2>3. RowsSound'
    BY <2>1, <2>2, OneRow
  <2> QED
    BY <1>9, <2>3, Responded DEF AcknowledgeAlert
<1>10. ASSUME NEW a \in Alerts, ReopenAlert(s, a)
       PROVE  RowsSound' /\ RequestsTyped' /\ SweepTyped'
  <2>1. RowSound([row[a] EXCEPT !.status = "REOPENED", !.resolved = FALSE])
    BY <1>1, MoveSound DEF RowsSound, Statuses, Final
  <2>2. row' = [row EXCEPT ![a] = [row[a] EXCEPT !.status = "REOPENED", !.resolved = FALSE]]
    BY <1>1, <1>10 DEF ReopenAlert, RowsSound
  <2>3. RowsSound'
    BY <2>1, <2>2, OneRow
  <2> QED
    BY <1>10, <2>3, Responded DEF ReopenAlert
<1>11. ASSUME NEW a \in Alerts, LockAlert(s, a)
       PROVE  RowsSound' /\ RequestsTyped' /\ SweepTyped'
  <2> DEFINE new == [row[a] EXCEPT !.locker = actor[s], !.lockAge = StampLock]
  <2>1. actor[s] \in Users
    BY <1>1, <1>3, <1>11 DEF LockAlert, RequestsTyped, IdleHoldsNothing
  <2>2. RowSound(new)
    BY <1>1, <2>1, LockSound DEF RowsSound
  <2>3. row' = [row EXCEPT ![a] = new]
    BY <1>1, <1>11 DEF LockAlert, RowsSound
  <2>4. RowsSound'
    BY <2>2, <2>3, OneRow
  <2> QED
    BY <1>1, <1>11, <2>4, Finished DEF LockAlert, SweepTyped
<1>12. ASSUME NEW a \in Alerts, UnlockAlert(s, a)
       PROVE  RowsSound' /\ RequestsTyped' /\ SweepTyped'
  <2> DEFINE new == [row[a] EXCEPT !.locker = Nobody, !.lockAge = NotLocked]
  <2>1. RowSound(new)
    BY <1>1, UnlockSound DEF RowsSound
  <2>2. row' = [row EXCEPT ![a] = new]
    BY <1>1, <1>12 DEF UnlockAlert, RowsSound
  <2>3. RowsSound'
    BY <2>1, <2>2, OneRow
  <2> QED
    BY <1>12, <2>3, Responded DEF UnlockAlert
<1> QED
  BY <1>4, <1>5, <1>6, <1>7, <1>8, <1>9, <1>10, <1>11, <1>12 DEF Request

\* The steps that are no request's: they touch no request.
Background ==
    \/ Sweep
    \/ Tick
    \/ \E S \in SUBSET Correlatable : Correlate(S)
    \/ (\E u \in Users : ChangeRole(u)) /\ UNCHANGED <<row, actor, copy, sweep, seen, retaken>>

LEMMA OthersInv ==
    ASSUME Inv, Background
    PROVE  Inv'
<1> SUFFICES RowsSound' /\ RequestsTyped' /\ SweepTyped'
  BY Regroup, PTL
<1>1. RowsSound /\ RequestsTyped /\ SweepTyped
  BY Regroup
<1>2. RequestsTyped'
  <2>1. /\ UNCHANGED <<actor, copy>>
        /\ roleOf' \in [Users -> Roles \cup {NoRole}]
    BY <1>1, AlertPolicyAssumption
    DEF Background, Sweep, BeginSweep, SweepNext, Tick, Correlate, ChangeRole, RequestsTyped
  <2> QED
    BY <1>1, <2>1 DEF RequestsTyped, Loaded, IdleHoldsNothing
<1>3. CASE BeginSweep
  <2>1. \A a \in Expired : a \in Alerts /\ row[a].locker \in Users
    BY <1>1 DEF Expired, LockExpired, RowsSound, RowSound, Row
  <2>2. SweepTyped'
    BY <1>1, <1>3, <2>1 DEF BeginSweep, SweepTyped
  <2> QED
    BY <1>1, <1>2, <1>3, <2>2 DEF BeginSweep, RowsSound
<1>4. CASE SweepNext
  <2> DEFINE a == CHOOSE b \in sweep : \A c \in sweep : b <= c
             new == [row[a] EXCEPT !.locker = Nobody, !.lockAge = NotLocked]
  <2>1. CASE row' = row /\ sweep' = {} /\ seen' = << >> /\ retaken' = {}
    BY <1>1, <1>2, <2>1 DEF RowsSound, SweepTyped
  <2>2. CASE /\ row' = [row EXCEPT ![a].locker = Nobody, ![a].lockAge = NotLocked]
             /\ sweep' = sweep \ {a}
             /\ seen' = [b \in sweep \ {a} |-> seen[b]]
             /\ retaken' = retaken \ {a}
    <3>1. \A c \in Alerts : RowSound([row[c] EXCEPT !.locker = Nobody, !.lockAge = NotLocked])
      BY <1>1, UnlockSound DEF RowsSound
    <3>2. \A c \in Alerts : row'[c] \in {row[c], [row[c] EXCEPT !.locker = Nobody,
                                                              !.lockAge = NotLocked]}
      BY <1>1, <2>2 DEF RowsSound
    <3>3. RowsSound'
      BY <1>1, <2>2, <3>1, <3>2 DEF RowsSound
    <3>4. SweepTyped'
      BY <1>1, <2>2 DEF SweepTyped
    <3> QED
      BY <1>2, <3>3, <3>4
  <2> QED
    BY <1>4, <2>1, <2>2 DEF SweepNext
<1>5. CASE Tick
  <2>1. \A a \in Alerts : row[a].lockAge \in 0 .. LockTimeout =>
            RowSound([row[a] EXCEPT !.lockAge = @ + 1])
    BY <1>1, AgeSound DEF RowsSound
  <2> QED
    BY <1>1, <1>2, <1>5, <2>1 DEF Tick, RowsSound, SweepTyped
<1>6. ASSUME NEW S \in SUBSET Correlatable, Correlate(S)
      PROVE  RowsSound' /\ SweepTyped'
  <2>1. \A a \in Alerts : RowSound([row[a] EXCEPT !.status = "CORRELATED"])
    BY <1>1, MoveSound DEF RowsSound, Statuses, Final
  <2> QED
    BY <1>1, <1>6, <2>1 DEF Correlate, RowsSound, SweepTyped
<1>7. CASE (\E u \in Users : ChangeRole(u)) /\ UNCHANGED <<row, actor, copy, sweep, seen, retaken>>
  BY <1>1, <1>2, <1>7 DEF RowsSound, SweepTyped
<1> QED
  BY <1>2, <1>3, <1>4, <1>5, <1>6, <1>7 DEF Background, Sweep

LEMMA InvKept ==
    ASSUME Inv, [Next]_vars
    PROVE  Inv'
<1>1. CASE Next
  BY <1>1, RequestInv, OthersInv DEF Next, Background
<1>2. CASE UNCHANGED vars
  BY <1>2 DEF vars, Inv, TypeOK, LocksAreTimed, FinalIsStamped, IdleHoldsNothing, Loaded
<1> QED
  BY <1>1, <1>2

\* Inv holds throughout, whoever reads and writes in between.
THEOREM InductiveInvariant == Spec => []Inv
BY InvKept, InitInv, PTL DEF Spec

\* The columns and copies keep their types: in particular the job only ever
\* meets alerts that were locked when it selected them.
THEOREM TypeCorrect == Spec => []TypeOK
BY InductiveInvariant, PTL DEF Inv

\* A lock carries its time, so every lock can expire and be found by the job,
\* in whatever order stale requests write locked_by and locked_at.
THEOREM LocksTimed == Spec => []LocksAreTimed
BY InductiveInvariant, PTL DEF Inv

\* A resolved or false-positive alert has its resolved_at, although statuses
\* are written from outdated copies and the engine overwrites them.
THEOREM FinalStamped == Spec => []FinalIsStamped
BY InductiveInvariant, PTL DEF Inv

-----------------------------------------------------------------------------
(* What a step does to one alert. *)

\* What is asked of a request of s: the status it moves, the lock it ends, the
\* lock of an alert it makes final, and what becomes of a lock's age.
Moves(s, a) ==
    row'[a].status # row[a].status =>
        /\ Answered(s) /\ a \in Loaded(s)
        /\ CanTransition(copy[s][a].status, row'[a].status, IsManager(actor[s]))

Ends(s, a) ==
    row[a].locker # Nobody /\ row'[a].locker # row[a].locker =>
        /\ Answered(s) /\ a \in Loaded(s)
        /\ \/ copy[s][a].locker # row[a].locker
           \/ /\ row'[a].locker = Nobody
              /\ actor[s] = row[a].locker \/ IsManager(actor[s])

Frees(s, a) ==
    row[a].status \notin Final /\ row'[a].status \in Final =>
        \/ row'[a].locker = Nobody
        \/ Answered(s) /\ a \in Loaded(s) /\ copy[s][a].locker = Nobody

\* A lock is left, freed, or taken anew under the eyes of the running job.
Relocks(a) ==
    \/ row'[a].locker = row[a].locker /\ row'[a].lockAge = row[a].lockAge
    \/ row'[a].locker = Nobody
    \/ a \in sweep => a \in retaken'

Meets(s, a) == Moves(s, a) /\ Ends(s, a) /\ Frees(s, a) /\ Relocks(a)

LEMMA UnwrittenMeets ==
    ASSUME NEW s \in Sessions, NEW a \in Alerts, row'[a] = row[a]
    PROVE  Meets(s, a)
BY DEF Meets, Moves, Ends, Frees, Relocks

\* The columns of a status write.
LEMMA StatusWriteColumns ==
    ASSUME NEW cur \in Row, NEW r, NEW new
    PROVE  LET unlock == new \in Final /\ r.locker # Nobody
               w == StatusWrite(cur, r, new)
           IN  /\ w.status = new
               /\ w.locker = IF unlock THEN Nobody ELSE cur.locker
               /\ w.lockAge = IF unlock THEN NotLocked ELSE cur.lockAge
<1>1. \A b, l, n :
        LET w == [cur EXCEPT !.status = new, !.resolved = b, !.locker = l, !.lockAge = n]
        IN  w.status = new /\ w.locker = l /\ w.lockAge = n
  BY DEF Row
<1> QED
  BY <1>1 DEF StatusWrite

\* A status write does what is asked of the copy it was decided on.
LEMMA StatusWriteMeets ==
    ASSUME NEW s \in Sessions, NEW a \in Alerts, NEW new,
           row[a] \in Row, Answered(s), a \in Loaded(s),
           MayChangeStatus(actor[s], copy[s][a], new),
           row'[a] = StatusWrite(row[a], copy[s][a], new)
    PROVE  Meets(s, a)
<1>1. LET unlock == new \in Final /\ copy[s][a].locker # Nobody IN
        /\ row'[a].status = new
        /\ row'[a].locker = IF unlock THEN Nobody ELSE row[a].locker
        /\ row'[a].lockAge = IF unlock THEN NotLocked ELSE row[a].lockAge
  BY StatusWriteColumns
<1>2. Moves(s, a)
  BY <1>1 DEF Moves, MayChangeStatus
<1>3. Ends(s, a)
  BY <1>1 DEF Ends, MayChangeStatus, LockedByOther
<1>4. Frees(s, a)
  BY <1>1 DEF Frees
<1>5. Relocks(a)
  BY <1>1 DEF Relocks
<1> QED
  BY <1>2, <1>3, <1>4, <1>5 DEF Meets

\* So does every request, whatever its copies have become since.
LEMMA RequestStep ==
    ASSUME Inv, NEW s \in Sessions, Request(s), NEW b \in Alerts
    PROVE  Meets(s, b)
<1>1. /\ row = [a \in Alerts |-> row[a]] /\ row[b] \in Row
      /\ Loaded(s) # {} => actor[s] # Nobody
      /\ actor \in [Sessions -> Users \cup {Nobody}]
  BY Regroup DEF RowsSound, RowSound, RequestsTyped, IdleHoldsNothing
<1>2. ASSUME Finish(s), Loaded(s) # {}
      PROVE  Answered(s)
  BY <1>1, <1>2 DEF Finish, Answered
<1>3. CASE \E u \in Clients, S \in SUBSET Alerts : Load(s, u, S)
  BY <1>3, UnwrittenMeets DEF Load
<1>4. CASE Refuse(s)
  BY <1>4, UnwrittenMeets DEF Refuse
<1>5. ASSUME NEW t \in Targets, AssignAlerts(s, t)
      PROVE  Meets(s, b)
  <2>1. row'[b] \in {row[b], [row[b] EXCEPT !.assignee = t]}
    BY <1>1, <1>5 DEF AssignAlerts
  <2>2. /\ row'[b].status = row[b].status
        /\ row'[b].locker = row[b].locker /\ row'[b].lockAge = row[b].lockAge
    BY <1>1, <2>1 DEF Row
  <2> QED
    BY <2>2 DEF Meets, Moves, Ends, Frees, Relocks
<1>6. ASSUME NEW a \in Alerts, NEW new \in Statuses, ChangeStatus(s, a, new)
      PROVE  Meets(s, b)
  <2>1. /\ Loaded(s) = {a} /\ Finish(s)
        /\ MayChangeStatus(actor[s], copy[s][a], new)
        /\ row' = [row EXCEPT ![a] = StatusWrite(row[a], copy[s][a], new)]
    BY <1>6 DEF ChangeStatus, Respond
  <2>2. CASE a = b
    BY <1>1, <1>2, <2>1, <2>2, StatusWriteMeets
  <2>3. CASE a # b
    BY <1>1, <2>1, <2>3, UnwrittenMeets
  <2> QED
    BY <2>2, <2>3
<1>7. CASE BulkResolve(s)
  <2> DEFINE granted == {a \in Loaded(s) : MayChangeStatus(actor[s], copy[s][a], "RESOLVED")}
  <2>1. /\ Finish(s)
        /\ row'[b] = IF b \in granted THEN StatusWrite(row[b], copy[s][b], "RESOLVED")
                                       ELSE row[b]
    BY <1>7 DEF BulkResolve, Respond
  <2>2. CASE b \in granted
    BY <1>1, <1>2, <2>1, <2>2, StatusWriteMeets
  <2>3. CASE b \notin granted
    BY <2>1, <2>3, UnwrittenMeets
  <2> QED
    BY <2>2, <2>3
<1>8. ASSUME NEW a \in Alerts, AcknowledgeAlert(s, a)
      PROVE  Meets(s, b)
  <2>1. /\ Loaded(s) = {a} /\ Finish(s) /\ copy[s][a].status = "OPEN"
        /\ row' = [row EXCEPT ![a] = [row[a] EXCEPT !.status = "ACKNOWLEDGED"]]
    BY <1>8 DEF AcknowledgeAlert, Respond
  <2>2. CASE a = b
    <3>1. /\ row'[b].status = "ACKNOWLEDGED"
          /\ row'[b].locker = row[b].locker /\ row'[b].lockAge = row[b].lockAge
      BY <1>1, <2>1, <2>2 DEF Row
    <3> QED
      BY <1>2, <2>1, <2>2, <3>1 DEF CanTransition, Final, Meets, Moves, Ends, Frees, Relocks
  <2>3. CASE a # b
    BY <1>1, <2>1, <2>3, UnwrittenMeets
  <2> QED
    BY <2>2, <2>3
<1>9. ASSUME NEW a \in Alerts, ReopenAlert(s, a)
      PROVE  Meets(s, b)
  <2>1. /\ Loaded(s) = {a} /\ Finish(s) /\ copy[s][a].status \in Final /\ IsManager(actor[s])
        /\ row' = [row EXCEPT ![a] = [row[a] EXCEPT !.status = "REOPENED", !.resolved = FALSE]]
    BY <1>1, <1>9 DEF ReopenAlert, Respond
  <2>2. CASE a = b
    <3>1. /\ row'[b].status = "REOPENED"
          /\ row'[b].locker = row[b].locker /\ row'[b].lockAge = row[b].lockAge
      BY <1>1, <2>1, <2>2 DEF Row
    <3> QED
      BY <1>2, <2>1, <2>2, <3>1 DEF CanTransition, Final, Meets, Moves, Ends, Frees, Relocks
  <2>3. CASE a # b
    BY <1>1, <2>1, <2>3, UnwrittenMeets
  <2> QED
    BY <2>2, <2>3
<1>10. ASSUME NEW a \in Alerts, LockAlert(s, a)
       PROVE  Meets(s, b)
  <2>1. /\ Loaded(s) = {a} /\ Finish(s) /\ CanLock(actor[s], copy[s][a])
        /\ row' = [row EXCEPT ![a] = [row[a] EXCEPT !.locker = actor[s], !.lockAge = StampLock]]
        /\ retaken' = retaken \cup ({a} \cap sweep)
    BY <1>1, <1>10 DEF LockAlert
  <2>2. CASE a = b
    <3>1. /\ row'[b].status = row[b].status /\ row'[b].locker = actor[s]
          /\ b \in sweep => b \in retaken'
      BY <1>1, <2>1, <2>2 DEF Row
    <3>2. Ends(s, b)
      BY <1>2, <2>1, <2>2, <3>1 DEF CanLock, LockedByOther, Ends
    <3> QED
      BY <3>1, <3>2 DEF Meets, Moves, Frees, Relocks
  <2>3. CASE a # b
    BY <1>1, <2>1, <2>3, UnwrittenMeets
  <2> QED
    BY <2>2, <2>3
<1>11. ASSUME NEW a \in Alerts, UnlockAlert(s, a)
       PROVE  Meets(s, b)
  <2>1. /\ Loaded(s) = {a} /\ Finish(s) /\ CanUnlock(actor[s], copy[s][a])
        /\ row' = [row EXCEPT ![a] = [row[a] EXCEPT !.locker = Nobody, !.lockAge = NotLocked]]
    BY <1>1, <1>11 DEF UnlockAlert, Respond
  <2>2. CASE a = b
    <3>1. row'[b].status = row[b].status /\ row'[b].locker = Nobody
      BY <1>1, <2>1, <2>2 DEF Row
    <3>2. Ends(s, b)
      BY <1>2, <2>1, <2>2, <3>1 DEF CanUnlock, LockedByOther, Ends
    <3> QED
      BY <3>1, <3>2 DEF Meets, Moves, Frees, Relocks
  <2>3. CASE a # b
    BY <1>1, <2>1, <2>3, UnwrittenMeets
  <2> QED
    BY <2>2, <2>3
<1> QED
  BY <1>3, <1>4, <1>5, <1>6, <1>7, <1>8, <1>9, <1>10, <1>11 DEF Request

\* The first alert of a running job is one of those it still has to unlock.
LEMMA LeastInSet ==
    ASSUME NEW S \in SUBSET Nat, S # {}
    PROVE  (CHOOSE b \in S : \A c \in S : b <= c) \in S
<1> DEFINE Below == OpToRel(<, Nat)
<1>1. IsWellFoundedOn(Below, Nat)
  BY NatLessThanWellFounded
<1>2. \A c, b \in Nat : c < b => <<c, b>> \in Below
  BY DEF OpToRel
<1> HIDE DEF Below
<1>3. PICK b \in S : \A c \in S : ~(<<c, b>> \in Below)
  BY <1>1, WFMin
<1>4. \A c \in S : ~(c < b)
  BY <1>2, <1>3
<1>5. \A c \in S : b <= c
  BY <1>4
<1> QED
  BY <1>3, <1>5

\* What the job, the engine, the clock and a role change do to an alert.
LEMMA OthersStep ==
    ASSUME Inv, Background, NEW a \in Alerts
    PROVE  /\ UNCHANGED actor
           /\ \/ row'[a].status = row[a].status
              \/ a \in Correlatable /\ row'[a].status = "CORRELATED"
           /\ \/ row'[a].locker = row[a].locker
              \/ row'[a].locker = Nobody /\ a \in sweep \ sweep'
           /\ \/ row'[a].lockAge = row[a].lockAge
              \/ row'[a].locker = Nobody
              \/ row[a].lockAge \in 0 .. LockTimeout
           /\ \/ a \in sweep' \ retaken' => a \in sweep \ retaken
              \/ row' = row /\ LockExpired(row[a])
              \/ row' = row /\ sweep' = Expired /\ a \notin Expired
<1>1. /\ row = [b \in Alerts |-> row[b]] /\ row[a] \in Row
      /\ sweep \subseteq Alerts /\ retaken \subseteq sweep
  BY Regroup DEF RowsSound, RowSound, SweepTyped
<1>2. CASE BeginSweep
  BY <1>1, <1>2 DEF BeginSweep, Expired
<1>3. CASE SweepNext
  <2> DEFINE b == CHOOSE x \in sweep : \A y \in sweep : x <= y
  <2>1. b \in sweep
    BY <1>1, <1>3, LeastInSet, AlertWorkflowAssumption DEF SweepNext
  <2>2. \/ row' = row /\ sweep' = {}
        \/ /\ row' = [row EXCEPT ![b].locker = Nobody, ![b].lockAge = NotLocked]
           /\ sweep' = sweep \ {b} /\ retaken' = retaken \ {b}
    BY <1>3 DEF SweepNext
  <2>3. UNCHANGED actor
    BY <1>3 DEF SweepNext
  <2> HIDE DEF b
  <2>4. CASE b = a
    BY <1>1, <2>1, <2>2, <2>3, <2>4 DEF Row
  <2>5. CASE b # a
    BY <1>1, <2>2, <2>3, <2>5
  <2> QED
    BY <2>4, <2>5
<1>4. CASE Tick
  BY <1>1, <1>4 DEF Tick, Row
<1>5. ASSUME NEW S \in SUBSET Correlatable, Correlate(S)
      PROVE  /\ UNCHANGED <<actor, sweep, retaken>>
             /\ \/ row'[a].status = row[a].status
                \/ a \in Correlatable /\ row'[a].status = "CORRELATED"
             /\ row'[a].locker = row[a].locker /\ row'[a].lockAge = row[a].lockAge
  BY <1>1, <1>5 DEF Correlate, Row
<1>6. CASE UNCHANGED <<row, actor, copy, sweep, seen, retaken>>
  BY <1>6
<1> QED
  BY <1>2, <1>3, <1>4, <1>5, <1>6 DEF Background, Sweep

-----------------------------------------------------------------------------
(* The job's list, and the three rules. *)

\* An alert the job still has to unlock is free or its lock has expired, unless
\* it was locked anew since the job listed it.
SweepIsJust == \A a \in sweep \ retaken : row[a].locker = Nobody \/ LockExpired(row[a])

LEMMA SweepStaysJust ==
    ASSUME Inv, SweepIsJust, [Next]_vars
    PROVE  SweepIsJust'
<1>1. sweep' \subseteq Alerts /\ sweep \subseteq Alerts
  BY InvKept DEF Inv, TypeOK
<1>2. ASSUME NEW a \in sweep' \ retaken'
      PROVE  row'[a].locker = Nobody \/ LockExpired(row'[a])
  <2>1. a \in Alerts
    BY <1>1, <1>2
  <2>2. CASE \E s \in Sessions : Request(s)
    <3>1. PICK s \in Sessions : Request(s)
      BY <2>2
    <3>2. Relocks(a)
      BY <2>1, <3>1, RequestStep DEF Meets
    <3>3. a \in sweep \ retaken
      BY <1>2, <3>1 DEF Request, Load, Refuse, AssignAlerts, ChangeStatus, BulkResolve,
         AcknowledgeAlert, ReopenAlert, LockAlert, UnlockAlert, Respond, Finish
    <3> QED
      BY <1>2, <3>2, <3>3 DEF Relocks, SweepIsJust, LockExpired
  <2>3. CASE Background
    <3>1. CASE a \in sweep \ retaken
      BY <2>1, <2>3, <3>1, OthersStep, AlertPolicyAssumption DEF SweepIsJust, LockExpired
    <3>2. CASE a \notin sweep \ retaken
      BY <1>2, <2>1, <2>3, <3>2, OthersStep DEF LockExpired
    <3> QED
      BY <3>1, <3>2
  <2>4. CASE UNCHANGED vars
    BY <1>2, <2>4 DEF vars, SweepIsJust
  <2> QED
    BY <2>2, <2>3, <2>4 DEF Next, Background
<1> QED
  BY <1>2 DEF SweepIsJust, LockExpired

THEOREM JobIsJust == Spec => []SweepIsJust
<1>1. Init => SweepIsJust
  BY DEF Init, SweepIsJust
<1> QED
  BY <1>1, SweepStaysJust, InductiveInvariant, PTL DEF Spec

\* What the three rules ask of a step, whoever else reads and writes in between.
LEMMA StepKeepsRules ==
    ASSUME Inv, SweepIsJust, [Next]_vars, NEW a \in Alerts
    PROVE  MovesLegally(a) /\ EndsDuly(a) /\ UnlocksWhenFinal(a)
<1>1. CASE \E s \in Sessions : Request(s)
  BY <1>1, RequestStep DEF Meets, Moves, Ends, Frees, MovesLegally, EndsDuly, UnlocksWhenFinal
<1>2. CASE Background
  BY <1>2, OthersStep DEF SweepIsJust, MovesLegally, EndsDuly, UnlocksWhenFinal, Final
<1>3. CASE UNCHANGED vars
  BY <1>3 DEF vars, MovesLegally, EndsDuly, UnlocksWhenFinal
<1> QED
  BY <1>1, <1>2, <1>3 DEF Next, Background

\* A status moves along the transitions of the request's user, from the status
\* that request read.
THEOREM TransitionsLegal == Spec => TransitionsAreLegal
<1>1. Inv /\ SweepIsJust /\ [Next]_vars => [\A a \in Alerts : MovesLegally(a)]_vars
  BY StepKeepsRules
<1> QED
  BY <1>1, InductiveInvariant, JobIsJust, PTL DEF Spec, TransitionsAreLegal

\* A lock ends by its holder, by a manager, by a request that had not seen it,
\* or by the job, whose list is just.
THEOREM LocksRespected == Spec => LocksAreRespected
<1>1. Inv /\ SweepIsJust /\ [Next]_vars => [\A a \in Alerts : EndsDuly(a)]_vars
  BY StepKeepsRules
<1> QED
  BY <1>1, InductiveInvariant, JobIsJust, PTL DEF Spec, LocksAreRespected

\* An alert that becomes final is not left locked, unless by a lock its request
\* could not have seen.
THEOREM ResolvedUnlocked == Spec => ResolvingUnlocks
<1>1. Inv /\ SweepIsJust /\ [Next]_vars => [\A a \in Alerts : UnlocksWhenFinal(a)]_vars
  BY StepKeepsRules
<1> QED
  BY <1>1, InductiveInvariant, JobIsJust, PTL DEF Spec, ResolvingUnlocks
=============================================================================
