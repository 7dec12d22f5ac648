---------------------------- MODULE IngestionProofs ----------------------------
(***************************************************************************)
(* Proofs about Ingestion.  The composition with the requests leaves the   *)
(* event processor what it is (RequestsOnlyFeed), so that the theorems of  *)
(* EventProcessorProofs hold of it; the rest is about the keys.            *)
(***************************************************************************)
EXTENDS Ingestion, EventProcessorProofs

-----------------------------------------------------------------------------
(* The composition implements the event processor. *)

LEMMA StepIsProcessorStep == [IngestionNext]_ingestionVars => [Next]_vars
BY DEF IngestionNext, StoreEvents, Next, ingestionVars, vars

\* To the workers the API is what EventProcessor says of its environment: every
\* behaviour of the composition is one of Spec.
THEOREM RequestsOnlyFeed == IngestionSpec => Spec
<1>1. IngestionInit => Init
  BY DEF IngestionInit
<1> QED
  BY <1>1, StepIsProcessorStep, PTL DEF IngestionSpec, Spec

-----------------------------------------------------------------------------
(* The keys. *)

\* What a request holds: a key that exists, of the table its step is about, and
\* a count that the key had once.
RequestSound(q) ==
    /\ req[q].step \in {"selected", "admitted"} =>
         /\ req[q].key \in ApiKeys
         /\ keyRow[req[q].key].state # "absent"
         /\ req[q].loaded.usage <= uses[req[q].key]
    /\ req[q].step = "admitted" => uses[req[q].key] > 0
    /\ req[q].step = "managing" =>
         req[q].key \in Keys /\ keyRow[req[q].key].state # "absent"

\* A key that is not there yet was never used.
AbsentIsUnused ==
    \A k \in Keys : keyRow[k].state = "absent" =>
        keyRow[k].usage = 0 /\ (k \in ApiKeys => uses[k] = 0)

WebInv ==
    /\ WebTypeOK
    /\ UsageIsCounted
    /\ AbsentIsUnused
    /\ \A q \in Requests : RequestSound(q)

LEMMA NewKeyTyped == NewKey \in KeyRow /\ NoRow \in KeyRow /\ NoRow.usage = 0 /\ NewKey.usage = 0
BY IngestionAssumption DEF NewKey, NoRow, KeyRow

LEMMA InitWebInv == IngestionInit => WebInv
<1> SUFFICES ASSUME IngestionInit PROVE WebInv
  OBVIOUS
<1>1. Idle \in [step : Steps, key : Keys \cup {NoKey}, loaded : KeyRow]
  BY NewKeyTyped DEF Idle, Steps
<1>2. WebTypeOK
  BY <1>1, NewKeyTyped, IngestionAssumption DEF IngestionInit, WebTypeOK
<1>3. UsageIsCounted /\ AbsentIsUnused
  BY NewKeyTyped DEF IngestionInit, UsageIsCounted, AbsentIsUnused, Keys
<1>4. \A q \in Requests : RequestSound(q)
  BY DEF IngestionInit, RequestSound, Idle
<1> QED
  BY <1>2, <1>3, <1>4 DEF WebInv

\* One key row is written and every request keeps what it holds, if the row
\* still exists afterwards and the key's count of uses does not fall.
LEMMA RowWritten ==
    ASSUME WebInv, NEW k \in Keys, NEW r \in KeyRow,
           keyRow' = [keyRow EXCEPT ![k] = r], r.state # "absent",
           k \in ApiKeys => r.usage <= uses[k] /\ (uses[k] > 0 => r.usage > 0),
           UNCHANGED <<uses, author>>
    PROVE  /\ keyRow' \in [Keys -> KeyRow]
           /\ UsageIsCounted' /\ AbsentIsUnused'
           /\ \A q \in Requests : req'[q] = req[q] => RequestSound(q)'
<1>1. keyRow' \in [Keys -> KeyRow] /\ keyRow'[k] = r
  BY DEF WebInv, WebTypeOK
<1>2. \A j \in Keys \ {k} : keyRow'[j] = keyRow[j]
  BY DEF WebInv, WebTypeOK
<1>3. UsageIsCounted' /\ AbsentIsUnused'
  BY <1>1, <1>2 DEF WebInv, UsageIsCounted, AbsentIsUnused, Keys
<1>4. \A j \in Keys : keyRow[j].state # "absent" => keyRow'[j].state # "absent"
  BY <1>1, <1>2
<1>5. ASSUME NEW q \in Requests, req'[q] = req[q]
      PROVE  RequestSound(q)'
  BY <1>4, <1>5 DEF WebInv, RequestSound, Keys
<1> QED
  BY <1>1, <1>3, <1>5

\* A request that goes back to idle holds nothing.
LEMMA IdleSound ==
    ASSUME NEW q \in Requests, req'[q] = Idle
    PROVE  RequestSound(q)'
BY DEF RequestSound, Idle

LEMMA IdleTyped == Idle \in [step : Steps, key : Keys \cup {NoKey}, loaded : KeyRow]
BY NewKeyTyped DEF Idle, Steps

LEMMA RevokedTyped ==
    ASSUME NEW r \in KeyRow
    PROVE  Revoked(r) \in KeyRow /\ Revoked(r).state = "revoked" /\ Revoked(r).usage = r.usage
BY DEF Revoked, KeyRow

LEMMA InsertWebInv ==
    ASSUME WebInv, NEW k \in Keys, Insert(k)
    PROVE  WebInv'
<1>1. NewKey \in KeyRow /\ NewKey.state # "absent" /\ NewKey.usage = 0
  BY NewKeyTyped DEF NewKey
<1>2. k \in ApiKeys => NewKey.usage <= uses[k] /\ ~ uses[k] > 0
  BY <1>1 DEF WebInv, AbsentIsUnused, Insert
<1>3. UNCHANGED <<req, uses, author>> /\ keyRow' = [keyRow EXCEPT ![k] = NewKey]
  BY DEF Insert
<1>4. /\ keyRow' \in [Keys -> KeyRow]
      /\ UsageIsCounted' /\ AbsentIsUnused'
      /\ \A q \in Requests : RequestSound(q)'
  BY <1>1, <1>2, <1>3, RowWritten
<1> QED
  BY <1>3, <1>4 DEF WebInv, WebTypeOK

LEMMA RevokeApiWebInv ==
    ASSUME WebInv, NEW k \in Keys, RevokeApiKey(k)
    PROVE  WebInv'
<1> DEFINE r == Revoked(keyRow[k])
<1>1. r \in KeyRow /\ r.state = "revoked" /\ r.usage = keyRow[k].usage
  BY RevokedTyped DEF WebInv, WebTypeOK
<1>2. UNCHANGED <<req, uses, author>> /\ keyRow' = [keyRow EXCEPT ![k] = r]
  BY DEF RevokeApiKey
<1>3. k \in ApiKeys => r.usage <= uses[k] /\ (uses[k] > 0 => r.usage > 0)
  BY <1>1 DEF WebInv, UsageIsCounted
<1> HIDE DEF r
<1>4. /\ keyRow' \in [Keys -> KeyRow]
      /\ UsageIsCounted' /\ AbsentIsUnused'
      /\ \A q \in Requests : RequestSound(q)'
  BY <1>1, <1>2, <1>3, RowWritten
<1> QED
  BY <1>2, <1>4 DEF WebInv, WebTypeOK

\* A request loads a key: from then on its copy may only fall behind.
LEMMA SelectWebInv ==
    ASSUME WebInv, NEW q \in Requests, NEW k \in Keys, NEW step \in {"selected", "managing"},
           step = "selected" => k \in ApiKeys, keyRow[k].state # "absent", Select(q, k, step)
    PROVE  WebInv'
<1> DEFINE new == [step |-> step, key |-> k, loaded |-> keyRow[k]]
<1>1. UNCHANGED <<keyRow, uses, author>> /\ req' = [req EXCEPT ![q] = new]
  BY DEF Select
<1>2. new \in [step : Steps, key : Keys \cup {NoKey}, loaded : KeyRow]
  BY DEF WebInv, WebTypeOK, Steps
<1>3. WebTypeOK'
  BY <1>1, <1>2 DEF WebInv, WebTypeOK
<1>4. UsageIsCounted' /\ AbsentIsUnused'
  BY <1>1 DEF WebInv, UsageIsCounted, AbsentIsUnused
<1>5. ASSUME NEW p \in Requests
      PROVE  RequestSound(p)'
  <2>1. CASE p = q
    <3>1. req'[p] = new
      BY <1>1, <2>1 DEF WebInv, WebTypeOK
    <3>2. k \in ApiKeys => keyRow[k].usage <= uses[k]
      BY DEF WebInv, UsageIsCounted
    <3> QED
      BY <1>1, <3>1, <3>2 DEF RequestSound
  <2>2. CASE p # q
    BY <1>1, <2>2 DEF WebInv, RequestSound, WebTypeOK
  <2> QED
    BY <2>1, <2>2
<1> QED
  BY <1>3, <1>4, <1>5 DEF WebInv

\* The count that is saved is the one that was loaded plus one: at most the uses
\* so far plus this one, and never zero.
LEMMA CountWebInv ==
    ASSUME WebInv, NEW q \in Requests, CountUse(q)
    PROVE  WebInv'
<1> DEFINE k == req[q].key
           n == req[q].loaded.usage + 1
           r == [keyRow[k] EXCEPT !.usage = n]
<1>1. /\ k \in ApiKeys /\ k \in Keys /\ keyRow[k] \in KeyRow /\ keyRow[k].state # "absent"
      /\ req[q].loaded.usage \in Nat /\ req[q].loaded.usage <= uses[k]
      /\ uses[k] \in 0 .. MaxUses /\ uses[k] < MaxUses
  BY IngestionAssumption DEF WebInv, WebTypeOK, RequestSound, CountUse, Keys, KeyRow
<1>2. n \in 0 .. MaxUses /\ n > 0 /\ n <= uses[k] + 1
  BY <1>1, IngestionAssumption
<1>3. r \in KeyRow /\ r.usage = n /\ r.state = keyRow[k].state
  <2>1. \A m \in 0 .. MaxUses : /\ [keyRow[k] EXCEPT !.usage = m] \in KeyRow
                               /\ [keyRow[k] EXCEPT !.usage = m].usage = m
                               /\ [keyRow[k] EXCEPT !.usage = m].state = keyRow[k].state
    BY <1>1 DEF KeyRow
  <2> QED
    BY <1>2, <2>1
<1>4. /\ keyRow' = [keyRow EXCEPT ![k] = r] /\ uses' = [uses EXCEPT ![k] = uses[k] + 1]
      /\ req' = [req EXCEPT ![q].step = "admitted"] /\ author' = author
  BY <1>1 DEF CountUse, Counted, Goes
<1> HIDE DEF r, n
<1>5. /\ keyRow' \in [Keys -> KeyRow] /\ keyRow'[k] = r
      /\ \A j \in Keys \ {k} : keyRow'[j] = keyRow[j]
      /\ uses' \in [ApiKeys -> 0 .. MaxUses] /\ uses'[k] = uses[k] + 1
      /\ \A j \in ApiKeys \ {k} : uses'[j] = uses[j]
  BY <1>1, <1>3, <1>4, IngestionAssumption DEF WebInv, WebTypeOK
<1>6. WebTypeOK'
  BY <1>4, <1>5 DEF WebInv, WebTypeOK, Steps
<1>7. UsageIsCounted' /\ AbsentIsUnused'
  <2>1. \A j \in ApiKeys : keyRow'[j].usage <= uses'[j] /\ (uses'[j] > 0 => keyRow'[j].usage > 0)
    BY <1>1, <1>2, <1>3, <1>5 DEF WebInv, UsageIsCounted, Keys
  <2>2. AbsentIsUnused'
    BY <1>1, <1>3, <1>5 DEF WebInv, AbsentIsUnused
  <2> QED
    BY <2>1, <2>2 DEF UsageIsCounted
<1>8. ASSUME NEW p \in Requests
      PROVE  RequestSound(p)'
  <2>1. /\ req'[p].key = req[p].key /\ req'[p].loaded = req[p].loaded
        /\ p # q => req'[p].step = req[p].step
        /\ p = q => req'[p].step = "admitted"
    BY <1>4 DEF WebInv, WebTypeOK
  <2>2. \A j \in Keys : keyRow[j].state # "absent" => keyRow'[j].state # "absent"
    BY <1>1, <1>3, <1>5
  <2>3. \A j \in ApiKeys : uses[j] \in Nat /\ uses'[j] \in Nat /\ uses[j] <= uses'[j]
    BY <1>1, <1>5, IngestionAssumption DEF WebInv, WebTypeOK
  <2>4. req[p].loaded.usage \in Nat
    BY DEF WebInv, WebTypeOK, KeyRow
  <2>5. RequestSound(p)
    BY DEF WebInv
  <2>6. CASE p = q
    BY <1>1, <1>5, <2>1, <2>2, <2>3, <2>4, <2>6 DEF RequestSound
  <2>7. CASE p # q
    BY <2>1, <2>2, <2>3, <2>4, <2>5, <2>7 DEF RequestSound, Keys
  <2> QED
    BY <2>6, <2>7
<1> QED
  BY <1>6, <1>7, <1>8 DEF WebInv

\* Events are let in by a request that was counted.
AuthorsAreCounted ==
    \A e \in Events : status[e] # "ABSENT" => author[e] \in ApiKeys /\ uses[author[e]] > 0

\* An answer changes one request, and that one holds nothing any more.
LEMMA AnswerWebInv ==
    ASSUME WebInv, NEW q \in Requests, req' = [req EXCEPT ![q] = Idle],
           UNCHANGED <<keyRow, uses>>, author' \in [Events -> ApiKeys \cup {NoKey}]
    PROVE  WebInv'
<1>1. WebTypeOK'
  BY IdleTyped DEF WebInv, WebTypeOK
<1>2. UsageIsCounted' /\ AbsentIsUnused'
  BY DEF WebInv, UsageIsCounted, AbsentIsUnused
<1>3. ASSUME NEW p \in Requests
      PROVE  RequestSound(p)'
  <2>1. CASE p = q
    <3>1. req'[p] = Idle
      BY <2>1 DEF WebInv, WebTypeOK
    <3> QED
      BY <3>1, IdleSound
  <2>2. CASE p # q
    BY <2>2 DEF WebInv, RequestSound, WebTypeOK
  <2> QED
    BY <2>1, <2>2
<1> QED
  BY <1>1, <1>2, <1>3 DEF WebInv

\* A page of the organization writes the state of the key it loaded, or leaves
\* the row alone, and never writes a count.
LEMMA ManageWebInv ==
    ASSUME WebInv, NEW q \in Requests, RevokeOrgKey(q) \/ RotateOrgKey(q)
    PROVE  WebInv'
<1> DEFINE k == req[q].key
<1>1. /\ k \in Keys /\ keyRow[k] \in KeyRow /\ keyRow[k].state # "absent"
      /\ req' = [req EXCEPT ![q] = Idle] /\ UNCHANGED <<uses, author>>
  BY DEF WebInv, WebTypeOK, RequestSound, RevokeOrgKey, RotateOrgKey, Manage
<1>2. PICK r \in {keyRow[k], Revoked(keyRow[k])} : keyRow' = [keyRow EXCEPT ![k] = r]
  BY DEF RevokeOrgKey, RotateOrgKey, Manage
<1>3. r \in KeyRow /\ r.state # "absent" /\ r.usage = keyRow[k].usage
  BY <1>1, <1>2, RevokedTyped
<1>4. k \in ApiKeys => r.usage <= uses[k] /\ (uses[k] > 0 => r.usage > 0)
  BY <1>3 DEF WebInv, UsageIsCounted
<1> HIDE DEF k
<1>5. /\ keyRow' \in [Keys -> KeyRow] /\ UsageIsCounted' /\ AbsentIsUnused'
      /\ \A p \in Requests : req'[p] = req[p] => RequestSound(p)'
  BY <1>1, <1>2, <1>3, <1>4, RowWritten
<1>6. ASSUME NEW p \in Requests
      PROVE  RequestSound(p)'
  <2>1. p = q => req'[p] = Idle
    BY <1>1 DEF WebInv, WebTypeOK
  <2>2. p # q => req'[p] = req[p]
    BY <1>1 DEF WebInv, WebTypeOK
  <2> QED
    BY <2>1, <2>2, <1>5, IdleSound
<1>7. WebTypeOK'
  BY <1>1, <1>5, IdleTyped DEF WebInv, WebTypeOK
<1> QED
  BY <1>5, <1>6, <1>7 DEF WebInv

LEMMA NextWebInv == WebInv /\ [IngestionNext]_ingestionVars => WebInv'
<1> SUFFICES ASSUME WebInv, [IngestionNext]_ingestionVars PROVE WebInv'
  OBVIOUS
<1>1. CASE Manages
  <2>1. ASSUME NEW u \in Users, NEW k \in Keys, CreateApiKey(u, k) \/ GenerateOrgKey(u, k)
        PROVE  WebInv'
    BY <2>1, InsertWebInv DEF CreateApiKey, GenerateOrgKey
  <2>2. ASSUME NEW k \in Keys, RevokeApiKey(k)
        PROVE  WebInv'
    BY <2>2, RevokeApiWebInv
  <2>3. ASSUME NEW q \in Requests, NEW k \in Keys, SelectKey(q, k)
        PROVE  WebInv'
    BY <2>3, SelectWebInv DEF SelectKey
  <2>4. ASSUME NEW q \in Requests, NEW k \in Keys, NEW u \in Users, SelectOrgKey(q, u, k)
        PROVE  WebInv'
    BY <2>4, SelectWebInv DEF SelectOrgKey
  <2>5. ASSUME NEW q \in Requests, CountUse(q)
        PROVE  WebInv'
    BY <2>5, CountWebInv
  <2>6. ASSUME NEW q \in Requests, Answer(q)
        PROVE  WebInv'
    <3>1. author' \in [Events -> ApiKeys \cup {NoKey}]
      BY <2>6 DEF Answer, WebInv, WebTypeOK
    <3> QED
      BY <2>6, <3>1, AnswerWebInv DEF Answer
  <2>7. ASSUME NEW q \in Requests, RevokeOrgKey(q) \/ RotateOrgKey(q)
        PROVE  WebInv'
    BY <2>7, ManageWebInv
  <2> QED
    BY <1>1, <2>1, <2>2, <2>3, <2>4, <2>5, <2>6, <2>7 DEF Manages
<1>2. ASSUME NEW q \in Requests, NEW S \in SUBSET Events, StoreEvents(q, S)
      PROVE  WebInv'
  <2>1. author' \in [Events -> ApiKeys \cup {NoKey}]
    BY <1>2 DEF StoreEvents, WebInv, WebTypeOK, RequestSound
  <2> QED
    BY <1>2, <2>1, AnswerWebInv DEF StoreEvents
<1>3. CASE UNCHANGED webVars
  BY <1>3 DEF webVars, WebInv, WebTypeOK, UsageIsCounted, AbsentIsUnused, RequestSound
<1> QED
  BY <1>1, <1>2, <1>3 DEF IngestionNext, ingestionVars

\* However requests interleave, what they hold of a key is sound.
THEOREM WebInvariant == IngestionSpec => []WebInv
BY InitWebInv, NextWebInv, PTL DEF IngestionSpec

\* Every key, request and author keeps its type: no count leaves its bound.
THEOREM WebTypeCorrect == IngestionSpec => []WebTypeOK
<1>1. WebInv => WebTypeOK
  BY DEF WebInv
<1> QED
  BY <1>1, WebInvariant, PTL

\* A lost update of usage_count never makes a used key look unused, nor puts the
\* count ahead of the requests, with any number of requests at the same time.
THEOREM UsageCounted == IngestionSpec => []UsageIsCounted
<1>1. WebInv => UsageIsCounted
  BY DEF WebInv
<1> QED
  BY <1>1, WebInvariant, PTL

-----------------------------------------------------------------------------
(* Revocation, and the authors of events. *)

LEMMA RevokedStaysRevoked ==
    WebInv /\ [IngestionNext]_ingestionVars =>
        [\A k \in Keys : keyRow[k].state = "revoked" => keyRow'[k].state = "revoked"]_keyRow
<1> SUFFICES ASSUME WebInv, IngestionNext, NEW j \in Keys, keyRow[j].state = "revoked"
             PROVE  keyRow'[j].state = "revoked"
  BY DEF ingestionVars, webVars
<1>1. keyRow \in [Keys -> KeyRow] /\ keyRow[j] \in KeyRow
  BY DEF WebInv, WebTypeOK
<1>2. \A r \in KeyRow : Revoked(r).state = "revoked"
  BY RevokedTyped
<1>3. ASSUME NEW k \in Keys, keyRow[k].state = "absent", keyRow' = [keyRow EXCEPT ![k] = NewKey]
      PROVE  keyRow'[j].state = "revoked"
  BY <1>1, <1>3
<1>4. ASSUME NEW k \in Keys, keyRow' = [keyRow EXCEPT ![k] = Revoked(@)]
      PROVE  keyRow'[j].state = "revoked"
  BY <1>1, <1>2, <1>4
<1>5. ASSUME NEW q \in Requests, CountUse(q)
      PROVE  keyRow'[j].state = "revoked"
  BY <1>1, <1>5 DEF CountUse, Counted, KeyRow
<1>6. ASSUME NEW q \in Requests, RevokeOrgKey(q) \/ RotateOrgKey(q)
      PROVE  keyRow'[j].state = "revoked"
  <2>1. keyRow' = [keyRow EXCEPT ![req[q].key] = Revoked(keyRow[req[q].key])] \/ keyRow' = keyRow
    BY <1>1, <1>6 DEF RevokeOrgKey, RotateOrgKey, Manage
  <2> QED
    BY <2>1, <1>1, <1>2
<1>7. CASE keyRow' = keyRow
  BY <1>7
<1>8. CASE Manages
  BY <1>8, <1>3, <1>4, <1>5, <1>6, <1>7
     DEF Manages, CreateApiKey, GenerateOrgKey, Insert, RevokeApiKey, SelectKey, SelectOrgKey,
         Select, Answer
<1> QED
  BY <1>7, <1>8 DEF IngestionNext, StoreEvents, webVars

\* No save of a stale copy, by a request or a page, brings a revoked key back.
THEOREM RevocationFinal == IngestionSpec => RevocationIsFinal
BY WebInvariant, RevokedStaysRevoked, PTL DEF IngestionSpec, RevocationIsFinal

\* Only a request makes a row: no worker writes to an event it did not find.
LEMMA AbsentStaysAbsent ==
    ASSUME IInv, Tick \/ \E w \in Workers : Work(w) \/ AbortIteration(w)
    PROVE  \A e \in Events : status[e] = "ABSENT" => status'[e] = "ABSENT"
<1> SUFFICES ASSUME NEW e \in Events, status[e] = "ABSENT" PROVE status'[e] = "ABSENT"
  OBVIOUS
<1>1. status \in [Events -> Statuses] /\ BatchesAreSound
  BY DEF IInv, TypeOK
<1>2. CASE Tick
  BY <1>2 DEF Tick
<1>3. ASSUME NEW w \in Workers, Work(w)
      PROVE  status'[e] = "ABSENT"
  <2>1. CASE RecoverStuckEvents(w) \/ ClaimEvents(w) \/ MarkProcessed(w)
    BY <1>1, <2>1 DEF RecoverStuckEvents, Stuck, ClaimEvents, Claimable, MarkProcessed,
                      WithStatus, BatchesAreSound
  <2>2. ASSUME NEW d \in Events, NEW n \in 1 .. 2, UpdateEventFailure(w, d, n)
        PROVE  status'[e] = "ABSENT"
    BY <1>1, <2>2 DEF UpdateEventFailure, BatchesAreSound
  <2>3. CASE status' = status
    BY <2>3
  <2> QED
    BY <1>3, <2>1, <2>2, <2>3
       DEF Work, SelectCandidates, FetchClaimed, CollectParsed, LoseFailure, LeaveLoop,
           BulkCreate, dbVars
<1>4. ASSUME NEW w \in Workers, AbortIteration(w)
      PROVE  status'[e] = "ABSENT"
  BY <1>4 DEF AbortIteration, dbVars
<1> QED
  BY <1>2, <1>3, <1>4

LEMMA NextAuthors ==
    IInv /\ WebInv /\ AuthorsAreCounted /\ [IngestionNext]_ingestionVars => AuthorsAreCounted'
<1> SUFFICES ASSUME IInv, WebInv, AuthorsAreCounted, [IngestionNext]_ingestionVars
             PROVE  AuthorsAreCounted'
  OBVIOUS
<1>1. CASE Manages /\ UNCHANGED vars
  <2>1. status' = status /\ author' = author
    BY <1>1 DEF vars, dbVars, Manages, CreateApiKey, GenerateOrgKey, Insert, RevokeApiKey, SelectKey,
                SelectOrgKey, Select, CountUse, Answer, RevokeOrgKey, RotateOrgKey, Manage
  <2>2. \A k \in ApiKeys : uses[k] > 0 => uses'[k] > 0
    <3>1. ASSUME NEW q \in Requests, CountUse(q)
          PROVE  \A k \in ApiKeys : uses[k] > 0 => uses'[k] > 0
      BY <3>1, IngestionAssumption DEF CountUse, WebInv, WebTypeOK
    <3> QED
      BY <1>1, <3>1 DEF Manages, CreateApiKey, GenerateOrgKey, Insert, RevokeApiKey, SelectKey,
                SelectOrgKey, Select, Answer, RevokeOrgKey, RotateOrgKey, Manage
  <2> QED
    BY <2>1, <2>2 DEF AuthorsAreCounted
<1>2. ASSUME NEW q \in Requests, NEW S \in SUBSET Events, StoreEvents(q, S)
      PROVE  AuthorsAreCounted'
  <2>1. req[q].key \in ApiKeys /\ uses[req[q].key] > 0 /\ uses' = uses
    BY <1>2 DEF StoreEvents, WebInv, RequestSound
  <2>2. ASSUME NEW e \in Events, status'[e] # "ABSENT"
        PROVE  author'[e] \in ApiKeys /\ uses'[author'[e]] > 0
    BY <1>2, <2>1, <2>2 DEF StoreEvents, IngestEvents, AuthorsAreCounted, IInv, TypeOK
  <2> QED
    BY <2>2 DEF AuthorsAreCounted
<1>3. CASE (Tick \/ \E w \in Workers : Work(w) \/ AbortIteration(w)) /\ UNCHANGED webVars
  BY <1>3, AbsentStaysAbsent DEF AuthorsAreCounted, webVars
<1>4. CASE UNCHANGED ingestionVars
  BY <1>4 DEF ingestionVars, webVars, vars, dbVars, AuthorsAreCounted
<1> QED
  BY <1>1, <1>2, <1>3, <1>4 DEF IngestionNext

\* Whatever the workers did with an event, it came in with a key of the API, and
\* that key is on record as used.
THEOREM EventsAttributed == IngestionSpec => []EventsAreAttributed
<1>1. IngestionInit => AuthorsAreCounted
  BY DEF IngestionInit, Init, AuthorsAreCounted
<1>2. WebInv /\ AuthorsAreCounted => EventsAreAttributed
  BY DEF WebInv, UsageIsCounted, AuthorsAreCounted, EventsAreAttributed
<1>3. IngestionSpec => []IInv
  BY RequestsOnlyFeed, InductiveInvariant, PTL
<1> QED
  BY <1>1, <1>2, <1>3, NextAuthors, WebInvariant, PTL DEF IngestionSpec
=============================================================================
