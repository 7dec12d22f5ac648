------------------------------- MODULE Ingestion -------------------------------
(***************************************************************************)
(* The ingestion API on top of the event processor: the API keys of a      *)
(* workspace, the requests that authenticate with one and store events     *)
(* (api/authentication.py, api/services/api_keys.py, api/views), and the   *)
(* second key table, the one the organization pages manage                 *)
(* (organizations/services.py and views.py), which authentication never    *)
(* reads.                                                                  *)
(*                                                                         *)
(* A request runs outside any transaction: what it does with a key is a    *)
(* SELECT and, later, a save of some columns of the object it got.  The    *)
(* requests compose with the workers of EventProcessor: the rows they      *)
(* insert are the workers' input, and nothing else is shared.              *)
(***************************************************************************)
EXTENDS EventProcessor

CONSTANTS
    Users,
    RoleOf,      \* get_role_code for this workspace, NoRole for no membership
    NoRole,
    Kind,        \* workspace_type
    ApiKeys,     \* the ApiKey rows that may be created
    OrgKeys,     \* the OrganizationAPIKey rows that may be created
    NoKey,
    Requests,    \* HTTP requests in progress at the same time
    MaxUses      \* bound: successful authentications of a key

ASSUME IngestionAssumption ==
    /\ Kind \in {"personal", "organization", "demo"}
    /\ ApiKeys \cap OrgKeys = {}
    /\ NoKey \notin ApiKeys \cup OrgKeys
    /\ MaxUses \in Nat

VARIABLES
    keyRow,   \* the key tables: is_active, usage_count
    req,      \* of each request: where it is, the key it loaded, as it loaded it
    uses,     \* history: successful authentications with each key
    author    \* IngestionEvent.api_key

webVars == <<keyRow, req, uses, author>>
ingestionVars == <<vars, webVars>>

Keys == ApiKeys \cup OrgKeys

KeyRow == [state : {"absent", "active", "revoked"}, usage : 0 .. MaxUses]

\* What the tables' defaults give a new key.
NewKey == [state |-> "active", usage |-> 0]
NoRow == [NewKey EXCEPT !.state = "absent"]

\* authenticate after its SELECT; after its save; a page of the organization
\* after its SELECT.
Steps == {"idle", "selected", "admitted", "managing"}
Idle == [step |-> "idle", key |-> NoKey, loaded |-> NoRow]

IngestionInit ==
    /\ Init
    /\ keyRow = [k \in Keys |-> NoRow]
    /\ req = [q \in Requests |-> Idle]
    /\ uses = [k \in ApiKeys |-> 0]
    /\ author = [e \in Events |-> NoKey]

-----------------------------------------------------------------------------
(* The keys of the API. *)

\* create_api_key's "Enforces RBAC".
MayCreate(u) ==
    \/ Kind = "personal" /\ RoleOf[u] = "PERSONAL_OWNER"
    \/ Kind = "organization" /\ RoleOf[u] \in {"ORG_OWNER", "SOC_MANAGER"}

\* can_manage_settings, and require_org_workspace and require_manager_or_owner
\* of the pages, which a personal workspace has as well.
MayManage(u) ==
    /\ Kind # "demo"
    /\ RoleOf[u] \in {"PERSONAL_OWNER", "ORG_OWNER", "SOC_MANAGER"}

Insert(k) ==
    /\ keyRow[k].state = "absent"
    /\ keyRow' = [keyRow EXCEPT ![k] = NewKey]
    /\ UNCHANGED <<req, uses, author>>

CreateApiKey(u, k) == k \in ApiKeys /\ MayCreate(u) /\ Insert(k)
GenerateOrgKey(u, k) == k \in OrgKeys /\ MayManage(u) /\ Insert(k)

\* save(update_fields=["is_active"])
Revoked(r) == [r EXCEPT !.state = "revoked"]

\* api.services.revoke_api_key, which asks nothing of the key or the caller.
RevokeApiKey(k) ==
    /\ k \in ApiKeys
    /\ keyRow[k].state # "absent"
    /\ keyRow' = [keyRow EXCEPT ![k] = Revoked(@)]
    /\ UNCHANGED <<req, uses, author>>

-----------------------------------------------------------------------------
(* A request: authenticate, the permission, the payload, the rows. *)

Goes(q, step) == req' = [req EXCEPT ![q].step = step]

Select(q, k, step) ==
    /\ req[q] = Idle
    /\ req' = [req EXCEPT ![q] = [step |-> step, key |-> k, loaded |-> keyRow[k]]]
    /\ UNCHANGED <<keyRow, uses, author>>

\* get(public_id=..., is_active=True)
SelectKey(q, k) == k \in ApiKeys /\ keyRow[k].state = "active" /\ Select(q, k, "selected")

\* Mutant: save() without update_fields writes the loaded is_active back.
CountedWhole(r, loaded) == [loaded EXCEPT !.usage = loaded.usage + 1]

\* Mutant: usage_count is assigned and not among the update_fields.
CountedNever(r, loaded) == r

\* Mutant: a request is counted by authentication and permission.
CountedTwice(r, loaded) == [r EXCEPT !.usage = loaded.usage + 2]

\* save(update_fields=[..., "usage_count"]) of the object loaded earlier.
Counted(r, loaded) == [r EXCEPT !.usage = loaded.usage + 1]

\* The secret and the prefix fit: the key is counted and the request let in.
CountUse(q) ==
    LET k == req[q].key IN
    /\ req[q].step = "selected"
    /\ uses[k] < MaxUses
    /\ keyRow' = [keyRow EXCEPT ![k] = Counted(@, req[q].loaded)]
    /\ uses' = [uses EXCEPT ![k] = @ + 1]
    /\ Goes(q, "admitted")
    /\ UNCHANGED author

\* IngestEventsView.post: HasValidApiKey looks at the loaded object, the payload
\* is valid, and its events become rows of the key.
StoreEvents(q, S) ==
    /\ req[q].step = "admitted"
    /\ req[q].loaded.state = "active"
    /\ IngestEvents(S)
    /\ author' = [e \in Events |-> IF e \in S THEN req[q].key ELSE author[e]]
    /\ req' = [req EXCEPT ![q] = Idle]
    /\ UNCHANGED <<keyRow, uses>>

\* Wrong secret or prefix, throttled, invalid payload, or a page that refuses.
Answer(q) ==
    /\ req[q] # Idle
    /\ req' = [req EXCEPT ![q] = Idle]
    /\ UNCHANGED <<keyRow, uses, author>>

-----------------------------------------------------------------------------
(* The pages of an organization, on the key they loaded. *)

SelectOrgKey(q, u, k) ==
    /\ k \in OrgKeys
    /\ MayManage(u)
    /\ keyRow[k].state # "absent"
    /\ Select(q, k, "managing")

Manage(q, r) ==
    /\ req[q].step = "managing"
    /\ keyRow' = [keyRow EXCEPT ![req[q].key] = r]
    /\ req' = [req EXCEPT ![q] = Idle]
    /\ UNCHANGED <<uses, author>>

\* "API key is already revoked."
RevokeOrgKey(q) ==
    req[q].loaded.state = "active" /\ Manage(q, Revoked(keyRow[req[q].key]))

\* rotate_api_key writes a new prefix and hash, which are left out here, to a
\* key that may be revoked, and no other column.
RotateOrgKey(q) == Manage(q, keyRow[req[q].key])

-----------------------------------------------------------------------------
Manages ==
    \/ \E u \in Users, k \in Keys : CreateApiKey(u, k) \/ GenerateOrgKey(u, k)
    \/ \E k \in Keys : RevokeApiKey(k)
    \/ \E q \in Requests :
         \/ \E k \in Keys : SelectKey(q, k) \/ \E u \in Users : SelectOrgKey(q, u, k)
         \/ CountUse(q)
         \/ Answer(q)
         \/ RevokeOrgKey(q)
         \/ RotateOrgKey(q)

IngestionNext ==
    \/ Manages /\ UNCHANGED vars
    \/ \E q \in Requests, S \in SUBSET Events : StoreEvents(q, S)
    \/ /\ Tick \/ \E w \in Workers : Work(w) \/ AbortIteration(w)
       /\ UNCHANGED webVars

IngestionSpec == IngestionInit /\ [][IngestionNext]_ingestionVars

-----------------------------------------------------------------------------
(* Properties. *)

\* Every key, request and author is of its type.
WebTypeOK ==
    /\ keyRow \in [Keys -> KeyRow]
    /\ req \in [Requests -> [step : Steps, key : Keys \cup {NoKey}, loaded : KeyRow]]
    /\ uses \in [ApiKeys -> 0 .. MaxUses]
    /\ author \in [Events -> ApiKeys \cup {NoKey}]

\* revoke_api_key "Revokes an existing API key": for good.  No request that
\* authenticated with the key, and no page that loaded it, before it was revoked
\* makes it active again with what it saves afterwards.
RevocationIsFinal ==
    [][\A k \in Keys : keyRow[k].state = "revoked" => keyRow'[k].state = "revoked"]_keyRow

\* Concurrent requests of a key lose counts, as each of them saves the count it
\* read plus one; but the count never runs ahead of the requests, and a key that
\* was used never looks unused.
UsageIsCounted ==
    \A k \in ApiKeys :
        /\ keyRow[k].usage <= uses[k]
        /\ uses[k] > 0 => keyRow[k].usage > 0

\* Every event in the pipeline, whatever became of it, was let in through a key
\* of the API that is on record as used.
EventsAreAttributed ==
    \A e \in Events : status[e] # "ABSENT" =>
        author[e] \in ApiKeys /\ keyRow[author[e]].usage > 0
=============================================================================
