--------------------------- MODULE GovernanceProofs ---------------------------
(***************************************************************************)
(* Proofs about Governance, for any users, requests, invites and deadlines.*)
(*                                                                         *)
(* Any number of requests may be served at the same time.  Nothing keeps a  *)
(* request from writing after another has changed what it checked; every   *)
(* other step does what the checks are for.  The argument is that neither  *)
(* the jobs nor the deadlines can take back what a check has found, so that*)
(* it still holds when the request writes, unless another request's write  *)
(* has overtaken it (Remembered).                                          *)
(***************************************************************************)
EXTENDS Governance, TLAPS

\* What a session may have checked.
Operation ==
    {Idle}
    \cup [op : {"submit", "leave", "delete", "destroy"}, by : Users]
    \cup [op : {"withdraw", "approve", "reject"}, by : Users, req : Requests]
    \cup [op : {"invite"}, by : Users, to : SUBSET Joiners, role : Roles]
    \cup [op : {"revoke", "accept"}, by : Users, inv : Invites]
    \cup [op : {"block", "unblock"}, by : Users, on : Joiners]
    \cup [op : {"remove"}, by : Users, on : Users]
    \cup [op : {"role"}, by : Users, on : Users, role : Roles]
    \cup [op : {"transfer"}, by : Users, on : Users, downgrade : BOOLEAN]
    \cup [op : {"add"}, by : Users, on : Joiners, role : Roles]

Typed == TypeOK /\ doing \in [Sessions -> Operation]

Background == Jobs \/ (\E r \in Requests : RequestAges(r)) \/ Elapse

-----------------------------------------------------------------------------
(* Types. *)

LEMMA TypedInit == Init => Typed
<1> SUFFICES ASSUME Init PROVE Typed
  OBVIOUS
<1>1. member \in [Users -> MemberRow] /\ \A u \in Users : member[u].active => member[u].role # "NONE"
  BY GovernanceAssumption DEF Init, MemberRow, NoRow, AllRoles, Admins, Owner
<1>2. request \in [Requests -> RequestRow]
  <2>1. PICK f \in [Requests -> {[user |-> u, late |-> FALSE, recent |-> FALSE,
                                  status |-> "NONE"] : u \in Joiners}] : request = f
    BY DEF Init
  <2>2. ASSUME NEW r \in Requests PROVE f[r] \in RequestRow
    <3>1. PICK u \in Joiners : f[r] = [user |-> u, late |-> FALSE, recent |-> FALSE,
                                      status |-> "NONE"]
      OBVIOUS
    <3> QED
      BY <3>1, GovernanceAssumption DEF RequestRow
  <2> QED
    BY <2>1, <2>2
<1>3. invite \in [Invites -> InviteRow]
  BY DEF Init, InviteRow, AllRoles
<1> QED
  BY <1>1, <1>2, <1>3 DEF Init, Typed, TypeOK, BlockRows, Operation

\* What is remembered of an operation depends on the operation.
LEMMA Arguments ==
    ASSUME Typed, NEW s \in Sessions
    PROVE  /\ doing[s] # Idle => doing[s].by \in Users
           /\ doing[s].op \in {"withdraw", "approve", "reject"} => doing[s].req \in Requests
           /\ doing[s].op = "invite" => doing[s].to \in SUBSET Joiners
           /\ doing[s].op \in {"invite", "role", "add"} => doing[s].role \in Roles
           /\ doing[s].op \in {"revoke", "accept"} => doing[s].inv \in Invites
           /\ doing[s].op \in {"block", "unblock"} => doing[s].on \in Joiners
           /\ doing[s].op \in {"remove", "role", "transfer", "add"} => doing[s].on \in Users
  BY GovernanceAssumption DEF Typed, Operation, Idle

\* A check changes only what the session remembers.
LEMMA ChecksOnlyRemember ==
    ASSUME Typed, NEW s \in Sessions, Checks(s)
    PROVE  /\ UNCHANGED <<member, request, invite, blocked, exists, deleted, overtaken>>
           /\ exists
           /\ \E op \in Operation : doing' = [doing EXCEPT ![s] = op]
<1> DEFINE P == /\ UNCHANGED <<member, request, invite, blocked, exists, deleted, overtaken>>
                /\ exists
                /\ \E op \in Operation : doing' = [doing EXCEPT ![s] = op]
<1>1. ASSUME NEW u, NEW op \in Operation, Check(s, u, op)
      PROVE  P
  BY <1>1 DEF Check
<1> HIDE DEF P
<1> USE GovernanceAssumption DEF Typed, TypeOK
<1>2. ASSUME NEW u \in Joiners, CheckSubmit(s, u) PROVE P
  <2>1. [op |-> "submit", by |-> u] \in Operation
    BY <1>2 DEF Operation
  <2> QED
    BY <1>1, <1>2, <2>1 DEF CheckSubmit
<1>3. ASSUME NEW u \in Users,
             CheckLeave(s, u) \/ CheckDeleteAccount(s, u) \/ CheckDeleteWorkspace(s, u)
      PROVE  P
  <2>1. \A o \in {"leave", "delete", "destroy"} : [op |-> o, by |-> u] \in Operation
    BY DEF Operation
  <2> QED
    BY <1>1, <1>3, <2>1 DEF CheckLeave, CheckDeleteAccount, CheckDeleteWorkspace
<1>4. ASSUME NEW r \in Requests, CheckWithdraw(s, r) PROVE P
  <2>1. request[r].user \in Users
    BY DEF RequestRow
  <2>2. [op |-> "withdraw", by |-> request[r].user, req |-> r] \in Operation
    BY <2>1 DEF Operation
  <2> QED
    BY <1>1, <1>4, <2>2 DEF CheckWithdraw
<1>5. ASSUME NEW a \in Users, NEW r \in Requests, CheckApprove(s, a, r) \/ CheckReject(s, a, r)
      PROVE  P
  <2>1. \A o \in {"approve", "reject"} : [op |-> o, by |-> a, req |-> r] \in Operation
    BY DEF Operation
  <2> QED
    BY <1>1, <1>5, <2>1 DEF CheckApprove, CheckReject
<1>6. ASSUME NEW a \in Users, NEW role \in Roles, NEW to \in SUBSET Joiners,
             CheckCreateInvite(s, a, to, role)
      PROVE  P
  <2>1. [op |-> "invite", by |-> a, to |-> to, role |-> role] \in Operation
    BY DEF Operation
  <2> QED
    BY <1>1, <1>6, <2>1 DEF CheckCreateInvite
<1>7. ASSUME NEW a \in Users, NEW i \in Invites,
             CheckRevokeInvite(s, a, i) \/ CheckAcceptInvite(s, a, i)
      PROVE  P
  <2>1. \A o \in {"revoke", "accept"} : [op |-> o, by |-> a, inv |-> i] \in Operation
    BY DEF Operation
  <2> QED
    BY <1>1, <1>7, <2>1 DEF CheckRevokeInvite, CheckAcceptInvite
<1>8. ASSUME NEW a \in Users, NEW t \in Joiners, NEW o, CheckBlock(s, a, t, o)
      PROVE  P
  <2>1. o \in {"block", "unblock"} => [op |-> o, by |-> a, on |-> t] \in Operation
    BY DEF Operation
  <2> QED
    BY <1>1, <1>8, <2>1 DEF CheckBlock
<1>9. ASSUME NEW a \in Users, NEW t \in Users, CheckRemove(s, a, t) PROVE P
  <2>1. [op |-> "remove", by |-> a, on |-> t] \in Operation
    BY DEF Operation
  <2> QED
    BY <1>1, <1>9, <2>1 DEF CheckRemove
<1>10. ASSUME NEW a \in Users, NEW t \in Users, NEW role \in Roles,
              CheckChangeRole(s, a, t, role)
       PROVE  P
  <2>1. [op |-> "role", by |-> a, on |-> t, role |-> role] \in Operation
    BY DEF Operation
  <2> QED
    BY <1>1, <1>10, <2>1 DEF CheckChangeRole
<1>11. ASSUME NEW a \in Users, NEW n \in Users, NEW downgrade \in BOOLEAN,
              CheckTransfer(s, a, n, downgrade)
       PROVE  P
  <2>1. [op |-> "transfer", by |-> a, on |-> n, downgrade |-> downgrade] \in Operation
    BY DEF Operation
  <2> QED
    BY <1>1, <1>11, <2>1 DEF CheckTransfer
<1>12. ASSUME NEW a \in Users, NEW t \in Joiners, NEW role \in Roles,
              CheckAddMember(s, a, t, role)
       PROVE  P
  <2>1. [op |-> "add", by |-> a, on |-> t, role |-> role] \in Operation
    BY DEF Operation
  <2> QED
    BY <1>1, <1>12, <2>1 DEF CheckAddMember
<1>13. P
  BY <1>2, <1>3, <1>4, <1>5, <1>6, <1>7, <1>8, <1>9, <1>10, <1>11, <1>12 DEF Checks
<1> QED
  BY <1>13 DEF P

\* A write ends the request and overtakes all that have checked; a refusal
\* only ends the request.
LEMMA WritesEnd ==
    ASSUME Typed, NEW s \in Sessions, Writes(s)
    PROVE  /\ doing' = [doing EXCEPT ![s] = Idle]
           /\ \/ overtaken' = (overtaken \cup {t \in Sessions : doing[t] # Idle}) \ {s}
              \/ /\ overtaken' = overtaken \ {s}
                 /\ UNCHANGED <<member, request, invite, blocked, exists, deleted>>
  BY DEF Writes, Refuse, SubmitJoinRequest, WithdrawJoinRequest, ApproveJoinRequest,
         RejectJoinRequest, CreateInvite, RevokeInvite, AcceptInvite, BlockUser, UnblockUser,
         ChangeMemberRole, RemoveMember, LeaveWorkspace, TransferOwnership, AddMember,
         DeleteAccount, DeleteWorkspace, Finish

\* The jobs and the passing of time take no role from an active member, give
\* none, decide no request and use no invite.
LEMMA BackgroundKeeps ==
    ASSUME Typed, Background
    PROVE  /\ UNCHANGED <<blocked, exists, deleted, doing, overtaken>>
           /\ \A u \in Users : Member(u)' <=> Member(u)
           /\ \A u \in Users : Member(u) => member'[u].role = member[u].role
           /\ \A u \in Users : member'[u].active => member[u].active
           /\ \A r \in Requests : /\ request'[r].user = request[r].user
                                  /\ \/ request'[r].status = request[r].status
                                     \/ /\ request[r].status = "PENDING"
                                        /\ request'[r].status = "EXPIRED"
           /\ \A i \in Invites : /\ invite'[i].status = invite[i].status
                                 /\ invite'[i].to = invite[i].to
<1> DEFINE P == /\ UNCHANGED <<blocked, exists, deleted, doing, overtaken>>
                /\ \A u \in Users : Member(u)' <=> Member(u)
                /\ \A u \in Users : Member(u) => member'[u].role = member[u].role
                /\ \A u \in Users : member'[u].active => member[u].active
                /\ \A r \in Requests : /\ request'[r].user = request[r].user
                                       /\ \/ request'[r].status = request[r].status
                                          \/ /\ request[r].status = "PENDING"
                                             /\ request'[r].status = "EXPIRED"
                /\ \A i \in Invites : /\ invite'[i].status = invite[i].status
                                      /\ invite'[i].to = invite[i].to
<1> USE DEF Typed, TypeOK, Member, Visible, MemberRow, RequestRow, InviteRow, NoRow
<1>1. CASE ExpireOldJoinRequests
  BY <1>1 DEF ExpireOldJoinRequests, Overdue
<1>2. ASSUME NEW S \in SUBSET Users, PurgeExpiredMemberships(S) PROVE P
  BY <1>2 DEF PurgeExpiredMemberships
<1>3. ASSUME NEW S \in SUBSET Users, HardDeleteArchived(S) PROVE P
  BY <1>3 DEF HardDeleteArchived
<1>4. ASSUME NEW r \in Requests, RequestAges(r) PROVE P
  BY <1>4 DEF RequestAges
<1>5. CASE Elapse
  <2>1. ASSUME NEW r \in Requests, request' = [request EXCEPT ![r].recent = FALSE],
               UNCHANGED <<member, invite, blocked, exists, deleted, doing, overtaken>>
        PROVE  P
    BY <2>1
  <2>2. ASSUME NEW i \in Invites, invite' = [invite EXCEPT ![i].late = TRUE],
               UNCHANGED <<member, request, blocked, exists, deleted, doing, overtaken>>
        PROVE  P
    BY <2>2
  <2>3. ASSUME NEW u \in Users, member' = [member EXCEPT ![u].cooling = FALSE],
               UNCHANGED <<request, invite, blocked, exists, deleted, doing, overtaken>>
        PROVE  P
    BY <2>3
  <2> QED
    BY <1>5, <2>1, <2>2, <2>3 DEF Elapse
<1> QED
  BY <1>1, <1>2, <1>3, <1>4, <1>5 DEF Background, Jobs

\* Writing one row: it has to be of the type, and have a role if it is active.
LEMMA RowTyped ==
    ASSUME NEW m \in [Users -> MemberRow],
           \A v \in Users : m[v].active => m[v].role # "NONE",
           NEW u \in Users, NEW r \in MemberRow, r.active => r.role # "NONE",
           NEW n, n = [m EXCEPT ![u] = r]
    PROVE  /\ n \in [Users -> MemberRow]
           /\ \A v \in Users : n[v].active => n[v].role # "NONE"
<1>1. \A v \in Users : n[v] = IF v = u THEN r ELSE m[v]
  OBVIOUS
<1> QED
  BY <1>1

\* Admission writes an active row with a role.
LEMMA AdmitTyped ==
    ASSUME Typed, NEW u \in Users, NEW role \in AllRoles, Admit(u, role)
    PROVE  /\ member' \in [Users -> MemberRow]
           /\ \A v \in Users : member'[v].active => member'[v].role # "NONE"
<1> DEFINE r == [member[u] EXCEPT !.role = role, !.active = TRUE, !.cooling = FALSE]
<1>1. member[u] \in MemberRow /\ role # "NONE"
  BY DEF Typed, TypeOK, AllRoles, Admins, Owner
<1>2. r \in MemberRow /\ r.role = role
  BY <1>1 DEF MemberRow
<1>3. member' = [member EXCEPT ![u] = r]
  BY DEF Admit
<1> HIDE DEF r
<1> QED
  BY <1>1, <1>2, <1>3, RowTyped DEF Typed, TypeOK

LEMMA AddTyped ==
    ASSUME Typed, NEW u \in Users, NEW role \in AllRoles,
           member' = [member EXCEPT ![u].active = TRUE, ![u].role = role]
    PROVE  /\ member' \in [Users -> MemberRow]
           /\ \A v \in Users : member'[v].active => member'[v].role # "NONE"
<1> DEFINE r == [member[u] EXCEPT !.active = TRUE, !.role = role]
<1>1. member[u] \in MemberRow /\ role # "NONE"
  BY DEF Typed, TypeOK, AllRoles, Admins, Owner
<1>2. r \in MemberRow /\ r.role = role
  BY <1>1 DEF MemberRow
<1>3. member' = [member EXCEPT ![u] = r]
  BY DEF Typed, TypeOK
<1> HIDE DEF r
<1> QED
  BY <1>1, <1>2, <1>3, RowTyped DEF Typed, TypeOK

LEMMA RoleTyped ==
    ASSUME NEW m \in [Users -> MemberRow],
           \A v \in Users : m[v].active => m[v].role # "NONE",
           NEW u \in Users, NEW role \in AllRoles \cup {"NONE"},
           m[u].active => role # "NONE"
    PROVE  /\ [m EXCEPT ![u].role = role] \in [Users -> MemberRow]
           /\ \A v \in Users : [m EXCEPT ![u].role = role][v].active =>
                                  [m EXCEPT ![u].role = role][v].role # "NONE"
<1> DEFINE r == [m[u] EXCEPT !.role = role]
<1>1. r \in MemberRow /\ r.role = role /\ r.active = m[u].active
  BY DEF MemberRow
<1>2. [m EXCEPT ![u].role = role] = [m EXCEPT ![u] = r]
  OBVIOUS
<1> HIDE DEF r
<1> QED
  BY <1>1, <1>2, RowTyped

LEMMA TransferTyped ==
    ASSUME Typed, NEW a \in Users, NEW n \in Users, NEW role \in AllRoles \cup {"NONE"},
           member[a].active => role # "NONE",
           member' = [member EXCEPT ![a].role = role, ![n].role = Owner]
    PROVE  /\ member' \in [Users -> MemberRow]
           /\ \A v \in Users : member'[v].active => member'[v].role # "NONE"
<1> DEFINE half == [member EXCEPT ![a].role = role]
<1>1. Owner \in AllRoles /\ Owner # "NONE"
  BY DEF AllRoles, Admins, Owner
<1>2. /\ half \in [Users -> MemberRow]
      /\ \A v \in Users : half[v].active => half[v].role # "NONE"
  BY RoleTyped DEF Typed, TypeOK
<1>3. member' = [half EXCEPT ![n].role = Owner]
  OBVIOUS
<1> HIDE DEF half
<1> QED
  BY <1>1, <1>2, <1>3, RoleTyped

\* A departure ends the membership and leaves the row.
LEMMA DeactivateTyped ==
    ASSUME Typed, NEW a \in Users, NEW t \in Users, Deactivate(a, t)
    PROVE  /\ member' \in [Users -> MemberRow]
           /\ \A v \in Users : member'[v].active => member'[v].role # "NONE"
<1> DEFINE r == [member[t] EXCEPT !.active = FALSE, !.cooling = @ \/ a = t]
<1>1. member[t] \in MemberRow
  BY DEF Typed, TypeOK
<1>2. r \in MemberRow /\ ~r.active
  BY <1>1 DEF MemberRow
<1>3. member' = [member EXCEPT ![t] = r]
  BY DEF Deactivate
<1> HIDE DEF r
<1> QED
  BY <1>2, <1>3, RowTyped DEF Typed, TypeOK

\* Blocking decides requests.
LEMMA BlockTyped ==
    ASSUME Typed, NEW t,
           request' = [r \in Requests |->
                         IF r \in Pending(t)
                         THEN [request[r] EXCEPT !.status = "REJECTED", !.recent = TRUE]
                         ELSE request[r]]
    PROVE  request' \in [Requests -> RequestRow]
<1>1. ASSUME NEW r \in Requests
      PROVE  /\ request[r] \in RequestRow
             /\ [request[r] EXCEPT !.status = "REJECTED", !.recent = TRUE] \in RequestRow
  BY DEF Typed, TypeOK, RequestRow, Decided
<1> QED
  BY <1>1

\* Every write keeps the types of the rows.
LEMMA WritesTyped ==
    ASSUME Typed, NEW s \in Sessions, Writes(s)
    PROVE  TypeOK'
<1> DEFINE Members == /\ member' \in [Users -> MemberRow]
                      /\ \A v \in Users : member'[v].active => member'[v].role # "NONE"
<1>1. /\ \A r \in Requests : request[r] \in RequestRow
      /\ \A i \in Invites : invite[i] \in InviteRow
      /\ \A u \in Users : member[u] \in MemberRow
  BY DEF Typed, TypeOK
<1>18. overtaken' \in SUBSET Sessions
  BY WritesEnd DEF Typed, TypeOK
<1> USE GovernanceAssumption, Arguments, <1>18 DEF Doing, Typed, TypeOK
<1>2. CASE Refuse(s)
  BY <1>2 DEF Refuse
<1>3. ASSUME NEW r \in Requests, SubmitJoinRequest(s, r) PROVE TypeOK'
  BY <1>3 DEF SubmitJoinRequest, RequestRow
<1>4. CASE WithdrawJoinRequest(s)
  BY <1>4 DEF WithdrawJoinRequest, RequestRow, Decided
<1>5. CASE ApproveJoinRequest(s)
  <2>1. request[doing[s].req].user \in Users
    BY <1>1, <1>5 DEF ApproveJoinRequest, RequestRow
  <2>2. Members
    BY <1>5, <2>1, AdmitTyped DEF ApproveJoinRequest, AllRoles
  <2>3. request' \in [Requests -> RequestRow]
    BY <1>5 DEF ApproveJoinRequest, RequestRow, Decided
  <2> QED
    BY <1>5, <2>2, <2>3 DEF ApproveJoinRequest
<1>6. CASE RejectJoinRequest(s)
  BY <1>6 DEF RejectJoinRequest, RequestRow, Decided
<1>7. ASSUME NEW i \in Invites, CreateInvite(s, i) PROVE TypeOK'
  BY <1>7 DEF CreateInvite, InviteRow
<1>8. CASE RevokeInvite(s)
  BY <1>8 DEF RevokeInvite, InviteRow
<1>9. CASE AcceptInvite(s)
  <2>1. invite[doing[s].inv].role \in AllRoles /\ doing[s].by \in Users
    BY <1>1, <1>9 DEF AcceptInvite, InviteRow, Idle
  <2>2. Members
    BY <1>9, <2>1, AdmitTyped DEF AcceptInvite
  <2>3. invite' \in [Invites -> InviteRow]
    BY <1>9 DEF AcceptInvite, InviteRow
  <2> QED
    BY <1>9, <2>2, <2>3 DEF AcceptInvite
<1>10. CASE BlockUser(s)
  <2>1. request' \in [Requests -> RequestRow]
    BY <1>10, BlockTyped DEF BlockUser
  <2> QED
    BY <1>10, <2>1 DEF BlockUser, BlockRows
<1>11. CASE UnblockUser(s)
  BY <1>11 DEF UnblockUser, BlockRows
<1>12. CASE ChangeMemberRole(s)
  <2>1. doing[s].role \in AllRoles /\ doing[s].role # "NONE" /\ doing[s].on \in Users
    BY <1>12 DEF ChangeMemberRole, AllRoles, Admins, Owner
  <2>2. member' = [member EXCEPT ![doing[s].on].role = doing[s].role]
    BY <1>12 DEF ChangeMemberRole
  <2>3. Members
    BY <2>1, <2>2, RoleTyped
  <2> QED
    BY <1>12, <2>3 DEF ChangeMemberRole
<1>13. CASE RemoveMember(s) \/ LeaveWorkspace(s)
  <2>1. PICK a \in Users, t \in Users : Deactivate(a, t)
    BY <1>13 DEF RemoveMember, LeaveWorkspace, Idle
  <2>2. Members
    BY <2>1, DeactivateTyped
  <2> QED
    BY <1>13, <2>2 DEF RemoveMember, LeaveWorkspace
<1>14. CASE TransferOwnership(s)
  <2>1. doing[s].on \in Users /\ doing[s].by \in Users
    BY <1>14 DEF TransferOwnership, Idle
  <2>2. PICK role \in AllRoles \cup {"NONE"} :
            /\ member[doing[s].by].active => role # "NONE"
            /\ member' = [member EXCEPT ![doing[s].by].role = role,
                                       ![doing[s].on].role = Owner]
    <3>1. CASE doing[s].downgrade
      BY <1>14, <3>1 DEF TransferOwnership, AllRoles, Admins
    <3>2. CASE ~doing[s].downgrade
      BY <1>1, <1>14, <2>1, <3>2 DEF TransferOwnership, MemberRow
    <3> QED
      BY <3>1, <3>2
  <2>3. Members
    BY <2>1, <2>2, TransferTyped
  <2> QED
    BY <1>14, <2>3 DEF TransferOwnership
<1>15. CASE AddMember(s)
  <2>1. doing[s].role \in AllRoles /\ doing[s].role # "NONE" /\ doing[s].on \in Users
    BY <1>15 DEF AddMember, AllRoles, Admins, Owner
  <2>2. Members
    <3>1. CASE member' = member
      BY <3>1
    <3>2. CASE member' = [member EXCEPT ![doing[s].on].active = TRUE,
                                        ![doing[s].on].role = doing[s].role]
      BY <2>1, <3>2, AddTyped
    <3> QED
      BY <1>15, <3>1, <3>2 DEF AddMember
  <2> QED
    BY <1>15, <2>2 DEF AddMember
<1>16. CASE DeleteAccount(s)
  <2>1. doing[s].by \in Users
    BY <1>16 DEF DeleteAccount, Idle
  <2> QED
    BY <1>16, <2>1 DEF DeleteAccount
<1>17. CASE DeleteWorkspace(s)
  <2>1. Members
    BY <1>17 DEF DeleteWorkspace, NoRow, MemberRow
  <2>2. \A r \in Requests : [request[r] EXCEPT !.status = "NONE", !.late = FALSE,
                                            !.recent = FALSE] \in RequestRow
    <3> TAKE r \in Requests
    <3>1. request[r] \in RequestRow
      BY <1>1
    <3> QED
      BY <3>1 DEF RequestRow
  <2>3. \A i \in Invites : [invite[i] EXCEPT !.status = "NONE"] \in InviteRow
    <3> TAKE i \in Invites
    <3>1. invite[i] \in InviteRow
      BY <1>1
    <3> QED
      BY <3>1 DEF InviteRow
  <2> QED
    BY <1>17, <2>1, <2>2, <2>3 DEF DeleteWorkspace, BlockRows
<1> QED
  BY <1>2, <1>3, <1>4, <1>5, <1>6, <1>7, <1>8, <1>9, <1>10, <1>11, <1>12, <1>13, <1>14,
     <1>15, <1>16, <1>17 DEF Writes

LEMMA BackgroundTyped ==
    ASSUME Typed, Background
    PROVE  TypeOK'
<1> USE DEF Typed, TypeOK
<1>1. CASE ExpireOldJoinRequests
  <2>1. \A r \in Requests : [request[r] EXCEPT !.status = "EXPIRED"] \in RequestRow
    BY DEF RequestRow
  <2> QED
    BY <1>1, <2>1 DEF ExpireOldJoinRequests
<1>2. ASSUME NEW S \in SUBSET Users, PurgeExpiredMemberships(S) PROVE TypeOK'
  BY <1>2 DEF PurgeExpiredMemberships, MemberRow
<1>3. ASSUME NEW S \in SUBSET Users, HardDeleteArchived(S) PROVE TypeOK'
  BY <1>3 DEF HardDeleteArchived, MemberRow, NoRow
<1>4. ASSUME NEW r \in Requests, RequestAges(r) PROVE TypeOK'
  BY <1>4 DEF RequestAges, RequestRow
<1>5. CASE Elapse
  <2>1. ASSUME NEW r \in Requests, request' = [request EXCEPT ![r].recent = FALSE],
               UNCHANGED <<member, invite, blocked, exists, deleted, doing, overtaken>>
        PROVE  TypeOK'
    BY <2>1 DEF RequestRow
  <2>2. ASSUME NEW i \in Invites, invite' = [invite EXCEPT ![i].late = TRUE],
               UNCHANGED <<member, request, blocked, exists, deleted, doing, overtaken>>
        PROVE  TypeOK'
    BY <2>2 DEF InviteRow
  <2>3. ASSUME NEW u \in Users, member' = [member EXCEPT ![u].cooling = FALSE],
               UNCHANGED <<request, invite, blocked, exists, deleted, doing, overtaken>>
        PROVE  TypeOK'
    BY <2>3 DEF MemberRow
  <2> QED
    BY <1>5, <2>1, <2>2, <2>3 DEF Elapse
<1> QED
  BY <1>1, <1>2, <1>3, <1>4, <1>5 DEF Background, Jobs

LEMMA TypedNext == Typed /\ [Next]_vars => Typed'
<1> SUFFICES ASSUME Typed, [Next]_vars PROVE Typed'
  OBVIOUS
<1>1. CASE UNCHANGED vars
  BY <1>1 DEF vars, Typed, TypeOK
<1>2. CASE Background
  BY <1>2, BackgroundTyped, BackgroundKeeps DEF Typed
<1>3. ASSUME NEW s \in Sessions, Checks(s) PROVE Typed'
  BY <1>3, ChecksOnlyRemember DEF Typed, TypeOK
<1>4. ASSUME NEW s \in Sessions, Writes(s) PROVE Typed'
  BY <1>4, WritesTyped, WritesEnd DEF Typed, Operation
<1> QED
  BY <1>1, <1>2, <1>3, <1>4 DEF Next, Background

\* Every row holds values of its columns' types, and an active member has a
\* role, with any number of concurrent requests.
THEOREM TypeCorrect == Spec => []TypeOK
<1>1. Typed => TypeOK
  BY DEF Typed
<1> QED
  BY TypedInit, TypedNext, <1>1, PTL DEF Spec

-----------------------------------------------------------------------------
(* What a check has found. *)

\* What a check has found, as long as it holds.
RememberedOf(d) ==
    /\ d.op = "submit" => d.by \notin blocked
    /\ d.op \in {"withdraw", "approve", "reject"} =>
          request[d.req].status \in {"PENDING", "EXPIRED"}
    /\ d.op = "accept" => invite[d.inv].status = "UNUSED" /\ d.by \in invite[d.inv].to
    /\ d.op = "role" => /\ IsOwner(d.on) => IsOwner(d.by)
                        /\ IsOwner(d.on) /\ d.role # Owner => OtherOwners(d.on) # {}
    /\ d.op = "remove" => (IsOwner(d.on) => d.by = d.on /\ OtherOwners(d.on) # {})
    /\ d.op = "transfer" => IsOwner(d.by) /\ Member(d.on) /\ d.on # d.by
    /\ d.op = "add" => IsAdmin(d.by)
    /\ d.op = "destroy" => IsOwner(d.by)

\* It holds until the session writes, unless the session is overtaken.
Remembered == \A s \in Sessions \ overtaken : RememberedOf(doing[s])

IInv == Typed /\ Remembered

LEMMA SoundInit == Init => IInv
<1>1. Init => \A s \in Sessions : doing[s].op = "none"
  <2>1. Init => doing = [s \in Sessions |-> Idle]
    BY Zenon DEF Init
  <2> QED
    BY <2>1 DEF Idle
<1>2. Init => Remembered
  BY <1>1 DEF Remembered, RememberedOf
<1> QED
  BY <1>2, TypedInit DEF IInv

\* A check finds out what is to be remembered.
LEMMA ChecksRemember ==
    ASSUME IInv, NEW s \in Sessions, Checks(s)
    PROVE  RememberedOf(doing'[s])
<1>1. Typed
  BY DEF IInv
<1>2. \A u, op : Check(s, u, op) => doing'[s] = op
  BY <1>1 DEF Typed, Check
<1> USE DEF RememberedOf
<1>3. ASSUME NEW u \in Joiners, CheckSubmit(s, u) PROVE RememberedOf(doing'[s])
  BY <1>2, <1>3 DEF CheckSubmit, MaySubmit
<1>4. ASSUME NEW u \in Users,
             CheckLeave(s, u) \/ CheckDeleteAccount(s, u) \/ CheckDeleteWorkspace(s, u)
      PROVE  RememberedOf(doing'[s])
  BY <1>2, <1>4 DEF CheckLeave, CheckDeleteAccount, CheckDeleteWorkspace
<1>5. ASSUME NEW r \in Requests, CheckWithdraw(s, r) PROVE RememberedOf(doing'[s])
  BY <1>2, <1>5 DEF CheckWithdraw
<1>6. ASSUME NEW a \in Users, NEW r \in Requests, CheckApprove(s, a, r) \/ CheckReject(s, a, r)
      PROVE  RememberedOf(doing'[s])
  BY <1>2, <1>6 DEF CheckApprove, CheckReject, MayReview
<1>7. ASSUME NEW a \in Users, NEW role \in Roles, NEW to \in SUBSET Joiners,
             CheckCreateInvite(s, a, to, role)
      PROVE  RememberedOf(doing'[s])
  BY <1>2, <1>7 DEF CheckCreateInvite
<1>8. ASSUME NEW a \in Users, NEW i \in Invites,
             CheckRevokeInvite(s, a, i) \/ CheckAcceptInvite(s, a, i)
      PROVE  RememberedOf(doing'[s])
  BY <1>2, <1>8 DEF CheckRevokeInvite, CheckAcceptInvite, MayAccept
<1>9. ASSUME NEW a \in Users, NEW t \in Joiners, NEW o, CheckBlock(s, a, t, o)
      PROVE  RememberedOf(doing'[s])
  BY <1>2, <1>9 DEF CheckBlock
<1>10. ASSUME NEW a \in Users, NEW t \in Users, CheckRemove(s, a, t)
       PROVE  RememberedOf(doing'[s])
  BY <1>2, <1>10 DEF CheckRemove, MayRemove, IsOwner
<1>11. ASSUME NEW a \in Users, NEW t \in Users, NEW role \in Roles,
              CheckChangeRole(s, a, t, role)
       PROVE  RememberedOf(doing'[s])
  BY <1>2, <1>11 DEF CheckChangeRole, MayChangeRole, IsOwner
<1>12. ASSUME NEW a \in Users, NEW n \in Users, NEW downgrade \in BOOLEAN,
              CheckTransfer(s, a, n, downgrade)
       PROVE  RememberedOf(doing'[s])
  BY <1>2, <1>12 DEF CheckTransfer
<1>13. ASSUME NEW a \in Users, NEW t \in Joiners, NEW role \in Roles,
              CheckAddMember(s, a, t, role)
       PROVE  RememberedOf(doing'[s])
  BY <1>2, <1>13 DEF CheckAddMember
<1> HIDE DEF RememberedOf
<1> QED
  BY <1>3, <1>4, <1>5, <1>6, <1>7, <1>8, <1>9, <1>10, <1>11, <1>12, <1>13,
     GovernanceAssumption DEF Checks

\* The background leaves owners, admins and the members' standing alone.
LEMMA BackgroundStanding ==
    ASSUME Typed, Background
    PROVE  /\ \A u \in Users : IsOwner(u)' <=> IsOwner(u)
           /\ \A u \in Users : IsAdmin(u)' <=> IsAdmin(u)
           /\ \A u \in Users : OtherOwners(u)' = OtherOwners(u)
  BY BackgroundKeeps DEF IsOwner, IsAdmin, OtherOwners

LEMMA BackgroundSound ==
    ASSUME IInv, Background
    PROVE  IInv'
<1>1. Typed
  BY DEF IInv
<1>2. Typed'
  BY <1>1, TypedNext DEF Background, Next
<1>3. ASSUME NEW s \in Sessions \ overtaken' PROVE RememberedOf(doing[s])'
  <2>1. RememberedOf(doing[s]) /\ doing'[s] = doing[s]
    BY <1>1, BackgroundKeeps DEF IInv, Remembered
  <2>2. blocked' = blocked
    BY <1>1, BackgroundKeeps
  <2> QED
    BY <1>1, <2>1, <2>2, Arguments, BackgroundKeeps, BackgroundStanding
       DEF RememberedOf, Idle
<1> QED
  BY <1>2, <1>3 DEF IInv, Remembered

\* A write is of a session that has checked.
LEMMA WritersHaveChecked ==
    ASSUME NEW s \in Sessions, Writes(s)
    PROVE  doing[s] # Idle
<1> SUFFICES ASSUME doing[s] = Idle PROVE FALSE
  OBVIOUS
<1>1. doing[s].op = "none"
  BY DEF Idle
<1>2. ~DeleteWorkspace(s)
  <2>1. DeleteWorkspace(s) => Doing(s, "destroy")
    BY Zenon DEF DeleteWorkspace
  <2> QED
    BY <1>1, <2>1 DEF Doing
<1> QED
  BY <1>1, <1>2
     DEF Writes, Refuse, Doing, SubmitJoinRequest, WithdrawJoinRequest, ApproveJoinRequest,
         RejectJoinRequest, CreateInvite, RevokeInvite, AcceptInvite, BlockUser, UnblockUser,
         ChangeMemberRole, RemoveMember, LeaveWorkspace, TransferOwnership, AddMember,
         DeleteAccount

\* So what its check has found still holds when a session that was not
\* overtaken writes.
LEMMA WriterRemembers ==
    ASSUME IInv, NEW s \in Sessions, Writes(s), ~ByOvertaken
    PROVE  RememberedOf(doing[s])
<1>1. doing[s] # Idle
  BY WritersHaveChecked
<1>2. doing'[s] = Idle
  BY WritesEnd DEF IInv, Typed
<1> QED
  BY <1>1, <1>2 DEF IInv, Remembered, ByOvertaken

LEMMA SoundNext == IInv /\ [Next]_vars => IInv'
<1> SUFFICES ASSUME IInv, [Next]_vars PROVE IInv'
  OBVIOUS
<1>1. Typed /\ Typed'
  BY TypedNext DEF IInv
<1>2. ASSUME UNCHANGED <<member, request, invite, blocked>>,
             NEW t \in Sessions \ overtaken, doing'[t] = doing[t]
      PROVE  RememberedOf(doing[t])'
  BY <1>2 DEF IInv, Remembered, RememberedOf, IsOwner, IsAdmin, Member, Visible, OtherOwners
<1>3. CASE UNCHANGED vars
  BY <1>1, <1>2, <1>3 DEF vars, IInv, Remembered
<1>4. CASE Background
  BY <1>4, BackgroundSound
<1>5. ASSUME NEW s \in Sessions, Checks(s) PROVE IInv'
  <2>1. UNCHANGED <<member, request, invite, blocked, exists, deleted, overtaken>>
    BY <1>1, <1>5, ChecksOnlyRemember
  <2>2. RememberedOf(doing'[s])
    BY <1>5, ChecksRemember
  <2>3. ASSUME NEW t \in Sessions \ overtaken' PROVE RememberedOf(doing[t])'
    <3>1. CASE t # s
      <4>1. doing'[t] = doing[t]
        BY <1>1, <1>5, <3>1, ChecksOnlyRemember DEF Typed
      <4> QED
        BY <1>2, <2>1, <4>1
    <3>2. CASE t = s
      BY <2>1, <2>2, <3>2
         DEF RememberedOf, IsOwner, IsAdmin, Member, Visible, OtherOwners
    <3> QED
      BY <3>1, <3>2
  <2> QED
    BY <1>1, <2>3 DEF IInv, Remembered
<1>6. ASSUME NEW s \in Sessions, Writes(s) PROVE IInv'
  <2>1. doing' = [doing EXCEPT ![s] = Idle] /\ DOMAIN doing = Sessions
    BY <1>1, <1>6, WritesEnd DEF Typed
  <2>2. ASSUME NEW t \in Sessions \ overtaken' PROVE RememberedOf(doing[t])'
    <3>1. CASE doing'[t] = Idle
      BY <3>1 DEF RememberedOf, Idle
    <3>2. CASE doing'[t] # Idle
      <4>1. t # s /\ doing'[t] = doing[t]
        BY <2>1, <3>2
      <4>2. /\ t \notin overtaken
            /\ UNCHANGED <<member, request, invite, blocked>>
        BY <1>1, <1>6, <3>2, <4>1, WritesEnd
      <4> QED
        BY <1>2, <4>1, <4>2
    <3> QED
      BY <3>1, <3>2
  <2> QED
    BY <1>1, <2>2 DEF IInv, Remembered
<1> QED
  BY <1>3, <1>4, <1>5, <1>6 DEF Next, Background

LEMMA SoundAlways == Spec => []IInv
BY SoundInit, SoundNext, PTL DEF Spec

-----------------------------------------------------------------------------
(* The last owner. *)

\* The operations that change memberships leave an owner.
LEMMA WritesKeepOwner ==
    ASSUME IInv, OwnerRemains, NEW s \in Sessions, Writes(s), ~ByOvertaken
    PROVE  OwnerRemains'
<1>1. Typed /\ RememberedOf(doing[s])
  BY WriterRemembers DEF IInv
<1>2. \A u \in Users : member[u] \in MemberRow
  BY <1>1 DEF Typed, TypeOK
<1> SUFFICES ASSUME exists' PROVE \E u \in Users : IsOwner(u)'
  BY DEF OwnerRemains
<1>3. exists
  BY DEF Writes, Refuse, SubmitJoinRequest, WithdrawJoinRequest, ApproveJoinRequest,
         RejectJoinRequest, CreateInvite, RevokeInvite, AcceptInvite, BlockUser, UnblockUser,
         ChangeMemberRole, RemoveMember, LeaveWorkspace, TransferOwnership, AddMember,
         DeleteAccount, DeleteWorkspace, Doing
<1>4. PICK o \in Users : IsOwner(o)
  BY <1>3 DEF OwnerRemains
<1> USE <1>1, <1>2, Arguments DEF IsOwner, Member, Visible, Doing, Typed, TypeOK
<1>5. CASE UNCHANGED member
  BY <1>4, <1>5
<1>6. ASSUME NEW u \in Users, NEW role, Admit(u, role) PROVE IsOwner(o)'
  BY <1>4, <1>6 DEF Admit
<1>7. CASE ApproveJoinRequest(s)
  <2>1. doing[s].req \in Requests
    BY <1>7 DEF ApproveJoinRequest
  <2>2. request[doing[s].req].user \in Users
    BY <2>1 DEF RequestRow
  <2> QED
    BY <1>6, <1>7, <2>2 DEF ApproveJoinRequest
<1>8. CASE AcceptInvite(s)
  BY <1>6, <1>8 DEF AcceptInvite, Idle
<1>9. CASE ChangeMemberRole(s)
  <2>1. CASE doing[s].on # o \/ doing[s].role = Owner
    BY <1>4, <1>9, <2>1 DEF ChangeMemberRole
  <2>2. CASE doing[s].on = o /\ doing[s].role # Owner
    <3>1. PICK v \in Users \ {o} : IsOwner(v)
      BY <1>4, <1>9, <2>2 DEF ChangeMemberRole, RememberedOf, OtherOwners
    <3> QED
      BY <1>9, <2>2, <3>1 DEF ChangeMemberRole
  <2> QED
    BY <2>1, <2>2
<1>10. ASSUME NEW a, NEW t \in Users, Deactivate(a, t), IsOwner(t) => OtherOwners(t) # {}
      PROVE  \E u \in Users : IsOwner(u)'
  <2>1. PICK v \in Users \ {t} : IsOwner(v)
    BY <1>4, <1>10 DEF OtherOwners
  <2> QED
    BY <1>10, <2>1 DEF Deactivate
<1>11. CASE RemoveMember(s)
  BY <1>10, <1>11 DEF RemoveMember, RememberedOf
<1>12. CASE LeaveWorkspace(s)
  BY <1>10, <1>12 DEF LeaveWorkspace, MayRemove, Idle
<1>13. CASE TransferOwnership(s)
  <2>1. /\ doing[s].on \in Users /\ doing[s].by \in Users
        /\ Member(doing[s].on) /\ doing[s].on # doing[s].by
    BY <1>13 DEF TransferOwnership, RememberedOf, Idle
  <2>2. PICK role : member' = [member EXCEPT ![doing[s].by].role = role,
                                           ![doing[s].on].role = Owner]
    BY <1>13 DEF TransferOwnership
  <2>3. member'[doing[s].on] = [member[doing[s].on] EXCEPT !.role = Owner]
    BY <2>1, <2>2
  <2>4. member[doing[s].on] \in MemberRow /\ Owner # "NONE"
    BY <2>1 DEF Owner
  <2> QED
    BY <2>1, <2>3, <2>4 DEF MemberRow
<1>14. CASE AddMember(s)
  BY <1>4, <1>14 DEF AddMember
<1>15. CASE DeleteWorkspace(s)
  BY <1>15 DEF DeleteWorkspace
<1> QED
  BY <1>5, <1>7, <1>8, <1>9, <1>11, <1>12, <1>13, <1>14, <1>15
     DEF Writes, Refuse, SubmitJoinRequest, WithdrawJoinRequest, RejectJoinRequest, CreateInvite,
         RevokeInvite, BlockUser, UnblockUser, DeleteAccount

\* No other step takes a role away.
LEMMA OwnerStep ==
    ASSUME IInv, [Next]_vars
    PROVE  KeepsAnOwner
<1> SUFFICES ASSUME OwnerRemains, ~ByOvertaken PROVE OwnerRemains'
  BY DEF KeepsAnOwner
<1>1. Typed
  BY DEF IInv
<1>2. CASE UNCHANGED <<member, exists>>
  BY <1>2 DEF OwnerRemains, IsOwner, Member, Visible
<1>3. CASE Background
  BY <1>1, <1>3, BackgroundStanding, BackgroundKeeps DEF OwnerRemains
<1>4. ASSUME NEW s \in Sessions, Checks(s) PROVE OwnerRemains'
  BY <1>1, <1>2, <1>4, ChecksOnlyRemember
<1> QED
  BY <1>2, <1>3, <1>4, WritesKeepOwner DEF Next, Background, vars

\* change_member_role's and remove_member's promise, with any number of
\* requests at the same time: demotions, departures, transfers, the jobs and
\* time leave the workspace an owner, unless a request writes that another
\* has overtaken since its check.
THEOREM OwnersKept == Spec => OwnersRemain
<1>1. IInv /\ [Next]_vars => [KeepsAnOwner]_vars
  BY OwnerStep
<1> QED
  BY SoundAlways, <1>1, PTL DEF Spec, OwnersRemain

\* No two requests are between their check and their write, as when there is
\* one at a time, or each locks the workspace before it checks.
Apart == \A s, t \in Sessions : s # t => doing[s] = Idle \/ doing[t] = Idle

LEMMA ApartNext ==
    ASSUME IInv, Apart, overtaken = {}, [Next]_vars
    PROVE  overtaken' = {}
<1>1. Typed
  BY DEF IInv
<1>2. ASSUME NEW s \in Sessions, Writes(s) PROVE overtaken' = {}
  <2>1. \A t \in Sessions : doing[t] # Idle => t = s
    BY <1>2, WritersHaveChecked DEF Apart
  <2> QED
    BY <1>1, <1>2, <2>1, WritesEnd
<1> QED
  BY <1>1, <1>2, BackgroundKeeps, ChecksOnlyRemember DEF Next, Background, vars

\* Requests kept apart overtake nobody, so that the workspace has an owner
\* at all times.
THEOREM OwnerStays == Spec /\ []Apart => []OwnerRemains
<1>1. Init => OwnerRemains /\ overtaken = {}
  <2>1. PICK u \in Users : InitialRole[u] = Owner
    BY GovernanceAssumption
  <2>2. Init => IsOwner(u)
    <3> SUFFICES ASSUME Init PROVE IsOwner(u)
      OBVIOUS
    <3>1. member[u] = [NoRow EXCEPT !.role = Owner, !.active = TRUE]
      BY <2>1 DEF Init, Owner
    <3> QED
      BY <3>1 DEF IsOwner, Member, Visible, NoRow, Owner
  <2>3. Init => overtaken = {}
    BY Zenon DEF Init
  <2> QED
    BY <2>2, <2>3 DEF OwnerRemains
<1>2. /\ IInv /\ Apart /\ OwnerRemains /\ overtaken = {}
      /\ [Next]_vars
      => (OwnerRemains /\ overtaken = {})'
  BY ApartNext, OwnerStep DEF KeepsAnOwner, ByOvertaken
<1> QED
  BY SoundAlways, <1>1, <1>2, PTL DEF Spec

-----------------------------------------------------------------------------
(* The block list. *)

\* A request becomes PENDING only if its user is not blocked, and blocking him
\* decides the one he has.
LEMMA WritesKeepBlocked ==
    ASSUME IInv, NEW s \in Sessions, Writes(s), ~ByOvertaken,
           NEW u \in Users, ~OpenThoughBlocked(u)
    PROVE  ~OpenThoughBlocked(u)'
<1>1. Typed /\ RememberedOf(doing[s])
  BY WriterRemembers DEF IInv
<1>2. u \in blocked => \A r \in Requests :
         request[r].user = u => request[r].status # "PENDING"
  BY DEF OpenThoughBlocked, Pending
<1> SUFFICES ASSUME u \in blocked', NEW r \in Requests, request'[r].user = u
             PROVE  request'[r].status # "PENDING"
  BY DEF OpenThoughBlocked, Pending
<1> USE <1>1 DEF Doing, Typed, TypeOK
<1>3. CASE UNCHANGED <<request, blocked>>
  BY <1>2, <1>3
<1>4. ASSUME NEW q \in Requests, SubmitJoinRequest(s, q)
      PROVE  request'[r].status # "PENDING"
  BY <1>2, <1>4 DEF SubmitJoinRequest, RememberedOf, RequestRow
<1>5. CASE WithdrawJoinRequest(s)
  BY <1>2, <1>5 DEF WithdrawJoinRequest, RequestRow
<1>6. CASE ApproveJoinRequest(s)
  BY <1>2, <1>6 DEF ApproveJoinRequest, RequestRow
<1>7. CASE RejectJoinRequest(s)
  BY <1>2, <1>7 DEF RejectJoinRequest, RequestRow
<1>8. CASE BlockUser(s)
  <2>1. request[r] \in RequestRow
    OBVIOUS
  <2>2. CASE r \in Pending(doing[s].on)
    <3>1. request'[r] = [request[r] EXCEPT !.status = "REJECTED", !.recent = TRUE]
      BY <1>8, <2>2 DEF BlockUser
    <3> QED
      BY <2>1, <3>1 DEF RequestRow
  <2>3. CASE r \notin Pending(doing[s].on)
    <3>1. request'[r] = request[r] /\ blocked' = blocked \cup {doing[s].on}
      BY <1>8, <2>3 DEF BlockUser
    <3> QED
      BY <1>2, <2>3, <3>1 DEF Pending
  <2> QED
    BY <2>2, <2>3
<1>9. CASE UnblockUser(s)
  BY <1>2, <1>9 DEF UnblockUser
<1>10. CASE DeleteWorkspace(s)
  <2>1. blocked' = {}
    BY <1>10, Zenon DEF DeleteWorkspace
  <2> QED
    BY <2>1
<1> QED
  BY <1>3, <1>4, <1>5, <1>6, <1>7, <1>8, <1>9, <1>10
     DEF Writes, Refuse, CreateInvite, RevokeInvite, AcceptInvite, ChangeMemberRole,
         RemoveMember, LeaveWorkspace, TransferOwnership, AddMember, DeleteAccount

LEMMA BlockStep ==
    ASSUME IInv, [Next]_vars, NEW u \in Users
    PROVE  BlockHolds(u)
<1> SUFFICES ASSUME ~OpenThoughBlocked(u), ~ByOvertaken PROVE ~OpenThoughBlocked(u)'
  BY DEF BlockHolds
<1>1. Typed
  BY DEF IInv
<1>2. CASE UNCHANGED <<request, blocked>>
  BY <1>2 DEF OpenThoughBlocked, Pending
<1>3. CASE Background
  BY <1>1, <1>3, BackgroundKeeps DEF OpenThoughBlocked, Pending
<1>4. ASSUME NEW s \in Sessions, Checks(s) PROVE ~OpenThoughBlocked(u)'
  BY <1>1, <1>2, <1>4, ChecksOnlyRemember
<1> QED
  BY <1>2, <1>3, <1>4, WritesKeepBlocked DEF Next, Background, vars

\* block_user and submit_join_request together, with any number of requests at
\* the same time: a blocked user comes to have a request that could be approved
\* only if he was blocked while it was being submitted.
THEOREM BlocksKept == Spec => BlocksHold
<1>1. IInv /\ [Next]_vars => [\A u \in Users : BlockHolds(u)]_vars
  BY BlockStep
<1> QED
  BY SoundAlways, <1>1, PTL DEF Spec, BlocksHold

-----------------------------------------------------------------------------
(* What a step may never do. *)

\* A step takes an ownership away only on behalf of an owner.
LEMMA ProtectedStep ==
    ASSUME IInv, [Next]_vars, ~ByOvertaken, NEW u \in Users, IsOwner(u), ~IsOwner(u)'
    PROVE  \E s \in Sessions : doing[s] # Idle /\ IsOwner(doing[s].by)
<1>1. Typed /\ member[u] \in MemberRow
  BY DEF IInv, Typed, TypeOK
<1>2. ASSUME UNCHANGED member PROVE FALSE
  BY <1>2 DEF IsOwner, Member, Visible
<1>3. ~UNCHANGED vars
  BY <1>2 DEF vars
<1>4. ~Background
  BY <1>1, BackgroundStanding
<1>5. \A s \in Sessions : ~Checks(s)
  BY <1>1, <1>2, ChecksOnlyRemember
<1>6. PICK s \in Sessions : Writes(s)
  BY <1>3, <1>4, <1>5 DEF Next, Background
<1>7. RememberedOf(doing[s])
  BY <1>6, WriterRemembers
<1>8. ASSUME NEW v, NEW role, Admit(v, role) PROVE FALSE
  BY <1>1, <1>8 DEF Admit, IsOwner, Member, Visible, Typed, TypeOK
<1>9. ASSUME NEW a, NEW t, Deactivate(a, t) PROVE u = t
  BY <1>1, <1>9 DEF Deactivate, IsOwner, Member, Visible, Typed, TypeOK
<1> USE DEF Doing, Idle
<1>10. CASE ChangeMemberRole(s)
  <2>1. u = doing[s].on
    BY <1>1, <1>10 DEF ChangeMemberRole, IsOwner, Member, Visible, Typed, TypeOK
  <2> QED
    BY <1>7, <1>10, <2>1 DEF ChangeMemberRole, RememberedOf
<1>11. CASE RemoveMember(s)
  BY <1>7, <1>9, <1>11 DEF RemoveMember, RememberedOf
<1>12. CASE LeaveWorkspace(s)
  BY <1>9, <1>12 DEF LeaveWorkspace
<1>13. CASE TransferOwnership(s)
  BY <1>7, <1>13 DEF TransferOwnership, RememberedOf
<1>14. CASE DeleteWorkspace(s)
  <2>1. doing[s].op = "destroy"
    BY <1>14, Zenon DEF DeleteWorkspace
  <2> QED
    BY <1>7, <2>1 DEF RememberedOf
<1>15. ~AddMember(s)
  BY <1>1, <1>2 DEF AddMember, IsOwner, Member, Visible, Typed, TypeOK
<1>16. ~ApproveJoinRequest(s) /\ ~AcceptInvite(s)
  BY <1>8 DEF ApproveJoinRequest, AcceptInvite
<1> QED
  BY <1>2, <1>6, <1>10, <1>11, <1>12, <1>13, <1>14, <1>15, <1>16
     DEF Writes, Refuse, SubmitJoinRequest, WithdrawJoinRequest, RejectJoinRequest, CreateInvite,
         RevokeInvite, BlockUser, UnblockUser, DeleteAccount

\* "Managers cannot change the role of an organization owner" and "Owner role
\* cannot be removed", with any number of requests at the same time: an ownership
\* ends only by the request of somebody who is an owner when it is written, or
\* by one that was overtaken.
THEOREM OwnersProtected == Spec => OwnersAreProtected
<1>1. IInv /\ [Next]_vars => [\A u \in Users : EndsDuly(u)]_vars
  BY ProtectedStep DEF By, EndsDuly
<1> QED
  BY SoundAlways, <1>1, PTL DEF Spec, OwnersAreProtected

\* A step changes no decision, but for the end of the workspace.
LEMMA DecidedStep ==
    ASSUME IInv, [Next]_vars, ~ByOvertaken,
           NEW r \in Requests, request[r].status \in Decided, exists'
    PROVE  request'[r].status = request[r].status
<1>1. Typed /\ request[r] \in RequestRow
  BY DEF IInv, Typed, TypeOK
<1>2. CASE UNCHANGED request
  BY <1>2
<1>3. CASE Background
  BY <1>1, <1>3, BackgroundKeeps DEF Decided
<1>4. ASSUME NEW s \in Sessions, Checks(s) PROVE UNCHANGED request
  BY <1>1, <1>4, ChecksOnlyRemember
<1>5. ASSUME NEW s \in Sessions, Writes(s) PROVE request'[r].status = request[r].status
  <2>1. RememberedOf(doing[s])
    BY <1>5, WriterRemembers
  <2> USE <1>1 DEF Doing, Typed, TypeOK, Decided
  <2>2. ASSUME NEW q \in Requests, SubmitJoinRequest(s, q)
        PROVE  request'[r].status = request[r].status
    BY <2>2 DEF SubmitJoinRequest
  <2>3. CASE WithdrawJoinRequest(s) \/ ApproveJoinRequest(s) \/ RejectJoinRequest(s)
    <3>1. doing[s].req # r
      BY <2>1, <2>3 DEF RememberedOf, WithdrawJoinRequest, ApproveJoinRequest, RejectJoinRequest
    <3> QED
      BY <2>3, <3>1 DEF WithdrawJoinRequest, ApproveJoinRequest, RejectJoinRequest
  <2>4. CASE BlockUser(s)
    BY <2>4 DEF BlockUser, Pending
  <2>5. ~DeleteWorkspace(s)
    BY DEF DeleteWorkspace
  <2> QED
    BY <1>5, <1>2, <2>2, <2>3, <2>4, <2>5
       DEF Writes, Refuse, CreateInvite, RevokeInvite, AcceptInvite, UnblockUser,
           ChangeMemberRole, RemoveMember, LeaveWorkspace, TransferOwnership, AddMember,
           DeleteAccount
<1> QED
  BY <1>2, <1>3, <1>4, <1>5 DEF Next, Background, vars

\* "Only pending requests can be approved", rejected or withdrawn, with any
\* number of reviewers: a decision stands, whatever the expiry job does between
\* check and write; only a reviewer who was overtaken after his check undoes it.
THEOREM DecisionsFinal == Spec => DecisionsStand
<1>1. IInv /\ [Next]_vars => [\A r \in Requests : Stands(r)]_vars
  BY DecidedStep DEF Stands
<1> QED
  BY SoundAlways, <1>1, PTL DEF Spec, DecisionsStand

-----------------------------------------------------------------------------
(* Admission. *)

LEMMA AdmissionStep ==
    ASSUME IInv, [Next]_vars, ~ByOvertaken,
           NEW u \in Users, ~member[u].active, member'[u].active
    PROVE  Granted(u)
<1>1. Typed /\ member \in [Users -> MemberRow]
  BY DEF IInv, Typed, TypeOK
<1>2. ~UNCHANGED member
  OBVIOUS
<1>3. ~Background
  BY <1>1, BackgroundKeeps
<1>4. \A s \in Sessions : ~Checks(s)
  BY <1>1, <1>2, ChecksOnlyRemember
<1>5. PICK s \in Sessions : Writes(s)
  BY <1>2, <1>3, <1>4 DEF Next, Background, vars
<1>6. RememberedOf(doing[s])
  BY <1>5, WriterRemembers
<1>7. ASSUME NEW v, NEW role, Admit(v, role) PROVE u = v
  BY <1>1, <1>7 DEF Admit
<1>8. CASE ApproveJoinRequest(s)
  <2>1. doing[s].req \in Requests /\ doing[s].op = "approve"
    BY <1>1, <1>8, Arguments DEF ApproveJoinRequest, Doing
  <2>2. request[doing[s].req].user = u
    BY <1>7, <1>8 DEF ApproveJoinRequest
  <2>3. request[doing[s].req].status \in {"PENDING", "EXPIRED"}
    BY <1>6, <2>1 DEF RememberedOf
  <2>4. request'[doing[s].req].status = "APPROVED"
    BY <1>1, <1>8, <2>1 DEF ApproveJoinRequest, Typed, TypeOK, RequestRow
  <2> QED
    BY <2>1, <2>2, <2>3, <2>4 DEF Granted
<1>9. CASE AcceptInvite(s)
  <2>1. doing[s].inv \in Invites /\ doing[s].op = "accept"
    BY <1>1, <1>9, Arguments DEF AcceptInvite, Doing
  <2>2. doing[s].by = u
    BY <1>7, <1>9 DEF AcceptInvite
  <2>3. invite[doing[s].inv].status = "UNUSED" /\ u \in invite[doing[s].inv].to
    BY <1>6, <2>1, <2>2 DEF RememberedOf
  <2>4. invite'[doing[s].inv].status = "USED"
    BY <1>1, <1>9, <2>1 DEF AcceptInvite, Typed, TypeOK, InviteRow
  <2> QED
    BY <2>1, <2>3, <2>4 DEF Granted
<1>10. CASE AddMember(s)
  BY <1>6, <1>10 DEF AddMember, RememberedOf, Doing, Granted
<1>11. ~ChangeMemberRole(s)
  BY <1>1 DEF ChangeMemberRole, MemberRow
<1>12. ~RemoveMember(s) /\ ~LeaveWorkspace(s)
  BY <1>1 DEF RemoveMember, LeaveWorkspace, Deactivate, MemberRow
<1>13. ~TransferOwnership(s)
  BY <1>1 DEF TransferOwnership, MemberRow
<1>14. ~DeleteWorkspace(s)
  <2>1. DeleteWorkspace(s) => member'[u] = NoRow
    BY Zenon DEF DeleteWorkspace
  <2> QED
    BY <2>1 DEF NoRow
<1> QED
  BY <1>2, <1>5, <1>8, <1>9, <1>10, <1>11, <1>12, <1>13, <1>14
     DEF Writes, Refuse, SubmitJoinRequest, WithdrawJoinRequest, RejectJoinRequest, CreateInvite,
         RevokeInvite, BlockUser, UnblockUser, DeleteAccount

\* Nobody becomes active without a request of his own that nobody had decided,
\* an unused invite that is used up, or an admin, but by a request that another
\* has overtaken since its check; with any number of requests at the same time.
THEOREM AdmissionsGranted == Spec => AdmissionsAreGranted
<1>1. IInv /\ [Next]_vars => [\A u \in Users : Admitted(u)]_vars
  BY AdmissionStep DEF Admitted
<1> QED
  BY SoundAlways, <1>1, PTL DEF Spec, AdmissionsAreGranted
=============================================================================
