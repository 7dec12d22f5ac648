------------------------------ MODULE Governance ------------------------------
(***************************************************************************)
(* Membership of one organization workspace: join_governance_service.py,   *)
(* membership_service.py, the invite functions of organizations/services.py*)
(* and CustomUser.delete, up to the deletion of the workspace itself.      *)
(*                                                                         *)
(* Every service function first checks, in autocommit, and then writes,    *)
(* most of them inside transaction.atomic: a request is two steps, Check   *)
(* and the operation, and other requests and jobs may run in between.  On  *)
(* SQLite an atomic block that reads before it writes is serialized.       *)
(*                                                                         *)
(* Deadlines are not counted in days.  A row only knows whether it is past *)
(* its deadline, and Elapse lets one pass at any time.                     *)
(***************************************************************************)
EXTENDS Integers, FiniteSets

CONSTANTS
    Users,
    InitialRole,   \* the members at the start and their roles, "NONE" for the others
    Joiners,       \* the users that ask to join and are invited, added or blocked
    Roles,         \* the roles offered in invites and role changes
    Requests,      \* ids of the join requests that will be made
    Invites,       \* ids of the invites that will be made
    Sessions,      \* requests being served at the same time
    Leavers,       \* the users who delete their accounts
    RowsAge        \* whether the purge jobs run

Owner == "ORG_OWNER"
Admins == {Owner, "SOC_MANAGER"}
AllRoles == Admins \cup {"SOC_VIEWER"}

ASSUME GovernanceAssumption ==
    /\ InitialRole \in [Users -> AllRoles \cup {"NONE"}]
    /\ \E u \in Users : InitialRole[u] = Owner
    /\ Joiners \subseteq Users
    /\ Requests \subseteq Nat
    /\ Roles \subseteq AllRoles
    /\ Leavers \subseteq Users
    /\ RowsAge \in BOOLEAN

VARIABLES
    member,   \* the WorkspaceMembership row of each user, NoRow if there is none
    request,  \* the OrganizationJoinRequest rows
    invite,   \* the WorkspaceInvite rows
    blocked,  \* the users on the block list
    exists,   \* whether the Workspace row, on which all others depend, is there
    deleted,  \* the accounts that CustomUser.delete deactivated
    doing,    \* what each session has checked and not yet written
    overtaken \* history: the sessions whose check is older than another's write

vars == <<member, request, invite, blocked, exists, deleted, doing, overtaken>>

\* cooling: left_at is within LEFT_ORG_COOLDOWN_DAYS.
MemberRow == [role : AllRoles \cup {"NONE"}, active : BOOLEAN, archived : BOOLEAN,
              cooling : BOOLEAN]
NoRow == [role |-> "NONE", active |-> FALSE, archived |-> FALSE, cooling |-> FALSE]

Decided == {"APPROVED", "REJECTED", "WITHDRAWN"}

\* late: past expires_at.  recent: reviewed within the rejection cooldown.
RequestRow == [user : Users, late : BOOLEAN, recent : BOOLEAN,
               status : Decided \cup {"NONE", "PENDING", "EXPIRED"}]

\* One OrganizationBlockList row per user at most.
BlockRows == SUBSET Joiners

\* to: invited_user, or all of Joiners if that is NULL.
InviteRow == [to : SUBSET Joiners, role : AllRoles, late : BOOLEAN,
              status : {"NONE", "UNUSED", "USED"}]

Idle == [op |-> "none"]

Init ==
    /\ member = [u \in Users |->
                   IF InitialRole[u] = "NONE" THEN NoRow
                   ELSE [NoRow EXCEPT !.role = InitialRole[u], !.active = TRUE]]
    /\ request \in [Requests -> {[user |-> u, late |-> FALSE, recent |-> FALSE,
                                  status |-> "NONE"] : u \in Joiners}]
    /\ invite = [i \in Invites |-> [to |-> {}, role |-> "SOC_VIEWER", late |-> FALSE,
                                    status |-> "NONE"]]
    /\ blocked = {}
    /\ exists = TRUE
    /\ deleted = {}
    /\ doing = [s \in Sessions |-> Idle]
    /\ overtaken = {}

-----------------------------------------------------------------------------
(* What the checks read. *)

\* The default manager hides archived rows.
Visible(u) == member[u].role # "NONE" /\ ~member[u].archived
Member(u) == Visible(u) /\ member[u].active

\* can_invite_members and can_remove_members are granted to exactly these roles.
IsAdmin(u) == Member(u) /\ member[u].role \in Admins
IsOwner(u) == Member(u) /\ member[u].role = Owner
OtherOwners(u) == {v \in Users \ {u} : IsOwner(v)}

Pending(u) == {r \in Requests : request[r].user = u /\ request[r].status = "PENDING"}

\* A logged-in user u has passed the checks of an operation.  What happens to
\* accounts once the workspace is gone does not concern it.
Check(s, u, op) ==
    /\ exists
    /\ doing[s] = Idle
    /\ u \notin deleted
    /\ doing' = [doing EXCEPT ![s] = op]
    /\ UNCHANGED <<member, request, invite, blocked, exists, deleted, overtaken>>

\* Without the workspace every write fails on a missing row or a foreign key.
Doing(s, op) == exists /\ doing[s].op = op

\* The write is made, behind the back of all who have checked.
Finish(s) ==
    /\ doing' = [doing EXCEPT ![s] = Idle]
    /\ overtaken' = (overtaken \cup {t \in Sessions : doing[t] # Idle}) \ {s}

\* The transaction is refused: a check inside it, or the database, says no.
Refuse(s) ==
    /\ doing[s] # Idle
    /\ doing' = [doing EXCEPT ![s] = Idle]
    /\ overtaken' = overtaken \ {s}
    /\ UNCHANGED <<member, request, invite, blocked, exists, deleted>>

-----------------------------------------------------------------------------
(* Join requests. *)

\* Mutant: the block list is not consulted.
MaySubmitBlocked(u) ==
    /\ ~Member(u)
    /\ ~(member[u].cooling /\ ~member[u].active)
    /\ Pending(u) = {}

\* The workspace takes requests: it is not invite_only.
MaySubmit(u) ==
    /\ u \notin blocked
    /\ ~Member(u)
    /\ ~\E r \in Requests :
          request[r].user = u /\ request[r].status = "REJECTED" /\ request[r].recent
    /\ ~(member[u].cooling /\ ~member[u].active)
    /\ Pending(u) = {}

CheckSubmit(s, u) ==
    MaySubmit(u) /\ Check(s, u, [op |-> "submit", by |-> u])

\* The rows are numbered as they are made; a second PENDING row for the same
\* user is refused by a unique constraint.
SubmitJoinRequest(s, r) ==
    LET u == doing[s].by IN
    /\ Doing(s, "submit")
    /\ request[r].status = "NONE" /\ request[r].user = u
    /\ \A q \in Requests : q < r /\ request[q].user = u => request[q].status # "NONE"
    /\ Pending(u) = {}
    /\ request' = [request EXCEPT ![r].status = "PENDING"]
    /\ Finish(s)
    /\ UNCHANGED <<member, invite, blocked, exists, deleted>>

\* withdraw, approve and reject load the request and check it is PENDING.
CheckWithdraw(s, r) ==
    /\ request[r].status = "PENDING"
    /\ Check(s, request[r].user, [op |-> "withdraw", by |-> request[r].user, req |-> r])

WithdrawJoinRequest(s) ==
    /\ Doing(s, "withdraw")
    /\ request' = [request EXCEPT ![doing[s].req].status = "WITHDRAWN"]
    /\ Finish(s)
    /\ UNCHANGED <<member, invite, blocked, exists, deleted>>

\* Mutant: a request that was decided may be decided again.
MayReviewAny(a, r) == IsAdmin(a) /\ request[r].status # "NONE"

MayReview(a, r) == IsAdmin(a) /\ request[r].status = "PENDING"

CheckApprove(s, a, r) ==
    /\ MayReview(a, r)
    /\ ~request[r].late
    /\ request[r].user # a
    /\ Check(s, a, [op |-> "approve", by |-> a, req |-> r])

CheckReject(s, a, r) ==
    MayReview(a, r) /\ Check(s, a, [op |-> "reject", by |-> a, req |-> r])

\* Mutant: the role is not written.
AdmitWithoutRole(u, role) ==
    /\ ~member[u].active
    /\ member' = [member EXCEPT ![u].active = TRUE, ![u].cooling = FALSE]

\* Create the row, or reactivate it: left_at is cleared, is_archived is not.
Admit(u, role) ==
    /\ ~member[u].active
    /\ member' = [member EXCEPT ![u] = [@ EXCEPT !.role = role, !.active = TRUE,
                                                 !.cooling = FALSE]]

ApproveJoinRequest(s) ==
    LET r == doing[s].req IN
    /\ Doing(s, "approve")
    /\ request[r].user \notin blocked
    /\ Admit(request[r].user, "SOC_VIEWER")
    /\ request' = [request EXCEPT ![r].status = "APPROVED"]
    /\ Finish(s)
    /\ UNCHANGED <<invite, blocked, exists, deleted>>

RejectJoinRequest(s) ==
    LET r == doing[s].req IN
    /\ Doing(s, "reject")
    /\ request' = [request EXCEPT ![r].status = "REJECTED", ![r].recent = TRUE]
    /\ Finish(s)
    /\ UNCHANGED <<member, invite, blocked, exists, deleted>>

-----------------------------------------------------------------------------
(* Invites and the block list. *)

CheckCreateInvite(s, a, to, role) ==
    IsAdmin(a) /\ Check(s, a, [op |-> "invite", by |-> a, to |-> to, role |-> role])

CreateInvite(s, i) ==
    /\ Doing(s, "invite")
    /\ invite[i].status = "NONE"
    /\ invite' = [invite EXCEPT ![i] = [to |-> doing[s].to, role |-> doing[s].role,
                                        late |-> FALSE, status |-> "UNUSED"]]
    /\ Finish(s)
    /\ UNCHANGED <<member, request, blocked, exists, deleted>>

CheckRevokeInvite(s, a, i) ==
    /\ IsAdmin(a)
    /\ invite[i].status = "UNUSED"
    /\ Check(s, a, [op |-> "revoke", by |-> a, inv |-> i])

RevokeInvite(s) ==
    /\ Doing(s, "revoke")
    /\ invite' = [invite EXCEPT ![doing[s].inv].status = "USED"]
    /\ Finish(s)
    /\ UNCHANGED <<member, request, blocked, exists, deleted>>

\* Mutant: a used invite is accepted again.
MayAcceptUsed(u, i) == invite[i].status # "NONE" /\ ~invite[i].late /\ u \in invite[i].to

MayAccept(u, i) == invite[i].status = "UNUSED" /\ ~invite[i].late /\ u \in invite[i].to

CheckAcceptInvite(s, u, i) ==
    MayAccept(u, i) /\ Check(s, u, [op |-> "accept", by |-> u, inv |-> i])

AcceptInvite(s) ==
    LET i == doing[s].inv IN
    /\ Doing(s, "accept")
    /\ Admit(doing[s].by, invite[i].role)
    /\ invite' = [invite EXCEPT ![i].status = "USED"]
    /\ Finish(s)
    /\ UNCHANGED <<request, blocked, exists, deleted>>

CheckBlock(s, a, t, op) ==
    op \in {"block", "unblock"} /\ IsAdmin(a) /\ Check(s, a, [op |-> op, by |-> a, on |-> t])

\* Membership is left alone; the user's pending request is rejected.
BlockUser(s) ==
    LET t == doing[s].on IN
    /\ Doing(s, "block")
    /\ blocked' = blocked \cup {t}
    /\ request' = [r \in Requests |->
                     IF r \in Pending(t)
                     THEN [request[r] EXCEPT !.status = "REJECTED", !.recent = TRUE]
                     ELSE request[r]]
    /\ Finish(s)
    /\ UNCHANGED <<member, invite, exists, deleted>>

UnblockUser(s) ==
    /\ Doing(s, "unblock")
    /\ blocked' = blocked \ {doing[s].on}
    /\ Finish(s)
    /\ UNCHANGED <<member, request, invite, exists, deleted>>

-----------------------------------------------------------------------------
(* Members. *)

\* WorkspaceMembership.clean and save: an organization takes every role but that
\* of a personal owner and lets its owners be downgraded; a row that is gone
\* meanwhile cannot be updated.
MaySave(u, role) == member[u] # NoRow /\ role \in AllRoles

\* Mutant: managers may change owners' roles, and the last owner's too.
MayChangeRoleAny(a, t, role) == IsAdmin(a) /\ Visible(t)

\* change_member_role also takes inactive rows (the API loads them by id).
MayChangeRole(a, t, role) ==
    /\ IsAdmin(a)
    /\ Visible(t)
    /\ member[t].role = Owner => IsOwner(a)
    /\ member[t].role = Owner /\ role # Owner => OtherOwners(t) # {}

CheckChangeRole(s, a, t, role) ==
    /\ MayChangeRole(a, t, role)
    /\ Check(s, a, [op |-> "role", by |-> a, on |-> t, role |-> role])

ChangeMemberRole(s) ==
    LET t == doing[s].on IN
    /\ Doing(s, "role")
    /\ MaySave(t, doing[s].role)
    /\ member' = [member EXCEPT ![t].role = doing[s].role]
    /\ Finish(s)
    /\ UNCHANGED <<request, invite, blocked, exists, deleted>>

\* Mutant: owners may always leave.
MayRemoveLast(a, t) ==
    /\ IsAdmin(a)
    /\ Member(t)
    /\ member[t].role = Owner => a = t

\* remove_member: an owner is removed only by himself, and not as the last.
MayRemove(a, t) ==
    /\ IsAdmin(a)
    /\ Member(t)
    /\ member[t].role = Owner => a = t /\ OtherOwners(t) # {}

Deactivate(a, t) ==
    member' = [member EXCEPT ![t].active = FALSE, ![t].cooling = @ \/ a = t]

\* remove_member_service calls it outside a transaction.
CheckRemove(s, a, t) ==
    MayRemove(a, t) /\ Check(s, a, [op |-> "remove", by |-> a, on |-> t])

RemoveMember(s) ==
    LET t == doing[s].on IN
    /\ Doing(s, "remove")
    /\ MaySave(t, member[t].role)
    /\ Deactivate(doing[s].by, t)
    /\ Finish(s)
    /\ UNCHANGED <<request, invite, blocked, exists, deleted>>

\* leave_workspace calls it inside one.
CheckLeave(s, u) == Member(u) /\ Check(s, u, [op |-> "leave", by |-> u])

LeaveWorkspace(s) ==
    LET u == doing[s].by IN
    /\ Doing(s, "leave")
    /\ MayRemove(u, u)
    /\ Deactivate(u, u)
    /\ Finish(s)
    /\ UNCHANGED <<request, invite, blocked, exists, deleted>>

CheckTransfer(s, a, n, downgrade) ==
    /\ IsOwner(a)
    /\ Member(n)
    /\ n # a
    /\ Check(s, a, [op |-> "transfer", by |-> a, on |-> n, downgrade |-> downgrade])

TransferOwnership(s) ==
    LET a == doing[s].by
        n == doing[s].on
    IN  /\ Doing(s, "transfer")
        /\ doing[s].downgrade => MaySave(a, "SOC_MANAGER")
        /\ MaySave(n, Owner)
        /\ member' = [member EXCEPT
                        ![a].role = IF doing[s].downgrade THEN "SOC_MANAGER" ELSE @,
                        ![n].role = Owner]
        /\ Finish(s)
        /\ UNCHANGED <<request, invite, blocked, exists, deleted>>

CheckAddMember(s, a, t, role) ==
    /\ IsAdmin(a)
    /\ role # Owner
    /\ Check(s, a, [op |-> "add", by |-> a, on |-> t, role |-> role])

\* get_or_create: an active member is left as it is, an archived row makes it
\* fail, an inactive one is reactivated and keeps its left_at.
AddMember(s) ==
    LET t == doing[s].on IN
    /\ Doing(s, "add")
    /\ ~member[t].archived
    /\ member' = IF member[t].active THEN member
                 ELSE [member EXCEPT ![t].active = TRUE, ![t].role = doing[s].role]
    /\ Finish(s)
    /\ UNCHANGED <<request, invite, blocked, exists, deleted>>

\* delete_workspace, from the organization's page: any owner may, unless cases
\* protect the workspace, which is a Refuse.
CheckDeleteWorkspace(s, a) ==
    IsOwner(a) /\ Check(s, a, [op |-> "destroy", by |-> a])

\* The rows that refer to the workspace go with it.
DeleteWorkspace(s) ==
    /\ Doing(s, "destroy")
    /\ exists' = FALSE
    /\ member' = [u \in Users |-> NoRow]
    /\ request' = [r \in Requests |-> [request[r] EXCEPT !.status = "NONE",
                                       !.late = FALSE, !.recent = FALSE]]
    /\ invite' = [i \in Invites |-> [invite[i] EXCEPT !.status = "NONE"]]
    /\ blocked' = {}
    /\ Finish(s)
    /\ UNCHANGED deleted

\* CustomUser.delete: the other owners it looks for are memberships, whatever
\* became of their accounts.
CheckDeleteAccount(s, u) ==
    /\ u \in Leavers
    /\ IsOwner(u) => OtherOwners(u) # {}
    /\ Check(s, u, [op |-> "delete", by |-> u])

DeleteAccount(s) ==
    /\ doing[s].op = "delete"
    /\ deleted' = deleted \cup {doing[s].by}
    /\ Finish(s)
    /\ UNCHANGED <<member, request, invite, blocked, exists>>

-----------------------------------------------------------------------------
(* The jobs and the passing of time. *)

\* Mutant: the job expires requests that still have time.
OverdueReversed == {r \in Requests : request[r].status = "PENDING" /\ ~request[r].late}

Overdue == {r \in Requests : request[r].status = "PENDING" /\ request[r].late}

ExpireOldJoinRequests ==
    /\ Overdue # {}
    /\ request' = [r \in Requests |->
                     IF r \in Overdue THEN [request[r] EXCEPT !.status = "EXPIRED"]
                                      ELSE request[r]]
    /\ UNCHANGED <<member, invite, blocked, exists, deleted, doing, overtaken>>

\* purge_expired_memberships, of the rows S deactivated more than 30 days ago.
PurgeExpiredMemberships(S) ==
    /\ RowsAge
    /\ S # {}
    /\ \A u \in S : Visible(u) /\ ~member[u].active /\ ~member[u].cooling
    /\ member' = [u \in Users |->
                    IF u \in S THEN [member[u] EXCEPT !.archived = TRUE] ELSE member[u]]
    /\ UNCHANGED <<request, invite, blocked, exists, deleted, doing, overtaken>>

\* hard_delete_archived_memberships, of the rows S archived long ago, active or not.
HardDeleteArchived(S) ==
    /\ RowsAge
    /\ S # {}
    /\ \A u \in S : member[u].archived
    /\ member' = [u \in Users |-> IF u \in S THEN NoRow ELSE member[u]]
    /\ UNCHANGED <<request, invite, blocked, exists, deleted, doing, overtaken>>

\* A request reaches its expiry, which nobody reads once it is decided.
RequestAges(r) ==
    /\ request[r].status = "PENDING" /\ ~request[r].late
    /\ request' = [request EXCEPT ![r].late = TRUE]
    /\ UNCHANGED <<member, invite, blocked, exists, deleted, doing, overtaken>>

Elapse ==
    /\ UNCHANGED <<blocked, exists, deleted, doing, overtaken>>
    /\ \/ \E r \in Requests :
             /\ request[r].recent
             /\ request' = [request EXCEPT ![r].recent = FALSE]
             /\ UNCHANGED <<member, invite>>
       \/ \E i \in Invites :
             /\ invite[i].status = "UNUSED" /\ ~invite[i].late
             /\ invite' = [invite EXCEPT ![i].late = TRUE]
             /\ UNCHANGED <<member, request>>
       \/ \E u \in Users :
             /\ member[u].cooling
             /\ member' = [member EXCEPT ![u].cooling = FALSE]
             /\ UNCHANGED <<request, invite>>

Jobs ==
    \/ ExpireOldJoinRequests
    \/ \E S \in SUBSET Users : PurgeExpiredMemberships(S)
    \/ \E S \in SUBSET Users : HardDeleteArchived(S)

-----------------------------------------------------------------------------
Checks(s) ==
    \/ \E u \in Joiners : CheckSubmit(s, u)
    \/ \E u \in Users : CheckLeave(s, u) \/ CheckDeleteAccount(s, u) \/ CheckDeleteWorkspace(s, u)
    \/ \E r \in Requests : CheckWithdraw(s, r)
    \/ \E a \in Users, r \in Requests : CheckApprove(s, a, r) \/ CheckReject(s, a, r)
    \/ \E a \in Users, role \in Roles, to \in {{u} : u \in Joiners} \cup {Joiners} :
          CheckCreateInvite(s, a, to, role)
    \/ \E a \in Users, i \in Invites : CheckRevokeInvite(s, a, i)
    \/ \E u \in Joiners, i \in Invites : CheckAcceptInvite(s, u, i)
    \/ \E a \in Users, t \in Joiners : CheckBlock(s, a, t, "block") \/ CheckBlock(s, a, t, "unblock")
    \/ \E a, t \in Users : CheckRemove(s, a, t)
    \/ \E a, t \in Users, role \in Roles : CheckChangeRole(s, a, t, role)
    \/ \E a, n \in Users, downgrade \in BOOLEAN : CheckTransfer(s, a, n, downgrade)
    \/ \E a \in Users, t \in Joiners, role \in Roles : CheckAddMember(s, a, t, role)

Writes(s) ==
    \/ Refuse(s)
    \/ \E r \in Requests : SubmitJoinRequest(s, r)
    \/ WithdrawJoinRequest(s) \/ ApproveJoinRequest(s) \/ RejectJoinRequest(s)
    \/ \E i \in Invites : CreateInvite(s, i)
    \/ RevokeInvite(s) \/ AcceptInvite(s)
    \/ BlockUser(s) \/ UnblockUser(s)
    \/ ChangeMemberRole(s) \/ RemoveMember(s) \/ LeaveWorkspace(s)
    \/ TransferOwnership(s) \/ AddMember(s) \/ DeleteAccount(s)
    \/ DeleteWorkspace(s)

Next ==
    \/ \E s \in Sessions : Checks(s) \/ Writes(s)
    \/ Jobs
    \/ \E r \in Requests : RequestAges(r)
    \/ Elapse

Spec == Init /\ [][Next]_vars

\* Time passes, and cron runs the expiry every day.
FairSpec ==
    /\ Spec
    /\ \A r \in Requests : WF_vars(RequestAges(r))
    /\ WF_vars(ExpireOldJoinRequests)

-----------------------------------------------------------------------------
(* Properties. *)

\* Every row holds values of its columns' types.
TypeOK ==
    /\ member \in [Users -> MemberRow]
    /\ \A u \in Users : member[u].active => member[u].role # "NONE"
    /\ request \in [Requests -> RequestRow]
    /\ invite \in [Invites -> InviteRow]
    /\ blocked \in BlockRows
    /\ exists \in BOOLEAN
    /\ deleted \subseteq Users
    /\ overtaken \subseteq Sessions

\* A request writes although another has written since it checked.  Nothing in
\* the code prevents it; that nothing else does harm is what the checks are for.
ByOvertaken == \E s \in overtaken : doing[s] # Idle /\ doing'[s] = Idle

\* change_member_role's "Cannot downgrade the last organization owner" and
\* remove_member's "You must assign another Organization Owner before leaving":
\* whatever members, jobs and time do, the workspace loses its last owner only
\* by a request that was overtaken after its check.
OwnerRemains == exists => \E u \in Users : IsOwner(u)
KeepsAnOwner == OwnerRemains => OwnerRemains' \/ ByOvertaken
OwnersRemain == [][KeepsAnOwner]_vars

\* CustomUser.delete's "If user is last ORG_OWNER in any organization, raise":
\* the workspace keeps an owner who can still log in.
OwnerCanLogIn == exists => \E u \in Users \ deleted : IsOwner(u)

\* approve_join_request's "create/reactivate membership": a member can be seen
\* by the default manager, and so can use the workspace, be removed or promoted.
ActiveIsVisible == \A u \in Users : member[u].active => ~member[u].archived

\* block_user's "Auto-rejects any PENDING join request" together with
\* submit_join_request's check: a blocked user has no request to approve, and
\* comes to have one only by a submission overtaken after its check.
OpenThoughBlocked(u) == u \in blocked /\ Pending(u) # {}
BlockHolds(u) == OpenThoughBlocked(u)' => OpenThoughBlocked(u) \/ ByOvertaken
BlocksHold == [][\A u \in Users : BlockHolds(u)]_vars

\* The user of some session, when it writes.
By(P(_)) == \E s \in Sessions : doing[s] # Idle /\ P(doing[s].by)

\* "Managers cannot change the role of an organization owner" and "Owner role
\* cannot be removed": only the request of somebody who is an owner when it is
\* written ends an ownership, or one overtaken after its check.
EndsDuly(u) == IsOwner(u) /\ ~IsOwner(u)' => By(IsOwner) \/ ByOvertaken
OwnersAreProtected == [][\A u \in Users : EndsDuly(u)]_vars

\* "Only pending requests can be approved", rejected or withdrawn: a decision
\* stands, as long as the workspace does, but against a reviewer who was
\* overtaken after his check.
Stands(r) ==
    request[r].status \in Decided /\ exists' =>
        request'[r].status = request[r].status \/ ByOvertaken
DecisionsStand == [][\A r \in Requests : Stands(r)]_vars

\* A user becomes active only by a request of his own that nobody has decided
\* and that is approved, by an invite for him that was unused and is used up in
\* the same step, as added by an admin, or by a request overtaken after its
\* check.  (The job may expire the request while approve_join_request runs: the
\* approval then goes through.)
Granted(u) ==
    \/ \E r \in Requests : /\ request[r].user = u
                           /\ request[r].status \in {"PENDING", "EXPIRED"}
                           /\ request'[r].status = "APPROVED"
    \/ \E i \in Invites : /\ u \in invite[i].to
                          /\ invite[i].status = "UNUSED" /\ invite'[i].status = "USED"
    \/ \E s \in Sessions : Doing(s, "add") /\ IsAdmin(doing[s].by)
Admitted(u) == ~member[u].active /\ member'[u].active => Granted(u) \/ ByOvertaken
AdmissionsAreGranted == [][\A u \in Users : Admitted(u)]_vars

\* The daily job leaves no request pending for ever: it is decided or expires.
RequestsAreSettled ==
    \A r \in Requests : request[r].status = "PENDING" ~> request[r].status # "PENDING"
=============================================================================
