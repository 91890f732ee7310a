------------------------------ MODULE Membership ------------------------------
(***************************************************************************)
(* The memberships of one organization and the invitations to it.  A       *)
(* request reads its actor's role and then changes something by a later    *)
(* statement of the same READ COMMITTED transaction: other requests commit *)
(* in between.  What holds at that statement is its WHERE clause and the   *)
(* policies of row level security, which ask for the actor's role again;   *)
(* the API server's role is subject to them (docs/adr/0017).  A statement  *)
(* is a step, and waits for the rows that others have locked: those of a   *)
(* removal between its SELECT FOR UPDATE and its DELETE, and those of an   *)
(* acceptance between its selects and its insert.  Neither locks the       *)
(* membership of the one on whose authority it acts.                       *)
(***************************************************************************)
EXTENDS Naturals, FiniteSets

CONSTANTS
  Users,
  Creator,       \* who created the organization
  Requests,      \* requests in flight
  Invitations,   \* what stands for their ids
  Handoffs       \* the five-minute claims of invitations

ASSUME MembershipAssumption == Creator \in Users

VARIABLES
  role,          \* memberships
  request,       \* each transaction between its two statements
  invitation,    \* invitations
  handoff,       \* invite_handoffs: the invitation each was made for
  acceptance     \* who is redeeming each claim

memberVars == <<role, request, invitation, handoff, acceptance>>

None == "none"
ASSUME NoneIsNothing == None \notin Users \cup Invitations
Roles == {"Owner", "Admin", "Member"}
Operations == {"invite", "revoke", "role", "remove", "leave"}

(* "delete" is a removal that has locked its target: what it read last is  *)
(* the target's role then.  The authority is a history: the actor's or the *)
(* inviter's role at the statement that locked.                            *)
Idle == [op |-> None, actor |-> None, target |-> None, read |-> None, authority |-> None]
NoInvitation == [status |-> None, inviter |-> None, admitted |-> {}]
NoAcceptance == [user |-> None, authority |-> None]

MembershipTypeOK ==
  /\ role \in [Users -> Roles \cup {None}]
  /\ request \in [Requests ->
       [op : Operations \cup {"delete", None}, actor : Users \cup {None},
        target : Users \cup {None}, read : Roles \cup {None},
        authority : Roles \cup {None}]]
  /\ invitation \in [Invitations ->
       [status : {None, "pending", "closed", "accepted"},
        inviter : Users \cup {None}, admitted : SUBSET Users]]
  /\ handoff \in [Handoffs -> Invitations \cup {None}]
  /\ acceptance \in [Handoffs ->
       [user : Users \cup {None}, authority : Roles \cup {None}]]

IsMember(u) == role[u] # None
IsManager(u) == role[u] \in {"Owner", "Admin"}

(* Role.Allows, by operation.                                              *)
Allows(r, op) ==
  CASE op \in {"invite", "revoke", "remove"} -> r \in {"Owner", "Admin"}
    [] op = "role" -> r = "Owner"
    [] op = "leave" -> r \in {"Admin", "Member"}

(* A new organization has its creator as the owner.                        *)
MemberInit ==
  /\ role = [u \in Users |-> IF u = Creator THEN "Owner" ELSE None]
  /\ request = [r \in Requests |-> Idle]
  /\ invitation = [i \in Invitations |-> NoInvitation]
  /\ handoff = [h \in Handoffs |-> None]
  /\ acceptance = [h \in Handoffs |-> NoAcceptance]

-----------------------------------------------------------------------------
(* The first statement of a transaction: currentRole, without a lock.  A   *)
(* request that is refused here has done nothing and is not modelled.      *)
Check(r, op, u, v) ==
  /\ request[r] = Idle
  /\ Allows(role[u], op)
  /\ request' = [request EXCEPT ![r] =
       [Idle EXCEPT !.op = op, !.actor = u, !.target = v, !.read = role[u]]]
  /\ UNCHANGED <<role, invitation, handoff, acceptance>>

(* The handlers of an authenticated user's requests.                       *)
AskToInvite(r) == \E u \in Users : Check(r, "invite", u, u)
AskToRevoke(r) == \E u \in Users : Check(r, "revoke", u, u)
AskForRole(r) == \E u, v \in Users : Check(r, "role", u, v)
AskToRemove(r) == \E u, v \in Users : Check(r, "remove", u, v)
AskToLeave(r) == \E u \in Users : Check(r, "leave", u, u)

Done(r) == request' = [request EXCEPT ![r] = Idle]

(* It found no row, violated a constraint or a policy, or was cut off: the *)
(* transaction is rolled back.                                             *)
Fails(r) ==
  /\ request[r] # Idle
  /\ Done(r)
  /\ UNCHANGED <<role, invitation, handoff, acceptance>>

(* Defect: the SELECT of a removal locks nothing.                          *)
NotLocked(u) == FALSE

(* A removal holds the row of this membership until its transaction ends:  *)
(* whoever would write it, lock it or refer to it waits.                   *)
Locked(u) == \E r \in Requests : request[r].op = "delete" /\ request[r].target = u

(* An acceptance holds the invitation: other claims, acceptances and       *)
(* revocations of it wait.                                                 *)
InUse(i) == \E h \in Handoffs : handoff[h] = i /\ acceptance[h] # NoAcceptance

(* The policies of memberships and invitations.                            *)
MayUpdate(u) == role[u] = "Owner"
MayManage(u) == IsManager(u)
MayDelete(u, v) ==
  \/ IsManager(u) /\ role[v] = "Member"
  \/ role[u] = "Owner" /\ role[v] = "Admin"
  \/ u = v

CreateInvitation(r) ==
  /\ request[r].op = "invite"
  /\ MayManage(request[r].actor)
  /\ ~ Locked(request[r].actor)
  /\ \E i \in Invitations :
       /\ invitation[i] = NoInvitation
       /\ invitation' = [invitation EXCEPT ![i] =
            [NoInvitation EXCEPT !.status = "pending",
                                 !.inviter = request[r].actor]]
  /\ Done(r)
  /\ UNCHANGED <<role, handoff, acceptance>>

RevokeInvitation(r) ==
  /\ request[r].op = "revoke"
  /\ MayManage(request[r].actor)
  /\ \E i \in Invitations :
       /\ invitation[i].status = "pending"
       /\ ~ InUse(i)
       /\ invitation' = [invitation EXCEPT ![i].status = "closed"]
  /\ Done(r)
  /\ UNCHANGED <<role, handoff, acceptance>>

(* The row is updated unless it is the actor's own or the owner's by now.  *)
ChangeRole(r) ==
  /\ request[r].op = "role"
  /\ MayUpdate(request[r].actor)
  /\ request[r].target # request[r].actor
  /\ role[request[r].target] \in {"Admin", "Member"}
  /\ ~ Locked(request[r].target)
  /\ \E new \in {"Admin", "Member"} :
       role' = [role EXCEPT ![request[r].target] = new]
  /\ Done(r)
  /\ UNCHANGED <<invitation, handoff, acceptance>>

(* Invitations refer to the membership of their inviter, and nothing       *)
(* deletes them.  Other tables refer to memberships too: Fails.            *)
Referenced(u) == \E i \in Invitations : invitation[i].inviter = u

Delete(u) == role' = [role EXCEPT ![u] = None]

(* The target's row is selected FOR UPDATE, which the policy for updates   *)
(* allows the owner only; the actor's own is not locked.                   *)
SelectTarget(r) ==
  LET v == request[r].target IN
  /\ request[r].op = "remove"
  /\ MayUpdate(request[r].actor)
  /\ role[v] \in {"Admin", "Member"}
  /\ request[r].read = "Admin" => role[v] = "Member"
  /\ ~ Locked(v)
  /\ request' = [request EXCEPT ![r].op = "delete", ![r].read = role[v],
                               ![r].authority = role[request[r].actor]]
  /\ UNCHANGED <<role, invitation, handoff, acceptance>>

(* The policy for deletions is asked by the DELETE.  When it hides the row *)
(* nothing is deleted, and the removal is answered as if it were.          *)
RemoveMembership(r) ==
  LET u == request[r].actor
      v == request[r].target IN
  /\ request[r].op = "delete"
  /\ \/ MayDelete(u, v) /\ ~ Referenced(v) /\ Delete(v)
     \/ ~ MayDelete(u, v) /\ UNCHANGED role
  /\ Done(r)
  /\ UNCHANGED <<invitation, handoff, acceptance>>

(* Defect: no trigger.                                                     *)
RetainsNobody == TRUE

(* The deferred trigger memberships_retain_owner.                          *)
RetainsOwner == \E u \in Users : role'[u] = "Owner"

(* The row goes whatever its role is by now, unless it was the owner's.    *)
LeaveOrganization(r) ==
  LET u == request[r].actor IN
  /\ request[r].op = "leave"
  /\ MayDelete(u, u)
  /\ ~ Locked(u)
  /\ ~ Referenced(u)
  /\ Delete(u)
  /\ role[u] = "Owner" => RetainsOwner
  /\ Done(r)
  /\ UNCHANGED <<invitation, handoff, acceptance>>

(* transfer_organization_ownership locks both rows and decides again.  For *)
(* an actor who is no member any more the test of its role is NULL, which  *)
(* lets it pass: only a target who is the owner already survives the       *)
(* unique index, and nothing changes.                                      *)
TransferAllowed(u, v) == u # v /\ role[u] = "Owner" /\ IsMember(v)

TransferOwnership(u, v) ==
  /\ TransferAllowed(u, v)
  /\ ~ Locked(u) /\ ~ Locked(v)
  /\ role' = [role EXCEPT ![u] = "Admin", ![v] = "Owner"]
  /\ UNCHANGED <<request, invitation, handoff, acceptance>>

(* Defect: an invitation that was used up is redeemed again.               *)
RedeemableAgain(i) == invitation[i].status # None /\ IsManager(invitation[i].inviter)

(* A claim is refused unless the inviter could still invite; one token may *)
(* be claimed several times.                                               *)
Redeemable(i) == invitation[i].status = "pending" /\ IsManager(invitation[i].inviter)

ClaimInvitation(h, i) ==
  /\ handoff[h] = None
  /\ Redeemable(i)
  /\ ~ InUse(i)
  /\ handoff' = [handoff EXCEPT ![h] = i]
  /\ UNCHANGED <<role, request, invitation, acceptance>>

(* accept_member_invitation locks the handoff and the invitation, and      *)
(* reads the inviter's role without a lock, ...                            *)
LockInvitation(h, u) ==
  LET i == handoff[h] IN
  /\ i # None
  /\ acceptance[h] = NoAcceptance
  /\ Redeemable(i)
  /\ ~ InUse(i)
  /\ acceptance' = [acceptance EXCEPT ![h] =
       [user |-> u, authority |-> role[invitation[i].inviter]]]
  /\ UNCHANGED <<role, request, invitation, handoff>>

(* ... then inserts the membership, whatever the inviter is by now, and    *)
(* uses both up.  A user who is a member already keeps the role.           *)
AcceptInvitation(h) ==
  LET i == handoff[h]
      u == acceptance[h].user IN
  /\ acceptance[h] # NoAcceptance
  /\ role' = [role EXCEPT ![u] = IF IsMember(u) THEN @ ELSE "Member"]
  /\ invitation' = [invitation EXCEPT ![i].status = "accepted", ![i].admitted = @ \cup {u}]
  /\ handoff' = [handoff EXCEPT ![h] = None]
  /\ acceptance' = [acceptance EXCEPT ![h] = NoAcceptance]
  /\ UNCHANGED request

(* Its transaction is rolled back.                                         *)
AcceptanceFails(h) ==
  /\ acceptance[h] # NoAcceptance
  /\ acceptance' = [acceptance EXCEPT ![h] = NoAcceptance]
  /\ UNCHANGED <<role, request, invitation, handoff>>

(* 24 hours and 5 minutes have passed.  An acceptance goes by the time     *)
(* when it began: they end nothing that is in use.                         *)
InvitationExpires(i) ==
  /\ invitation[i].status = "pending"
  /\ ~ InUse(i)
  /\ invitation' = [invitation EXCEPT ![i].status = "closed"]
  /\ UNCHANGED <<role, request, handoff, acceptance>>

HandoffExpires(h) ==
  /\ handoff[h] # None
  /\ acceptance[h] = NoAcceptance
  /\ handoff' = [handoff EXCEPT ![h] = None]
  /\ UNCHANGED <<role, request, invitation, acceptance>>

MemberNext ==
  \/ \E r \in Requests :
       \/ AskToInvite(r) \/ AskToRevoke(r)
       \/ AskForRole(r) \/ AskToRemove(r) \/ AskToLeave(r)
       \/ Fails(r)
       \/ CreateInvitation(r) \/ RevokeInvitation(r)
       \/ ChangeRole(r) \/ LeaveOrganization(r)
       \/ SelectTarget(r) \/ RemoveMembership(r)
  \/ \E u, v \in Users : TransferOwnership(u, v)
  \/ \E h \in Handoffs, i \in Invitations : ClaimInvitation(h, i)
  \/ \E h \in Handoffs, u \in Users : LockInvitation(h, u)
  \/ \E h \in Handoffs : AcceptInvitation(h) \/ AcceptanceFails(h)
  \/ \E i \in Invitations : InvitationExpires(i)
  \/ \E h \in Handoffs : HandoffExpires(h)

MemberSpec == MemberInit /\ [][MemberNext]_memberVars

-----------------------------------------------------------------------------
(* There is an owner, and only one, however transfers, departures and role *)
(* changes that were checked earlier interleave.                           *)
OneOwner == \E u \in Users : \A v \in Users : (role[v] = "Owner") <=> (v = u)

Managers == {"Owner", "Admin"}

(* Nobody's membership is changed without authority.  One joins under an   *)
(* open invitation whose inviter was a manager when it was locked and is a *)
(* member still; one is removed by who was the owner when the row was      *)
(* locked and is a manager still, with the role that was looked at then,   *)
(* and an Admin only by the owner; one who is not the owner leaves; one's  *)
(* role is changed by the owner, who alone hands ownership over.           *)
Joined(h, u) ==
  /\ role[u] = None /\ role'[u] = "Member"
  /\ acceptance[h].user = u /\ acceptance[h].authority \in Managers
  /\ \E i \in Invitations :
       /\ invitation[i].status = "pending" /\ IsMember(invitation[i].inviter)
       /\ invitation'[i].status = "accepted" /\ u \in invitation'[i].admitted
Removed(r, u) ==
  /\ request[r].op = "delete" /\ request[r].target = u
  /\ request[r].authority = "Owner"
  /\ role[u] = request[r].read
  /\ \/ role[u] = "Member" /\ role[request[r].actor] \in Managers
     \/ role[u] = "Admin" /\ role[request[r].actor] = "Owner"
  /\ role'[u] = None
Left(r, u) ==
  /\ request[r].op = "leave" /\ request[r].actor = u
  /\ role[u] # "Owner" /\ role'[u] = None
RoleChanged(r, u) ==
  /\ request[r].op = "role" /\ request[r].target = u
  /\ role[request[r].actor] = "Owner"
  /\ role[u] \in {"Admin", "Member"} /\ role'[u] \in {"Admin", "Member"}
HandedOver(u) ==
  \/ role[u] = "Owner" /\ role'[u] = "Admin"
  \/ IsMember(u) /\ role'[u] = "Owner"
Authorized(u) ==
  \/ \E h \in Handoffs : Joined(h, u)
  \/ \E r \in Requests : Removed(r, u) \/ Left(r, u) \/ RoleChanged(r, u)
  \/ HandedOver(u)
AuthorityHeld ==
  [][\A u \in Users : role'[u] # role[u] => Authorized(u)]_memberVars

(* One invitation admits one user, although its token may be claimed again *)
(* and again, by different people, before one of them accepts.             *)
InvitationAdmitsOne ==
  \A i \in Invitations : \A u, v \in invitation[i].admitted : u = v
=============================================================================
