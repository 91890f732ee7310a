------------------------ MODULE OrganizationProofs ------------------------
(***************************************************************************)
(* Memberships and the Drive connection together, for any number of users, *)
(* requests, invitations, authorizations and calls.  An invitation admits  *)
(* one user because it is used up by the first; an owner remains because   *)
(* the only statements that touch the owner's row are the transfer, which  *)
(* locks it, and the departure, which the deferred trigger refuses.  What  *)
(* a removal or an acceptance has locked stays what it looked at.  A late  *)
(* refusal is harmless because a generation has one token.                 *)
(***************************************************************************)
EXTENDS DriveConnection, FiniteSetTheorems, TLAPS

(* Only an invitation that is used up has admitted anybody.                *)
AdmittedByAccepted ==
  \A i \in Invitations : invitation[i].admitted # {} => invitation[i].status = "accepted"

MemberCore ==
  /\ MembershipTypeOK
  /\ OneOwner
  /\ AdmittedByAccepted
  /\ InvitationAdmitsOne

RequestRow ==
  [op : Operations \cup {"delete", None}, actor : Users \cup {None},
   target : Users \cup {None}, read : Roles \cup {None}, authority : Roles \cup {None}]
InvitationRow ==
  [status : {None, "pending", "closed", "accepted"},
   inviter : Users \cup {None}, admitted : SUBSET Users]
AcceptanceRow == [user : Users \cup {None}, authority : Roles \cup {None}]

(* A request is somebody's, and what it writes is somebody's.              *)
RequestsNamed ==
  \A r \in Requests : request[r].op # None =>
    request[r].actor \in Users /\ request[r].target \in Users

(* Of a row that a removal has locked, the role is what was read under the *)
(* owner's policy, and no other removal has it.                            *)
LocksHold ==
  \A r \in Requests : request[r].op = "delete" =>
    /\ request[r].authority = "Owner"
    /\ request[r].actor # request[r].target
    /\ request[r].read \in {"Admin", "Member"}
    /\ role[request[r].target] = request[r].read
    /\ \A s \in Requests :
         request[s].op = "delete" /\ request[s].target = request[r].target => s = r

(* An invitation that is being redeemed is open, by one claim, and was     *)
(* vouched for.                                                            *)
AcceptancesHold ==
  \A h \in Handoffs : acceptance[h] # NoAcceptance =>
    /\ acceptance[h].user \in Users /\ acceptance[h].authority \in Managers
    /\ handoff[h] \in Invitations /\ invitation[handoff[h]].status = "pending"
    /\ \A g \in Handoffs :
         acceptance[g] # NoAcceptance /\ handoff[g] = handoff[h] => g = h

(* Who has invited is a member for good.                                   *)
InvitersStay ==
  \A i \in Invitations : invitation[i].status # None =>
    invitation[i].inviter \in Users /\ IsMember(invitation[i].inviter)

MemberInv == MemberCore /\ RequestsNamed /\ LocksHold /\ AcceptancesHold /\ InvitersStay

-----------------------------------------------------------------------------
LEMMA MemberInitInv == MemberInit => MemberInv
<1> SUFFICES ASSUME MemberInit PROVE MemberInv
  OBVIOUS
<1>1. MembershipTypeOK
  BY MembershipAssumption
     DEF MemberInit, MembershipTypeOK, Idle, NoInvitation, NoAcceptance, Roles
<1>2. OneOwner
  BY MembershipAssumption DEF MemberInit, OneOwner, None
<1>3. AdmittedByAccepted /\ InvitationAdmitsOne
  BY DEF MemberInit, AdmittedByAccepted, InvitationAdmitsOne, NoInvitation
<1>4. RequestsNamed /\ LocksHold
  BY DEF MemberInit, RequestsNamed, LocksHold, Idle, None
<1>5. AcceptancesHold /\ InvitersStay
  BY DEF MemberInit, AcceptancesHold, InvitersStay, NoInvitation
<1> QED BY <1>1, <1>2, <1>3, <1>4, <1>5 DEF MemberCore, MemberInv

(* The owner's row is as it was, and nobody else's becomes an owner's.     *)
LEMMA OwnerStays ==
  ASSUME OneOwner, NEW u \in Users, NEW x \in {"Admin", "Member", None},
         role \in [Users -> Roles \cup {None}],
         role[u] # "Owner", role' = [role EXCEPT ![u] = x]
  PROVE  OneOwner' /\ role' \in [Users -> Roles \cup {None}]
BY DEF OneOwner, Roles, None

(* A transaction ends.                                                     *)
LEMMA DoneTyped ==
  ASSUME MemberCore, NEW r \in Requests, Done(r)
  PROVE  /\ request' \in [Requests -> RequestRow]
         /\ request'[r] = Idle
BY DEF MemberCore, MembershipTypeOK, Done, Idle, RequestRow

LEMMA CheckKeeps ==
  ASSUME MemberCore, NEW r \in Requests, NEW op \in Operations,
         NEW u \in Users, NEW v \in Users, Check(r, op, u, v)
  PROVE  MemberCore' /\ UNCHANGED role
<1>1. role[u] \in Roles \cup {None}
  BY DEF MemberCore, MembershipTypeOK
<1>2. request' \in [Requests -> RequestRow]
  BY <1>1 DEF Check, Idle, MemberCore, MembershipTypeOK, RequestRow
<1> QED BY <1>2 DEF Check, MemberCore, MembershipTypeOK, RequestRow, OneOwner,
     AdmittedByAccepted, InvitationAdmitsOne

LEMMA AskKeeps ==
  ASSUME MemberCore, NEW r \in Requests,
         \/ AskToInvite(r) \/ AskToRevoke(r)
         \/ AskForRole(r) \/ AskToRemove(r) \/ AskToLeave(r)
  PROVE  MemberCore' /\ UNCHANGED role
<1>1. PICK op \in Operations, u \in Users, v \in Users : Check(r, op, u, v)
  BY DEF Operations, AskToInvite, AskToRevoke, AskForRole, AskToRemove, AskToLeave
<1> QED BY <1>1, CheckKeeps

(* A step that changes no invitation and leaves an owner.                  *)
LEMMA RoleStep ==
  ASSUME MemberCore, UNCHANGED <<invitation, handoff, acceptance>>,
         role' \in [Users -> Roles \cup {None}],
         request' \in [Requests -> RequestRow], OneOwner'
  PROVE  MemberCore'
BY DEF MemberCore, MembershipTypeOK, RequestRow, AdmittedByAccepted, InvitationAdmitsOne

LEMMA FailsKeeps ==
  ASSUME MemberCore, NEW r \in Requests, Fails(r)
  PROVE  MemberCore' /\ UNCHANGED role
<1>1. request' \in [Requests -> RequestRow]
  BY DoneTyped DEF Fails
<1>2. OneOwner'
  BY DEF Fails, MemberCore, OneOwner
<1> QED BY <1>1, <1>2, RoleStep DEF Fails, MemberCore, MembershipTypeOK

(* A step that changes one invitation, and nobody's role.                  *)
LEMMA InvitationStep ==
  ASSUME MemberCore, NEW i \in Invitations, NEW row \in InvitationRow,
         row.admitted # {} => row.status = "accepted",
         \A u, v \in row.admitted : u = v,
         invitation' = [invitation EXCEPT ![i] = row],
         role' \in [Users -> Roles \cup {None}], OneOwner',
         request' \in [Requests -> RequestRow],
         handoff' \in [Handoffs -> Invitations \cup {None}],
         acceptance' \in [Handoffs -> AcceptanceRow]
  PROVE  MemberCore'
<1>1. /\ invitation' \in [Invitations -> InvitationRow]
      /\ invitation'[i] = row
      /\ \A j \in Invitations \ {i} : invitation'[j] = invitation[j]
  BY DEF MemberCore, MembershipTypeOK, InvitationRow
<1>2. MembershipTypeOK'
  BY <1>1 DEF MembershipTypeOK, InvitationRow, RequestRow, AcceptanceRow
<1>3. AdmittedByAccepted' /\ InvitationAdmitsOne'
  BY <1>1 DEF MemberCore, AdmittedByAccepted, InvitationAdmitsOne
<1> QED BY <1>2, <1>3 DEF MemberCore

LEMMA InvitationTyped ==
  ASSUME MemberCore, NEW i \in Invitations
  PROVE  /\ invitation[i] \in InvitationRow
         /\ invitation[i].status # "accepted" => invitation[i].admitted = {}
BY DEF MemberCore, MembershipTypeOK, AdmittedByAccepted, InvitationRow

LEMMA CreateInvitationKeeps ==
  ASSUME MemberCore, NEW r \in Requests, CreateInvitation(r)
  PROVE  MemberCore' /\ UNCHANGED role
<1>1. PICK i \in Invitations :
        invitation' = [invitation EXCEPT ![i] =
          [NoInvitation EXCEPT !.status = "pending", !.inviter = request[r].actor]]
  BY DEF CreateInvitation
<1> DEFINE row == [NoInvitation EXCEPT !.status = "pending", !.inviter = request[r].actor]
<1>2. request[r].actor \in Users \cup {None}
  BY DEF MemberCore, MembershipTypeOK
<1>3. row \in InvitationRow /\ row.admitted = {}
  BY <1>2 DEF NoInvitation, InvitationRow
<1>4. request' \in [Requests -> RequestRow]
  BY DoneTyped DEF CreateInvitation
<1>5. /\ UNCHANGED <<role, handoff>> /\ OneOwner'
      /\ role' \in [Users -> Roles \cup {None}]
      /\ handoff' \in [Handoffs -> Invitations \cup {None}]
      /\ acceptance' \in [Handoffs -> AcceptanceRow]
  BY DEF CreateInvitation, MemberCore, MembershipTypeOK, OneOwner, AcceptanceRow
<1> HIDE DEF row
<1> QED BY <1>1, <1>3, <1>4, <1>5, InvitationStep DEF row

(* An open invitation is closed.                                           *)
LEMMA CloseKeeps ==
  ASSUME MemberCore, NEW i \in Invitations, invitation[i].status = "pending",
         invitation' = [invitation EXCEPT ![i].status = "closed"],
         UNCHANGED <<role, handoff, acceptance>>, request' \in [Requests -> RequestRow]
  PROVE  MemberCore' /\ UNCHANGED role
<1> DEFINE row == [invitation[i] EXCEPT !.status = "closed"]
<1>1. row \in InvitationRow /\ row.admitted = {}
  BY InvitationTyped DEF InvitationRow
<1>2. invitation' = [invitation EXCEPT ![i] = row]
  BY DEF MemberCore, MembershipTypeOK
<1>3. /\ OneOwner' /\ role' \in [Users -> Roles \cup {None}]
      /\ handoff' \in [Handoffs -> Invitations \cup {None}]
      /\ acceptance' \in [Handoffs -> AcceptanceRow]
  BY DEF MemberCore, MembershipTypeOK, OneOwner, AcceptanceRow
<1> HIDE DEF row
<1> QED BY <1>1, <1>2, <1>3, InvitationStep

LEMMA RevokeInvitationKeeps ==
  ASSUME MemberCore, NEW r \in Requests, RevokeInvitation(r)
  PROVE  MemberCore' /\ UNCHANGED role
BY CloseKeeps, DoneTyped DEF RevokeInvitation

LEMMA ExpiryKeeps ==
  ASSUME MemberCore, NEW i \in Invitations, InvitationExpires(i)
  PROVE  MemberCore' /\ UNCHANGED role
<1>1. request' \in [Requests -> RequestRow]
  BY DEF InvitationExpires, MemberCore, MembershipTypeOK, RequestRow
<1> QED BY <1>1, CloseKeeps DEF InvitationExpires

(* Claims and acceptances come and go.                                     *)
LEMMA HandoffStep ==
  ASSUME MemberCore, UNCHANGED <<role, request, invitation>>,
         handoff' \in [Handoffs -> Invitations \cup {None}],
         acceptance' \in [Handoffs -> AcceptanceRow]
  PROVE  MemberCore' /\ UNCHANGED role
BY DEF MemberCore, MembershipTypeOK, OneOwner, AdmittedByAccepted, InvitationAdmitsOne,
       AcceptanceRow

LEMMA HandoffKeeps ==
  ASSUME MemberCore, NEW h \in Handoffs,
         HandoffExpires(h) \/ \E i \in Invitations : ClaimInvitation(h, i)
  PROVE  MemberCore' /\ UNCHANGED role
BY HandoffStep DEF HandoffExpires, ClaimInvitation, MemberCore, MembershipTypeOK, AcceptanceRow

LEMMA BeginAcceptanceKeeps ==
  ASSUME MemberCore, NEW h \in Handoffs,
         AcceptanceFails(h) \/ \E u \in Users : LockInvitation(h, u)
  PROVE  MemberCore' /\ UNCHANGED role
<1>1. handoff' \in [Handoffs -> Invitations \cup {None}]
  BY DEF AcceptanceFails, LockInvitation, MemberCore, MembershipTypeOK
<1>2. CASE AcceptanceFails(h)
  <2>1. acceptance' \in [Handoffs -> AcceptanceRow]
    BY <1>2 DEF AcceptanceFails, NoAcceptance, MemberCore, MembershipTypeOK, AcceptanceRow
  <2> QED BY <1>1, <1>2, <2>1, HandoffStep DEF AcceptanceFails
<1>3. ASSUME NEW u \in Users, LockInvitation(h, u) PROVE MemberCore' /\ UNCHANGED role
  <2> DEFINE vouching == role[invitation[handoff[h]].inviter]
  <2>1. vouching \in Roles
    BY <1>3 DEF LockInvitation, Redeemable, IsManager, Roles
  <2>2. acceptance' \in [Handoffs -> AcceptanceRow]
    BY <1>3, <2>1 DEF LockInvitation, MemberCore, MembershipTypeOK, AcceptanceRow
  <2> QED BY <1>1, <1>3, <2>2, HandoffStep DEF LockInvitation
<1> QED BY <1>2, <1>3

LEMMA SelectKeeps ==
  ASSUME MemberCore, NEW r \in Requests, SelectTarget(r)
  PROVE  MemberCore' /\ UNCHANGED role
<1> DEFINE v == request[r].target
           row == [request[r] EXCEPT !.op = "delete", !.read = role[v],
                                     !.authority = role[request[r].actor]]
<1>1. role[v] \in Roles /\ role[request[r].actor] \in Roles
  BY DEF SelectTarget, MayUpdate, Roles
<1>2. request[r] \in RequestRow /\ request' = [request EXCEPT ![r] = row]
  BY DEF SelectTarget, MemberCore, MembershipTypeOK, RequestRow
<1>3. row \in RequestRow
  BY <1>1, <1>2 DEF RequestRow
<1>4. request' \in [Requests -> RequestRow]
  BY <1>2, <1>3 DEF MemberCore, MembershipTypeOK, RequestRow
<1>5. UNCHANGED <<role, invitation, handoff, acceptance>> /\ OneOwner'
  BY DEF SelectTarget, MemberCore, OneOwner
<1> QED BY <1>4, <1>5, RoleStep DEF MemberCore, MembershipTypeOK

-----------------------------------------------------------------------------
(* The steps that change a role.                                           *)
LEMMA ChangeRoleKeeps ==
  ASSUME MemberCore, NEW r \in Requests, ChangeRole(r)
  PROVE  /\ MemberCore'
         /\ \A u \in Users : role'[u] # role[u] => RoleChanged(r, u)
<1> DEFINE v == request[r].target
<1>1. PICK new \in {"Admin", "Member"} : role' = [role EXCEPT ![v] = new]
  BY DEF ChangeRole
<1>2. role \in [Users -> Roles \cup {None}] /\ v \in Users \cup {None}
  BY DEF MemberCore, MembershipTypeOK
<1>3. role[v] \in {"Admin", "Member"} /\ role[request[r].actor] = "Owner"
  BY DEF ChangeRole, MayUpdate
<1>4. request[r].op = "role"
  BY DEF ChangeRole
<1>5. request' \in [Requests -> RequestRow]
  BY DoneTyped DEF ChangeRole
<1>6. CASE v \in Users
  <2>1. OneOwner' /\ role' \in [Users -> Roles \cup {None}]
    BY <1>1, <1>2, <1>3, <1>6, OwnerStays DEF MemberCore
  <2>2. MemberCore'
    BY <1>5, <2>1, RoleStep DEF ChangeRole
  <2>3. ASSUME NEW u \in Users, role'[u] # role[u] PROVE RoleChanged(r, u)
    <3>1. u = v /\ role'[u] = new
      BY <1>1, <1>2, <1>6, <2>3
    <3> QED BY <1>3, <1>4, <3>1 DEF RoleChanged
  <2> QED BY <2>2, <2>3
<1>7. CASE v \notin Users
  <2>1. role' = role
    BY <1>1, <1>2, <1>7
  <2>2. MemberCore'
    BY <1>2, <1>5, <2>1, RoleStep DEF ChangeRole, MemberCore, OneOwner
  <2> QED BY <2>1, <2>2
<1> QED BY <1>6, <1>7

(* A membership that is not the owner's is deleted.                        *)
LEMMA DeleteKeeps ==
  ASSUME MemberCore, NEW r \in Requests, NEW v \in Users, role[v] # "Owner",
         Delete(v), Done(r), UNCHANGED <<invitation, handoff, acceptance>>
  PROVE  /\ MemberCore'
         /\ \A u \in Users : role'[u] # role[u] => u = v /\ role'[u] = None
<1>1. role \in [Users -> Roles \cup {None}] /\ role' = [role EXCEPT ![v] = None]
  BY DEF MemberCore, MembershipTypeOK, Delete
<1>2. request' \in [Requests -> RequestRow]
  BY DoneTyped
<1>3. OneOwner' /\ role' \in [Users -> Roles \cup {None}]
  BY <1>1, OwnerStays DEF MemberCore
<1> QED BY <1>1, <1>2, <1>3, RoleStep

(* The lock has kept the role that was read; the policy of the DELETE      *)
(* decides whether the row goes.                                           *)
LEMMA RemoveKeeps ==
  ASSUME MemberInv, NEW r \in Requests, RemoveMembership(r)
  PROVE  /\ MemberCore'
         /\ \A u \in Users : role'[u] # role[u] => Removed(r, u)
<1> DEFINE v == request[r].target
           a == request[r].actor
<1>1. /\ request[r].op = "delete" /\ Done(r)
      /\ UNCHANGED <<invitation, handoff, acceptance>>
  BY DEF RemoveMembership
<1>2. /\ MemberCore /\ a \in Users /\ v \in Users
      /\ request[r].authority = "Owner"
      /\ role[v] \in {"Admin", "Member"} /\ role[v] = request[r].read
  BY <1>1 DEF MemberInv, RequestsNamed, LocksHold, None
<1>3. CASE MayDelete(a, v) /\ Delete(v)
  <2>1. /\ MemberCore'
        /\ \A u \in Users : role'[u] # role[u] => u = v /\ role'[u] = None
    BY <1>1, <1>2, <1>3, DeleteKeeps
  <2>2. \/ role[v] = "Member" /\ role[a] \in Managers
        \/ role[v] = "Admin" /\ role[a] = "Owner"
        \/ a = v
    BY <1>3 DEF MayDelete, IsManager, Managers
  <2>3. a # v
    BY <1>1, <1>2 DEF MemberInv, LocksHold
  <2> QED BY <1>1, <1>2, <2>1, <2>2, <2>3 DEF Removed
<1>4. CASE UNCHANGED role
  <2>1. OneOwner' /\ request' \in [Requests -> RequestRow]
    BY <1>1, <1>2, <1>4, DoneTyped DEF MemberCore, OneOwner
  <2>2. role' \in [Users -> Roles \cup {None}]
    BY <1>2, <1>4 DEF MemberCore, MembershipTypeOK
  <2> QED BY <1>1, <1>2, <1>4, <2>1, <2>2, RoleStep
<1> QED BY <1>3, <1>4 DEF RemoveMembership

(* The owner's departure would leave nobody, and the trigger refuses it.   *)
LEMMA LeaveKeeps ==
  ASSUME MemberInv, NEW r \in Requests, LeaveOrganization(r)
  PROVE  /\ MemberCore'
         /\ \A u \in Users : role'[u] # role[u] => Left(r, u)
<1> DEFINE v == request[r].actor
<1>1. /\ request[r].op = "leave" /\ Done(r) /\ Delete(v)
      /\ UNCHANGED <<invitation, handoff, acceptance>>
      /\ role[v] = "Owner" => RetainsOwner
  BY DEF LeaveOrganization
<1>2. MemberCore /\ v \in Users
  BY <1>1 DEF MemberInv, RequestsNamed, None
<1>3. /\ role \in [Users -> Roles \cup {None}] /\ role' = [role EXCEPT ![v] = None]
  BY <1>1, <1>2 DEF MemberCore, MembershipTypeOK, Delete
<1>4. role[v] # "Owner"
  <2> SUFFICES ASSUME role[v] = "Owner" PROVE FALSE
    OBVIOUS
  <2>1. PICK u \in Users : role'[u] = "Owner"
    BY <1>1 DEF RetainsOwner
  <2>2. u # v /\ role[u] = "Owner"
    BY <1>2, <1>3, <2>1 DEF None
  <2> QED BY <1>2, <2>2 DEF MemberCore, OneOwner
<1>5. /\ MemberCore'
      /\ \A u \in Users : role'[u] # role[u] => u = v /\ role'[u] = None
  BY <1>1, <1>2, <1>4, DeleteKeeps
<1> QED BY <1>1, <1>4, <1>5 DEF Left

LEMMA TransferKeeps ==
  ASSUME MemberCore, NEW u \in Users, NEW v \in Users, TransferOwnership(u, v)
  PROVE  /\ MemberCore'
         /\ \A w \in Users : role'[w] # role[w] => HandedOver(w)
<1>1. /\ u # v /\ role[u] = "Owner" /\ IsMember(v)
      /\ role' = [role EXCEPT ![u] = "Admin", ![v] = "Owner"]
      /\ UNCHANGED <<request, invitation, handoff, acceptance>>
  BY DEF TransferOwnership, TransferAllowed
<1>2. role \in [Users -> Roles \cup {None}]
  BY DEF MemberCore, MembershipTypeOK
<1>3. /\ role'[u] = "Admin" /\ role'[v] = "Owner"
      /\ \A w \in Users \ {u, v} : role'[w] = role[w]
  BY <1>1, <1>2
<1>4. role' \in [Users -> Roles \cup {None}]
  BY <1>1, <1>2 DEF Roles
<1>5. OneOwner'
  <2>1. ASSUME NEW w \in Users PROVE (role'[w] = "Owner") <=> (w = v)
    BY <1>1, <1>3 DEF MemberCore, OneOwner
  <2> QED BY <2>1 DEF OneOwner
<1>6. MemberCore'
  BY <1>1, <1>4, <1>5, RoleStep DEF MemberCore, MembershipTypeOK, RequestRow
<1> QED BY <1>1, <1>3, <1>6 DEF HandedOver

(* The lock has kept the invitation open, so it has admitted nobody before;*)
(* and the inviter is a member still.                                      *)
LEMMA AcceptKeeps ==
  ASSUME MemberInv, NEW h \in Handoffs, AcceptInvitation(h)
  PROVE  /\ MemberCore'
         /\ \A w \in Users : role'[w] # role[w] => Joined(h, w)
<1> DEFINE i == handoff[h]
           u == acceptance[h].user
           row == [invitation[i] EXCEPT !.status = "accepted", !.admitted = @ \cup {u}]
<1>1. /\ acceptance[h] # NoAcceptance
      /\ role' = [role EXCEPT ![u] = IF IsMember(u) THEN @ ELSE "Member"]
      /\ invitation' = [invitation EXCEPT ![i].status = "accepted",
                                         ![i].admitted = @ \cup {u}]
      /\ handoff' = [handoff EXCEPT ![h] = None]
      /\ acceptance' = [acceptance EXCEPT ![h] = NoAcceptance]
      /\ UNCHANGED request
  BY DEF AcceptInvitation
<1>2. /\ i \in Invitations /\ u \in Users /\ invitation[i].status = "pending"
      /\ acceptance[h].authority \in Managers
  BY <1>1 DEF MemberInv, AcceptancesHold
<1>3. MemberCore /\ IsMember(invitation[i].inviter)
  BY <1>2 DEF MemberInv, InvitersStay, None
<1>4. /\ role \in [Users -> Roles \cup {None}]
      /\ handoff' \in [Handoffs -> Invitations \cup {None}]
      /\ request' \in [Requests -> RequestRow]
  BY <1>1, <1>3 DEF MemberCore, MembershipTypeOK, RequestRow
<1>5. acceptance' \in [Handoffs -> AcceptanceRow]
  BY <1>1, <1>3 DEF MemberCore, MembershipTypeOK, AcceptanceRow, NoAcceptance
<1>6. invitation[i] \in InvitationRow /\ invitation[i].admitted = {}
  BY <1>2, <1>3, InvitationTyped
<1>7. row \in InvitationRow /\ row.status = "accepted" /\ row.admitted = {u}
  BY <1>2, <1>6 DEF InvitationRow
<1>8. invitation' = [invitation EXCEPT ![i] = row] /\ invitation'[i] = row
  BY <1>1, <1>2, <1>3 DEF MemberCore, MembershipTypeOK
<1>9. role' \in [Users -> Roles \cup {None}] /\ OneOwner'
  <2>1. CASE IsMember(u)
    BY <1>1, <1>3, <1>4, <2>1 DEF MemberCore, OneOwner
  <2>2. CASE ~ IsMember(u)
    BY <1>1, <1>2, <1>3, <1>4, <2>2, OwnerStays DEF MemberCore, IsMember, None
  <2> QED BY <2>1, <2>2
<1> HIDE DEF row
<1>10. MemberCore'
  BY <1>2, <1>3, <1>4, <1>5, <1>7, <1>8, <1>9, InvitationStep
<1>11. ASSUME NEW w \in Users, role'[w] # role[w] PROVE Joined(h, w)
  <2>1. w = u /\ role[w] = None /\ role'[w] = "Member"
    BY <1>1, <1>4, <1>11 DEF IsMember
  <2> QED BY <1>2, <1>3, <1>7, <1>8, <2>1 DEF Joined
<1> QED BY <1>10, <1>11

-----------------------------------------------------------------------------
(* Requests end, and no role changes that one of the others has locked.    *)
LEMMA LocksKept ==
  ASSUME MemberInv,
         \A s \in Requests : request'[s] = request[s] \/ request'[s].op = None,
         \A s \in Requests : request'[s].op = "delete" =>
           role'[request[s].target] = role[request[s].target]
  PROVE  RequestsNamed' /\ LocksHold'
BY DEF MemberInv, RequestsNamed, LocksHold, None

LEMMA EndKept ==
  ASSUME MemberInv, NEW r \in Requests, Done(r)
  PROVE  /\ \A s \in Requests : request'[s] = request[s] \/ request'[s].op = None
         /\ \A s \in Requests : request'[s].op = "delete" => s # r /\ request'[s] = request[s]
BY DEF Done, Idle, None, MemberInv, MemberCore, MembershipTypeOK

LEMMA AskLocks ==
  ASSUME MemberInv, NEW r \in Requests, NEW op \in Operations,
         NEW u \in Users, NEW v \in Users, Check(r, op, u, v)
  PROVE  RequestsNamed' /\ LocksHold'
<1>1. /\ request'[r].op = op /\ request'[r].actor = u /\ request'[r].target = v
      /\ \A s \in Requests \ {r} : request'[s] = request[s]
      /\ UNCHANGED role
  BY DEF Check, Idle, MemberInv, MemberCore, MembershipTypeOK
<1>2. op # "delete"
  BY DEF Operations
<1> QED BY <1>1, <1>2 DEF MemberInv, RequestsNamed, LocksHold

LEMMA SelectLocks ==
  ASSUME MemberInv, NEW r \in Requests, SelectTarget(r)
  PROVE  RequestsNamed' /\ LocksHold'
<1> DEFINE v == request[r].target
<1>1. /\ request[r].op = "remove" /\ role[request[r].actor] = "Owner"
      /\ role[v] \in {"Admin", "Member"} /\ ~ Locked(v) /\ UNCHANGED role
  BY DEF SelectTarget, MayUpdate
<1>2. /\ request'[r].op = "delete" /\ request'[r].read = role[v]
      /\ request'[r].authority = "Owner"
      /\ request'[r].actor = request[r].actor /\ request'[r].target = v
      /\ \A s \in Requests \ {r} : request'[s] = request[s]
  BY <1>1 DEF SelectTarget, MemberInv, MemberCore, MembershipTypeOK
<1>3. \A s \in Requests \ {r} : request[s].op = "delete" => request[s].target # v
  BY <1>1 DEF Locked
<1>4. request[r].actor # v
  BY <1>1
<1>5. RequestsNamed'
  BY <1>1, <1>2 DEF MemberInv, RequestsNamed, None
<1>6. LocksHold'
  BY <1>1, <1>2, <1>3, <1>4 DEF MemberInv, LocksHold
<1> QED BY <1>5, <1>6

LEMMA RoleLocks ==
  ASSUME MemberInv, NEW r \in Requests,
         ChangeRole(r) \/ RemoveMembership(r) \/ LeaveOrganization(r)
  PROVE  RequestsNamed' /\ LocksHold'
<1>1. Done(r)
  BY DEF ChangeRole, RemoveMembership, LeaveOrganization, Done
<1>2. role \in [Users -> Roles \cup {None}]
  BY DEF MemberInv, MemberCore, MembershipTypeOK
<1>3. ASSUME NEW s \in Requests, request'[s].op = "delete"
      PROVE  role'[request[s].target] = role[request[s].target]
  <2>1. s # r /\ request[s].op = "delete" /\ request[s].target \in Users
    BY <1>1, <1>3, EndKept DEF MemberInv, RequestsNamed, None
  <2>2. CASE ChangeRole(r)
    BY <1>2, <2>1, <2>2 DEF ChangeRole, Locked
  <2>3. CASE RemoveMembership(r)
    <3>1. request[s].target # request[r].target
      BY <2>1, <2>3 DEF RemoveMembership, MemberInv, LocksHold
    <3> QED BY <1>2, <2>1, <2>3, <3>1 DEF RemoveMembership, Delete
  <2>4. CASE LeaveOrganization(r)
    BY <1>2, <2>1, <2>4 DEF LeaveOrganization, Locked, Delete
  <2> QED BY <2>2, <2>3, <2>4
<1> QED BY <1>1, <1>3, EndKept, LocksKept

LEMMA OtherLocks ==
  ASSUME MemberInv, NEW r \in Requests,
         Fails(r) \/ CreateInvitation(r) \/ RevokeInvitation(r)
  PROVE  RequestsNamed' /\ LocksHold'
<1>1. Done(r) /\ UNCHANGED role
  BY DEF Fails, CreateInvitation, RevokeInvitation, Done
<1> QED BY <1>1, EndKept, LocksKept

LEMMA TransferLocks ==
  ASSUME MemberInv, NEW u \in Users, NEW v \in Users, TransferOwnership(u, v)
  PROVE  RequestsNamed' /\ LocksHold'
<1>1. role \in [Users -> Roles \cup {None}] /\ UNCHANGED request
  BY DEF TransferOwnership, MemberInv, MemberCore, MembershipTypeOK
<1>2. ASSUME NEW s \in Requests, request'[s].op = "delete"
      PROVE  role'[request[s].target] = role[request[s].target]
  <2>1. request[s].target \in Users \ {u, v}
    BY <1>1, <1>2 DEF TransferOwnership, Locked, MemberInv, RequestsNamed, None
  <2> QED BY <1>1, <2>1 DEF TransferOwnership
<1> QED BY <1>1, <1>2, LocksKept

LEMMA AcceptLocks ==
  ASSUME MemberInv, NEW h \in Handoffs, AcceptInvitation(h)
  PROVE  RequestsNamed' /\ LocksHold'
<1>1. role \in [Users -> Roles \cup {None}] /\ UNCHANGED request
  BY DEF AcceptInvitation, MemberInv, MemberCore, MembershipTypeOK
<1>2. ASSUME NEW s \in Requests, request'[s].op = "delete"
      PROVE  role'[request[s].target] = role[request[s].target]
  <2>1. request[s].target \in Users /\ IsMember(request[s].target)
    BY <1>1, <1>2 DEF MemberInv, RequestsNamed, LocksHold, IsMember, None
  <2> QED BY <1>1, <2>1 DEF AcceptInvitation
<1> QED BY <1>1, <1>2, LocksKept

-----------------------------------------------------------------------------
(* What acceptances hold: they end, and what they redeem stays as it is.   *)
LEMMA AcceptancesKept ==
  ASSUME MemberInv,
         \A h \in Handoffs : acceptance'[h] # NoAcceptance =>
           /\ acceptance'[h] = acceptance[h] /\ handoff'[h] = handoff[h]
           /\ invitation'[handoff[h]].status = invitation[handoff[h]].status
  PROVE  AcceptancesHold'
BY DEF MemberInv, AcceptancesHold

LEMMA InvitationAcceptances ==
  ASSUME MemberInv,
         \/ \E r \in Requests : CreateInvitation(r) \/ RevokeInvitation(r)
         \/ \E i \in Invitations : InvitationExpires(i)
  PROVE  AcceptancesHold'
<1>1. PICK i \in Invitations :
        /\ ~ InUse(i) \/ invitation[i] = NoInvitation
        /\ \A j \in Invitations \ {i} : invitation'[j] = invitation[j]
        /\ UNCHANGED <<handoff, acceptance>>
  BY DEF CreateInvitation, RevokeInvitation, InvitationExpires,
         MemberInv, MemberCore, MembershipTypeOK
<1>2. ASSUME NEW h \in Handoffs, acceptance[h] # NoAcceptance
      PROVE  invitation'[handoff[h]] = invitation[handoff[h]]
  <2>1. handoff[h] \in Invitations /\ invitation[handoff[h]].status = "pending"
    BY <1>2 DEF MemberInv, AcceptancesHold
  <2>2. handoff[h] # i
    BY <1>1, <1>2, <2>1 DEF InUse, NoInvitation, None
  <2> QED BY <1>1, <2>1, <2>2
<1> QED BY <1>1, <1>2, AcceptancesKept

LEMMA ClaimAcceptances ==
  ASSUME MemberInv, NEW h \in Handoffs,
         \/ HandoffExpires(h) \/ AcceptanceFails(h)
         \/ \E i \in Invitations : ClaimInvitation(h, i)
  PROVE  AcceptancesHold'
<1>1. /\ handoff \in [Handoffs -> Invitations \cup {None}]
      /\ acceptance \in [Handoffs -> AcceptanceRow]
  BY DEF MemberInv, MemberCore, MembershipTypeOK, AcceptanceRow
<1>2. handoff[h] = None => acceptance[h] = NoAcceptance
  BY NoneIsNothing DEF MemberInv, AcceptancesHold
<1> QED BY <1>1, <1>2, AcceptancesKept DEF HandoffExpires, AcceptanceFails, ClaimInvitation

LEMMA LockAcceptances ==
  ASSUME MemberInv, NEW h \in Handoffs, NEW u \in Users, LockInvitation(h, u)
  PROVE  AcceptancesHold'
<1> DEFINE i == handoff[h]
<1>1. /\ i \in Invitations /\ invitation[i].status = "pending" /\ ~ InUse(i)
      /\ role[invitation[i].inviter] \in Managers
      /\ UNCHANGED <<invitation, handoff>>
  BY DEF LockInvitation, Redeemable, IsManager, Managers,
         MemberInv, MemberCore, MembershipTypeOK
<1>2. /\ acceptance'[h].user = u /\ acceptance'[h].authority \in Managers
      /\ \A g \in Handoffs \ {h} : acceptance'[g] = acceptance[g]
  BY <1>1 DEF LockInvitation, MemberInv, MemberCore, MembershipTypeOK
<1>3. \A g \in Handoffs \ {h} : acceptance'[g] # NoAcceptance => handoff[g] # i
  BY <1>1, <1>2 DEF InUse
<1> QED BY <1>1, <1>2, <1>3 DEF MemberInv, AcceptancesHold

LEMMA AcceptAcceptances ==
  ASSUME MemberInv, NEW h \in Handoffs, AcceptInvitation(h)
  PROVE  AcceptancesHold'
<1>1. ASSUME NEW g \in Handoffs, acceptance'[g] # NoAcceptance
      PROVE  /\ acceptance'[g] = acceptance[g] /\ handoff'[g] = handoff[g]
             /\ invitation'[handoff[g]].status = invitation[handoff[g]].status
  <2>1. g # h /\ acceptance'[g] = acceptance[g] /\ handoff'[g] = handoff[g]
    BY <1>1 DEF AcceptInvitation, MemberInv, MemberCore, MembershipTypeOK
  <2>2. handoff[g] \in Invitations /\ handoff[g] # handoff[h]
    BY <1>1, <2>1 DEF AcceptInvitation, MemberInv, AcceptancesHold
  <2> QED BY <2>1, <2>2 DEF AcceptInvitation, MemberInv, MemberCore, MembershipTypeOK
<1> QED BY <1>1, AcceptancesKept

-----------------------------------------------------------------------------
(* Inviters: who is referred to is not deleted.                            *)
LEMMA InvitersKept ==
  ASSUME MemberInv,
         \A i \in Invitations : invitation'[i].status # None =>
           /\ invitation[i].status # None
           /\ invitation'[i].inviter = invitation[i].inviter,
         \A u \in Users : IsMember(u) /\ Referenced(u) => role'[u] # None
  PROVE  InvitersStay'
BY DEF MemberInv, InvitersStay, IsMember, Referenced

LEMMA CreateInviters ==
  ASSUME MemberInv, NEW r \in Requests, CreateInvitation(r)
  PROVE  InvitersStay'
<1>1. PICK i \in Invitations :
        invitation' = [invitation EXCEPT ![i] =
          [NoInvitation EXCEPT !.status = "pending", !.inviter = request[r].actor]]
  BY DEF CreateInvitation
<1>2. request[r].actor \in Users /\ IsMember(request[r].actor) /\ UNCHANGED role
  BY DEF CreateInvitation, MayManage, IsManager, IsMember, MemberInv, RequestsNamed, None
<1>3. /\ invitation'[i].inviter = request[r].actor
      /\ \A j \in Invitations \ {i} : invitation'[j] = invitation[j]
  BY <1>1 DEF NoInvitation, MemberInv, MemberCore, MembershipTypeOK
<1> QED BY <1>2, <1>3 DEF MemberInv, InvitersStay, IsMember

LEMMA CloseInviters ==
  ASSUME MemberInv, NEW i \in Invitations, invitation[i].status = "pending",
         invitation' = [invitation EXCEPT ![i].status = "closed"], UNCHANGED role
  PROVE  InvitersStay'
<1>1. \A j \in Invitations : invitation'[j].status # None =>
        /\ invitation[j].status # None /\ invitation'[j].inviter = invitation[j].inviter
  BY DEF MemberInv, MemberCore, MembershipTypeOK, None
<1> QED BY <1>1, InvitersKept DEF IsMember

LEMMA RoleInviters ==
  ASSUME MemberInv, UNCHANGED invitation,
         \/ \E r \in Requests : ChangeRole(r) \/ RemoveMembership(r) \/ LeaveOrganization(r)
         \/ \E u, v \in Users : TransferOwnership(u, v)
  PROVE  InvitersStay'
<1>1. role \in [Users -> Roles \cup {None}]
  BY DEF MemberInv, MemberCore, MembershipTypeOK
<1>2. ASSUME NEW u \in Users, IsMember(u), Referenced(u) PROVE role'[u] # None
  BY <1>1, <1>2 DEF IsMember, ChangeRole, RemoveMembership, LeaveOrganization, Delete,
     TransferOwnership, None
<1> QED BY <1>2, InvitersKept

LEMMA AcceptInviters ==
  ASSUME MemberInv, NEW h \in Handoffs, AcceptInvitation(h)
  PROVE  InvitersStay'
<1>1. role \in [Users -> Roles \cup {None}]
  BY DEF MemberInv, MemberCore, MembershipTypeOK
<1>2. handoff[h] \in Invitations /\ invitation[handoff[h]].status = "pending"
  BY DEF AcceptInvitation, MemberInv, AcceptancesHold
<1>3. \A j \in Invitations : invitation'[j].status # None =>
        /\ invitation[j].status # None /\ invitation'[j].inviter = invitation[j].inviter
  BY <1>2 DEF AcceptInvitation, MemberInv, MemberCore, MembershipTypeOK, None
<1>4. ASSUME NEW u \in Users, IsMember(u) PROVE role'[u] # None
  BY <1>1, <1>4 DEF AcceptInvitation, IsMember, None
<1> QED BY <1>3, <1>4, InvitersKept

-----------------------------------------------------------------------------
(* Each step keeps all five parts, and a role changes with authority.      *)
Kept == MemberInv' /\ \A u \in Users : role'[u] # role[u] => Authorized(u)

LEMMA RequestStepKeeps ==
  ASSUME MemberInv, NEW r \in Requests,
         \/ AskToInvite(r) \/ AskToRevoke(r)
         \/ AskForRole(r) \/ AskToRemove(r) \/ AskToLeave(r)
         \/ Fails(r) \/ CreateInvitation(r) \/ RevokeInvitation(r) \/ SelectTarget(r)
  PROVE  Kept
<1>1. MemberCore' /\ UNCHANGED role
  BY AskKeeps, FailsKeeps, CreateInvitationKeeps, RevokeInvitationKeeps, SelectKeeps
     DEF MemberInv
<1>2. CASE \/ AskToInvite(r) \/ AskToRevoke(r)
           \/ AskForRole(r) \/ AskToRemove(r) \/ AskToLeave(r)
  <2>1. PICK op \in Operations, u \in Users, v \in Users : Check(r, op, u, v)
    BY <1>2 DEF Operations, AskToInvite, AskToRevoke, AskForRole, AskToRemove, AskToLeave
  <2>2. UNCHANGED <<role, invitation, handoff, acceptance>>
    BY <2>1 DEF Check
  <2>3. RequestsNamed' /\ LocksHold'
    BY <2>1, AskLocks
  <2>4. AcceptancesHold' /\ InvitersStay'
    BY <2>2 DEF MemberInv, AcceptancesHold, InvitersStay, IsMember
  <2> QED BY <1>1, <2>3, <2>4 DEF MemberInv, Kept
<1>3. CASE Fails(r) \/ SelectTarget(r)
  <2>1. UNCHANGED <<role, invitation, handoff, acceptance>>
    BY <1>3 DEF Fails, SelectTarget
  <2>2. AcceptancesHold' /\ InvitersStay'
    BY <2>1 DEF MemberInv, AcceptancesHold, InvitersStay, IsMember
  <2> QED BY <1>1, <1>3, <2>2, OtherLocks, SelectLocks DEF MemberInv, Kept
<1>4. CASE CreateInvitation(r)
  BY <1>1, <1>4, OtherLocks, InvitationAcceptances, CreateInviters DEF MemberInv, Kept
<1>5. CASE RevokeInvitation(r)
  <2>1. InvitersStay'
    BY <1>5, CloseInviters DEF RevokeInvitation
  <2> QED BY <1>1, <1>5, <2>1, OtherLocks, InvitationAcceptances DEF MemberInv, Kept
<1> QED BY <1>2, <1>3, <1>4, <1>5

LEMMA RoleStepKeeps ==
  ASSUME MemberInv,
         \/ \E r \in Requests : ChangeRole(r) \/ RemoveMembership(r) \/ LeaveOrganization(r)
         \/ \E u, v \in Users : TransferOwnership(u, v)
  PROVE  Kept
<1>1. UNCHANGED <<invitation, handoff, acceptance>>
  BY DEF ChangeRole, RemoveMembership, LeaveOrganization, TransferOwnership
<1>2. AcceptancesHold' /\ InvitersStay'
  BY <1>1, RoleInviters DEF MemberInv, AcceptancesHold
<1>3. RequestsNamed' /\ LocksHold'
  BY RoleLocks, TransferLocks
<1>4. MemberCore
  BY DEF MemberInv
<1>5. MemberCore' /\ \A u \in Users : role'[u] # role[u] => Authorized(u)
  BY <1>4, ChangeRoleKeeps, RemoveKeeps, LeaveKeeps, TransferKeeps DEF Authorized
<1> QED BY <1>2, <1>3, <1>5 DEF MemberInv, Kept

LEMMA ClaimStepKeeps ==
  ASSUME MemberInv, NEW h \in Handoffs,
         \/ HandoffExpires(h) \/ AcceptanceFails(h)
         \/ \E i \in Invitations : ClaimInvitation(h, i)
         \/ \E u \in Users : LockInvitation(h, u)
  PROVE  Kept
<1>1. UNCHANGED <<role, request, invitation>>
  BY DEF HandoffExpires, AcceptanceFails, ClaimInvitation, LockInvitation
<1>2. MemberCore'
  BY HandoffKeeps, BeginAcceptanceKeeps DEF MemberInv
<1>3. RequestsNamed' /\ LocksHold' /\ InvitersStay'
  BY <1>1 DEF MemberInv, RequestsNamed, LocksHold, InvitersStay, IsMember
<1>4. AcceptancesHold'
  BY ClaimAcceptances, LockAcceptances
<1> QED BY <1>1, <1>2, <1>3, <1>4 DEF MemberInv, Kept

LEMMA MemberNextKeeps ==
  ASSUME MemberInv, [MemberNext]_memberVars
  PROVE  Kept
<1>1. ASSUME NEW h \in Handoffs, AcceptInvitation(h) PROVE Kept
  BY <1>1, AcceptKeeps, AcceptLocks, AcceptAcceptances, AcceptInviters
     DEF Authorized, MemberInv, Kept
<1>2. ASSUME NEW i \in Invitations, InvitationExpires(i) PROVE Kept
  <2>1. MemberCore' /\ UNCHANGED role
    BY <1>2, ExpiryKeeps DEF MemberInv
  <2>2. RequestsNamed' /\ LocksHold'
    BY <1>2 DEF InvitationExpires, MemberInv, RequestsNamed, LocksHold
  <2>3. AcceptancesHold' /\ InvitersStay'
    BY <1>2, InvitationAcceptances, CloseInviters DEF InvitationExpires
  <2> QED BY <2>1, <2>2, <2>3 DEF MemberInv, Kept
<1>3. CASE UNCHANGED memberVars
  <2>1. MemberCore'
    BY <1>3, HandoffStep DEF memberVars, MemberInv, MemberCore, MembershipTypeOK, AcceptanceRow
  <2>2. RequestsNamed' /\ LocksHold' /\ AcceptancesHold' /\ InvitersStay'
    BY <1>3 DEF memberVars, MemberInv, RequestsNamed, LocksHold, AcceptancesHold,
       InvitersStay, IsMember
  <2> QED BY <1>3, <2>1, <2>2 DEF memberVars, MemberInv, Kept
<1> QED BY <1>1, <1>2, <1>3, RequestStepKeeps, RoleStepKeeps, ClaimStepKeeps DEF MemberNext

LEMMA MemberSteps == [Next]_vars => [MemberNext]_memberVars
BY DEF Next, DriveNext, vars, memberVars

LEMMA MemberInductive == Spec => []MemberInv
<1>1. Init => MemberInv
  BY MemberInitInv DEF Init
<1>2. MemberInv /\ [Next]_vars => MemberInv'
  BY MemberSteps, MemberNextKeeps DEF Kept
<1> QED BY <1>1, <1>2, PTL DEF Spec

(* Whatever transfers, departures and changes of roles interleave, and     *)
(* whatever was read before: there is exactly one owner (tenant.go, and    *)
(* the trigger and the unique index of migration 2).                       *)
THEOREM AlwaysOneOwner == Spec => []OneOwner
<1>1. MemberInv => OneOwner
  BY DEF MemberInv, MemberCore
<1> QED BY <1>1, MemberInductive, PTL

(* An invitation admits one user, whoever has claimed it                   *)
(* (accept_member_invitation of migration 2).                              *)
THEOREM AdmitsOne == Spec => []InvitationAdmitsOne
<1>1. MemberInv => InvitationAdmitsOne
  BY DEF MemberInv, MemberCore
<1> QED BY <1>1, MemberInductive, PTL

(* Nobody joins, is removed or changes roles without authority: what a     *)
(* statement locked is as it was looked at, and the policies of the later  *)
(* statement hold (tenant.go, and the policies, accept_member_invitation   *)
(* and transfer_organization_ownership of migration 2).                    *)
THEOREM AuthorityIsHeld == Spec => AuthorityHeld
<1>1. MemberInv /\ [Next]_vars =>
        [\A u \in Users : role'[u] # role[u] => Authorized(u)]_memberVars
  BY MemberSteps, MemberNextKeeps DEF Kept
<1> QED BY <1>1, MemberInductive, PTL DEF Spec, AuthorityHeld

-----------------------------------------------------------------------------
(* The connection: each generation is the work of one authorization.       *)
Saved == {a \in Attempts : attempt[a].step = "done"}

(* A call knows the token of the generation it has read, and a refusal is  *)
(* Google's.                                                               *)
CallsKnow ==
  \A c \in Calls : call[c].step # None =>
    /\ call[c].token \in Attempts /\ call[c].generation <= drive.generation
    /\ drive.status = "Connected" /\ call[c].generation = drive.generation =>
         call[c].token = drive.token
    /\ call[c].step = "refused" => call[c].token \in refused

DriveInv ==
  /\ DriveTypeOK
  /\ drive.generation = Cardinality(Saved)
  /\ CallsKnow

AttemptRow ==
  [step : {None, "begun", "exchanged", "done", "refused", "failed"},
   user : Users \cup {None}]

LEMMA NoCallTyped ==
  NoCall \in [step : {None, "refreshing", "refused"},
              generation : 0 .. MaxGeneration, token : Attempts \cup {None}]
  /\ NoCall.step = None
BY DriveAssumption, FS_CardinalityType DEF NoCall

LEMMA DriveInitInv == Init => DriveInv
<1> SUFFICES ASSUME Init PROVE DriveInv
  OBVIOUS
<1>1. MaxGeneration \in Nat
  BY DriveAssumption, FS_CardinalityType
<1>2. DriveTypeOK
  <2>1. attempt \in [Attempts -> AttemptRow]
    BY DEF Init, AttemptRow, NoAttempt
  <2>0. 0 \in 0 .. MaxGeneration
    BY <1>1
  <2>2. call \in [Calls -> [step : {None, "refreshing", "refused"},
                            generation : 0 .. MaxGeneration,
                            token : Attempts \cup {None}]]
    BY NoCallTyped DEF Init
  <2>3. drive \in [status : Statuses, generation : 0 .. MaxGeneration,
                   token : Attempts \cup {None}]
    <3> DEFINE row == [status |-> "Not Connected", generation |-> 0, token |-> None]
    <3>1. row \in [status : Statuses, generation : 0 .. MaxGeneration,
                   token : Attempts \cup {None}]
      BY <2>0 DEF Statuses
    <3> QED BY <3>1 DEF Init
  <2> QED BY <2>1, <2>2, <2>3 DEF Init, DriveTypeOK, AttemptRow
<1>3. Saved = {}
  BY DEF Init, Saved, NoAttempt, None
<1>4. drive.generation = Cardinality(Saved)
  BY <1>3, FS_EmptySet DEF Init
<1>5. CallsKnow
  BY DEF Init, CallsKnow, NoCall
<1> QED BY <1>2, <1>4, <1>5 DEF DriveInv

(* A step of one authorization that does not save a connection.            *)
LEMMA AttemptStep ==
  ASSUME DriveInv, NEW a \in Attempts, NEW row \in AttemptRow,
         attempt[a].step # "done", row.step # "done",
         attempt' = [attempt EXCEPT ![a] = row],
         UNCHANGED <<drive, refused, call, reconnect>>
  PROVE  DriveInv'
<1>1. attempt' \in [Attempts -> AttemptRow]
  BY DEF DriveInv, DriveTypeOK, AttemptRow
<1>2. Saved' = Saved
  BY DEF Saved, DriveInv, DriveTypeOK
<1>3. DriveTypeOK'
  BY <1>1 DEF DriveInv, DriveTypeOK, AttemptRow
<1>4. CallsKnow'
  BY DEF DriveInv, CallsKnow
<1> QED BY <1>2, <1>3, <1>4 DEF DriveInv

LEMMA AttemptKeeps ==
  ASSUME DriveInv, MemberInv, NEW a \in Attempts,
         \/ \E u \in Users : Begin(u, a)
         \/ Exchange(a) \/ Abandon(a) \/ SaveRefused(a)
  PROVE  DriveInv'
<1>1. attempt \in [Attempts -> AttemptRow]
  BY DEF DriveInv, DriveTypeOK, AttemptRow
<1>2. ASSUME NEW u \in Users, Begin(u, a) PROVE DriveInv'
  <2> DEFINE row == [step |-> "begun", user |-> u]
  <2>1. row \in AttemptRow /\ row.step # "done"
    BY DEF AttemptRow
  <2>2. attempt[a].step # "done"
    BY <1>2 DEF Begin, NoAttempt, None
  <2> QED BY <1>2, <2>1, <2>2, AttemptStep DEF Begin, SaveAttempt
<1>3. ASSUME NEW to \in {"exchanged", "failed", "refused"}, attempt[a].step # "done",
             attempt' = [attempt EXCEPT ![a].step = to],
             UNCHANGED <<drive, refused, call, reconnect>>
      PROVE  DriveInv'
  <2> DEFINE row == [attempt[a] EXCEPT !.step = to]
  <2>1. row \in AttemptRow /\ row.step # "done"
    BY <1>1 DEF AttemptRow
  <2>2. attempt' = [attempt EXCEPT ![a] = row]
    BY <1>1, <1>3
  <2> HIDE DEF row
  <2> QED BY <1>3, <2>1, <2>2, AttemptStep
<1> QED BY <1>2, <1>3 DEF Exchange, ConsumeAttempt, Abandon, SaveRefused

(* The new generation is one more than any call has read.                  *)
LEMMA SaveKeeps ==
  ASSUME DriveInv, NEW a \in Attempts, SaveConnection(a)
  PROVE  DriveInv'
<1> DEFINE row == [attempt[a] EXCEPT !.step = "done"]
<1>1. attempt \in [Attempts -> AttemptRow]
  BY DEF DriveInv, DriveTypeOK, AttemptRow
<1>2. /\ attempt[a].step = "exchanged"
      /\ drive' = [status |-> "Connected", generation |-> drive.generation + 1, token |-> a]
      /\ attempt' = [attempt EXCEPT ![a].step = "done"]
      /\ UNCHANGED <<refused, call, reconnect>>
  BY DEF SaveConnection
<1>3. row \in AttemptRow /\ row.step = "done" /\ attempt' = [attempt EXCEPT ![a] = row]
  BY <1>1, <1>2 DEF AttemptRow
<1> HIDE DEF row
<1>4. Saved' = Saved \cup {a} /\ a \notin Saved
  BY <1>1, <1>2, <1>3 DEF Saved
<1>5. IsFiniteSet(Saved) /\ IsFiniteSet(Saved')
  BY DriveAssumption, FS_Subset DEF Saved
<1>6. Cardinality(Saved') = Cardinality(Saved) + 1
  BY <1>4, <1>5, FS_AddElement
<1>7. Saved' \subseteq Attempts
  BY DEF Saved
<1>8. Cardinality(Saved') <= MaxGeneration
  BY <1>7, DriveAssumption, FS_Subset
<1>9. drive.generation \in Nat /\ drive.generation = Cardinality(Saved)
  BY DEF DriveInv, DriveTypeOK
<1>10. MaxGeneration \in Nat
  BY DriveAssumption, FS_CardinalityType
<1>11. drive' \in [status : Statuses, generation : 0 .. MaxGeneration,
                   token : Attempts \cup {None}]
  BY <1>2, <1>6, <1>8, <1>9, <1>10 DEF Statuses
<1>12. DriveTypeOK'
  <2>1. attempt' \in [Attempts -> AttemptRow]
    BY <1>1, <1>3
  <2>2. drive'.status = "Connected" /\ drive'.token = a /\ a # None
    BY <1>2, DriveAssumption
  <2> QED BY <1>2, <1>11, <2>1, <2>2 DEF DriveInv, DriveTypeOK, AttemptRow
<1>13. CallsKnow'
  <2> SUFFICES ASSUME NEW c \in Calls, call[c].step # None
               PROVE  /\ call[c].token \in Attempts
                      /\ call[c].generation <= drive.generation + 1
                      /\ call[c].generation # drive.generation + 1
                      /\ call[c].step = "refused" => call[c].token \in refused
    BY <1>2 DEF CallsKnow
  <2>1. call[c].generation \in Nat /\ call[c].generation <= drive.generation
    BY DEF DriveInv, DriveTypeOK, CallsKnow
  <2> QED BY <1>9, <2>1 DEF DriveInv, CallsKnow
<1> QED BY <1>2, <1>6, <1>9, <1>12, <1>13 DEF DriveInv

LEMMA DisconnectKeeps ==
  ASSUME DriveInv, Disconnect
  PROVE  DriveInv' /\ drive'.status = "Not Connected"
<1>1. /\ drive' = [drive EXCEPT !.status = "Not Connected", !.token = None]
      /\ UNCHANGED <<attempt, refused, call, reconnect>>
  BY DEF Disconnect, ForgetToken
<1>2. /\ drive'.status = "Not Connected" /\ drive'.token = None
      /\ drive'.generation = drive.generation
      /\ drive' \in [status : Statuses, generation : 0 .. MaxGeneration,
                      token : Attempts \cup {None}]
  BY <1>1 DEF DriveInv, DriveTypeOK, Statuses
<1>3. DriveTypeOK' /\ Saved' = Saved /\ CallsKnow'
  BY <1>1, <1>2 DEF DriveInv, DriveTypeOK, Saved, CallsKnow
<1> QED BY <1>2, <1>3 DEF DriveInv

LEMMA RefusesKeeps ==
  ASSUME DriveInv, NEW a \in Attempts, GoogleRefuses(a)
  PROVE  DriveInv'
BY DEF GoogleRefuses, DriveInv, DriveTypeOK, Saved, CallsKnow

(* A step of one call that leaves the connection alone.                    *)
LEMMA CallStep ==
  ASSUME DriveInv, NEW c \in Calls,
         NEW q \in [step : {None, "refreshing", "refused"},
                    generation : 0 .. MaxGeneration, token : Attempts \cup {None}],
         call' = [call EXCEPT ![c] = q], UNCHANGED <<attempt, drive, refused, reconnect>>,
         q.step # None =>
           /\ q.token \in Attempts /\ q.generation <= drive.generation
           /\ drive.status = "Connected" /\ q.generation = drive.generation =>
                q.token = drive.token
           /\ q.step = "refused" => q.token \in refused
  PROVE  DriveInv'
<1>1. DriveTypeOK' /\ Saved' = Saved
  BY DEF DriveInv, DriveTypeOK, Saved
<1>2. CallsKnow'
  BY DEF DriveInv, DriveTypeOK, CallsKnow
<1> QED BY <1>1, <1>2 DEF DriveInv

LEMMA ReadKeeps ==
  ASSUME DriveInv, NEW c \in Calls, ReadConnection(c)
  PROVE  DriveInv'
<1> DEFINE q == [step |-> "refreshing", generation |-> drive.generation, token |-> drive.token]
<1>1. drive.status = "Connected" /\ drive.token \in Attempts
      /\ drive.generation \in 0 .. MaxGeneration
  BY DEF ReadConnection, DriveInv, DriveTypeOK
<1>2. q \in [step : {None, "refreshing", "refused"},
             generation : 0 .. MaxGeneration, token : Attempts \cup {None}]
  BY <1>1
<1>3. q.generation <= drive.generation
  BY <1>1
<1> QED BY <1>1, <1>2, <1>3, CallStep DEF ReadConnection

LEMMA RefreshKeeps ==
  ASSUME DriveInv, NEW c \in Calls, Refresh(c)
  PROVE  DriveInv'
<1>1. CASE call' = [call EXCEPT ![c] = NoCall]
  BY <1>1, NoCallTyped, CallStep DEF Refresh
<1>2. CASE call[c].token \in refused /\ call' = [call EXCEPT ![c].step = "refused"]
  <2> DEFINE q == [call[c] EXCEPT !.step = "refused"]
  <2>1. call[c].step # None
    BY DEF Refresh, None
  <2>2. /\ q \in [step : {None, "refreshing", "refused"},
                  generation : 0 .. MaxGeneration, token : Attempts \cup {None}]
        /\ q.token = call[c].token /\ q.generation = call[c].generation
    BY DEF DriveInv, DriveTypeOK
  <2>3. call' = [call EXCEPT ![c] = q]
    BY <1>2 DEF DriveInv, DriveTypeOK
  <2>4. /\ call[c].token \in Attempts /\ call[c].generation <= drive.generation
        /\ drive.status = "Connected" /\ call[c].generation = drive.generation =>
             call[c].token = drive.token
    BY <2>1 DEF DriveInv, CallsKnow
  <2> HIDE DEF q
  <2> QED BY <1>2, <2>2, <2>3, <2>4, CallStep DEF Refresh
<1> QED BY <1>1, <1>2 DEF Refresh

(* What was refused is the token in use, or the connection is left alone.  *)
LEMMA RequireKeeps ==
  ASSUME DriveInv, NEW c \in Calls, RequireReconnect(c)
  PROVE  /\ DriveInv'
         /\ drive.status = "Connected" /\ drive'.status = "Reauthorization Required" =>
              drive.token \in refused
<1>1. CASE IsCurrent(c)
  <2>1. drive.token \in refused
    BY <1>1 DEF RequireReconnect, IsCurrent, DriveInv, CallsKnow, None
  <2>2. /\ drive' = [drive EXCEPT !.status = "Reauthorization Required", !.token = None]
        /\ call' = [call EXCEPT ![c] = NoCall]
        /\ reconnect' = [reconnect EXCEPT ![drive.generation] = IF @ = None THEN "Open" ELSE @]
        /\ UNCHANGED <<attempt, refused>>
    BY <1>1 DEF RequireReconnect
  <2>3. /\ drive'.status = "Reauthorization Required" /\ drive'.token = None
        /\ drive'.generation = drive.generation
        /\ drive' \in [status : Statuses, generation : 0 .. MaxGeneration,
                        token : Attempts \cup {None}]
    BY <2>2 DEF DriveInv, DriveTypeOK, Statuses
  <2>4. reconnect' \in [1 .. MaxGeneration -> {None, "Open", "Closed"}]
    BY <2>2 DEF DriveInv, DriveTypeOK
  <2>5. call' \in [Calls -> [step : {None, "refreshing", "refused"},
                             generation : 0 .. MaxGeneration,
                             token : Attempts \cup {None}]]
    BY <2>2, NoCallTyped DEF DriveInv, DriveTypeOK
  <2>6. DriveTypeOK' /\ Saved' = Saved
    BY <2>2, <2>3, <2>4, <2>5 DEF DriveInv, DriveTypeOK, Saved
  <2>7. CallsKnow'
    BY <2>2, <2>3, NoCallTyped DEF DriveInv, DriveTypeOK, CallsKnow
  <2> QED BY <2>1, <2>3, <2>6, <2>7 DEF DriveInv
<1>2. CASE ~ IsCurrent(c)
  BY <1>2, NoCallTyped, CallStep DEF RequireReconnect
<1> QED BY <1>1, <1>2

LEMMA CloseTaskKeeps ==
  ASSUME DriveInv, NEW g \in 1 .. MaxGeneration, CloseTask(g)
  PROVE  DriveInv'
BY DEF CloseTask, DriveInv, DriveTypeOK, Saved, CallsKnow

LEMMA DriveNextKeeps ==
  ASSUME DriveInv, MemberInv, [Next]_vars
  PROVE  /\ DriveInv'
         /\ drive.status = "Connected" /\ drive'.status = "Reauthorization Required" =>
              drive.token \in refused
<1>1. CASE UNCHANGED driveVars
  BY <1>1 DEF driveVars, DriveInv, DriveTypeOK, Saved, CallsKnow
<1>2. ASSUME NEW a \in Attempts,
             \/ \E u \in Users : Begin(u, a)
             \/ Exchange(a) \/ Abandon(a) \/ SaveRefused(a) \/ GoogleRefuses(a)
      PROVE  DriveInv' /\ UNCHANGED drive
  BY <1>2, AttemptKeeps, RefusesKeeps
     DEF Begin, Exchange, Abandon, SaveRefused, GoogleRefuses
<1>3. ASSUME NEW a \in Attempts, SaveConnection(a)
      PROVE  DriveInv' /\ drive'.status = "Connected"
  BY <1>3, SaveKeeps DEF SaveConnection
<1>4. ASSUME NEW u \in Users, DisconnectDrive(u)
      PROVE  DriveInv' /\ drive'.status = "Not Connected"
  BY <1>4, DisconnectKeeps DEF DisconnectDrive
<1>5. ASSUME NEW c \in Calls, CheckDrive(c) \/ DownloadSelected(c) \/ Refresh(c)
      PROVE  DriveInv' /\ UNCHANGED drive
  BY <1>5, ReadKeeps, RefreshKeeps DEF CheckDrive, DownloadSelected, ReadConnection, Refresh
<1>6. ASSUME NEW g \in 1 .. MaxGeneration, CloseTask(g) PROVE DriveInv' /\ UNCHANGED drive
  BY <1>6, CloseTaskKeeps DEF CloseTask
<1>7. CASE DriveNext
  BY <1>2, <1>3, <1>4, <1>5, <1>6, <1>7, RequireKeeps DEF DriveNext, ConnectDrive
<1> QED BY <1>1, <1>7 DEF Next, vars

LEMMA DriveInductive == Spec => [](MemberInv /\ DriveInv)
<1>1. MemberInv /\ DriveInv /\ [Next]_vars => DriveInv'
  BY DriveNextKeeps
<1> QED BY <1>1, DriveInitInv, MemberInductive, PTL DEF Spec

(* Memberships, requests, invitations, claims and the connection have      *)
(* their types, and a token is kept exactly as long as it is in use.       *)
THEOREM OrganizationTypeCorrect == Spec => []OrgTypeOK
<1>1. MemberInv /\ DriveInv => OrgTypeOK
  BY DEF MemberInv, MemberCore, DriveInv, OrgTypeOK
<1> QED BY <1>1, DriveInductive, PTL

(* However late the refusal of an older token is reported: the connection  *)
(* goes out of use only when its own token was refused (drive.go,          *)
(* RequireReconnect, and mark_drive_reconnect_required of migration 5).    *)
THEOREM OldRefusalsAreHarmless == Spec => StaleRefusalHarmless
<1>1. MemberInv /\ DriveInv /\ [Next]_vars =>
        [drive.status = "Connected" /\ drive'.status = "Reauthorization Required"
           => drive.token \in refused]_vars
  BY DriveNextKeeps
<1> QED BY <1>1, DriveInductive, PTL DEF Spec, StaleRefusalHarmless
=============================================================================
