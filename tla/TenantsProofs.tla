---------------------------- MODULE TenantsProofs ---------------------------
(***************************************************************************)
(* The services of a tenant: members and principals, and what holds of all *)
(* the services together, for every number of their rows, callers and      *)
(* faults.                                                                 *)
(*                                                                         *)
(* The composition follows one part at a time, but each step of it is a    *)
(* step of that part and leaves the others alone, so every behaviour of    *)
(* the whole is a behaviour of each part, and what was proved of the parts *)
(* holds of it.                                                            *)
(***************************************************************************)
EXTENDS MCTenants, WorkProofs, InboundProofs, SequenceTheorems

-----------------------------------------------------------------------------
(***************************************************************************)
(* Members and invitations.                                                *)
(*                                                                         *)
(* Every write that could take the last owner away is made by a            *)
(* transaction that counts the owners (OwnerKept is inductive), and a      *)
(* pending invitation is inserted by the statement that looks for another  *)
(* one. What an invitation route has read before its await only names the  *)
(* row (RequestsAim).                                                      *)
(***************************************************************************)
(* A request on an invitation names one; a transfer is to somebody else.   *)
RequestsAim ==
  \A r \in MemberRequests :
    /\ request[r].pc \in {"revoke", "resend", "revokeOld"} => request[r].invitation \in Invitations
    /\ request[r].pc = "transfer" => request[r].target # request[r].actor

(* The inductive invariant of memberships.                                 *)
MembershipInv ==
  /\ MembershipTypeOK
  /\ RequestsAim
  /\ OwnerKept
  /\ OnePendingPerEmail

(* The fields of a request and of an invitation.                           *)
LEMMA MemberRequestFields ==
  ASSUME NEW q \in MemberRequest
  PROVE  /\ q.pc \in RequestSteps /\ q.actor \in People /\ q.as \in Roles /\ q.target \in People
         /\ q.role \in Roles /\ q.key \in InviteKeys \cup {NoKey}
         /\ q.invitation \in Invitations \cup {"none"}
BY DEF MemberRequest

(* The fields of an invitation.                                            *)
LEMMA InvitationFields ==
  ASSUME NEW v \in Invitation
  PROVE  /\ v.status \in InvitationStatuses /\ v.email \in People /\ v.role \in Roles
         /\ v.key \in InviteKeys \cup {NoKey} /\ v.lapsed \in BOOLEAN
BY DEF Invitation

(* The idle request is a request.                                          *)
LEMMA IdleRequestTyped == IdleRequest \in MemberRequest
BY MembershipAssumption DEF IdleRequest, MemberRequest, RequestSteps, Roles

(* What a step does to the rows as the invariant sees it: roles change,    *)
(* invitations may leave the pending state, ...                            *)
LEMMA RequestAnswered ==
  ASSUME MembershipTypeOK, RequestsAim, NEW r \in MemberRequests, Answered(r)
  PROVE  request' \in [MemberRequests -> MemberRequest] /\ RequestsAim'
BY IdleRequestTyped DEF MembershipTypeOK, RequestsAim, Answered, IdleRequest

(* ... a request is entered, ...                                           *)
LEMMA RequestEntered ==
  ASSUME MembershipInv, NEW r \in MemberRequests, NEW p \in People, NEW q \in MemberRequest,
         Enter(r, p, q),
         q.pc \in {"revoke", "resend", "revokeOld"} => q.invitation \in Invitations,
         q.pc = "transfer" => q.target # p
  PROVE  MembershipInv'
<1>1. member[p] \in Roles
  BY DEF MembershipInv, MembershipTypeOK, Enter
<1>2. [q EXCEPT !.actor = p, !.as = member[p]] \in MemberRequest
  BY <1>1 DEF MemberRequest
<1>3. request' \in [MemberRequests -> MemberRequest] /\ requests' \in 0..MaxRequests
  BY <1>2, MembershipAssumption DEF MembershipInv, MembershipTypeOK, Enter
<1>4. RequestsAim'
  BY DEF MembershipInv, MembershipTypeOK, RequestsAim, Enter, MemberRequest
<1>. QED
  BY <1>3, <1>4 DEF MembershipInv, MembershipTypeOK, OwnerKept, Owners, OnePendingPerEmail, Enter

(* The routes enter well-formed requests.                                  *)
LEMMA RoutesEnter ==
  ASSUME MembershipInv, NEW r \in MemberRequests, NEW p \in People, NEW t \in People
  PROVE  /\ \A role \in Roles :
              UpsertMember(r, p, t, role) \/ ChangeMemberRole(r, p, t, role) => MembershipInv'
         /\ RemoveMember(r, p, t) \/ TransferOwnership(r, p, t) => MembershipInv'
         /\ \A role \in OfferedRoles, key \in InviteKeys \cup {NoKey} :
              CreateInvitation(r, p, t, role, key) => MembershipInv'
         /\ \A i \in Invitations :
              RevokeInvitation(r, p, i) \/ ResendInvitation(r, p, i) => MembershipInv'
<1>1. ASSUME NEW role \in Roles, UpsertMember(r, p, t, role)
      PROVE  MembershipInv'
  <2>. DEFINE q == [IdleRequest EXCEPT !.pc = "upsert", !.target = t, !.role = role]
  <2>1. q \in MemberRequest /\ q.pc = "upsert"
    BY IdleRequestTyped DEF IdleRequest, MemberRequest, RequestSteps
  <2>2. Enter(r, p, q)
    BY <1>1 DEF UpsertMember
  <2>. HIDE DEF q
  <2>. QED  BY <2>1, <2>2, RequestEntered
<1>2. ASSUME NEW role \in Roles, ChangeMemberRole(r, p, t, role)
      PROVE  MembershipInv'
  <2>. DEFINE q == [IdleRequest EXCEPT !.pc = "change", !.target = t, !.role = role]
  <2>1. q \in MemberRequest /\ q.pc = "change"
    BY IdleRequestTyped DEF IdleRequest, MemberRequest, RequestSteps
  <2>2. Enter(r, p, q)
    BY <1>2 DEF ChangeMemberRole
  <2>. HIDE DEF q
  <2>. QED  BY <2>1, <2>2, RequestEntered
<1>3. ASSUME RemoveMember(r, p, t)
      PROVE  MembershipInv'
  <2>. DEFINE q == [IdleRequest EXCEPT !.pc = "leave", !.target = t]
  <2>1. q \in MemberRequest /\ q.pc = "leave"
    BY IdleRequestTyped DEF IdleRequest, MemberRequest, RequestSteps
  <2>2. Enter(r, p, q)
    BY <1>3 DEF RemoveMember
  <2>. HIDE DEF q
  <2>. QED  BY <2>1, <2>2, RequestEntered
<1>4. ASSUME TransferOwnership(r, p, t)
      PROVE  MembershipInv'
  <2>. DEFINE q == [IdleRequest EXCEPT !.pc = "transfer", !.target = t]
  <2>1. q \in MemberRequest /\ q.pc = "transfer" /\ q.target # p
    BY <1>4, IdleRequestTyped DEF IdleRequest, MemberRequest, RequestSteps, TransferOwnership
  <2>2. Enter(r, p, q)
    BY <1>4 DEF TransferOwnership
  <2>. HIDE DEF q
  <2>. QED  BY <2>1, <2>2, RequestEntered
<1>5. ASSUME NEW role \in OfferedRoles, NEW key \in InviteKeys \cup {NoKey},
             CreateInvitation(r, p, t, role, key)
      PROVE  MembershipInv'
  <2>. DEFINE q == [IdleRequest EXCEPT !.pc = "invite", !.target = t, !.role = role, !.key = key]
  <2>1. q \in MemberRequest /\ q.pc = "invite"
    BY IdleRequestTyped, MembershipAssumption DEF IdleRequest, MemberRequest, RequestSteps, Roles
  <2>2. Enter(r, p, q)
    BY <1>5 DEF CreateInvitation
  <2>. HIDE DEF q
  <2>. QED  BY <2>1, <2>2, RequestEntered
<1>6. ASSUME NEW i \in Invitations, RevokeInvitation(r, p, i)
      PROVE  MembershipInv'
  <2>. DEFINE q == [IdleRequest EXCEPT !.pc = "revoke", !.invitation = i]
  <2>1. q \in MemberRequest /\ q.pc = "revoke" /\ q.invitation \in Invitations
    BY IdleRequestTyped DEF IdleRequest, MemberRequest, RequestSteps
  <2>2. Enter(r, p, q)
    BY <1>6 DEF RevokeInvitation
  <2>. HIDE DEF q
  <2>. QED  BY <2>1, <2>2, RequestEntered
<1>7. ASSUME NEW i \in Invitations, ResendInvitation(r, p, i)
      PROVE  MembershipInv'
  <2>. DEFINE q == [IdleRequest EXCEPT !.pc = "resend", !.invitation = i]
  <2>1. q \in MemberRequest /\ q.pc = "resend" /\ q.invitation \in Invitations
    BY IdleRequestTyped DEF IdleRequest, MemberRequest, RequestSteps
  <2>2. Enter(r, p, q)
    BY <1>7 DEF ResendInvitation
  <2>. HIDE DEF q
  <2>. QED  BY <2>1, <2>2, RequestEntered
<1>. QED
  BY <1>1, <1>2, <1>3, <1>4, <1>5, <1>6, <1>7

(* ... a step of GetMember moves a request on or ends it, ...              *)
LEMMA MemberGot ==
  ASSUME MembershipInv, NEW r \in MemberRequests, GetMember(r)
  PROVE  MembershipInv'
<1>. DEFINE q == request[r]
<1>1. q \in MemberRequest
  BY DEF MembershipInv, MembershipTypeOK
<1>2. PICK x \in {[q EXCEPT !.pc = "setRole"], [q EXCEPT !.pc = "add"],
                  [q EXCEPT !.pc = "remove"], IdleRequest} :
        request' = [request EXCEPT ![r] = x]
  BY DEF GetMember
<1>3. x \in MemberRequest /\ x.pc \in {"setRole", "add", "remove", "idle"}
  BY <1>1, IdleRequestTyped DEF MemberRequest, RequestSteps, IdleRequest
<1>4. request' \in [MemberRequests -> MemberRequest] /\ RequestsAim'
  BY <1>2, <1>3 DEF MembershipInv, MembershipTypeOK, RequestsAim
<1>. QED
  BY <1>4 DEF MembershipInv, MembershipTypeOK, OwnerKept, Owners, OnePendingPerEmail, GetMember

(* ... a role is written where another owner stays, ...                    *)
LEMMA RoleWritten ==
  ASSUME MembershipInv, NEW r \in MemberRequests,
         SetMemberRole(r) \/ AddMember(r) \/ DeleteMember(r)
  PROVE  MembershipInv'
<1>. DEFINE t == request[r].target
<1>1. request[r] \in MemberRequest /\ t \in People /\ request[r].role \in Roles
  BY MemberRequestFields DEF MembershipInv, MembershipTypeOK
<1>2. /\ Answered(r) /\ UNCHANGED <<invitation, requests>>
      /\ \/ member' = member
         \/ /\ member' = [member EXCEPT ![t] = request[r].role]
            /\ member[t] = "owner" /\ request[r].role # "owner" => ~LastOwner(t)
         \/ member[t] = "none" /\ member' = [member EXCEPT ![t] = request[r].role]
         \/ /\ member' = [member EXCEPT ![t] = "none"]
            /\ member[t] = "owner" => ~LastOwner(t)
  BY DEF SetMemberRole, AddMember, DeleteMember
<1>3. member' \in [People -> Roles \cup {"none"}]
  BY <1>1, <1>2 DEF MembershipInv, MembershipTypeOK
<1>4. PICK o \in People : member[o] = "owner" /\ (LastOwner(t) \/ member[t] # "owner" \/ o # t)
  BY DEF MembershipInv, OwnerKept, Owners, LastOwner
<1>5. Owners' # {}
  <2>1. CASE member[t] = "owner" /\ ~LastOwner(t)
    BY <1>1, <1>2, <1>4, <2>1 DEF Owners, MembershipInv, MembershipTypeOK
  <2>2. CASE member[t] = "owner" /\ LastOwner(t)
    <3>1. member'[t] = "owner"
      BY <1>1, <1>2, <2>2 DEF MembershipInv, MembershipTypeOK
    <3>. QED  BY <1>1, <3>1 DEF Owners
  <2>3. CASE member[t] # "owner"
    BY <1>1, <1>2, <1>4, <2>3 DEF Owners, MembershipInv, MembershipTypeOK
  <2>. QED  BY <2>1, <2>2, <2>3
<1>6. request' \in [MemberRequests -> MemberRequest] /\ RequestsAim'
  BY <1>2, RequestAnswered DEF MembershipInv
<1>. QED
  BY <1>2, <1>3, <1>5, <1>6 DEF MembershipInv, MembershipTypeOK, OwnerKept, OnePendingPerEmail

(* ... ownership passes to somebody else, ...                              *)
LEMMA OwnershipPassed ==
  ASSUME MembershipInv, NEW r \in MemberRequests, WriteTransfer(r)
  PROVE  MembershipInv'
<1>. DEFINE from == request[r].actor
            to == request[r].target
<1>1. request[r] \in MemberRequest /\ from \in People /\ to \in People
  BY MemberRequestFields DEF MembershipInv, MembershipTypeOK
<1>2. to # from
  BY DEF WriteTransfer, Step, MembershipInv, RequestsAim
<1>3. /\ Answered(r) /\ UNCHANGED <<invitation, requests>>
      /\ \/ member' = member
         \/ member' = [member EXCEPT ![to] = "owner", ![from] = "admin"]
  BY DEF WriteTransfer
<1>4. member' \in [People -> Roles \cup {"none"}]
  BY <1>1, <1>3 DEF MembershipInv, MembershipTypeOK, Roles
<1>5. Owners' # {}
  <2>1. CASE member' = member
    BY <2>1 DEF MembershipInv, OwnerKept, Owners
  <2>2. CASE member' = [member EXCEPT ![to] = "owner", ![from] = "admin"]
    <3>1. member'[to] = "owner"
      BY <1>1, <1>2, <2>2 DEF MembershipInv, MembershipTypeOK
    <3>. QED  BY <1>1, <3>1 DEF Owners
  <2>. QED  BY <1>3, <2>1, <2>2
<1>6. request' \in [MemberRequests -> MemberRequest] /\ RequestsAim'
  BY <1>3, RequestAnswered DEF MembershipInv
<1>. QED
  BY <1>3, <1>4, <1>5, <1>6 DEF MembershipInv, MembershipTypeOK, OwnerKept, OnePendingPerEmail

(* ... and the invitations of an email change: a row that is pending       *)
(* afterwards was pending before, under the same email.                    *)
NothingNewPending ==
  \A i \in Invitations : invitation'[i].status = "pending" =>
    invitation[i].status = "pending" /\ invitation'[i].email = invitation[i].email

(* When nothing becomes pending, an address keeps at most one open         *)
(* invitation.                                                             *)
LEMMA StillOnePending ==
  ASSUME OnePendingPerEmail, NothingNewPending
  PROVE  OnePendingPerEmail'
BY DEF OnePendingPerEmail, NothingNewPending

(* Deciding an invitation makes nothing pending.                           *)
LEMMA InvitationDecided ==
  ASSUME MembershipTypeOK, NEW i \in Invitations
  PROVE  /\ Revoked(i) \in [Invitations -> Invitation]
         /\ \A j \in Invitations : Revoked(i)[j].status = "pending" =>
              invitation[j].status = "pending" /\ Revoked(i)[j].email = invitation[j].email
<1>1. invitation \in [Invitations -> Invitation] /\ invitation[i] \in Invitation
  BY DEF MembershipTypeOK
<1>2. [invitation[i] EXCEPT !.status = "revoked"] \in Invitation
  BY <1>1 DEF Invitation, InvitationStatuses
<1>. QED
  BY <1>1, <1>2 DEF Revoked, Invitation

(* An invitation is inserted for an address that has none open.            *)
LEMMA InvitationInserted ==
  ASSUME MembershipInv, NEW r \in MemberRequests, InsertInvitation(r)
  PROVE  MembershipInv'
<1>. DEFINE q == request[r]
<1>1. q \in MemberRequest /\ q.target \in People /\ q.role \in Roles /\ q.key \in InviteKeys \cup {NoKey}
  BY MemberRequestFields DEF MembershipInv, MembershipTypeOK
<1>2. /\ Answered(r) /\ UNCHANGED <<member, requests>>
  BY DEF InsertInvitation
<1>3. request' \in [MemberRequests -> MemberRequest] /\ RequestsAim'
  BY <1>2, RequestAnswered DEF MembershipInv
<1>4. CASE UNCHANGED invitation
  BY <1>2, <1>3, <1>4 DEF MembershipInv, MembershipTypeOK, OwnerKept, Owners, OnePendingPerEmail
<1>5. ASSUME MayInvite(q.target, q.key),
             NEW i \in Invitations, invitation[i].status = "unwritten",
             invitation' = [j \in Invitations |->
               IF j = i THEN [status |-> "pending", email |-> q.target, role |-> q.role,
                              key |-> q.key, lapsed |-> FALSE]
               ELSE IF j \in InStatus(q.target, "pending") /\ invitation[j].lapsed
               THEN [invitation[j] EXCEPT !.status = "purged"]
               ELSE invitation[j]]
      PROVE  MembershipInv'
  <2>1. invitation' \in [Invitations -> Invitation]
    <3>1. [status |-> "pending", email |-> q.target, role |-> q.role,
           key |-> q.key, lapsed |-> FALSE] \in Invitation
      BY <1>1 DEF Invitation, InvitationStatuses
    <3>2. \A j \in Invitations :
            invitation[j] \in Invitation /\ [invitation[j] EXCEPT !.status = "purged"] \in Invitation
      BY DEF MembershipInv, MembershipTypeOK, Invitation, InvitationStatuses
    <3>. QED  BY <1>5, <3>1, <3>2
  <2>2. \A j \in Invitations : j # i /\ invitation'[j].status = "pending" =>
          /\ invitation[j].status = "pending" /\ invitation'[j].email = invitation[j].email
          /\ invitation[j].email # q.target
    <3>. SUFFICES ASSUME NEW j \in Invitations, j # i, invitation'[j].status = "pending"
                  PROVE  /\ invitation[j].status = "pending"
                         /\ invitation'[j].email = invitation[j].email
                         /\ invitation[j].email # q.target
      OBVIOUS
    <3>1. ~(j \in InStatus(q.target, "pending") /\ invitation[j].lapsed)
      BY <1>5 DEF MembershipInv, MembershipTypeOK, Invitation
    <3>2. invitation'[j] = invitation[j]
      BY <1>5, <3>1
    <3>. QED  BY <1>5, <3>1, <3>2 DEF MayInvite, InStatus
  <2>3. invitation'[i].email = q.target
    BY <1>5
  <2>4. OnePendingPerEmail'
    BY <2>2, <2>3 DEF MembershipInv, OnePendingPerEmail
  <2>. QED
    BY <1>2, <1>3, <2>1, <2>4 DEF MembershipInv, MembershipTypeOK, OwnerKept, Owners
<1>. QED
  BY <1>4, <1>5 DEF InsertInvitation

(* One is revoked, or the old one of a resend is.                          *)
LEMMA InvitationRevoked ==
  ASSUME MembershipInv, NEW r \in MemberRequests,
         WriteRevocation(r) \/ FindPending(r) \/ RevokeOld(r) \/ RequestCrash(r)
  PROVE  MembershipInv'
<1>. DEFINE i == request[r].invitation
            q == request[r]
<1>1. MembershipTypeOK /\ q \in MemberRequest
  BY DEF MembershipInv, MembershipTypeOK
<1>2. UNCHANGED <<member, requests>>
  BY DEF WriteRevocation, FindPending, RevokeOld, RequestCrash
<1>3. q.pc \in {"revoke", "resend", "revokeOld"} => i \in Invitations
  BY DEF MembershipInv, RequestsAim
<1>4. /\ invitation' \in [Invitations -> Invitation]
      /\ NothingNewPending
  <2>1. CASE UNCHANGED invitation
    BY <1>1, <2>1 DEF MembershipTypeOK, NothingNewPending
  <2>2. CASE WriteRevocation(r) \/ RevokeOld(r)
    BY <1>1, <1>3, <2>2, InvitationDecided DEF WriteRevocation, RevokeOld, Step, NothingNewPending
  <2>. QED  BY <2>1, <2>2 DEF FindPending, RequestCrash
<1>5. request' \in [MemberRequests -> MemberRequest] /\ RequestsAim'
  <2>1. CASE Answered(r)
    BY <2>1, RequestAnswered DEF MembershipInv
  <2>2. CASE /\ Step(r, "resend")
             /\ request' = [request EXCEPT ![r].pc = "revokeOld",
                                           ![r].target = invitation[i].email,
                                           ![r].role = invitation[i].role]
    <3>. DEFINE x == [q EXCEPT !.pc = "revokeOld", !.target = invitation[i].email,
                               !.role = invitation[i].role]
    <3>1. invitation[i].email \in People /\ invitation[i].role \in Roles
      BY <1>1, <1>3, <2>2, InvitationFields DEF Step, MembershipTypeOK
    <3>2. x \in MemberRequest /\ x.pc = "revokeOld" /\ x.invitation \in Invitations
      BY <1>1, <1>3, <2>2, <3>1 DEF MemberRequest, RequestSteps, Step
    <3>3. request' = [request EXCEPT ![r] = x]
      BY <2>2
    <3>. HIDE DEF x
    <3>. QED  BY <3>2, <3>3 DEF MembershipInv, MembershipTypeOK, RequestsAim
  <2>3. CASE request' = [request EXCEPT ![r].pc = "invite"]
    <3>. DEFINE x == [q EXCEPT !.pc = "invite"]
    <3>1. x \in MemberRequest /\ x.pc = "invite"
      BY <1>1 DEF MemberRequest, RequestSteps
    <3>2. request' = [request EXCEPT ![r] = x]
      BY <2>3
    <3>. HIDE DEF x
    <3>. QED  BY <3>1, <3>2 DEF MembershipInv, MembershipTypeOK, RequestsAim
  <2>. QED
    BY <2>1, <2>2, <2>3 DEF WriteRevocation, FindPending, RevokeOld, RequestCrash
<1>6. OnePendingPerEmail'
  BY <1>4, StillOnePending DEF MembershipInv
<1>. QED
  BY <1>1, <1>2, <1>4, <1>5, <1>6 DEF MembershipInv, MembershipTypeOK, OwnerKept, Owners

(* One is accepted, or lapses.                                             *)
LEMMA InvitationAnswered ==
  ASSUME MembershipInv,
         \/ \E i \in Invitations : AcceptInvitation(i) \/ InvitationLapses(i)
         \/ ExpireInvitations
  PROVE  MembershipInv'
<1>1. \A i \in Invitations : invitation[i] \in Invitation
  BY DEF MembershipInv, MembershipTypeOK
<1>2. UNCHANGED <<request, requests>>
  BY DEF AcceptInvitation, InvitationLapses, ExpireInvitations
<1>3. CASE \E i \in Invitations : AcceptInvitation(i)
  <2>1. PICK i \in Invitations : AcceptInvitation(i)
    BY <1>3
  <2>2. [invitation[i] EXCEPT !.status = "accepted"] \in Invitation
    BY <1>1 DEF Invitation, InvitationStatuses
  <2>3. invitation' \in [Invitations -> Invitation] /\ NothingNewPending
    BY <1>1, <2>1, <2>2 DEF AcceptInvitation, NothingNewPending, MembershipInv, MembershipTypeOK, Invitation
  <2>4. member' \in [People -> Roles \cup {"none"}]
    BY <1>1, <2>1, InvitationFields DEF AcceptInvitation, MembershipInv, MembershipTypeOK
  <2>5. \A p \in People : member[p] = "owner" => member'[p] = "owner"
    BY <1>1, <2>1, InvitationFields DEF AcceptInvitation, Acceptable, MembershipInv, MembershipTypeOK
  <2>6. OwnerKept' /\ OnePendingPerEmail'
    BY <2>3, <2>5, StillOnePending DEF MembershipInv, OwnerKept, Owners
  <2>. QED
    BY <1>2, <2>3, <2>4, <2>6 DEF MembershipInv, MembershipTypeOK, RequestsAim
<1>4. CASE \E i \in Invitations : InvitationLapses(i)
  <2>1. PICK i \in Invitations : InvitationLapses(i)
    BY <1>4
  <2>2. [invitation[i] EXCEPT !.lapsed = TRUE] \in Invitation
    BY <1>1 DEF Invitation
  <2>3. invitation' \in [Invitations -> Invitation] /\ NothingNewPending
    BY <1>1, <2>1, <2>2 DEF InvitationLapses, NothingNewPending, MembershipInv, MembershipTypeOK, Invitation
  <2>. QED
    BY <1>2, <2>1, <2>3, StillOnePending
    DEF InvitationLapses, MembershipInv, MembershipTypeOK, RequestsAim, OwnerKept, Owners
<1>5. CASE ExpireInvitations
  <2>1. \A i \in Invitations : [invitation[i] EXCEPT !.status = "expired"] \in Invitation
    BY <1>1 DEF Invitation, InvitationStatuses
  <2>2. invitation' \in [Invitations -> Invitation] /\ NothingNewPending
    BY <1>1, <1>5, <2>1 DEF ExpireInvitations, NothingNewPending, Invitation
  <2>. QED
    BY <1>2, <1>5, <2>2, StillOnePending
    DEF ExpireInvitations, MembershipInv, MembershipTypeOK, RequestsAim, OwnerKept, Owners
<1>. QED
  BY <1>3, <1>4, <1>5

(* One owner and no invitations at the start.                              *)
LEMMA MembershipStarts == MembershipInit => MembershipInv
<1>. SUFFICES ASSUME MembershipInit PROVE MembershipInv
  OBVIOUS
<1>1. Unwritten \in Invitation
  BY MembershipAssumption DEF Unwritten, Invitation, InvitationStatuses, Roles
<1>2. MembershipTypeOK
  BY <1>1, IdleRequestTyped, MembershipAssumption DEF MembershipInit, MembershipTypeOK, Roles
<1>3. RequestsAim
  BY DEF MembershipInit, RequestsAim, IdleRequest
<1>4. OwnerKept
  BY MembershipAssumption DEF MembershipInit, OwnerKept, Owners
<1>5. OnePendingPerEmail
  BY DEF MembershipInit, OnePendingPerEmail, Unwritten
<1>. QED  BY <1>2, <1>3, <1>4, <1>5 DEF MembershipInv

(* Every step keeps the invariant.                                         *)
LEMMA MembershipSteps == MembershipInv /\ [MembershipNext]_memberVars => MembershipInv'
<1>. SUFFICES ASSUME MembershipInv, [MembershipNext]_memberVars PROVE MembershipInv'
  OBVIOUS
<1>1. CASE UNCHANGED memberVars
  BY <1>1 DEF memberVars, MembershipInv, MembershipTypeOK, RequestsAim, OwnerKept, Owners,
              OnePendingPerEmail
<1>2. ASSUME NEW r \in MemberRequests, NEW p \in People, NEW t \in People,
             \/ \E role \in Roles : UpsertMember(r, p, t, role) \/ ChangeMemberRole(r, p, t, role)
             \/ RemoveMember(r, p, t) \/ TransferOwnership(r, p, t)
             \/ \E role \in OfferedRoles, key \in InviteKeys \cup {NoKey} :
                  CreateInvitation(r, p, t, role, key)
             \/ \E i \in Invitations : RevokeInvitation(r, p, i) \/ ResendInvitation(r, p, i)
      PROVE  MembershipInv'
  BY <1>2, RoutesEnter
<1>3. ASSUME NEW r \in MemberRequests,
             \/ GetMember(r) \/ SetMemberRole(r) \/ AddMember(r) \/ DeleteMember(r)
             \/ WriteTransfer(r) \/ InsertInvitation(r) \/ WriteRevocation(r)
             \/ FindPending(r) \/ RevokeOld(r) \/ RequestCrash(r)
      PROVE  MembershipInv'
  BY <1>3, MemberGot, RoleWritten, OwnershipPassed, InvitationInserted, InvitationRevoked
<1>. QED
  BY <1>1, <1>2, <1>3, InvitationAnswered DEF MembershipNext

(* In every behaviour an organization keeps an owner and an address one    *)
(* open invitation at most (identity/store.ts, service.ts).                *)
THEOREM MembershipKept == MembershipSpec => []MembershipInv
BY MembershipStarts, MembershipSteps, PTL DEF MembershipSpec

(* InvitationDecidedForGood.                                               *)
LEMMA InvitationStep ==
  ASSUME MembershipTypeOK, RequestsAim, [MembershipNext]_memberVars, NEW i \in Invitations
  PROVE  /\ invitation[i].status \in {"accepted", "revoked", "expired"}
              => invitation'[i].status = invitation[i].status
         /\ invitation[i].status # "accepted" /\ invitation'[i].status = "accepted"
              => /\ member[invitation[i].email] = "none"
                 /\ member'[invitation[i].email] = invitation[i].role
<1>. DEFINE Goal ==
         /\ invitation[i].status \in {"accepted", "revoked", "expired"}
              => invitation'[i].status = invitation[i].status
         /\ invitation[i].status # "accepted" /\ invitation'[i].status = "accepted"
              => /\ member[invitation[i].email] = "none"
                 /\ member'[invitation[i].email] = invitation[i].role
<1>. SUFFICES Goal
  OBVIOUS
<1>1. \A j \in Invitations : invitation[j] \in Invitation
  BY DEF MembershipTypeOK
<1>2. CASE UNCHANGED invitation
  BY <1>2
<1>3. ASSUME NEW j \in Invitations, invitation' = Revoked(j)
      PROVE  Goal
  BY <1>1, <1>3 DEF Revoked, Revocable, MembershipTypeOK, Invitation
<1>4. ASSUME NEW r \in MemberRequests, WriteRevocation(r) \/ RevokeOld(r)
      PROVE  Goal
  BY <1>3, <1>4 DEF WriteRevocation, RevokeOld, Step, RequestsAim
<1>5. ASSUME NEW r \in MemberRequests, InsertInvitation(r), ~UNCHANGED invitation
      PROVE  Goal
  <2>. DEFINE q == request[r]
  <2>1. PICK j \in Invitations : /\ invitation[j].status = "unwritten"
          /\ invitation' = [k \in Invitations |->
               IF k = j THEN [status |-> "pending", email |-> q.target, role |-> q.role,
                              key |-> q.key, lapsed |-> FALSE]
               ELSE IF k \in InStatus(q.target, "pending") /\ invitation[k].lapsed
               THEN [invitation[k] EXCEPT !.status = "purged"]
               ELSE invitation[k]]
    BY <1>5 DEF InsertInvitation
  <2>2. \/ i = j
        \/ i # j /\ invitation[i].status = "pending" /\ invitation'[i].status = "purged"
        \/ invitation'[i] = invitation[i]
    BY <1>1, <2>1 DEF InStatus, Invitation
  <2>. QED  BY <2>1, <2>2
<1>6. ASSUME NEW j \in Invitations, AcceptInvitation(j)
      PROVE  Goal
  <2>1. invitation' \in [Invitations -> Invitation] =>
          invitation'[j].status = "accepted" /\ (i # j => invitation'[i] = invitation[i])
    BY <1>1, <1>6 DEF AcceptInvitation, MembershipTypeOK, Invitation
  <2>2. member'[invitation[j].email] = invitation[j].role
    BY <1>1, <1>6, InvitationFields DEF AcceptInvitation, MembershipTypeOK
  <2>3. i # j => invitation'[i] = invitation[i]
    BY <1>6 DEF AcceptInvitation, MembershipTypeOK
  <2>. QED  BY <1>6, <2>2, <2>3 DEF AcceptInvitation, Acceptable
<1>7. ASSUME NEW j \in Invitations, InvitationLapses(j)
      PROVE  Goal
  BY <1>1, <1>7 DEF InvitationLapses, MembershipTypeOK, Invitation
<1>8. CASE ExpireInvitations
  BY <1>1, <1>8 DEF ExpireInvitations, Invitation
<1>10. ASSUME NEW r \in MemberRequests, NEW p \in People, NEW t \in People,
              \/ \E role \in Roles : UpsertMember(r, p, t, role) \/ ChangeMemberRole(r, p, t, role)
              \/ RemoveMember(r, p, t) \/ TransferOwnership(r, p, t)
              \/ \E role \in OfferedRoles, key \in InviteKeys \cup {NoKey} :
                   CreateInvitation(r, p, t, role, key)
              \/ \E j \in Invitations : RevokeInvitation(r, p, j) \/ ResendInvitation(r, p, j)
       PROVE  Goal
  <2>1. UNCHANGED invitation
    BY <1>10 DEF UpsertMember, ChangeMemberRole, RemoveMember, TransferOwnership,
                 CreateInvitation, RevokeInvitation, ResendInvitation, Enter
  <2>. QED  BY <1>2, <2>1
<1>11. ASSUME NEW r \in MemberRequests,
              \/ GetMember(r) \/ SetMemberRole(r) \/ AddMember(r) \/ DeleteMember(r)
              \/ WriteTransfer(r) \/ FindPending(r) \/ RequestCrash(r)
       PROVE  Goal
  <2>1. UNCHANGED invitation
    BY <1>11 DEF GetMember, SetMemberRole, AddMember, DeleteMember, WriteTransfer, FindPending,
                 RequestCrash
  <2>. QED  BY <1>2, <2>1
<1>12. CASE UNCHANGED memberVars
  BY <1>2, <1>12 DEF memberVars
<1>13. CASE MembershipNext
  <2>. HIDE DEF Goal
  <2>1. CASE \E r \in MemberRequests :
               InsertInvitation(r) \/ WriteRevocation(r) \/ RevokeOld(r)
    BY <1>2, <1>4, <1>5, <2>1
  <2>2. CASE \E j \in Invitations : AcceptInvitation(j) \/ InvitationLapses(j)
    BY <1>6, <1>7, <2>2
  <2>3. CASE \E r \in MemberRequests :
              \/ GetMember(r) \/ SetMemberRole(r) \/ AddMember(r) \/ DeleteMember(r)
              \/ WriteTransfer(r) \/ FindPending(r) \/ RequestCrash(r)
    BY <1>11, <2>3
  <2>4. CASE \E r \in MemberRequests :
              \/ \E p, t \in People :
                   \/ \E role \in Roles : UpsertMember(r, p, t, role) \/ ChangeMemberRole(r, p, t, role)
                   \/ RemoveMember(r, p, t) \/ TransferOwnership(r, p, t)
                   \/ \E role \in OfferedRoles, key \in InviteKeys \cup {NoKey} :
                        CreateInvitation(r, p, t, role, key)
              \/ \E p \in People, j \in Invitations :
                   RevokeInvitation(r, p, j) \/ ResendInvitation(r, p, j)
    BY <1>10, <2>4
  <2>. QED
    BY <1>8, <1>13, <2>1, <2>2, <2>3, <2>4 DEF MembershipNext
<1>. QED
  BY <1>12, <1>13

(* A decided invitation stays decided, and an accepted one makes its       *)
(* member (identity/store.ts acceptInvitation, revokeInvitation).          *)
THEOREM DecidedInvitationsStand == MembershipSpec => InvitationDecidedForGood
<1>1. MembershipInv /\ [MembershipNext]_memberVars =>
        [\A i \in Invitations :
           /\ invitation[i].status \in {"accepted", "revoked", "expired"}
                => invitation'[i].status = invitation[i].status
           /\ invitation[i].status # "accepted" /\ invitation'[i].status = "accepted"
                => /\ member[invitation[i].email] = "none"
                   /\ member'[invitation[i].email] = invitation[i].role]_memberVars
  BY InvitationStep DEF MembershipInv
<1>. QED
  BY <1>1, MembershipKept, PTL DEF MembershipSpec, InvitationDecidedForGood

-----------------------------------------------------------------------------
(***************************************************************************)
(* Keys, service identities and sessions.                                  *)
(*                                                                         *)
(* A withdrawal is never undone (Withdrawals). When a request begins after *)
(* one, the reason it must be refused is still stored at each of its       *)
(* steps, and one of the checks to come looks at it (BarredIsStopped);     *)
(* after the last check nothing barred is left.                            *)
(***************************************************************************)
(* An operation holds what its step is about.                              *)
OpFits(o) ==
  /\ op[o].pc \in {"key", "overlap", "replace"} => op[o].subject \in ApiKeys
  /\ op[o].pc = "credential" => op[o].subject \in Credentials
  /\ op[o].pc \in {"open", "registry", "user", "tie"} => op[o].subject \in Sessions

(* What was withdrawn when an authentication began still stops it: at each *)
(* step the reason is one that the steps still to come look at, and after  *)
(* the last look nothing barred is left.                                   *)
OpStopped(o) ==
  op[o].barred =>
    /\ op[o].pc = "key" => apiKey[op[o].subject].state = "revoked" \/ ~isMember
    /\ op[o].pc = "member" => ~isMember
    /\ op[o].pc = "credential" =>
         \/ credential[op[o].subject].state = "revoked" \/ credential[op[o].subject].lapsed
         \/ service.status = "revoked"
    /\ op[o].pc = "identity" => service.status = "revoked"
    /\ op[o].pc = "open" => session[op[o].subject].state = "revoked" \/ user = "disabled"
    /\ op[o].pc \in {"registry", "user"} => user = "disabled"
    /\ op[o].pc \notin {"resolve", "tie", "granted"}

(* For all operations.                                                     *)
SubjectsFit == \A o \in AuthOps : OpFits(o)
BarredIsStopped == \A o \in AuthOps : OpStopped(o)

(* The inductive invariant of principals.                                  *)
PrincipalsInv ==
  /\ PrincipalsTypeOK
  /\ SubjectsFit
  /\ BarredIsStopped

(* No row of a key, credential, identity, session or user ever leaves the  *)
(* withdrawn state, and a removed member stays out.                        *)
Withdrawals ==
  /\ \A k \in ApiKeys : apiKey[k].state = "revoked" => apiKey'[k].state = "revoked"
  /\ isMember' => isMember
  /\ \A c \in Credentials :
       /\ credential[c].state = "revoked" => credential'[c].state = "revoked"
       /\ credential[c].lapsed => credential'[c].lapsed
  /\ service.status = "revoked" => service'.status = "revoked"
  /\ \A s \in Sessions : session[s].state = "revoked" => session'[s].state = "revoked"
  /\ user = "disabled" => user' = "disabled"

(* Steps on keys: the rows keep their types and revocations stand.         *)
LEMMA KeysTyped ==
  ASSUME PrincipalsTypeOK, SubjectsFit, KeyNext
  PROVE  /\ apiKey' \in [ApiKeys -> ApiKey] /\ isMember' \in BOOLEAN
         /\ \A k \in ApiKeys : apiKey[k].state = "revoked" => apiKey'[k].state = "revoked"
         /\ isMember' => isMember
         /\ UNCHANGED <<serviceVars, sessionVars>>
<1>. DEFINE Goal ==
         /\ apiKey' \in [ApiKeys -> ApiKey] /\ isMember' \in BOOLEAN
         /\ \A k \in ApiKeys : apiKey[k].state = "revoked" => apiKey'[k].state = "revoked"
         /\ isMember' => isMember
         /\ UNCHANGED <<serviceVars, sessionVars>>
<1>. SUFFICES Goal
  OBVIOUS
<1>1. ASSUME NEW k \in ApiKeys, RevokeApiKey(k) \/ OverlapEnds(k)
      PROVE  Goal
  BY <1>1 DEF RevokeApiKey, OverlapEnds, PrincipalsTypeOK, ApiKey
<1>2. ASSUME NEW k \in ApiKeys, NEW lapsed \in BOOLEAN, CreateApiKey(k, lapsed) \/ ExpireApiKey(k, lapsed)
      PROVE  Goal
  BY <1>2 DEF CreateApiKey, ExpireApiKey, NewKey, PrincipalsTypeOK, ApiKey
<1>3. ASSUME NEW k \in ApiKeys, NEW lapsed \in BOOLEAN, NEW o \in AuthOps, InsertReplacement(o, k, lapsed)
      PROVE  Goal
  BY <1>3 DEF InsertReplacement, OpAt, NewKey, PrincipalsTypeOK, SubjectsFit, OpFits, ApiKey
<1>4. ASSUME NEW k \in ApiKeys, NEW o \in AuthOps, RotateApiKey(o, k) \/ AuthenticateApiKey(o, k)
      PROVE  Goal
  <2>1. UNCHANGED <<keyVars, serviceVars, sessionVars>>
    BY <1>4 DEF RotateApiKey, AuthenticateApiKey
  <2>. QED  BY <2>1 DEF keyVars, PrincipalsTypeOK
<1>5. ASSUME NEW o \in AuthOps, SetOverlap(o)
      PROVE  Goal
  BY <1>5 DEF SetOverlap, OpAt, PrincipalsTypeOK, SubjectsFit, OpFits, ApiKey
<1>6. ASSUME NEW o \in AuthOps, CheckKey(o) \/ CheckMember(o) \/ OpOver(o)
      PROVE  Goal
  BY <1>6 DEF CheckKey, CheckMember, OpOver, keyVars, PrincipalsTypeOK
<1>7. CASE ReapExpiredKeys
  BY <1>7 DEF ReapExpiredKeys, Reapable, PrincipalsTypeOK, ApiKey
<1>8. CASE MemberRemoved
  BY <1>8 DEF MemberRemoved, PrincipalsTypeOK
<1>. HIDE DEF Goal
<1>. QED
  BY <1>1, <1>2, <1>3, <1>4, <1>5, <1>6, <1>7, <1>8 DEF KeyNext

(* Steps on service identities.                                            *)
LEMMA ServicesTyped ==
  ASSUME PrincipalsTypeOK, SubjectsFit, ServiceNext
  PROVE  /\ service' \in ServiceIdentity /\ credential' \in [Credentials -> MachineCredential]
         /\ \A c \in Credentials :
              /\ credential[c].state = "revoked" => credential'[c].state = "revoked"
              /\ credential[c].lapsed => credential'[c].lapsed
         /\ service.status = "revoked" => service'.status = "revoked"
         /\ UNCHANGED <<keyVars, sessionVars>>
<1>. DEFINE Goal ==
         /\ service' \in ServiceIdentity /\ credential' \in [Credentials -> MachineCredential]
         /\ \A c \in Credentials :
              /\ credential[c].state = "revoked" => credential'[c].state = "revoked"
              /\ credential[c].lapsed => credential'[c].lapsed
         /\ service.status = "revoked" => service'.status = "revoked"
         /\ UNCHANGED <<keyVars, sessionVars>>
<1>. SUFFICES Goal
  OBVIOUS
<1>1. ASSUME NEW o \in AuthOps, CreateServiceIdentity(o) \/ RegisterPrincipal(o)
      PROVE  Goal
  BY <1>1 DEF CreateServiceIdentity, RegisterPrincipal, PrincipalsTypeOK, ServiceIdentity
<1>2. ASSUME NEW o \in AuthOps,
             \/ IssueCredential(o) \/ CheckCredential(o) \/ CheckIdentity(o) \/ ResolvePrincipal(o)
             \/ OpOver(o)
      PROVE  Goal
  BY <1>2 DEF IssueCredential, CheckCredential, CheckIdentity, ResolvePrincipal, OpOver,
              serviceVars, PrincipalsTypeOK
<1>3. ASSUME NEW o \in AuthOps, NEW c \in Credentials, AuthenticateMachineCredential(o, c)
      PROVE  Goal
  BY <1>3 DEF AuthenticateMachineCredential, serviceVars, PrincipalsTypeOK
<1>4. ASSUME NEW o \in AuthOps, NEW c \in Credentials, RecordMachineCredential(o, c)
      PROVE  Goal
  BY <1>4 DEF RecordMachineCredential, PrincipalsTypeOK, MachineCredential
<1>5. CASE DisableServiceIdentity \/ EnableServiceIdentity
  BY <1>5 DEF DisableServiceIdentity, EnableServiceIdentity, MayEnable, PrincipalsTypeOK, ServiceIdentity
<1>6. CASE RevokeServiceIdentity
  <2>1. \A c \in Credentials : /\ credential[c] \in MachineCredential
                               /\ [credential[c] EXCEPT !.state = "revoked"] \in MachineCredential
    BY DEF PrincipalsTypeOK, MachineCredential
  <2>2. credential' \in [Credentials -> MachineCredential]
    BY <1>6, <2>1 DEF RevokeServiceIdentity
  <2>. QED  BY <1>6, <2>2 DEF RevokeServiceIdentity, PrincipalsTypeOK, MachineCredential, ServiceIdentity
<1>7. ASSUME NEW c \in Credentials, RevokeCredential(c) \/ CredentialExpires(c)
      PROVE  Goal
  <2>1. /\ credential[c] \in MachineCredential
        /\ [credential[c] EXCEPT !.state = "revoked"] \in MachineCredential
        /\ [credential[c] EXCEPT !.lapsed = TRUE] \in MachineCredential
    BY DEF PrincipalsTypeOK, MachineCredential
  <2>2. credential' \in [Credentials -> MachineCredential]
    BY <1>7, <2>1 DEF RevokeCredential, CredentialExpires, PrincipalsTypeOK
  <2>3. \A d \in Credentials : credential'[d] \in {credential[d],
          [credential[d] EXCEPT !.state = "revoked"], [credential[d] EXCEPT !.lapsed = TRUE]}
    BY <1>7 DEF RevokeCredential, CredentialExpires, PrincipalsTypeOK
  <2>4. /\ credential[c].state = "live"
        /\ \A d \in Credentials : d # c => credential'[d] = credential[d]
        /\ UNCHANGED <<keyVars, service, sessionVars>>
    BY <1>7 DEF RevokeCredential, CredentialExpires, PrincipalsTypeOK
  <2>. QED  BY <2>1, <2>2, <2>3, <2>4 DEF PrincipalsTypeOK, MachineCredential
<1>. HIDE DEF Goal
<1>. QED
  BY <1>1, <1>2, <1>3, <1>4, <1>5, <1>6, <1>7 DEF ServiceNext

(* Steps on sessions and users.                                            *)
LEMMA SessionsTyped ==
  ASSUME PrincipalsTypeOK, SubjectsFit, SessionNext
  PROVE  /\ user' \in {"absent", "active", "disabled"} /\ session' \in [Sessions -> SessionRecord]
         /\ \A s \in Sessions :
              /\ session[s].state = "revoked" => session'[s].state = "revoked"
              /\ session[s].tenant # NoTenant => session'[s].tenant = session[s].tenant
         /\ user = "disabled" => user' = "disabled"
         /\ UNCHANGED <<keyVars, serviceVars>>
<1>. DEFINE Goal ==
         /\ user' \in {"absent", "active", "disabled"} /\ session' \in [Sessions -> SessionRecord]
         /\ \A s \in Sessions :
              /\ session[s].state = "revoked" => session'[s].state = "revoked"
              /\ session[s].tenant # NoTenant => session'[s].tenant = session[s].tenant
         /\ user = "disabled" => user' = "disabled"
         /\ UNCHANGED <<keyVars, serviceVars>>
<1>. SUFFICES Goal
  OBVIOUS
<1>1. \A t : RevokedIn(t) \in [Sessions -> SessionRecord]
             /\ \A s \in Sessions : /\ session[s].state = "revoked" => RevokedIn(t)[s].state = "revoked"
                                    /\ RevokedIn(t)[s].tenant = session[s].tenant
  <2>1. \A s \in Sessions : /\ session[s] \in SessionRecord
                            /\ [session[s] EXCEPT !.state = "revoked"] \in SessionRecord
                            /\ [session[s] EXCEPT !.state = "revoked"].tenant = session[s].tenant
                            /\ [session[s] EXCEPT !.state = "revoked"].state = "revoked"
    BY DEF PrincipalsTypeOK, SessionRecord
  <2>. QED  BY <2>1 DEF RevokedIn
<1>2. ASSUME NEW o \in AuthOps, NEW s \in Sessions, NEW t \in Tenants, ResolveSession(o, s, t)
      PROVE  Goal
  BY <1>2 DEF ResolveSession, sessionVars, PrincipalsTypeOK
<1>3. ASSUME NEW o \in AuthOps, GetSession(o) \/ OpOver(o)
      PROVE  Goal
  BY <1>3 DEF GetSession, OpOver, sessionVars, PrincipalsTypeOK
<1>4. ASSUME NEW o \in AuthOps, RegisterSession(o)
      PROVE  Goal
  BY <1>4 DEF RegisterSession, OpAt, SubjectsFit, OpFits, PrincipalsTypeOK, SessionRecord
<1>5. ASSUME NEW o \in AuthOps, CheckUser(o)
      PROVE  Goal
  BY <1>5 DEF CheckUser, UserMayEnter, PrincipalsTypeOK
<1>6. ASSUME NEW o \in AuthOps, TieSessionAnchors(o)
      PROVE  Goal
  <2>1. op[o].subject \in Sessions /\ op[o].tenant \in Tenants \cup {NoTenant}
    BY <1>6 DEF TieSessionAnchors, OpAt, SubjectsFit, OpFits, PrincipalsTypeOK, Op
  <2>. QED  BY <1>6, <2>1 DEF TieSessionAnchors, Anchored, PrincipalsTypeOK, SessionRecord
<1>7. ASSUME NEW o \in AuthOps, NEW t \in Tenants, DisableUser(o, t)
      PROVE  Goal
  BY <1>7 DEF DisableUser, PrincipalsTypeOK
<1>8. ASSUME NEW o \in AuthOps, RevokeDisabledSessions(o)
      PROVE  Goal
  BY <1>1, <1>8 DEF RevokeDisabledSessions, PrincipalsTypeOK
<1>9. ASSUME NEW s \in Sessions, RevokeSession(s)
      PROVE  Goal
  BY <1>9 DEF RevokeSession, PrincipalsTypeOK, SessionRecord
<1>10. ASSUME NEW t \in Tenants, RevokeUserSessions(t)
      PROVE  Goal
  BY <1>1, <1>10 DEF RevokeUserSessions, PrincipalsTypeOK
<1>. HIDE DEF Goal
<1>. QED
  BY <1>2, <1>3, <1>4, <1>5, <1>6, <1>7, <1>8, <1>9, <1>10 DEF SessionNext

(* One operation moves, to a step whose reason the rows still give; the    *)
(* others keep theirs.                                                     *)
(* The operations are typed, fit and stopped as they must be.              *)
OpsRight == op \in [AuthOps -> Op] /\ opsStarted \in 0..MaxAuthOps /\ SubjectsFit /\ BarredIsStopped

(* An operation that does not move is still stopped.                       *)
LEMMA OtherOpsStay ==
  ASSUME PrincipalsInv, Withdrawals, NEW o \in AuthOps,
         op'[o] = op[o]
  PROVE  OpFits(o)' /\ OpStopped(o)'
<1>1. OpFits(o) /\ OpStopped(o) /\ op[o] \in Op
  BY DEF PrincipalsInv, SubjectsFit, BarredIsStopped, PrincipalsTypeOK
<1>2. OpFits(o)'
  BY <1>1 DEF OpFits
<1>. QED  BY <1>1, <1>2 DEF OpFits, OpStopped, Withdrawals

(* One operation moves.                                                    *)
LEMMA OpMoves ==
  ASSUME PrincipalsInv, Withdrawals, NEW o \in AuthOps, NEW x \in Op,
         op' = [op EXCEPT ![o] = x], opsStarted' \in 0..MaxAuthOps,
         op'[o] = x => OpFits(o)' /\ OpStopped(o)'
  PROVE  OpsRight'
<1>1. op \in [AuthOps -> Op]
  BY DEF PrincipalsInv, PrincipalsTypeOK
<1>2. op' \in [AuthOps -> Op] /\ op'[o] = x /\ \A p \in AuthOps \ {o} : op'[p] = op[p]
  BY <1>1
<1>3. \A p \in AuthOps : OpFits(p)' /\ OpStopped(p)'
  BY <1>2, OtherOpsStay
<1>. QED  BY <1>2, <1>3 DEF OpsRight, SubjectsFit, BarredIsStopped

(* None moves.                                                             *)
LEMMA OpsStay ==
  ASSUME PrincipalsInv, Withdrawals, UNCHANGED <<op, opsStarted>>
  PROVE  OpsRight'
<1>1. \A p \in AuthOps : OpFits(p)' /\ OpStopped(p)'
  BY OtherOpsStay
<1>. QED  BY <1>1 DEF OpsRight, SubjectsFit, BarredIsStopped, PrincipalsInv, PrincipalsTypeOK

(* The idle operation.                                                     *)
LEMMA IdleOpTyped == IdleOp \in Op
BY DEF IdleOp, Op, OpSteps

(* An operation is refused, or is over.                                    *)
LEMMA OpRefused ==
  ASSUME PrincipalsInv, Withdrawals, NEW o \in AuthOps, OpEnds(o)
  PROVE  OpsRight'
<1>1. op' = [op EXCEPT ![o] = IdleOp] /\ opsStarted' \in 0..MaxAuthOps
  BY DEF OpEnds, PrincipalsInv, PrincipalsTypeOK
<1>2. op'[o] = IdleOp => OpFits(o)' /\ OpStopped(o)'
  BY DEF OpFits, OpStopped, IdleOp
<1>. QED  BY <1>1, <1>2, OpMoves, IdleOpTyped

(* A step goes on to another one with the same subject.                    *)
LEMMA OpGoesOn ==
  ASSUME PrincipalsInv, Withdrawals, NEW o \in AuthOps, NEW pc \in OpSteps, OpGoto(o, pc),
         op'[o] = [op[o] EXCEPT !.pc = pc] => OpFits(o)' /\ OpStopped(o)'
  PROVE  OpsRight'
<1>1. op[o] \in Op
  BY DEF PrincipalsInv, PrincipalsTypeOK
<1>. DEFINE x == [op[o] EXCEPT !.pc = pc]
<1>2. x \in Op
  BY <1>1 DEF Op
<1>3. op' = [op EXCEPT ![o] = x] /\ opsStarted' \in 0..MaxAuthOps
  BY DEF OpGoto, PrincipalsInv, PrincipalsTypeOK
<1>4. op'[o] = x => OpFits(o)' /\ OpStopped(o)'
  OBVIOUS
<1>. HIDE DEF x
<1>. QED  BY <1>2, <1>3, <1>4, OpMoves

(* An operation begins: what is barred is what is withdrawn now.           *)
LEMMA OpBegins ==
  ASSUME PrincipalsInv, Withdrawals, NEW o \in AuthOps, NEW pc \in OpSteps,
         NEW subject \in ApiKeys \cup Credentials \cup Sessions \cup {NoKeyId},
         NEW tenant \in Tenants \cup {NoTenant}, NEW barred \in BOOLEAN,
         BeginOp(o, pc, subject, tenant, barred),
         op'[o] = [pc |-> pc, subject |-> subject, tenant |-> tenant,
                   saw |-> NoTenant, barred |-> barred] => OpFits(o)' /\ OpStopped(o)'
  PROVE  OpsRight'
<1>. DEFINE x == [pc |-> pc, subject |-> subject, tenant |-> tenant,
                  saw |-> NoTenant, barred |-> barred]
<1>1. x \in Op
  BY DEF Op
<1>2. op' = [op EXCEPT ![o] = x]
  BY DEF BeginOp
<1>3. opsStarted' \in 0..MaxAuthOps
  BY PrincipalsAssumption DEF BeginOp, PrincipalsInv, PrincipalsTypeOK
<1>4. op'[o] = x => OpFits(o)' /\ OpStopped(o)'
  OBVIOUS
<1>. HIDE DEF x
<1>. QED  BY <1>1, <1>2, <1>3, <1>4, OpMoves

(* Operations on keys.                                                     *)
LEMMA KeyOps ==
  ASSUME PrincipalsInv, Withdrawals, KeyNext
  PROVE  OpsRight'
<1>1. CASE NoOp
  BY <1>1, OpsStay DEF NoOp
<1>2. ASSUME NEW o \in AuthOps, OpEnds(o)
      PROVE  OpsRight'
  BY <1>2, OpRefused
<1>3. ASSUME NEW o \in AuthOps, NEW k \in ApiKeys, RotateApiKey(o, k)
      PROVE  OpsRight'
  <2>1. BeginOp(o, "overlap", k, NoTenant, FALSE) /\ "overlap" \in OpSteps
    BY <1>3 DEF RotateApiKey, OpSteps
  <2>2. op'[o] = [pc |-> "overlap", subject |-> k, tenant |-> NoTenant,
                  saw |-> NoTenant, barred |-> FALSE] => OpFits(o)' /\ OpStopped(o)'
    BY DEF OpFits, OpStopped
  <2>. QED  BY <2>1, <2>2, OpBegins
<1>4. ASSUME NEW o \in AuthOps, NEW k \in ApiKeys, AuthenticateApiKey(o, k)
      PROVE  OpsRight'
  <2>. DEFINE b == apiKey[k].state = "revoked" \/ ~isMember
  <2>1. BeginOp(o, "key", k, NoTenant, b) /\ "key" \in OpSteps /\ b \in BOOLEAN
    BY <1>4 DEF AuthenticateApiKey, OpSteps
  <2>2. b => apiKey'[k].state = "revoked" \/ ~isMember'
    BY DEF Withdrawals
  <2>. HIDE DEF b
  <2>3. op'[o] = [pc |-> "key", subject |-> k, tenant |-> NoTenant,
                  saw |-> NoTenant, barred |-> b] => OpFits(o)' /\ OpStopped(o)'
    BY <2>2 DEF OpFits, OpStopped
  <2>. QED  BY <2>1, <2>3, OpBegins
<1>5. ASSUME NEW o \in AuthOps, SetOverlap(o)
      PROVE  OpsRight'
  <2>1. OpGoto(o, "replace") /\ "replace" \in OpSteps /\ OpAt(o, "overlap")
    BY <1>5 DEF SetOverlap, OpSteps
  <2>2. op'[o] = [op[o] EXCEPT !.pc = "replace"] => OpFits(o)' /\ OpStopped(o)'
    BY <2>1 DEF OpFits, OpStopped, OpAt, PrincipalsInv, PrincipalsTypeOK, Op, SubjectsFit
  <2>. QED  BY <2>1, <2>2, OpGoesOn
<1>6. ASSUME NEW o \in AuthOps, CheckKey(o)
      PROVE  OpsRight'
  <2>1. CASE KeyUsable(op[o].subject)
    <3>1. OpGoto(o, "member") /\ "member" \in OpSteps /\ OpAt(o, "key") /\ op[o] \in Op
      BY <1>6, <2>1 DEF CheckKey, Proceed, OpSteps, PrincipalsInv, PrincipalsTypeOK
    <3>2. op[o].barred => ~isMember
      BY <2>1, <3>1 DEF KeyUsable, OpAt, PrincipalsInv, BarredIsStopped, OpStopped
    <3>3. op'[o] = [op[o] EXCEPT !.pc = "member"] => OpFits(o)' /\ OpStopped(o)'
      BY <3>1, <3>2 DEF OpFits, OpStopped, Withdrawals, Op
    <3>. QED  BY <3>1, <3>3, OpGoesOn
  <2>2. CASE ~KeyUsable(op[o].subject)
    BY <1>2, <1>6, <2>2 DEF CheckKey, Proceed
  <2>. QED  BY <2>1, <2>2
<1>7. ASSUME NEW o \in AuthOps, CheckMember(o)
      PROVE  OpsRight'
  <2>1. CASE isMember
    <3>1. OpGoto(o, "granted") /\ "granted" \in OpSteps /\ OpAt(o, "member") /\ op[o] \in Op
      BY <1>7, <2>1 DEF CheckMember, Proceed, OpSteps, PrincipalsInv, PrincipalsTypeOK
    <3>2. ~op[o].barred
      BY <2>1, <3>1 DEF OpAt, PrincipalsInv, BarredIsStopped, OpStopped
    <3>3. op'[o] = [op[o] EXCEPT !.pc = "granted"] => OpFits(o)' /\ OpStopped(o)'
      BY <3>1, <3>2 DEF OpFits, OpStopped, Op
    <3>. QED  BY <3>1, <3>3, OpGoesOn
  <2>2. CASE ~isMember
    BY <1>2, <1>7, <2>2 DEF CheckMember, Proceed
  <2>. QED  BY <2>1, <2>2
<1>8. ASSUME NEW k \in ApiKeys,
             \/ RevokeApiKey(k) \/ OverlapEnds(k)
             \/ \E lapsed \in BOOLEAN : CreateApiKey(k, lapsed) \/ ExpireApiKey(k, lapsed)
      PROVE  NoOp
  BY <1>8 DEF RevokeApiKey, OverlapEnds, CreateApiKey, ExpireApiKey
<1>9. ReapExpiredKeys \/ MemberRemoved => NoOp
  BY DEF ReapExpiredKeys, MemberRemoved
<1>10. ASSUME NEW o \in AuthOps,
              \/ OpOver(o)
              \/ \E k \in ApiKeys, lapsed \in BOOLEAN : InsertReplacement(o, k, lapsed)
       PROVE  OpEnds(o)
  BY <1>10 DEF OpOver, InsertReplacement
<1>. QED
  BY <1>1, <1>2, <1>3, <1>4, <1>5, <1>6, <1>7, <1>8, <1>9, <1>10 DEF KeyNext

(* Operations on service identities.                                       *)
LEMMA ServiceOps ==
  ASSUME PrincipalsInv, Withdrawals, ServiceNext
  PROVE  OpsRight'
<1>1. CASE NoOp
  BY <1>1, OpsStay DEF NoOp
<1>2. ASSUME NEW o \in AuthOps, OpEnds(o)
      PROVE  OpsRight'
  BY <1>2, OpRefused
<1>3. ASSUME NEW o \in AuthOps, NEW pc \in {"register", "record"},
             BeginOp(o, pc, NoKeyId, NoTenant, FALSE)
      PROVE  OpsRight'
  <2>1. op'[o] = [pc |-> pc, subject |-> NoKeyId, tenant |-> NoTenant,
                  saw |-> NoTenant, barred |-> FALSE] => OpFits(o)' /\ OpStopped(o)'
    BY DEF OpFits, OpStopped
  <2>2. pc \in OpSteps
    BY DEF OpSteps
  <2>. QED  BY <1>3, <2>1, <2>2, OpBegins
<1>4. ASSUME NEW o \in AuthOps, NEW c \in Credentials, AuthenticateMachineCredential(o, c)
      PROVE  OpsRight'
  <2>. DEFINE b == \/ credential[c].state = "revoked" \/ credential[c].lapsed
                   \/ service.status = "revoked"
  <2>1. BeginOp(o, "credential", c, NoTenant, b) /\ "credential" \in OpSteps /\ b \in BOOLEAN
    BY <1>4 DEF AuthenticateMachineCredential, OpSteps
  <2>2. b => credential'[c].state = "revoked" \/ credential'[c].lapsed \/ service'.status = "revoked"
    BY DEF Withdrawals
  <2>. HIDE DEF b
  <2>3. op'[o] = [pc |-> "credential", subject |-> c, tenant |-> NoTenant,
                  saw |-> NoTenant, barred |-> b] => OpFits(o)' /\ OpStopped(o)'
    BY <2>2 DEF OpFits, OpStopped
  <2>. QED  BY <2>1, <2>3, OpBegins
<1>5. ASSUME NEW o \in AuthOps, CheckCredential(o)
      PROVE  OpsRight'
  <2>. DEFINE c == op[o].subject
  <2>1. CASE credential[c].state = "live" /\ ~credential[c].lapsed
    <3>1. OpGoto(o, "identity") /\ "identity" \in OpSteps /\ OpAt(o, "credential") /\ op[o] \in Op
      BY <1>5, <2>1 DEF CheckCredential, Proceed, OpSteps, PrincipalsInv, PrincipalsTypeOK
    <3>2. op[o].barred => service.status = "revoked"
      BY <2>1, <3>1 DEF OpAt, PrincipalsInv, BarredIsStopped, OpStopped
    <3>3. op'[o] = [op[o] EXCEPT !.pc = "identity"] => OpFits(o)' /\ OpStopped(o)'
      BY <3>1, <3>2 DEF OpFits, OpStopped, Withdrawals, Op
    <3>. QED  BY <3>1, <3>3, OpGoesOn
  <2>2. CASE ~(credential[c].state = "live" /\ ~credential[c].lapsed)
    BY <1>2, <1>5, <2>2 DEF CheckCredential, Proceed
  <2>. QED  BY <2>1, <2>2
<1>6. ASSUME NEW o \in AuthOps, CheckIdentity(o)
      PROVE  OpsRight'
  <2>1. CASE service.status = "active"
    <3>1. OpGoto(o, "resolve") /\ "resolve" \in OpSteps /\ OpAt(o, "identity") /\ op[o] \in Op
      BY <1>6, <2>1 DEF CheckIdentity, Proceed, OpSteps, PrincipalsInv, PrincipalsTypeOK
    <3>2. ~op[o].barred
      BY <2>1, <3>1 DEF OpAt, PrincipalsInv, BarredIsStopped, OpStopped
    <3>3. op'[o] = [op[o] EXCEPT !.pc = "resolve"] => OpFits(o)' /\ OpStopped(o)'
      BY <3>1, <3>2 DEF OpFits, OpStopped, Op
    <3>. QED  BY <3>1, <3>3, OpGoesOn
  <2>2. CASE service.status # "active"
    BY <1>2, <1>6, <2>2 DEF CheckIdentity, Proceed
  <2>. QED  BY <2>1, <2>2
<1>7. ASSUME NEW o \in AuthOps, ResolvePrincipal(o)
      PROVE  OpsRight'
  <2>1. CASE OpGoto(o, "granted")
    <3>1. "granted" \in OpSteps /\ OpAt(o, "resolve") /\ op[o] \in Op
      BY <1>7 DEF ResolvePrincipal, OpSteps, PrincipalsInv, PrincipalsTypeOK
    <3>2. ~op[o].barred
      BY <3>1 DEF OpAt, PrincipalsInv, BarredIsStopped, OpStopped
    <3>3. op'[o] = [op[o] EXCEPT !.pc = "granted"] => OpFits(o)' /\ OpStopped(o)'
      BY <3>1, <3>2 DEF OpFits, OpStopped, Op
    <3>. QED  BY <2>1, <3>1, <3>3, OpGoesOn
  <2>2. CASE OpEnds(o)
    BY <1>2, <2>2
  <2>. QED  BY <1>7, <2>1, <2>2 DEF ResolvePrincipal, Proceed
<1>8. \/ DisableServiceIdentity \/ EnableServiceIdentity \/ RevokeServiceIdentity
      \/ \E c \in Credentials : RevokeCredential(c) \/ CredentialExpires(c)
      => NoOp
  BY DEF DisableServiceIdentity, EnableServiceIdentity, RevokeServiceIdentity, RevokeCredential,
         CredentialExpires
<1>9. ASSUME NEW o \in AuthOps,
             \/ RegisterPrincipal(o) \/ OpOver(o)
             \/ \E c \in Credentials : RecordMachineCredential(o, c)
      PROVE  OpEnds(o)
  BY <1>9 DEF RegisterPrincipal, OpOver, RecordMachineCredential
<1>10. ASSUME NEW o \in AuthOps, CreateServiceIdentity(o) \/ IssueCredential(o)
       PROVE  \E pc \in {"register", "record"} : BeginOp(o, pc, NoKeyId, NoTenant, FALSE)
  BY <1>10 DEF CreateServiceIdentity, IssueCredential
<1>. QED
  BY <1>1, <1>2, <1>3, <1>4, <1>5, <1>6, <1>7, <1>8, <1>9, <1>10 DEF ServiceNext

(* Operations on sessions.                                                 *)
LEMMA SessionOps ==
  ASSUME PrincipalsInv, Withdrawals, SessionNext
  PROVE  OpsRight'
<1>1. CASE NoOp
  BY <1>1, OpsStay DEF NoOp
<1>2. ASSUME NEW o \in AuthOps, OpEnds(o)
      PROVE  OpsRight'
  BY <1>2, OpRefused
<1>3. ASSUME NEW o \in AuthOps, NEW s \in Sessions, NEW t \in Tenants, ResolveSession(o, s, t)
      PROVE  OpsRight'
  <2>. DEFINE b == session[s].state = "revoked" \/ user = "disabled"
  <2>1. BeginOp(o, "open", s, t, b) /\ "open" \in OpSteps /\ b \in BOOLEAN
    BY <1>3 DEF ResolveSession, OpSteps
  <2>2. b => session'[s].state = "revoked" \/ user' = "disabled"
    BY DEF Withdrawals
  <2>. HIDE DEF b
  <2>3. op'[o] = [pc |-> "open", subject |-> s, tenant |-> t,
                  saw |-> NoTenant, barred |-> b] => OpFits(o)' /\ OpStopped(o)'
    BY <2>2 DEF OpFits, OpStopped
  <2>. QED  BY <2>1, <2>3, OpBegins
<1>4. ASSUME NEW o \in AuthOps, GetSession(o)
      PROVE  OpsRight'
  <2>. DEFINE s == op[o].subject
  <2>1. OpAt(o, "open") /\ op[o] \in Op /\ s \in Sessions
    BY <1>4 DEF GetSession, OpAt, PrincipalsInv, PrincipalsTypeOK, SubjectsFit, OpFits
  <2>2. session[s].state # "revoked" => (op[o].barred => user = "disabled")
    BY <2>1 DEF OpAt, PrincipalsInv, BarredIsStopped, OpStopped
  <2>3. CASE session[s].state = "absent"
    <3>1. OpGoto(o, "registry") /\ "registry" \in OpSteps
      BY <1>4, <2>3 DEF GetSession, OpSteps
    <3>2. op'[o] = [op[o] EXCEPT !.pc = "registry"] => OpFits(o)' /\ OpStopped(o)'
      BY <2>1, <2>2, <2>3 DEF OpFits, OpStopped, Withdrawals, Op
    <3>. QED  BY <3>1, <3>2, OpGoesOn
  <2>4. CASE session[s].state = "live"
    <3>. DEFINE x == [op[o] EXCEPT !.pc = "user", !.saw = session[s].tenant]
    <3>1. x \in Op
      BY <2>1 DEF Op, OpSteps, PrincipalsInv, PrincipalsTypeOK, SessionRecord
    <3>2. op' = [op EXCEPT ![o] = x] /\ opsStarted' \in 0..MaxAuthOps
      BY <1>4, <2>4 DEF GetSession, PrincipalsInv, PrincipalsTypeOK
    <3>3. op'[o] = x => OpFits(o)' /\ OpStopped(o)'
      BY <2>1, <2>2, <2>4 DEF OpFits, OpStopped, Withdrawals, Op
    <3>. HIDE DEF x
    <3>. QED  BY <3>1, <3>2, <3>3, OpMoves
  <2>5. CASE session[s].state \notin {"absent", "live"}
    BY <1>2, <1>4, <2>5 DEF GetSession
  <2>. QED  BY <2>3, <2>4, <2>5
<1>5. ASSUME NEW o \in AuthOps, RegisterSession(o)
      PROVE  OpsRight'
  <2>1. OpGoto(o, "user") /\ "user" \in OpSteps /\ OpAt(o, "registry") /\ op[o] \in Op
    BY <1>5 DEF RegisterSession, OpSteps, PrincipalsInv, PrincipalsTypeOK
  <2>2. OpFits(o) /\ OpStopped(o)
    BY DEF PrincipalsInv, SubjectsFit, BarredIsStopped
  <2>3. op'[o] = [op[o] EXCEPT !.pc = "user"] => OpFits(o)' /\ OpStopped(o)'
    BY <2>1, <2>2 DEF OpFits, OpStopped, Withdrawals, Op, OpAt
  <2>. QED  BY <2>1, <2>3, OpGoesOn
<1>6. ASSUME NEW o \in AuthOps, CheckUser(o)
      PROVE  OpsRight'
  <2>1. CASE UserMayEnter
    <3>1. OpGoto(o, "tie") /\ "tie" \in OpSteps /\ OpAt(o, "user") /\ op[o] \in Op
      BY <1>6, <2>1 DEF CheckUser, Proceed, OpSteps, PrincipalsInv, PrincipalsTypeOK
    <3>2. OpFits(o) /\ OpStopped(o)
      BY DEF PrincipalsInv, SubjectsFit, BarredIsStopped
    <3>3. ~op[o].barred
      BY <2>1, <3>1, <3>2 DEF OpAt, OpStopped, UserMayEnter
    <3>4. op'[o] = [op[o] EXCEPT !.pc = "tie"] => OpFits(o)' /\ OpStopped(o)'
      BY <3>1, <3>2, <3>3 DEF OpFits, OpStopped, Op, OpAt
    <3>. QED  BY <3>1, <3>4, OpGoesOn
  <2>2. CASE ~UserMayEnter
    BY <1>2, <1>6, <2>2 DEF CheckUser, Proceed
  <2>. QED  BY <2>1, <2>2
<1>7. ASSUME NEW o \in AuthOps, TieSessionAnchors(o)
      PROVE  OpsRight'
  <2>1. CASE OpGoto(o, "granted")
    <3>1. "granted" \in OpSteps /\ OpAt(o, "tie") /\ op[o] \in Op
      BY <1>7 DEF TieSessionAnchors, OpSteps, PrincipalsInv, PrincipalsTypeOK
    <3>2. ~op[o].barred
      BY <3>1 DEF OpAt, PrincipalsInv, BarredIsStopped, OpStopped
    <3>3. op'[o] = [op[o] EXCEPT !.pc = "granted"] => OpFits(o)' /\ OpStopped(o)'
      BY <3>1, <3>2 DEF OpFits, OpStopped, Op
    <3>. QED  BY <2>1, <3>1, <3>3, OpGoesOn
  <2>2. CASE OpEnds(o)
    BY <1>2, <2>2
  <2>. QED  BY <1>7, <2>1, <2>2 DEF TieSessionAnchors, Proceed
<1>8. ASSUME NEW o \in AuthOps, NEW t \in Tenants, DisableUser(o, t)
      PROVE  OpsRight'
  <2>1. BeginOp(o, "revokeSessions", NoKeyId, t, FALSE) /\ "revokeSessions" \in OpSteps
    BY <1>8 DEF DisableUser, OpSteps
  <2>2. op'[o] = [pc |-> "revokeSessions", subject |-> NoKeyId, tenant |-> t,
                  saw |-> NoTenant, barred |-> FALSE] => OpFits(o)' /\ OpStopped(o)'
    BY DEF OpFits, OpStopped
  <2>. QED  BY <2>1, <2>2, OpBegins
<1>9. ASSUME NEW o \in AuthOps, RevokeDisabledSessions(o) \/ OpOver(o)
      PROVE  OpEnds(o)
  BY <1>9 DEF RevokeDisabledSessions, OpOver
<1>10. \/ \E s \in Sessions : RevokeSession(s)
       \/ \E t \in Tenants : RevokeUserSessions(t)
       => NoOp
  BY DEF RevokeSession, RevokeUserSessions
<1>. QED
  BY <1>1, <1>2, <1>3, <1>4, <1>5, <1>6, <1>7, <1>8, <1>9, <1>10 DEF SessionNext

(* Nothing is barred at the start.                                         *)
LEMMA PrincipalsStart == PrincipalsInit => PrincipalsInv
<1>. SUFFICES ASSUME PrincipalsInit PROVE PrincipalsInv
  OBVIOUS
<1>1. PrincipalsTypeOK
  BY IdleOpTyped, PrincipalsAssumption
  DEF PrincipalsInit, PrincipalsTypeOK, ApiKey, ServiceIdentity, MachineCredential, SessionRecord
<1>2. SubjectsFit /\ BarredIsStopped
  BY DEF PrincipalsInit, SubjectsFit, BarredIsStopped, OpFits, OpStopped, IdleOp
<1>. QED  BY <1>1, <1>2 DEF PrincipalsInv

(* No step undoes a withdrawal.                                            *)
LEMMA PrincipalsWithdraw == PrincipalsInv /\ [PrincipalsNext]_principalVars => Withdrawals
<1>. SUFFICES ASSUME PrincipalsInv, [PrincipalsNext]_principalVars PROVE Withdrawals
  OBVIOUS
<1>1. CASE KeyNext
  BY <1>1, KeysTyped DEF PrincipalsInv, Withdrawals, serviceVars, sessionVars
<1>2. CASE ServiceNext
  BY <1>2, ServicesTyped DEF PrincipalsInv, Withdrawals, keyVars, sessionVars
<1>3. CASE SessionNext
  BY <1>3, SessionsTyped DEF PrincipalsInv, Withdrawals, keyVars, serviceVars
<1>4. CASE UNCHANGED principalVars
  BY <1>4 DEF principalVars, Withdrawals
<1>. QED  BY <1>1, <1>2, <1>3, <1>4 DEF PrincipalsNext

(* Every step keeps the invariant.                                         *)
LEMMA PrincipalsStep == PrincipalsInv /\ [PrincipalsNext]_principalVars => PrincipalsInv'
<1>. SUFFICES ASSUME PrincipalsInv, [PrincipalsNext]_principalVars PROVE PrincipalsInv'
  OBVIOUS
<1>1. Withdrawals
  BY PrincipalsWithdraw
<1>2. OpsRight'
  <2>1. CASE PrincipalsNext
    BY <1>1, <2>1, KeyOps, ServiceOps, SessionOps DEF PrincipalsNext
  <2>2. CASE UNCHANGED principalVars
    BY <1>1, <2>2, OpsStay DEF principalVars
  <2>. QED  BY <2>1, <2>2
<1>3. PrincipalsTypeOK /\ SubjectsFit
  BY DEF PrincipalsInv
<1>4. /\ apiKey' \in [ApiKeys -> ApiKey]
      /\ isMember' \in BOOLEAN
      /\ service' \in ServiceIdentity
      /\ credential' \in [Credentials -> MachineCredential]
      /\ user' \in {"absent", "active", "disabled"}
      /\ session' \in [Sessions -> SessionRecord]
  <2>1. CASE KeyNext
    BY <1>3, <2>1, KeysTyped DEF PrincipalsTypeOK, serviceVars, sessionVars
  <2>2. CASE ServiceNext
    BY <1>3, <2>2, ServicesTyped DEF PrincipalsTypeOK, keyVars, sessionVars
  <2>3. CASE SessionNext
    BY <1>3, <2>3, SessionsTyped DEF PrincipalsTypeOK, keyVars, serviceVars
  <2>4. CASE UNCHANGED principalVars
    BY <1>3, <2>4 DEF principalVars, PrincipalsTypeOK
  <2>. QED  BY <2>1, <2>2, <2>3, <2>4 DEF PrincipalsNext
<1>. QED
  BY <1>2, <1>4 DEF OpsRight, PrincipalsInv, PrincipalsTypeOK

(* In every behaviour of authentication and withdrawal the invariant holds *)
(* (auth/api-keys.ts, service-identities.ts, sessions).                    *)
THEOREM PrincipalsKept == PrincipalsSpec => []PrincipalsInv
BY PrincipalsStart, PrincipalsStep, PTL DEF PrincipalsSpec

(* What was withdrawn when a request began is not granted to it.           *)
LEMMA PrincipalsNeverGrant == PrincipalsInv => WithdrawnNeverGranted
BY DEF PrincipalsInv, BarredIsStopped, OpStopped, WithdrawnNeverGranted, OpAt

(* What is withdrawn stays withdrawn (api-keys.ts, service-identities.ts,  *)
(* sessions).                                                              *)
THEOREM WithdrawalsStand == PrincipalsSpec => WithdrawnForGood
<1>1. PrincipalsInv /\ [PrincipalsNext]_principalVars =>
        [/\ \A k \in ApiKeys : apiKey[k].state = "revoked" => apiKey'[k].state = "revoked"
         /\ \A c \in Credentials : credential[c].state = "revoked" => credential'[c].state = "revoked"
         /\ service.status = "revoked" => service'.status = "revoked"
         /\ \A s \in Sessions : session[s].state = "revoked" => session'[s].state = "revoked"
         /\ user = "disabled" => user' = "disabled"]_principalVars
  BY PrincipalsWithdraw DEF Withdrawals
<1>. QED
  BY <1>1, PrincipalsKept, PTL DEF PrincipalsSpec, WithdrawnForGood

(* A session tied to a tenant stays with it.                               *)
THEOREM AnchorsStand == PrincipalsSpec => AnchorSetOnce
<1>1. PrincipalsInv /\ [PrincipalsNext]_principalVars =>
        [\A s \in Sessions : session[s].tenant # NoTenant
           => session'[s].tenant = session[s].tenant]_principalVars
  <2>. SUFFICES ASSUME PrincipalsInv, PrincipalsNext
                PROVE  \A s \in Sessions : session[s].tenant # NoTenant
                         => session'[s].tenant = session[s].tenant
    OBVIOUS
  <2>1. KeyNext \/ ServiceNext => UNCHANGED sessionVars
    BY KeysTyped, ServicesTyped DEF PrincipalsInv
  <2>. QED  BY <2>1, SessionsTyped DEF PrincipalsInv, PrincipalsNext, sessionVars
<1>. QED
  BY <1>1, PrincipalsKept, PTL DEF PrincipalsSpec, AnchorSetOnce

-----------------------------------------------------------------------------
(***************************************************************************)
(* Connections.                                                            *)
(*                                                                         *)
(* A call carries over its awaits the version it has read or written, and  *)
(* every write is fenced by it.  The row's secret changes only with its    *)
(* version, so a call that activates at the row's version carries the      *)
(* row's secret; no call writes over a row that is not there.              *)
(***************************************************************************)

(* What a call remembers of the row: versions it has seen, and, once it   *)
(* has rotated, that the row at its version carries its own secret         *)
(* (lifecycle.ts awaits between the fenced writes of store.ts).            *)
ConnCallFits(r, row) ==
  /\ r.version <= row.version /\ r.read <= row.version
  /\ r.pc = "activate" /\ r.version = row.version => r.secret = row.secret
  /\ r.pc = "end" => r.to \in {"disconnected", "revoked"}
  /\ r.pc = "refresh" => r.read > 0
  /\ r.pc = "rotate" => r.version > 0

(* A row that exists has been written.                                     *)
ConnRow(row) == row \in Connection /\ (row.state = "none") = (row.version = 0)

(* The steps at which a call relies on nothing it has read.                *)
PlainSteps == CallerSteps \ {"activate", "end", "refresh", "rotate"}

(* How a row may change: a new secret comes with a new version.            *)
ConnRowMoves(row, next) ==
  /\ ConnRow(next)
  /\ row.version <= next.version
  /\ row.version = next.version => row.secret = next.secret

(* The inductive invariant of the connection and its calls.                *)
ConnectionsInv ==
  /\ ConnRow(conn)
  /\ authAttempt \in [Attempts -> Attempt]
  /\ caller \in [Callers -> ConnCall]
  /\ secrets \in Nat
  /\ \A c \in Callers : ConnCallFits(caller[c], conn)

(* What a call becomes when it goes on with a secret, a version or both.   *)
LEMMA ConnCallGains ==
  ASSUME NEW r \in ConnCall, NEW pc \in CallerSteps, NEW s \in Nat, NEW v \in Nat
  PROVE  /\ [r EXCEPT !.pc = pc, !.secret = s] \in ConnCall
         /\ [r EXCEPT !.pc = pc, !.version = v] \in ConnCall
         /\ [r EXCEPT !.pc = pc, !.secret = s, !.version = v] \in ConnCall
<1>1. [r EXCEPT !.pc = pc, !.secret = s] \in ConnCall  BY DEF ConnCall
<1>2. [r EXCEPT !.pc = pc, !.version = v] \in ConnCall  BY DEF ConnCall
<1>3. [r EXCEPT !.pc = pc, !.secret = s, !.version = v] \in ConnCall  BY DEF ConnCall
<1> QED  BY <1>1, <1>2, <1>3

(* A call with a secret fits where it did.                                 *)
LEMMA ConnFitsWithSecret ==
  ASSUME NEW r \in ConnCall, NEW pc \in PlainSteps, NEW s \in Nat, NEW row, ConnCallFits(r, row)
  PROVE  ConnCallFits([r EXCEPT !.pc = pc, !.secret = s], row)
<1> DEFINE q == [r EXCEPT !.pc = pc, !.secret = s]
<1>1. q.version = r.version /\ q.read = r.read /\ q.pc = pc  BY DEF ConnCall
<1> HIDE DEF q
<1>2. ConnCallFits(q, row)  BY <1>1 DEF ConnCallFits, PlainSteps
<1> QED  BY <1>2 DEF q

(* A call fits with a version of the row, once it carries the row's secret *)
(* if it is to activate.                                                   *)
LEMMA ConnFitsAtVersion ==
  ASSUME NEW r \in ConnCall, NEW pc \in CallerSteps \ {"end", "refresh"},
         NEW row \in Connection, NEW v \in 0..row.version, pc = "rotate" => v > 0,
         r.read <= row.version,
         pc = "activate" => r.secret = row.secret
  PROVE  ConnCallFits([r EXCEPT !.pc = pc, !.version = v], row)
<1> DEFINE q == [r EXCEPT !.pc = pc, !.version = v]
<1>1. q.version = v /\ q.read = r.read /\ q.pc = pc /\ q.secret = r.secret  BY DEF ConnCall
<1> HIDE DEF q
<1>2. ConnCallFits(q, row)  BY <1>1 DEF ConnCallFits, Connection
<1> QED  BY <1>2 DEF q

(* A refresh carries its new secret to the rotation of the version read.   *)
LEMMA ConnFitsToRotate ==
  ASSUME NEW r \in ConnCall, NEW s \in Nat, NEW row, ConnCallFits(r, row), r.pc = "refresh"
  PROVE  ConnCallFits([r EXCEPT !.pc = "rotate", !.secret = s, !.version = r.read], row)
<1> DEFINE q == [r EXCEPT !.pc = "rotate", !.secret = s, !.version = r.read]
<1>1. q.version = r.read /\ q.read = r.read /\ q.pc = "rotate"  BY DEF ConnCall
<1> HIDE DEF q
<1>2. ConnCallFits(q, row)  BY <1>1 DEF ConnCallFits
<1> QED  BY <1>2 DEF q

(* A call that is one, and fits the row.                                   *)
ConnCallSound(q, row) == q \in ConnCall /\ ConnCallFits(q, row)

(* A call that has just begun fits, with what it has read of the row.      *)
LEMMA ConnFreshCall ==
  ASSUME NEW row \in Connection, NEW q \in ConnCall,
         q.pc \in {"idle", "find", "exchange", "end", "expire"},
         q.read = 0, q.version \in {0, row.version}, q.pc = "end" => q.to \in {"disconnected", "revoked"}
  PROVE  ConnCallSound(q, row)
BY DEF Connection, ConnCall, ConnCallFits, ConnCallSound

(* No call, and the calls that begin.                                      *)
LEMMA ConnFreshCalls ==
  ASSUME NEW row \in Connection
  PROVE  /\ ConnCallSound(NoConnCall, row)
         /\ \A a \in Attempts, s \in Nat :
              ConnCallSound([NoConnCall EXCEPT !.pc = "find", !.attempt = a, !.secret = s], row)
         /\ \A a \in Attempts :
              ConnCallSound([NoConnCall EXCEPT !.pc = "exchange", !.attempt = a], row)
         /\ \A to \in {"disconnected", "revoked"} :
              ConnCallSound([NoConnCall EXCEPT !.pc = "end", !.to = to,
                                               !.version = row.version], row)
         /\ ConnCallSound([NoConnCall EXCEPT !.pc = "expire", !.version = row.version], row)
<1>1. /\ NoConnCall \in ConnCall /\ NoConnCall.pc = "idle" /\ NoConnCall.read = 0
      /\ NoConnCall.version = 0 /\ row.version \in Nat
  BY DEF NoConnCall, ConnCall, CallerSteps, ConnectionStates, Connection
<1>2. ConnCallSound(NoConnCall, row)  BY <1>1, ConnFreshCall
<1>3. {"find", "exchange", "end", "expire"} \subseteq CallerSteps  BY DEF CallerSteps
<1>4. ASSUME NEW a \in Attempts, NEW s \in Nat
      PROVE  ConnCallSound([NoConnCall EXCEPT !.pc = "find", !.attempt = a, !.secret = s], row)
  <2> DEFINE q == [NoConnCall EXCEPT !.pc = "find", !.attempt = a, !.secret = s]
  <2>1. q \in ConnCall  BY <1>1, <1>3 DEF ConnCall
  <2>2. q.pc = "find" /\ q.read = 0 /\ q.version = 0  BY <1>1 DEF ConnCall
  <2> HIDE DEF q
  <2>3. ConnCallSound(q, row)  BY <1>1, <2>1, <2>2, ConnFreshCall
  <2> QED  BY <2>3 DEF q
<1>5. ASSUME NEW a \in Attempts
      PROVE  ConnCallSound([NoConnCall EXCEPT !.pc = "exchange", !.attempt = a], row)
  <2> DEFINE q == [NoConnCall EXCEPT !.pc = "exchange", !.attempt = a]
  <2>1. q \in ConnCall  BY <1>1, <1>3 DEF ConnCall
  <2>2. q.pc = "exchange" /\ q.read = 0 /\ q.version = 0  BY <1>1 DEF ConnCall
  <2> HIDE DEF q
  <2>3. ConnCallSound(q, row)  BY <1>1, <2>1, <2>2, ConnFreshCall
  <2> QED  BY <2>3 DEF q
<1>6. ASSUME NEW to \in {"disconnected", "revoked"}
      PROVE  ConnCallSound([NoConnCall EXCEPT !.pc = "end", !.to = to,
                                              !.version = row.version], row)
  <2> DEFINE q == [NoConnCall EXCEPT !.pc = "end", !.to = to,
                                              !.version = row.version]
  <2>1. q \in ConnCall  BY <1>1, <1>3 DEF ConnCall, ConnectionStates
  <2>2. q.pc = "end" /\ q.read = 0 /\ q.version = row.version /\ q.to = to  BY <1>1 DEF ConnCall
  <2> HIDE DEF q
  <2>3. ConnCallSound(q, row)  BY <1>1, <2>1, <2>2, ConnFreshCall
  <2> QED  BY <2>3 DEF q
<1>7. ConnCallSound([NoConnCall EXCEPT !.pc = "expire", !.version = row.version], row)
  <2> DEFINE q == [NoConnCall EXCEPT !.pc = "expire", !.version = row.version]
  <2>1. q \in ConnCall  BY <1>1, <1>3 DEF ConnCall
  <2>2. q.pc = "expire" /\ q.read = 0 /\ q.version = row.version  BY <1>1 DEF ConnCall
  <2> HIDE DEF q
  <2>3. ConnCallSound(q, row)  BY <1>1, <2>1, <2>2, ConnFreshCall
  <2> QED  BY <2>3 DEF q
<1> QED  BY <1>2, <1>4, <1>5, <1>6, <1>7

(* A refresh begins with the version and the state it has read.            *)
LEMMA ConnFreshRefresh ==
  ASSUME NEW row, ConnRow(row), row.state # "none"
  PROVE  ConnCallSound([NoConnCall EXCEPT !.pc = "refresh", !.refreshing = TRUE,
                                          !.read = row.version, !.was = row.state], row)
<1> DEFINE q == [NoConnCall EXCEPT !.pc = "refresh", !.refreshing = TRUE,
                                   !.read = row.version, !.was = row.state]
<1>1. row.version \in Nat /\ row.version > 0 /\ row.state \in ConnectionStates
  BY DEF ConnRow, Connection
<1>2. NoConnCall \in ConnCall /\ NoConnCall.version = 0 /\ "refresh" \in CallerSteps
  BY DEF NoConnCall, ConnCall, CallerSteps, ConnectionStates
<1>3. q \in ConnCall  BY <1>1, <1>2 DEF ConnCall
<1>4. ConnCallFits(q, row)
  <2>1. q.pc = "refresh" /\ q.read = row.version /\ q.version = 0  BY <1>1, <1>2 DEF ConnCall
  <2> HIDE DEF q
  <2> QED  BY <1>1, <2>1 DEF ConnCallFits
<1> HIDE DEF q
<1>5. ConnCallSound(q, row)  BY <1>3, <1>4 DEF ConnCallSound
<1> QED  BY <1>5 DEF q

(* The writes of the row.                                                  *)
LEMMA ConnWrites ==
  ASSUME NEW row, ConnRow(row), NEW to \in ConnectionStates \ {"none"}, NEW s \in Nat, NEW next,
         \/ row.state # "none" /\ next = [row EXCEPT !.state = to, !.version = @ + 1]
         \/ row.state # "none" /\ next = [row EXCEPT !.secret = s, !.version = @ + 1]
         \/ next = [row EXCEPT !.lapsed = TRUE]
         \/ row.state = "none" /\ next = NewConnection(s)
  PROVE  ConnRowMoves(row, next)
<1>1. /\ row \in Connection /\ (row.state = "none") = (row.version = 0)
      /\ row.version \in Nat /\ row.version + 1 \in Nat
  BY DEF ConnRow, Connection
<1>2. CASE row.state # "none" /\ next = [row EXCEPT !.state = to, !.version = @ + 1]
  <2>1. next \in Connection  BY <1>1, <1>2 DEF Connection
  <2>2. next.version = row.version + 1 /\ next.state = to  BY <1>1, <1>2 DEF Connection
  <2> QED  BY <1>1, <2>1, <2>2 DEF ConnRowMoves, ConnRow
<1>3. CASE row.state # "none" /\ next = [row EXCEPT !.secret = s, !.version = @ + 1]
  <2>1. next \in Connection  BY <1>1, <1>3 DEF Connection
  <2>2. next.version = row.version + 1 /\ next.state = row.state  BY <1>1, <1>3 DEF Connection
  <2> QED  BY <1>1, <1>3, <2>1, <2>2 DEF ConnRowMoves, ConnRow
<1>4. CASE next = [row EXCEPT !.lapsed = TRUE]
  <2>1. next \in Connection  BY <1>1, <1>4 DEF Connection
  <2>2. next.version = row.version /\ next.state = row.state /\ next.secret = row.secret
    BY <1>1, <1>4 DEF Connection
  <2> QED  BY <1>1, <2>1, <2>2 DEF ConnRowMoves, ConnRow
<1>5. CASE row.state = "none" /\ next = NewConnection(s)
  <2>1. next \in Connection  BY <1>5 DEF Connection, NewConnection, ConnectionStates
  <2>2. next.version = 1 /\ next.state = "active"  BY <1>5 DEF NewConnection
  <2> QED  BY <1>1, <1>5, <2>1, <2>2 DEF ConnRowMoves, ConnRow
<1> QED  BY <1>2, <1>3, <1>4, <1>5

(* What a call remembers stays true as the row moves.                      *)
LEMMA ConnFitsKept ==
  ASSUME NEW r \in ConnCall, NEW row, NEW next, ConnRow(row), ConnRowMoves(row, next),
         ConnCallFits(r, row)
  PROVE  ConnCallFits(r, next)
BY DEF ConnCallFits, ConnRow, ConnRowMoves, ConnCall, Connection

(* So a step in which one call moves on, and the row moves, keeps what     *)
(* every call remembers.                                                   *)
LEMMA ConnCallMoves ==
  ASSUME ConnectionsInv, NEW c \in Callers, NEW r \in ConnCall,
         caller' = [caller EXCEPT ![c] = r], ConnRowMoves(conn, conn'),
         ConnCallFits(r, conn'),
         authAttempt' \in [Attempts -> Attempt], secrets' \in Nat
  PROVE  ConnectionsInv'
<1>1. caller' \in [Callers -> ConnCall]  BY DEF ConnectionsInv
<1>2. ASSUME NEW d \in Callers PROVE ConnCallFits(caller'[d], conn')
  <2>1. CASE d = c  BY <2>1 DEF ConnectionsInv
  <2>2. CASE d # c
    <3>1. caller'[d] = caller[d] /\ caller[d] \in ConnCall  BY <2>2 DEF ConnectionsInv
    <3> QED  BY <3>1, ConnFitsKept DEF ConnectionsInv
  <2> QED  BY <2>1, <2>2
<1> QED  BY <1>1, <1>2 DEF ConnectionsInv, ConnRowMoves

(* A step in which no call moves.                                          *)
LEMMA ConnRowAlone ==
  ASSUME ConnectionsInv, UNCHANGED caller, ConnRowMoves(conn, conn'),
         authAttempt' \in [Attempts -> Attempt], secrets' \in Nat
  PROVE  ConnectionsInv'
<1>1. ASSUME NEW d \in Callers PROVE ConnCallFits(caller'[d], conn')
  BY ConnFitsKept DEF ConnectionsInv
<1> QED  BY <1>1 DEF ConnectionsInv, ConnRowMoves

(* A row that stays is one of the moves.                                   *)
LEMMA ConnStays == ConnectionsInv /\ UNCHANGED conn => ConnRowMoves(conn, conn')
BY DEF ConnectionsInv, ConnRowMoves, ConnRow, Connection

(* A fenced write of a state is one of the moves: nothing is written over  *)
(* a row that is not there (assertConnectionTransition).                   *)
LEMMA ConnStateWritten ==
  ASSUME ConnectionsInv, NEW v, NEW to \in ConnectionStates \ {"none"}, SetConnState(v, to)
  PROVE  ConnRowMoves(conn, conn') /\ conn'.state = to /\ conn'.version = conn.version + 1
<1>1. conn.state # "none"
  BY DEF ConnectionsInv, ConnRow, SetConnState, Legal, CONNECTION_TRANSITIONS, ConnectionStates,
     Connection
<1>2. /\ conn' = [conn EXCEPT !.state = to, !.version = @ + 1] /\ conn \in Connection
      /\ ConnRow(conn) /\ 0 \in Nat
  BY DEF SetConnState, ConnectionsInv, ConnRow
<1>3. ConnRowMoves(conn, conn')  BY <1>1, <1>2, ConnWrites
<1>4. conn'.state = to /\ conn'.version = conn.version + 1  BY <1>2 DEF Connection
<1> QED  BY <1>3, <1>4

(* A call that moves on to a step that remembers nothing new fits.         *)
LEMMA ConnGoes ==
  ASSUME ConnectionsInv, NEW c \in Callers, ConnRowMoves(conn, conn'),
         NEW pc \in PlainSteps, CallerGoto(c, pc),
         authAttempt' \in [Attempts -> Attempt], secrets' \in Nat
  PROVE  ConnectionsInv'
<1> DEFINE r == [caller[c] EXCEPT !.pc = pc]
<1>1. caller[c] \in ConnCall /\ ConnCallFits(caller[c], conn)  BY DEF ConnectionsInv
<1>2. r \in ConnCall  BY <1>1 DEF ConnCall, PlainSteps
<1>3. ConnCallFits(r, conn)  BY <1>1 DEF ConnCallFits, ConnCall, PlainSteps
<1>4. ConnCallFits(r, conn')  BY <1>2, <1>3, ConnFitsKept DEF ConnectionsInv
<1>5. caller' = [caller EXCEPT ![c] = r]  BY DEF CallerGoto, ConnectionsInv
<1> HIDE DEF r
<1> QED  BY <1>2, <1>4, <1>5, ConnCallMoves

(* A call that returns, whatever the step wrote.                           *)
LEMMA ConnReturns ==
  ASSUME ConnectionsInv, NEW c \in Callers, ConnRowMoves(conn, conn'), ReturnFrom(c),
         authAttempt' \in [Attempts -> Attempt], secrets' \in Nat
  PROVE  ConnectionsInv'
<1>1. NoConnCall \in ConnCall /\ ConnCallFits(NoConnCall, conn')
  BY ConnFreshCalls DEF ConnCallSound, ConnRowMoves, ConnRow
<1> QED  BY <1>1, ConnCallMoves DEF ReturnFrom

(* A call that begins with a call record that fits.                        *)
LEMMA ConnBegins ==
  ASSUME ConnectionsInv, NEW c \in Callers, NEW r, Begin(c, r),
         ConnCallSound(r, conn), UNCHANGED <<conn, secrets>>,
         authAttempt' \in [Attempts -> Attempt]
  PROVE  ConnectionsInv'
<1>1. /\ ConnRowMoves(conn, conn') /\ secrets' \in Nat
      /\ r \in ConnCall /\ ConnCallFits(r, conn')
  BY ConnStays DEF ConnectionsInv, ConnCallSound
<1> QED  BY <1>1, ConnCallMoves DEF Begin

(* A failed call degrades the row it refreshed, or returns.                *)
LEMMA ConnFails ==
  ASSUME ConnectionsInv, NEW c \in Callers, ConnFail(c), UNCHANGED <<conn, authAttempt, secrets>>
  PROVE  ConnectionsInv'
<1>1. ConnRowMoves(conn, conn') /\ authAttempt' \in [Attempts -> Attempt] /\ secrets' \in Nat
  BY ConnStays DEF ConnectionsInv
<1>2. "degrade" \in PlainSteps  BY DEF PlainSteps, CallerSteps
<1>3. CASE CallerGoto(c, "degrade")  BY <1>1, <1>2, <1>3, ConnGoes
<1>4. CASE ReturnFrom(c)  BY <1>1, <1>4, ConnReturns
<1> QED  BY <1>3, <1>4 DEF ConnFail
(* Every operation keeps the invariant.                                    *)
LEMMA ConnStarts ==
  ASSUME ConnectionsInv, NEW a \in Attempts, StartAuthorization(a) \/ AttemptLapses(a)
  PROVE  ConnectionsInv'
<1>1. authAttempt' \in [Attempts -> Attempt]
  BY DEF ConnectionsInv, StartAuthorization, AttemptLapses, Attempt
<1> QED
  BY <1>1, ConnStays, ConnRowAlone DEF ConnectionsInv, StartAuthorization, AttemptLapses

(* The clock passes the credential's expiry: its secret is what it was.    *)
LEMMA ConnLapses == ASSUME ConnectionsInv, CredentialLapses PROVE ConnectionsInv'
<1>1. ConnRowMoves(conn, conn')
  <2>1. "active" \in ConnectionStates \ {"none"} /\ 0 \in Nat  BY DEF ConnectionStates
  <2> QED  BY <2>1, ConnWrites DEF ConnectionsInv, CredentialLapses
<1> QED  BY <1>1, ConnRowAlone DEF ConnectionsInv, CredentialLapses

(* completeCallback.                                                       *)
LEMMA ConnCallbackBegins ==
  ASSUME ConnectionsInv, NEW c \in Callers, NEW a \in Attempts, CompleteCallback(c, a)
  PROVE  ConnectionsInv'
<1> DEFINE replay == [NoConnCall EXCEPT !.pc = "find", !.attempt = a,
                                        !.secret = authAttempt[a].secret]
           fresh == [NoConnCall EXCEPT !.pc = "exchange", !.attempt = a]
<1>1. UNCHANGED <<conn, secrets>>  BY DEF CompleteCallback
<1>2. authAttempt' \in [Attempts -> Attempt]
  BY DEF ConnectionsInv, CompleteCallback, Attempt
<1>3. /\ ConnCallSound(NoConnCall, conn) /\ ConnCallSound(fresh, conn)
      /\ ConnCallSound(replay, conn)
  <2>1. conn \in Connection /\ authAttempt[a].secret \in Nat
    BY DEF ConnectionsInv, ConnRow, Attempt
  <2> QED  BY <2>1, ConnFreshCalls
<1>4. Begin(c, NoConnCall) \/ Begin(c, replay) \/ Begin(c, fresh)
  BY DEF CompleteCallback
<1> HIDE DEF replay, fresh
<1> QED  BY <1>1, <1>2, <1>3, <1>4, ConnBegins

(* The steps of a call that only go on or return.                          *)
LEMMA ConnMovesOn ==
  ASSUME ConnectionsInv, NEW c \in Callers,
         \/ FindActivatedConnection(c) \/ Consume(c) \/ CallerCrash(c)
         \/ SettleAttempt(c) \/ CreateConnection(c)
  PROVE  ConnectionsInv'
<1>1. \A pc \in {"list", "consume"} : pc \in PlainSteps
  BY DEF PlainSteps, CallerSteps
<1>2. caller[c] \in ConnCall /\ secrets \in Nat  BY DEF ConnectionsInv
<1>3. authAttempt' \in [Attempts -> Attempt] /\ secrets' \in Nat
  BY <1>2 DEF ConnectionsInv, FindActivatedConnection, Consume, CallerCrash, SettleAttempt,
     CreateConnection, Attempt, ConnCall
<1>4. ConnRowMoves(conn, conn')
  <2>1. CASE UNCHANGED conn  BY <2>1, ConnStays
  <2>2. CASE CreateConnection(c) /\ ~Exists
    <3>1. "active" \in ConnectionStates \ {"none"} /\ caller[c].secret \in Nat
      BY <1>2 DEF ConnectionStates, ConnCall
    <3> QED  BY <2>2, <3>1, ConnWrites DEF CreateConnection, Exists, ConnectionsInv
  <2> QED
    BY <2>1, <2>2 DEF FindActivatedConnection, Consume, CallerCrash, SettleAttempt,
       CreateConnection
<1>5. ReturnFrom(c) \/ CallerGoto(c, "list") \/ CallerGoto(c, "consume")
  BY DEF FindActivatedConnection, Consume, CallerCrash, SettleAttempt, CreateConnection
<1> QED  BY <1>1, <1>3, <1>4, <1>5, ConnGoes, ConnReturns

(* The exchange stores a token, or throws.                                 *)
LEMMA ConnExchanges ==
  ASSUME ConnectionsInv, NEW c \in Callers, ConnExchange(c) PROVE ConnectionsInv'
<1> DEFINE r == [caller[c] EXCEPT !.pc = "settle", !.secret = secrets + 1]
<1>1. ConnRowMoves(conn, conn') /\ authAttempt' \in [Attempts -> Attempt] /\ secrets' \in Nat
  BY ConnStays DEF ConnExchange, ConnectionsInv
<1>2. CASE ReturnFrom(c)  BY <1>1, <1>2, ConnReturns
<1>3. CASE caller' = [caller EXCEPT ![c].pc = "settle", ![c].secret = secrets + 1]
  <2>1. caller[c] \in ConnCall /\ ConnCallFits(caller[c], conn) /\ secrets \in Nat
    BY DEF ConnectionsInv
  <2>2. r \in ConnCall /\ ConnCallFits(r, conn)
    <3>1. "settle" \in CallerSteps /\ "settle" \in PlainSteps /\ secrets + 1 \in Nat /\ 0 \in Nat
      BY <2>1 DEF CallerSteps, PlainSteps
    <3> QED  BY <2>1, <3>1, ConnCallGains, ConnFitsWithSecret
  <2>3. caller' = [caller EXCEPT ![c] = r]  BY <1>3 DEF ConnectionsInv
  <2>4. conn' = conn  BY DEF ConnExchange
  <2> HIDE DEF r
  <2> QED  BY <1>1, <2>2, <2>3, <2>4, ConnCallMoves
<1> QED  BY <1>2, <1>3 DEF ConnExchange

(* upsertActivatedConnection reads the row.                                *)
LEMMA ConnUpserts ==
  ASSUME ConnectionsInv, NEW c \in Callers, UpsertActivatedConnection(c) PROVE ConnectionsInv'
<1> DEFINE r == [caller[c] EXCEPT !.pc = IF Exists THEN "rotate" ELSE "create",
                                  !.version = conn.version]
<1>1. caller[c] \in ConnCall /\ ConnCallFits(caller[c], conn) /\ conn.version \in Nat
  BY DEF ConnectionsInv, ConnRow, Connection
<1>2. r \in ConnCall /\ ConnCallFits(r, conn)
  <2> DEFINE pc == IF Exists THEN "rotate" ELSE "create"
  <2>1. /\ pc \in CallerSteps /\ pc \in CallerSteps \ {"end", "refresh"} /\ 0 \in Nat
        /\ pc # "activate"
    BY DEF CallerSteps
  <2>2. /\ conn \in Connection /\ conn.version \in 0..conn.version /\ caller[c].read <= conn.version
        /\ pc = "rotate" => conn.version > 0
    BY <1>1 DEF ConnectionsInv, ConnRow, Exists, ConnCallFits
  <2> HIDE DEF pc
  <2>3. /\ [caller[c] EXCEPT !.pc = pc, !.version = conn.version] \in ConnCall
        /\ ConnCallFits([caller[c] EXCEPT !.pc = pc, !.version = conn.version], conn)
    BY <1>1, <2>1, <2>2, ConnCallGains, ConnFitsAtVersion
  <2> QED  BY <2>3 DEF pc
<1>3. caller' = [caller EXCEPT ![c] = r]  BY DEF ConnectionsInv, UpsertActivatedConnection
<1>4. UNCHANGED <<conn, authAttempt, secrets>>  BY DEF UpsertActivatedConnection
<1> HIDE DEF r
<1> QED  BY <1>2, <1>3, <1>4, ConnStays, ConnCallMoves DEF ConnectionsInv

(* rotate() stores the call's secret with a new version.                   *)
LEMMA ConnRotates ==
  ASSUME ConnectionsInv, NEW c \in Callers, Rotate(c) PROVE ConnectionsInv'
<1> DEFINE r == [caller[c] EXCEPT !.pc = AfterRotation(c), !.version = conn.version + 1]
<1>1. UNCHANGED <<authAttempt, secrets>>  BY DEF Rotate
<1>2. CASE FencedAt(caller[c].version)
  <2>1. /\ caller[c] \in ConnCall /\ ConnCallFits(caller[c], conn)
        /\ conn \in Connection /\ (conn.state = "none") = (conn.version = 0)
    BY DEF ConnectionsInv, ConnRow
  <2>2. conn' = [conn EXCEPT !.secret = caller[c].secret, !.version = conn.version + 1]
    BY <1>2 DEF Rotate
  <2>3. conn.state # "none"
    BY <1>2, <2>1 DEF Rotate, CallerAt, FencedAt, ConnCallFits, Connection
  <2>4. ConnRowMoves(conn, conn')
    <3>1. "active" \in ConnectionStates \ {"none"} /\ caller[c].secret \in Nat
      BY <2>1 DEF ConnectionStates, ConnCall
    <3> QED  BY <2>2, <2>3, <3>1, ConnWrites DEF ConnectionsInv
  <2>5. r \in ConnCall /\ ConnCallFits(r, conn')
    <3> DEFINE pc == AfterRotation(c)
    <3>1. pc \in CallerSteps /\ pc \in CallerSteps \ {"end", "refresh", "rotate"} /\ 0 \in Nat
      BY DEF CallerSteps, AfterRotation
    <3>2. /\ conn'.version = conn.version + 1 /\ conn'.secret = caller[c].secret
          /\ conn.version \in Nat /\ conn.version + 1 \in Nat
      BY <2>1, <2>2 DEF Connection
    <3>3. conn' \in Connection  BY <2>4 DEF ConnRowMoves, ConnRow
    <3>4. conn.version + 1 \in 0..conn'.version  BY <3>2
    <3>5. caller[c].read \in Nat /\ caller[c].read <= conn'.version
      BY <2>1, <3>2 DEF ConnCallFits, ConnCall
    <3> HIDE DEF pc
    <3>6. /\ [caller[c] EXCEPT !.pc = pc, !.version = conn.version + 1] \in ConnCall
          /\ ConnCallFits([caller[c] EXCEPT !.pc = pc, !.version = conn.version + 1], conn')
      BY <2>1, <3>1, <3>2, <3>3, <3>4, <3>5, ConnCallGains, ConnFitsAtVersion
    <3> QED  BY <3>6 DEF pc
  <2>6. caller' = [caller EXCEPT ![c] = r]  BY <1>2 DEF ConnectionsInv, Rotate
  <2> HIDE DEF r
  <2> QED  BY <1>1, <2>4, <2>5, <2>6, ConnCallMoves DEF ConnectionsInv
<1>3. CASE ~FencedAt(caller[c].version)
  BY <1>1, <1>3, ConnFails DEF Rotate
<1> QED  BY <1>2, <1>3

(* activate() as it was rotated, or not at all.                            *)
LEMMA ConnActivates ==
  ASSUME ConnectionsInv, NEW c \in Callers, ActivateConnection(c) PROVE ConnectionsInv'
<1>1. /\ authAttempt' \in [Attempts -> Attempt] /\ secrets' \in Nat
      /\ UNCHANGED <<authAttempt, secrets>>
  BY DEF ActivateConnection, ConnectionsInv
<1>2. CASE /\ SetConnState(caller[c].version, "active")
           /\ ReturnFrom(c) \/ CallerGoto(c, "consume")
  <2>1. "active" \in ConnectionStates \ {"none"} /\ "consume" \in PlainSteps
    BY DEF ConnectionStates, PlainSteps, CallerSteps
  <2>2. ConnRowMoves(conn, conn')  BY <1>2, <2>1, ConnStateWritten
  <2> QED  BY <1>1, <1>2, <2>1, <2>2, ConnReturns, ConnGoes
<1>3. CASE ConnFail(c) /\ UNCHANGED conn  BY <1>1, <1>3, ConnFails
<1> QED  BY <1>2, <1>3 DEF ActivateConnection

(* The fenced writes of refresh(), disconnect(), revoke() and resolve().   *)
LEMMA ConnEnds ==
  ASSUME ConnectionsInv, NEW c \in Callers, MarkDegraded(c) \/ WriteEnd(c) \/ MarkExpired(c)
  PROVE  ConnectionsInv'
<1>1. /\ authAttempt' \in [Attempts -> Attempt] /\ secrets' \in Nat /\ ReturnFrom(c)
  BY DEF MarkDegraded, WriteEnd, MarkExpired, ConnectionsInv
<1>2. {"degraded", "expired"} \subseteq ConnectionStates \ {"none"}  BY DEF ConnectionStates
<1>3. CASE \E v \in Nat, to \in ConnectionStates \ {"none"} : SetConnState(v, to)
  BY <1>1, <1>3, ConnStateWritten, ConnReturns
<1>4. CASE UNCHANGED conn  BY <1>1, <1>4, ConnStays, ConnReturns
<1>5. /\ caller[c].read \in Nat /\ caller[c].version \in Nat
      /\ WriteEnd(c) => caller[c].to \in ConnectionStates \ {"none"}
  BY DEF ConnectionsInv, ConnCall, ConnCallFits, WriteEnd, CallerAt, ConnectionStates
<1> QED  BY <1>2, <1>3, <1>4, <1>5 DEF MarkDegraded, WriteEnd, MarkExpired

(* refresh(), disconnect(), revoke() and resolve() read the row.           *)
LEMMA ConnReads ==
  ASSUME ConnectionsInv, NEW c \in Callers,
         Refresh(c) \/ Resolve(c) \/ \E to \in {"disconnected", "revoked"} : EndConnection(c, to)
  PROVE  ConnectionsInv'
<1> DEFINE again == [NoConnCall EXCEPT !.pc = "refresh", !.refreshing = TRUE,
                                       !.read = conn.version, !.was = conn.state]
           end(to) == [NoConnCall EXCEPT !.pc = "end", !.to = to, !.version = conn.version]
           late == [NoConnCall EXCEPT !.pc = "expire", !.version = conn.version]
<1>1. /\ UNCHANGED <<conn, secrets>> /\ authAttempt' \in [Attempts -> Attempt]
      /\ conn \in Connection /\ (conn.state = "none") = (conn.version = 0)
  BY DEF Refresh, Resolve, EndConnection, ConnectionsInv, ConnRow
<1>2. CASE Refresh(c)
  <2>1. ConnCallSound(again, conn)
    BY <1>2, ConnFreshRefresh DEF Refresh, Exists, ConnectionsInv
  <2>2. Begin(c, again)  BY <1>2 DEF Refresh
  <2> HIDE DEF again
  <2> QED  BY <1>1, <2>1, <2>2, ConnBegins
<1>3. CASE Resolve(c)
  <2>1. ConnCallSound(late, conn)  BY <1>1, ConnFreshCalls
  <2>2. Begin(c, late)  BY <1>3 DEF Resolve
  <2> HIDE DEF late
  <2> QED  BY <1>1, <2>1, <2>2, ConnBegins
<1>4. ASSUME NEW to \in {"disconnected", "revoked"}, EndConnection(c, to) PROVE ConnectionsInv'
  <2>1. ConnCallSound(end(to), conn)  BY <1>1, ConnFreshCalls
  <2>2. Begin(c, end(to))  BY <1>4 DEF EndConnection
  <2> HIDE DEF end
  <2> QED  BY <1>1, <2>1, <2>2, ConnBegins
<1> QED  BY <1>2, <1>3, <1>4

(* The adapter's refresh is carried to the rotation with the version read. *)
LEMMA ConnRefreshes ==
  ASSUME ConnectionsInv, NEW c \in Callers, AdapterRefresh(c) PROVE ConnectionsInv'
<1> DEFINE r == [caller[c] EXCEPT !.pc = "rotate", !.secret = secrets + 1,
                                  !.version = caller[c].read]
<1>1. UNCHANGED <<conn, authAttempt>>  BY DEF AdapterRefresh
<1>2. CASE ConnFail(c) /\ UNCHANGED secrets  BY <1>1, <1>2, ConnFails
<1>3. CASE /\ secrets' = secrets + 1
           /\ caller' = [caller EXCEPT ![c].pc = "rotate", ![c].secret = secrets + 1,
                                       ![c].version = caller[c].read]
  <2>1. caller[c] \in ConnCall /\ ConnCallFits(caller[c], conn) /\ secrets \in Nat
    BY DEF ConnectionsInv
  <2>2. r \in ConnCall /\ ConnCallFits(r, conn)
    <3>1. /\ "rotate" \in CallerSteps /\ caller[c].pc = "refresh"
          /\ secrets + 1 \in Nat /\ caller[c].read \in Nat
      BY <2>1 DEF CallerSteps, AdapterRefresh, CallerAt, ConnCall
    <3> QED  BY <2>1, <3>1, ConnCallGains, ConnFitsToRotate
  <2>3. caller' = [caller EXCEPT ![c] = r]  BY <1>3 DEF ConnectionsInv
  <2>4. secrets' \in Nat /\ ConnRowMoves(conn, conn')  BY <1>1, <1>3, <2>1, ConnStays
  <2> HIDE DEF r
  <2> QED  BY <1>1, <2>2, <2>3, <2>4, ConnCallMoves DEF ConnectionsInv
<1> QED  BY <1>2, <1>3 DEF AdapterRefresh

(* The connection, its attempts and the calls that are under way keep what *)
(* they say of each other, at every interleaving of the lifecycle calls    *)
(* (lifecycle.ts).                                                         *)
THEOREM ConnectionsKept == ConnInit /\ [][ConnNext]_connVars => []ConnectionsInv
<1>1. ConnInit => ConnectionsInv
  <2> SUFFICES ASSUME ConnInit PROVE ConnectionsInv
    OBVIOUS
  <2>1. ConnRow(conn) /\ authAttempt \in [Attempts -> Attempt]
    BY DEF ConnInit, ConnRow, Connection, ConnectionStates, Attempt
  <2>2. NoConnCall \in ConnCall /\ ConnCallFits(NoConnCall, conn)
    BY <2>1, ConnFreshCalls DEF ConnRow, ConnCallSound
  <2> QED  BY <2>1, <2>2 DEF ConnInit, ConnectionsInv
<1>2. ConnectionsInv /\ ConnNext => ConnectionsInv'
  BY ConnStarts, ConnLapses, ConnCallbackBegins, ConnMovesOn, ConnExchanges, ConnUpserts,
     ConnRotates, ConnActivates, ConnEnds, ConnReads, ConnRefreshes DEF ConnNext
<1>3. ConnectionsInv /\ UNCHANGED connVars => ConnectionsInv'
  BY DEF connVars, ConnectionsInv
<1> QED  BY <1>1, <1>2, <1>3, PTL

-----------------------------------------------------------------------------
(* What each attempt is settled with is what it was first settled with:    *)
(* settleAttempt's conditional update writes no settled row.               *)
THEOREM SettledStand == ConnInit /\ [][ConnNext]_connVars => SettledOnce
<1>1. ASSUME ConnectionsInv, [ConnNext]_connVars, NEW a \in Attempts,
             authAttempt[a].outcome \in SETTLED
      PROVE  authAttempt'[a].outcome \in SETTLED /\ authAttempt'[a].secret = authAttempt[a].secret
  <2>1. authAttempt \in [Attempts -> Attempt]  BY <1>1 DEF ConnectionsInv
  <2>2. CASE UNCHANGED authAttempt  BY <1>1, <2>2
  <2>3. ASSUME NEW b \in Attempts, StartAuthorization(b) \/ AttemptLapses(b)
        PROVE  /\ authAttempt'[a].outcome \in SETTLED
               /\ authAttempt'[a].secret = authAttempt[a].secret
    BY <1>1, <2>1, <2>3 DEF StartAuthorization, AttemptLapses, Attempt, SETTLED
  <2>4. ASSUME NEW c \in Callers, NEW b \in Attempts, CompleteCallback(c, b)
        PROVE  /\ authAttempt'[a].outcome \in SETTLED
               /\ authAttempt'[a].secret = authAttempt[a].secret
    BY <1>1, <2>1, <2>4 DEF CompleteCallback, Attempt, SETTLED
  <2>5. ASSUME NEW c \in Callers, SettleAttempt(c) \/ Consume(c)
        PROVE  /\ authAttempt'[a].outcome \in SETTLED
               /\ authAttempt'[a].secret = authAttempt[a].secret
    BY <1>1, <2>1, <2>5 DEF SettleAttempt, Consume, MaySettle, Attempt, SETTLED
  <2> QED
    BY <1>1, <2>2, <2>3, <2>4, <2>5
    DEF ConnNext, connVars, CredentialLapses, FindActivatedConnection, ConnExchange,
        UpsertActivatedConnection, CreateConnection, Rotate, ActivateConnection, Refresh,
        AdapterRefresh, MarkDegraded, EndConnection, WriteEnd, Resolve, MarkExpired, CallerCrash
<1>2. ConnectionsInv /\ [ConnNext]_connVars =>
        [\A a \in Attempts : authAttempt[a].outcome \in SETTLED =>
           /\ authAttempt'[a].outcome \in SETTLED
           /\ authAttempt'[a].secret = authAttempt[a].secret]_connVars
  BY <1>1
<1> QED  BY <1>2, ConnectionsKept, PTL DEF SettledOnce

(* How a step changes the row's state: not at all, to the state of a new   *)
(* row, or along a legal transition; and to active from another state only *)
(* by a caller that activates (assertConnectionTransition).                *)
LEMMA ConnStateMoves ==
  ASSUME ConnectionsInv, [ConnNext]_connVars
  PROVE  \/ conn'.state = conn.state
         \/ conn.state = "none"
         \/ /\ conn'.state \in CONNECTION_TRANSITIONS[conn.state]
            /\ conn'.state = "active" =>
                 \E c \in Callers : /\ CallerAt(c, "activate")
                                    /\ SetConnState(caller[c].version, "active")
<1>1. conn \in Connection  BY DEF ConnectionsInv, ConnRow
<1>2. CASE UNCHANGED conn  BY <1>2
<1>3. CASE CredentialLapses  BY <1>1, <1>3 DEF CredentialLapses, Connection
<1>4. ASSUME NEW c \in Callers, CreateConnection(c)
      PROVE  conn'.state = conn.state \/ conn.state = "none"
  BY <1>4 DEF CreateConnection, Exists
<1>5. ASSUME NEW c \in Callers, Rotate(c) PROVE conn'.state = conn.state
  BY <1>1, <1>5 DEF Rotate, Connection
<1>6. ASSUME NEW v, NEW to, SetConnState(v, to)
      PROVE  conn'.state = to /\ (to = conn.state \/ to \in CONNECTION_TRANSITIONS[conn.state])
  BY <1>1, <1>6 DEF SetConnState, Legal, Connection
<1>7. ASSUME NEW c \in Callers, ActivateConnection(c), ~UNCHANGED conn
      PROVE  CallerAt(c, "activate") /\ SetConnState(caller[c].version, "active")
  BY <1>7 DEF ActivateConnection
<1>8. ASSUME NEW c \in Callers, MarkDegraded(c) \/ WriteEnd(c) \/ MarkExpired(c), ~UNCHANGED conn
      PROVE  \E v, to : SetConnState(v, to) /\ to # "active"
  <2>1. caller[c].pc = "end" => caller[c].to # "active"
    BY DEF ConnectionsInv, ConnCallFits
  <2> QED  BY <1>8, <2>1 DEF MarkDegraded, WriteEnd, MarkExpired, CallerAt
<1>9. CASE \E c \in Callers : ActivateConnection(c) /\ ~UNCHANGED conn
  BY <1>6, <1>7, <1>9
<1>10. CASE \E c \in Callers : /\ MarkDegraded(c) \/ WriteEnd(c) \/ MarkExpired(c)
                               /\ ~UNCHANGED conn
  BY <1>6, <1>8, <1>10
<1> QED
  BY <1>2, <1>3, <1>4, <1>5, <1>9, <1>10
  DEF ConnNext, connVars, StartAuthorization, AttemptLapses, CompleteCallback,
      FindActivatedConnection, ConnExchange, SettleAttempt, UpsertActivatedConnection, Consume,
      Refresh, AdapterRefresh, EndConnection, Resolve, CallerCrash

(* A connection that is parked or gone stays so.                           *)
THEOREM DownStands == ConnInit /\ [][ConnNext]_connVars => DownStaysDown
<1>1. ASSUME ConnectionsInv, [ConnNext]_connVars,
             conn.state \in {"expired", "revoked", "disconnected"}
      PROVE  conn'.state \notin {"none", "active", "degraded"}
  <2>1. CONNECTION_TRANSITIONS[conn.state] \subseteq {"revoked", "disconnected"}
    BY <1>1 DEF CONNECTION_TRANSITIONS, ConnectionStates
  <2> QED  BY <1>1, <2>1, ConnStateMoves
<1>2. ConnectionsInv /\ [ConnNext]_connVars =>
        [conn.state \in {"expired", "revoked", "disconnected"}
           => conn'.state \notin {"none", "active", "degraded"}]_connVars
  BY <1>1
<1> QED  BY <1>2, ConnectionsKept, PTL DEF DownStaysDown

(* A degraded connection is reactivated with its reactivator's secret: at  *)
(* the version the call rotated to, the row carries that secret.           *)
THEOREM ActivationsOwn == ConnInit /\ [][ConnNext]_connVars => ActivatedWithOwnSecret
<1>1. ASSUME ConnectionsInv, [ConnNext]_connVars, conn.state = "degraded", conn'.state = "active"
      PROVE  \E c \in Callers : CallerAt(c, "activate") /\ caller[c].secret = conn'.secret
  <2>1. PICK c \in Callers : CallerAt(c, "activate") /\ SetConnState(caller[c].version, "active")
    BY <1>1, ConnStateMoves
  <2>2. caller[c].secret = conn.secret
    BY <1>1, <2>1 DEF ConnectionsInv, ConnCallFits, CallerAt, SetConnState, FencedAt
  <2>3. conn'.secret = conn.secret
    BY <1>1, <2>1 DEF ConnectionsInv, ConnRow, Connection, SetConnState
  <2> QED  BY <2>1, <2>2, <2>3
<1>2. ConnectionsInv /\ [ConnNext]_connVars =>
        [conn.state = "degraded" /\ conn'.state = "active"
           => \E c \in Callers : CallerAt(c, "activate") /\ caller[c].secret = conn'.secret]_connVars
  BY <1>1
<1> QED  BY <1>2, ConnectionsKept, PTL DEF ActivatedWithOwnSecret

-----------------------------------------------------------------------------
(***************************************************************************)
(* Versions of a template.                                                 *)
(*                                                                         *)
(* Publishers read the largest number and insert after an await.  The      *)
(* numbers in use are those up to their count, a publisher holds one of    *)
(* them or the next, so the one insert the key lets through adds the next. *)
(***************************************************************************)

(* The numbers in use.                                                     *)
NumbersUsed == {v.number : v \in versions}

(* What a publisher may be called with, and what its call holds.           *)
Offered == {<< >>} \cup UNION {Offers[p] : p \in Publishers}
PublisherRow == [step : PublisherSteps, status : {"draft", "archived"}, number : Nat,
                 definition : Offered]

(* A publisher that has read the largest number holds one of those in use, *)
(* or the next; a row is only ever added by a publisher that has not       *)
(* answered yet.                                                           *)
DefinitionsInv ==
  /\ IsFiniteSet(versions)
  /\ NumbersUsed = 1..Cardinality(versions)
  /\ publisher \in [Publishers -> PublisherRow]
  /\ template \in {"draft", "archived"}
  /\ \A p \in Publishers :
       publisher[p].step = "numbered" => publisher[p].number \in 1..(Cardinality(versions) + 1)
  /\ \A p \in Publishers :
       publisher[p].step = "published" <=> \E v \in versions : v.by = p

(* The largest of the numbers up to n is n.                                *)
LEMMA MaxUpTo == ASSUME NEW n \in Nat PROVE Max({0} \cup 1..n) = n
<1> DEFINE S == {0} \cup 1..n
<1>1. S \subseteq Int /\ n \in S /\ \A y \in S : n >= y  OBVIOUS
<1> HIDE DEF S
<1>2. \A x \in S : (\A y \in S : x >= y) => x = n  BY <1>1
<1>3. Max(S) = n  BY <1>1, <1>2 DEF Max
<1> QED  BY <1>3 DEF S

(* A call that goes on without an told to publish keeps the invariant.   *)
LEMMA PublisherMoves ==
  ASSUME DefinitionsInv, NEW p \in Publishers, NEW r \in PublisherRow,
         publisher[p].step # "published", r.step # "published",
         r.step = "numbered" => r.number \in 1..(Cardinality(versions) + 1),
         publisher' = [publisher EXCEPT ![p] = r], UNCHANGED versions,
         template' \in {"draft", "archived"}
  PROVE  DefinitionsInv'
<1>1. publisher' \in [Publishers -> PublisherRow]  BY DEF DefinitionsInv
<1>2. ASSUME NEW q \in Publishers
      PROVE  /\ publisher'[q].step = "numbered" =>
                  publisher'[q].number \in 1..(Cardinality(versions) + 1)
             /\ publisher'[q].step = "published" <=> \E v \in versions : v.by = q
  <2>1. CASE q = p  BY <2>1 DEF DefinitionsInv
  <2>2. CASE q # p  BY <2>2 DEF DefinitionsInv
  <2> QED  BY <2>1, <2>2
<1>3. NumbersUsed' = 1..Cardinality(versions')  BY DEF DefinitionsInv, NumbersUsed
<1> QED  BY <1>1, <1>2, <1>3 DEF DefinitionsInv

(* publishVersion reads the template.                                      *)
LEMMA PublishReads ==
  ASSUME DefinitionsInv, NEW p \in Publishers, NEW d \in Offers[p], PublishVersion(p, d)
  PROVE  DefinitionsInv'
<1> DEFINE r == [publisher[p] EXCEPT !.step = "found", !.status = template, !.definition = d]
<1>1. /\ publisher' = [publisher EXCEPT ![p] = r] /\ UNCHANGED <<template, versions>>
      /\ publisher[p].step = "idle" /\ publisher[p] \in PublisherRow
      /\ template \in {"draft", "archived"}
  BY DEF PublishVersion, DefinitionsInv
<1>2. d \in Offered /\ "found" \in PublisherSteps  BY DEF Offered, PublisherSteps
<1>3. r \in PublisherRow  BY <1>1, <1>2 DEF PublisherRow
<1>4. r.step = "found"  BY <1>1 DEF PublisherRow
<1> HIDE DEF r
<1> QED  BY <1>1, <1>3, <1>4, PublisherMoves

(* nextVersionNumber: the largest number in use is their count.            *)
LEMMA PublishNumbers ==
  ASSUME DefinitionsInv, NEW p \in Publishers, NextVersionNumber(p) PROVE DefinitionsInv'
<1> DEFINE n == Cardinality(versions)
           refused == [publisher[p] EXCEPT !.step = "archived"]
           numbered == [publisher[p] EXCEPT !.step = "numbered", !.number = n + 1]
<1>1. /\ UNCHANGED <<template, versions>> /\ template \in {"draft", "archived"}
      /\ publisher[p].step = "found" /\ publisher[p] \in PublisherRow
  BY DEF NextVersionNumber, DefinitionsInv
<1>2. n \in Nat  BY FS_CardinalityType DEF DefinitionsInv
<1>3. Max({0} \cup {v.number : v \in versions}) = n
  BY <1>2, MaxUpTo DEF DefinitionsInv, NumbersUsed
<1>4. "archived" \in PublisherSteps /\ "numbered" \in PublisherSteps  BY DEF PublisherSteps
<1>5. refused \in PublisherRow /\ refused.step = "archived"  BY <1>1, <1>4 DEF PublisherRow
<1>6. /\ numbered \in PublisherRow /\ numbered.step = "numbered"
      /\ numbered.number \in 1..(n + 1)
  <2> HIDE DEF n
  <2>1. n + 1 \in Nat /\ n + 1 \in 1..(n + 1)  BY <1>2
  <2>2. numbered \in PublisherRow  BY <1>1, <1>4, <2>1 DEF PublisherRow
  <2>3. numbered.step = "numbered" /\ numbered.number = n + 1  BY <1>1 DEF PublisherRow
  <2> QED  BY <2>1, <2>2, <2>3
<1>7. \/ publisher' = [publisher EXCEPT ![p] = refused]
      \/ publisher' = [publisher EXCEPT ![p] = numbered]
  BY <1>3 DEF NextVersionNumber
<1> HIDE DEF refused, numbered
<1> QED  BY <1>1, <1>5, <1>6, <1>7, PublisherMoves

(* createVersion: a number that is not taken is the next one.              *)
LEMMA PublishStores ==
  ASSUME DefinitionsInv, NEW p \in Publishers, CreateVersion(p) PROVE DefinitionsInv'
<1> DEFINE n == publisher[p].number
           new == BuildVersion(p, n, publisher[p].definition)
           said(told) == [publisher[p] EXCEPT !.step = told]
<1>1. /\ publisher[p].step = "numbered" /\ publisher[p] \in PublisherRow
      /\ n \in 1..(Cardinality(versions) + 1) /\ UNCHANGED template
  BY DEF CreateVersion, DefinitionsInv
<1>2. \A told \in {"invalid", "conflict", "published"} :
        said(told) \in PublisherRow /\ said(told).step = told
  BY <1>1 DEF PublisherRow, PublisherSteps
<1>3. CASE /\ UNCHANGED versions
           /\ \E told \in {"invalid", "conflict"} :
                publisher' = [publisher EXCEPT ![p] = said(told)]
  <2>1. PICK told \in {"invalid", "conflict"} : publisher' = [publisher EXCEPT ![p] = said(told)]
    BY <1>3
  <2>2. template' \in {"draft", "archived"}  BY <1>1 DEF DefinitionsInv
  <2>3. said(told) \in PublisherRow /\ said(told).step = told  BY <1>2
  <2> HIDE DEF said
  <2> QED  BY <1>1, <1>3, <2>1, <2>2, <2>3, PublisherMoves
<1>4. CASE /\ ~NumberTaken(n) /\ versions' = versions \cup {new}
           /\ publisher' = [publisher EXCEPT ![p] = said("published")]
  <2>1. new.number = n /\ new.by = p /\ Cardinality(versions) \in Nat
    BY FS_CardinalityType DEF BuildVersion, DefinitionsInv
  <2>2. new \notin versions /\ n \notin NumbersUsed
    BY <1>4, <2>1 DEF NumberTaken, NumbersUsed
  <2>3. n = Cardinality(versions) + 1  BY <1>1, <2>1, <2>2 DEF DefinitionsInv
  <2>4. said("published") \in PublisherRow /\ said("published").step = "published"  BY <1>2
  <2> HIDE DEF new, n, said
  <2>5. IsFiniteSet(versions') /\ Cardinality(versions') = n
    BY <1>4, <2>2, <2>3, FS_AddElement DEF DefinitionsInv
  <2>6. NumbersUsed' = 1..Cardinality(versions')
    <3>1. NumbersUsed' = NumbersUsed \cup {n}  BY <1>4, <2>1 DEF NumbersUsed
    <3> QED  BY <2>1, <2>3, <2>5, <3>1 DEF DefinitionsInv
  <2>7. publisher' \in [Publishers -> PublisherRow]  BY <1>4, <2>4 DEF DefinitionsInv
  <2>8. ASSUME NEW q \in Publishers
        PROVE  /\ publisher'[q].step = "numbered" =>
                    publisher'[q].number \in 1..(Cardinality(versions') + 1)
               /\ publisher'[q].step = "published" <=> \E v \in versions' : v.by = q
    <3>1. CASE q = p
      <4>1. publisher'[q].step = "published"  BY <1>4, <2>4, <3>1 DEF DefinitionsInv
      <4> QED  BY <1>4, <2>1, <3>1, <4>1
    <3>2. CASE q # p
      <4>1. publisher'[q] = publisher[q]  BY <1>4, <3>2 DEF DefinitionsInv
      <4>2. publisher[q].step = "numbered" => publisher[q].number \in 1..(Cardinality(versions) + 1)
        BY DEF DefinitionsInv
      <4>3. publisher'[q].step = "published" <=> \E v \in versions' : v.by = q
        BY <1>4, <2>1, <3>2, <4>1 DEF DefinitionsInv
      <4> QED  BY <2>1, <2>3, <2>5, <4>1, <4>2, <4>3
    <3> QED  BY <3>1, <3>2
  <2> QED  BY <1>1, <2>5, <2>6, <2>7, <2>8 DEF DefinitionsInv
<1>5. \/ /\ UNCHANGED versions
         /\ \E told \in {"invalid", "conflict"} :
              publisher' = [publisher EXCEPT ![p] = said(told)]
      \/ /\ ~NumberTaken(n) /\ versions' = versions \cup {new}
         /\ publisher' = [publisher EXCEPT ![p] = said("published")]
  BY DEF CreateVersion
<1> QED  BY <1>3, <1>4, <1>5

(* The versions of a template and the calls that publish them.             *)
THEOREM DefinitionsKept == DefinitionsSpec => []DefinitionsInv
<1>1. DefinitionsInit => DefinitionsInv
  <2> SUFFICES ASSUME DefinitionsInit PROVE DefinitionsInv
    OBVIOUS
  <2>1. IsFiniteSet(versions) /\ Cardinality(versions) = 0  BY FS_EmptySet DEF DefinitionsInit
  <2>2. NumbersUsed = 1..0  BY DEF DefinitionsInit, NumbersUsed
  <2>3. IdlePublisher \in PublisherRow /\ IdlePublisher.step = "idle"
    BY DEF IdlePublisher, PublisherRow, PublisherSteps, Offered
  <2>4. \A p \in Publishers : publisher[p] = IdlePublisher  BY DEF DefinitionsInit
  <2>5. publisher \in [Publishers -> PublisherRow]  BY <2>3 DEF DefinitionsInit
  <2> QED  BY <2>1, <2>2, <2>3, <2>4, <2>5 DEF DefinitionsInit, DefinitionsInv
<1>2. DefinitionsInv /\ DefinitionsNext => DefinitionsInv'
  <2>1. DefinitionsInv /\ ArchiveTemplate => DefinitionsInv'
    BY DEF ArchiveTemplate, DefinitionsInv, NumbersUsed
  <2> QED  BY <2>1, PublishReads, PublishNumbers, PublishStores DEF DefinitionsNext
<1>3. DefinitionsInv /\ UNCHANGED definitionVars => DefinitionsInv'
  BY DEF definitionVars, DefinitionsInv, NumbersUsed
<1> QED  BY <1>1, <1>2, <1>3, PTL DEF DefinitionsSpec

(* The graph of the steps.  One turn of the walk places the step at the    *)
(* head of the queue; between two turns the steps that wait for nothing    *)
(* are in the order or queued (TurnFits).  So a step in the order comes    *)
(* after what it depends on, and when the queue is empty a step left over  *)
(* waits for another one left over, which steps that can be ranked exclude.*)
(* Sets of steps are finite, and so is what lies below an element.          *)
LEMMA StepSetsFinite ==
  ASSUME NEW n \in Nat, NEW S \in SUBSET (1..n)
  PROVE  /\ IsFiniteSet(S) /\ Cardinality(S) \in Nat
         /\ \A s \in S : /\ IsFiniteSet({t \in S : t <= s})
                         /\ Cardinality({t \in S : t <= s}) \in 1..Cardinality(S)
<1>1. IsFiniteSet(1..n)
  BY FS_Interval
<1>2. IsFiniteSet(S) /\ Cardinality(S) \in Nat
  BY <1>1, FS_Subset, FS_CardinalityType
<1>3. ASSUME NEW s \in S
      PROVE  /\ IsFiniteSet({t \in S : t <= s})
             /\ Cardinality({t \in S : t <= s}) \in 1..Cardinality(S)
  <2> DEFINE D == {t \in S : t <= s}
  <2>1. D \in SUBSET S /\ s \in D
    OBVIOUS
  <2> HIDE DEF D
  <2>2. IsFiniteSet(D) /\ Cardinality(D) <= Cardinality(S)
    BY <1>2, <2>1, FS_Subset
  <2>3. Cardinality(D) \in Nat
    BY <2>2, FS_CardinalityType
  <2>4. Cardinality(D) # 0
    BY <2>1, <2>2, FS_EmptySet
  <2>5. Cardinality(D) \in 1..Cardinality(S)
    BY <1>2, <2>2, <2>3, <2>4
  <2> QED
    BY <2>2, <2>5 DEF D
<1> QED
  BY <1>2, <1>3

(* The number of elements up to one tells the elements apart.              *)
LEMMA StepRanksRise ==
  ASSUME NEW n \in Nat, NEW S \in SUBSET (1..n), NEW a \in S, NEW b \in S, a < b
  PROVE  Cardinality({t \in S : t <= a}) < Cardinality({t \in S : t <= b})
<1> DEFINE A == {t \in S : t <= a}
           B == {t \in S : t <= b}
<1>0. a \in 1..n /\ b \in 1..n /\ \A t \in S : t \in 1..n
  OBVIOUS
<1>a. \A t \in S : t <= a => t <= b
  BY <1>0
<1>b. b <= b /\ ~(b <= a)
  BY <1>0
<1>1. A \in SUBSET B /\ b \in B /\ b \notin A
  BY <1>a, <1>b
<1>2. IsFiniteSet(B)
  BY StepSetsFinite
<1> HIDE DEF A, B
<1>3. A # B /\ Cardinality(A) <= Cardinality(B) /\ Cardinality(A) # Cardinality(B)
  BY <1>1, <1>2, FS_Subset
<1>4. Cardinality(A) \in Nat /\ Cardinality(B) \in Nat
  BY <1>1, <1>2, FS_Subset, FS_CardinalityType
<1>5. Cardinality(A) < Cardinality(B)
  BY <1>3, <1>4
<1> QED
  BY <1>5 DEF A, B

(* Every number up to the size is the rank of an element.                  *)
LEMMA StepRankTaken ==
  ASSUME NEW n \in Nat, NEW S \in SUBSET (1..n), NEW i \in 1..Cardinality(S)
  PROVE  \E s \in S : Cardinality({t \in S : t <= s}) = i
<1> DEFINE k == Cardinality(S)
           rank == [s \in S |-> Cardinality({t \in S : t <= s})]
<1>1. IsFiniteSet(S) /\ k \in Nat
  BY StepSetsFinite
<1>2. rank \in [S -> 1..k]
  BY StepSetsFinite
<1>3. \A a, b \in S : a # b => rank[a] # rank[b]
  <2> SUFFICES ASSUME NEW a \in S, NEW b \in S, a # b PROVE rank[a] # rank[b]
    OBVIOUS
  <2>1. rank[a] \in 1..k /\ rank[b] \in 1..k /\ a \in 1..n /\ b \in 1..n
    BY <1>2
  <2>2. a < b \/ b < a
    BY <2>1
  <2>3. a < b => rank[a] < rank[b]
    BY StepRanksRise
  <2>4. b < a => rank[b] < rank[a]
    BY StepRanksRise
  <2> HIDE DEF rank, k
  <2> QED
    BY <1>1, <2>1, <2>2, <2>3, <2>4
<1>4. IsFiniteSet(1..k) /\ Cardinality(1..k) = k
  <2> HIDE DEF k
  <2> QED
    BY <1>1, FS_Interval
<1>5. rank \in Surjection(S, 1..k)
  <2>1. rank \in Injection(S, 1..k)
    BY <1>2, <1>3 DEF Injection, IsInjective
  <2> HIDE DEF rank
  <2> QED
    BY <1>1, <1>4, <2>1, FS_Injection DEF k
<1>6. PICK s \in S : rank[s] = i
  BY <1>5 DEF Surjection
<1> QED
  BY <1>6

(* Sets of steps are put in declaration order: each once, earlier first.   *)
LEMMA DeclaredSorts ==
  ASSUME NEW n \in Nat, NEW S \in SUBSET (1..n)
  PROVE  /\ Cardinality(S) \in Nat
         /\ Declared(S) \in Seq(S) /\ Len(Declared(S)) = Cardinality(S)
         /\ \A i, j \in DOMAIN Declared(S) : i < j => Declared(S)[i] < Declared(S)[j]
         /\ \A s \in S : \E i \in DOMAIN Declared(S) : Declared(S)[i] = s
<1> DEFINE k == Cardinality(S)
           rank(s) == Cardinality({t \in S : t <= s})
           list == Declared(S)
<1>1. k \in Nat
  BY StepSetsFinite
<1>2. ASSUME NEW i \in 1..k PROVE list[i] \in S /\ rank(list[i]) = i
  <2>1. \E s \in S : rank(s) = i
    BY StepRankTaken
  <2>2. list[i] = CHOOSE s \in S : rank(s) = i
    BY DEF Declared
  <2> HIDE DEF list, rank, k
  <2> QED
    BY <2>1, <2>2
<1>3. list \in [1..k -> S]
  BY <1>2 DEF Declared
<1>4. list \in Seq(S) /\ Len(list) = k /\ DOMAIN list = 1..k
  <2> HIDE DEF list, k
  <2> QED
    BY <1>1, <1>3
<1>5. ASSUME NEW a \in S, NEW b \in S, a < b PROVE rank(a) < rank(b)
  BY <1>5, StepRanksRise
<1>6. \A s \in S : rank(s) \in 1..k
  BY StepSetsFinite
<1>7. ASSUME NEW i \in 1..k, NEW j \in 1..k, i < j PROVE list[i] < list[j]
  <2>1. list[i] \in 1..n /\ list[j] \in 1..n
    BY <1>2
  <2>2. list[i] # list[j]
    <3>1. rank(list[i]) = i /\ rank(list[j]) = j
      BY <1>2
    <3> HIDE DEF rank, list, k
    <3>2. i # j
      BY <1>1, <1>7
    <3> QED
      BY <3>1, <3>2
  <2>3. ~(list[j] < list[i])
    <3> SUFFICES ASSUME list[j] < list[i] PROVE FALSE
      OBVIOUS
    <3>1. rank(list[j]) < rank(list[i])
      BY <1>2, <1>5
    <3>2. rank(list[i]) = i /\ rank(list[j]) = j
      BY <1>2
    <3> HIDE DEF rank, list, k
    <3> QED
      BY <1>1, <1>7, <3>1, <3>2
  <2> HIDE DEF list
  <2> QED
    BY <2>1, <2>2, <2>3
<1>8. ASSUME NEW s \in S PROVE \E i \in 1..k : list[i] = s
  <2> DEFINE i == rank(s)
  <2>1. i \in 1..k
    BY <1>6
  <2>2. list[i] \in S /\ rank(list[i]) = rank(s)
    BY <1>2, <2>1
  <2>3. list[i] \in 1..n /\ s \in 1..n
    BY <2>2
  <2>4. ~(list[i] < s) /\ ~(s < list[i])
    <3>1. list[i] < s => rank(list[i]) < rank(s)
      BY <1>5, <2>2
    <3>2. s < list[i] => rank(s) < rank(list[i])
      BY <1>5, <2>2
    <3>3. rank(s) \in Nat
      BY <1>1, <1>6
    <3> HIDE DEF rank, list
    <3> QED
      BY <2>2, <3>1, <3>2, <3>3
  <2>5. list[i] = s
    <3> HIDE DEF i, list
    <3> QED
      BY <2>3, <2>4
  <2> QED
    BY <2>1, <2>5
<1> QED
  BY <1>1, <1>4, <1>7, <1>8

(* The turns of the walk, as a function of their number.                   *)
TurnsOf(steps, g, k) ==
  g = [n \in 0..k |-> IF n = 0 THEN Start(steps) ELSE Shifted(steps, g[n - 1])]

(* It is defined for every number of turns: were there a least number for  *)
(* which it is not, that for one turn fewer would give it.                 *)
LEMMA TurnsDefined ==
  ASSUME NEW steps, NEW K \in Nat
  PROVE  \E g : TurnsOf(steps, g, K)
<1> DEFINE Bad == {k \in Nat : ~\E g : TurnsOf(steps, g, k)}
<1>1. Bad = {}
  <2> SUFFICES ASSUME Bad # {} PROVE FALSE
    OBVIOUS
  <2>1. PICK k \in Bad : \A y \in Bad : k <= y
    BY SmallestNat
  <2>2. k \in Nat /\ ~\E g : TurnsOf(steps, g, k)
    BY <2>1
  <2>3. CASE k = 0
    <3> DEFINE g == [n \in 0..0 |-> Start(steps)]
    <3>1. TurnsOf(steps, g, 0)
      BY DEF TurnsOf
    <3> QED
      BY <2>2, <2>3, <3>1
  <2>4. CASE k # 0
    <3>1. k - 1 \in Nat /\ ~(k <= k - 1)
      BY <2>2, <2>4
    <3>2. PICK h : TurnsOf(steps, h, k - 1)
      BY <2>1, <3>1
    <3> DEFINE Turn(n, f) == IF n = 0 THEN Start(steps) ELSE Shifted(steps, f[n - 1])
               g == [n \in 0..k |-> Turn(n, h)]
    <3>3. h = [n \in 0..(k - 1) |-> Turn(n, h)]
      BY <3>2 DEF TurnsOf
    <3>4. \A n \in 0..(k - 1) : g[n] = h[n]
      <4>1. \A n \in 0..(k - 1) : n \in 0..k /\ h[n] = Turn(n, h)
        <5> HIDE DEF Turn
        <5> QED
          BY <2>2, <3>3
      <4> HIDE DEF Turn
      <4> QED
        BY <4>1
    <3>5. \A n \in 0..k : Turn(n, g) = Turn(n, h)
      <4> SUFFICES ASSUME NEW n \in 0..k PROVE Turn(n, g) = Turn(n, h)
        OBVIOUS
      <4>1. n # 0 => n - 1 \in 0..(k - 1)
        BY <2>2
      <4>2. n # 0 => g[n - 1] = h[n - 1]
        BY <3>4, <4>1
      <4> HIDE DEF g
      <4> QED
        BY <4>2
    <3>6. g = [n \in 0..k |-> Turn(n, g)]
      <4> HIDE DEF Turn
      <4> QED
        BY <3>5
    <3>7. TurnsOf(steps, g, k)
      <4> HIDE DEF g
      <4> QED
        BY <3>6 DEF TurnsOf
    <3> HIDE DEF g
    <3> QED
      BY <2>2, <3>7
  <2> QED
    BY <2>3, <2>4
<1> QED
  BY <1>1

(* The walk is such a function's last value.                               *)
LEMMA WalkTurns ==
  ASSUME NEW steps, Len(steps) \in Nat
  PROVE  \E g : TurnsOf(steps, g, Len(steps)) /\ Walk(steps) = g[Len(steps)]
<1>1. \E g : g = [n \in 0..Len(steps) |-> IF n = 0 THEN Start(steps) ELSE Shifted(steps, g[n - 1])]
  BY TurnsDefined DEF TurnsOf
<1> DEFINE W == CHOOSE g : g = [n \in 0..Len(steps) |-> IF n = 0 THEN Start(steps)
                                                     ELSE Shifted(steps, g[n - 1])]
<1>2. Walk(steps) = W[Len(steps)]
  BY DEF Walk
<1>3. TurnsOf(steps, W, Len(steps))
  BY <1>1 DEF TurnsOf
<1> QED
  BY <1>2, <1>3

(* Steps and dependencies as arrays.                                       *)
Arrays(steps) ==
  /\ steps \in Seq(ToSet(steps))
  /\ \A n \in 1..Len(steps) : steps[n].dependsOn \in Seq(ToSet(steps[n].dependsOn))

(* The dependencies of step n that are not in the order yet.               *)
Waits(steps, order, n) ==
  {i \in 1..Len(steps[n].dependsOn) : steps[n].dependsOn[i] \notin ToSet(order)}

(* Every step placed comes after what it depends on.                       *)
InPlace(steps, order) ==
  \A n \in 1..Len(steps), i \in 1..Len(order) :
    order[i] = steps[n].id => ToSet(steps[n].dependsOn) \subseteq {order[j] : j \in 1..(i - 1)}

(* Between two turns: `left` counts what each step waits for, and the      *)
(* steps that wait for nothing are in the order or queued, not both.       *)
TurnFits(steps, w) ==
  /\ w.order \in Seq(ToSet(Ids(steps))) /\ DistinctSeq(w.order)
  /\ w.queue \in Seq(1..Len(steps)) /\ DistinctSeq(w.queue)
  /\ \A n \in 1..Len(steps) : w.left[n] = Cardinality(Waits(steps, w.order, n))
  /\ \A n \in 1..Len(steps) :
       steps[n].id \in ToSet(w.order) \/ n \in ToSet(w.queue) <=> Waits(steps, w.order, n) = {}
  /\ \A n \in 1..Len(steps) : ~(steps[n].id \in ToSet(w.order) /\ n \in ToSet(w.queue))
  /\ InPlace(steps, w.order)

(* The first k numbers.                                                    *)
LEMMA FirstNumbers == ASSUME NEW k \in Nat PROVE IsFiniteSet(1..k) /\ Cardinality(1..k) = k
BY FS_Interval

(* What a step waits for is a finite set.                                  *)
LEMMA WaitsFinite ==
  ASSUME NEW steps, Arrays(steps), NEW order, NEW n \in 1..Len(steps)
  PROVE  /\ Len(steps[n].dependsOn) \in Nat
         /\ IsFiniteSet(Waits(steps, order, n)) /\ Cardinality(Waits(steps, order, n)) \in Nat
         /\ Cardinality(Waits(steps, order, n)) = 0 <=> Waits(steps, order, n) = {}
<1>1. Len(steps[n].dependsOn) \in Nat
  BY DEF Arrays
<1>2. IsFiniteSet(1..Len(steps[n].dependsOn))
  BY <1>1, FirstNumbers
<1>3. Waits(steps, order, n) \in SUBSET (1..Len(steps[n].dependsOn))
  BY DEF Waits
<1>4. IsFiniteSet(Waits(steps, order, n))
  BY <1>2, <1>3, FS_Subset
<1> QED
  BY <1>1, <1>4, FS_CardinalityType, FS_EmptySet

(* A set of steps, listed, has each of them once.                          *)
LEMMA DeclaredOnce ==
  ASSUME NEW n \in Nat, NEW S \in SUBSET (1..n)
  PROVE  /\ Declared(S) \in Seq(1..n) /\ DistinctSeq(Declared(S)) /\ ToSet(Declared(S)) = S
<1> DEFINE list == Declared(S)
<1>1. /\ list \in Seq(S)
      /\ \A i, j \in DOMAIN list : i < j => list[i] < list[j]
      /\ \A s \in S : \E i \in DOMAIN list : list[i] = s
  BY DeclaredSorts
<1> HIDE DEF list
<1>2. /\ list \in Seq(1..n) /\ DOMAIN list = 1..Len(list) /\ Len(list) \in Nat
      /\ \A i \in 1..Len(list) : list[i] \in S /\ list[i] \in 1..n
  <2>1. DOMAIN list = 1..Len(list) /\ Len(list) \in Nat /\ \A i \in 1..Len(list) : list[i] \in S
    BY <1>1
  <2>2. \A s \in S : s \in 1..n
    OBVIOUS
  <2>3. list = [i \in 1..Len(list) |-> list[i]]
    BY <1>1
  <2> QED
    BY <2>1, <2>2, <2>3
<1>3. DistinctSeq(list)
  <2> SUFFICES ASSUME NEW i \in 1..Len(list), NEW j \in 1..Len(list), list[i] = list[j], i # j
               PROVE  FALSE
    BY DEF DistinctSeq
  <2>1. i < j \/ j < i
    BY <1>2
  <2>2. list[i] < list[j] \/ list[j] < list[i]
    BY <1>1, <1>2, <2>1
  <2>3. list[i] \in Int /\ list[j] \in Int
    BY <1>2
  <2> QED
    BY <2>2, <2>3
<1>4. ToSet(list) = S
  BY <1>1, <1>2 DEF ToSet
<1> QED
  BY <1>2, <1>3, <1>4 DEF list

(* The walk begins with the steps that depend on nothing.                  *)
LEMMA StartFits ==
  ASSUME NEW steps, Arrays(steps) PROVE TurnFits(steps, Start(steps)) /\ Len(Start(steps).order) = 0
<1> DEFINE K == Len(steps)
           S == {n \in 1..K : steps[n].dependsOn = << >>}
           w == Start(steps)
<1>1. K \in Nat
  BY DEF Arrays
<1>2. w.order = << >> /\ w.queue = Declared(S)
      /\ \A n \in 1..K : w.left[n] = Len(steps[n].dependsOn)
  BY DEF Start
<1>3. /\ w.queue \in Seq(1..K) /\ DistinctSeq(w.queue) /\ ToSet(w.queue) = S
  <2>1. S \in SUBSET (1..K)
    OBVIOUS
  <2> HIDE DEF S, K, w
  <2> QED
    BY <1>1, <1>2, <2>1, DeclaredOnce
<1>4. w.order \in Seq(ToSet(Ids(steps))) /\ DistinctSeq(w.order) /\ ToSet(w.order) = {} /\ Len(w.order) = 0
  <2> HIDE DEF w
  <2> QED
    BY <1>2 DEF DistinctSeq, ToSet
<1>5. \A n \in 1..K : Waits(steps, w.order, n) = 1..Len(steps[n].dependsOn)
  <2> HIDE DEF w
  <2> QED
    BY <1>4 DEF Waits
<1>6. ASSUME NEW n \in 1..K
      PROVE  /\ w.left[n] = Cardinality(Waits(steps, w.order, n))
             /\ n \in S <=> Waits(steps, w.order, n) = {}
  <2>1. Len(steps[n].dependsOn) \in Nat /\ steps[n].dependsOn \in Seq(ToSet(steps[n].dependsOn))
    BY DEF Arrays
  <2>2. Cardinality(1..Len(steps[n].dependsOn)) = Len(steps[n].dependsOn)
    BY <2>1, FirstNumbers
  <2>3. n \in S <=> Len(steps[n].dependsOn) = 0
    BY <2>1
  <2>4. Waits(steps, w.order, n) = 1..Len(steps[n].dependsOn) /\ w.left[n] = Len(steps[n].dependsOn)
    BY <1>2, <1>5
  <2> HIDE DEF w, S, K
  <2> DEFINE k == Len(steps[n].dependsOn)
             u == Waits(steps, w.order, n)
  <2>5. k \in Nat /\ u = 1..k /\ Cardinality(u) = k /\ w.left[n] = k /\ (n \in S <=> k = 0)
    BY <2>1, <2>2, <2>3, <2>4
  <2> HIDE DEF k, u
  <2>6. u = {} <=> k = 0
    BY <2>5
  <2>7. w.left[n] = Cardinality(u) /\ (n \in S <=> u = {})
    BY <2>5, <2>6
  <2> QED
    BY <2>7 DEF u
<1>7. InPlace(steps, w.order)
  <2> HIDE DEF w
  <2> QED
    BY <1>4 DEF InPlace
<1> HIDE DEF w, S
<1> QED
  BY <1>3, <1>4, <1>6, <1>7 DEF TurnFits, w

(* What a sequence over a set holds.                                       *)
LEMMA SeqElements ==
  ASSUME NEW S, NEW q \in Seq(S)
  PROVE  /\ Len(q) \in Nat /\ DOMAIN q = 1..Len(q) /\ \A i \in 1..Len(q) : q[i] \in S /\ q[i] \in ToSet(q)
         /\ \A x \in ToSet(q) : \E i \in 1..Len(q) : q[i] = x
         /\ ToSet(q) \subseteq S
<1>1. Len(q) \in Nat /\ DOMAIN q = 1..Len(q) /\ \A i \in 1..Len(q) : q[i] \in S
  OBVIOUS
<1>2. \A i \in 1..Len(q) : q[i] \in ToSet(q)
  BY <1>1 DEF ToSet
<1>3. \A x \in ToSet(q) : \E i \in 1..Len(q) : q[i] = x
  BY <1>1 DEF ToSet
<1> QED
  BY <1>1, <1>2, <1>3

(* As many things as places, when nothing is repeated.                     *)
LEMMA DistinctCounted ==
  ASSUME NEW S, NEW q \in Seq(S), DistinctSeq(q)
  PROVE  IsFiniteSet(ToSet(q)) /\ Cardinality(ToSet(q)) = Len(q)
<1>1. /\ Len(q) \in Nat /\ DOMAIN q = 1..Len(q) /\ \A i \in 1..Len(q) : q[i] \in ToSet(q)
      /\ \A x \in ToSet(q) : \E i \in 1..Len(q) : q[i] = x
  BY SeqElements
<1> DEFINE f == [i \in 1..Len(q) |-> q[i]]
<1>2. f \in Surjection(1..Len(q), ToSet(q))
  BY <1>1 DEF Surjection
<1>3. f \in Injection(1..Len(q), ToSet(q))
  BY <1>1 DEF Injection, IsInjective, DistinctSeq
<1>4. IsFiniteSet(1..Len(q)) /\ Cardinality(1..Len(q)) = Len(q)
  BY <1>1, FirstNumbers
<1> HIDE DEF f
<1> QED
  BY <1>2, <1>3, <1>4, FS_Surjection

(* The first of a sequence without repetitions, and the rest.              *)
LEMMA HeadOnce ==
  ASSUME NEW S, NEW q \in Seq(S), q # << >>, DistinctSeq(q)
  PROVE  /\ Head(q) \in S /\ Head(q) \in ToSet(q)
         /\ Tail(q) \in Seq(S) /\ DistinctSeq(Tail(q)) /\ ToSet(Tail(q)) = ToSet(q) \ {Head(q)}
<1> DEFINE t == Tail(q)
<1>1. /\ Len(q) \in Nat \ {0} /\ DOMAIN q = 1..Len(q) /\ Head(q) = q[1] /\ Head(q) \in S
      /\ t \in Seq(S) /\ Len(t) = Len(q) - 1 /\ DOMAIN t = 1..Len(t)
      /\ \A i \in 1..Len(t) : t[i] = q[i + 1]
  OBVIOUS
<1> HIDE DEF t
<1>2. Head(q) \in ToSet(q)
  BY <1>1 DEF ToSet
<1>3. \A i \in 1..Len(t) : i + 1 \in 1..Len(q) /\ i + 1 # 1
  BY <1>1
<1>4. DistinctSeq(t)
  <2> SUFFICES ASSUME NEW i \in 1..Len(t), NEW j \in 1..Len(t), t[i] = t[j] PROVE i = j
    BY DEF DistinctSeq
  <2>1. i + 1 = j + 1
    BY <1>1, <1>3 DEF DistinctSeq
  <2> QED
    BY <1>1, <2>1
<1>5. ASSUME NEW x \in ToSet(t) PROVE x \in ToSet(q) /\ x # Head(q)
  <2>1. PICK i \in 1..Len(t) : x = q[i + 1]
    BY <1>1 DEF ToSet
  <2>2. i + 1 \in 1..Len(q) /\ 1 \in 1..Len(q) /\ i + 1 # 1
    BY <1>1, <1>3
  <2>3. q[i + 1] # q[1]
    BY <2>2 DEF DistinctSeq
  <2> QED
    BY <1>1, <2>1, <2>2, <2>3 DEF ToSet
<1>6. ASSUME NEW x \in ToSet(q), x # Head(q) PROVE x \in ToSet(t)
  <2>1. PICK i \in 1..Len(q) : x = q[i]
    BY <1>1 DEF ToSet
  <2>2. i - 1 \in 1..Len(t) /\ (i - 1) + 1 = i
    BY <1>1, <1>6, <2>1
  <2> QED
    BY <1>1, <2>1, <2>2 DEF ToSet
<1> QED
  BY <1>1, <1>2, <1>4, <1>5, <1>6 DEF t

(* A new element at the end.                                               *)
LEMMA AppendOnce ==
  ASSUME NEW S, NEW q \in Seq(S), DistinctSeq(q), NEW x \in S, x \notin ToSet(q)
  PROVE  /\ Append(q, x) \in Seq(S) /\ DistinctSeq(Append(q, x))
         /\ ToSet(Append(q, x)) = ToSet(q) \cup {x}
         /\ Len(q) \in Nat /\ Len(Append(q, x)) = Len(q) + 1 /\ Append(q, x)[Len(q) + 1] = x
         /\ \A i \in 1..Len(q) : Append(q, x)[i] = q[i] /\ q[i] \in ToSet(q)
<1> DEFINE a == Append(q, x)
<1>1. /\ Len(q) \in Nat /\ DOMAIN q = 1..Len(q)
      /\ a \in Seq(S) /\ Len(a) = Len(q) + 1 /\ DOMAIN a = 1..Len(a) /\ a[Len(q) + 1] = x
      /\ \A i \in 1..Len(q) : a[i] = q[i]
  OBVIOUS
<1> HIDE DEF a
<1>2. \A i \in 1..Len(q) : q[i] \in ToSet(q)
  BY <1>1 DEF ToSet
<1>3. \A i \in 1..Len(a) : i \in 1..Len(q) \/ i = Len(q) + 1
  BY <1>1
<1>4. DistinctSeq(a)
  <2> SUFFICES ASSUME NEW i \in 1..Len(a), NEW j \in 1..Len(a), a[i] = a[j] PROVE i = j
    BY DEF DistinctSeq
  <2>1. CASE i \in 1..Len(q) /\ j \in 1..Len(q)
    BY <1>1, <2>1 DEF DistinctSeq
  <2>2. CASE i = Len(q) + 1 \/ j = Len(q) + 1
    BY <1>1, <1>2, <1>3, <2>2
  <2> QED
    BY <1>3, <2>1, <2>2
<1>5. ToSet(a) = ToSet(q) \cup {x}
  <2>1. \A y \in ToSet(a) : y \in ToSet(q) \/ y = x
    BY <1>1, <1>2, <1>3 DEF ToSet
  <2>2. \A y \in ToSet(q) : y \in ToSet(a)
    <3>1. \A i \in 1..Len(q) : i \in 1..Len(a)
      BY <1>1
    <3> QED
      BY <1>1, <3>1 DEF ToSet
  <2>3. Len(q) + 1 \in 1..Len(a)
    BY <1>1
  <2>4. x \in ToSet(a)
    BY <1>1, <2>3 DEF ToSet
  <2> QED
    BY <2>1, <2>2, <2>4
<1> QED
  BY <1>1, <1>2, <1>4, <1>5 DEF a

(* Two sequences with nothing in common, one after the other.              *)
LEMMA ConcatOnce ==
  ASSUME NEW S, NEW q \in Seq(S), DistinctSeq(q), NEW r \in Seq(S), DistinctSeq(r),
         ToSet(q) \cap ToSet(r) = {}
  PROVE  q \o r \in Seq(S) /\ DistinctSeq(q \o r) /\ ToSet(q \o r) = ToSet(q) \cup ToSet(r)
<1> DEFINE c == q \o r
<1>1. /\ Len(q) \in Nat /\ DOMAIN q = 1..Len(q) /\ Len(r) \in Nat /\ DOMAIN r = 1..Len(r)
      /\ c \in Seq(S) /\ Len(c) = Len(q) + Len(r) /\ DOMAIN c = 1..Len(c)
      /\ \A i \in 1..Len(q) : c[i] = q[i]
      /\ \A i \in 1..Len(r) : c[Len(q) + i] = r[i]
  BY ConcatProperties
<1> HIDE DEF c
<1>2. /\ \A i \in 1..Len(q) : i \in 1..Len(c) /\ q[i] \in ToSet(q)
      /\ \A i \in 1..Len(r) : Len(q) + i \in 1..Len(c) /\ r[i] \in ToSet(r)
  <2>1. \A i \in 1..Len(q) : i \in 1..Len(c)
    BY <1>1
  <2>2. \A i \in 1..Len(r) : Len(q) + i \in 1..Len(c)
    BY <1>1
  <2> QED
    BY <1>1, <2>1, <2>2 DEF ToSet
<1>3. \A i \in 1..Len(c) : i \in 1..Len(q) \/ (i - Len(q) \in 1..Len(r) /\ Len(q) + (i - Len(q)) = i)
  BY <1>1
<1>4. DistinctSeq(c)
  <2> SUFFICES ASSUME NEW i \in 1..Len(c), NEW j \in 1..Len(c), c[i] = c[j] PROVE i = j
    BY DEF DistinctSeq
  <2> DEFINE m == i - Len(q)
             n == j - Len(q)
  <2>0. /\ i = Len(q) + m /\ j = Len(q) + n
        /\ i \in 1..Len(q) \/ m \in 1..Len(r)
        /\ j \in 1..Len(q) \/ n \in 1..Len(r)
    BY <1>1, <1>3
  <2> HIDE DEF m, n
  <2>1. CASE i \in 1..Len(q) /\ j \in 1..Len(q)
    BY <1>1, <2>1 DEF DistinctSeq
  <2>2. CASE m \in 1..Len(r) /\ n \in 1..Len(r)
    <3>1. r[m] = c[i] /\ r[n] = c[j]
      BY <1>1, <2>0, <2>2
    <3>2. m = n
      BY <2>2, <3>1 DEF DistinctSeq
    <3> QED
      BY <2>0, <3>2
  <2>3. CASE i \in 1..Len(q) /\ n \in 1..Len(r)
    <3>1. c[i] \in ToSet(q) /\ c[j] \in ToSet(r)
      BY <1>1, <1>2, <2>0, <2>3
    <3> QED
      BY <3>1
  <2>4. CASE m \in 1..Len(r) /\ j \in 1..Len(q)
    <3>1. c[j] \in ToSet(q) /\ c[i] \in ToSet(r)
      BY <1>1, <1>2, <2>0, <2>4
    <3> QED
      BY <3>1
  <2> QED
    BY <2>0, <2>1, <2>2, <2>3, <2>4
<1>5. ASSUME NEW y \in ToSet(c) PROVE y \in ToSet(q) \cup ToSet(r)
  <2>1. PICK i \in 1..Len(c) : y = c[i]
    BY <1>1 DEF ToSet
  <2>2. CASE i \in 1..Len(q)
    BY <1>1, <1>2, <2>1, <2>2
  <2>3. CASE i - Len(q) \in 1..Len(r) /\ Len(q) + (i - Len(q)) = i
    <3>1. c[Len(q) + (i - Len(q))] = r[i - Len(q)]
      BY <1>1, <2>3
    <3> QED
      BY <1>2, <2>1, <2>3, <3>1
  <2> QED
    BY <1>3, <2>2, <2>3
<1>6. \A y \in ToSet(q) \cup ToSet(r) : y \in ToSet(c)
  <2>1. \A y \in ToSet(q) : y \in ToSet(c)
    BY <1>1, <1>2 DEF ToSet
  <2>2. ASSUME NEW y \in ToSet(r) PROVE y \in ToSet(c)
    <3>1. PICK i \in 1..Len(r) : y = r[i]
      BY <1>1 DEF ToSet
    <3>2. Len(q) + i \in 1..Len(c) /\ c[Len(q) + i] = y
      BY <1>1, <1>2, <3>1
    <3> QED
      BY <1>1, <3>2 DEF ToSet
  <2> QED
    BY <2>1, <2>2
<1> QED
  BY <1>1, <1>4, <1>5, <1>6 DEF c

(* One turn: the step at the head of the queue is placed, what waited for  *)
(* it waits for one less, and those that wait for nothing any more are     *)
(* queued.                                                                 *)
LEMMA TurnKept ==
  ASSUME NEW steps, Arrays(steps), DistinctSeq(Ids(steps)),
         NEW w, TurnFits(steps, w), w.queue # << >>
  PROVE  /\ TurnFits(steps, Shifted(steps, w))
         /\ Len(Shifted(steps, w).order) = Len(w.order) + 1
<1> DEFINE K == Len(steps)
           h == Head(w.queue)
           id == steps[h].id
           Old(n) == {i \in 1..Len(steps[n].dependsOn) : steps[n].dependsOn[i] = id}
           W(n) == Waits(steps, w.order, n)
           counts == [n \in 1..K |-> w.left[n] - Occurrences(id, steps[n].dependsOn)]
           F == {n \in 1..K : counts[n] = 0 /\ w.left[n] > 0}
           z == Shifted(steps, w)
<1>1. K \in Nat
  BY DEF Arrays
<1>2. z.left = counts /\ z.queue = Tail(w.queue) \o Declared(F) /\ z.order = Append(w.order, id)
  BY DEF Shifted
<1>3. /\ h \in 1..K /\ h \in ToSet(w.queue)
      /\ Tail(w.queue) \in Seq(1..K) /\ DistinctSeq(Tail(w.queue))
      /\ ToSet(Tail(w.queue)) = ToSet(w.queue) \ {h}
  BY HeadOnce DEF TurnFits
<1>4. id \in ToSet(Ids(steps)) /\ \A n \in 1..K : steps[n].id = id => n = h
  <2>1. Ids(steps) = [n \in 1..K |-> steps[n].id]
    BY DEF Ids
  <2>2. Len(Ids(steps)) = K /\ DOMAIN Ids(steps) = 1..K /\ \A n \in 1..K : Ids(steps)[n] = steps[n].id
    <3> HIDE DEF K
    <3> QED
      BY <1>1, <2>1
  <2> HIDE DEF K, h
  <2>3. Ids(steps)[h] = id /\ h \in DOMAIN Ids(steps)
    BY <1>3, <2>2
  <2>4. id \in ToSet(Ids(steps))
    BY <2>3, Zenon DEF ToSet
  <2>5. \A n \in 1..K : steps[n].id = id => n = h
    BY <1>3, <2>2, <2>3 DEF DistinctSeq
  <2> QED
    BY <2>4, <2>5
<1>5. id \notin ToSet(w.order) /\ W(h) = {}
  BY <1>3 DEF TurnFits
<1>6. /\ z.order \in Seq(ToSet(Ids(steps))) /\ DistinctSeq(z.order)
      /\ ToSet(z.order) = ToSet(w.order) \cup {id}
      /\ Len(w.order) \in Nat /\ Len(z.order) = Len(w.order) + 1
      /\ z.order[Len(w.order) + 1] = id
      /\ \A i \in 1..Len(w.order) : z.order[i] = w.order[i] /\ w.order[i] \in ToSet(w.order)
  <2> HIDE DEF z, id
  <2> QED
    BY <1>2, <1>4, <1>5, AppendOnce DEF TurnFits
<1>7. ASSUME NEW n \in 1..K
      PROVE  /\ Waits(steps, z.order, n) = W(n) \ Old(n)
             /\ counts[n] = Cardinality(Waits(steps, z.order, n))
             /\ counts[n] = 0 <=> Waits(steps, z.order, n) = {}
             /\ w.left[n] > 0 <=> W(n) # {}
  <2>1. Waits(steps, z.order, n) = W(n) \ Old(n)
    <3> HIDE DEF z, id
    <3> QED
      BY <1>6 DEF Waits
  <2>2. W(n) \cap Old(n) = Old(n)
    <3> HIDE DEF z, id
    <3> QED
      BY <1>5 DEF Waits
  <2>3. IsFiniteSet(W(n)) /\ Cardinality(W(n)) \in Nat /\ (Cardinality(W(n)) = 0 <=> W(n) = {})
    BY WaitsFinite
  <2>4. Cardinality(W(n) \ Old(n)) = Cardinality(W(n)) - Cardinality(Old(n))
    <3> HIDE DEF W, Old
    <3> QED
      BY <2>2, <2>3, FS_Difference
  <2>5. counts[n] = w.left[n] - Cardinality(Old(n)) /\ w.left[n] = Cardinality(W(n))
    BY DEF Occurrences, TurnFits
  <2>6. Cardinality(Waits(steps, z.order, n)) = 0 <=> Waits(steps, z.order, n) = {}
    BY WaitsFinite
  <2> HIDE DEF z, counts, W, Old
  <2> QED
    BY <2>1, <2>3, <2>4, <2>5, <2>6
<1> HIDE DEF z, counts, id, W, Old
<1>8. F = {n \in 1..K : W(n) # {} /\ W(n) \ Old(n) = {}}
  BY <1>7
<1>9. F \in SUBSET (1..K)
  OBVIOUS
<1> HIDE DEF F, K
<1>10. Declared(F) \in Seq(1..K) /\ DistinctSeq(Declared(F)) /\ ToSet(Declared(F)) = F
  BY <1>1, <1>9, DeclaredOnce
<1>11. \A n \in 1..K : steps[n].id \in ToSet(w.order) \/ n \in ToSet(w.queue) <=> W(n) = {}
  BY DEF TurnFits, K, W
<1>12. \A n \in 1..K : ~(steps[n].id \in ToSet(w.order) /\ n \in ToSet(w.queue))
  BY DEF TurnFits, K
<1>13. ToSet(w.queue) \subseteq 1..K
  <2>1. w.queue \in Seq(1..K)
    BY DEF TurnFits, K
  <2> QED
    BY <2>1, SeqElements
<1>14. ToSet(Tail(w.queue)) \cap F = {}
  BY <1>3, <1>8, <1>11, <1>13
<1>15. /\ z.queue \in Seq(1..K) /\ DistinctSeq(z.queue)
       /\ ToSet(z.queue) = (ToSet(w.queue) \ {h}) \cup F
  <2> DEFINE q == Tail(w.queue)
             r == Declared(F)
  <2>a. q \in Seq(1..K) /\ DistinctSeq(q) /\ ToSet(q) = ToSet(w.queue) \ {h}
    BY <1>3, Zenon
  <2>b. r \in Seq(1..K) /\ DistinctSeq(r) /\ ToSet(r) = F
    BY <1>10, Zenon
  <2>c. ToSet(q) \cap F = {} /\ z.queue = q \o r
    BY <1>2, <1>14, Zenon
  <2>1. /\ q \in Seq(1..K) /\ DistinctSeq(q) /\ r \in Seq(1..K) /\ DistinctSeq(r)
        /\ ToSet(q) \cap ToSet(r) = {} /\ ToSet(q) = ToSet(w.queue) \ {h} /\ ToSet(r) = F
        /\ z.queue = q \o r
    BY <2>a, <2>b, <2>c, Zenon
  <2> HIDE DEF q, r
  <2>2. q \o r \in Seq(1..K) /\ DistinctSeq(q \o r) /\ ToSet(q \o r) = ToSet(q) \cup ToSet(r)
    BY <2>1, ConcatOnce
  <2> QED
    BY <2>1, <2>2
<1>16. ASSUME NEW n \in 1..K
       PROVE  /\ steps[n].id \in ToSet(z.order) \/ n \in ToSet(z.queue) <=> W(n) \ Old(n) = {}
              /\ ~(steps[n].id \in ToSet(z.order) /\ n \in ToSet(z.queue))
  <2>1. steps[n].id \in ToSet(z.order) <=> steps[n].id \in ToSet(w.order) \/ n = h
    BY <1>4, <1>6 DEF id
  <2>2. n \in ToSet(z.queue) <=> (n \in ToSet(w.queue) /\ n # h) \/ (W(n) # {} /\ W(n) \ Old(n) = {})
    BY <1>8, <1>15
  <2>3. W(h) = {} /\ h \in ToSet(w.queue)
    BY <1>3, <1>5
  <2>4. steps[n].id \in ToSet(w.order) \/ n \in ToSet(w.queue) <=> W(n) = {}
    BY <1>11
  <2>5. ~(steps[n].id \in ToSet(w.order) /\ n \in ToSet(w.queue))
    BY <1>12
  <2>6. W(n) = {} => W(n) \ Old(n) = {}
    OBVIOUS
  <2> QED
    BY <2>1, <2>2, <2>3, <2>4, <2>5, <2>6
<1>17. InPlace(steps, z.order)
  <2> SUFFICES ASSUME NEW n \in 1..K, NEW i \in 1..Len(z.order), z.order[i] = steps[n].id
               PROVE  ToSet(steps[n].dependsOn) \subseteq {z.order[j] : j \in 1..(i - 1)}
    BY DEF InPlace, K
  <2>1. CASE i \in 1..Len(w.order)
    <3>1. w.order[i] = steps[n].id /\ z.order[i] = w.order[i]
      BY <1>6, <2>1
    <3>2. ToSet(steps[n].dependsOn) \subseteq {w.order[j] : j \in 1..(i - 1)}
      BY <2>1, <3>1 DEF TurnFits, InPlace, K
    <3>3. \A j \in 1..(i - 1) : z.order[j] = w.order[j]
      BY <1>6, <2>1
    <3> QED
      BY <3>2, <3>3
  <2>2. CASE i = Len(w.order) + 1
    <3>1. n = h /\ W(n) = {}
      BY <1>4, <1>5, <1>6, <2>2
    <3>2. \A d \in ToSet(steps[n].dependsOn) : d \in ToSet(w.order)
      <4>1. \A k \in 1..Len(steps[n].dependsOn) : steps[n].dependsOn[k] \in ToSet(w.order)
        BY <3>1 DEF W, Waits
      <4>2. DOMAIN steps[n].dependsOn = 1..Len(steps[n].dependsOn)
        BY DEF Arrays, K
      <4> QED
        BY <4>1, <4>2 DEF ToSet
    <3>3. DOMAIN w.order = 1..Len(w.order) /\ i - 1 = Len(w.order)
      BY <1>6, <2>2 DEF TurnFits
    <3>4. \A d \in ToSet(w.order) : \E j \in 1..(i - 1) : z.order[j] = d
      BY <1>6, <3>3 DEF ToSet
    <3> QED
      BY <3>2, <3>4
  <2>3. i \in 1..Len(w.order) \/ i = Len(w.order) + 1
    BY <1>6
  <2> QED
    BY <2>1, <2>2, <2>3
<1>18. TurnFits(steps, z)
  <2>1. \A n \in 1..K : z.left[n] = Cardinality(Waits(steps, z.order, n))
    BY <1>2, <1>7 DEF K
  <2>2. \A n \in 1..K : Waits(steps, z.order, n) = W(n) \ Old(n)
    BY <1>7 DEF K
  <2> QED
    BY <1>6, <1>15, <1>16, <1>17, <2>1, <2>2 DEF TurnFits, K
<1> QED
  BY <1>6, <1>18 DEF z

(* After the last turn, too; and every turn has placed a step, or the      *)
(* queue is empty.                                                         *)
LEMMA WalkFits ==
  ASSUME NEW steps, Arrays(steps), DistinctSeq(Ids(steps))
  PROVE  /\ TurnFits(steps, Walk(steps))
         /\ Walk(steps).queue = << >> \/ Len(Walk(steps).order) = Len(steps)
<1> DEFINE K == Len(steps)
<1>1. K \in Nat
  BY DEF Arrays
<1>2. PICK g : TurnsOf(steps, g, K) /\ Walk(steps) = g[K]
  BY <1>1, WalkTurns
<1> DEFINE Fits(n) == TurnFits(steps, g[n]) /\ (g[n].queue = << >> \/ Len(g[n].order) = n)
           Bad == {n \in 0..K : ~Fits(n)}
<1>3. g[0] = Start(steps) /\ \A n \in 1..K : g[n] = Shifted(steps, g[n - 1])
  <2>1. g = [n \in 0..K |-> IF n = 0 THEN Start(steps) ELSE Shifted(steps, g[n - 1])]
    BY <1>2 DEF TurnsOf
  <2>2. \A n \in 0..K : g[n] = IF n = 0 THEN Start(steps) ELSE Shifted(steps, g[n - 1])
    <3> HIDE DEF K
    <3> QED
      BY <2>1
  <2>3. 0 \in 0..K /\ \A n \in 1..K : n \in 0..K /\ n # 0
    BY <1>1
  <2> HIDE DEF K
  <2> QED
    BY <2>2, <2>3
<1> HIDE DEF K
<1>4. Bad = {}
  <2> SUFFICES ASSUME Bad # {} PROVE FALSE
    OBVIOUS
  <2>1. Bad \subseteq Nat
    OBVIOUS
  <2>2. PICK n \in Bad : \A m \in Bad : n <= m
    <3> HIDE DEF Bad
    <3> QED
      BY <2>1, SmallestNat
  <2>3. n \in 0..K /\ ~Fits(n)
    BY <2>2
  <2>4. CASE n = 0
    BY <1>3, <2>3, <2>4, StartFits
  <2>5. CASE n # 0
    <3>1. n \in 1..K /\ n - 1 \in 0..K /\ ~(n <= n - 1) /\ (n - 1) + 1 = n
      BY <1>1, <2>3, <2>5
    <3>2. n - 1 \notin Bad
      <4> HIDE DEF Bad
      <4> QED
        BY <2>2, <3>1
    <3>3. Fits(n - 1)
      BY <3>1, <3>2
    <3>4. g[n] = Shifted(steps, g[n - 1])
      BY <1>3, <3>1
    <3>5. CASE g[n - 1].queue = << >>
      <4>1. Shifted(steps, g[n - 1]) = g[n - 1]
        BY <3>5 DEF Shifted
      <4> QED
        BY <2>3, <3>3, <3>4, <3>5, <4>1
    <3>6. CASE g[n - 1].queue # << >>
      <4> DEFINE w == g[n - 1]
      <4>1. TurnFits(steps, w) /\ w.queue # << >> /\ Len(w.order) = n - 1
        BY <3>3, <3>6
      <4> HIDE DEF w
      <4>2. TurnFits(steps, Shifted(steps, w)) /\ Len(Shifted(steps, w).order) = Len(w.order) + 1
        BY <4>1, TurnKept
      <4>3. g[n] = Shifted(steps, w)
        BY <3>4 DEF w
      <4> QED
        BY <2>3, <3>1, <4>1, <4>2, <4>3
    <3> QED
      BY <3>5, <3>6
  <2> QED
    BY <2>4, <2>5
<1>5. Fits(K)
  <2>1. K \in 0..K /\ K \notin Bad
    BY <1>1, <1>4
  <2> QED
    BY <2>1
<1> QED
  BY <1>2, <1>5 DEF K

(* The names of the steps.                                                 *)
LEMMA IdsCounted ==
  ASSUME NEW steps, Arrays(steps), DistinctSeq(Ids(steps))
  PROVE  /\ Len(steps) \in Nat /\ Len(Ids(steps)) = Len(steps)
         /\ \A n \in 1..Len(steps) : Ids(steps)[n] = steps[n].id /\ steps[n].id \in ToSet(Ids(steps))
         /\ \A x \in ToSet(Ids(steps)) : \E n \in 1..Len(steps) : steps[n].id = x
         /\ IsFiniteSet(ToSet(Ids(steps))) /\ Cardinality(ToSet(Ids(steps))) = Len(steps)
<1> DEFINE K == Len(steps)
           S == {steps[n].id : n \in 1..K}
           q == Ids(steps)
<1>1. K \in Nat
  BY DEF Arrays
<1>2. q = [n \in 1..K |-> steps[n].id]
  BY DEF Ids
<1>3. q \in Seq(S) /\ Len(q) = K /\ \A n \in 1..K : q[n] = steps[n].id
  <2>1. \A n \in 1..K : steps[n].id \in S
    OBVIOUS
  <2> HIDE DEF S, K, q
  <2> QED
    BY <1>1, <1>2, <2>1
<1> HIDE DEF S, K, q
<1>4. DistinctSeq(q)
  BY DEF q
<1>5. /\ \A n \in 1..K : q[n] \in ToSet(q) /\ \A x \in ToSet(q) : \E i \in 1..K : q[i] = x
      /\ IsFiniteSet(ToSet(q)) /\ Cardinality(ToSet(q)) = K
  BY <1>3, <1>4, SeqElements, DistinctCounted
<1>6. \A x \in ToSet(q) : \E i \in 1..K : q[i] = x
  BY <1>3, SeqElements
<1>7. /\ K \in Nat /\ Len(q) = K /\ \A n \in 1..K : q[n] = steps[n].id /\ steps[n].id \in ToSet(q)
      /\ \A x \in ToSet(q) : \E n \in 1..K : steps[n].id = x
      /\ IsFiniteSet(ToSet(q)) /\ Cardinality(ToSet(q)) = K
  BY <1>1, <1>3, <1>5, <1>6
<1> QED
  BY <1>7 DEF K, q

(* A walk that has placed as many steps as there are has placed them all.  *)
LEMMA AllPlaced ==
  ASSUME NEW steps, Arrays(steps), DistinctSeq(Ids(steps)), NEW w, TurnFits(steps, w)
  PROVE  Len(w.order) = Len(steps) <=> ToSet(w.order) = ToSet(Ids(steps))
<1>1. w.order \in Seq(ToSet(Ids(steps))) /\ DistinctSeq(w.order)
  BY DEF TurnFits
<1>2. ToSet(w.order) \in SUBSET ToSet(Ids(steps)) /\ Cardinality(ToSet(w.order)) = Len(w.order)
  BY <1>1, SeqElements, DistinctCounted
<1>3. IsFiniteSet(ToSet(Ids(steps))) /\ Cardinality(ToSet(Ids(steps))) = Len(steps)
  BY IdsCounted
<1>4. Cardinality(ToSet(Ids(steps))) = Cardinality(ToSet(w.order)) => ToSet(Ids(steps)) = ToSet(w.order)
  BY <1>2, <1>3, FS_Subset
<1> QED
  BY <1>2, <1>3, <1>4

(* When the queue is empty and the steps can be ranked, none is left over: *)
(* a step of least rank left over would wait for nothing.                  *)
LEMMA RankedArePlaced ==
  ASSUME NEW steps, Arrays(steps), DistinctSeq(Ids(steps)), Rankable(steps),
         NEW w, TurnFits(steps, w), w.queue = << >>
  PROVE  Len(w.order) = Len(steps)
<1> DEFINE K == Len(steps)
<1>1. PICK rank \in [1..K -> 1..K] :
        \A n \in 1..K : \A d \in ToSet(steps[n].dependsOn) :
          \E m \in 1..K : steps[m].id = d /\ rank[m] < rank[n]
  BY DEF Rankable
<1> DEFINE Left == {n \in 1..K : steps[n].id \notin ToSet(w.order)}
           R == {rank[n] : n \in Left}
<1>2. K \in Nat
  BY DEF Arrays
<1> HIDE DEF K
<1>3. Left = {}
  <2> SUFFICES ASSUME Left # {} PROVE FALSE
    OBVIOUS
  <2>1. R \subseteq Nat /\ R # {}
    BY <1>1, <1>2
  <2>2. PICK x \in R : \A y \in R : x <= y
    <3> HIDE DEF R
    <3> QED
      BY <2>1, SmallestNat
  <2>3. PICK n \in Left : x = rank[n]
    BY <2>2
  <2>4. n \in 1..K /\ steps[n].id \notin ToSet(w.order)
    BY <2>3
  <2>5. ASSUME NEW d \in ToSet(steps[n].dependsOn) PROVE d \in ToSet(w.order)
    <3>1. PICK m \in 1..K : steps[m].id = d /\ rank[m] < rank[n]
      BY <1>1, <2>4
    <3>2. rank[m] \in 1..K /\ rank[n] \in 1..K
      BY <1>1, <2>4
    <3>3. rank[m] \notin R
      <4> HIDE DEF R
      <4> QED
        BY <1>2, <2>2, <2>3, <3>1, <3>2
    <3>4. m \notin Left
      BY <3>3
    <3> QED
      BY <3>1, <3>4
  <2>6. Waits(steps, w.order, n) = {}
    <3>1. steps[n].dependsOn \in Seq(ToSet(steps[n].dependsOn))
      BY <2>4 DEF Arrays, K
    <3>2. \A i \in 1..Len(steps[n].dependsOn) : steps[n].dependsOn[i] \in ToSet(steps[n].dependsOn)
      BY <3>1, SeqElements
    <3> QED
      BY <2>5, <3>2 DEF Waits
  <2>7. steps[n].id \in ToSet(w.order) \/ n \in ToSet(w.queue)
    BY <2>4, <2>6 DEF TurnFits, K
  <2>8. ToSet(w.queue) = {}
    BY DEF ToSet
  <2> QED
    BY <2>4, <2>7, <2>8
<1>4. ToSet(w.order) = ToSet(Ids(steps))
  <2>1. \A x \in ToSet(Ids(steps)) : \E n \in 1..K : steps[n].id = x
    BY IdsCounted DEF K
  <2>2. ToSet(w.order) \subseteq ToSet(Ids(steps))
    <3>1. w.order \in Seq(ToSet(Ids(steps)))
      BY DEF TurnFits
    <3> QED
      BY <3>1, SeqElements
  <2>3. \A n \in 1..K : steps[n].id \in ToSet(w.order)
    BY <1>3
  <2> QED
    BY <2>1, <2>2, <2>3
<1> QED
  BY <1>4, AllPlaced

(* What was validated runs: every step once, after what it depends on.     *)
LEMMA ValidatedRuns ==
  ASSUME NEW d, Arrays(d.steps), ValidateDefinition(d)
  PROVE  /\ ToSet(ExecutionOrder(d.steps)) = ToSet(Ids(d.steps))
         /\ Len(ExecutionOrder(d.steps)) = Len(d.steps)
         /\ \A n, i \in 1..Len(d.steps) : ExecutionOrder(d.steps)[i] = d.steps[n].id =>
              ToSet(d.steps[n].dependsOn) \subseteq ToSet(SubSeq(ExecutionOrder(d.steps), 1, i - 1))
<1> DEFINE steps == d.steps
           K == Len(steps)
           w == Walk(steps)
           order == ExecutionOrder(steps)
<1>1. DistinctSeq(Ids(steps)) /\ Len(order) = K /\ order = w.order
  BY DEF ValidateDefinition, ValidateStepGraph, ExecutionOrder
<1>2. TurnFits(steps, w)
  BY <1>1, WalkFits
<1>3. ToSet(order) = ToSet(Ids(steps))
  BY <1>1, <1>2, AllPlaced
<1>4. order \in Seq(ToSet(Ids(steps))) /\ InPlace(steps, order) /\ K \in Nat
  BY <1>1, <1>2 DEF TurnFits, Arrays
<1>5. ASSUME NEW n \in 1..K, NEW i \in 1..K, order[i] = steps[n].id
      PROVE  ToSet(steps[n].dependsOn) \subseteq ToSet(SubSeq(order, 1, i - 1))
  <2>1. ToSet(steps[n].dependsOn) \subseteq {order[j] : j \in 1..(i - 1)}
    BY <1>1, <1>4, <1>5 DEF InPlace
  <2> DEFINE k == i - 1
             before == SubSeq(order, 1, k)
  <2>2. k \in Nat /\ k <= Len(order)
    BY <1>1, <1>4
  <2>3. DOMAIN before = 1..k /\ \A j \in 1..k : before[j] = order[j]
    <3> HIDE DEF order, k
    <3> QED
      BY <1>4, <2>2, SubSeqProperties
  <2>4. {order[j] : j \in 1..k} \subseteq ToSet(before)
    <3> HIDE DEF before, k, order
    <3> QED
      BY <2>3 DEF ToSet
  <2> QED
    BY <2>1, <2>4
<1> QED
  BY <1>1, <1>3, <1>5

(* What was refused has a reason for it.                                   *)
LEMMA RefusedHasCause ==
  ASSUME NEW d, Arrays(d.steps), ~ValidateDefinition(d)
  PROVE  \/ ~d.complete \/ d.steps = << >> \/ ~ReferencesResolve(d)
         \/ ~DistinctSeq(Ids(d.steps))
         \/ \E n \in 1..Len(d.steps) : ~DistinctSeq(d.steps[n].dependsOn)
         \/ ~Rankable(d.steps)
<1> DEFINE steps == d.steps
           K == Len(steps)
<1> SUFFICES ASSUME d.complete, steps # << >>, ReferencesResolve(d), DistinctSeq(Ids(steps)),
                    \A n \in 1..K : DistinctSeq(steps[n].dependsOn), Rankable(steps)
             PROVE  FALSE
  OBVIOUS
<1>1. ~ValidateStepGraph(steps)
  BY DEF ValidateDefinition
<1>2. PICK rank \in [1..K -> 1..K] :
        \A n \in 1..K : \A x \in ToSet(steps[n].dependsOn) :
          \E m \in 1..K : steps[m].id = x /\ rank[m] < rank[n]
  BY DEF Rankable
<1>3. /\ \A n \in 1..K : Ids(steps)[n] = steps[n].id /\ steps[n].id \in ToSet(Ids(steps))
      /\ K \in Nat /\ Len(Ids(steps)) = K
  BY IdsCounted
<1>4. ASSUME NEW n \in 1..K
      PROVE  /\ ~Contains(steps[n].dependsOn, steps[n].id)
             /\ ToSet(steps[n].dependsOn) \subseteq ToSet(Ids(steps))
  <2>1. ToSet(steps[n].dependsOn) \subseteq ToSet(Ids(steps))
    <3> SUFFICES ASSUME NEW x \in ToSet(steps[n].dependsOn) PROVE x \in ToSet(Ids(steps))
      OBVIOUS
    <3>1. PICK m \in 1..K : steps[m].id = x
      BY <1>2
    <3>2. steps[m].id \in ToSet(Ids(steps))
      BY <1>3
    <3> QED
      BY <3>1, <3>2
  <2>2. ASSUME steps[n].id \in ToSet(steps[n].dependsOn) PROVE FALSE
    <3>1. PICK m \in 1..K : steps[m].id = steps[n].id /\ rank[m] < rank[n]
      BY <1>2, <2>2
    <3>2. m = n
      BY <1>3, <3>1 DEF DistinctSeq
    <3>3. rank[n] \in 1..K
      BY <1>2
    <3> QED
      BY <1>3, <3>1, <3>2, <3>3
  <2>3. steps[n].dependsOn \in Seq(ToSet(steps[n].dependsOn))
    BY DEF Arrays
  <2>4. \A i \in 1..Len(steps[n].dependsOn) : steps[n].dependsOn[i] \in ToSet(steps[n].dependsOn)
    BY <2>3, SeqElements
  <2>5. ~Contains(steps[n].dependsOn, steps[n].id)
    BY <2>2, <2>4 DEF Contains
  <2> QED
    BY <2>1, <2>5
<1>5. Len(Walk(steps).order) = K
  <2>1. TurnFits(steps, Walk(steps)) /\ (Walk(steps).queue = << >> \/ Len(Walk(steps).order) = K)
    BY WalkFits
  <2> QED
    BY <2>1, RankedArePlaced
<1> QED
  BY <1>1, <1>4, <1>5 DEF ValidateStepGraph

(* What is stored was validated, what was refused was not, and a call      *)
(* works on a definition it was offered.                                   *)
DefinitionsChecked ==
  /\ \A v \in versions :
       v.by \in Publishers /\ ValidateDefinition(v.definition) /\ Arrays(v.definition.steps)
  /\ \A p \in Publishers :
       /\ publisher[p].step = "invalid" => ~ValidateDefinition(publisher[p].definition)
       /\ publisher[p].step # "idle" => publisher[p].definition \in Offers[p]

(* It holds at the start, and a call keeps it.                             *)
LEMMA DefinitionsStayChecked ==
  /\ DefinitionsInit => DefinitionsChecked
  /\ DefinitionsInv /\ DefinitionsChecked /\ [DefinitionsNext]_definitionVars => DefinitionsChecked'
<1>1. DefinitionsInit => DefinitionsChecked
  BY DEF DefinitionsInit, IdlePublisher, DefinitionsChecked
<1>2. ASSUME DefinitionsInv, DefinitionsChecked, NEW p \in Publishers, NEW r,
             publisher' = [publisher EXCEPT ![p] = r],
             r.step # "idle" => r.definition \in Offers[p],
             r.step = "invalid" => ~ValidateDefinition(r.definition),
             \/ UNCHANGED versions
             \/ \E v : /\ versions' = versions \cup {v} /\ v.by \in Publishers
                       /\ ValidateDefinition(v.definition) /\ Arrays(v.definition.steps)
      PROVE  DefinitionsChecked'
  <2>1. \A v \in versions' :
          v.by \in Publishers /\ ValidateDefinition(v.definition) /\ Arrays(v.definition.steps)
    BY <1>2 DEF DefinitionsChecked
  <2>2. ASSUME NEW q \in Publishers
        PROVE  /\ publisher'[q].step = "invalid" => ~ValidateDefinition(publisher'[q].definition)
               /\ publisher'[q].step # "idle" => publisher'[q].definition \in Offers[q]
    <3>1. CASE q = p
      <4>1. publisher'[q] = r
        BY <1>2, <3>1 DEF DefinitionsInv
      <4> QED
        BY <1>2, <3>1, <4>1
    <3>2. CASE q # p
      <4>1. publisher'[q] = publisher[q]
        BY <1>2, <3>2 DEF DefinitionsInv
      <4> QED
        BY <1>2, <4>1 DEF DefinitionsChecked
    <3> QED
      BY <3>1, <3>2
  <2> QED
    BY <2>1, <2>2 DEF DefinitionsChecked
<1>3. ASSUME DefinitionsInv, DefinitionsChecked, NEW p \in Publishers, NEW d \in Offers[p],
             PublishVersion(p, d)
      PROVE  DefinitionsChecked'
  <2> DEFINE r == [publisher[p] EXCEPT !.step = "found", !.status = template, !.definition = d]
  <2>1. publisher' = [publisher EXCEPT ![p] = r] /\ UNCHANGED versions
    BY <1>3 DEF PublishVersion
  <2>2. r.step = "found" /\ r.definition = d
    BY <1>3 DEF DefinitionsInv, PublisherRow
  <2> HIDE DEF r
  <2> QED
    BY <1>2, <1>3, <2>1, <2>2
<1>4. ASSUME DefinitionsInv, DefinitionsChecked, NEW p \in Publishers, NextVersionNumber(p)
      PROVE  DefinitionsChecked'
  <2> DEFINE refused == [publisher[p] EXCEPT !.step = "archived"]
             numbered(n) == [publisher[p] EXCEPT !.step = "numbered", !.number = n]
             n0 == Max({0} \cup {v.number : v \in versions}) + 1
  <2>1. /\ UNCHANGED versions /\ publisher[p].step = "found" /\ publisher[p] \in PublisherRow
        /\ \/ publisher' = [publisher EXCEPT ![p] = refused]
           \/ publisher' = [publisher EXCEPT ![p] = numbered(n0)]
    BY <1>4 DEF NextVersionNumber, DefinitionsInv
  <2>2. /\ refused.step = "archived" /\ refused.definition = publisher[p].definition
        /\ \A n : numbered(n).step = "numbered" /\ numbered(n).definition = publisher[p].definition
    BY <2>1 DEF PublisherRow
  <2>3. publisher[p].definition \in Offers[p]
    BY <1>4, <2>1 DEF DefinitionsChecked
  <2> HIDE DEF refused, numbered, n0
  <2>4. CASE publisher' = [publisher EXCEPT ![p] = refused]
    BY <1>2, <1>4, <2>1, <2>2, <2>3, <2>4
  <2>5. CASE publisher' = [publisher EXCEPT ![p] = numbered(n0)]
    BY <1>2, <1>4, <2>1, <2>2, <2>3, <2>5
  <2> QED
    BY <2>1, <2>4, <2>5
<1>5. ASSUME DefinitionsInv, DefinitionsChecked, NEW p \in Publishers, CreateVersion(p)
      PROVE  DefinitionsChecked'
  <2> DEFINE d == publisher[p].definition
             n == publisher[p].number
             said(told) == [publisher[p] EXCEPT !.step = told]
             new == BuildVersion(p, n, d)
  <2>1. publisher[p].step = "numbered" /\ publisher[p] \in PublisherRow /\ d \in Offers[p]
    BY <1>5 DEF CreateVersion, DefinitionsInv, DefinitionsChecked
  <2>2. \A told : said(told).step = told /\ said(told).definition = d
    BY <2>1 DEF PublisherRow
  <2>3. Arrays(d.steps)
    BY <2>1, DefinitionsAssumption DEF Arrays
  <2>4. new.by = p /\ new.definition = d
    BY DEF BuildVersion
  <2>5. \/ /\ ~ValidateDefinition(d) /\ UNCHANGED versions
           /\ publisher' = [publisher EXCEPT ![p] = said("invalid")]
        \/ /\ UNCHANGED versions /\ publisher' = [publisher EXCEPT ![p] = said("conflict")]
        \/ /\ ValidateDefinition(d) /\ versions' = versions \cup {new}
           /\ publisher' = [publisher EXCEPT ![p] = said("published")]
    BY <1>5 DEF CreateVersion
  <2> HIDE DEF said, new, d, n
  <2>6. CASE /\ ~ValidateDefinition(d) /\ UNCHANGED versions
             /\ publisher' = [publisher EXCEPT ![p] = said("invalid")]
    BY <1>2, <1>5, <2>1, <2>2, <2>6
  <2>7. CASE UNCHANGED versions /\ publisher' = [publisher EXCEPT ![p] = said("conflict")]
    BY <1>2, <1>5, <2>1, <2>2, <2>7
  <2>8. CASE /\ ValidateDefinition(d) /\ versions' = versions \cup {new}
             /\ publisher' = [publisher EXCEPT ![p] = said("published")]
    BY <1>2, <1>5, <2>1, <2>2, <2>3, <2>4, <2>8
  <2> QED
    BY <2>5, <2>6, <2>7, <2>8
<1>6. ASSUME DefinitionsChecked, UNCHANGED <<versions, publisher>> PROVE DefinitionsChecked'
  BY <1>6 DEF DefinitionsChecked
<1>7. ASSUME DefinitionsInv, DefinitionsChecked, [DefinitionsNext]_definitionVars
      PROVE  DefinitionsChecked'
  <2>1. CASE ArchiveTemplate \/ UNCHANGED definitionVars
    BY <1>6, <1>7, <2>1 DEF ArchiveTemplate, definitionVars
  <2> QED
    BY <1>3, <1>4, <1>5, <1>7, <2>1 DEF DefinitionsNext
<1> QED
  BY <1>1, <1>7

(* Whatever was published can be executed in its order, and whatever was   *)
(* refused had a cause (validateStepGraph, executionOrder): for every      *)
(* number of publishers and every graph they are called with.              *)
THEOREM DefinitionsAlwaysChecked == DefinitionsSpec => [](PublishedIsExecutable /\ RefusedForCause)
<1>1. DefinitionsChecked => PublishedIsExecutable
  <2> SUFFICES ASSUME DefinitionsChecked, NEW v \in versions
               PROVE  LET steps == v.definition.steps
                          order == ExecutionOrder(steps)
                      IN /\ ToSet(order) = ToSet(Ids(steps)) /\ Len(order) = Len(steps)
                         /\ \A n, i \in 1..Len(steps) : order[i] = steps[n].id =>
                              ToSet(steps[n].dependsOn) \subseteq ToSet(SubSeq(order, 1, i - 1))
    BY DEF PublishedIsExecutable
  <2>1. Arrays(v.definition.steps) /\ ValidateDefinition(v.definition)
    BY DEF DefinitionsChecked
  <2> QED
    BY <2>1, ValidatedRuns
<1>2. DefinitionsChecked => RefusedForCause
  <2> SUFFICES ASSUME DefinitionsChecked, NEW p \in Publishers, publisher[p].step = "invalid"
               PROVE  LET d == publisher[p].definition
                      IN \/ ~d.complete \/ d.steps = << >> \/ ~ReferencesResolve(d)
                         \/ ~DistinctSeq(Ids(d.steps))
                         \/ \E n \in 1..Len(d.steps) : ~DistinctSeq(d.steps[n].dependsOn)
                         \/ ~Rankable(d.steps)
    BY DEF RefusedForCause
  <2>1. publisher[p].definition \in Offers[p] /\ ~ValidateDefinition(publisher[p].definition)
    BY DEF DefinitionsChecked
  <2>2. Arrays(publisher[p].definition.steps)
    BY <2>1, DefinitionsAssumption DEF Arrays
  <2> QED
    BY <2>1, <2>2, RefusedHasCause
<1> QED
  BY <1>1, <1>2, DefinitionsStayChecked, DefinitionsKept, PTL DEF DefinitionsSpec

-----------------------------------------------------------------------------
(* The variables of the whole.                                             *)
tenantsVars == <<focus, opsSide, runSide, accessSide>>

(* A step of the whole is a step of the queues, or leaves it alone.         *)
LEMMA OpsPart == [TenantsNext]_tenantsVars => [OpsNext]_opsVars
BY DEF TenantsNext, OpsSideNext, tenantsVars, opsSide

(* A step of the whole is a step of the repairs, or leaves it alone.        *)
LEMMA ReliabilityPart == [TenantsNext]_tenantsVars => [RelNext]_relVars
BY DEF TenantsNext, OpsSideNext, tenantsVars, opsSide, RelNext

(* A step of the whole is a step of the intake, or leaves it alone.         *)
LEMMA IntakePart == [TenantsNext]_tenantsVars => [IntakeNext]_intakeVars
BY DEF TenantsNext, OpsSideNext, tenantsVars, opsSide, IntakeNext

(* A step of the whole is a step of the dispatch, or leaves it alone.       *)
LEMMA DispatchPart == [TenantsNext]_tenantsVars => [DispatchNext]_dispatchVars
BY DEF TenantsNext, OpsSideNext, tenantsVars, opsSide

(* A step of the whole is a step of the members, or leaves it alone.        *)
LEMMA MembershipPart == [TenantsNext]_tenantsVars => [MembershipNext]_memberVars
BY DEF TenantsNext, AccessSideNext, tenantsVars, accessSide

(* A step of the whole is a step of the principals, or leaves it alone.     *)
LEMMA PrincipalsPart == [TenantsNext]_tenantsVars => [PrincipalsNext]_principalVars
BY DEF TenantsNext, AccessSideNext, tenantsVars, accessSide, PrincipalsNext

(* A step of the whole is a step of the runs, or leaves it alone.           *)
LEMMA RunPart == [TenantsNext]_tenantsVars => [AutomationNext]_runVars
BY DEF TenantsNext, RunSideNext, tenantsVars, runSide

(* A step of the whole is a step of the artifacts, or leaves it alone.      *)
LEMMA ArtifactsPart == [TenantsNext]_tenantsVars => [ArtifactsNext]_artVars
BY DEF TenantsNext, RunSideNext, tenantsVars, runSide

(* A step of the whole is a step of the deliveries, or leaves it alone.     *)
LEMMA DeliveryPart == [TenantsNext]_tenantsVars => [DeliveryNext]_deliveryVars
BY DEF TenantsNext, RunSideNext, tenantsVars, runSide

(* A step of the whole is a step of the connection, or leaves it alone.     *)
LEMMA ConnectionsPart == [TenantsNext]_tenantsVars => [ConnNext]_connVars
BY DEF TenantsNext, AccessSideNext, tenantsVars, accessSide

(* A step of the whole is a step of the publishers, or leaves them alone.   *)
LEMMA DefinitionsPart == [TenantsNext]_tenantsVars => [DefinitionsNext]_definitionVars
BY DEF TenantsNext, RunSideNext, tenantsVars, runSide

(* So a behaviour of the whole is one of each part.                        *)
LEMMA WholeIsParts ==
  TenantsSpec =>
    /\ OpsInit /\ [][OpsNext]_opsVars
    /\ RelInit /\ [][RelNext]_relVars
    /\ IntakeSpec /\ DispatchSpec /\ MembershipSpec /\ PrincipalsSpec
    /\ AutomationInit /\ [][AutomationNext]_runVars
    /\ ArtifactsInit /\ [][ArtifactsNext]_artVars
    /\ DeliveryInit /\ [][DeliveryNext]_deliveryVars
    /\ ConnInit /\ [][ConnNext]_connVars
    /\ DefinitionsSpec
<1>1. TenantsInit => /\ OpsInit /\ RelInit /\ IntakeInit /\ DispatchInit /\ MembershipInit
                     /\ PrincipalsInit /\ AutomationInit /\ ArtifactsInit /\ DeliveryInit
                     /\ ConnInit /\ DefinitionsInit
  BY DEF TenantsInit
<1> QED
  BY <1>1, OpsPart, ReliabilityPart, IntakePart, DispatchPart, MembershipPart, PrincipalsPart,
     RunPart, ArtifactsPart, DeliveryPart, ConnectionsPart, DefinitionsPart, PTL
  DEF TenantsSpec, tenantsVars, DefinitionsSpec, IntakeSpec, DispatchSpec, MembershipSpec, PrincipalsSpec

(* Queued work is held by one, retried within its cap, and seen by every   *)
(* repair pass (ops/store.ts, reliability/reconciliation.ts).              *)
THEOREM QueuesSafe == TenantsSpec => []QueueSafe
<1>1. OpsInv /\ RelInv => QueueSafe
  BY OpsHolders, PassCovers DEF QueueSafe
<1> QED
  BY <1>1, WholeIsParts, OpsKept, ReliabilityKept, PTL

(* What comes in is accepted once, triggered, tried within its cap, and    *)
(* makes one run per process life (gateway.ts, fanout.ts, dispatch.ts).    *)
THEOREM InboundAlwaysSafe == TenantsSpec => []InboundSafe
<1>1. IntakeInv /\ DispatchInv => InboundSafe
  BY OneEnqueues, BudgetBounds DEF IntakeInv, FanOutFits, InboundSafe
<1> QED
  BY <1>1, WholeIsParts, IntakeKept, DispatchKept, PTL

(* An organization keeps an owner, an address one open invitation, and     *)
(* nothing withdrawn is granted (identity/store.ts, auth).                 *)
THEOREM AccessAlwaysSafe == TenantsSpec => []AccessSafe
<1>1. MembershipInv /\ PrincipalsInv => AccessSafe
  BY PrincipalsNeverGrant DEF MembershipInv, AccessSafe
<1> QED
  BY <1>1, WholeIsParts, MembershipKept, PrincipalsKept, PTL

(* A published version can be executed in its order and one that is        *)
(* refused has a cause; a template's versions are numbered without gaps,   *)
(* each stored by the one publisher that was told so; and a run executes   *)
(* before it collects, is approved before it sends, and sends once         *)
(* (version.ts, service.ts, store.ts).                                     *)
THEOREM AutomationAlwaysSafe == TenantsSpec => []AutomationSafe
<1>1. DefinitionsInv => VersionsNumbered
  BY DEF DefinitionsInv, NumbersUsed, VersionsNumbered
<1>2. (PublishedIsExecutable /\ RefusedForCause) /\ VersionsNumbered /\ RunInv => AutomationSafe
  BY RunIsSafe DEF AutomationSafe
<1> QED
  BY <1>1, <1>2, WholeIsParts, DefinitionsKept, DefinitionsAlwaysChecked, RunKept, PTL

(* Stored artifacts are whole, deliveries reach only checked destinations, *)
(* are never only believed, and repeat only with a cause (artifacts,       *)
(* delivery).                                                              *)
THEOREM OutputsAlwaysSafe == TenantsSpec => []OutputsSafe
<1>1. ArtInv /\ DeliveryInv => OutputsSafe
  BY ArtifactsAreSafe, DeliveryIsSafe DEF OutputsSafe
<1> QED
  BY <1>1, WholeIsParts, ArtifactsKept, DeliveryKept, PTL

(* What has been decided stays decided, in every part: finished work,      *)
(* failed triggers, dispatches with their run or under a live lease,       *)
(* finished runs, ended deliveries, invitations, withdrawn principals and  *)
(* anchors.                                                                *)
THEOREM DecisionsAlwaysStand == TenantsSpec => DecisionsStand
BY WholeIsParts, FinishedStand, FailuresStand, DecisionsOfDispatches, LeasesKeepDispatches,
   CompletedRunsStand, FinishedRuns, AttemptsStop, DecidedInvitationsStand, WithdrawalsStand,
   AnchorsStand, PTL DEF DecisionsStand

(* A connection follows its own authorizations only: settled once, never   *)
(* brought back, activated with the secret just obtained (oauth-store.ts,  *)
(* store.ts, lifecycle.ts).                                                *)
THEOREM ConnectionsAlwaysSafe == TenantsSpec => ConnectionsSafe
BY WholeIsParts, SettledStand, DownStands, ActivationsOwn, PTL DEF ConnectionsSafe
=============================================================================
