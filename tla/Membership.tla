----------------------------- MODULE Membership -----------------------------
(***************************************************************************)
(* The members, owners and invitations of one organization:                *)
(* packages/vaulltcore-identity (store.ts) behind the member and           *)
(* invitation routes of vaulltcore-control (phase2g-routes.ts).            *)
(*                                                                         *)
(* Every store method is one transaction.  A route first resolves its      *)
(* actor, keeps the role it read, awaits the body and a lookup, and only   *)
(* then writes: other requests run in between.  Roles that differ in no    *)
(* guard here (developer, operator, viewer, service_account) are one,      *)
(* "viewer".  A person's email stands for the person.                      *)
(***************************************************************************)
EXTENDS Integers, FiniteSets

CONSTANTS
  People,
  Founder,        \* the owner the organization starts with
  Invitations,    \* invitation rows, in the order they may be inserted
  OfferedRoles,   \* roles invitations are written for
  InviteKeys,     \* idempotency keys clients send
  NoKey,
  MemberRequests, \* requests in flight
  MaxRequests     \* bound: requests started

ASSUME MembershipAssumption ==
  /\ Founder \in People /\ NoKey \notin InviteKeys /\ MaxRequests \in Nat
  /\ OfferedRoles \subseteq {"owner", "admin", "viewer"}

VARIABLES
  member,      \* org_members: each person's role, or "none"
  invitation,  \* org_invitations
  request,     \* the route each request is in
  requests     \* requests started so far

memberVars == <<member, invitation, request, requests>>

Roles == {"owner", "admin", "viewer"}
InvitationStatuses == {"unwritten", "pending", "accepted", "revoked", "expired", "purged"}

Invitation ==
  [status : InvitationStatuses, email : People, role : Roles,
   key : InviteKeys \cup {NoKey}, lapsed : BOOLEAN]

Unwritten == [status |-> "unwritten", email |-> Founder, role |-> "viewer",
              key |-> NoKey, lapsed |-> FALSE]

RequestSteps == {"idle", "upsert", "change", "leave", "setRole", "add", "remove",
                 "transfer", "invite", "revoke", "resend", "revokeOld"}

MemberRequest ==
  [pc : RequestSteps, actor : People, as : Roles, target : People, role : Roles,
   key : InviteKeys \cup {NoKey}, invitation : Invitations \cup {"none"}]

IdleRequest == [pc |-> "idle", actor |-> Founder, as |-> "viewer", target |-> Founder,
                role |-> "viewer", key |-> NoKey, invitation |-> "none"]

MembershipTypeOK ==
  /\ member \in [People -> Roles \cup {"none"}]
  /\ invitation \in [Invitations -> Invitation]
  /\ request \in [MemberRequests -> MemberRequest]
  /\ requests \in 0..MaxRequests

MembershipInit ==
  /\ member = [p \in People |-> IF p = Founder THEN "owner" ELSE "none"]
  /\ invitation = [i \in Invitations |-> Unwritten]
  /\ request = [r \in MemberRequests |-> IdleRequest]
  /\ requests = 0

-----------------------------------------------------------------------------
Owners == {p \in People : member[p] = "owner"}

(* The roles with the permission member.manage.                            *)
ADMIN_ROLES == {"owner", "admin"}

(* Mutant: the owner being demoted counts as the one who stays.            *)
LastOwnerNever(p) == FALSE

(* countOwnersLocked < 2, asked of an owner in the writing transaction.    *)
LastOwner(p) == Owners = {p}

Step(r, pc) == request[r].pc = pc
Answered(r) == request' = [request EXCEPT ![r] = IdleRequest]

(* A route entered: the actor is resolved, and its role is kept.           *)
Enter(r, p, q) ==
  /\ Step(r, "idle") /\ requests < MaxRequests
  /\ member[p] # "none"
  /\ requests' = requests + 1
  /\ request' = [request EXCEPT ![r] =
       [q EXCEPT !.actor = p, !.as = member[p]]]
  /\ UNCHANGED <<member, invitation>>

UpsertMember(r, p, t, role) ==
  /\ member[p] = "owner"
  /\ Enter(r, p, [IdleRequest EXCEPT !.pc = "upsert", !.target = t, !.role = role])

ChangeMemberRole(r, p, t, role) ==
  /\ member[p] \in ADMIN_ROLES /\ t # p
  /\ Enter(r, p, [IdleRequest EXCEPT !.pc = "change", !.target = t, !.role = role])

RemoveMember(r, p, t) ==
  /\ member[p] \in ADMIN_ROLES
  /\ Enter(r, p, [IdleRequest EXCEPT !.pc = "leave", !.target = t])

TransferOwnership(r, p, t) ==
  /\ member[p] = "owner" /\ t # p
  /\ Enter(r, p, [IdleRequest EXCEPT !.pc = "transfer", !.target = t])

CreateInvitation(r, p, t, role, key) ==
  /\ member[p] = "owner"
  /\ Enter(r, p, [IdleRequest EXCEPT !.pc = "invite", !.target = t, !.role = role,
                                     !.key = key])

RevokeInvitation(r, p, i) ==
  /\ member[p] = "owner"
  /\ Enter(r, p, [IdleRequest EXCEPT !.pc = "revoke", !.invitation = i])

ResendInvitation(r, p, i) ==
  /\ member[p] = "owner"
  /\ Enter(r, p, [IdleRequest EXCEPT !.pc = "resend", !.invitation = i])

-----------------------------------------------------------------------------
(* getMember, and the branch on what it found: upsert sets or adds, a      *)
(* change or removal that touches ownership needs an owner.                *)
GetMember(r) ==
  LET q == request[r]
      found == member[q.target] IN
  /\ q.pc \in {"upsert", "change", "leave"}
  /\ request' = [request EXCEPT ![r] =
       CASE q.pc = "upsert" ->
              [q EXCEPT !.pc = IF found # "none" THEN "setRole" ELSE "add"]
         [] q.pc = "change" /\ found # "none"
              /\ ("owner" \in {q.role, found} => q.as = "owner") ->
              [q EXCEPT !.pc = "setRole"]
         [] q.pc = "leave" /\ found # "none" /\ (found = "owner" => q.as = "owner") ->
              [q EXCEPT !.pc = "remove"]
         [] OTHER -> IdleRequest]
  /\ UNCHANGED <<member, invitation, requests>>

(* A transaction that demotes the last owner throws LAST_OWNER.            *)
SetMemberRole(r) ==
  LET t == request[r].target IN
  /\ Step(r, "setRole")
  /\ member' = IF \/ member[t] = "none"
                  \/ member[t] = "owner" /\ request[r].role # "owner" /\ LastOwner(t)
               THEN member
               ELSE [member EXCEPT ![t] = request[r].role]
  /\ Answered(r)
  /\ UNCHANGED <<invitation, requests>>

AddMember(r) ==
  LET t == request[r].target IN
  /\ Step(r, "add")
  /\ member' = IF member[t] = "none" THEN [member EXCEPT ![t] = request[r].role]
               ELSE member
  /\ Answered(r)
  /\ UNCHANGED <<invitation, requests>>

DeleteMember(r) ==
  LET t == request[r].target IN
  /\ Step(r, "remove")
  /\ member' = IF member[t] = "owner" /\ LastOwner(t) THEN member
               ELSE [member EXCEPT ![t] = "none"]
  /\ Answered(r)
  /\ UNCHANGED <<invitation, requests>>

(* Both roles change in one transaction, which re-reads both rows.         *)
WriteTransfer(r) ==
  LET from == request[r].actor
      to == request[r].target IN
  /\ Step(r, "transfer")
  /\ member' = IF member[from] = "owner" /\ member[to] # "none"
               THEN [member EXCEPT ![to] = "owner", ![from] = "admin"]
               ELSE member
  /\ Answered(r)
  /\ UNCHANGED <<invitation, requests>>

-----------------------------------------------------------------------------
InStatus(e, status) ==
  {i \in Invitations : invitation[i].status = status /\ invitation[i].email = e}

WithKey(key) ==
  {i \in Invitations : key # NoKey /\ invitation[i].status \notin {"unwritten", "purged"}
                       /\ invitation[i].key = key}

(* A key already used is replayed or refused; a live pending invitation    *)
(* refuses another one.                                                    *)
MayInvite(e, key) ==
  /\ WithKey(key) = {}
  /\ \A i \in InStatus(e, "pending") : invitation[i].lapsed

(* Lapsed pending rows of the email are deleted, the new row is inserted.  *)
InsertInvitation(r) ==
  LET q == request[r] IN
  /\ Step(r, "invite")
  /\ \/ /\ MayInvite(q.target, q.key)
        /\ \E i \in Invitations :
             /\ invitation[i].status = "unwritten"
             /\ invitation' = [j \in Invitations |->
                  IF j = i THEN [status |-> "pending", email |-> q.target, role |-> q.role,
                                 key |-> q.key, lapsed |-> FALSE]
                  ELSE IF j \in InStatus(q.target, "pending") /\ invitation[j].lapsed
                  THEN [invitation[j] EXCEPT !.status = "purged"]
                  ELSE invitation[j]]
     \/ /\ ~MayInvite(q.target, q.key)
        /\ UNCHANGED invitation
  /\ Answered(r)
  /\ UNCHANGED <<member, requests>>

(* WHERE status = 'pending'.                                               *)
Revocable(i) == invitation[i].status = "pending"

(* The table is UNIQUE in email and status: a second revoked, accepted or  *)
(* expired row of an email is refused, and the transaction with it.        *)
Occupied(i, status) == InStatus(invitation[i].email, status) \ {i} # {}

Revoked(i) ==
  IF Revocable(i) /\ ~Occupied(i, "revoked")
  THEN [invitation EXCEPT ![i].status = "revoked"]
  ELSE invitation

WriteRevocation(r) ==
  /\ Step(r, "revoke")
  /\ invitation' = Revoked(request[r].invitation)
  /\ Answered(r)
  /\ UNCHANGED <<member, requests>>

(* resend: find the pending row, revoke it, create another; three calls.   *)
FindPending(r) ==
  LET i == request[r].invitation IN
  /\ Step(r, "resend")
  /\ IF invitation[i].status = "pending"
     THEN request' = [request EXCEPT ![r].pc = "revokeOld",
                                     ![r].target = invitation[i].email,
                                     ![r].role = invitation[i].role]
     ELSE Answered(r)
  /\ UNCHANGED <<member, invitation, requests>>

RevokeOld(r) ==
  LET i == request[r].invitation IN
  /\ Step(r, "revokeOld")
  /\ IF Revocable(i) /\ Occupied(i, "revoked")
     THEN Answered(r)
     ELSE request' = [request EXCEPT ![r].pc = "invite"]
  /\ invitation' = Revoked(i)
  /\ UNCHANGED <<member, requests>>

(* The whole acceptance is one transaction: MEMBER_EXISTS rolls it back.   *)
Acceptable(i) ==
  /\ invitation[i].status = "pending" /\ ~invitation[i].lapsed
  /\ ~Occupied(i, "accepted")
  /\ member[invitation[i].email] = "none"

AcceptInvitation(i) ==
  /\ Acceptable(i)
  /\ invitation' = [invitation EXCEPT ![i].status = "accepted"]
  /\ member' = [member EXCEPT ![invitation[i].email] = invitation[i].role]
  /\ UNCHANGED <<request, requests>>

(* One UPDATE over every lapsed pending row, or none of them.              *)
ExpireInvitations ==
  LET lapsed == {i \in Invitations : invitation[i].status = "pending" /\ invitation[i].lapsed} IN
  /\ lapsed # {} /\ \A i \in lapsed : ~Occupied(i, "expired")
  /\ invitation' = [i \in Invitations |->
       IF i \in lapsed THEN [invitation[i] EXCEPT !.status = "expired"] ELSE invitation[i]]
  /\ UNCHANGED <<member, request, requests>>

InvitationLapses(i) ==
  /\ invitation[i].status = "pending" /\ ~invitation[i].lapsed
  /\ invitation' = [invitation EXCEPT ![i].lapsed = TRUE]
  /\ UNCHANGED <<member, request, requests>>

RequestCrash(r) ==
  /\ ~Step(r, "idle")
  /\ Answered(r)
  /\ UNCHANGED <<member, invitation, requests>>

MembershipNext ==
  \/ \E r \in MemberRequests :
       \/ \E p, t \in People :
            \/ \E role \in Roles : UpsertMember(r, p, t, role) \/ ChangeMemberRole(r, p, t, role)
            \/ RemoveMember(r, p, t)
            \/ TransferOwnership(r, p, t)
            \/ \E role \in OfferedRoles, key \in InviteKeys \cup {NoKey} :
                 CreateInvitation(r, p, t, role, key)
       \/ \E p \in People, i \in Invitations :
            RevokeInvitation(r, p, i) \/ ResendInvitation(r, p, i)
       \/ GetMember(r) \/ SetMemberRole(r) \/ AddMember(r) \/ DeleteMember(r)
       \/ WriteTransfer(r) \/ InsertInvitation(r) \/ WriteRevocation(r)
       \/ FindPending(r) \/ RevokeOld(r) \/ RequestCrash(r)
  \/ \E i \in Invitations : AcceptInvitation(i) \/ InvitationLapses(i)
  \/ ExpireInvitations

MembershipSpec == MembershipInit /\ [][MembershipNext]_memberVars

-----------------------------------------------------------------------------
(* Owners demoting, removing and succeeding one another at the same time,  *)
(* on roles read before, never leave the organization without an owner     *)
(* (countOwnersLocked inside setMemberRole and removeMember).              *)
OwnerKept == Owners # {}

(* An accepted, revoked or expired invitation is never decided again, and  *)
(* acceptance and membership come together: whoever accepts was no member  *)
(* and is one at that very step (acceptInvitation rolls back otherwise).   *)
InvitationDecidedForGood ==
  [][\A i \in Invitations :
       /\ invitation[i].status \in {"accepted", "revoked", "expired"}
            => invitation'[i].status = invitation[i].status
       /\ invitation[i].status # "accepted" /\ invitation'[i].status = "accepted"
            => /\ member[invitation[i].email] = "none"
               /\ member'[invitation[i].email] = invitation[i].role]_memberVars

(* Concurrent invites and resends leave one invitation per email that      *)
(* could still be accepted (the pending check of createInvitation).        *)
OnePendingPerEmail ==
  \A i, j \in Invitations :
    /\ invitation[i].status = "pending" /\ invitation[j].status = "pending"
    /\ invitation[i].email = invitation[j].email
    => i = j

=============================================================================
