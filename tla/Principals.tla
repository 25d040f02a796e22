----------------------------- MODULE Principals -----------------------------
(***************************************************************************)
(* The three ways a request comes by an actor, and how each is withdrawn:  *)
(* API keys (packages/vaulltcore-identity), service identities with their  *)
(* machine credentials, and human sessions (packages/vaulltcore-auth).     *)
(*                                                                         *)
(* Every store method is one transaction; authentication, issuing,         *)
(* rotation and disabling await between several.  One principal holds the  *)
(* keys, one service identity the credentials, one user the sessions.      *)
(* "lapsed" says expires_at is behind the clock.                           *)
(***************************************************************************)
EXTENDS Integers

CONSTANTS
  ApiKeys,
  Credentials,     \* machine credentials
  Sessions,        \* session fingerprints
  Tenants,         \* tenants the user has a membership in
  AuthOps,         \* operations in flight
  NoTenant,
  NoKeyId,
  MaxAuthOps       \* bound: operations started

ASSUME PrincipalsAssumption ==
  NoTenant \notin Tenants /\ NoKeyId \notin ApiKeys /\ MaxAuthOps \in Nat

VARIABLES
  apiKey,      \* api_keys
  isMember,    \* the keys' principal is a member of its organization
  service,     \* the row of service_identities, and its principal
  credential,  \* machine_credentials
  user,        \* the row of user_identities
  session,     \* session_registry
  op,          \* what each operation in flight is doing
  opsStarted

keyVars == <<apiKey, isMember>>
serviceVars == <<service, credential>>
sessionVars == <<user, session>>
principalVars == <<apiKey, isMember, service, credential, user, session, op, opsStarted>>

ApiKey == [state : {"absent", "live", "revoked"}, lapsed : BOOLEAN,
           overlap : {"none", "running", "over"}, rotatedFrom : ApiKeys \cup {NoKeyId}]
ServiceIdentity == [status : {"absent", "active", "disabled", "revoked"},
                    registered : BOOLEAN]
MachineCredential == [state : {"absent", "live", "revoked"}, lapsed : BOOLEAN]
SessionRecord == [state : {"absent", "live", "revoked"}, tenant : Tenants \cup {NoTenant}]

OpSteps == {"idle", "granted",
            "key", "member", "overlap", "replace",
            "register", "record", "credential", "identity", "resolve",
            "open", "registry", "user", "tie", "revokeSessions"}

(* saw: the tenant anchor of the session row as first read.                *)
(* barred: what the operation presents was withdrawn before it began.      *)
Op == [pc : OpSteps, subject : ApiKeys \cup Credentials \cup Sessions \cup {NoKeyId},
       tenant : Tenants \cup {NoTenant}, saw : Tenants \cup {NoTenant}, barred : BOOLEAN]
IdleOp == [pc |-> "idle", subject |-> NoKeyId, tenant |-> NoTenant, saw |-> NoTenant,
           barred |-> FALSE]

PrincipalsTypeOK ==
  /\ apiKey \in [ApiKeys -> ApiKey]
  /\ isMember \in BOOLEAN
  /\ service \in ServiceIdentity
  /\ credential \in [Credentials -> MachineCredential]
  /\ user \in {"absent", "active", "disabled"}
  /\ session \in [Sessions -> SessionRecord]
  /\ op \in [AuthOps -> Op]
  /\ opsStarted \in 0..MaxAuthOps

PrincipalsInit ==
  /\ apiKey = [k \in ApiKeys |-> [state |-> "absent", lapsed |-> FALSE,
                                  overlap |-> "none", rotatedFrom |-> NoKeyId]]
  /\ isMember = TRUE
  /\ service = [status |-> "absent", registered |-> FALSE]
  /\ credential = [c \in Credentials |-> [state |-> "absent", lapsed |-> FALSE]]
  /\ user = "absent"
  /\ session = [s \in Sessions |-> [state |-> "absent", tenant |-> NoTenant]]
  /\ op = [o \in AuthOps |-> IdleOp]
  /\ opsStarted = 0

-----------------------------------------------------------------------------
OpAt(o, pc) == op[o].pc = pc
OpGoto(o, pc) == op' = [op EXCEPT ![o].pc = pc] /\ UNCHANGED opsStarted
OpEnds(o) == op' = [op EXCEPT ![o] = IdleOp] /\ UNCHANGED opsStarted

(* The next check of an authentication, or its refusal.                    *)
Proceed(o, holds, pc) == IF holds THEN OpGoto(o, pc) ELSE OpEnds(o)

BeginOp(o, pc, subject, tenant, barred) ==
  /\ OpAt(o, "idle") /\ opsStarted < MaxAuthOps
  /\ opsStarted' = opsStarted + 1
  /\ op' = [op EXCEPT ![o] = [pc |-> pc, subject |-> subject, tenant |-> tenant,
                              saw |-> NoTenant, barred |-> barred]]

NoOp == UNCHANGED <<op, opsStarted>>

(* The response is sent, or the process dies, wherever it is.              *)
OpOver(o) ==
  /\ ~OpAt(o, "idle")
  /\ OpEnds(o)
  /\ UNCHANGED <<keyVars, serviceVars, sessionVars>>

-----------------------------------------------------------------------------
(* API keys.                                                               *)
(* A key is created with any expiry; a replacement takes the old key's.    *)
NewKey(from, lapsed) == [state |-> "live", lapsed |-> lapsed, overlap |-> "none",
                         rotatedFrom |-> from]

CreateApiKey(k, lapsed) ==
  /\ apiKey[k].state = "absent"
  /\ apiKey' = [apiKey EXCEPT ![k] = NewKey(NoKeyId, lapsed)]
  /\ NoOp /\ UNCHANGED <<isMember, serviceVars, sessionVars>>

RevokeApiKey(k) ==
  /\ apiKey[k].state = "live"
  /\ apiKey' = [apiKey EXCEPT ![k].state = "revoked"]
  /\ NoOp /\ UNCHANGED <<isMember, serviceVars, sessionVars>>

(* expireApiKey sets any expiry, earlier or later than the one it finds.   *)
ExpireApiKey(k, lapsed) ==
  /\ apiKey[k].state # "absent"
  /\ apiKey' = [apiKey EXCEPT ![k].lapsed = lapsed]
  /\ NoOp /\ UNCHANGED <<isMember, serviceVars, sessionVars>>

(* rotateApiKey: read the old key, ...                                     *)
RotateApiKey(o, k) ==
  /\ apiKey[k].state = "live"
  /\ BeginOp(o, "overlap", k, NoTenant, FALSE)
  /\ UNCHANGED <<keyVars, serviceVars, sessionVars>>

(* ... open its overlap window, revoked meanwhile or not, ...              *)
SetOverlap(o) ==
  /\ OpAt(o, "overlap")
  /\ apiKey' = [apiKey EXCEPT ![op[o].subject].overlap = "running"]
  /\ OpGoto(o, "replace")
  /\ UNCHANGED <<isMember, serviceVars, sessionVars>>

(* ... and insert the replacement.                                         *)
InsertReplacement(o, k, lapsed) ==
  /\ OpAt(o, "replace") /\ apiKey[k].state = "absent"
  /\ apiKey' = [apiKey EXCEPT ![k] = NewKey(op[o].subject, lapsed)]
  /\ OpEnds(o)
  /\ UNCHANGED <<isMember, serviceVars, sessionVars>>

OverlapEnds(k) ==
  /\ apiKey[k].overlap = "running"
  /\ apiKey' = [apiKey EXCEPT ![k].overlap = "over"]
  /\ NoOp /\ UNCHANGED <<isMember, serviceVars, sessionVars>>

Reapable(k) == apiKey[k].state = "live" /\ (apiKey[k].overlap = "over" \/ apiKey[k].lapsed)

ReapExpiredKeys ==
  /\ \E k \in ApiKeys : Reapable(k)
  /\ apiKey' = [k \in ApiKeys |->
       IF Reapable(k) THEN [apiKey[k] EXCEPT !.state = "revoked"] ELSE apiKey[k]]
  /\ NoOp /\ UNCHANGED <<isMember, serviceVars, sessionVars>>

MemberRemoved ==
  /\ isMember /\ isMember' = FALSE
  /\ NoOp /\ UNCHANGED <<apiKey, serviceVars, sessionVars>>

(* authenticateApiKey: the key's row, then the membership.                 *)
AuthenticateApiKey(o, k) ==
  /\ apiKey[k].state # "absent"
  /\ BeginOp(o, "key", k, NoTenant, apiKey[k].state = "revoked" \/ ~isMember)
  /\ UNCHANGED <<keyVars, serviceVars, sessionVars>>

(* The overlap window plays no part: only the reaper acts on it.           *)
KeyUsable(k) == apiKey[k].state = "live" /\ ~apiKey[k].lapsed

CheckKey(o) ==
  /\ OpAt(o, "key")
  /\ Proceed(o, KeyUsable(op[o].subject), "member")
  /\ UNCHANGED <<keyVars, serviceVars, sessionVars>>

CheckMember(o) ==
  /\ OpAt(o, "member")
  /\ Proceed(o, isMember, "granted")
  /\ UNCHANGED <<keyVars, serviceVars, sessionVars>>

KeyNext ==
  \/ \E k \in ApiKeys :
       \/ RevokeApiKey(k) \/ OverlapEnds(k)
       \/ \E lapsed \in BOOLEAN :
            \/ CreateApiKey(k, lapsed) \/ ExpireApiKey(k, lapsed)
            \/ \E o \in AuthOps : InsertReplacement(o, k, lapsed)
       \/ \E o \in AuthOps : RotateApiKey(o, k) \/ AuthenticateApiKey(o, k)
  \/ \E o \in AuthOps : SetOverlap(o) \/ CheckKey(o) \/ CheckMember(o) \/ OpOver(o)
  \/ ReapExpiredKeys \/ MemberRemoved

-----------------------------------------------------------------------------
(* Service identities: the identity's row and its principal are written    *)
(* by two stores.                                                          *)
CreateServiceIdentity(o) ==
  /\ service.status = "absent"
  /\ service' = [service EXCEPT !.status = "active"]
  /\ BeginOp(o, "register", NoKeyId, NoTenant, FALSE)
  /\ UNCHANGED <<keyVars, credential, sessionVars>>

RegisterPrincipal(o) ==
  /\ OpAt(o, "register")
  /\ service' = [service EXCEPT !.registered = TRUE]
  /\ OpEnds(o)
  /\ UNCHANGED <<keyVars, credential, sessionVars>>

(* issueCredential reads the status, and inserts in another transaction.   *)
IssueCredential(o) ==
  /\ service.status = "active"
  /\ BeginOp(o, "record", NoKeyId, NoTenant, FALSE)
  /\ UNCHANGED <<keyVars, serviceVars, sessionVars>>

RecordMachineCredential(o, c) ==
  /\ OpAt(o, "record") /\ credential[c].state = "absent"
  /\ credential' = [credential EXCEPT ![c].state = "live"]
  /\ OpEnds(o)
  /\ UNCHANGED <<keyVars, service, sessionVars>>

DisableServiceIdentity ==
  /\ service.status = "active"
  /\ service' = [service EXCEPT !.status = "disabled"]
  /\ NoOp /\ UNCHANGED <<keyVars, credential, sessionVars>>

MayEnable == service.status = "disabled"

EnableServiceIdentity ==
  /\ MayEnable
  /\ service' = [service EXCEPT !.status = "active"]
  /\ NoOp /\ UNCHANGED <<keyVars, credential, sessionVars>>

(* The identity and every credential it then has, in one transaction.      *)
RevokeServiceIdentity ==
  /\ service.status \in {"active", "disabled"}
  /\ service' = [service EXCEPT !.status = "revoked"]
  /\ credential' = [c \in Credentials |->
       IF credential[c].state = "live" THEN [credential[c] EXCEPT !.state = "revoked"]
       ELSE credential[c]]
  /\ NoOp /\ UNCHANGED <<keyVars, sessionVars>>

RevokeCredential(c) ==
  /\ credential[c].state = "live"
  /\ credential' = [credential EXCEPT ![c].state = "revoked"]
  /\ NoOp /\ UNCHANGED <<keyVars, service, sessionVars>>

CredentialExpires(c) ==
  /\ credential[c].state = "live" /\ ~credential[c].lapsed
  /\ credential' = [credential EXCEPT ![c].lapsed = TRUE]
  /\ NoOp /\ UNCHANGED <<keyVars, service, sessionVars>>

(* authenticateMachineCredential: the credential, then the identity, then  *)
(* the principal.                                                          *)
AuthenticateMachineCredential(o, c) ==
  /\ credential[c].state # "absent"
  /\ BeginOp(o, "credential", c, NoTenant,
             \/ credential[c].state = "revoked" \/ credential[c].lapsed
             \/ service.status = "revoked")
  /\ UNCHANGED <<keyVars, serviceVars, sessionVars>>

CheckCredential(o) ==
  LET c == op[o].subject IN
  /\ OpAt(o, "credential")
  /\ Proceed(o, credential[c].state = "live" /\ ~credential[c].lapsed, "identity")
  /\ UNCHANGED <<keyVars, serviceVars, sessionVars>>

CheckIdentity(o) ==
  /\ OpAt(o, "identity")
  /\ Proceed(o, service.status = "active", "resolve")
  /\ UNCHANGED <<keyVars, serviceVars, sessionVars>>

(* An identity whose principal was never registered resolves to nothing.   *)
ResolvePrincipal(o) ==
  /\ OpAt(o, "resolve")
  /\ Proceed(o, service.registered, "granted")
  /\ UNCHANGED <<keyVars, serviceVars, sessionVars>>

ServiceNext ==
  \/ \E o \in AuthOps :
       \/ CreateServiceIdentity(o) \/ RegisterPrincipal(o) \/ IssueCredential(o)
       \/ \E c \in Credentials :
            RecordMachineCredential(o, c) \/ AuthenticateMachineCredential(o, c)
       \/ CheckCredential(o) \/ CheckIdentity(o) \/ ResolvePrincipal(o) \/ OpOver(o)
  \/ DisableServiceIdentity \/ EnableServiceIdentity \/ RevokeServiceIdentity
  \/ \E c \in Credentials : RevokeCredential(c) \/ CredentialExpires(c)

-----------------------------------------------------------------------------
(* Sessions.  The identity provider has validated the cookie; tenant is    *)
(* that of the membership the request asks for.                            *)
ResolveSession(o, s, t) ==
  /\ BeginOp(o, "open", s, t, session[s].state = "revoked" \/ user = "disabled")
  /\ UNCHANGED <<keyVars, serviceVars, sessionVars>>

GetSession(o) ==
  LET s == op[o].subject IN
  /\ OpAt(o, "open")
  /\ IF session[s].state = "absent" THEN OpGoto(o, "registry")
     ELSE IF session[s].state = "live"
     THEN /\ op' = [op EXCEPT ![o].pc = "user", ![o].saw = session[s].tenant]
          /\ UNCHANGED opsStarted
     ELSE OpEnds(o)
  /\ UNCHANGED <<keyVars, serviceVars, sessionVars>>

(* registerSession returns a row another request has put there.            *)
RegisterSession(o) ==
  LET s == op[o].subject IN
  /\ OpAt(o, "registry")
  /\ session' = IF session[s].state = "absent"
                THEN [session EXCEPT ![s].state = "live"] ELSE session
  /\ OpGoto(o, "user")
  /\ UNCHANGED <<keyVars, serviceVars, user>>

UserMayEnter == user # "disabled"

CheckUser(o) ==
  /\ OpAt(o, "user")
  /\ user' = IF user = "absent" THEN "active" ELSE user
  /\ Proceed(o, UserMayEnter, "tie")
  /\ UNCHANGED <<keyVars, serviceVars, session>>

(* COALESCE(tenant_id, ?).                                                 *)
Anchored(s, t) ==
  IF session[s].tenant = NoTenant THEN [session EXCEPT ![s].tenant = t] ELSE session

(* A mismatch makes the call throw, the catch falls back to the row as     *)
(* first read: a request that then saw no anchor has none to compare.      *)
TieSessionAnchors(o) ==
  LET s == op[o].subject
      t == op[o].tenant IN
  /\ OpAt(o, "tie")
  /\ session' = Anchored(s, t)
  /\ Proceed(o, session[s].tenant \in {NoTenant, t} \/ op[o].saw = NoTenant, "granted")
  /\ UNCHANGED <<keyVars, serviceVars, user>>

RevokeSession(s) ==
  /\ session[s].state = "live"
  /\ session' = [session EXCEPT ![s].state = "revoked"]
  /\ NoOp /\ UNCHANGED <<keyVars, serviceVars, user>>

(* Sessions not yet anchored to the tenant are left alone.                 *)
RevokedIn(t) ==
  [s \in Sessions |-> IF session[s].state = "live" /\ session[s].tenant = t
                      THEN [session[s] EXCEPT !.state = "revoked"] ELSE session[s]]

RevokeUserSessions(t) ==
  /\ session' = RevokedIn(t) /\ session' # session
  /\ NoOp /\ UNCHANGED <<keyVars, serviceVars, user>>

(* disableUser: the identity first, its sessions in a second transaction.  *)
DisableUser(o, t) ==
  /\ user # "absent"
  /\ user' = "disabled"
  /\ BeginOp(o, "revokeSessions", NoKeyId, t, FALSE)
  /\ UNCHANGED <<keyVars, serviceVars, session>>

RevokeDisabledSessions(o) ==
  /\ OpAt(o, "revokeSessions")
  /\ session' = RevokedIn(op[o].tenant)
  /\ OpEnds(o)
  /\ UNCHANGED <<keyVars, serviceVars, user>>

SessionNext ==
  \/ \E o \in AuthOps :
       \/ \E s \in Sessions, t \in Tenants : ResolveSession(o, s, t)
       \/ GetSession(o) \/ RegisterSession(o) \/ CheckUser(o) \/ TieSessionAnchors(o)
       \/ \E t \in Tenants : DisableUser(o, t)
       \/ RevokeDisabledSessions(o) \/ OpOver(o)
  \/ \E s \in Sessions : RevokeSession(s)
  \/ \E t \in Tenants : RevokeUserSessions(t)

-----------------------------------------------------------------------------
PrincipalsNext == KeyNext \/ ServiceNext \/ SessionNext
PrincipalsSpec == PrincipalsInit /\ [][PrincipalsNext]_principalVars

(* A request that begins after its key, credential, identity, session,     *)
(* user or membership was withdrawn gets no actor, whatever rotations,     *)
(* issues, re-enablings and other authentications run beside it and        *)
(* whichever half-finished withdrawal came before: the checks are made on  *)
(* stored state (authenticateApiKey, authenticateMachineCredential,        *)
(* resolveSession).                                                        *)
WithdrawnNeverGranted == \A o \in AuthOps : OpAt(o, "granted") => ~op[o].barred

(* A revoked key, credential, identity or session, and a disabled user,    *)
(* stay that way: no insert, window, enabling or registration racing the   *)
(* withdrawal undoes it.                                                   *)
WithdrawnForGood ==
  [][/\ \A k \in ApiKeys : apiKey[k].state = "revoked" => apiKey'[k].state = "revoked"
     /\ \A c \in Credentials : credential[c].state = "revoked" => credential'[c].state = "revoked"
     /\ service.status = "revoked" => service'.status = "revoked"
     /\ \A s \in Sessions : session[s].state = "revoked" => session'[s].state = "revoked"
     /\ user = "disabled" => user' = "disabled"]_principalVars

(* Two requests of one session for different tenants race to anchor it:    *)
(* the anchor the first one set stands (tieSessionAnchors).                *)
AnchorSetOnce ==
  [][\A s \in Sessions : session[s].tenant # NoTenant
       => session'[s].tenant = session[s].tenant]_principalVars

=============================================================================
