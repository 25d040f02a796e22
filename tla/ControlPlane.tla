---------------------------- MODULE ControlPlane ----------------------------
(***************************************************************************)
(* A request's way through the control plane: ControlPlane.dispatch and    *)
(* its handlers (packages/vaulltcore-control server.ts), the               *)
(* authenticators serve.ts wires, the directory of tenants, organizations, *)
(* projects and grants with authorize and validateJobIdentity              *)
(* (vaulltcore-identity store.ts), and the admission policy                *)
(* (vaulltcore-policy store.ts).                                           *)
(*                                                                         *)
(* Authentication, authorization, policy and creation are separate reads   *)
(* with awaits between them, while other requests extend the directory and *)
(* replace the policy.  Keys, sessions and members are in Principals and   *)
(* Membership, idempotency and quota in Admission.  No authenticator that  *)
(* is wired here yields an operator (admin is false or undefined), so the  *)
(* operator branches are not reached.                                      *)
(***************************************************************************)
EXTENDS Integers, Sequences, FiniteSets

CONSTANTS
  HttpTenants, Orgs, Projects, Tools,
  HttpCallers,     \* who calls: [tenant, org, kind, keyScope], {} for any project
  HttpRequests,    \* what they ask
  HttpCalls,       \* requests in flight
  Nobody,          \* no tenant, organization, project or caller
  MaxHttp,         \* bound: requests
  MaxPolicies,     \* bound: policies created
  MaxAdmitted      \* bound: jobs admitted

ASSUME ControlPlaneAssumption ==
  /\ Nobody \notin HttpTenants \cup Orgs \cup Projects
  /\ \A w \in HttpCallers :
       /\ w.tenant \in HttpTenants /\ w.org \in Orgs
       /\ w.kind \in {"session", "key"} /\ w.keyScope \subseteq Projects
  /\ \A q \in HttpRequests :
       /\ q.who \in HttpCallers \cup {Nobody} /\ q.origin \in {"none", "trusted", "foreign"}
       /\ q.cookie \in BOOLEAN /\ q.method \in {"GET", "POST", "OPTIONS"}
       /\ q.org \in Orgs /\ q.job \in Nat /\ q.tools \subseteq Tools
  /\ MaxHttp \in Nat

VARIABLES
  originsKnown, \* whether trustedOrigins is configured
  orgOf,        \* organizations: the tenant of each
  projectOf,    \* projects: the organization of each
  grants,       \* project_grants: callers and projects
  policies,     \* admission_policies of one scope, in the order of creation
  admitted,     \* jobs, with what their record pins
  call,         \* what each request's handler is doing
  httpCount

directoryVars == <<originsKnown, orgOf, projectOf, grants>>
httpVars == <<originsKnown, orgOf, projectOf, grants, policies, admitted, call, httpCount>>

(* project is AuthnPrincipal.projectId: a grant, "*", or Nobody for null.  *)
CallPc == {"idle", "authenticate", "route", "resolve", "authorize", "policy", "create", "answered"}
NoCall == [pc |-> "idle", req |-> Nobody, project |-> Nobody, scope |-> {}, policy |-> 0,
           status |-> 0, handled |-> FALSE, jobs |-> {}]

PolicyRecord == [tools : SUBSET Tools, active : BOOLEAN]

ControlPlaneTypeOK ==
  /\ orgOf \in [Orgs -> HttpTenants \cup {Nobody}]
  /\ projectOf \in [Projects -> Orgs \cup {Nobody}]
  /\ grants \subseteq HttpCallers \X Projects
  /\ policies \in Seq(PolicyRecord)
  /\ \A j \in DOMAIN admitted : admitted[j].tools \subseteq Tools
  /\ \A c \in HttpCalls : call[c].pc \in CallPc /\ call[c].scope \subseteq Projects
  /\ httpCount \in 0..MaxHttp
  /\ Cardinality({i \in DOMAIN policies : policies[i].active}) <= 1

ControlPlaneInit ==
  /\ originsKnown \in BOOLEAN
  /\ orgOf = [o \in Orgs |-> Nobody]
  /\ projectOf = [p \in Projects |-> Nobody]
  /\ grants = {}
  /\ policies = <<>>
  /\ admitted = <<>>
  /\ call = [c \in HttpCalls |-> NoCall]
  /\ httpCount = 0

-----------------------------------------------------------------------------
(* The directory.  Ids are primary keys across tenants, rows are added and *)
(* never moved; getOrganization and getProject match the whole chain.      *)
GetOrganization(t, o) == orgOf[o] = t
GetProject(t, o, p) == projectOf[p] = o /\ orgOf[o] = t

CreateOrganization(t, o) ==
  /\ orgOf[o] = Nobody
  /\ orgOf' = [orgOf EXCEPT ![o] = t]
  /\ UNCHANGED <<originsKnown, projectOf, grants, policies, admitted, call, httpCount>>

CreateProject(t, o, p) ==
  /\ GetOrganization(t, o) /\ projectOf[p] = Nobody
  /\ projectOf' = [projectOf EXCEPT ![p] = o]
  /\ UNCHANGED <<originsKnown, orgOf, grants, policies, admitted, call, httpCount>>

(* grantProject checks no chain.                                           *)
GrantProject(w, p) ==
  /\ <<w, p>> \notin grants
  /\ grants' = grants \cup {<<w, p>>}
  /\ UNCHANGED <<originsKnown, orgOf, projectOf, policies, admitted, call, httpCount>>

(* createPolicy: the active policy is replaced in the same transaction.    *)
CreatePolicy(tools) ==
  /\ Len(policies) < MaxPolicies
  /\ policies' = Append([i \in DOMAIN policies |-> [policies[i] EXCEPT !.active = FALSE]],
                        [tools |-> tools, active |-> TRUE])
  /\ UNCHANGED <<directoryVars, admitted, call, httpCount>>

(* getActivePolicy: 0 is the default, which allows no tool.                *)
ActivePolicy == LET on == {i \in DOMAIN policies : policies[i].active} IN
                IF on = {} THEN 0 ELSE CHOOSE i \in on : TRUE
ToolsOf(i) == IF i = 0 THEN {} ELSE policies[i].tools

-----------------------------------------------------------------------------
(* dispatch.                                                               *)
Req(c) == call[c].req
CallAt(c, pc) == call[c].pc = pc
Fixed == UNCHANGED <<directoryVars, policies, admitted, httpCount>>

Answer(c, status, handled, jobs) ==
  call' = [call EXCEPT ![c].pc = "answered", ![c].status = status,
                       ![c].handled = handled, ![c].jobs = jobs]
Go(c, pc) == call' = [call EXCEPT ![c].pc = pc]

Trusted(q) == originsKnown /\ q.origin = "trusted"

(* The allowlist, when there is one, holds for every request with an       *)
(* Origin.                                                                 *)
NotAllowed(q) == originsKnown /\ q.origin = "foreign"

(* A state-changing request with a cookie needs a trusted Origin.          *)
CsrfDenied(q) ==
  /\ q.origin # "none" /\ q.cookie
  /\ q.method # "GET" /\ q.path \notin {"auth", "health"} /\ ~Trusted(q)

Preflight(q) == Trusted(q) /\ q.method = "OPTIONS"
Public == {"auth", "health"}

(* A request arrives, from a member of an organization or from anyone:     *)
(* preflight, the two origin checks, /health, and the /auth bridge.        *)
Arrive(c, q) ==
  /\ call[c].pc \in {"idle", "answered"} /\ httpCount < MaxHttp
  /\ q.who # Nobody => GetOrganization(q.who.tenant, q.who.org)
  /\ httpCount' = httpCount + 1
  /\ LET refused == NotAllowed(q) \/ (~Preflight(q) /\ CsrfDenied(q))
         now(pc, status, handled) ==
           call' = [call EXCEPT ![c] = [NoCall EXCEPT !.pc = pc, !.req = q,
                                          !.status = status, !.handled = handled]] IN
     \/ refused /\ now("answered", 403, FALSE)
     \/ Preflight(q) /\ now("answered", 204, FALSE)
     \/ ~refused /\ ~Preflight(q) /\ q.path \in Public /\ now("answered", 200, TRUE)
     \/ ~refused /\ ~Preflight(q) /\ q.path \notin Public /\ now("authenticate", 0, FALSE)
  /\ UNCHANGED <<directoryVars, policies, admitted>>

(* /identity resolves its own actor.                                       *)
IdentityRoute(c) ==
  /\ CallAt(c, "authenticate") /\ Req(c).path = "identity"
  /\ IF Req(c).who = Nobody THEN Answer(c, 401, FALSE, {}) ELSE Answer(c, 200, TRUE, {})
  /\ Fixed

(* The provider's redirect comes without a session: Connections has what   *)
(* it does.                                                                *)
IsCallback(q) == q.path = "callback" /\ q.method = "GET"
CallbackRoute(c) ==
  /\ CallAt(c, "authenticate") /\ IsCallback(Req(c))
  /\ Answer(c, 200, TRUE, {}) /\ Fixed

GrantsOf(w) == {p \in Projects : <<w, p>> \in grants}

(* AuthnPrincipal.projectId: resolveActor gives null without a grant.      *)
ProjectChoices(w) == IF GrantsOf(w) = {} THEN {Nobody} ELSE GrantsOf(w)

(* Everything else is authenticated, and needs a project.                  *)
Authenticate(c) ==
  LET q == Req(c) IN
  /\ CallAt(c, "authenticate") /\ q.path # "identity" /\ ~IsCallback(q)
  /\ IF q.who = Nobody THEN Answer(c, 401, FALSE, {})
     ELSE \E p \in ProjectChoices(q.who) :
            IF p = Nobody THEN Answer(c, 404, FALSE, {})
            ELSE call' = [call EXCEPT ![c].pc = "route", ![c].project = p]
  /\ Fixed

(* /automation, /operations, /usage, /connections, /triggers: handed on    *)
(* with the principal's tenant, organization and project, if the layer     *)
(* knows the route.                                                        *)
LayerRoute(c) ==
  /\ CallAt(c, "route") /\ Req(c).path = "layer"
  /\ Answer(c, 200, TRUE, {}) \/ Answer(c, 404, FALSE, {})
  /\ Fixed

Matches(q) == \/ q.path = "create" /\ q.method = "POST"
              \/ q.path = "job" /\ q.method \in {"GET", "POST"}
              \/ q.path \in {"list", "org", "tenant"} /\ q.method = "GET"
              \/ q.path = "gc" /\ q.method = "POST"

UnknownRoute(c) ==
  /\ CallAt(c, "route") /\ Req(c).path # "layer" /\ ~Matches(Req(c))
  /\ Answer(c, 404, FALSE, {}) /\ Fixed

(* scoped(): the job exists and is the caller's tenant's.                  *)
Scoped(q) == q.job \in DOMAIN admitted /\ admitted[q.job].tenant = q.who.tenant

(* getJob, getUsage, cancelJob, submitInput, events: what they do to the   *)
(* job is in Runner and EventStream.                                       *)
JobRoute(c) ==
  /\ CallAt(c, "route") /\ Req(c).path = "job" /\ Matches(Req(c))
  /\ IF Scoped(Req(c)) THEN Answer(c, 200, TRUE, {Req(c).job}) ELSE Answer(c, 404, FALSE, {})
  /\ Fixed

ListJobsByTenant(t) == {j \in DOMAIN admitted : admitted[j].tenant = t}

ListJobs(c) ==
  /\ CallAt(c, "route") /\ Req(c).path = "list" /\ Matches(Req(c))
  /\ Answer(c, 200, TRUE, ListJobsByTenant(Req(c).who.tenant))
  /\ Fixed

(* The reconciliation and health routes take the tenant from the principal *)
(* and never from the request.                                             *)
TenantRoute(c) ==
  /\ CallAt(c, "route") /\ Req(c).path = "tenant" /\ Matches(Req(c))
  /\ Answer(c, 200, TRUE, ListJobsByTenant(Req(c).who.tenant))
  /\ Fixed

(* The organization reads: the URL's organization must be the caller's,    *)
(* and the rows are the caller's tenant's.                                 *)
ScopeTenant(q) == q.org = q.who.org

OrgRoute(c) ==
  LET q == Req(c) IN
  /\ CallAt(c, "route") /\ q.path = "org" /\ Matches(q)
  /\ IF ScopeTenant(q)
     THEN Answer(c, 200, TRUE, {j \in ListJobsByTenant(q.who.tenant) : admitted[j].org = q.org})
     ELSE Answer(c, 404, FALSE, {})
  /\ Fixed

(* triggerSnapshotGc asks for an operator.                                 *)
GcRoute(c) ==
  /\ CallAt(c, "route") /\ Req(c).path = "gc" /\ Matches(Req(c))
  /\ Answer(c, 403, FALSE, {}) /\ Fixed

-----------------------------------------------------------------------------
(* createJob through the admission pipeline: without an idempotency key or *)
(* with an unreadable body it goes no further.                             *)
BeginCreate(c) ==
  /\ CallAt(c, "route") /\ Req(c).path = "create" /\ Matches(Req(c))
  /\ Go(c, "resolve") \/ Answer(c, 400, FALSE, {})
  /\ Fixed

(* resolvePrincipal reads the bearer key a second time: a session has      *)
(* none.                                                                   *)
ResolvePrincipal(c) ==
  /\ CallAt(c, "resolve")
  /\ IF Req(c).who.kind = "session" THEN Answer(c, 401, FALSE, {})
     ELSE call' = [call EXCEPT ![c].pc = "authorize", ![c].scope = GrantsOf(Req(c).who)]
  /\ Fixed

(* Mutant: the grant is enough.                                            *)
MayActInGranted(t, w, scope, p) == p \in scope

(* authorize: the caller's own organization, an existing chain, a grant,   *)
(* and the key's own restriction; validateJobIdentity asks for the chain   *)
(* again.                                                                  *)
MayActIn(t, w, scope, p) ==
  /\ GetOrganization(t, w.org) /\ GetProject(t, w.org, p)
  /\ p \in scope
  /\ w.keyScope = {} \/ p \in w.keyScope

AuthorizeScope(c) ==
  LET w == Req(c).who IN
  /\ CallAt(c, "authorize")
  /\ IF MayActIn(w.tenant, w, call[c].scope, call[c].project)
     THEN Go(c, "policy") ELSE Answer(c, 403, FALSE, {})
  /\ Fixed

(* evaluate: no requested tool outside the policy.  Its limits on steps    *)
(* and snapshots may refuse as well.                                       *)
Permits(asked, allowed) == asked \ allowed = {}

(* The decision carries the policy it was made under.                      *)
Allow(c) == call' = [call EXCEPT ![c].pc = "create", ![c].policy = ActivePolicy]
DenyRequest(c) == Answer(c, 403, FALSE, {})

EvaluateRequest(c) ==
  /\ CallAt(c, "policy")
  /\ \/ Permits(Req(c).tools, ToolsOf(ActivePolicy)) /\ Allow(c)
     \/ DenyRequest(c)
  /\ Fixed

(* toExecutionPolicy: the tools of the decision, whatever is active now.   *)
Pinned(decided) == ToolsOf(decided)

CreateAdmitted(c) ==
  LET w == Req(c).who IN
  /\ CallAt(c, "create") /\ Len(admitted) < MaxAdmitted
  /\ admitted' = Append(admitted,
       [tenant |-> w.tenant, org |-> w.org, project |-> call[c].project, by |-> w,
        tools |-> Pinned(call[c].policy), asked |-> Req(c).tools, policy |-> call[c].policy])
  /\ Answer(c, 201, TRUE, {Len(admitted) + 1})
  /\ UNCHANGED <<directoryVars, policies, httpCount>>

ControlPlaneNext ==
  \/ \E t \in HttpTenants, o \in Orgs :
       CreateOrganization(t, o) \/ \E p \in Projects : CreateProject(t, o, p)
  \/ \E w \in HttpCallers, p \in Projects : GrantProject(w, p)
  \/ \E tools \in SUBSET Tools : CreatePolicy(tools)
  \/ \E c \in HttpCalls :
       \/ \E q \in HttpRequests : Arrive(c, q)
       \/ IdentityRoute(c) \/ CallbackRoute(c) \/ Authenticate(c)
       \/ LayerRoute(c) \/ UnknownRoute(c)
       \/ JobRoute(c) \/ ListJobs(c) \/ TenantRoute(c) \/ OrgRoute(c) \/ GcRoute(c)
       \/ BeginCreate(c) \/ ResolvePrincipal(c) \/ AuthorizeScope(c)
       \/ EvaluateRequest(c) \/ CreateAdmitted(c)

-----------------------------------------------------------------------------
(* No answer holds a job of another tenant, whichever route it came by and *)
(* whatever the job's id, organization or project (scoped, listJobs, the   *)
(* organization reads).                                                    *)
JobsStayInTenant ==
  \A c \in HttpCalls : CallAt(c, "answered") =>
    \A j \in call[c].jobs : admitted[j].tenant = Req(c).who.tenant

(* A state-changing request that carries a cookie from an origin nobody    *)
(* trusts reaches no handler but those of /auth and /health, allowlist or  *)
(* not.                                                                    *)
UntrustedOriginUnhandled ==
  \A c \in HttpCalls : CallAt(c, "answered") /\ call[c].handled =>
    LET q == Req(c) IN
    q.cookie /\ q.method # "GET" /\ q.origin # "none" /\ ~Trusted(q) => q.path \in {"auth", "health"}

(* Every job belongs to a project of its organization and its tenant, and  *)
(* its creator was granted that project, with a key that reaches it,       *)
(* although grants may name projects of anyone (authorize,                 *)
(* validateJobIdentity).                                                   *)
AdmittedInOwnProject ==
  \A j \in DOMAIN admitted :
    LET a == admitted[j] IN
    /\ projectOf[a.project] = a.org /\ orgOf[a.org] = a.tenant
    /\ <<a.by, a.project>> \in grants
    /\ a.by.keyScope = {} \/ a.project \in a.by.keyScope

(* A job runs with the tools of one policy that was in force for it, and   *)
(* that policy allowed everything the job asked for, though the policy may *)
(* have been replaced since (evaluate, toExecutionPolicy).                 *)
ToolsOfOnePolicy ==
  \A j \in DOMAIN admitted :
    LET a == admitted[j] IN a.tools = ToolsOf(a.policy) /\ a.asked \subseteq a.tools
=============================================================================
