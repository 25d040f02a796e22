----------------------------- MODULE MCJobPlane -----------------------------
(* What the control plane keeps of jobs, each part against everyone who    *)
(* writes it: the requests it answers, the job store over SQLite and over  *)
(* PostgreSQL, the POST idempotency records, admission with its quota,     *)
(* usage with its ledger.  The parts share no rows: a behaviour follows    *)
(* one while the others stand still.                                       *)
EXTENDS Admission, Accounting, PgJobStore, JobRequests, ControlPlane

CONSTANTS d1, k1, k2, s1, s2, j1, j2, n1, n2, o1, o2, p1, x1, w1, w2,
  Parts     \* the parts explored

VARIABLE focus

MCRequests == {[key |-> k1, scope |-> s1, spec |-> 1],
               [key |-> k1, scope |-> s1, spec |-> 2],
               [key |-> k2, scope |-> s1, spec |-> 1]}

(* Usage is committed for one job; clients also charge another account.    *)
OneJob == <<j1>>
MCAccountOf == [j \in {j1, j2} |-> IF j = j1 THEN "a" ELSE "b"]

(* A key of one tenant and a session of another, from this origin, from a  *)
(* trusted one and from a foreign one.                                     *)
KeyCaller == [tenant |-> n1, org |-> o1, kind |-> "key", keyScope |-> {p1}]
SessionCaller == [tenant |-> n2, org |-> o2, kind |-> "session", keyScope |-> {}]
MCCallers == {KeyCaller, SessionCaller}
Posting == [who |-> KeyCaller, origin |-> "none", cookie |-> FALSE, method |-> "POST",
            path |-> "create", org |-> o1, tools |-> {}, job |-> 1]
Getting == [Posting EXCEPT !.method = "GET"]
MCHttp ==
  {[Posting EXCEPT !.who = w, !.tools = t] : w \in MCCallers, t \in {{}, {x1}}}
  \cup {[Getting EXCEPT !.who = w, !.path = p] : w \in MCCallers, p \in {"job", "list", "org", "tenant"}}
  \cup {[Posting EXCEPT !.who = SessionCaller, !.origin = o, !.cookie = TRUE, !.method = m, !.path = "job"] :
          o \in {"trusted", "foreign"}, m \in {"GET", "POST", "OPTIONS"}}
  \cup {[Posting EXCEPT !.who = w, !.origin = "foreign", !.cookie = TRUE, !.path = p] :
          w \in {SessionCaller, Nobody}, p \in {"health", "identity", "layer"}}
  \cup {[Posting EXCEPT !.path = p] : p \in {"identity", "gc", "layer"}}
  \cup {Getting, [Getting EXCEPT !.path = "callback"], [Posting EXCEPT !.who = Nobody]}

storeSide == <<storeVars, pgStoreVars, pgDispatchVars>>
moneySide == <<admissionVars, accountingVars>>
requestSide == <<postVars, httpVars>>

JobPlaneInit ==
  /\ focus \in Parts
  /\ StoreInit /\ PgStoreInit /\ PgDispatchInit
  /\ AdmissionInit /\ AccountingInit
  /\ JobRequestsInit /\ ControlPlaneInit
  /\ focus = "store" \/ ckpt.body = "x"
  /\ focus = "http" \/ originsKnown

StoreSideNext ==
  \/ focus = "store" /\ StoreNext /\ UNCHANGED <<pgStoreVars, pgDispatchVars>>
  \/ focus = "pgstore" /\ PgStoreNext /\ UNCHANGED pgDispatchVars
  \/ focus = "pgdispatch" /\ PgDispatchNext /\ UNCHANGED <<storeVars, pgStoreVars>>

MoneySideNext ==
  \/ focus = "quota" /\ QuotaNext /\ UNCHANGED <<admissionOwn, accountingVars>>
  \/ focus = "admission" /\ AdmissionNext /\ UNCHANGED accountingVars
  \/ /\ focus = "ledger" /\ (LedgerNext \/ CreatePricingVersion)
     /\ UNCHANGED admissionVars
  \/ /\ focus = "settlement" /\ (SettlementNext \/ CreatePricingVersion)
     /\ UNCHANGED admissionVars

RequestSideNext ==
  \/ focus = "posts" /\ JobRequestsNext /\ UNCHANGED httpVars
  \/ focus = "http" /\ ControlPlaneNext /\ UNCHANGED postVars

JobPlaneNext ==
  /\ UNCHANGED focus
  /\ \/ StoreSideNext /\ UNCHANGED <<moneySide, requestSide>>
     \/ MoneySideNext /\ UNCHANGED <<storeSide, requestSide>>
     \/ RequestSideNext /\ UNCHANGED <<storeSide, moneySide>>

JobPlaneSpec == JobPlaneInit /\ [][JobPlaneNext]_<<focus, storeSide, moneySide, requestSide>>

(* Every row and every call keeps its type.                                *)
JobPlaneTypeOK ==
  /\ StoreTypeOK /\ PgStoreTypeOK /\ PgDispatchTypeOK
  /\ AdmissionTypeOK /\ AccountingTypeOK
  /\ JobRequestsTypeOK /\ ControlPlaneTypeOK

(* What the control plane answers and admits, over every order of          *)
(* requests, grants, policy changes, failed creations and restarts: an     *)
(* answer fits the body sent and stays in its tenant, a foreign origin     *)
(* changes nothing, a job is admitted where its creator may act and with   *)
(* the tools of one policy (server.ts, admission.ts).                      *)
RequestsSafe ==
  /\ AnswerMatchesBody
  /\ JobsStayInTenant
  /\ UntrustedOriginUnhandled
  /\ AdmittedInOwnProject
  /\ ToolsOfOnePolicy
=============================================================================
