---------------------------- MODULE Connections ----------------------------
(***************************************************************************)
(* Provider connections and the OAuth authorization attempts that create   *)
(* and renew them: packages/vaulltcore-credentials and the connection      *)
(* routes of vaulltcore-control.                                           *)
(*                                                                         *)
(* One external account, hence one connection row (the table is UNIQUE in  *)
(* tenant, family, provider and account).  Every store method is atomic;   *)
(* the lifecycle methods await between them.  A secret is a number: the    *)
(* reference under which the n-th exchange stored its token.  Time is two  *)
(* bits: the attempt, or the credential, is past its expiry.               *)
(***************************************************************************)
EXTENDS Integers

CONSTANTS
  Attempts,        \* authorization attempts
  Callers,         \* requests in flight
  MaxSecrets,      \* bound: secrets obtained from the provider
  MaxConnCalls,    \* bound: calls started
  MaxConnFaults    \* bound: processes that die in a call

VARIABLES
  conn,        \* the row of provider_connections
  authAttempt,     \* authorization_attempts
  caller,      \* the lifecycle call each request is in
  secrets,     \* references handed out by the SecretProvider
  allowance    \* what is left of the bounds

connVars == <<conn, authAttempt, caller, secrets, allowance>>

(* authorization_pending and authorization_verified are declared and       *)
(* written by nothing; "none" is the absent row.                           *)
ConnectionStates == {"none", "active", "degraded", "expired", "revoked",
                     "disconnected"}

CONNECTION_TRANSITIONS ==
  [s \in ConnectionStates |->
     CASE s = "active"   -> {"degraded", "expired", "revoked", "disconnected"}
       [] s = "degraded" -> {"active", "expired", "revoked", "disconnected"}
       [] s = "expired"  -> {"revoked", "disconnected"}
       [] s = "revoked"  -> {"disconnected"}
       [] OTHER          -> {}]

Connection == [state : ConnectionStates, version : Nat, secret : Nat,
               lapsed : BOOLEAN]
Attempt == [outcome : {"unstarted", "open", "verified", "consumed", "expired"},
            secret : Nat, lapsed : BOOLEAN]
SETTLED == {"verified", "consumed"}

CallerSteps == {"idle", "find", "exchange", "settle", "list", "create", "rotate",
                "activate", "consume", "refresh", "degrade", "end", "expire"}

(* read: the version the call first saw; version: the one it now holds;    *)
(* was: the state it saw; to: the state it was asked for.                  *)
ConnCall == [pc : CallerSteps, refreshing : BOOLEAN, attempt : Attempts \cup {"none"},
         secret : Nat, read : Nat, version : Nat, was : ConnectionStates,
         to : ConnectionStates]

NoConnCall == [pc |-> "idle", refreshing |-> FALSE, attempt |-> "none", secret |-> 0,
           read |-> 0, version |-> 0, was |-> "none", to |-> "none"]

ConnTypeOK ==
  /\ conn \in Connection
  /\ (conn.state = "none") = (conn.version = 0)
  /\ authAttempt \in [Attempts -> Attempt]
  /\ caller \in [Callers -> ConnCall]
  /\ secrets \in 0..MaxSecrets
  /\ allowance \in [calls : 0..MaxConnCalls, faults : 0..MaxConnFaults]

ConnInit ==
  /\ conn = [state |-> "none", version |-> 0, secret |-> 0, lapsed |-> FALSE]
  /\ authAttempt = [a \in Attempts |->
                  [outcome |-> "unstarted", secret |-> 0, lapsed |-> FALSE]]
  /\ caller = [c \in Callers |-> NoConnCall]
  /\ secrets = 0
  /\ allowance = [calls |-> MaxConnCalls, faults |-> MaxConnFaults]

-----------------------------------------------------------------------------
Exists == conn.state # "none"

CallerAt(c, pc) == caller[c].pc = pc
CallerGoto(c, pc) == caller' = [caller EXCEPT ![c].pc = pc]
ReturnFrom(c) == caller' = [caller EXCEPT ![c] = NoConnCall]

Begin(c, r) ==
  /\ CallerAt(c, "idle") /\ allowance.calls > 0
  /\ allowance' = [allowance EXCEPT !.calls = @ - 1]
  /\ caller' = [caller EXCEPT ![c] = r]

(* assertConnectionTransition.                                             *)
Legal(from, to) == from = to \/ to \in CONNECTION_TRANSITIONS[from]

(* fencedUpdate writes only over the version the call holds.               *)
FencedAt(version) == conn.version = version

SetConnState(version, to) ==
  /\ FencedAt(version) /\ Legal(conn.state, to)
  /\ conn' = [conn EXCEPT !.state = to, !.version = @ + 1]

Refused(version, to) == ~FencedAt(version) \/ ~Legal(conn.state, to)

(* The catch of refresh(); every other caller sees the error.              *)
ConnFail(c) ==
  IF caller[c].refreshing /\ caller[c].was \in {"active", "expired"}
  THEN CallerGoto(c, "degrade")
  ELSE ReturnFrom(c)

-----------------------------------------------------------------------------
(* startAuthorization, and reconnect, which starts one for an existing     *)
(* connection.                                                             *)
StartAuthorization(a) ==
  /\ authAttempt[a].outcome = "unstarted"
  /\ authAttempt' = [authAttempt EXCEPT ![a].outcome = "open"]
  /\ UNCHANGED <<conn, caller, secrets, allowance>>

(* validateCallback.  A lapsed attempt is marked and refused; a settled    *)
(* one is replayed with the secret it was settled with.                    *)
CompleteCallback(c, a) ==
  /\ authAttempt[a].outcome # "unstarted"
  /\ \/ /\ authAttempt[a].lapsed
        /\ authAttempt' = [authAttempt EXCEPT ![a].outcome =
                         IF @ = "open" THEN "expired" ELSE @]
        /\ Begin(c, NoConnCall)
     \/ /\ ~authAttempt[a].lapsed
        /\ IF authAttempt[a].outcome \in SETTLED
           THEN Begin(c, [NoConnCall EXCEPT !.pc = "find", !.attempt = a,
                                        !.secret = authAttempt[a].secret])
           ELSE Begin(c, [NoConnCall EXCEPT !.pc = "exchange", !.attempt = a])
        /\ UNCHANGED authAttempt
  /\ UNCHANGED <<conn, secrets>>

(* A replay whose connection is there is answered with it.                 *)
FindActivatedConnection(c) ==
  /\ CallerAt(c, "find")
  /\ IF Exists THEN ReturnFrom(c) ELSE CallerGoto(c, "list")
  /\ UNCHANGED <<conn, authAttempt, secrets, allowance>>

(* The adapter's exchange stores a token, or throws.                       *)
ConnExchange(c) ==
  /\ CallerAt(c, "exchange")
  /\ \/ /\ secrets < MaxSecrets
        /\ secrets' = secrets + 1
        /\ caller' = [caller EXCEPT ![c].pc = "settle", ![c].secret = secrets + 1]
     \/ /\ ReturnFrom(c)
        /\ UNCHANGED secrets
  /\ UNCHANGED <<conn, authAttempt, allowance>>

(* Mutant: the UPDATE settles a settled attempt again.                     *)
MaySettleAgain(r) == TRUE

(* UPDATE ... WHERE outcome_state IS NULL.                                 *)
MaySettle(r) == r.outcome = "open"

(* A call that finds the attempt settled, or marked expired, goes on with  *)
(* its own secret: completeCallback ignores what settleAttempt answers.    *)
SettleAttempt(c) ==
  LET a == caller[c].attempt IN
  /\ CallerAt(c, "settle")
  /\ \/ /\ authAttempt[a].outcome = "open" /\ authAttempt[a].lapsed
        /\ ReturnFrom(c)
        /\ UNCHANGED authAttempt
     \/ /\ ~(authAttempt[a].outcome = "open" /\ authAttempt[a].lapsed)
        /\ authAttempt' = IF MaySettle(authAttempt[a])
                      THEN [authAttempt EXCEPT ![a].outcome = "verified",
                                           ![a].secret = caller[c].secret]
                      ELSE authAttempt
        /\ CallerGoto(c, "list")
  /\ UNCHANGED <<conn, secrets, allowance>>

(* upsertActivatedConnection reads the table to rotate or create.          *)
UpsertActivatedConnection(c) ==
  /\ CallerAt(c, "list")
  /\ caller' = [caller EXCEPT ![c].pc = IF Exists THEN "rotate" ELSE "create",
                              ![c].version = conn.version]
  /\ UNCHANGED <<conn, authAttempt, secrets, allowance>>

(* Mutant: rows start at version 0.                                        *)
NewConnectionAtZero(secret) ==
  [state |-> "active", version |-> 0, secret |-> secret, lapsed |-> FALSE]

NewConnection(secret) ==
  [state |-> "active", version |-> 1, secret |-> secret, lapsed |-> FALSE]

(* A second insert fails on the UNIQUE constraint.                         *)
CreateConnection(c) ==
  /\ CallerAt(c, "create")
  /\ IF Exists
     THEN ReturnFrom(c) /\ UNCHANGED conn
     ELSE /\ conn' = NewConnection(caller[c].secret)
          /\ CallerGoto(c, "consume")
  /\ UNCHANGED <<authAttempt, secrets, allowance>>

(* After a rotation a callback activates only what it may, a refresh       *)
(* always.                                                                 *)
AfterRotation(c) ==
  IF caller[c].refreshing \/ conn.state = "degraded" THEN "activate" ELSE "consume"

(* rotate() replaces the secret and leaves state and expiry alone.         *)
Rotate(c) ==
  /\ CallerAt(c, "rotate")
  /\ IF FencedAt(caller[c].version)
     THEN /\ conn' = [conn EXCEPT !.secret = caller[c].secret, !.version = @ + 1]
          /\ caller' = [caller EXCEPT ![c].pc = AfterRotation(c),
                                      ![c].version = conn.version + 1]
     ELSE ConnFail(c) /\ UNCHANGED conn
  /\ UNCHANGED <<authAttempt, secrets, allowance>>

ActivateConnection(c) ==
  /\ CallerAt(c, "activate")
  /\ \/ /\ SetConnState(caller[c].version, "active")
        /\ IF caller[c].refreshing THEN ReturnFrom(c) ELSE CallerGoto(c, "consume")
     \/ /\ Refused(caller[c].version, "active")
        /\ ConnFail(c)
        /\ UNCHANGED conn
  /\ UNCHANGED <<authAttempt, secrets, allowance>>

Consume(c) ==
  /\ CallerAt(c, "consume")
  /\ authAttempt' = [authAttempt EXCEPT ![caller[c].attempt].outcome =
                   IF @ = "verified" THEN "consumed" ELSE @]
  /\ ReturnFrom(c)
  /\ UNCHANGED <<conn, secrets, allowance>>

-----------------------------------------------------------------------------
Refresh(c) ==
  /\ Exists /\ conn.state \notin {"revoked", "disconnected"}
  /\ Begin(c, [NoConnCall EXCEPT !.pc = "refresh", !.refreshing = TRUE,
                             !.read = conn.version, !.was = conn.state])
  /\ UNCHANGED <<conn, authAttempt, secrets>>

(* An adapter that cannot refresh, or fails to, throws.                    *)
AdapterRefresh(c) ==
  /\ CallerAt(c, "refresh")
  /\ \/ /\ secrets < MaxSecrets
        /\ secrets' = secrets + 1
        /\ caller' = [caller EXCEPT ![c].pc = "rotate", ![c].secret = secrets + 1,
                                    ![c].version = caller[c].read]
     \/ /\ ConnFail(c)
        /\ UNCHANGED secrets
  /\ UNCHANGED <<conn, authAttempt, allowance>>

(* markDegraded under the version refresh() first read; its own rotation   *)
(* has moved that version on.                                              *)
MarkDegraded(c) ==
  /\ CallerAt(c, "degrade")
  /\ \/ SetConnState(caller[c].read, "degraded")
     \/ Refused(caller[c].read, "degraded") /\ UNCHANGED conn
  /\ ReturnFrom(c)
  /\ UNCHANGED <<authAttempt, secrets, allowance>>

(* disconnect() and revoke() read the row, then write over its version.    *)
EndConnection(c, to) ==
  /\ Exists
  /\ Begin(c, [NoConnCall EXCEPT !.pc = "end", !.to = to, !.version = conn.version])
  /\ UNCHANGED <<conn, authAttempt, secrets>>

WriteEnd(c) ==
  /\ CallerAt(c, "end")
  /\ \/ SetConnState(caller[c].version, caller[c].to)
     \/ Refused(caller[c].version, caller[c].to) /\ UNCHANGED conn
  /\ ReturnFrom(c)
  /\ UNCHANGED <<authAttempt, secrets, allowance>>

(* resolve() parks an active connection whose credential has lapsed.       *)
Resolve(c) ==
  /\ conn.state = "active" /\ conn.lapsed
  /\ Begin(c, [NoConnCall EXCEPT !.pc = "expire", !.version = conn.version])
  /\ UNCHANGED <<conn, authAttempt, secrets>>

MarkExpired(c) ==
  /\ CallerAt(c, "expire")
  /\ \/ SetConnState(caller[c].version, "expired")
     \/ Refused(caller[c].version, "expired") /\ UNCHANGED conn
  /\ ReturnFrom(c)
  /\ UNCHANGED <<authAttempt, secrets, allowance>>

-----------------------------------------------------------------------------
(* The clock passes an expires_at.                                         *)
AttemptLapses(a) ==
  /\ authAttempt[a].outcome # "unstarted" /\ ~authAttempt[a].lapsed
  /\ authAttempt' = [authAttempt EXCEPT ![a].lapsed = TRUE]
  /\ UNCHANGED <<conn, caller, secrets, allowance>>

CredentialLapses ==
  /\ Exists /\ ~conn.lapsed
  /\ conn' = [conn EXCEPT !.lapsed = TRUE]
  /\ UNCHANGED <<authAttempt, caller, secrets, allowance>>

CallerCrash(c) ==
  /\ ~CallerAt(c, "idle") /\ allowance.faults > 0
  /\ allowance' = [allowance EXCEPT !.faults = @ - 1]
  /\ ReturnFrom(c)
  /\ UNCHANGED <<conn, authAttempt, secrets>>

ConnNext ==
  \/ \E a \in Attempts : StartAuthorization(a) \/ AttemptLapses(a)
  \/ CredentialLapses
  \/ \E c \in Callers :
       \/ \E a \in Attempts : CompleteCallback(c, a)
       \/ FindActivatedConnection(c) \/ ConnExchange(c) \/ SettleAttempt(c)
       \/ UpsertActivatedConnection(c) \/ CreateConnection(c) \/ Rotate(c)
       \/ ActivateConnection(c) \/ Consume(c)
       \/ Refresh(c) \/ AdapterRefresh(c) \/ MarkDegraded(c)
       \/ \E to \in {"disconnected", "revoked"} : EndConnection(c, to)
       \/ WriteEnd(c) \/ Resolve(c) \/ MarkExpired(c) \/ CallerCrash(c)

ConnSpec == ConnInit /\ [][ConnNext]_connVars

-----------------------------------------------------------------------------
(* Duplicate callbacks of one attempt, at any distance, leave it with the  *)
(* secret it was first settled with (settleAttempt's conditional update).  *)
SettledOnce ==
  [][\A a \in Attempts : authAttempt[a].outcome \in SETTLED =>
       /\ authAttempt'[a].outcome \in SETTLED
       /\ authAttempt'[a].secret = authAttempt[a].secret]_connVars

(* No refresh, replay or late callback brings a connection back that was   *)
(* parked as expired, revoked or disconnected (assertConnectionTransition  *)
(* inside the transaction of every fenced update).  Comments promise the   *)
(* opposite of an expired one: activate() is to reactivate it, a           *)
(* reauthorization likewise (store.ts:331, contracts.ts:48).  The code     *)
(* rotates its secret and leaves it expired.                               *)
DownStaysDown ==
  [][conn.state \in {"expired", "revoked", "disconnected"}
       => conn'.state \notin {"none", "active", "degraded"}]_connVars

(* A degraded connection is reactivated only together with the secret its  *)
(* reactivator has just obtained: a rotation by another call in between    *)
(* defeats the activation (the version fence of fencedUpdate).             *)
ActivatedWithOwnSecret ==
  [][conn.state = "degraded" /\ conn'.state = "active"
       => \E c \in Callers : CallerAt(c, "activate") /\ caller[c].secret = conn'.secret]_connVars

(* A connection follows its own authorizations only: settled once, never   *)
(* brought back, activated with the secret just obtained (oauth-store.ts,  *)
(* store.ts, lifecycle.ts).                                                *)
ConnectionsSafe ==
  /\ SettledOnce
  /\ DownStaysDown
  /\ ActivatedWithOwnSecret
=============================================================================
