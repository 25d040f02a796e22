------------------------------ MODULE Delivery ------------------------------
(***************************************************************************)
(* Sending results outside: the webhook, Slack and e-mail providers, the   *)
(* destination guard and the retry policy (packages/vaulltcore-delivery),  *)
(* the guarded HTTP client of the integrations (vaulltcore-integration     *)
(* http.ts), and the in-process provider (vaulltcore-automation            *)
(* delivery.ts).                                                           *)
(*                                                                         *)
(* A provider remembers in its process which idempotency keys it settled,  *)
(* and learns it only when the answer is back: calls overlap, answers get  *)
(* lost after the destination accepted, processes restart.  Whoever calls  *)
(* a provider keeps the attempts and follows RetryPolicy; no caller is     *)
(* wired, so that part is the loop the policy is written for.              *)
(***************************************************************************)
EXTENDS Integers, FiniteSets

CONSTANTS
  DeliveryKeys,        \* idempotency keys
  DeliveryUrls,        \* destinations: [https, userinfo, host, addrs, words]
  DeliveryCalls,       \* deliver() calls in flight
  MaxRedirects,
  MaxDeliveryAttempts, \* RetryPolicy: maxAttempts, baseMs, maxMs, multiplier
  BaseMs, MaxMs, Multiplier,
  MaxDeliveryFaults    \* bound: lost answers, overlapping calls and restarts

ASSUME DeliveryAssumption ==
  /\ DeliveryUrls # {}
  /\ MaxRedirects \in Nat /\ MaxDeliveryAttempts \in Nat \ {0}
  /\ BaseMs \in Nat \ {0} /\ MaxMs \in Nat /\ Multiplier \in Nat \ {0}

VARIABLES
  settledKeys,     \* the providers' settled maps in this process
  deliverCall,     \* what each deliver() is doing
  attemptOf,       \* the caller's DeliveryAttemptRecord of each key
  received,        \* requests for the key that a destination accepted
  contacted,       \* destinations a request went to
  excused,         \* keys with an overlap, a lost answer, a restart, or no memory
  deliveryFaults

deliveryVars == <<settledKeys, deliverCall, attemptOf, received, contacted, excused, deliveryFaults>>

-----------------------------------------------------------------------------
(* The destination guard.  An IPv4 address is its first two bytes; of an   *)
(* IPv6 address only its kind matters, and the bytes of the IPv4 address   *)
(* it may map (::ffff:a.b.c.d).  METADATA_HOSTS are looked up in both      *)
(* forms.                                                                  *)
MetadataHost(ip) == ip.metadata

PrivateV4(a, b) ==
  \/ a \in {0, 10, 127} \/ a >= 224
  \/ a = 169 /\ b = 254
  \/ a = 172 /\ b \in 16..31
  \/ a = 192 /\ b = 168
  \/ a = 100 /\ b \in 64..127

PrivateV6(kind) == kind \in {"loopback", "link-local", "unique-local", "multicast"}

(* A mapped address is of family 6, so none of the IPv4 ranges is asked.   *)
IsForbiddenIp(ip, allowPrivate) ==
  \/ ip.v = 0 \/ MetadataHost(ip)
  \/ ~allowPrivate /\ ip.v = 4 /\ PrivateV4(ip.a, ip.b)
  \/ ~allowPrivate /\ ip.v = 6 /\ PrivateV6(ip.kind)

WellFormed(u) == u.https /\ ~u.userinfo /\ u.host
Forbidden(u) == \E ip \in u.addrs : IsForbiddenIp(ip, FALSE)

(* check: production options, https and no private address.                *)
Check(u) == WellFormed(u) /\ u.addrs # {} /\ ~Forbidden(u)

CheckRedirect(u) == Check(u)

-----------------------------------------------------------------------------
(* The retry policy.                                                       *)
RetryClasses == {"transient", "rate_limited", "auth_config", "permanent_validation",
                 "provider_rejection", "unknown_uncertain"}
IsRetriable(cls) == cls \in {"transient", "rate_limited", "unknown_uncertain"}

(* defaultClassifier of an answer's status.                                *)
ClassOfStatus(s) ==
  CASE s = 429 -> "rate_limited"
    [] s \in {401, 403} -> "auth_config"
    [] s \in (400..499) \ {401, 403, 408, 429} -> "permanent_validation"
    [] s >= 500 -> "transient"
    [] OTHER -> "unknown_uncertain"

(* defaultClassifier of an exception's message.                            *)
ClassesOfError == {"transient", "rate_limited", "auth_config", "unknown_uncertain"}

(* A destination: the addresses its name resolves to, and the class its    *)
(* own words give a message that repeats it.                               *)
ASSUME DeliveryUrlsAssumption ==
  \A u \in DeliveryUrls :
    u.words \in ClassesOfError /\ \A ip \in u.addrs : ip.v \in {0, 4, 6}

(* A refusal's message holds the URL, whose words are classified too, and  *)
(* the reason: "forbidden" reads as a failed authorization.                *)
ClassOfRefusal(u) ==
  IF u.words \notin {"transient", "rate_limited"} /\ WellFormed(u) /\ Forbidden(u)
  THEN "auth_config" ELSE u.words

Power[n \in Nat] == IF n = 0 THEN 1 ELSE Multiplier * Power[n - 1]
BackoffMs(attempt) == LET exp == BaseMs * Power[attempt - 1] IN IF exp < MaxMs THEN exp ELSE MaxMs

(* decide: the delays it may draw; -1 ends the delivery.                   *)
NextDelay(attempt, cls) ==
  IF ~IsRetriable(cls) \/ attempt >= MaxDeliveryAttempts THEN {-1} ELSE 0..BackoffMs(attempt)

-----------------------------------------------------------------------------
(* The caller's record.  delay is what is left until nextRetryAt.          *)
DeliveryAttemptStatuses ==
  {"none", "pending", "in_progress", "delivered", "failed_terminal", "failed_retriable"}
DeliveryProviders == {"webhook", "slack", "email", "http", "fake"}
DeliveryAttemptRecord ==
  [status : DeliveryAttemptStatuses, attempt : 0..MaxDeliveryAttempts, delay : 0..MaxMs,
   provider : DeliveryProviders, url : DeliveryUrls]
NoAttempt == [status |-> "none", attempt |-> 0, delay |-> 0,
              provider |-> "fake", url |-> CHOOSE u \in DeliveryUrls : TRUE]

NoDeliver == [pc |-> "idle", key |-> 0, url |-> 0, hops |-> 0, status |-> 0]

DeliveryTypeOK ==
  /\ settledKeys \subseteq DeliveryKeys
  /\ \A c \in DeliveryCalls : deliverCall[c].pc \in {"idle", "check", "send", "waiting", "redirect"}
  /\ attemptOf \in [DeliveryKeys -> DeliveryAttemptRecord]
  /\ received \in [DeliveryKeys -> Nat]
  /\ contacted \subseteq DeliveryUrls

DeliveryInit ==
  /\ settledKeys = {}
  /\ deliverCall = [c \in DeliveryCalls |-> NoDeliver]
  /\ attemptOf = [k \in DeliveryKeys |-> NoAttempt]
  /\ received = [k \in DeliveryKeys |-> 0]
  /\ contacted = {}
  /\ excused = {}
  /\ deliveryFaults = 0

DeliverAt(c, pc) == deliverCall[c].pc = pc
Calling(k) == {c \in DeliveryCalls : ~DeliverAt(c, "idle") /\ deliverCall[c].key = k}

(* The call returns; the record says so.                                   *)
Delivered(c, k) ==
  /\ deliverCall' = [deliverCall EXCEPT ![c] = NoDeliver]
  /\ attemptOf' = [attemptOf EXCEPT ![k].status = "delivered"]

(* The call throws a DeliveryError with a retry class.  A record another   *)
(* call has closed stays closed.                                           *)
Failed(c, k, cls) ==
  /\ deliverCall' = [deliverCall EXCEPT ![c] = NoDeliver]
  /\ IF attemptOf[k].status \in {"delivered", "failed_terminal"} THEN UNCHANGED attemptOf
     ELSE \E d \in NextDelay(attemptOf[k].attempt, cls) :
            attemptOf' = [attemptOf EXCEPT ![k].status = IF d = -1 THEN "failed_terminal" ELSE "failed_retriable",
                                           ![k].delay = IF d = -1 THEN 0 ELSE d]

(* settled.get(idempotencyKey); the integrations' client keeps none.       *)
Known(k) == k \in settledKeys

(* A delivery to make.  Slack's URL is the configured one, whatever the    *)
(* caller gives.                                                           *)
Schedule(k, p, u) ==
  /\ attemptOf[k].status = "none"
  /\ attemptOf' = [attemptOf EXCEPT ![k].status = "pending", ![k].provider = p, ![k].url = u]
  /\ UNCHANGED <<settledKeys, deliverCall, received, contacted, excused, deliveryFaults>>

(* deliver: another attempt when its time has come, or one that overlaps   *)
(* an attempt under way.                                                   *)
StartDeliver(c, k) ==
  LET a == attemptOf[k]
      overlap == Calling(k) # {} IN
  /\ DeliverAt(c, "idle") /\ attemptOf[k].provider # "fake"
  /\ \/ a.status = "pending" \/ (a.status = "failed_retriable" /\ a.delay = 0)
     \/ a.status = "in_progress" /\ deliveryFaults < MaxDeliveryFaults
  /\ IF a.status = "in_progress"
     THEN excused' = (IF overlap THEN excused \cup {k} ELSE excused)
          /\ deliveryFaults' = deliveryFaults + 1
     ELSE UNCHANGED <<excused, deliveryFaults>>
  /\ IF Known(k) THEN Delivered(c, k)
     ELSE /\ deliverCall' = [deliverCall EXCEPT ![c] =
               [NoDeliver EXCEPT !.pc = "check", !.key = k, !.url = a.url]]
          /\ attemptOf' = [attemptOf EXCEPT ![k].status = "in_progress",
               ![k].attempt = IF a.status = "in_progress" THEN @ ELSE @ + 1]
  /\ UNCHANGED <<settledKeys, received, contacted>>

(* An e-mail address is only looked at for its shape.                      *)
DestinationOk(p, u) == IF p = "email" THEN u.host ELSE Check(u)

(* The guard, before any request.                                          *)
CheckDestination(c) ==
  LET k == deliverCall[c].key IN
  /\ DeliverAt(c, "check")
  /\ IF DestinationOk(attemptOf[k].provider, deliverCall[c].url)
     THEN deliverCall' = [deliverCall EXCEPT ![c].pc = "send"] /\ UNCHANGED attemptOf
     ELSE Failed(c, k, "permanent_validation")
  /\ UNCHANGED <<settledKeys, received, contacted, excused, deliveryFaults>>

(* The transport: the request arrives and is answered with status s.       *)
Accepted(s) == s \in 200..299
Transport(c, s) ==
  LET k == deliverCall[c].key IN
  /\ DeliverAt(c, "send")
  /\ contacted' = IF attemptOf[k].provider = "email" THEN contacted ELSE contacted \cup {deliverCall[c].url}
  /\ received' = [received EXCEPT ![k] = IF Accepted(s) THEN @ + 1 ELSE @]
  /\ deliverCall' = [deliverCall EXCEPT ![c].pc = "waiting", ![c].status = s]
  /\ UNCHANGED <<settledKeys, attemptOf, excused, deliveryFaults>>

(* settled.set: only after a success.                                      *)
Settles(k, s) == attemptOf[k].provider # "http" /\ Accepted(s)

(* Redirects are followed by a webhook that is configured to; the others   *)
(* follow none.                                                            *)
MayFollow(c) ==
  LET k == deliverCall[c].key IN
  attemptOf[k].provider = "webhook" /\ deliverCall[c].status \in 300..399 /\ deliverCall[c].hops < MaxRedirects

(* How a failure that came back is classified: an SMTP transport throws,   *)
(* and its message decides.                                                *)
FailureClasses(k, s) == IF attemptOf[k].provider = "email" THEN ClassesOfError ELSE {ClassOfStatus(s)}

(* The answer is back; a redirect that names no location is a failure.     *)
Respond(c) ==
  LET k == deliverCall[c].key
      s == deliverCall[c].status IN
  /\ DeliverAt(c, "waiting")
  /\ \/ \E u \in DeliveryUrls :
          /\ MayFollow(c)
          /\ deliverCall' = [deliverCall EXCEPT ![c].pc = "redirect", ![c].url = u]
          /\ UNCHANGED <<attemptOf, settledKeys>>
     \/ /\ settledKeys' = IF Settles(k, s) THEN settledKeys \cup {k} ELSE settledKeys
        /\ IF Accepted(s) THEN Delivered(c, k) ELSE \E cls \in FailureClasses(k, s) : Failed(c, k, cls)
  /\ UNCHANGED <<received, contacted, excused, deliveryFaults>>

(* The redirect's target is checked like the first one; the refusal is     *)
(* caught with the transport's errors and classified by its message.       *)
FollowRedirect(c) ==
  /\ DeliverAt(c, "redirect")
  /\ IF CheckRedirect(deliverCall[c].url)
     THEN deliverCall' = [deliverCall EXCEPT ![c].pc = "send", ![c].hops = @ + 1] /\ UNCHANGED attemptOf
     ELSE Failed(c, deliverCall[c].key, ClassOfRefusal(deliverCall[c].url))
  /\ UNCHANGED <<settledKeys, received, contacted, excused, deliveryFaults>>

(* The caller fails to write the success down: to its record the attempt   *)
(* is still under way, and will be made again.                             *)
SuccessUnrecorded(c) ==
  LET k == deliverCall[c].key IN
  /\ DeliverAt(c, "waiting") /\ deliveryFaults < MaxDeliveryFaults
  /\ Accepted(deliverCall[c].status)
  /\ deliveryFaults' = deliveryFaults + 1
  /\ settledKeys' = IF Settles(k, deliverCall[c].status) THEN settledKeys \cup {k} ELSE settledKeys
  /\ excused' = IF attemptOf[k].provider = "http" THEN excused \cup {k} ELSE excused
  /\ deliverCall' = [deliverCall EXCEPT ![c] = NoDeliver]
  /\ UNCHANGED <<attemptOf, received, contacted>>

(* A timeout or a broken connection: the request may have been accepted.   *)
AnswerLost(c, cls) ==
  LET k == deliverCall[c].key IN
  /\ DeliverAt(c, "waiting") /\ deliveryFaults < MaxDeliveryFaults
  /\ deliveryFaults' = deliveryFaults + 1
  /\ excused' = excused \cup {k}
  /\ Failed(c, k, cls)
  /\ UNCHANGED <<settledKeys, received, contacted>>

(* FakeDeliveryProvider looks up, counts and settles without an await.     *)
FakeDeliver(k, fails) ==
  /\ attemptOf[k].provider = "fake" /\ attemptOf[k].status \in {"pending", "failed_retriable"}
  /\ LET n == attemptOf[k].attempt + 1 IN
     IF fails /\ ~Known(k)
     THEN /\ \E d \in NextDelay(n, "unknown_uncertain") :
               attemptOf' = [attemptOf EXCEPT ![k] =
                 [@ EXCEPT !.status = IF d = -1 THEN "failed_terminal" ELSE "failed_retriable",
                           !.attempt = n, !.delay = IF d = -1 THEN 0 ELSE d]]
          /\ UNCHANGED <<settledKeys, received>>
     ELSE /\ settledKeys' = settledKeys \cup {k}
          /\ received' = [received EXCEPT ![k] = IF Known(k) THEN @ ELSE @ + 1]
          /\ attemptOf' = [attemptOf EXCEPT ![k].status = "delivered", ![k].attempt = n]
  /\ UNCHANGED <<deliverCall, contacted, excused, deliveryFaults>>

(* nextRetryAt comes nearer.                                               *)
DelayPasses(k) ==
  /\ attemptOf[k].delay > 0
  /\ attemptOf' = [attemptOf EXCEPT ![k].delay = 0]
  /\ UNCHANGED <<settledKeys, deliverCall, received, contacted, excused, deliveryFaults>>

(* The process restarts: the settled maps and the calls are gone, the      *)
(* records say what was under way.                                         *)
DeliveryRestart ==
  /\ deliveryFaults < MaxDeliveryFaults
  /\ deliveryFaults' = deliveryFaults + 1
  /\ settledKeys' = {}
  /\ deliverCall' = [c \in DeliveryCalls |-> NoDeliver]
  /\ excused' = excused \cup {k \in DeliveryKeys : attemptOf[k].status = "in_progress" \/ Calling(k) # {}}
  /\ UNCHANGED <<attemptOf, received, contacted>>

DeliveryNext ==
  \/ \E c \in DeliveryCalls :
       \/ \E k \in DeliveryKeys : StartDeliver(c, k)
       \/ CheckDestination(c)
       \/ \E s \in {200, 302, 404, 503} : Transport(c, s)
       \/ Respond(c) \/ FollowRedirect(c) \/ SuccessUnrecorded(c)
       \/ \E cls \in ClassesOfError : AnswerLost(c, cls)
  \/ \E k \in DeliveryKeys : DelayPasses(k) \/ (\E f \in BOOLEAN : FakeDeliver(k, f))
                              \/ \E p \in DeliveryProviders, u \in DeliveryUrls : Schedule(k, p, u)
  \/ DeliveryRestart

-----------------------------------------------------------------------------
(* A destination accepts the same key twice only if two calls overlapped,  *)
(* an answer was lost, or the process restarted with the attempt under way *)
(* (or the client keeps no keys at all): within a process the providers'   *)
(* settled maps keep a retry from repeating the side effect, even when the *)
(* caller failed to write the first success down.                          *)
DuplicateHasCause == \A k \in DeliveryKeys : received[k] > 1 => k \in excused

(* What is answered as delivered was accepted by a destination, through    *)
(* memo, redirect, overlap and restart.                                    *)
DeliveredWasReceived == \A k \in DeliveryKeys : attemptOf[k].status = "delivered" => received[k] > 0

(* An address inside the networks the guard is to keep out of, mapped      *)
(* ones too.                                                               *)
Internal(ip) == IF ip.v = 6 /\ ip.kind # "mapped" THEN PrivateV6(ip.kind) ELSE PrivateV4(ip.a, ip.b)

(* No request goes to a destination the guard refuses, wherever a redirect *)
(* points (SsrfGuard.check, checkRedirect; addresses as the guard resolved *)
(* them), and so none to an internal address, but for the mapped ones:     *)
(* ssrf.ts:9 says those are rejected, and only the mapped metadata host is.*)
OnlyCheckedContacted ==
  \A u \in contacted :
    /\ Check(u)
    /\ \A ip \in u.addrs : Internal(ip) => ip.kind = "mapped" /\ ~ip.metadata

(* A delivery is attempted at most maxAttempts times, and one that ended   *)
(* in a class that is not retriable is never attempted again.              *)
AttemptsEnd ==
  [][\A k \in DeliveryKeys :
       /\ attemptOf'[k].attempt <= MaxDeliveryAttempts
       /\ attemptOf[k].status = "failed_terminal" => attemptOf'[k].attempt = attemptOf[k].attempt]_deliveryVars
=============================================================================
