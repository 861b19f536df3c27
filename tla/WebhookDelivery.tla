-------------------------- MODULE WebhookDelivery ---------------------------
(***************************************************************************)
(* Webhooks: the endpoints an Application registers, the secrets that sign *)
(* what is sent to them, the events that are queued for them, and the      *)
(* workers that deliver the events and erase the secrets out of use.       *)
(*                                                                         *)
(* A delivery is an event, an endpoint and a replay number.  A worker has  *)
(* no deadline of its own against its lease: it may post and report long   *)
(* after the delivery was taken back.  A secret generation goes through    *)
(* pending, active, overlap and retired; its protected material is         *)
(* reserved, written by a later transaction of the same command and erased *)
(* by a worker, so that the three can meet in any order.                   *)
(*                                                                         *)
(* The endpoint's own server is outside: it may have received a post       *)
(* whether or not the worker hears of it.                                  *)
(***************************************************************************)
EXTENDS ControlPlane, FiniteSets

CONSTANTS
    Endpoint, Event, Sender,
    Registered,          \* the endpoints that are active from the start
    UrlOf,               \* UrlOf[e]: the address the endpoint is registered for
    Generations,         \* bound on an endpoint's secret generations
    Replays,             \* bound on the replays of an event
    MaxEndpoints,        \* MAX_WEBHOOK_ENDPOINTS_PER_APPLICATION
    MaxDeliveryAttempts,         \* MAX_WEBHOOK_DELIVERY_ATTEMPTS
    MaxSealing,          \* bound on the secrets being sealed at once
    MaxEndpointRevision, \* bound on an endpoint's revision
    Lease, DeliveryRetryDelay, OverlapWindow, ReplayWindow, Retention,
    LastEvent            \* bound: no event happens later

WebhookAssumption ==
    /\ {Generations, MaxEndpoints, MaxDeliveryAttempts, MaxEndpointRevision, Lease,
        OverlapWindow} \subseteq Nat \ {0}
    /\ {Replays, MaxSealing, DeliveryRetryDelay, ReplayWindow, Retention, LastEvent}
          \subseteq Nat
    /\ ReplayWindow < Retention
    /\ Endpoint \subseteq DOMAIN UrlOf /\ Registered \subseteq Endpoint
    /\ "none" \notin Sender

VARIABLES
    endpoint,  \* webhook_endpoints
    secret,    \* webhook_secret_generations, with the material and its cleanup
    sealing,   \* prepared secrets on their way to finalize_protected_secret
    event,     \* application_user_events
    delivery,  \* webhook_deliveries
    attempts,  \* webhook_delivery_attempts: the outcome of each recorded attempt
    sender,    \* the workers' memory
    received   \* received[d]: the attempts whose post reached the endpoint

webhookVars == <<endpoint, secret, sealing, event, delivery, attempts, sender, received>>
webhookAllVars == <<controlVars, webhookVars>>

SecretGeneration == 1..Generations
Delivery == Event \X Endpoint \X (0..Replays)
DeliveryAttempt == 1..MaxDeliveryAttempts
PostOutcome == {"accepted", "transient", "permanent", "ambiguous"}
Retryable == {"transient", "ambiguous"}
InUse == {"pending", "active", "overlap"}
SettledDelivery == {"delivered", "terminal", "cancelled"}

EndpointRow == [status : {"none", "pending", "active", "disabled"}, revision : Nat,
                tested : BOOLEAN, subscribed : BOOLEAN, current : 0..Generations,
                overlap : 0..Generations, overlapExpires : Nat]
SecretRow == [state : InUse \cup {"none", "retired"}, provisioned : BOOLEAN,
              material : {"none", "pending", "live", "erased"},
              cleanup : {"none", "pending", "leased", "erased"}, notBefore : Nat,
              cleaner : Sender \cup {"none"}, cleanupTerm : Nat, cleanupExpires : Nat]
EventRow == [status : {"none", "stored", "deleted"}, occurred : Nat]
DeliveryRow == [state : SettledDelivery \cup {"none", "pending", "leased", "deleted"},
                attempt : 0..MaxDeliveryAttempts, term : Nat, next : Nat,
                owner : Sender \cup {"none"}, leaseExpires : Nat,
                current : 0..Generations, overlap : 0..Generations, replayOf : 0..Replays]
SenderRow == [pc : {"idle", "claimed", "finishing", "cleaning"}, started : Nat,
              job : Delivery \cup {<<>>}, attempt : 0..MaxDeliveryAttempts, term : Nat,
              signs : SUBSET SecretGeneration, outcome : PostOutcome,
              cleans : (Endpoint \X SecretGeneration) \cup {<<>>}]

WebhookTypeOK ==
    /\ ControlTypeOK
    /\ endpoint \in [Endpoint -> EndpointRow]
    /\ secret \in [Endpoint \X SecretGeneration -> SecretRow]
    /\ sealing \subseteq [endpoint : Endpoint, generation : SecretGeneration, revision : Nat]
    /\ event \in [Event -> EventRow]
    /\ delivery \in [Delivery -> DeliveryRow]
    /\ attempts \in [Delivery -> [DeliveryAttempt -> PostOutcome \cup {"none"}]]
    /\ sender \in [Sender -> SenderRow]
    /\ received \in [Delivery -> SUBSET DeliveryAttempt]

IdleSender == [pc |-> "idle", started |-> 0, job |-> <<>>, attempt |-> 0, term |-> 0,
         signs |-> {}, outcome |-> "transient", cleans |-> <<>>]
NoDelivery == [state |-> "none", attempt |-> 0, term |-> 0, next |-> 0, owner |-> "none",
               leaseExpires |-> 0, current |-> 0, overlap |-> 0, replayOf |-> 0]
NoSecret == [state |-> "none", provisioned |-> FALSE, material |-> "none",
             cleanup |-> "none", notBefore |-> 0, cleaner |-> "none",
             cleanupTerm |-> 0, cleanupExpires |-> 0]
NoEndpoint == [status |-> "none", revision |-> 0, tested |-> FALSE, subscribed |-> FALSE,
               current |-> 0, overlap |-> 0, overlapExpires |-> 0]

\* A registered endpoint was prepared, tested and activated.
WebhookInit ==
    /\ ControlInit
    /\ endpoint = [e \in Endpoint |->
                     IF e \in Registered
                     THEN [NoEndpoint EXCEPT !.status = "active", !.revision = 3, !.tested = TRUE,
                                             !.subscribed = TRUE, !.current = 1]
                     ELSE NoEndpoint]
    /\ secret = [s \in Endpoint \X SecretGeneration |->
                   IF s[1] \in Registered /\ s[2] = 1
                   THEN [NoSecret EXCEPT !.state = "active", !.provisioned = TRUE,
                                         !.material = "live"]
                   ELSE NoSecret]
    /\ sealing = {}
    /\ event = [v \in Event |-> [status |-> "none", occurred |-> 0]]
    /\ delivery = [d \in Delivery |-> NoDelivery]
    /\ attempts = [d \in Delivery |-> [a \in DeliveryAttempt |-> "none"]]
    /\ sender = [w \in Sender |-> IdleSender]
    /\ received = [d \in Delivery |-> {}]

OwnersActive == Active("project") /\ Active("application")
ReplayUntil(v) == event[v].occurred + ReplayWindow
RetainUntil(v) == event[v].occurred + Retention
EventOf(d) == d[1]
EndpointOf(d) == d[2]
DeliveriesUnchanged == UNCHANGED <<event, delivery, attempts, received>>

-----------------------------------------------------------------------------
(* Endpoints.  Every command holds the Application row exclusively, so     *)
(* that commands and claims of one Application happen one after another.   *)

\* The command may begin to seal the secret, and may end right here.
BeginSealing(e, g, revision) ==
    \/ UNCHANGED sealing
    \/ /\ Cardinality(sealing) < MaxSealing
       /\ sealing' = sealing \cup {[endpoint |-> e, generation |-> g, revision |-> revision]}

PrepareEndpoint(e) ==
    LET taken == {f \in Endpoint : endpoint[f].status \in {"pending", "active"}}
    IN  /\ OwnersActive /\ endpoint[e].status = "none"
        /\ \A f \in taken : UrlOf[f] # UrlOf[e]
        /\ Cardinality(taken) < MaxEndpoints
        /\ endpoint' = [endpoint EXCEPT ![e] = [NoEndpoint EXCEPT !.status = "pending",
                                                  !.revision = 1, !.subscribed = TRUE]]
        /\ secret' = [secret EXCEPT ![<<e, 1>>] = [NoSecret EXCEPT !.state = "pending",
                                                                  !.material = "pending"]]
        /\ BeginSealing(e, 1, 1)
        /\ UNCHANGED <<controlVars, sender>> /\ DeliveriesUnchanged

\* secret_preparation_state: a repeated command seals again unless it need not.
PrepareEndpointAgain(e) ==
    /\ OwnersActive /\ endpoint[e].status = "pending"
    /\ secret[<<e, 1>>].state = "pending" /\ ~secret[<<e, 1>>].provisioned
    /\ BeginSealing(e, 1, endpoint[e].revision)
    /\ UNCHANGED <<controlVars, endpoint, secret, sender>> /\ DeliveriesUnchanged

\* finalize_pending_material: what was erased before it was written stays erased.
FinalizePendingMaterial(material) == IF material = "pending" THEN "live" ELSE material

\* The command works on the revision it was prepared at; a generation that was
\* abandoned in between gets its material, which the cleanup then erases.
FinalizeProtectedSecret(c) ==
    LET s == <<c.endpoint, c.generation>>
    IN  /\ c \in sealing
        /\ sealing' = sealing \ {c}
        /\ secret' =
             IF /\ OwnersActive /\ endpoint[c.endpoint].revision = c.revision
                /\ secret[s].state # "none"
             THEN [secret EXCEPT
                     ![s].material = FinalizePendingMaterial(@),
                     ![s].provisioned = @ \/ secret[s].state # "retired"]
             ELSE secret
        /\ UNCHANGED <<controlVars, endpoint, sender>> /\ DeliveriesUnchanged

Revised(e) == endpoint[e].revision < MaxEndpointRevision

RecordEndpointTestSuccess(e) ==
    /\ endpoint[e].status \in {"pending", "active"} /\ OwnersActive /\ Revised(e)
    /\ endpoint' = [endpoint EXCEPT ![e].tested = TRUE, ![e].revision = @ + 1]
    /\ UNCHANGED <<controlVars, secret, sealing, sender>> /\ DeliveriesUnchanged

ActivatePreparedEndpoint(e) ==
    /\ OwnersActive /\ endpoint[e].status = "pending" /\ endpoint[e].tested /\ Revised(e)
    /\ secret[<<e, 1>>].state = "pending" /\ secret[<<e, 1>>].provisioned
    /\ endpoint' = [endpoint EXCEPT ![e].status = "active", ![e].current = 1,
                                    ![e].revision = @ + 1]
    /\ secret' = [secret EXCEPT ![<<e, 1>>].state = "active"]
    /\ UNCHANGED <<controlVars, sealing, sender>> /\ DeliveriesUnchanged

UpdateEndpoint(e) ==
    /\ OwnersActive /\ endpoint[e].status \in {"pending", "active"} /\ Revised(e)
    /\ \E b \in BOOLEAN :
          endpoint' = [endpoint EXCEPT ![e].subscribed = b, ![e].revision = @ + 1]
    /\ UNCHANGED <<controlVars, secret, sealing, sender>> /\ DeliveriesUnchanged

\* enqueue_secret_cleanup: an operation that exists already is left alone.
Retired(s, notBefore) ==
    IF s.cleanup = "none"
    THEN [s EXCEPT !.state = "retired", !.cleanup = "pending", !.notBefore = notBefore]
    ELSE [s EXCEPT !.state = "retired"]

\* The generations of e still in use; the overlap one is kept until its promise ends.
RetireSecrets(e, t) ==
    [s \in Endpoint \X SecretGeneration |->
        IF s[1] # e \/ secret[s].state \notin InUse THEN secret[s]
        ELSE Retired(secret[s],
                     IF s[2] = endpoint[e].overlap THEN endpoint[e].overlapExpires ELSE t)]

Disabled(row) ==
    [row EXCEPT !.status = "disabled", !.current = 0, !.overlap = 0, !.overlapExpires = 0,
                !.revision = IF row.status = "disabled" THEN @ ELSE @ + 1]

DisableEndpoint(e, t) ==
    /\ OwnersActive /\ endpoint[e].status \in {"pending", "active"} /\ Revised(e)
    /\ secret' = RetireSecrets(e, t)
    /\ endpoint' = [endpoint EXCEPT ![e] = Disabled(@)]
    /\ UNCHANGED <<controlVars, sealing, sender>> /\ DeliveriesUnchanged

-----------------------------------------------------------------------------
(* Rotation of an endpoint's secret *)

Latest(e) == CHOOSE g \in 0..Generations :
                /\ \A h \in SecretGeneration : h > g => secret[<<e, h>>].state = "none"
                /\ g > 0 => secret[<<e, g>>].state # "none"

\* A pending generation of an earlier command is abandoned, without a new revision.
PrepareSecretRotation(e, t) ==
    LET g == Latest(e) + 1
    IN  /\ OwnersActive /\ endpoint[e].status = "active" /\ g <= Generations
        /\ secret' = [s \in Endpoint \X SecretGeneration |->
                        IF s = <<e, g>>
                        THEN [NoSecret EXCEPT !.state = "pending", !.material = "pending"]
                        ELSE IF s[1] = e /\ secret[s].state = "pending"
                        THEN Retired(secret[s], t)
                        ELSE secret[s]]
        /\ BeginSealing(e, g, endpoint[e].revision)
        /\ UNCHANGED <<controlVars, endpoint, sender>> /\ DeliveriesUnchanged

PrepareSecretRotationAgain(e, g) ==
    /\ OwnersActive /\ endpoint[e].status = "active"
    /\ secret[<<e, g>>].state = "pending" /\ ~secret[<<e, g>>].provisioned
    /\ BeginSealing(e, g, endpoint[e].revision)
    /\ UNCHANGED <<controlVars, endpoint, secret, sender>> /\ DeliveriesUnchanged

\* The overlap that a rotation replaces has ended; until then it is refused.
OverlapOver(e) == endpoint[e].overlap = 0 \/ endpoint[e].overlapExpires <= now

ActivateSecretRotation(e, g) ==
    /\ OwnersActive /\ endpoint[e].status = "active" /\ Revised(e)
    /\ secret[<<e, g>>].state = "pending" /\ secret[<<e, g>>].provisioned
    /\ OverlapOver(e)
    /\ secret' = [s \in Endpoint \X SecretGeneration |->
                    CASE s = <<e, g>> -> [secret[s] EXCEPT !.state = "active"]
                      [] s = <<e, endpoint[e].current>> -> [secret[s] EXCEPT !.state = "overlap"]
                      [] s = <<e, endpoint[e].overlap>> ->
                            Retired(secret[s], endpoint[e].overlapExpires)
                      [] OTHER -> secret[s]]
    /\ endpoint' = [endpoint EXCEPT ![e].current = g, ![e].overlap = endpoint[e].current,
                                    ![e].overlapExpires = now + OverlapWindow,
                                    ![e].revision = @ + 1]
    /\ UNCHANGED <<controlVars, sealing, sender>> /\ DeliveriesUnchanged

EndpointCommand ==
    \/ \E e \in Endpoint :
          \/ PrepareEndpoint(e) \/ PrepareEndpointAgain(e) \/ RecordEndpointTestSuccess(e)
          \/ ActivatePreparedEndpoint(e) \/ UpdateEndpoint(e)
    \/ \E e \in Endpoint, t \in ClockReading : DisableEndpoint(e, t) \/ PrepareSecretRotation(e, t)
    \/ \E e \in Endpoint, g \in SecretGeneration :
          PrepareSecretRotationAgain(e, g) \/ ActivateSecretRotation(e, g)
    \/ \E c \in sealing : FinalizeProtectedSecret(c)

-----------------------------------------------------------------------------
(* Events and their deliveries *)

Queued(t) == [NoDelivery EXCEPT !.state = "pending", !.next = t]

\* append_projection_event, in the transaction of the change it reports.
AppendProjectionEvent(v) ==
    /\ OwnersActive /\ event[v].status = "none" /\ now <= LastEvent
    /\ event' = [event EXCEPT ![v] = [status |-> "stored", occurred |-> now]]
    /\ delivery' = [d \in Delivery |->
                      IF /\ EventOf(d) = v /\ d[3] = 0
                         /\ endpoint[EndpointOf(d)].status = "active"
                         /\ endpoint[EndpointOf(d)].subscribed
                      THEN Queued(now) ELSE delivery[d]]
    /\ UNCHANGED <<controlVars, endpoint, secret, sealing, attempts, sender, received>>

ReplayDelivery(d, t) ==
    LET v == EventOf(d)
        e == EndpointOf(d)
    IN  /\ OwnersActive /\ endpoint[e].status = "active"
        /\ delivery[d].state \notin {"none", "deleted"}
        /\ event[v].status = "stored" /\ ReplayUntil(v) > now
        /\ \E r \in 1..Replays :
              /\ delivery[<<v, e, r>>].state = "none"
              /\ \A q \in 0..(r - 1) : delivery[<<v, e, q>>].state # "none"
              /\ delivery' = [delivery EXCEPT ![<<v, e, r>>] = [Queued(t) EXCEPT !.replayOf = d[3]]]
        /\ UNCHANGED <<controlVars, endpoint, secret, sealing, event, attempts, sender, received>>

-----------------------------------------------------------------------------
(* Workers *)

\* The row is given back: by its worker, or by the recovery.
GivenBack(row, state, next) ==
    [row EXCEPT !.state = state, !.next = next, !.owner = "none", !.leaseExpires = 0,
                !.current = 0, !.overlap = 0]

InFlight(e) == {d \in Delivery : EndpointOf(d) = e /\ delivery[d].state = "leased"}

\* find_claim_candidate: the earliest delivery of an endpoint that has none in flight.
Claimable(d, t) ==
    LET e == EndpointOf(d)
    IN  /\ delivery[d].state = "pending" /\ delivery[d].next <= t
        /\ OwnersActive /\ endpoint[e].status = "active"
        /\ InFlight(e) = {}
        /\ RetainUntil(EventOf(d)) > now
        /\ \A f \in Delivery :
              /\ EndpointOf(f) = e /\ delivery[f].state = "pending"
              /\ RetainUntil(EventOf(f)) > now
              => delivery[d].next <= delivery[f].next

\* t is the reading at the start of the round, from which the retry is counted too.
ClaimOne(w, d, t) ==
    LET e == EndpointOf(d)
        overlap == IF endpoint[e].overlapExpires > now THEN endpoint[e].overlap ELSE 0
        row == [delivery[d] EXCEPT
                  !.state = "leased", !.attempt = @ + 1, !.term = @ + 1, !.owner = w,
                  !.leaseExpires = now + Lease, !.current = endpoint[e].current,
                  !.overlap = overlap]
    IN  /\ sender[w].pc = "idle" /\ Claimable(d, t)
        /\ delivery' = [delivery EXCEPT ![d] = row]
        /\ sender' = [sender EXCEPT ![w] =
                        [IdleSender EXCEPT !.pc = "claimed", !.started = t, !.job = d,
                                           !.attempt = row.attempt, !.term = row.term,
                                           !.signs = {row.current, row.overlap} \ {0}]]
        /\ UNCHANGED <<controlVars, endpoint, secret, sealing, event, attempts, received>>

Reports(w, o) == sender' = [sender EXCEPT ![w].pc = "finishing", ![w].outcome = o]

\* resolve: every secret the claim names has to be live.
SecretsResolve(w) ==
    \A g \in sender[w].signs : secret[<<EndpointOf(sender[w].job), g>>].material = "live"

\* Before anything is sent: a secret that does not resolve, an address that is
\* refused or does not answer.
FailBeforePost(w) ==
    /\ sender[w].pc = "claimed"
    /\ \/ Reports(w, "transient")
       \/ SecretsResolve(w) /\ Reports(w, "permanent")
    /\ UNCHANGED <<controlVars, endpoint, secret, sealing, event, delivery, attempts, received>>

\* The request goes out, and reaches the endpoint or not; an answer classifies it.
Post(w) ==
    /\ sender[w].pc = "claimed" /\ SecretsResolve(w)
    /\ \/ /\ received' = [received EXCEPT ![sender[w].job] = @ \cup {sender[w].attempt}]
          /\ \E o \in PostOutcome : Reports(w, o)
       \/ UNCHANGED received /\ Reports(w, "ambiguous")
    /\ UNCHANGED <<controlVars, endpoint, secret, sealing, event, delivery, attempts>>

ClaimStandsMutant(w) == delivery[sender[w].job].state = "leased"

\* The worker's claim is the one the row knows of; the lease may have run out.
ClaimStands(w) ==
    LET row == delivery[sender[w].job]
    IN  /\ row.state = "leased" /\ row.owner = w
        /\ row.term = sender[w].term /\ row.attempt = sender[w].attempt

DeliverableNow(d) == OwnersActive /\ endpoint[EndpointOf(d)].status = "active"

Finish(w, t) ==
    LET d == sender[w].job
        o == sender[w].outcome
        retry == /\ o \in Retryable /\ DeliverableNow(d)
                 /\ delivery[d].attempt < MaxDeliveryAttempts
        state == CASE o = "accepted" -> "delivered"
                   [] retry -> "pending"
                   [] o \in Retryable /\ ~DeliverableNow(d) -> "cancelled"
                   [] OTHER -> "terminal"
        next == IF o \in Retryable /\ delivery[d].attempt < MaxDeliveryAttempts
                THEN sender[w].started + DeliveryRetryDelay ELSE t
    IN  /\ sender[w].pc = "finishing"
        /\ IF ClaimStands(w)
           THEN /\ attempts' = [attempts EXCEPT ![d][delivery[d].attempt] = o]
                /\ delivery' = [delivery EXCEPT ![d] = GivenBack(@, state, next)]
           ELSE UNCHANGED <<attempts, delivery>>
        /\ sender' = [sender EXCEPT ![w] = IdleSender]
        /\ UNCHANGED <<controlVars, endpoint, secret, sealing, event, received>>

\* A failed transaction or a stopped replica.
StopSender(w) ==
    /\ sender[w].pc # "idle"
    /\ sender' = [sender EXCEPT ![w] = IdleSender]
    /\ UNCHANGED <<controlVars, endpoint, secret, sealing, event, delivery, attempts, received>>

SenderStep ==
    \/ \E w \in Sender, d \in Delivery, t \in ClockReading : ClaimOne(w, d, t)
    \/ \E w \in Sender : FailBeforePost(w) \/ Post(w) \/ StopSender(w)
    \/ \E w \in Sender, t \in ClockReading : Finish(w, t)

-----------------------------------------------------------------------------
(* Erasing secrets *)

UnusedMutant(e, g) == g \notin {endpoint[e].current, endpoint[e].overlap}

\* claim_secret_cleanup: no endpoint and no delivery in flight uses the secret.
Unused(e, g) ==
    /\ g \notin {endpoint[e].current, endpoint[e].overlap}
    /\ \A d \in InFlight(e) : g \notin {delivery[d].current, delivery[d].overlap}

ClaimSecretCleanup(w, e, g) ==
    LET s == secret[<<e, g>>]
    IN  /\ sender[w].pc = "idle" /\ s.state = "retired" /\ s.notBefore <= now
        /\ s.cleanup = "pending" \/ (s.cleanup = "leased" /\ s.cleanupExpires <= now)
        /\ Unused(e, g)
        /\ secret' = [secret EXCEPT ![<<e, g>>] =
                        [s EXCEPT !.cleanup = "leased", !.cleaner = w, !.cleanupTerm = @ + 1,
                                  !.cleanupExpires = now + Lease]]
        /\ sender' = [sender EXCEPT ![w] =
                        [IdleSender EXCEPT !.pc = "cleaning", !.term = s.cleanupTerm + 1,
                                           !.cleans = <<e, g>>]]
        /\ UNCHANGED <<controlVars, endpoint, sealing>> /\ DeliveriesUnchanged

FinishSecretCleanup(w) ==
    LET s == secret[sender[w].cleans]
    IN  /\ sender[w].pc = "cleaning"
        /\ secret' = IF /\ s.cleanup = "leased" /\ s.cleaner = w
                        /\ s.cleanupTerm = sender[w].term /\ s.cleanupExpires > now
                     THEN [secret EXCEPT ![sender[w].cleans] =
                             [s EXCEPT !.cleanup = "erased", !.material = "erased",
                                       !.cleaner = "none", !.cleanupExpires = 0]]
                     ELSE secret
        /\ sender' = [sender EXCEPT ![w] = IdleSender]
        /\ UNCHANGED <<controlVars, endpoint, sealing>> /\ DeliveriesUnchanged

CleanupStep ==
    \/ \E w \in Sender, e \in Endpoint, g \in SecretGeneration : ClaimSecretCleanup(w, e, g)
    \/ \E w \in Sender : FinishSecretCleanup(w)

-----------------------------------------------------------------------------
(* Maintenance, on every third round of a worker.  Each transaction works  *)
(* on a bounded number of rows; here on one.                               *)

\* A disabled Application or Project takes its endpoints with it, for good.
RetireDisabledOwnerEndpoint(e, t) ==
    /\ endpoint[e].status # "none" /\ (endpoint[e].status = "disabled" \/ ~OwnersActive)
    /\ \/ endpoint[e].current # 0 \/ endpoint[e].overlap # 0
       \/ \E g \in SecretGeneration : secret[<<e, g>>].state = "pending"
    /\ secret' = RetireSecrets(e, t)
    /\ endpoint' = [endpoint EXCEPT ![e] = Disabled(@)]
    /\ UNCHANGED <<controlVars, sealing, sender>> /\ DeliveriesUnchanged

RetireExpiredOverlap(e) ==
    LET g == endpoint[e].overlap
    IN  /\ endpoint[e].status = "active" /\ g # 0 /\ endpoint[e].overlapExpires <= now
        /\ secret' = [secret EXCEPT ![<<e, g>>] = Retired(@, endpoint[e].overlapExpires)]
        /\ endpoint' = [endpoint EXCEPT ![e].overlap = 0, ![e].overlapExpires = 0]
        /\ UNCHANGED <<controlVars, sealing, sender>> /\ DeliveriesUnchanged

RecoverExpiredDelivery(d, t) ==
    LET row == delivery[d]
        state == CASE ~DeliverableNow(d) -> "cancelled"
                   [] row.attempt >= MaxDeliveryAttempts -> "terminal"
                   [] OTHER -> "pending"
        next == IF row.next < t THEN row.next ELSE t
    IN  /\ row.state = "leased" /\ row.leaseExpires <= now
        /\ attempts' = [attempts EXCEPT ![d][row.attempt] = "ambiguous"]
        /\ delivery' = [delivery EXCEPT ![d] = GivenBack(row, state, next)]
        /\ UNCHANGED <<controlVars, endpoint, secret, sealing, event, sender, received>>

CancelDelivery(d) ==
    /\ delivery[d].state = "pending"
    /\ endpoint[EndpointOf(d)].status = "disabled" \/ RetainUntil(EventOf(d)) <= now
    /\ delivery' = [delivery EXCEPT ![d].state = "cancelled"]
    /\ UNCHANGED <<controlVars, endpoint, secret, sealing, event, attempts, sender, received>>

\* Its attempts go first; a delivery stays while one that replays it does.
PruneDelivery(d) ==
    /\ delivery[d].state \in SettledDelivery /\ RetainUntil(EventOf(d)) <= now
    /\ \A r \in 1..Replays :
          LET replay == delivery[<<EventOf(d), EndpointOf(d), r>>]
          IN  r # d[3] /\ replay.replayOf = d[3] => replay.state \in {"none", "deleted"}
    /\ delivery' = [delivery EXCEPT ![d].state = "deleted"]
    /\ attempts' = [attempts EXCEPT ![d] = [a \in DeliveryAttempt |-> "none"]]
    /\ UNCHANGED <<controlVars, endpoint, secret, sealing, event, sender, received>>

PruneEvent(v) ==
    /\ event[v].status = "stored" /\ RetainUntil(v) <= now
    /\ \A d \in Delivery : EventOf(d) = v => delivery[d].state \in {"none", "deleted"}
    /\ event' = [event EXCEPT ![v].status = "deleted"]
    /\ UNCHANGED <<controlVars, endpoint, secret, sealing, delivery, attempts, sender, received>>

Maintain ==
    \/ \E e \in Endpoint, t \in ClockReading : RetireDisabledOwnerEndpoint(e, t)
    \/ \E e \in Endpoint : RetireExpiredOverlap(e)
    \/ \E d \in Delivery, t \in ClockReading : RecoverExpiredDelivery(d, t)
    \/ \E d \in Delivery : CancelDelivery(d) \/ PruneDelivery(d)
    \/ \E v \in Event : PruneEvent(v)

-----------------------------------------------------------------------------
(* What commands on the owners take with them, in their own transaction *)

\* delete_project erases every protected material of the Project: secrets that are in
\* use, that are being sealed and that a delivery in flight was claimed with.
ProjectSecretsErased ==
    [s \in Endpoint \X SecretGeneration |->
        IF secret[s].material = "none" THEN secret[s]
        ELSE [secret[s] EXCEPT !.material = "erased"]]

\* disable_application: the endpoint keeps its secrets, which the maintenance retires.
ApplicationEndpointsDisabled ==
    [e \in Endpoint |->
        IF endpoint[e].status \in {"pending", "active"}
        THEN [endpoint[e] EXCEPT !.status = "disabled", !.revision = @ + 1]
        ELSE endpoint[e]]

ProjectDeleted == owner["project"].status = "closed"

WebhooksFollow ==
    /\ secret' = IF ~ProjectDeleted /\ ProjectDeleted' THEN ProjectSecretsErased ELSE secret
    /\ endpoint' = IF Active("application") /\ ~Active("application")'
                   THEN ApplicationEndpointsDisabled ELSE endpoint
    /\ UNCHANGED <<sealing, sender>> /\ DeliveriesUnchanged

WebhookNext ==
    \/ EndpointCommand \/ SenderStep \/ CleanupStep \/ Maintain
    \/ \E v \in Event : AppendProjectionEvent(v)
    \/ \E d \in Delivery, t \in ClockReading : ReplayDelivery(d, t)
    \/ ControlNext /\ WebhooksFollow

WebhookSpec == WebhookInit /\ [][WebhookNext]_webhookAllVars

\* run_webhook_worker: every replica's loop runs the maintenance on every third round.
PassDeliveryTime == Tick /\ UNCHANGED webhookVars

-----------------------------------------------------------------------------
(* Properties *)

\* claim_one, recover_one_expired_delivery: an endpoint gets one post at a time as far
\* as the database knows, also while the worker of an expired lease is still posting.
OneInFlight ==
    \A c, d \in Delivery :
        /\ delivery[c].state = "leased" /\ delivery[d].state = "leased"
        /\ EndpointOf(c) = EndpointOf(d)
        => c = d

\* disable_endpoint, activate_secret_rotation, claim_secret_cleanup: however secrets are
\* rotated, abandoned and retired, those a delivery in flight was claimed with are live;
\* only the deletion of the Project erases them under a lease.
ClaimedSecretsLive ==
    \A d \in Delivery : delivery[d].state = "leased" /\ ~ProjectDeleted =>
        \A g \in {delivery[d].current, delivery[d].overlap} \ {0} :
            secret[<<EndpointOf(d), g>>].material = "live"

\* finalize_protected_secret, finish_secret_cleanup: a secret out of use is on its way to
\* be erased, and one that was erased is not written again by a command that comes late.
NoSecretLeftBehind ==
    \A s \in Endpoint \X SecretGeneration :
        /\ secret[s].state = "retired" => secret[s].cleanup # "none"
        /\ secret[s].cleanup = "erased" => secret[s].material = "erased"

\* delete_project, finalize_protected_secret: once the Project is deleted nothing of its
\* secrets is left, and no command that sealed one before writes it afterwards.
DeletionLeavesNoSecret ==
    ProjectDeleted => \A s \in Endpoint \X SecretGeneration :
                          secret[s].material \in {"none", "erased"}

\* Until when a receiver may count on a secret that was replaced.
PromisedUntil(e, g) ==
    IF endpoint[e].overlap = g THEN endpoint[e].overlapExpires
    ELSE IF secret[<<e, g>>].state = "retired" THEN secret[<<e, g>>].notBefore ELSE 0

\* activate_secret_rotation, claim_one: what is claimed while the overlap of a replaced
\* secret runs is signed with that secret too, whatever rotations follow.
SignsForReceivers ==
    \A d \in Delivery : delivery[d].state = "pending" /\ delivery'[d].state = "leased" =>
        \A g \in SecretGeneration : PromisedUntil(EndpointOf(d), g) > now =>
            g \in {delivery'[d].current, delivery'[d].overlap}

\* disable_endpoint, retire_one_disabled_owner_endpoint: the material of a replaced
\* secret is kept to the end of its overlap, and that end is never brought forward; the
\* deletion of the Project alone erases it before.
OverlapPromiseKept ==
    \A e \in Endpoint, g \in SecretGeneration :
        secret[<<e, g>>].state \in {"overlap", "retired"} =>
            /\ PromisedUntil(e, g)' >= PromisedUntil(e, g)
            /\ secret[<<e, g>>].material # "erased" /\ secret'[<<e, g>>].material = "erased"
               => PromisedUntil(e, g) <= now \/ ProjectDeleted'

OverlapHonoured == SignsForReceivers /\ OverlapPromiseKept

\* finish, recover_one_expired_delivery: every attempt is recorded once, by whoever ends
\* it first; a delivery counts as delivered only if that attempt was received.
AttemptsAccounted ==
    \A d \in Delivery : delivery[d].state # "deleted" =>
        /\ \A a \in DeliveryAttempt :
              attempts[d][a] # "none" <=>
                 IF delivery[d].state = "leased" THEN a < delivery[d].attempt
                                                 ELSE a <= delivery[d].attempt
        /\ \A a \in DeliveryAttempt : attempts[d][a] = "accepted" =>
              a = delivery[d].attempt /\ delivery[d].state = "delivered" /\ a \in received[d]
        /\ delivery[d].state = "delivered" => attempts[d][delivery[d].attempt] = "accepted"

WebhookSafe ==
    /\ WebhookTypeOK /\ OneInFlight /\ ClaimedSecretsLive
    /\ NoSecretLeftBehind /\ DeletionLeavesNoSecret /\ AttemptsAccounted

\* maintain: every delivery is settled and removed, whatever workers do and even when
\* the endpoint or its Application is disabled while a post is under way.
DeliveryOpen == \E d \in Delivery : delivery[d].state \notin {"none", "deleted"}

-----------------------------------------------------------------------------
(* Deliveries as leased work *)

DeliveryItem(d) ==
    CASE delivery[d].state = "none" -> "absent"
      [] delivery[d].state = "pending" -> "open"
      [] delivery[d].state = "leased" -> "held"
      [] OTHER -> "done"

DeliveryLeases == INSTANCE LeasedWork
    WITH Item <- Delivery, Worker <- Sender,
         item <- [d \in Delivery |-> [state |-> DeliveryItem(d), term |-> delivery[d].term]],
         claim <- [w \in Sender |->
                     IF sender[w].pc \in {"claimed", "finishing"}
                     THEN <<sender[w].job, sender[w].term>> ELSE <<>>]

\* claim_one, finish: lease_generation is the term of a lease.  A worker that reports
\* after its delivery was taken back, or given to another, changes nothing.
KeepsDeliveryLease == [DeliveryLeases!LeasedNext]_(DeliveryLeases!leasedVars)

\* claim_one, finish, activate_secret_rotation: deliveries keep the lease discipline, what
\* is claimed while the overlap of a replaced secret runs is signed with that secret too,
\* and the end of an overlap is never brought forward.
KeepsDeliveries == [][KeepsDeliveryLease /\ OverlapHonoured]_webhookAllVars
=============================================================================
