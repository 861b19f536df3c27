----------------------------- MODULE MCDelivery -----------------------------
(***************************************************************************)
(* Bounded instances of the two queues of what leaves the server, the mail *)
(* outbox and the webhook deliveries, which share no row but the owners.   *)
(* Both modules are extended, with the constants of Delivery.cfg.  One     *)
(* behaviour plays one scene: one queue moves while the other rests in its *)
(* initial state, and a scene keeps to a part of what may happen, so that  *)
(* it goes deep there.                                                     *)
(***************************************************************************)
EXTENDS MailDelivery, WebhookDelivery, TLC

CONSTANTS w1, w2, c1, c2, e1, v1, v2

VARIABLE scene

vars == <<scene, now, owner, login, challenge, outbox, smtp, worker, relay, endpoint,
           secret, sealing, event, delivery, attempts, sender, received>>

\* Every login's mail goes to one address; the endpoint has one too.
Recipient == [l \in Login |-> "recipient"]
Url == [e \in Endpoint |-> "url"]

ASSUME DeliveryAssumption == MailAssumption /\ WebhookAssumption

\* One login, whose one message is queued at once.
OneMessage ==
    /\ login'["l2"].status = "none" /\ challenge'[<<"l1", 2>>].status = "none"
    /\ challenge'[<<"l1", 1>>].status = "none" => now' = 0

OnlyRevised(S) ==
    owner' # owner =>
        /\ \A o \in Owners \ S : UNCHANGED owner[o]
        /\ owner'["project"].status # "disabled"

\* One message, two workers that stop anywhere, and an operator who withdraws the email
\* method.
MailWorkers ==
    /\ OneMessage /\ UNCHANGED smtp /\ OnlyRevised({"email"}) /\ now' <= 3
    /\ owner' # owner => \E w \in Worker : HoldsClaim(w)

\* Two logins of one recipient, two generations each, whose messages wait until they
\* expire or are superseded; readings of the clock may be old.
MailRecipients == UNCHANGED <<owner, smtp, worker>>

\* One message and the configurations it may be sent with: replaced, disabled, retired,
\* and the credential erased, by the cleanup or with the Project, while a worker holds
\* the message.
MailSmtp ==
    /\ OneMessage /\ OnlyRevised({"project"}) /\ now' <= 2
    /\ owner' # owner => \E w \in Worker : HoldsClaim(w)
    /\ ProjectDeleted => UNCHANGED <<now, smtp>>
    /\ \A j \in Job : outbox'[j].attempts <= 1
    /\ Cardinality({w \in Worker : worker'[w].pc \notin {"idle", "cleaning"}}) <= 1

\* Two events of an active endpoint and two workers whose leases run out; the
\* Application may be disabled meanwhile.
WebhookWorkers ==
    /\ secret'[<<e1, 2>>] = NoSecret /\ OnlyRevised({"application"})
    /\ endpoint'[e1].revision = 3 \/ ~OwnersActive'
    /\ \A w \in Sender : sender'[w].pc # "cleaning" /\ sender'[w].outcome # "permanent"
    /\ owner' # owner => InFlight(e1) # {}
    /\ now' <= 2

\* One endpoint whose secret is rotated twice, abandoned, retired and erased around the
\* delivery of one event by one worker; the Project may be deleted under a
\* delivery in flight while a secret is being sealed.
WebhookSecrets ==
    /\ Cardinality({v \in Event : event'[v].status # "none"}) <= 1
    /\ Cardinality({w \in Sender : sender'[w] # IdleSender}) <= 1
    /\ \A d \in Delivery : delivery'[d].attempt <= 1 /\ received'[d] = {}
    /\ endpoint'[e1].revision # endpoint[e1].revision =>
          endpoint'[e1].current # endpoint[e1].current
    /\ endpoint'[e1].subscribed /\ OnlyRevised({"project"}) /\ now' <= 1
    /\ owner' # owner => InFlight(e1) # {} /\ sealing # {}
    /\ ProjectDeleted => UNCHANGED now

Init ==
    /\ MailInit /\ WebhookInit
    /\ scene \in {"mail_workers", "mail_recipients", "mail_smtp",
                  "webhook_workers", "webhook_secrets"}
    /\ smtp[c1].status = "active"

Next ==
    /\ \/ /\ scene \in {"mail_workers", "mail_recipients", "mail_smtp"}
          /\ MailNext /\ WebhooksFollow
          /\ \/ scene = "mail_workers" /\ MailWorkers
             \/ scene = "mail_recipients" /\ MailRecipients
             \/ scene = "mail_smtp" /\ MailSmtp
       \/ /\ scene \in {"webhook_workers", "webhook_secrets"}
          /\ WebhookNext /\ UNCHANGED mailVars
          /\ \/ scene = "webhook_workers" /\ WebhookWorkers
             \/ scene = "webhook_secrets" /\ WebhookSecrets
    /\ UNCHANGED scene

Spec == Init /\ [][Next]_vars

\* Workers are interchangeable, and so are events.
Symmetry == Permutations({w1, w2}) \cup Permutations({v1, v2})
=============================================================================
