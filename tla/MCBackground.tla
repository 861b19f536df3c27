---------------------------- MODULE MCBackground ----------------------------
(***************************************************************************)
(* Bounded instances of the components in which something must eventually  *)
(* happen although a process may stop between any two steps and no         *)
(* browser, provider or receiver need ever answer: what was begun is ended *)
(* by a loop that every replica runs. One behaviour plays one scene: the   *)
(* component of the scene is on stage and the variables of the others have *)
(* the value Off. A variable that two components call by the same name     *)
(* belongs to the one on stage.                                            *)
(***************************************************************************)
EXTENDS Naturals, TLC

CONSTANTS None, origin, Off

VARIABLES
    scene,
    \* LoginTransaction
    now, owner, login, challenge, ticket, callback,
    \* MailDelivery
    outbox, smtp, worker, relay,
    \* WebhookDelivery
    sender, endpoint, secret, sealing, event, delivery, attempts, received,
    \* ManagedConnection
    connection, credential, operation, budget, presented, revoked,
    \* ManagedReauthorization
    interaction, created, exchange, severed,
    \* IdentityMutation
    kind, method, intent, slot, receipt, evidence, prepared, accepted,
    \* MagicTransfer
    clock, context, attempt, winner,
    \* CustodyInventory
    row, revision, scan, outages,
    \* ServerProcess
    phase, result, pools, bound, ready, server, open, shutdown, maintenance

vars == <<scene, now, owner, login, challenge, ticket, callback, outbox, smtp, worker,
           relay, sender, endpoint, secret, sealing, event, delivery, attempts, received,
           connection, credential, operation, budget, presented, revoked, interaction,
           created, exchange, severed, kind, method, intent, slot, receipt, evidence,
           prepared, accepted, clock, context, attempt, winner, row, revision, scan,
           outages, phase, result, pools, bound, ready, server, open, shutdown, maintenance>>

\* What the instances have in common.
MaxOwnerRevision == 2
LastStart == 0
RetryDelay == 1
RecipientOf == [l \in {"l1"} |-> "recipient"]
ClaimLease == 2
CompletionReserve == 1
BacklogLimit == 1
Endpoint == {"e1"}
UrlOf == [e \in Endpoint |-> "url"]
MaxEndpoints == 1
MaxSealing == 1
OverlapWindow == 1
ReplayWindow == 1
LastEvent == 0
Revocable == TRUE
Lease == 1
RenewalInterval == 1
CodeLife == 2
Origin == origin
MaxContexts == 2
Validity == 2
OwnerDeadline == 3
Materials == {1, 2, 3}
Kind == [m \in Materials |-> "configuration_secret"]
Format == [m \in Materials |-> "v1"]
Signers == {"v1"}
Openers == {"v1"}
Seals == {"own", "foreign"}
StartLive == {1}
Rounds == 3
MaxOutages == 0

\* Callbacks that stop with the login claimed; the clock outruns every claim.
ALogin == INSTANCE LoginTransaction
    WITH Login <- {"l1"}, Callback <- {"c1", "c2"}, Volatile <- {"egress"}, MaxTime <- 5,
         MaxClockLag <- 1, LoginLifetime <- 2, HandoffLifetime <- 1, AbandonAfter <- 1,
         ChallengeLifetime <- 1, ResendAfter <- 0, MaxGenerations <- 1, OtpMaxAttempts <- 1

\* A message whose worker may stop for good; the clock outruns its use and every lease.
AMail == INSTANCE MailDelivery
    WITH Login <- {"l1"}, Worker <- {"w1"}, Smtp <- {"c1"}, ProjectSmtp <- {"c1"},
         SmtpVolatile <- {}, Volatile <- {"email"}, MaxTime <- 5, MaxClockLag <- 0,
         MaxGenerations <- 1, MaxAttempts <- 2, ResendAfter <- 1, LoginLifetime <- 3,
         ChallengeLifetime <- 2, SmtpRetention <- 2

\* An event of an endpoint registered meanwhile, replayed once; the clock outruns
\* retention and leases.
AWebhook == INSTANCE WebhookDelivery
    WITH Event <- {"v1"}, Sender <- {"w1"}, Registered <- {}, Generations <- 1,
         Replays <- 1, MaxDeliveryAttempts <- 1, DeliveryRetryDelay <- 1,
         MaxEndpointRevision <- 3, Lease <- 1, Retention <- 2, Volatile <- {"application"},
         MaxTime <- 4, MaxClockLag <- 0

\* A worker that stops with a revocation under way.
AManaged == INSTANCE ManagedConnection
    WITH Connection <- {"c1"}, Connected <- {"c1"}, Worker <- {"w1"}, Generations <- 2,
         MaxRevision <- 3, ReplayModes <- {TRUE, FALSE}, ReadRetrySafe <- TRUE,
         LastClaim <- 1, Volatile <- {"user"}, MaxTime <- 3, MaxClockLag <- 0

\* An interaction whose browser or handler may never come back.
AReauth == INSTANCE ManagedReauthorization
    WITH Connection <- {"c1"}, Connected <- {"c1"}, Worker <- {"w1"}, Generations <- 2,
         MaxRevision <- 3, ReplayModes <- {FALSE}, ReadRetrySafe <- FALSE, LastClaim <- 0,
         Volatile <- {"user"}, MaxTime <- 2, MaxClockLag <- 0, Interaction <- {"s1"},
         InteractionLife <- 1, LastCreate <- 0

\* An identity mutation whose user may walk away from any step.
AMutation == INSTANCE IdentityMutation
    WITH MaxAttempts <- 2, Kinds <- {"unlink"}, Methods <- {"provider", "email"},
         Volatile <- {}, MaxTime <- 3, MaxClockLag <- 0, IntentLife <- 3, ReceiptLife <- 2,
         MaxGenerations <- 1, MaxIntentRevision <- 8, ResendAfter <- 1

\* Links opened in two browsers and then forgotten.
AMagic == INSTANCE MagicTransfer
    WITH Owner <- "login", Contexts <- {"c1", "c2"}, Holders <- {origin, "b1"},
         MaxGeneration <- 1, ContextTtl <- 1, MaxClockLag <- 1, MaxTime <- 4

\* Materials that are added and erased while a starting process reads them page by page.
AnInventory == INSTANCE CustodyInventory
    WITH Materials <- Materials, PageSize <- 1, MaxChanges <- 4

\* Clients that never close their connection, and a listener that fails.
AProcess == INSTANCE ServerProcess
    WITH Planes <- {"auth", "control"}, Workers <- {"mail", "managed_sync"},
         MaxConnections <- 1, MailBatch <- 1, OtherBatch <- 1, MaxTicks <- 1

ASSUME BackgroundAssumption ==
    /\ AMail!MailAssumption
    /\ AWebhook!WebhookAssumption
    /\ AManaged!ManagedAssumption
    /\ AReauth!ReauthorizationAssumption
    /\ AMutation!MutationAssumption
    /\ AMagic!MagicAssumption
    /\ AnInventory!InventoryAssumption
    /\ AProcess!ProcessAssumption

\* The variables of the components that are off stage, and that they have no value.
offLogin == <<outbox, smtp, worker, relay, sender, endpoint, secret, sealing, event,
              delivery, attempts, received, connection, credential, operation, budget,
              presented, revoked, interaction, created, exchange, severed, kind, method,
              intent, slot, receipt, evidence, prepared, accepted, clock, context, attempt,
              winner, row, revision, scan, outages, phase, result, pools, bound, ready,
              server, open, shutdown, maintenance>>
LoginAlone == outbox = Off /\ smtp = Off /\ worker = Off /\ relay = Off /\ sender = Off /\
              endpoint = Off /\ secret = Off /\ sealing = Off /\ event = Off /\
              delivery = Off /\ attempts = Off /\ received = Off /\ connection = Off /\
              credential = Off /\ operation = Off /\ budget = Off /\ presented = Off /\
              revoked = Off /\ interaction = Off /\ created = Off /\ exchange = Off /\
              severed = Off /\ kind = Off /\ method = Off /\ intent = Off /\ slot = Off /\
              receipt = Off /\ evidence = Off /\ prepared = Off /\ accepted = Off /\
              clock = Off /\ context = Off /\ attempt = Off /\ winner = Off /\ row = Off /\
              revision = Off /\ scan = Off /\ outages = Off /\ phase = Off /\
              result = Off /\ pools = Off /\ bound = Off /\ ready = Off /\ server = Off /\
              open = Off /\ shutdown = Off /\ maintenance = Off

offMail == <<ticket, callback, sender, endpoint, secret, sealing, event, delivery,
             attempts, received, connection, credential, operation, budget, presented,
             revoked, interaction, created, exchange, severed, kind, method, intent, slot,
             receipt, evidence, prepared, accepted, clock, context, attempt, winner, row,
             revision, scan, outages, phase, result, pools, bound, ready, server, open,
             shutdown, maintenance>>
MailAlone == ticket = Off /\ callback = Off /\ sender = Off /\ endpoint = Off /\
             secret = Off /\ sealing = Off /\ event = Off /\ delivery = Off /\
             attempts = Off /\ received = Off /\ connection = Off /\ credential = Off /\
             operation = Off /\ budget = Off /\ presented = Off /\ revoked = Off /\
             interaction = Off /\ created = Off /\ exchange = Off /\ severed = Off /\
             kind = Off /\ method = Off /\ intent = Off /\ slot = Off /\ receipt = Off /\
             evidence = Off /\ prepared = Off /\ accepted = Off /\ clock = Off /\
             context = Off /\ attempt = Off /\ winner = Off /\ row = Off /\
             revision = Off /\ scan = Off /\ outages = Off /\ phase = Off /\
             result = Off /\ pools = Off /\ bound = Off /\ ready = Off /\ server = Off /\
             open = Off /\ shutdown = Off /\ maintenance = Off

offWebhook == <<login, challenge, ticket, callback, outbox, smtp, worker, relay,
                connection, credential, operation, budget, presented, revoked, interaction,
                created, exchange, severed, kind, method, intent, slot, receipt, evidence,
                prepared, accepted, clock, context, attempt, winner, row, revision, scan,
                outages, phase, result, pools, bound, ready, server, open, shutdown,
                maintenance>>
WebhookAlone == login = Off /\ challenge = Off /\ ticket = Off /\ callback = Off /\
                outbox = Off /\ smtp = Off /\ worker = Off /\ relay = Off /\
                connection = Off /\ credential = Off /\ operation = Off /\ budget = Off /\
                presented = Off /\ revoked = Off /\ interaction = Off /\ created = Off /\
                exchange = Off /\ severed = Off /\ kind = Off /\ method = Off /\
                intent = Off /\ slot = Off /\ receipt = Off /\ evidence = Off /\
                prepared = Off /\ accepted = Off /\ clock = Off /\ context = Off /\
                attempt = Off /\ winner = Off /\ row = Off /\ revision = Off /\
                scan = Off /\ outages = Off /\ phase = Off /\ result = Off /\
                pools = Off /\ bound = Off /\ ready = Off /\ server = Off /\ open = Off /\
                shutdown = Off /\ maintenance = Off

offManaged == <<login, challenge, ticket, callback, outbox, smtp, relay, sender, endpoint,
                secret, sealing, event, delivery, attempts, received, interaction, created,
                exchange, severed, kind, method, intent, slot, receipt, evidence, prepared,
                accepted, clock, context, attempt, winner, row, revision, scan, outages,
                phase, result, pools, bound, ready, server, open, shutdown, maintenance>>
ManagedAlone == login = Off /\ challenge = Off /\ ticket = Off /\ callback = Off /\
                outbox = Off /\ smtp = Off /\ relay = Off /\ sender = Off /\
                endpoint = Off /\ secret = Off /\ sealing = Off /\ event = Off /\
                delivery = Off /\ attempts = Off /\ received = Off /\ interaction = Off /\
                created = Off /\ exchange = Off /\ severed = Off /\ kind = Off /\
                method = Off /\ intent = Off /\ slot = Off /\ receipt = Off /\
                evidence = Off /\ prepared = Off /\ accepted = Off /\ clock = Off /\
                context = Off /\ attempt = Off /\ winner = Off /\ row = Off /\
                revision = Off /\ scan = Off /\ outages = Off /\ phase = Off /\
                result = Off /\ pools = Off /\ bound = Off /\ ready = Off /\
                server = Off /\ open = Off /\ shutdown = Off /\ maintenance = Off

offReauth == <<login, challenge, ticket, callback, outbox, smtp, relay, sender, endpoint,
               secret, sealing, event, delivery, attempts, received, kind, method, intent,
               slot, receipt, evidence, prepared, accepted, clock, context, attempt,
               winner, row, revision, scan, outages, phase, result, pools, bound, ready,
               server, open, shutdown, maintenance>>
ReauthAlone == login = Off /\ challenge = Off /\ ticket = Off /\ callback = Off /\
               outbox = Off /\ smtp = Off /\ relay = Off /\ sender = Off /\
               endpoint = Off /\ secret = Off /\ sealing = Off /\ event = Off /\
               delivery = Off /\ attempts = Off /\ received = Off /\ kind = Off /\
               method = Off /\ intent = Off /\ slot = Off /\ receipt = Off /\
               evidence = Off /\ prepared = Off /\ accepted = Off /\ clock = Off /\
               context = Off /\ attempt = Off /\ winner = Off /\ row = Off /\
               revision = Off /\ scan = Off /\ outages = Off /\ phase = Off /\
               result = Off /\ pools = Off /\ bound = Off /\ ready = Off /\ server = Off /\
               open = Off /\ shutdown = Off /\ maintenance = Off

offMutation == <<login, ticket, callback, outbox, smtp, worker, relay, sender, endpoint,
                 secret, sealing, event, delivery, attempts, received, connection,
                 credential, operation, budget, presented, revoked, interaction, severed,
                 clock, context, attempt, winner, row, revision, scan, outages, phase,
                 result, pools, bound, ready, server, open, shutdown, maintenance>>
MutationAlone == login = Off /\ ticket = Off /\ callback = Off /\ outbox = Off /\
                 smtp = Off /\ worker = Off /\ relay = Off /\ sender = Off /\
                 endpoint = Off /\ secret = Off /\ sealing = Off /\ event = Off /\
                 delivery = Off /\ attempts = Off /\ received = Off /\ connection = Off /\
                 credential = Off /\ operation = Off /\ budget = Off /\ presented = Off /\
                 revoked = Off /\ interaction = Off /\ severed = Off /\ clock = Off /\
                 context = Off /\ attempt = Off /\ winner = Off /\ row = Off /\
                 revision = Off /\ scan = Off /\ outages = Off /\ phase = Off /\
                 result = Off /\ pools = Off /\ bound = Off /\ ready = Off /\
                 server = Off /\ open = Off /\ shutdown = Off /\ maintenance = Off

offMagic == <<now, login, ticket, callback, outbox, smtp, worker, relay, sender, endpoint,
              secret, sealing, event, delivery, attempts, received, connection, credential,
              operation, budget, presented, revoked, interaction, created, exchange,
              severed, kind, method, intent, slot, receipt, evidence, prepared, accepted,
              row, revision, scan, outages, phase, result, pools, bound, ready, server,
              open, shutdown, maintenance>>
MagicAlone == now = Off /\ login = Off /\ ticket = Off /\ callback = Off /\ outbox = Off /\
              smtp = Off /\ worker = Off /\ relay = Off /\ sender = Off /\
              endpoint = Off /\ secret = Off /\ sealing = Off /\ event = Off /\
              delivery = Off /\ attempts = Off /\ received = Off /\ connection = Off /\
              credential = Off /\ operation = Off /\ budget = Off /\ presented = Off /\
              revoked = Off /\ interaction = Off /\ created = Off /\ exchange = Off /\
              severed = Off /\ kind = Off /\ method = Off /\ intent = Off /\ slot = Off /\
              receipt = Off /\ evidence = Off /\ prepared = Off /\ accepted = Off /\
              row = Off /\ revision = Off /\ scan = Off /\ outages = Off /\ phase = Off /\
              result = Off /\ pools = Off /\ bound = Off /\ ready = Off /\ server = Off /\
              open = Off /\ shutdown = Off /\ maintenance = Off

offInventory == <<now, owner, login, challenge, ticket, callback, outbox, smtp, worker,
                  relay, sender, endpoint, secret, sealing, event, delivery, attempts,
                  received, connection, credential, operation, budget, presented, revoked,
                  interaction, created, exchange, severed, kind, method, intent, slot,
                  receipt, evidence, prepared, accepted, clock, context, attempt, winner,
                  phase, result, pools, bound, ready, server, open, shutdown, maintenance>>
InventoryAlone == now = Off /\ owner = Off /\ login = Off /\ challenge = Off /\
                  ticket = Off /\ callback = Off /\ outbox = Off /\ smtp = Off /\
                  worker = Off /\ relay = Off /\ sender = Off /\ endpoint = Off /\
                  secret = Off /\ sealing = Off /\ event = Off /\ delivery = Off /\
                  attempts = Off /\ received = Off /\ connection = Off /\
                  credential = Off /\ operation = Off /\ budget = Off /\ presented = Off /\
                  revoked = Off /\ interaction = Off /\ created = Off /\ exchange = Off /\
                  severed = Off /\ kind = Off /\ method = Off /\ intent = Off /\
                  slot = Off /\ receipt = Off /\ evidence = Off /\ prepared = Off /\
                  accepted = Off /\ clock = Off /\ context = Off /\ attempt = Off /\
                  winner = Off /\ phase = Off /\ result = Off /\ pools = Off /\
                  bound = Off /\ ready = Off /\ server = Off /\ open = Off /\
                  shutdown = Off /\ maintenance = Off

offProcess == <<now, owner, login, challenge, ticket, callback, outbox, smtp, relay,
                sender, endpoint, secret, sealing, event, delivery, attempts, received,
                connection, credential, operation, budget, presented, revoked, interaction,
                created, exchange, severed, kind, method, intent, slot, receipt, evidence,
                prepared, accepted, clock, context, attempt, winner, row, revision, scan,
                outages>>
ProcessAlone == now = Off /\ owner = Off /\ login = Off /\ challenge = Off /\
                ticket = Off /\ callback = Off /\ outbox = Off /\ smtp = Off /\
                relay = Off /\ sender = Off /\ endpoint = Off /\ secret = Off /\
                sealing = Off /\ event = Off /\ delivery = Off /\ attempts = Off /\
                received = Off /\ connection = Off /\ credential = Off /\
                operation = Off /\ budget = Off /\ presented = Off /\ revoked = Off /\
                interaction = Off /\ created = Off /\ exchange = Off /\ severed = Off /\
                kind = Off /\ method = Off /\ intent = Off /\ slot = Off /\
                receipt = Off /\ evidence = Off /\ prepared = Off /\ accepted = Off /\
                clock = Off /\ context = Off /\ attempt = Off /\ winner = Off /\
                row = Off /\ revision = Off /\ scan = Off /\ outages = Off

Init ==
    \/ scene = "login" /\ ALogin!LoginInit /\ LoginAlone
    \/ scene = "mail" /\ AMail!MailInit /\ MailAlone
    \/ scene = "webhook" /\ AWebhook!WebhookInit /\ WebhookAlone
    \/ scene = "managed" /\ AManaged!ManagedInit /\ ManagedAlone
    \/ scene = "reauth" /\ AReauth!ReauthInit /\ ReauthAlone
    \/ scene = "mutation" /\ AMutation!MutationInit /\ MutationAlone
    \/ scene = "magic" /\ AMagic!MagicInit /\ MagicAlone
    \/ scene = "inventory" /\ AnInventory!InventoryInit /\ InventoryAlone
    \/ scene = "process" /\ AProcess!Init /\ ProcessAlone

Next ==
    /\ \/ scene = "login" /\ ALogin!LoginNext /\ UNCHANGED offLogin
       \/ scene = "mail" /\ AMail!MailNext /\ UNCHANGED offMail
       \/ scene = "webhook" /\ AWebhook!WebhookNext /\ UNCHANGED offWebhook
       \/ scene = "managed" /\ AManaged!ManagedNext /\ UNCHANGED offManaged
       \/ scene = "reauth" /\ AReauth!ReauthNext /\ UNCHANGED offReauth
       \/ scene = "mutation" /\ AMutation!MutationNext /\ UNCHANGED offMutation
       \/ scene = "magic" /\ AMagic!MagicNext /\ UNCHANGED offMagic
       \/ scene = "inventory" /\ AnInventory!InventoryNext /\ UNCHANGED offInventory
       \/ scene = "process" /\ AProcess!Next /\ UNCHANGED offProcess
    /\ UNCHANGED scene

Spec == Init /\ [][Next]_vars

\* Time passes, and a process that runs goes on.
Onward ==
    \/ scene = "login" /\ ALogin!PassTime /\ UNCHANGED offLogin
    \/ scene = "mail" /\ AMail!PassTime /\ UNCHANGED offMail
    \/ scene = "webhook" /\ AWebhook!PassDeliveryTime /\ UNCHANGED offWebhook
    \/ scene = "managed" /\ AManaged!PassTime /\ UNCHANGED offManaged
    \/ scene = "reauth" /\ AReauth!PassMoreTime /\ UNCHANGED offReauth
    \/ scene = "mutation" /\ AMutation!PassTime /\ UNCHANGED offMutation
    \/ scene = "magic" /\ AMagic!Tick /\ UNCHANGED offMagic
    \/ scene = "inventory" /\ AnInventory!ServerStep /\ UNCHANGED offInventory
    \/ scene = "process" /\ AProcess!Main /\ UNCHANGED offProcess

\* The loop of every replica that ends what nobody else will.
Upkeep ==
    \/ scene = "login" /\ ALogin!Recovery /\ UNCHANGED offLogin
    \/ scene = "mail" /\ AMail!MaintainShortTermData /\ UNCHANGED offMail
    \/ scene = "webhook" /\ AWebhook!Maintain /\ UNCHANGED offWebhook
    \/ scene = "managed" /\ AManaged!Recovery /\ UNCHANGED offManaged
    \/ scene = "reauth" /\ AReauth!Sweep /\ UNCHANGED offReauth
    \/ scene = "mutation" /\ AMutation!TerminalizeDue /\ UNCHANGED offMutation
    \/ scene = "magic" /\ AMagic!MaintainShortTermData /\ UNCHANGED offMagic
    \/ scene = "process" /\ AProcess!ListenerEnded /\ UNCHANGED offProcess

\* Nobody owes the system a request, an answer, a signal or a closed connection.
FairSpec == Spec /\ WF_vars(Onward /\ UNCHANGED scene) /\ WF_vars(Upkeep /\ UNCHANGED scene)

-----------------------------------------------------------------------------
(***************************************************************************)
(* recover_abandoned_provider_exchanges, maintain_short_term_data,         *)
(* recover_one_expired_delivery, terminalize_ambiguous_revocation,         *)
(* terminalize_due, serve_until_shutdown: a claimed exchange, a message, a *)
(* delivery, a dispatched revocation, a reauthorization, an identity       *)
(* mutation, an opened link and a drain each come to an end, whoever stops *)
(* in the middle of it.                                                    *)
(***************************************************************************)
Begun ==
    \/ scene = "login" /\ ALogin!ClaimOpen
    \/ scene = "mail" /\ AMail!MailOpen
    \/ scene = "webhook" /\ AWebhook!DeliveryOpen
    \/ scene = "managed" /\ AManaged!RevocationOpen
    \/ scene = "reauth" /\ AReauth!ReauthorizationOpen
    \/ scene = "mutation" /\ AMutation!IntentOpen
    \/ scene = "magic" /\ AMagic!ContextOpen
    \/ scene = "inventory" /\ AnInventory!ScanOpen
    \/ scene = "process" /\ AProcess!ExitOpen

BegunWorkEnds == Begun ~> ~Begun
=============================================================================
