# OwlAuth: a TLA+ development

OwlAuth is an authentication server for many Projects. Its replicas keep no
authority in memory: every decision is a PostgreSQL transaction that locks the
rows it depends on, compares them with revisions captured earlier, and commits.
What can go wrong is therefore rarely inside one handler. It is in what happens
*between* transactions: two callbacks of one login, an operator who disables and
enables a Project while a login is under way, a token that is signed between two
transactions, a replica that stops after it has claimed something, a client that
retries what was already done. This directory models those interleavings.

Paths below are relative to `src/crates/owlauth-server/src/`; `pg/` stands for
`adapters/postgres/`.

## 1. Inventory

| Component | State | Operations | Hard behaviour |
|---|---|---|---|
| Control plane (`pg/provisioning/*.rs`, `pg/control_lifecycle.rs`, `pg/email_control.rs`, `pg/projection.rs`) | one row per Project, Application, policy, provider, user, key ring, with status and revisions | create, update, disable, enable, delete, assign | never rewrites the work that depends on it: revisions must do that |
| Login transaction (`pg/authentication.rs`, `pg/session_authority.rs`, `application/runtime_auth.rs`, `domain/login.rs`) | `login_transactions`; callback requests in memory | create, bind, select, claim, deny, complete, fail, recover, reuse | claim and completion are two transactions around a call to the provider; crashes; lost acknowledgements |
| Email challenge (`pg/email.rs`, `application/passwordless_email.rs`) | `email_challenges`, magic-link transfer contexts | generate, resend, verify, complete | attempts and generations at their limit |
| Handoff ticket (`pg/session_authority.rs`) | `handoff_tickets` | issue, expire, consume | spent once, within two overlapping lifetimes |
| Sessions (`pg/session_authority.rs`, `pg/control_lifecycle.rs`) | `project_browser_sessions`, `application_sessions`, `refresh_families`, `refresh_token_generations`, `project_browser_logout_interactions` | authenticate, reuse, exchange, refresh, logout, revoke | the access token is signed between two transactions; concurrent refreshes; replay; a session ends in six different ways |
| Signing ring (`pg/provisioning/signing.rs`) | `project_key_rings`, `signing_keys`, staged operations | prepare, claim provider action, publish, activate, transition | leased work outside the database, publication before use |
| Provider secrets (`pg/provisioning/provider_secret.rs`), custody (`pg/custody.rs`) | protected rows, staged replacements | reserve, store, finalize, retire | staged replacement with a login in flight |
| Mail (`pg/email.rs`, `pg/mail_delivery_safety.rs`, `application/mail.rs`, `adapters/smtp.rs`) | `mail_outbox`: status, attempts, lease; the limits per recipient and Project | queue, cancel, claim, submit, finish, maintain | two deadlines on two clocks; an outcome nobody can know; workers that vanish |
| SMTP configurations (`pg/email_control.rs`, `pg/email.rs`) | status, eligibility revision, credential | activate, replace, disable, retire, erase | a credential erased under a message in hand |
| Webhooks (`pg/webhook.rs`) | events, endpoints, deliveries, leases, secrets | append, claim, finish, recover, replay, rotate | ordering, at-least-once, late finish |
| Managed connections (`pg/managed_connection.rs`, `pg/managed_reauthorization.rs`) | provider tokens, renewals, interactions | read, prepare, submit, commit, disconnect, reauthorize | a submitted renewal whose answer is lost |
| Identity mutation (`pg/identity_mutation.rs`) | intents, identities, users | link, unlink, merge | expected revisions over two users |
| Server keys (`pg/server_key.rs`) | keys, creation attempts | create, acknowledge, revoke | idempotent creation of a secret shown once |
| Maintenance (`maintenance.rs`) | none of its own | prune | must not delete what a handler still needs |
| Projections (`pg/projection.rs`) | per Application a document, its revision, its events | materialize, fan out, repair, rotate | readers repair in silence while writers announce |
| Applications (`pg/provisioning/project_application.rs`, `http.rs`) | redirects, origins, revision | read, replace, disable, check | a record read in four statements; checks before and after the work |
| Hosted pages (`http.rs`, `hosted/*`) | cookies of browsers | every page and command of an interaction | links travel, answers are lost and reordered, tabs share a jar |
| Control API (`http.rs`, `pg/control_*.rs`) | idempotency ledgers, revisions | every command | repeated, delayed and racing requests |
| Command line (`owlauth-cli`) | the profile file | add, use, rebind, remote commands | several processes on one file; a server replaced under a pin |
| Server process (`composition.rs`) | phase, listeners, workers | start, serve, drain, stop | a deadline against connections and batches |
| MCP, web, SDKs, configuration, migrations, cryptography | none that a decision reads | plumbing | none: any order of their requests is allowed |

How they interact: the control plane and the Runtime components share rows and
call nothing of each other. A login issues a ticket; the exchange of the ticket
completes the login and creates a session; a session refreshes itself. A change
of a user is fanned out to projections, which sessions compare and webhooks
announce. Email generations queue mail. Background loops (`composition.rs`)
recover abandoned exchanges and drive mail, webhooks and connections.

What makes each correct:

* login: one claim, one ticket, spent once, nothing under withdrawn authority,
  every claim ends;
* ticket and sessions: spent exactly when the login completes; sessions stand on
  exactly what the login captured;
* refresh families: one linear chain, cut by a replay; an ended session stays
  ended; nothing handed out that was overtaken while it was signed;
* browser logout: ends what it was prepared for, and nothing newer;
* email: attempts bounded per generation;
* leased work (mail, webhooks, connections, keys): at most one holder's result
  counts, a late finish changes nothing, every due item is eventually tried.

`PROJECT.json` lists the hazards with the line where each bites and the property
that covers it.

## 2. Modules

```
ControlPlane                   owners, revisions, operator commands, clock
  ControlPlaneProofs
  HandoffTicket                the row logins and sessions share
    LoginTransaction           -- implements --> OneShotGrant
    SessionAuthority           -- implements --> TokenChain
      Retention                the prune jobs beside the handlers of sessions
    Runtime                    LoginTransaction + SessionAuthority, implements both
      RuntimeProofs            also the proofs about each of the two parts
  MailDelivery                 -- implements --> LeasedWork
    DeliveryProofs
  WebhookDelivery              -- implements --> LeasedWork
  ManagedConnection
    ManagedReauthorization     an interaction on top of a connection
  IdentityMutation             -- implements --> MutationAggregate (MutationAggregateProofs)
IdentityMutation, IdentityGraph  IdentityProofs
HostedBrowser, MagicTransfer     AccessProofs
CustodyInventory, ServerKey      CustodyProofs
ApplicationConfiguration, DeploymentSmtp, Projection
                                 SettingsProofs
SigningRing, ProviderSecret, SmtpConfiguration, ControlSurface, RemoteProfile,
ServerProcess
```

`LoginTransaction` is checked as it stands, `MCSessionAuthority` and `MCRuntime` add
the symmetry of the requests of their module. The other MC modules hold several
instances, one per *scene*: a behaviour plays one scene from start to end, the
component of the scene is on stage and the variables of all others have the value
`Off`. Components in one MC module change different rows, so nothing is lost by not
interleaving them; a property of the MC module says of each scene what the
component's property of the same name says of it. Components whose safety is proved
are *extended* instead: `MCAccess` extends `HostedBrowser` and `MagicTransfer`,
`MCIdentities` extends `IdentityMutation` and `IdentityGraph`, `MCCustody` extends
`CustodyInventory` and `ServerKey`, `MCSettings` extends `ApplicationConfiguration`,
`DeploymentSmtp` and `Projection`, `MCDelivery` extends `MailDelivery` and
`WebhookDelivery`. Off stage such a component rests in an initial
state, so the very definition that the theorem states is the invariant TLC checks;
its scenes share the sets of the cfg and differ in scalar constants and in a
restriction of `Next` (`OneOperator`, `OneMerge`, `NothingResent`). A variable of
another component that would have the same name is given another one in the MC module
(`project <- owner`). An instance is an `INSTANCE ... WITH` whose comment says what it is for, and `ASSUME`
in the MC module has TLC evaluate the assumptions of every instance.

**ControlPlane.** An *owner* is a row Runtime compares, reduced to status and
revision (the header of the module lists the columns). Each operator command is
an action that advances the revisions its transaction advances; the guards are
the command's own conditions. A command with a stale expected revision is
refused and changes nothing, so it is not an action. One Project with one
Application, provider and user is modelled, since no transaction reads another
Project's rows. Several columns that are always compared together are one
owner; where handlers compare different columns (the Project's metadata
revision, its security revision) they are different owners. The clock: a handler
reads its replica's clock before it waits for the row lock, so a transaction
works with any reading at most `MaxClockLag` old (`ClockReading`). Handlers that
let the database supply the time use `now`.

`DeleteProject` is one transaction (`project_application.rs` 410-561) that also writes
rows of other components: it erases every configuration secret of the Project, whatever
lease or request is using it, ends the managed credentials and renewals, and hands the
signing keys over for cleanup. Each module carries its own part out in the step that
closes the Project: `ProviderSecret`, `SigningRing` and `ManagedConnection` as actions
of theirs, `WebhookDelivery` in `WebhooksFollow`, `SmtpConfiguration` in
`DeleteProject(p)`, `MailDelivery` in `CredentialErased`. Properties that say no secret
is erased under a lease say so of a Project that is not deleted, and those of webhooks
and SMTP say of a deleted one that nothing of it is left behind
(`DeletionLeavesNoSecret`, `DeletionErasesCredentials`). Without the exemptions TLC
finds them violated: a worker really can lose the secret it has claimed work with, and
its attempt then fails as any secret that cannot be resolved makes it fail.

**LoginTransaction.** `login` is `login_transactions`, `challenge` the newest
row of `email_challenges`, `callback` the callback requests in flight. Each
handler is one action, because each is one transaction that locks the login row;
the provider callback is a process with a claim, an exchange outside any lock, a
completion and a compensation, any of which may be lost to a crash. Digests,
CSRF and PKCE values are left out: a wrong one is refused without a change.

| Action | Code |
|---|---|
| `CreateLoginTransaction`, `BindHostedBrowser`, `SelectProviderMethod` | the functions of these names in `pg/authentication.rs` |
| `SelectEmailMethod`, `CommitEmailGeneration`, `RejectOtp`, `CompleteEmailProof` | `pg/email.rs`: `select_email_method`, `commit_email_generation`, the wrong-code path of `verify_email_proof`, `complete_email_proof` |
| `ClaimProviderCallback`, `DenyProviderCallback`, `FailProviderExchange` | `pg/authentication.rs` |
| `ProviderExchangeError`, `ProviderCompletionError`, `CrashCallback` | the ways `complete_provider_callback` of `application/runtime_auth.rs` ends |
| `CompleteAuthenticatedIdentity`, `ConfirmBrowserSessionReuse`, `RecoverAbandonedProviderExchange`, `CommitHandoffExchange` | `pg/session_authority.rs` |

Expiry is part of the handler that notices it (`ExpireLogin`), as in the code,
and never a step of its own. The email handlers do not run it.

**SessionAuthority.** The rows of sessions and the exchange and refresh requests
in flight. `PrepareHandoffExchange` and `PrepareRefreshRotation` are the first
transactions, `CommitExchange` and `RotateRefreshToken` the second; between them
the access token is signed and anything may happen. A request remembers what it
prepared: the family's and the session's revisions and the revisions the token is
made from. The module abstracts the login to `IssueHandoff`, which may happen
whenever authority is intact. An observation recorded in the model:
`rotate_or_create_browser_session` gives a new authentication to an active
browser session of the same user even after its idle expiry, so idle expiry is
not final, and `Over` does not count it.

**Runtime.** The two parts share the ticket, the owners and the clock. Three
transactions belong to both, and the module conjoins their two halves:
completing a login also authenticates a browser session, exchanging a ticket also
completes the login, preparing an exchange also looks at the login's status.

**OneShotGrant, TokenChain.** What the two parts promise, without revisions,
clocks, retries or failures.

**MailDelivery.** The mail of email logins: `challenge` and `outbox` are
`email_challenges` and `mail_outbox` by login and generation, `smtp` the
configurations with the state of their credential, `worker` what a round of the
loop keeps in memory, `relay` what the relay really accepted, which the code
cannot see.

| Action | Code |
|---|---|
| `StartLogin`, `CommitEmailGeneration`, `ExhaustChallenge`, `EndLogin` | what `create_login_transaction`, `commit_email_generation`, `verify_email_proof` and the ends of a login mean for mail; `LoginTransaction` has the rest |
| `StartRound`, `ClaimDueMail`, `PreparationFails`, `Connect` | `run_once_with_limits` and `dispatch_claimed` of `application/mail.rs`, `claim_due_mail` of `pg/email.rs` |
| `FailBeforeData`, `SendBody`, `FinalResponse` | `adapters/smtp.rs`, before and after the point where `dispatch_started` is set |
| `FinishMailAttempt`, `EndRound` | `finish_mail_attempt`; every way a round ends without it |
| `FailExhaustedMail`, `ExpireMail`, `ExpireChallenge` | the first classes of `maintain_short_term_data` |
| `ActivateSmtpConfiguration`, `TerminateSmtpConfiguration` | `pg/email_control.rs` |
| `RetireSmtpConfiguration`, `ClaimSmtpCredentialCleanup`, `FinishSmtpCredentialCleanup` | `pg/email.rs` |

A worker has two deadlines on its own monotonic clock, both counted from before
the claim; the lease in the row is counted by PostgreSQL from the claim. The
claim's answer may be lost after it committed. Abstractions: the relay follows
the protocol (it does not answer the DATA command itself with success); clocks
run at one rate, and a process is not suspended between a deadline test and the
write it guards; a transaction the worker stopped waiting for does not commit
(the connection is dropped before COMMIT is sent); the growing backoff is one
delay; `PolicyDenied` is `Permanent`, which every decision treats alike; the
Project's and the deployment's configurations, which have the same life, are one
kind, but for one thing: deleting the Project erases the credentials of its own
configurations (`ProjectSmtp`, `CredentialErased`), so that a claimed message can no
longer connect; with a deployment configuration it still can.

**LeasedWork.** What a queue promises: each hand-out has a new term, only the
holder of the latest term settles an item, what is done stays done.

**WebhookDelivery** (`pg/webhook.rs`). Endpoints, secret generations with their
protected material, events, deliveries and workers. A worker has no deadline of
its own against its lease, so it may post and report after the delivery was taken
back. A generation's material is reserved, written by a later transaction of the
same command and erased by a worker; the three meet in any order. Disabling the
Application disables its endpoints in the same transaction (`WebhooksFollow`) and leaves
their secrets to the maintenance; the publishable keys it also ends are in no module.

**ManagedConnection**, **ManagedReauthorization** (`pg/managed_connection.rs`,
`pg/managed_reauthorization.rs`, `application/managed_connection.rs`). A renewal is
prepared, submitted and committed in three transactions with the provider between
them; the provider rotates what it renews, so a credential whose renewal was
submitted may be spent. `ManagedReauthorization` extends the connection with
interactions of operators and browsers that replace its credential.

**MutationAggregate**, **IdentityMutation**, **IdentityGraph**
(`domain/identity_mutation.rs`, `pg/identity_mutation.rs`). The aggregate is the
domain's own statement of what an intent may do; the handlers of the database do
not call it. `IdentityMutation` models those handlers: slots, receipts,
generations of codes, and the requests that remember a revision between two
transactions. Its refinement of the aggregate maps an end that the sweep brings
about before the deadline to a cancellation, the only end the aggregate has for
it. `IdentityGraph` is what a confirmation does to users, identities, bindings and
sessions; an intent there is a ready one.

**MagicTransfer** (`pg/email.rs`, `pg/identity_mutation.rs`). The contexts that
opening a mailed link establishes, for a login or for a slot of a mutation.

**SigningRing** (`pg/provisioning/signing.rs`, `application/signing*.rs`). A key
provider is called between two transactions. Time is the number of ticks a lease,
a delay or a window has left. A provision request takes effect within its lease or
not at all (`spec/06` line 317 demands that timeout of the client). `Stable` says
whether the provider has an operation identifier to ask by. The ring's capacity is
the number of keys.

**ProviderSecret** (`pg/provisioning/provider_secret.rs`, `pg/custody.rs`). A
secret stands for its keyed fingerprint. A request prepares with the revision that
is current and may find it stale when it finalizes. Requests refused while
preparing change nothing and are left out; the states `stored` and `failed`, which
the schema accepts and no code writes, do not occur.

**CustodyInventory** (`pg/custody.rs`, `composition.rs`, `protected_runtime.rs`).
The scan reads page after page, each in a snapshot of its own; the inventory
revision before and after makes its verdict mean something. It gives up after
`Rounds` rounds that found the revision moved.

**ServerKey** (`pg/server_key.rs`, `application/server_key.rs`, `server_api.rs`).
Answers record the row as it was. A digest covers the kind of a command and its
arguments. Authentication is three reads, the time of last use a detached write.
`WalkNext` adds an operator who pages through the list.

**SmtpConfiguration**, **DeploymentSmtp** (`pg/email_control.rs`, `pg/email.rs`).
In the first, time is a countdown per row and the lease of the credential cleanup
is collapsed into one step. Its `DeleteProject` erases the credentials and the test
recipients of the Project, also under the lease of a test. A trigger of the schema
(`projects_enforce_lifecycle`) refuses a new configuration of a Project that is being
deleted, and nothing else of the component looks at the Project: a test may still be
prepared, claimed and finished after the deletion, and then only its own cleanup erases
the recipient it was given. In the second module a fingerprint stands for endpoint,
sender and credential; an unfinished generation can neither be terminated nor
reconciled, as in the code, and a process that restarts with an old configuration
may make a retained generation active again.

**Projection** (`pg/projection.rs`). The digest of a document stands for it.
Operators keep the ring discipline of `spec/04` line 749: a key version is not
taken away while rows need it.

**ApplicationConfiguration** (`pg/provisioning/project_application.rs`, `http.rs`). A
record is read in four statements; a command carries the security revision its
operator last read. The Project is active throughout. A sign-in, its ticket and
its session are one row. `seen` records what was allowed while a request was under
way, `reader` what an operator was shown. An origin that
is added between the lookup and the second check may be answered.

**HostedBrowser** (`http.rs` and the hosted pages). Jars of cookies, answers in
flight, and a row per interaction reduced to what admits the next request. A
cookie's value is fresh for its interaction. Resends and time are left out;
`MaxAnswers` bounds the answers in flight.

**ControlSurface** (`http.rs`). A command is a row of a table: what it names, what
the server compares and what it moves. Requests are repeated and arrive in any
order. Two intents with two copies each are every race of two commands. Commands
that the code does not fence (`replay_webhook_delivery`,
`synchronize_connection`, `abandon_secret_replacement`) are listed as `Unfenced`.
Refusals for capacity are left out. The disconnect of a connection moves its
revision and not its generation here.

**RemoteProfile** (`owlauth-cli`). An identity is product, instance, API base and
credential class; the name of an environment variable stands for the key in it.

**ServerProcess** (`composition.rs`). Phases, pools, listeners, workers, shutdown.
An abort is asynchronous, as it is in the runtime. The HTTP library serves a connection
in a task of its own, so the connections of a listener that failed or was aborted go on
until they close or the process exits; `WorkEndsBeforePools` excepts those of a failed
listener, which nobody waits for. A signal handler that cannot be
installed leaves the ready flag as it is and drops the sender, which the listeners
take for a shutdown.

**Retention** (`maintenance.rs`). A class of rows is deleted by one statement that
picks in a snapshot and re-reads only what it locks; a foreign key that restricts
makes the job fail. The handlers beside it are those of `SessionAuthority`, with
clocks that lag. The webhook classes are the statements of the webhook worker.

Definitions whose names begin or end with `Mutant` are plausible faults of the
definition they stand before; no specification uses them. Each property is checked
to fail when one of them takes the place of the real definition.

## 3. Runs

| Run | Scenes | Properties and what they show |
|---|---|---|
| `login` | 1 login, 2 callbacks or 2 generations of 2 attempts; Project, provider and email method withdrawn and restored | `ClaimFence`: one callback works for a login. `TicketAgreesWithLogin`. `GuessesBounded`. `WithdrawalIsFinal`: nothing is issued under authority that was withdrawn, even if it was restored. `ExchangedInTime`. `KeepsPromise`: refinement of `OneShotGrant` |
| `session_refresh` | 1 session, 3 requests, 3 tokens, 1 logout interaction; key, user and profile change | `TokensMatchFamily`: one current token, replay revokes. `OverIsOver`: six ways to end, none comes back. `OvertakenWorkIsLost`. `TokensInTime`. `KeepsChain`: refinement of `TokenChain` |
| `runtime` | 2 logins of a browser, 1 callback, 2 requests, 1 logout interaction; the Application changes | `SessionsInheritLogins`: a session stands on what its login captured. `LogoutEndsWhatItSaw`: a confirmed logout ended the very state it was prepared for |
| `access` | hosted_proofs, hosted_logins, magic_login, magic_mutation, retention_tokens, retention_browser | `HostedSafe`: an interaction is finished by its browser, a cookie lasts until its step. `MagicSafe`: one submission of a link wins, bound links stay bound. `RetentionSafe`, `NothingLiveGoes`: pruning deletes nothing a handler would still accept, and no spent token that a replay must be recognised by |
| `delivery` | mail_workers, mail_recipients, mail_smtp, webhook_workers, webhook_secrets | `MailSafe`, `WebhookSafe`: records say what happened, limits hold, no secret of a Project that is not deleted is erased in use, and none of a deleted Project survives. `KeepsLeases`: the outbox refines `LeasedWork`, and a message leaves under a lease the row knows of. `KeepsDeliveries`: the deliveries refine it too, and the overlap of a rotation is honoured |
| `custody` | signing_workers, signing_revoke, secret_requests, secret_logins, key_lifecycle, key_use, key_walk, inventory | `SigningSafe`, `LedgerFirst`: one rotation at a time, nothing left at the provider, every effect announced first. `SecretSafe`: one live secret, success means stored. `ServerKeySafe`, `RevocationHolds`. `VerdictIsTrue`: a process that says it is ready, or refuses to start, is right |
| `settings` | smtp_activation, smtp_tests, deployment, configuration_operators, configuration_origins, projection | `SmtpSafe`: what is active was tested, nothing is erased under the lease of a test but by the deletion of its Project, which leaves no credential. `DeploymentSafe`. `ConfigurationSafe`: answers go to allowed origins. `ProjectionSafe`: each revision announced once, in order. `DecisionsHold`: no lost update, no removed redirect, terminations hold |
| `identities` | managed_workers, managed_owners, managed_budget, reauth, reauth_intent, aggregate, mutation_codes, mutation_link, graph_unlink, graph_merge, graph_merges | `ManagedSafe`: a credential is presented once, no material of an inactive connection. `MutationSafe`: the aggregate can be read back, the handlers can commit, and an end leaves nothing behind. `GraphSafe`: every user can log in. `IdentitiesMoveByRight`: the handlers refine the aggregate, operations are carried out with fresh proofs |
| `operators` | directory, wiring, worked, profile_keys, profile_store, process, process_drain | `OperatorsSafe`: a command takes effect once, a key goes only where it was pinned, a drain loses no work. `ActsOnWhatWasSeen` |
| `background` | login, mail, webhook, managed, reauth, mutation, magic, inventory, process | `BegunWorkEnds`: what was begun comes to an end |
| `login_claim_expiry`, `managed_intent` | | expected violations, see *Findings* |

**Bounds.** Logins interact only through the browser session they share, so one
login is enough for the login's own properties and two for reuse. Two callbacks,
workers, requests or operators make a race; a third would lose like the second,
except for refresh (an exchange and two refreshes) and for processes of the
command line (three runs of two). Revisions are compared by equality, so two
changes (away and back) reach every case; the bound is two or three. Lifetimes are
a few ticks, chosen so that every timer can run out before and after every other:
the ticket before the login, the idle expiry before the absolute one, a receipt
before its intent, a code before both, a lease before its message. Three tokens
are a chain with an interior token. Two generations of a credential or a key are a
replacement, three a replacement during the overlap of another. `Volatile`
restricts which owners change in a scene; together they change every owner a
handler compares. The Project is deleted in the scenes `mail_smtp` and
`webhook_secrets`, where secrets come and go, and, by `Deletable`, in `smtp_tests`. Constants called `Max...`, `Last...`, `Attempts`, `Rounds` and
`Offered` bound the model unless their comment names a limit of the code. Every
cfg says `CHECK_DEADLOCK FALSE`, because with the clock at its bound and every
request ended the bounded model really stops. Symmetry is used only in runs of
safety properties.

**Fairness.** The background run assumes two things: time passes and a process
that runs goes on (`Onward`), and the recovery loop that every replica runs with a
fixed period runs (`Upkeep`: `recover_abandoned_exchanges`,
`maintain_short_term_data`, the webhook worker's recovery, the connection worker's
recovery, the sweeps of interactions and of mutations). `composition.rs` starts
these loops in every process. No client, operator, provider, relay, signal or
worker in the middle of its work is assumed to do anything. In each scene the
clock's bound lies beyond every deadline that can be set, so that liveness is not
an artefact of the bound. Not checked for liveness: signing rotations, SMTP tests,
retention jobs and the command line, whose progress depends on a provider, a relay
or an operator, and the modules whose actions are all requests.

**Findings.** Two disagreements have a run that shows them.

* `login_claim_expiry`: `spec/03` line 139 says that a callback which loses the
  claim "cannot mutate or terminalize the owner claimed by another callback".
  `claim_provider_callback` tests the expiry before the status, so a losing
  callback that arrives after the login's expiry moves the claimed login to
  expired. The winner's completion would have expired it in the same way.
* `managed_intent`: a revocation requested between the claim of a renewal and its
  recovery stays set on a connection that has become `reauth_required`. Workers
  claim only active connections, and disconnecting, reauthorizing and logging in
  refuse while the request is set, so the connection is stuck (`spec/11` lines 63
  and 64 give it two ways out).

Met while modelling; the models behave as the code does, and the properties are
stated so that they hold of it:

* a renewal that is `prepared` cannot be claimed again once the egress policy has
  changed (`managed_connection.rs` 499-519; `spec/11` line 145 permits it);
* an unlink cannot disconnect a connection that is `reauth_required` or `revoked`,
  since their ends advance the connection's generation and not the credential's
  (`identity_mutation.rs` 5405; `spec/11` line 76);
* after a suppressed mail no further code can be requested for a slot of a
  mutation (`identity_mutation.rs` 3287);
* the sweep of mutations ends an intent for the mail of a consumed or superseded
  code, before the deadline of `spec/04` line 746;
* a user whom another was merged into can never be disabled: the deferred trigger
  refuses (`control_lifecycle.rs` 332);
* a Project deleted, or a key revoked, while a provider call is under way can
  leave a key at the provider; a retirement during a rotation makes the rotation
  give its new key up (`pg/provisioning/signing.rs` 776);
* the creation of a provider cannot be finished after the egress policy changed,
  and may be completed with another secret than it was reserved with, because the
  fingerprint is stored when the material goes live (`custody.rs` 617);
* readiness does not look at the digest versions of active server keys
  (`readiness.rs` 359; `spec/04` line 894);
* one SMTP test whose credential was never finalized keeps the tests of every
  Project waiting until it expires (`email.rs` 1552);
* `replay_webhook_delivery` is fenced by nothing (`http.rs` 6920), and an
  idempotency key is looked up per kind of command and not across the deployment
  (`spec/07` line 23);
* `profile add --yes` saves what it discovers then, not what was displayed;
* `rotate_or_create_browser_session` revives a browser session of the same user
  after its idle expiry, so `Over` does not count idle expiry.

## 4. Proofs

Every theorem holds for all values of the constants that satisfy the assumption it
names: any sets of rows, workers, requests and processes, all lifetimes, limits and
bounds. Modules that a run extends state their assumptions with `ASSUME`; modules
that are instantiated per scene state them as definitions (`MutationAssumption`,
`KeyAssumption`, ...), which the MC modules assume of every instance and the
theorems have as a hypothesis.

`RuntimeProofs` proves first of `LoginTransaction`, for every set of logins and callbacks, every
lifetime, every limit and every behaviour of the operators, everything the login
runs check except liveness. Assumptions: `ControlPlaneAssumption`,
`TicketAssumption` and `LoginAssumption` (the lifetimes and limits are naturals, positive
where the code's constants are, and no login is called `"none"`).

The argument. None of the properties is inductive. `LoginInv` adds:

* `ClaimsKnown`, `ClaimsStand`: a callback past `idle` names a login, and a login
  that a callback has claimed has left the statuses before the claim for good,
  which is why a second callback cannot claim it;
* `ClaimFence`: needed by the completion and by the compensation, which both
  compare only a revision;
* `NoEarlyTicket`, `TicketCopiesLogin`: a ticket exists only once its login has
  reached `handoff_issued`, and carries the login's captured revisions: the
  exchange compares the ticket's copy, never the login's;
* `SnapshotsBehind`: no captured revision is ahead of its owner. Revisions only
  grow, so a withdrawn login stays withdrawn;
* `AttemptsLeft`: a pending generation has attempts left.

Every action is shown to be one of nine kinds of step (`EveryStepHasAKind`):
quiet, start, entry, claim, grant, fail, lapse, spend and ticket lapse, each
described by what it does to the login, the ticket and the callbacks. Preservation of each
conjunct, the three action properties and the refinement are then proved once per
kind and not once per action. `LoginKeepsPromise` maps kinds to the actions of
`OneShotGrant`.

It proves next of `SessionAuthority`, for every set of logins, browsers, requests and
logout interactions, all lifetimes and every length of a family, everything that
`session_refresh` checks and the `LogoutEndsWhatItSaw` of `runtime`. It adds `SessionAssumption` (positive lifetimes, and `"none"`
names neither a browser session nor a login). `SessionInv` consists of:

* `TokensMatchFamily` and `LogoutEndsWhatItSaw`, which are inductive once the rest
  is known;
* `Seated`, `Housed`: a ticket names its browser session, and a session exists
  exactly when its family does, with its ticket consumed. This is why an exchange
  never writes over a session: a ticket that can still be spent has none;
* `RequestsKnown`, `LogoutsKnown`: requests and interactions name rows that exist;
* `CapturesBehind`: no captured revision is ahead of its row, neither an owner's
  nor, for a refresh, the family's or the session's. With revisions that only grow
  it makes `Overtaken`, and the stale part of `Over`, permanent.

Here a step is one of four kinds for sessions and tokens: nothing, a birth, an
end, a growth (`SessionKind`), and says separately how it moves browser sessions
(`BrowserMoves`) and interactions (`LogoutMoves`). `SessionKeepsChain` maps birth
and growth to `Grow` and the revocation of a family to `Cut`.

`ControlPlaneProofs` holds what both need: an owner row never changes without a
greater revision, and a set of rows that has moved on from a snapshot never
returns to it (`StaleStaysStale`), whichever commands operators issue.

`RuntimeProofs` then proves of the composition what its parts were proved to do.
`RuntimeInv` is `LoginInv`, `SessionInv` and `SessionsFollowTickets`: a session
exists exactly when its ticket is consumed, and stands on the revisions the ticket
copied. The ticket is what the argument needs, because neither part sees the rows
of the other. The Runtime then implements both specifications
(`RuntimeImplementsLogin`, `RuntimeImplementsSession`), and their theorems hold of it (`RuntimeKeepsPromises`). The
invariant of either part alone would not do: the exchange writes rows of both, and
that its halves agree (the login waits for exactly the ticket that is spent)
follows from `TicketAgreesWithLogin` and `SessionsFollowTickets` together.

`DeliveryProofs` proves `MailSafe` and `KeepsLeases` of the outbox, for any number of
logins, workers and configurations and all lifetimes and limits (`MailAssumption`: the
set of logins is finite, because the backlog is counted, and the reserve kept for the
completion is shorter than the lease). `MailInv` relates the three places that know of
an attempt. `ClaimFits`: what a worker remembers of its claim is the row's as long as
the lease runs, and afterwards the row was given up or counts a later attempt; the
worker's own deadline, counted from before the claim, never lies beyond the lease.
`ClaimsDiffer`: no two workers remember one attempt. `MessageFits`: the relay received
only attempts the row counts, and the last one as the row says, which is why no finish
needs to know what the relay did. `SmtpKept`: a configuration is not retired while a
message in hand can still be sent, from which `CredentialOutlivesMail` follows, since
besides the deletion of the Project only the cleanup of a retired configuration erases. The refinement of
`LeasedWork` uses the attempt number as the term.

`MutationAggregateProofs` proves of the domain aggregate that no sequence of its
operations leaves an intent that `validate_restored` would refuse (`MutationSafe`),
and that it completes with fresh proofs and ends once (`MovesByRight`). The
strengthening is `ReceiptsPast`: a receipt carries a time that has passed, which is
what bounds the distance between two proofs.

`IdentityProofs` proves that the handlers of the database implement that
aggregate (`HandlersImplementAggregate`), although they share no code with it.
`HandlersInv` has, for each slot, that it is under way only with its own method, in
a bound browser and a pending intent, and has no receipt before it is proved; the
aggregate demands these before each step, and the handlers do not test all of them
again. The deadline of the handlers is a minimum over receipts, the aggregate's a
quantifier; `DeadlineIsAlive` shows them equal, from the well-foundedness of the
naturals. `HandlersMoveByRight` then transports what was proved of the aggregate
through the refinement mapping (`Proved == INSTANCE MutationAggregateProofs WITH
...`). `HandlersAreSafe` needs a second invariant, `CodesInv`: the generations of a
slot are numbered without gaps (so that `Newest`, a cardinality, is the last one),
only the newest may be guessed or consumed, a slot under challenge has it, and a
guessable code has attempts left. The proof showed that the model's bound
`MaxIntentRevision` must be positive, which the assumption now says.

`CustodyProofs` proves that a process which declares itself ready can use
every material that is live at that moment, and that a refusal has a cause
(`VerdictsAreTrue`, the property `VerdictIsTrue` of the run). `InventoryInv` says what the revision buys:
while it equals the one read first, every live material at or behind the cursor is
usable (`PassedUsable`), the page in hand tells the truth (`PageTrue`) and so does
the verdict (`VerdictTrue`); once it has moved, nothing is claimed, and the scan
starts again.

It also proves `ServerKeySafe` and `RevocationHolds`, with an operator who pages
(`WalkNext`). `KeyInv` says what the rows, the ledger and the callers know of
each other: an active row's revision tells whether its delivery was acknowledged,
a row that does not exist was never shown, whoever was answered under an
idempotency key was told its completed record (`AnswersRecorded`), and the counts
of active and unacknowledged rows, which are cardinalities, stay within their
limits (`RowsCounted`). `WalkInOrder` says that a key the walk began with is seen or lies after the
cursor, in the order of creation time and identifier; a row inserted later may sort
before the cursor, which is why only keys that were there at the beginning are
promised.

`IdentityProofs` also proves `GraphSafe` (`GraphIsSafe`) and that an identity changes
hands by a merge only (`IdentitiesChangeHandsByMerge`). `GraphInv` adds to the
property (`GraphSound`) the shapes of the rows, what an open intent froze
(`IntentsShaped`: the users of a merge differ, the frozen source belonged to one of
them, and frozen revisions are those of rows that existed), that an identity which
exists has an owner, and that a live token names a user, an identity and an
application.
What makes concurrent unlinks safe is the count under the graph lock, not the frozen
revisions: with the disposition `preserve` an unlink moves no user revision, so two
ready unlinks are both current, and the second is refused by `AnotherRemains` alone.
Merges form no chains because a winner can neither lose nor be disabled.

`AccessProofs` proves `HostedSafe` and `MagicSafe`. Of browsers: a cookie of an
interaction exists only in the jar of its binder or in an answer on its way to it, and
only the first bootstrap binds; so no reordering of answers gives two browsers the
cookie, and an answer that takes a cookie away was sent after the step the cookie is
for. Of links: while the owner is pending nothing is consumed, the submission that
completes it consumes one challenge and at most the one context it came through, and
every later one finds the owner completed. `ContextsBounded` counts what is usable by
the database's clock, which only shrinks as time passes, so that the test under the
challenge's lock, made with a replica's older reading, counts at least as many.

`SettingsProofs` proves `ConfigurationSafe`, `DeploymentSafe` and `ProjectionSafe`,
and of the steps that `DecisionsHold` is about all three shares
(`ConfigurationDecides`, `TerminationHolds`).

* Redirects and origins. A record is read in four statements, so what an operator
  holds may mix two configurations; `ReaderFits` says that it does not as long as the
  security revision, which is read first, is still the row's, and that is what a
  replacement compares. A sign-in under the row's revision has a redirect that is
  configured (`LoginFits`); the revision moves whenever a redirect goes.
  `RequestFits` says that a request past its checks had its origin allowed for its
  own Application at some moment: `seen` grows with every change of any Application
  while the request is under way, and only the lookups of that Application's origins
  let it pass.
* Deployment generations. `GenFits` ties a row to its credential: from the end of the
  registration to the retirement the envelope is live and is the one of the
  fingerprint. A start checks the credential long before it reconciles; it is safe
  because a generation leaves `active` and `retained` only with another eligibility
  (`Onwards`), which a pin compares, and because only `retired` erases and nothing
  activates it again. `OneActive` is a statement about two generations, from which
  the cardinality follows.
* Projections. While its Application is active a row shows the user as it is
  (`Shows`), so a repair by a reader is never a semantic change and every change of
  the user is one (`WhenSemantic`): that is why silence and announcement never mix.
  `KeptEmail` binds the ciphertext to the Application, the revision and the email the
  digest covers and makes it readable for every process, which needs that all rings
  read what any of them writes (`RingsFit`), the operators' discipline. The proof
  needs finitely many Applications, for the count of bindings, and a least key
  version, the initial one.

**Only model-checked.** Liveness (`BegunWorkEnds`) and everything that needs
`ENABLED`, which are out of the prover's reach. The safety properties of
`WebhookDelivery`, `ManagedConnection`, `ManagedReauthorization`,
`SigningRing`, `ProviderSecret`, `SmtpConfiguration`, `ControlSurface`,
`RemoteProfile`, `ServerProcess` and `Retention`, which have no proofs yet. In `IdentitiesMoveByRight` the shares of the
aggregate, the handlers and the graph are proved; that of the connections is not.

## 5. Plan

1. `WebhookSafe` and the refinement of `LeasedWork` by webhooks (`KeepsDeliveries`),
   as for mail; there a worker has no deadline of its own, and the fence is the lease
   token alone.
2. `NothingLiveGoes` of `Retention`, on top of `SessionInv`.
3. The composition of `MagicTransfer` with the login.

Not to be modelled: MCP plumbing, the web interface and the SDKs (any order of their
requests is allowed), configuration and migrations (before a process serves), audit
records (written, never read by a decision), cryptography (a wrong digest or
signature is a refusal without a change).
