-------------------------- MODULE IdentityMutation --------------------------
(***************************************************************************)
(* One identity mutation from its creation to its end, as the database     *)
(* handlers carry it: a browser proves every slot with a provider or with  *)
(* a mailed code, and an operator confirms.  Between two transactions of   *)
(* one request (a provider exchange, the protection of a new code, the     *)
(* check of a proof) every other request, operator and worker may run.     *)
(*                                                                         *)
(* A request carries the revision of the intent it has seen; one that      *)
(* differs from the row is refused without a change, so a request is only  *)
(* modelled with the current revision, except where a handler remembers    *)
(* one from its first transaction to its second.  Every handler ends an    *)
(* intent whose deadline has passed before it does anything else.  What    *)
(* the confirmation does to users and identities is IdentityGraph.         *)
(***************************************************************************)
EXTENDS ControlPlane, FiniteSetsExt

CONSTANTS
    Kinds, Methods,     \* the operations and proof methods of this instance
    IntentLife,         \* ten minutes
    ReceiptLife,        \* five minutes
    CodeLife,           \* otp_validity_seconds
    ResendAfter,        \* resend_after_seconds
    MaxGenerations,     \* max_generations of the email policy
    MaxAttempts,        \* otp_max_attempts
    MaxIntentRevision   \* bound on the intent's revision

MutationAssumption ==
    /\ Kinds \subseteq {"link", "unlink", "merge"} /\ Methods \subseteq {"provider", "email"}
    /\ {IntentLife, ReceiptLife, CodeLife, MaxGenerations, MaxAttempts} \subseteq Nat \ {0}
    /\ ResendAfter \in Nat /\ MaxIntentRevision \in Nat \ {0}

VARIABLES
    kind,       \* identity_mutation_intents.operation_kind
    method,     \* method[r]: identity_mutation_proof_slots.method_kind
    intent,     \* [status, revision, bound, expires, ended]
    slot,       \* slot[r]: identity_mutation_proof_slots.state
    receipt,    \* receipt[r]: identity_proof_receipts
    challenge,  \* challenge[r][g]: email_challenges, and the mail that carries the code
    evidence,   \* the roles with a row in identity_mutation_candidate_evidence
    created,    \* identity_mutation_create_results: "live" or "erased"
    exchange,   \* exchange[r]: the revision a callback handler claimed at, or 0
    prepared,   \* prepared[r]: the revision a new code is being protected for, or 0
    accepted    \* accepted[r]: the revision a proof was checked at, or 0

mutationVars == <<kind, method, intent, slot, receipt, challenge, evidence, created,
                  exchange, prepared, accepted>>
mutationAll == <<controlVars, mutationVars>>
inFlight == <<exchange, prepared, accepted>>

Live == {"pending_proof", "ready"}
Ended == {"completed", "expired", "cancelled"}
Generation == 1..MaxGenerations

\* derive_and_lock_slots: Control input names no role.
SlotRoles(k) == CASE k = "link"   -> {"destination_owner", "candidate_identity"}
                  [] k = "unlink" -> {"identity_owner"}
                  [] k = "merge"  -> {"winner_owner", "loser_owner"}

Role == SlotRoles(kind)

SlotStatus == {"pending", "provider_authorization_started", "provider_exchange_in_progress",
               "email_address_entry", "email_challenge_pending", "proved", "expired"}
ReceiptRow == [status : {"none", "issued", "consumed", "expired"}, issued : Nat,
               expires : Nat, captured : Nat]
ChallengeRow == [status : {"none", "pending", "delivery_unavailable", "superseded", "exhausted",
                           "consumed", "expired"},
                 attempts : 0..MaxAttempts, issued : Nat, expires : Nat,
                 mail : {"none", "queued", "leased", "sent", "spent", "cancelled"}]

MutationTypeOK ==
    /\ kind \in Kinds /\ method \in [Role -> Methods]
    /\ intent \in [status : Live \cup Ended, revision : 1..(MaxIntentRevision + 1),
                   bound : BOOLEAN, expires : Nat, ended : Nat]
    /\ slot \in [Role -> SlotStatus] /\ receipt \in [Role -> ReceiptRow]
    /\ challenge \in [Role -> [Generation -> ChallengeRow]]
    /\ evidence \subseteq {"candidate_identity"} /\ created \in {"live", "erased"}
    /\ {exchange, prepared, accepted} \subseteq [Role -> 0..(MaxIntentRevision + 1)]

NoReceipt == [status |-> "none", issued |-> 0, expires |-> 0, captured |-> 0]
NoChallenge == [status |-> "none", attempts |-> 0, issued |-> 0, expires |-> 0, mail |-> "none"]

\* create, with every owner at the revision it captures, 1.
MutationInit ==
    /\ ControlInit
    /\ kind \in Kinds /\ method \in [Role -> Methods]
    /\ intent = [status |-> "pending_proof", revision |-> 1, bound |-> FALSE,
                 expires |-> IntentLife, ended |-> 0]
    /\ slot = [r \in Role |-> "pending"] /\ receipt = [r \in Role |-> NoReceipt]
    /\ challenge = [r \in Role |-> [g \in Generation |-> NoChallenge]]
    /\ evidence = {} /\ created = "live"
    /\ exchange = [r \in Role |-> 0] /\ prepared = [r \in Role |-> 0]
    /\ accepted = [r \in Role |-> 0]

-----------------------------------------------------------------------------
(* What the handlers share *)

\* lock_receipts_effective_deadline: every receipt counts, whatever its status.
EffectiveDeadline ==
    Min({intent.expires} \cup {receipt[r].expires : r \in {q \in Role : receipt[q].status # "none"}})

Open == intent.status \in Live
InTime == now < EffectiveDeadline

\* require_pending_revision, and the bound that keeps the model finite.
RequirePending ==
    intent.status = "pending_proof" /\ InTime /\ intent.revision < MaxIntentRevision

\* snapshot_method: what the slot froze of its owners.
SlotOwners(r) ==
    {"metadata", "project", "application", "user", "profile"}
        \cup (IF method[r] = "provider" THEN {"provider", "egress"} ELSE {"email"})

\* revalidate_slot_authority.  An email slot under challenge also needs the challenge
\* whose SMTP configuration is compared.
SlotAuthority(r) ==
    /\ Current(SlotOwners(r), [o \in Owners |-> 1])
    /\ method[r] = "email" /\ slot[r] \in {"email_challenge_pending", "proved"} =>
          \E g \in Generation : challenge[r][g].status \in {"pending", "consumed"}

Bump == intent' = [intent EXCEPT !.revision = @ + 1]

\* Mail that nobody is delivering is withdrawn.
Withdrawn(row) ==
    IF row.mail = "queued" THEN [row EXCEPT !.mail = "cancelled"] ELSE row

Closed(row) ==
    IF row.status \in {"pending", "delivery_unavailable", "consumed"}
    THEN [Withdrawn(row) EXCEPT !.status = "expired"] ELSE Withdrawn(row)

\* terminalize: everything the intent holds ends with it; rows is what the handler has
\* written to the challenges before.
Terminalize(s, rows) ==
    /\ challenge' = [r \in Role |-> [g \in Generation |-> Closed(rows[r][g])]]
    /\ receipt' = [r \in Role |-> IF receipt[r].status = "issued"
                                  THEN [receipt[r] EXCEPT !.status = "expired"] ELSE receipt[r]]
    /\ slot' = [r \in Role |-> "expired"]
    /\ intent' = [intent EXCEPT !.status = s, !.revision = @ + 1, !.ended = now]
    /\ created' = "erased" /\ evidence' = {}
    /\ UNCHANGED <<controlVars, kind, method>>

\* expire_locked_if_needed, the first thing in every handler: reads, replays of the create
\* command, and requests of the browser, of the provider and of the operator.
ExpireLockedIfNeeded ==
    Open /\ ~InTime /\ Terminalize("expired", challenge) /\ UNCHANGED inFlight

CandidateEvidence(r) == evidence \cup ({r} \cap {"candidate_identity"})

\* prove_slot; rows is what the handler has written to the challenges before.
ProveSlot(r, rows) ==
    /\ slot' = [slot EXCEPT ![r] = "proved"]
    /\ receipt' = [receipt EXCEPT ![r] =
                     [status |-> "issued", issued |-> now, captured |-> intent.revision,
                      expires |-> Min({now + ReceiptLife, intent.expires})]]
    /\ evidence' = CandidateEvidence(r)
    /\ challenge' = rows /\ Bump
    /\ UNCHANGED <<controlVars, kind, method, created>>

MoveSlot(r, state) ==
    /\ slot' = [slot EXCEPT ![r] = state] /\ Bump
    /\ UNCHANGED <<controlVars, kind, method, receipt, evidence, created>>

-----------------------------------------------------------------------------
(* The browser and the provider *)

BindBrowser ==
    /\ RequirePending /\ ~intent.bound
    /\ intent' = [intent EXCEPT !.bound = TRUE, !.revision = @ + 1]
    /\ UNCHANGED <<controlVars, kind, method, slot, receipt, challenge, evidence, created, inFlight>>

StartProvider(r) ==
    /\ RequirePending /\ intent.bound /\ method[r] = "provider" /\ slot[r] = "pending"
    /\ SlotAuthority(r) /\ MoveSlot(r, "provider_authorization_started")
    /\ UNCHANGED <<challenge, inFlight>>

\* A repeated callback finds another state and changes nothing.
ClaimProviderCallback(r) ==
    /\ slot[r] = "provider_authorization_started" /\ InTime
    /\ IF SlotAuthority(r)
       THEN /\ intent.revision < MaxIntentRevision
            /\ MoveSlot(r, "provider_exchange_in_progress")
            /\ exchange' = [exchange EXCEPT ![r] = intent.revision + 1]
            /\ UNCHANGED challenge
       ELSE Terminalize("cancelled", challenge) /\ UNCHANGED exchange
    /\ UNCHANGED <<prepared, accepted>>

DenyProviderCallback(r) ==
    /\ slot[r] = "provider_authorization_started" /\ InTime
    /\ Terminalize("cancelled", challenge) /\ UNCHANGED inFlight

CompleteProviderCallback(r) ==
    /\ exchange[r] = intent.revision /\ RequirePending
    /\ slot[r] = "provider_exchange_in_progress" /\ SlotAuthority(r)
    /\ ProveSlot(r, challenge)
    /\ exchange' = [exchange EXCEPT ![r] = 0] /\ UNCHANGED <<prepared, accepted>>

\* The exchange, the identity or the completion was refused.  An intent that moved on
\* since the claim is left to whoever moved it.
FailProviderCallback(r) ==
    /\ exchange[r] # 0
    /\ IF Open /\ ~InTime THEN Terminalize("expired", challenge)
       ELSE IF slot[r] = "provider_exchange_in_progress" /\ exchange[r] = intent.revision
            THEN Terminalize("cancelled", challenge)
            ELSE UNCHANGED <<controlVars, kind, method, intent, slot, receipt, challenge,
                             evidence, created>>
    /\ exchange' = [exchange EXCEPT ![r] = 0] /\ UNCHANGED <<prepared, accepted>>

-----------------------------------------------------------------------------
(* The mailed code *)

Issued(r) == {g \in Generation : challenge[r][g].status # "none"}
Newest(r) == Cardinality(Issued(r))

BeginEmail(r) ==
    /\ RequirePending /\ intent.bound /\ method[r] = "email" /\ slot[r] = "pending"
    /\ SlotAuthority(r) /\ MoveSlot(r, "email_address_entry")
    /\ UNCHANGED <<challenge, inFlight>>

\* The limits of the email policy on a further generation.
GenerationAdmitted(r) ==
    /\ Newest(r) < MaxGenerations
    /\ \A g \in Issued(r) : now >= challenge[r][g].issued + ResendAfter

EmailOpen(r) ==
    /\ RequirePending /\ slot[r] \in {"email_address_entry", "email_challenge_pending"}
    /\ SlotAuthority(r) /\ GenerationAdmitted(r)

PrepareEmailGeneration(r) ==
    /\ EmailOpen(r) /\ prepared[r] = 0
    /\ prepared' = [prepared EXCEPT ![r] = intent.revision]
    /\ UNCHANGED <<controlVars, kind, method, intent, slot, receipt, challenge, evidence,
                   created, exchange, accepted>>

\* The earlier generations lose their mail and their use; the new one is mailed, or it is
\* suppressed (authorize_mail_delivery) and has no mail.
NextGeneration(r, dispatch) ==
    [g \in Generation |->
       IF g = Newest(r) + 1
       THEN [status |-> IF dispatch THEN "pending" ELSE "delivery_unavailable", attempts |-> 0,
             issued |-> now, expires |-> Min({now + CodeLife, intent.expires}),
             mail |-> IF dispatch THEN "queued" ELSE "none"]
       ELSE LET row == Withdrawn(challenge[r][g])
            IN  IF row.status \in {"pending", "delivery_unavailable"}
                THEN [row EXCEPT !.status = "superseded"] ELSE row]

CommitEmailGeneration(r, dispatch) ==
    /\ prepared[r] = intent.revision /\ EmailOpen(r)
    /\ challenge' = [challenge EXCEPT ![r] = NextGeneration(r, dispatch)]
    /\ MoveSlot(r, "email_challenge_pending")
    /\ prepared' = [prepared EXCEPT ![r] = 0] /\ UNCHANGED <<exchange, accepted>>

\* The challenge a proof can be given for, and its end.
Pending(r) == slot[r] = "email_challenge_pending" /\ challenge[r][Newest(r)].status = "pending"
CodeAlive(r) == now < challenge[r][Newest(r)].expires

\* What verify and complete both ask of the intent, the challenge and the owners.
Verifiable(r) ==
    intent.status = "pending_proof" /\ InTime /\ Pending(r) /\ CodeAlive(r) /\ SlotAuthority(r)

\* email_proof_key_version, verify and complete, and both magic-link requests, find the code
\* past its end: the whole intent ends.
ChallengeTimedOut(r) ==
    /\ intent.status = "pending_proof" /\ InTime /\ Pending(r) /\ ~CodeAlive(r)
    /\ Terminalize("expired", challenge) /\ UNCHANGED inFlight

WrongCode(r) ==
    LET g == Newest(r)
        attempts == challenge[r][g].attempts + 1
        rows == [challenge EXCEPT ![r][g].attempts = attempts,
                                  ![r][g].status = IF attempts >= MaxAttempts THEN "exhausted" ELSE @]
    IN  /\ Verifiable(r)
        /\ IF attempts >= MaxAttempts
           THEN Terminalize("cancelled", rows)
           ELSE /\ challenge' = rows
                /\ UNCHANGED <<controlVars, kind, method, intent, slot, receipt, evidence, created>>
        /\ UNCHANGED inFlight

\* verify_email_proof accepts and remembers; nothing is written.
VerifyEmailProof(r) ==
    /\ Verifiable(r) /\ accepted[r] = 0
    /\ accepted' = [accepted EXCEPT ![r] = intent.revision]
    /\ UNCHANGED <<controlVars, kind, method, intent, slot, receipt, challenge, evidence,
                   created, exchange, prepared>>

CompleteEmailProof(r) ==
    /\ accepted[r] = intent.revision /\ RequirePending /\ Verifiable(r)
    /\ ProveSlot(r, [challenge EXCEPT ![r][Newest(r)].status = "consumed"])
    /\ accepted' = [accepted EXCEPT ![r] = 0] /\ UNCHANGED <<exchange, prepared>>

\* The process stops, or the second transaction is refused, between the two.
LoseRequest(r) ==
    /\ exchange[r] # 0 \/ prepared[r] # 0 \/ accepted[r] # 0
    /\ exchange' = [exchange EXCEPT ![r] = 0] /\ prepared' = [prepared EXCEPT ![r] = 0]
    /\ accepted' = [accepted EXCEPT ![r] = 0]
    /\ UNCHANGED <<controlVars, kind, method, intent, slot, receipt, challenge, evidence, created>>

\* The mail workers (MailDelivery): a claim, and how it ends.  "spent" is the last attempt
\* allowed, whatever became of it.
MailStep(r, g) ==
    /\ \/ /\ challenge[r][g].mail = "queued" /\ challenge[r][g].status = "pending"
          /\ now < challenge[r][g].expires
          /\ challenge' = [challenge EXCEPT ![r][g].mail = "leased"]
       \/ /\ challenge[r][g].mail = "leased"
          /\ \E m \in {"queued", "sent", "spent"} :
                challenge' = [challenge EXCEPT ![r][g].mail = m]
    /\ UNCHANGED <<controlVars, kind, method, intent, slot, receipt, evidence, created, inFlight>>

-----------------------------------------------------------------------------
(* The confirmations and the sweep *)

ConfirmReadyMutant ==
    /\ RequirePending
    /\ \E r \in Role : slot[r] = "proved" /\ receipt[r].status = "issued"
    /\ intent' = [intent EXCEPT !.status = "ready", !.revision = @ + 1]
    /\ UNCHANGED <<controlVars, kind, method, slot, receipt, challenge, evidence, created, inFlight>>

ConfirmReady ==
    /\ RequirePending
    /\ \A r \in Role : slot[r] = "proved" /\ receipt[r].status = "issued"
    /\ intent' = [intent EXCEPT !.status = "ready", !.revision = @ + 1]
    /\ UNCHANGED <<controlVars, kind, method, slot, receipt, challenge, evidence, created, inFlight>>

CancelIntent == Open /\ InTime /\ Terminalize("cancelled", challenge) /\ UNCHANGED inFlight

\* require_live_ready and revalidate_final_authority.  Its first transaction,
\* prepare_control_confirmation, only reads, and nothing but an end follows on "ready".
LiveReady ==
    /\ intent.status = "ready" /\ InTime
    /\ \A r \in Role : slot[r] = "proved" /\ receipt[r].status = "issued" /\ SlotAuthority(r)

ConfirmControlMutant ==
    /\ LiveReady
    /\ receipt' = [r \in Role |-> [receipt[r] EXCEPT !.status = "consumed"]]
    /\ intent' = [intent EXCEPT !.status = "completed", !.revision = @ + 1, !.ended = now]
    /\ created' = "erased"
    /\ UNCHANGED <<controlVars, kind, method, slot, challenge, evidence, inFlight>>

ConfirmControl ==
    /\ LiveReady
    /\ receipt' = [r \in Role |-> [receipt[r] EXCEPT !.status = "consumed"]]
    /\ intent' = [intent EXCEPT !.status = "completed", !.revision = @ + 1, !.ended = now]
    /\ created' = "erased" /\ evidence' = {}
    /\ UNCHANGED <<controlVars, kind, method, slot, challenge, inFlight>>

\* A merge that would leave too many bindings ends instead.
BindingLimitExceeded ==
    kind = "merge" /\ LiveReady /\ Terminalize("cancelled", challenge) /\ UNCHANGED inFlight

\* terminalize_due_identity_mutations: also for a code past its end, and for any mail of
\* the intent, of whatever generation, that is no longer of use.
Due ==
    \/ ~InTime
    \/ \E r \in Role, g \in Generation :
          \/ challenge[r][g].status = "pending" /\ challenge[r][g].expires <= now
          \/ /\ challenge[r][g].mail \notin {"none", "leased"}
             /\ challenge[r][g].mail = "spent" \/ challenge[r][g].expires <= now

TerminalizeDue ==
    Open /\ Due /\ Terminalize("expired", challenge) /\ UNCHANGED inFlight

-----------------------------------------------------------------------------

ProviderStep(r) ==
    \/ StartProvider(r) \/ ClaimProviderCallback(r) \/ DenyProviderCallback(r)
    \/ CompleteProviderCallback(r) \/ FailProviderCallback(r)

NewCode(r) ==
    \/ BeginEmail(r) \/ PrepareEmailGeneration(r)
    \/ \E dispatch \in BOOLEAN : CommitEmailGeneration(r, dispatch)

EmailStep(r) ==
    \/ NewCode(r)
    \/ ChallengeTimedOut(r) \/ WrongCode(r) \/ VerifyEmailProof(r) \/ CompleteEmailProof(r)
    \/ \E g \in Generation : MailStep(r, g)

IntentStep ==
    \/ ExpireLockedIfNeeded \/ BindBrowser \/ ConfirmReady \/ CancelIntent
    \/ ConfirmControl \/ BindingLimitExceeded \/ TerminalizeDue

MutationNext ==
    \/ ControlNext /\ UNCHANGED mutationVars
    \/ IntentStep
    \/ \E r \in Role : ProviderStep(r) \/ EmailStep(r) \/ LoseRequest(r)

MutationSpec == MutationInit /\ [][MutationNext]_mutationAll

\* The maintenance of the mail workers sweeps in every round.
PassTime == Tick /\ UNCHANGED mutationVars

\* Every intent ends, although browsers, providers and handlers do not come back.
IntentOpen == intent.status \notin Ended

-----------------------------------------------------------------------------
(* Properties *)

\* The sweep may end an intent before its deadline; the aggregate has no such end, and an
\* operator's cancellation is the nearest.
AggregateStatus ==
    IF intent.status = "expired" /\ intent.ended < EffectiveDeadline
    THEN "cancelled" ELSE intent.status

Aggregate == INSTANCE MutationAggregate
    WITH expires <- intent.expires, status <- AggregateStatus, revision <- intent.revision,
         bound <- intent.bound, MaxRevision <- MaxIntentRevision

\* The handlers of the database, with their two-step requests, resends, refusals and the
\* sweep, do nothing to an intent that the domain aggregate does not allow.
KeepsAggregate == [Aggregate!AggregateNext]_(Aggregate!aggregateVars)

\* So the operation is carried out while every proof is fresh, and the intent ends once.
MovesByRight == KeepsAggregate /\ Aggregate!MovesByRight

\* What the deferred trigger on email_challenges demands at every commit: a handler that
\* left a slot without its challenge, or a challenge without its slot, could never commit.
ChallengeFollowsSlot ==
    \A r \in Role, g \in Generation :
        /\ challenge[r][g].status \in {"pending", "delivery_unavailable"} =>
              /\ intent.status = "pending_proof" /\ slot[r] = "email_challenge_pending"
              /\ g = Newest(r)
        /\ challenge[r][g].status = "consumed" =>
              slot[r] = "proved" /\ g = Newest(r) /\ intent.status \in {"pending_proof", "ready", "completed"}
        /\ slot[r] = "email_challenge_pending" =>
              challenge[r][Newest(r)].status \in {"pending", "delivery_unavailable"}

\* However an intent ends, nothing that could authenticate a request, prove an identity or
\* carry a code is left of it, except the mail a worker is already sending.
NothingLeftBehind ==
    intent.status \in Ended =>
        /\ created = "erased" /\ evidence = {}
        /\ \A r \in Role : /\ receipt[r].status # "issued"
                           /\ \A g \in Generation : challenge[r][g].status # "pending"

MutationSafe == MutationTypeOK /\ ChallengeFollowsSlot /\ NothingLeftBehind

=============================================================================
