------------------------- MODULE MutationAggregate -------------------------
(***************************************************************************)
(* What an identity mutation promises, as the domain aggregate states it   *)
(* (domain/identity_mutation.rs): an operator's intent to link, unlink or  *)
(* merge is carried out at most once, after every identity concerned has   *)
(* been proved afresh in one bound browser, and before any of the proofs   *)
(* or the intent itself is too old.                                        *)
(*                                                                         *)
(* The database handlers do not call this aggregate; IdentityMutation      *)
(* models them and is shown to implement it.                               *)
(***************************************************************************)
EXTENDS Naturals, FiniteSetsExt

CONSTANTS
    Kinds,        \* the operations of this instance
    IntentLife,   \* MAX_INTENT_LIFETIME, ten minutes
    ReceiptLife,  \* MAX_RECEIPT_LIFETIME, five minutes
    MaxTime,      \* bound on the clock
    MaxRevision   \* bound on the intent's revision

AggregateAssumption ==
    /\ Kinds \subseteq {"link", "unlink", "merge"}
    /\ IntentLife \in Nat \ {0} /\ ReceiptLife \in Nat \ {0}
    /\ MaxTime \in Nat /\ MaxRevision \in Nat

VARIABLES
    now,
    kind,      \* the operation, for good
    method,    \* method[r]: how the slot of role r is to be proved, for good
    expires,   \* the intent's own deadline
    status,
    revision,
    bound,     \* a browser is bound
    slot,      \* slot[r]: the state of the proof slot of role r
    receipt    \* receipt[r]: what proving the slot left

aggregateVars == <<now, kind, method, expires, status, revision, bound, slot, receipt>>

\* derive_slots: the roles follow from the operation and nothing else.
Roles(k) == CASE k = "link"   -> {"destination_owner", "candidate_identity"}
              [] k = "unlink" -> {"identity_owner"}
              [] k = "merge"  -> {"winner_owner", "loser_owner"}

Method == {"provider", "email"}
Final == {"completed", "expired", "cancelled"}
Status == {"pending_proof", "ready"} \cup Final
ProviderState == {"provider_authorization_started", "provider_exchange_in_progress",
                  "provider_exchange_failed"}
EmailState == {"email_address_entry", "email_challenge_pending"}
SlotState == {"pending", "proved", "expired"} \cup ProviderState \cup EmailState
ReceiptStatus == {"none", "issued", "consumed", "expired"}
NoReceipt == [status |-> "none", issued |-> 0, expires |-> 0, captured |-> 0]

AggregateTypeOK ==
    /\ now \in Nat /\ expires \in Nat /\ revision \in Nat \ {0}
    /\ kind \in Kinds /\ method \in [Roles(kind) -> Method]
    /\ status \in Status /\ bound \in BOOLEAN
    /\ slot \in [Roles(kind) -> SlotState]
    /\ receipt \in [Roles(kind) -> [status : ReceiptStatus, issued : Nat, expires : Nat,
                                    captured : Nat]]

AggregateInit ==
    /\ now = 0
    /\ kind \in Kinds /\ method \in [Roles(kind) -> Method]
    /\ expires \in 1..IntentLife
    /\ status = "pending_proof" /\ revision = 1 /\ bound = FALSE
    /\ slot = [r \in Roles(kind) |-> "pending"]
    /\ receipt = [r \in Roles(kind) |-> NoReceipt]

-----------------------------------------------------------------------------

Received == {r \in Roles(kind) : receipt[r].status # "none"}

\* effective_confirmation_deadline: the first of the intent and its receipts to end.
AliveAt(t) == t < expires /\ \A r \in Received : t < receipt[r].expires

Frozen == UNCHANGED <<now, kind, method, expires>>

\* ensure_pending, the case in which the operation goes on.
EnsurePending == status = "pending_proof" /\ AliveAt(now) /\ revision < MaxRevision

BindBrowser ==
    /\ EnsurePending /\ ~bound
    /\ \A r \in Roles(kind) : slot[r] = "pending" /\ receipt[r].status = "none"
    /\ bound' = TRUE /\ revision' = revision + 1
    /\ Frozen /\ UNCHANGED <<status, slot, receipt>>

TransitionSlot(r, m, from, to) ==
    /\ EnsurePending /\ bound /\ method[r] = m /\ slot[r] \in from
    /\ slot' = [slot EXCEPT ![r] = to] /\ revision' = revision + 1
    /\ Frozen /\ UNCHANGED <<status, bound, receipt>>

StartProvider(r) ==
    TransitionSlot(r, "provider", {"pending"}, "provider_authorization_started")

ClaimProviderCallback(r) ==
    TransitionSlot(r, "provider", {"provider_authorization_started"},
                   "provider_exchange_in_progress")

FailProviderExchange(r) ==
    TransitionSlot(r, "provider",
                   {"provider_authorization_started", "provider_exchange_in_progress"},
                   "provider_exchange_failed")

BeginEmail(r) == TransitionSlot(r, "email", {"pending"}, "email_address_entry")

MarkEmailChallengePending(r) ==
    TransitionSlot(r, "email", {"email_address_entry"}, "email_challenge_pending")

ReplaceEmailChallenge(r) ==
    TransitionSlot(r, "email", {"email_challenge_pending"}, "email_challenge_pending")

\* validate_receipt_for_slot leaves the issuer any lifetime within the limits.
AttachReceipt(r) ==
    /\ EnsurePending /\ bound /\ receipt[r].status = "none"
    /\ slot[r] \in {"provider_exchange_in_progress", "email_challenge_pending"}
    /\ \E e \in (now + 1)..(now + ReceiptLife) :
          /\ e <= expires
          /\ receipt' = [receipt EXCEPT ![r] = [status |-> "issued", issued |-> now,
                                                expires |-> e, captured |-> revision]]
    /\ slot' = [slot EXCEPT ![r] = "proved"] /\ revision' = revision + 1
    /\ Frozen /\ UNCHANGED <<status, bound>>

ConfirmReady ==
    /\ EnsurePending
    /\ \A r \in Roles(kind) : slot[r] = "proved" /\ receipt[r].status = "issued"
    /\ status' = "ready" /\ revision' = revision + 1
    /\ Frozen /\ UNCHANGED <<bound, slot, receipt>>

Complete ==
    /\ status = "ready" /\ AliveAt(now)
    /\ \A r \in Roles(kind) : receipt[r].status = "issued"
    /\ receipt' = [r \in Roles(kind) |-> [receipt[r] EXCEPT !.status = "consumed"]]
    /\ status' = "completed" /\ revision' = revision + 1
    /\ Frozen /\ UNCHANGED <<bound, slot>>

Terminalize(s) ==
    /\ status' = s /\ revision' = revision + 1
    /\ slot' = [r \in Roles(kind) |-> "expired"]
    /\ receipt' = [r \in Roles(kind) |->
                     IF receipt[r].status = "issued"
                     THEN [receipt[r] EXCEPT !.status = "expired"] ELSE receipt[r]]
    /\ Frozen /\ UNCHANGED bound

Cancel == status \notin Final /\ AliveAt(now) /\ Terminalize("cancelled")

\* Also what every other operation does when it finds the deadline past.
Expire == status \notin Final /\ ~AliveAt(now) /\ Terminalize("expired")

Pass ==
    /\ now < MaxTime /\ now' = now + 1
    /\ UNCHANGED <<kind, method, expires, status, revision, bound, slot, receipt>>

SlotStep(r) ==
    \/ StartProvider(r) \/ ClaimProviderCallback(r) \/ FailProviderExchange(r)
    \/ BeginEmail(r) \/ MarkEmailChallengePending(r) \/ ReplaceEmailChallenge(r)
    \/ AttachReceipt(r)

AggregateNext ==
    \/ Pass \/ BindBrowser \/ ConfirmReady \/ Complete \/ Cancel \/ Expire
    \/ \E r \in Roles(kind) : SlotStep(r)

AggregateSpec == AggregateInit /\ [][AggregateNext]_aggregateVars

-----------------------------------------------------------------------------

\* One slot and its receipt, as validate_restored reads them back.
SlotRestorable(r) ==
    /\ slot[r] \in EmailState => method[r] = "email"
    /\ slot[r] \in ProviderState => method[r] = "provider"
    /\ receipt[r].status # "none" =>
          /\ receipt[r].captured < revision /\ bound
          /\ receipt[r].issued < receipt[r].expires
          /\ receipt[r].expires <= receipt[r].issued + ReceiptLife
          /\ receipt[r].expires <= expires
    /\ CASE receipt[r].status = "issued"   -> slot[r] = "proved" /\ status \in {"pending_proof", "ready"}
         [] receipt[r].status = "consumed" -> slot[r] = "proved" /\ status = "completed"
         [] receipt[r].status = "expired"  -> slot[r] = "expired" /\ status \in {"expired", "cancelled"}
         [] OTHER -> /\ slot[r] # "proved"
                     /\ slot[r] = "expired" => status \in {"expired", "cancelled"}

\* validate_restored: every state an operation leaves is one the aggregate accepts
\* when it is read back, so no sequence of operations makes an intent unreadable.
Restorable ==
    /\ \A r \in Roles(kind) : SlotRestorable(r)
    /\ bound => revision > 1
    /\ ~bound => /\ status \in {"pending_proof", "expired", "cancelled"}
                 /\ \A r \in Roles(kind) : slot[r] \in {"pending", "expired"}
    /\ status \in {"ready", "completed"} => \A r \in Roles(kind) : slot[r] = "proved"
    /\ status \in {"expired", "cancelled"} => \A r \in Roles(kind) : slot[r] = "expired"

\* complete: the operation is carried out while every proof is fresh and all of them
\* were given within one receipt's lifetime of each other.
CompletedWithFreshProofs ==
    status # "completed" /\ status' = "completed" =>
        \A r \in Roles(kind) : /\ now < receipt[r].expires
                               /\ \A q \in Roles(kind) : receipt[q].issued < receipt[r].expires

\* terminalize: an intent that ended stays as it ended, whatever arrives late.
EndsOnce ==
    status \in Final => UNCHANGED <<status, revision, slot, receipt>>

\* What the states and the steps of an intent keep to.
MutationSafe == AggregateTypeOK /\ Restorable
MovesByRight == CompletedWithFreshProofs /\ EndsOnce
=============================================================================
