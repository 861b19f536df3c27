-------------------------- MODULE LoginTransaction --------------------------
(***************************************************************************)
(* One login, from its start to the exchange of its handoff ticket.        *)
(*                                                                         *)
(* A login is a row of login_transactions.  Every request locks that row,  *)
(* so each handler below is one atomic step; what interleaves is the       *)
(* sequence of requests, and the provider callback, which claims the login *)
(* in one transaction, talks to the provider without any lock, and comes   *)
(* back in a second transaction.  The only thing that ties the second to   *)
(* the first is the transaction revision it remembers.                     *)
(*                                                                         *)
(*   login      login_transactions                                         *)
(*   challenge  the newest row of email_challenges of the login            *)
(*   ticket     handoff_tickets (at most one for a login)                  *)
(*   callback   provider callback requests in flight: process memory       *)
(*                                                                         *)
(* Digests, PKCE and CSRF values are not modelled: a request that presents *)
(* wrong ones is refused without a change.                                 *)
(***************************************************************************)
EXTENDS HandoffTicket

CONSTANTS
    Callback,
    LoginLifetime,    \* LOGIN_TTL
    AbandonAfter,     \* age at which a claimed exchange counts as abandoned
    ChallengeLifetime, ResendAfter, MaxGenerations, OtpMaxAttempts,
    LastStart         \* bound: no login starts later

ASSUME LoginAssumption ==
    /\ {LoginLifetime, ChallengeLifetime} \subseteq Nat \ {0}
    /\ {AbandonAfter, ResendAfter, LastStart} \subseteq Nat
    /\ {MaxGenerations, OtpMaxAttempts} \subseteq Nat \ {0}
    /\ "none" \notin Login

VARIABLES login, challenge, callback

loginVars == <<login, challenge, ticket, callback>>
vars == <<controlVars, loginVars>>

-----------------------------------------------------------------------------
(* Types *)

\* "authenticated" and "cancelled" are statuses of the domain type that no
\* transaction stores.
Status ==
    {"absent", "awaiting_browser_binding", "awaiting_method_selection",
     "email_address_entry", "email_challenge_pending",
     "provider_authorization_started", "provider_exchange_in_progress",
     "handoff_issued", "provider_exchange_failed", "completed", "expired"}

Method == {"none", "provider", "email", "session_reuse"}

LoginRow == [status : Status, revision : Nat, expires : Nat, updated : Nat,
             snap : OwnerSnapshot, method : Method]

ChallengeRow == [generation : Nat, attempts : Nat, issued : Nat, expires : Nat,
                 status : {"none", "pending", "delivery_unavailable",
                           "exhausted", "consumed"}]

\* A callback that has claimed a login keeps its name and the revision it left.
CallbackRequest ==
    [pc : {"idle", "exchanging", "failing", "issued", "ended"},
     login : Login \cup {"none"}, revision : Nat]

LoginTypeOK ==
    /\ ControlTypeOK
    /\ login \in [Login -> LoginRow]
    /\ challenge \in [Login -> ChallengeRow]
    /\ TicketTypeOK
    /\ callback \in [Callback -> CallbackRequest]

LoginInit ==
    /\ ControlInit
    /\ login = [l \in Login |->
                  [status |-> "absent", revision |-> 0, expires |-> 0,
                   updated |-> 0, snap |-> Snapshot, method |-> "none"]]
    /\ challenge = [l \in Login |->
                  [generation |-> 0, attempts |-> 0, issued |-> 0,
                   expires |-> 0, status |-> "none"]]
    /\ TicketInit
    /\ callback = [c \in Callback |->
                  [pc |-> "idle", login |-> "none", revision |-> 0]]

-----------------------------------------------------------------------------
(* What the handlers share.  A definition whose name ends in Mutant is the    *)
(* next one with a fault put in; no specification uses it.                    *)

ApplicationOwners == {"metadata", "project", "application", "policy"}
ProviderOwners    == ApplicationOwners \cup {"provider", "egress"}
\* Selecting and sending compare everything but the Project's policy revisions.
EmailOwners       == {"metadata", "project", "application", "email"}

Terminal == {"provider_exchange_failed", "completed", "expired"}

\* The login is in this status and unexpired at the handler's clock reading.
OpenMutant(l, status, t) == login[l].status # "absent" /\ login[l].expires > t
Open(l, status, t) == login[l].status = status /\ login[l].expires > t

\* One committed update of the row.
Advance(l, status, method, t) ==
    login' = [login EXCEPT ![l].status = status, ![l].method = method,
                           ![l].revision = @ + 1, ![l].updated = t]

\* expire_login, which every handler but the email ones runs before it looks
\* at the status.
ExpireLogin(l, t) ==
    /\ login[l].status \notin Terminal \cup {"absent"}
    /\ login[l].expires <= t
    /\ Advance(l, "expired", login[l].method, t)
    /\ UNCHANGED <<challenge, ticket>>

\* What insert_handoff copies from the login, with the user's revision.
HandoffSnapshot(l, method) ==
    [o \in TicketOwners |->
        CASE o = "user" -> owner["user"].revision
          [] o = "provider" /\ method # "provider" -> 0
          [] OTHER -> login[l].snap[o]]

InsertHandoffMutant(l, method, t) ==
    IssueTicket(l, t + HandoffLifetime, HandoffSnapshot(l, method))
InsertHandoff(l, method, t) ==
    IssueTicket(l, Lesser(t + HandoffLifetime, login[l].expires), HandoffSnapshot(l, method))

-----------------------------------------------------------------------------
(* From the start of the login to a method *)

\* The revisions presented are those of an earlier read; they are compared
\* under lock and stored.
CreateLoginTransaction(l, t) ==
    /\ now <= LastStart
    /\ login[l].status = "absent"
    /\ Active("project") /\ Active("application")
    /\ Active("provider") \/ Active("email")
    /\ login' = [login EXCEPT ![l] =
                    [status |-> "awaiting_browser_binding", revision |-> 1,
                     expires |-> t + LoginLifetime, updated |-> t,
                     snap |-> Snapshot, method |-> "none"]]
    /\ UNCHANGED <<controlVars, challenge, ticket, callback>>

BindHostedBrowser(l, t) ==
    /\ \/ ExpireLogin(l, t)
       \/ /\ Open(l, "awaiting_browser_binding", t)
          /\ Advance(l, "awaiting_method_selection", "none", t)
          /\ UNCHANGED <<challenge, ticket>>
    /\ UNCHANGED <<controlVars, callback>>

SelectProviderMethod(l, t) ==
    /\ \/ ExpireLogin(l, t)
       \/ /\ Open(l, "awaiting_method_selection", t)
          /\ Current(ProviderOwners, login[l].snap)
          /\ Advance(l, "provider_authorization_started", "provider", t)
          /\ UNCHANGED <<challenge, ticket>>
    /\ UNCHANGED <<controlVars, callback>>

SelectEmailMethod(l, t) ==
    /\ Open(l, "awaiting_method_selection", t)
    /\ Current(EmailOwners, login[l].snap)
    /\ Advance(l, "email_address_entry", "email", t)
    /\ UNCHANGED <<controlVars, challenge, ticket, callback>>

-----------------------------------------------------------------------------
(* The email method *)

\* A new generation replaces the one before it.  The resend interval and the
\* times of the row are read from the database, the expiry from the request.
CommitEmailGeneration(l, t) ==
    /\ \E s \in {"email_address_entry", "email_challenge_pending"} : Open(l, s, t)
    /\ challenge[l].generation < MaxGenerations
    /\ challenge[l].generation = 0 \/ now >= challenge[l].issued + ResendAfter
    /\ Current(EmailOwners, login[l].snap)
    /\ \E delivery \in {"pending", "delivery_unavailable"} :
          challenge' = [challenge EXCEPT ![l] =
              [generation |-> @.generation + 1, attempts |-> 0, issued |-> t,
               expires |-> Lesser(t + ChallengeLifetime, login[l].expires),
               status |-> delivery]]
    /\ Advance(l, "email_challenge_pending", "email", now)
    /\ UNCHANGED <<controlVars, ticket, callback>>

\* What both the check and the use of a proof require.
ProofAdmitted(l, g, t) ==
    /\ Open(l, "email_challenge_pending", t)
    /\ g = challenge[l].generation
    /\ challenge[l].status = "pending" /\ challenge[l].expires > t
    /\ Current(EmailOwners \cup {"policy"}, login[l].snap)

\* verify_email_proof with a wrong code.  A right one changes nothing here.
RejectOtpMutant(l, g, t) ==
    /\ ProofAdmitted(l, g, t)
    /\ challenge' = [challenge EXCEPT
          ![l].attempts = @ + 1,
          ![l].status = IF challenge[l].attempts + 1 > OtpMaxAttempts
                        THEN "exhausted" ELSE @]
    /\ UNCHANGED <<controlVars, login, ticket, callback>>
RejectOtp(l, g, t) ==
    /\ ProofAdmitted(l, g, t)
    /\ challenge' = [challenge EXCEPT
          ![l].attempts = @ + 1,
          ![l].status = IF challenge[l].attempts + 1 >= OtpMaxAttempts
                        THEN "exhausted" ELSE @]
    /\ UNCHANGED <<controlVars, login, ticket, callback>>

CompleteEmailProof(l, g, t) ==
    /\ ProofAdmitted(l, g, t)
    /\ Active("user")
    /\ challenge' = [challenge EXCEPT ![l].status = "consumed"]
    /\ InsertHandoff(l, "email", t)
    /\ Advance(l, "handoff_issued", "email", t)
    /\ UNCHANGED <<controlVars, callback>>

-----------------------------------------------------------------------------
(* Reuse of a browser session, whose own guards are in SessionAuthority *)

ConfirmBrowserSessionReuse(l, t) ==
    /\ \/ ExpireLogin(l, t)
       \/ /\ Open(l, "awaiting_method_selection", t)
          /\ Current(ApplicationOwners, login[l].snap) /\ Active("user")
          /\ InsertHandoff(l, "session_reuse", t)
          /\ Advance(l, "handoff_issued", "session_reuse", t)
          /\ UNCHANGED challenge
    /\ UNCHANGED <<controlVars, callback>>

-----------------------------------------------------------------------------
(* The provider method *)

ClaimProviderCallback(c, l, t) ==
    /\ callback[c].pc = "idle"
    /\ login[l].method = "provider"
    /\ \/ /\ ExpireLogin(l, t)
          /\ callback' = [callback EXCEPT ![c].pc = "ended"]
       \/ /\ Open(l, "provider_authorization_started", t)
          /\ Current(ProviderOwners, login[l].snap)
          /\ Advance(l, "provider_exchange_in_progress", "provider", t)
          /\ callback' = [callback EXCEPT ![c] =
                [pc |-> "exchanging", login |-> l, revision |-> login[l].revision + 1]]
          /\ UNCHANGED <<challenge, ticket>>
    /\ UNCHANGED controlVars

DenyProviderCallback(l, t) ==
    /\ login[l].method = "provider"
    /\ \/ ExpireLogin(l, t)
       \/ /\ Open(l, "provider_authorization_started", t)
          /\ Current(ProviderOwners, login[l].snap)
          /\ Advance(l, "provider_exchange_failed", "provider", t)
          /\ UNCHANGED <<challenge, ticket>>
    /\ UNCHANGED <<controlVars, callback>>

\* exchange_and_complete_provider ends with an error that left the database as
\* it was: no secret, no answer, a wrong nonce, a failed transaction.
ProviderExchangeError(c) ==
    /\ callback[c].pc = "exchanging"
    /\ callback' = [callback EXCEPT ![c].pc = "failing"]
    /\ UNCHANGED <<controlVars, login, challenge, ticket>>

\* Why a completion that still finds the exchange in progress is turned into a
\* failure of the login.
CompletionRefused(c, l) ==
    \/ login[l].revision # callback[c].revision
    \/ ~Current(ProviderOwners, login[l].snap)
    \/ ~Active("user")

CompleteAuthenticatedIdentity(c, t) ==
    LET l == callback[c].login
    IN  /\ callback[c].pc = "exchanging"
        /\ \/ /\ ExpireLogin(l, t)
              /\ callback' = [callback EXCEPT ![c].pc = "failing"]
              /\ UNCHANGED controlVars
           \/ /\ Open(l, "provider_exchange_in_progress", t)
              /\ CompletionRefused(c, l)
              /\ Advance(l, "provider_exchange_failed", "provider", t)
              /\ callback' = [callback EXCEPT ![c].pc = "failing"]
              /\ UNCHANGED <<controlVars, challenge, ticket>>
           \/ /\ Open(l, "provider_exchange_in_progress", t)
              /\ ~CompletionRefused(c, l)
              /\ InsertHandoff(l, "provider", t)
              /\ Advance(l, "handoff_issued", "provider", t)
              /\ callback' = [callback EXCEPT ![c].pc = "issued"]
              /\ ObservedProfile
              /\ UNCHANGED <<now, challenge>>

\* The commit went through and the request still ends with an error: its
\* acknowledgement was lost, or the redirect could not be built.
ProviderCompletionError(c) ==
    /\ callback[c].pc = "issued"
    /\ callback' = [callback EXCEPT ![c].pc = "failing"]
    /\ UNCHANGED <<controlVars, login, challenge, ticket>>

\* Every error after the claim ends in this compensation, whose own result is
\* ignored.
FailProviderExchangeMutant(c, t) ==
    /\ callback[c].pc = "failing"
    /\ callback' = [callback EXCEPT ![c].pc = "ended"]
    /\ Advance(callback[c].login, "provider_exchange_failed", "provider", t)
    /\ UNCHANGED <<controlVars, challenge, ticket>>
FailProviderExchange(c, t) ==
    LET l == callback[c].login
    IN  /\ callback[c].pc = "failing"
        /\ callback' = [callback EXCEPT ![c].pc = "ended"]
        /\ IF /\ login[l].revision = callback[c].revision
              /\ login[l].status = "provider_exchange_in_progress"
           THEN Advance(l, "provider_exchange_failed", "provider", t)
           ELSE UNCHANGED login
        /\ UNCHANGED <<controlVars, challenge, ticket>>

\* The replica stops, or drops the request.
CrashCallback(c) ==
    /\ callback[c].pc \in {"exchanging", "failing", "issued"}
    /\ callback' = [callback EXCEPT ![c].pc = "ended"]
    /\ UNCHANGED <<controlVars, login, challenge, ticket>>

\* The periodic recovery, one login of its batch.
RecoverAbandonedProviderExchangeMutant(l, t) ==
    /\ Open(l, "provider_exchange_in_progress", t)
    /\ login[l].updated + AbandonAfter < t
    /\ Advance(l, "provider_exchange_failed", "provider", t)
    /\ UNCHANGED <<controlVars, challenge, ticket, callback>>
RecoverAbandonedProviderExchange(l, t) ==
    /\ login[l].status = "provider_exchange_in_progress"
    /\ login[l].updated + AbandonAfter < t
    /\ Advance(l, "provider_exchange_failed", "provider", t)
    /\ UNCHANGED <<controlVars, challenge, ticket, callback>>

-----------------------------------------------------------------------------
(* The handoff ticket *)

\* commit_handoff_exchange; what it does to sessions is in SessionAuthority.
CommitHandoffExchange(l, t) ==
    /\ \/ ExpireTicket(l, t) /\ UNCHANGED login
       \/ /\ login[l].status = "handoff_issued"
          /\ SpendTicket(l, t)
          /\ Advance(l, "completed", login[l].method, t)
    /\ UNCHANGED <<controlVars, challenge, callback>>

-----------------------------------------------------------------------------
(* Specification *)

LoginRequest(l, t) ==
    \/ CreateLoginTransaction(l, t) \/ BindHostedBrowser(l, t)
    \/ SelectProviderMethod(l, t) \/ SelectEmailMethod(l, t)
    \/ CommitEmailGeneration(l, t)
    \/ \E g \in 1..MaxGenerations : RejectOtp(l, g, t) \/ CompleteEmailProof(l, g, t)
    \/ ConfirmBrowserSessionReuse(l, t)
    \/ DenyProviderCallback(l, t)
    \/ RecoverAbandonedProviderExchange(l, t)
    \/ CommitHandoffExchange(l, t)

CallbackStep(c, t) ==
    \/ \E l \in Login : ClaimProviderCallback(c, l, t)
    \/ ProviderExchangeError(c) \/ CompleteAuthenticatedIdentity(c, t)
    \/ ProviderCompletionError(c) \/ FailProviderExchange(c, t)
    \/ CrashCallback(c)

LoginNext ==
    \/ ControlNext /\ UNCHANGED loginVars
    \/ \E t \in ClockReading : \E l \in Login : LoginRequest(l, t)
    \/ \E t \in ClockReading : \E c \in Callback : CallbackStep(c, t)

LoginSpec == LoginInit /\ [][LoginNext]_vars

\* Time passes and every replica runs the recovery loop; nobody owes the
\* system a request, an answer or a compensation.
PassTime == Tick /\ UNCHANGED loginVars

Recovery == \E l \in Login, t \in ClockReading : RecoverAbandonedProviderExchange(l, t)

-----------------------------------------------------------------------------
(* Properties *)

Claimed(c) == callback[c].login # "none"

\* A login is claimed by at most one callback, ever; and as long as its
\* exchange is in progress, its revision is the one that callback remembers,
\* so the second transaction of claim_provider_callback's caller finds the
\* row exactly as the first left it or finds the exchange over.
ClaimFence ==
    \A c \in Callback : Claimed(c) =>
        /\ \A d \in Callback : callback[d].login = callback[c].login => d = c
        /\ login[callback[c].login].status = "provider_exchange_in_progress"
               => login[callback[c].login].revision = callback[c].revision

\* The ticket and the login row, written by different handlers, agree: a
\* ticket is spent exactly when the login is completed, and it never outlives
\* the login (insert_handoff, commit_handoff_exchange).
TicketAgreesWithLogin ==
    \A l \in Login :
        /\ ticket[l].status = "consumed" <=> login[l].status = "completed"
        /\ login[l].status = "handoff_issued" => ticket[l].status \in {"issued", "expired"}
        /\ ticket[l].status = "issued" => login[l].status \in {"handoff_issued", "expired"}
        /\ ticket[l].expires <= login[l].expires

\* verify_email_proof closes a generation with the last wrong code it allows.
GuessesBounded ==
    \A l \in Login :
        /\ challenge[l].attempts <= OtpMaxAttempts
        /\ challenge[l].attempts = OtpMaxAttempts => challenge[l].status = "exhausted"

\* A login that has ended is never written again, whichever handler, late
\* compensation or recovery reaches it (expire_login, fail_provider_exchange,
\* recover_abandoned_provider_exchanges).
SettledForever ==
    [][\A l \in Login : login[l].status \in {"provider_exchange_failed", "completed", "expired"}
           => login'[l] = login[l]]_vars

\* The authority captured when the login started has been withdrawn: one of
\* the rows it depends on is inactive or has another revision.
Withdrawn(l) ==
    ~Current({"project", "application", "policy"}
                 \cup (IF login[l].method = "provider" THEN {"provider"} ELSE {}),
             login[l].snap)

\* Withdrawal is final.  Disabling and enabling again, or any other sequence of
\* operator commands, never makes a started login valid again, and a withdrawn
\* login gets no handoff ticket and no session, although the checks are spread
\* over the selection, the claim, the completion and the exchange.
WithdrawalIsFinal ==
    [][\A l \in Login : Withdrawn(l) /\ login[l].status # "absent" =>
          /\ Withdrawn(l)'
          /\ login'[l].status \in {"handoff_issued", "completed"}
                => login'[l].status = login[l].status]_vars

\* The exchange of a ticket comes within the lifetime of its login, but for the
\* age of the clock reading of the request that exchanges it.
ExchangedInTime ==
    [][\A l \in Login : login[l].status # "completed" /\ login'[l].status = "completed"
           => now < login[l].expires + MaxClockLag]_vars

\* No claimed exchange stays in progress: whatever becomes of the callback that
\* claimed it, the recovery loop ends it.
ClaimOpen == \E l \in Login : login[l].status = "provider_exchange_in_progress"

\* "A callback that loses this claim [...] cannot mutate or terminalize the
\* owner claimed by another callback": no step of a callback request changes a
\* login whose exchange is in progress for another one.
LoserLeavesClaimAlone ==
    [][\A l \in Login, c \in Callback :
          /\ login[l].status = "provider_exchange_in_progress"
          /\ callback[c].login # l /\ callback'[c] # callback[c]
          => login'[l] = login[l]]_vars

Phase(l) ==
    CASE login[l].status = "completed" -> "spent"
      [] login[l].status = "provider_exchange_failed" -> "failed"
      [] login[l].status = "expired" -> "lapsed"
      [] login[l].status = "handoff_issued" ->
            IF ticket[l].status = "expired" THEN "lapsed" ELSE "granted"
      [] login[l].status = "provider_exchange_in_progress" -> "claimed"
      [] OTHER -> "open"

Holders(l) == {c \in Callback : callback[c].login = l}

Promise == INSTANCE OneShotGrant
              WITH phase   <- [l \in Login |-> Phase(l)],
                   holders <- [l \in Login |-> Holders(l)]

\* The login keeps the promise of OneShotGrant: one claim, one handoff, spent
\* once, and no failure after the grant, even when the acknowledgement of the
\* commit is lost and complete_provider_callback compensates.
KeepsPromise == Promise!Spec
=============================================================================
