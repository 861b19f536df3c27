--------------------------- MODULE RuntimeProofs ---------------------------
(***************************************************************************)
(* Proofs about LoginTransaction, for any number of logins and callbacks,  *)
(* any lifetimes and any clock; about SessionAuthority, for any number of  *)
(* sessions, browsers, requests and logout interactions; and that the      *)
(* Runtime implements both of its parts, so that every theorem about       *)
(* logins and every theorem about sessions holds of the two together, and  *)
(* what a session stands on is what its login captured.                    *)
(***************************************************************************)
EXTENDS Runtime, ControlPlaneProofs

-----------------------------------------------------------------------------
(* Updates of the rows *)

\* A new ticket has the type of one.
LEMMA InsertHandoffType ==
    ASSUME LoginTypeOK, NEW l \in Login, NEW method, NEW t \in Nat, InsertHandoff(l, method, t)
    PROVE  ticket' \in [Login -> TicketRow]
  <1>1. login[l].expires \in Nat /\ login[l].snap \in OwnerSnapshot
    BY DEF LoginTypeOK, LoginRow
  <1>2. Lesser(t + HandoffLifetime, login[l].expires) \in Nat
    BY <1>1, TicketAssumption DEF Lesser
  <1>3. /\ owner["user"].revision \in Nat
        /\ \A o \in TicketOwners : login[l].snap[o] \in Nat
    BY <1>1 DEF LoginTypeOK, ControlTypeOK, TicketOwners, OwnerSnapshot, Owners, Revision
  <1>4. HandoffSnapshot(l, method) \in TicketSnapshot
    BY <1>3 DEF HandoffSnapshot, TicketSnapshot
  <1> QED
    BY <1>2, <1>4 DEF InsertHandoff, IssueTicket, LoginTypeOK, TicketTypeOK, TicketRow

-----------------------------------------------------------------------------
(* The kinds of step.  Every handler is one of nine kinds of step of one     *)
(* login, and the invariants follow from the kinds.                          *)

\* What Advance does, read as a fact about the rows before and after.
Written(l, to, method) ==
    /\ login' \in [Login -> LoginRow]
    /\ \A k \in Login \ {l} : login'[k] = login[k]
    /\ login'[l].status = to /\ login'[l].method = method
    /\ login'[l].revision = login[l].revision + 1
    /\ login'[l].snap = login[l].snap /\ login'[l].expires = login[l].expires

\* No callback gains, loses or changes a claim.
ClaimsKept ==
    /\ callback' \in [Callback -> CallbackRequest]
    /\ \A c \in Callback :
          /\ callback'[c].login = callback[c].login
          /\ callback'[c].revision = callback[c].revision
          /\ callback[c].pc # "idle" => callback'[c].pc # "idle"
          /\ callback'[c].pc \in {"exchanging", "failing", "issued"}
                => callback[c].pc \in {"exchanging", "failing", "issued"}

Entry == {"awaiting_browser_binding", "awaiting_method_selection", "email_address_entry",
          "email_challenge_pending", "provider_authorization_started"}

StartKind(l) ==
    /\ login[l].status = "absent"
    /\ login' \in [Login -> LoginRow]
    /\ \A k \in Login \ {l} : login'[k] = login[k]
    /\ login'[l].status = "awaiting_browser_binding" /\ login'[l].method = "none"
    /\ login'[l].snap = Snapshot
    /\ UNCHANGED <<owner, ticket, callback>>

EntryKind(l) ==
    /\ login[l].status \in Entry
    /\ \E to \in Entry, method \in Method :
          /\ Written(l, to, method)
          /\ login[l].method \in {"none", method}
          /\ to \in {"awaiting_browser_binding", "awaiting_method_selection"} => method = "none"
          /\ to \in {"email_address_entry", "email_challenge_pending"} => method = "email"
          /\ to = "provider_authorization_started" => method = "provider"
    /\ UNCHANGED <<owner, ticket, callback>>

ClaimKind(l, c) ==
    /\ login[l].status = "provider_authorization_started"
    /\ callback[c].pc = "idle"
    /\ Written(l, "provider_exchange_in_progress", "provider")
    /\ callback' \in [Callback -> CallbackRequest]
    /\ callback'[c].login = l /\ callback'[c].revision = login'[l].revision
    /\ callback'[c].pc # "idle"
    /\ \A d \in Callback \ {c} : callback'[d] = callback[d]
    /\ UNCHANGED <<owner, ticket>>

GrantKind(l, t) ==
    /\ login[l].status \in {"awaiting_method_selection", "email_challenge_pending",
                            "provider_exchange_in_progress"}
    /\ \E method \in Method :
          /\ Written(l, "handoff_issued", method)
          /\ login[l].method \in {"none", method}
          /\ method = "provider" => Current({"provider"}, login[l].snap)
          /\ InsertHandoff(l, method, t)
    /\ Current({"project", "application", "policy"}, login[l].snap)
    /\ ticket' \in [Login -> TicketRow]
    /\ ClaimsKept

FailKind(l) ==
    /\ login[l].status \in {"provider_authorization_started", "provider_exchange_in_progress"}
    /\ Written(l, "provider_exchange_failed", "provider")
    /\ ClaimsKept
    /\ UNCHANGED <<owner, ticket>>

LapseKind(l) ==
    /\ login[l].status \notin Terminal \cup {"absent"}
    /\ Written(l, "expired", login[l].method)
    /\ ClaimsKept
    /\ UNCHANGED <<owner, ticket>>

TicketLapseKind(l) ==
    /\ ticket[l].status = "issued"
    /\ ticket' = [ticket EXCEPT ![l].status = "expired"]
    /\ UNCHANGED <<owner, login, callback>>

SpendKind(l, t) ==
    /\ ticket[l].status = "issued" /\ ticket[l].expires > t
    /\ login[l].status = "handoff_issued"
    /\ Current(HandoffOwners(l), ticket[l].snap)
    /\ ticket' = [ticket EXCEPT ![l].status = "consumed"]
    /\ Written(l, "completed", login[l].method)
    /\ UNCHANGED <<now, owner, callback>>

QuietKind == UNCHANGED <<login, ticket>> /\ ClaimsKept

StepKind ==
    \/ QuietKind
    \/ \E l \in Login :
          \/ StartKind(l) \/ EntryKind(l) \/ FailKind(l) \/ LapseKind(l) \/ TicketLapseKind(l)
          \/ \E c \in Callback : ClaimKind(l, c)
          \/ \E t \in ClockReading : GrantKind(l, t) \/ SpendKind(l, t)

\* A request in the middle of its work has claimed a login; an idle one has not.
ClaimsKnown ==
    \A c \in Callback :
        /\ callback[c].pc \in {"exchanging", "failing", "issued"} => Claimed(c)
        /\ callback[c].pc = "idle" => ~Claimed(c)

\* The method recorded fits the status.
MethodKnown ==
    \A l \in Login :
        /\ login[l].status \in {"absent", "awaiting_browser_binding", "awaiting_method_selection"}
              => login[l].method = "none"
        /\ login[l].status \in {"email_address_entry", "email_challenge_pending"}
              => login[l].method = "email"
        /\ login[l].status \in {"provider_authorization_started", "provider_exchange_in_progress"}
              => login[l].method = "provider"

Base == LoginTypeOK /\ ClaimsKnown /\ MethodKnown

\* One committed update of a login writes that row and no other.
LEMMA AdvanceRow ==
    ASSUME login \in [Login -> LoginRow], NEW l \in Login, NEW status \in Status,
           NEW method \in Method, NEW t \in Nat, Advance(l, status, method, t)
    PROVE  Written(l, status, method)
  BY DEF Advance, LoginRow, Written

\* The statuses and methods the handlers name are statuses and methods.
LEMMA StatusNames ==
    /\ Entry \cup {"provider_exchange_in_progress", "handoff_issued",
                   "provider_exchange_failed", "completed", "expired"} \subseteq Status
    /\ {"none", "provider", "email", "session_reuse"} = Method
  BY DEF Entry, Status, Method

\* A request that leaves all callbacks alone keeps their claims.
LEMMA SameCallbacks ==
    ASSUME LoginTypeOK, UNCHANGED callback PROVE ClaimsKept
  BY DEF LoginTypeOK, ClaimsKept

\* So does one that moves the program counter of a request that is under way.
LEMMA PcStep ==
    ASSUME LoginTypeOK, NEW c \in Callback,
           NEW pc \in {"failing", "issued", "ended"},
           callback[c].pc \in {"exchanging", "failing", "issued"}
                \/ (callback[c].pc = "idle" /\ pc = "ended"),
           callback' = [callback EXCEPT ![c].pc = pc]
    PROVE  ClaimsKept
  BY DEF LoginTypeOK, ClaimsKept, CallbackRequest

\* Expiry, in whichever handler it happens, is a lapse.
LEMMA ExpireLoginKind ==
    ASSUME LoginTypeOK, NEW l \in Login, NEW t \in Nat, ExpireLogin(l, t), ClaimsKept,
           UNCHANGED owner
    PROVE  LapseKind(l)
  <1>1. login[l].method \in Method /\ "expired" \in Status
    BY DEF LoginTypeOK, LoginRow, Status
  <1> QED
    BY <1>1, AdvanceRow DEF ExpireLogin, LapseKind, LoginTypeOK

\* Every request on behalf of a browser or of the recovery loop has a kind.
LEMMA RequestKind ==
    ASSUME Base, NEW t \in ClockReading, NEW l \in Login, LoginRequest(l, t)
    PROVE  StepKind
  <1>t. t \in Nat
    BY ClockReadingType DEF Base, LoginTypeOK
  <1>b. LoginTypeOK /\ login \in [Login -> LoginRow] /\ login[l].method \in Method
    BY DEF Base, LoginTypeOK, LoginRow
  <1>c. ASSUME UNCHANGED callback PROVE ClaimsKept
    BY <1>b, <1>c, SameCallbacks
  <1>1. CASE CreateLoginTransaction(l, t)
    <2>1. Snapshot \in OwnerSnapshot /\ t + LoginLifetime \in Nat
      BY <1>b, <1>t, SnapshotType, LoginAssumption DEF LoginTypeOK
    <2>2. StartKind(l)
      BY <1>1, <1>b, <1>t, <2>1
      DEF CreateLoginTransaction, StartKind, controlVars, LoginRow, Status, Method
    <2> QED
      BY <2>2 DEF StepKind
  <1>2. CASE BindHostedBrowser(l, t)
    <2>1. CASE ExpireLogin(l, t)
      BY <1>2, <1>b, <1>c, <1>t, <2>1, ExpireLoginKind DEF BindHostedBrowser, controlVars, StepKind
    <2>2. CASE ~ExpireLogin(l, t)
      <3>1. Written(l, "awaiting_method_selection", "none")
        BY <1>2, <1>b, <1>t, <2>2, AdvanceRow, StatusNames DEF BindHostedBrowser, Entry
      <3>2. EntryKind(l)
        BY <1>2, <1>b, <2>2, <3>1, StatusNames
        DEF BindHostedBrowser, Open, EntryKind, Entry, controlVars, Base, MethodKnown
      <3> QED
        BY <3>2 DEF StepKind
    <2> QED
      BY <2>1, <2>2
  <1>3. CASE SelectProviderMethod(l, t)
    <2>1. CASE ExpireLogin(l, t)
      BY <1>3, <1>b, <1>c, <1>t, <2>1, ExpireLoginKind DEF SelectProviderMethod, controlVars, StepKind
    <2>2. CASE ~ExpireLogin(l, t)
      <3>1. Written(l, "provider_authorization_started", "provider")
        BY <1>3, <1>b, <1>t, <2>2, AdvanceRow, StatusNames DEF SelectProviderMethod, Entry
      <3>2. EntryKind(l)
        BY <1>3, <1>b, <2>2, <3>1, StatusNames
        DEF SelectProviderMethod, Open, EntryKind, Entry, controlVars, Base, MethodKnown
      <3> QED
        BY <3>2 DEF StepKind
    <2> QED
      BY <2>1, <2>2
  <1>4. CASE SelectEmailMethod(l, t)
    <2>1. Written(l, "email_address_entry", "email")
      BY <1>4, <1>b, <1>t, AdvanceRow, StatusNames DEF SelectEmailMethod, Entry
    <2>2. EntryKind(l)
      BY <1>4, <1>b, <2>1, StatusNames
      DEF SelectEmailMethod, Open, EntryKind, Entry, controlVars, Base, MethodKnown
    <2> QED
      BY <2>2 DEF StepKind
  <1>5. CASE CommitEmailGeneration(l, t)
    <2>1. Written(l, "email_challenge_pending", "email")
      BY <1>5, <1>b, AdvanceRow, StatusNames
      DEF CommitEmailGeneration, Entry, LoginTypeOK, ControlTypeOK
    <2>2. EntryKind(l)
      BY <1>5, <1>b, <2>1, StatusNames
      DEF CommitEmailGeneration, Open, EntryKind, Entry, controlVars, Base, MethodKnown
    <2> QED
      BY <2>2 DEF StepKind
  <1>6. ASSUME NEW g \in 1..MaxGenerations, RejectOtp(l, g, t) PROVE StepKind
    BY <1>6, <1>c DEF RejectOtp, StepKind, QuietKind
  <1>7. ASSUME NEW g \in 1..MaxGenerations, CompleteEmailProof(l, g, t) PROVE StepKind
    <2>1. Written(l, "handoff_issued", "email")
      BY <1>7, <1>b, <1>t, AdvanceRow, StatusNames DEF CompleteEmailProof
    <2>2. ticket' \in [Login -> TicketRow]
      BY <1>7, <1>b, <1>t, InsertHandoffType DEF CompleteEmailProof
    <2>3. GrantKind(l, t)
      BY <1>7, <1>c, <2>1, <2>2, StatusNames
      DEF CompleteEmailProof, ProofAdmitted, EmailOwners, Current, Open, GrantKind,
          Base, MethodKnown
    <2> QED
      BY <2>3 DEF StepKind
  <1>8. CASE ConfirmBrowserSessionReuse(l, t)
    <2>1. CASE ExpireLogin(l, t)
      BY <1>8, <1>b, <1>c, <1>t, <2>1, ExpireLoginKind
      DEF ConfirmBrowserSessionReuse, controlVars, StepKind
    <2>2. CASE ~ExpireLogin(l, t)
      <3>1. Written(l, "handoff_issued", "session_reuse")
        BY <1>8, <1>b, <1>t, <2>2, AdvanceRow, StatusNames DEF ConfirmBrowserSessionReuse
      <3>2. ticket' \in [Login -> TicketRow]
        BY <1>8, <1>b, <1>t, <2>2, InsertHandoffType DEF ConfirmBrowserSessionReuse
      <3>3. GrantKind(l, t)
        BY <1>8, <1>c, <2>2, <3>1, <3>2, StatusNames
        DEF ConfirmBrowserSessionReuse, ApplicationOwners, Current, Open, GrantKind,
            Base, MethodKnown
      <3> QED
        BY <3>3 DEF StepKind
    <2> QED
      BY <2>1, <2>2
  <1>9. CASE DenyProviderCallback(l, t)
    <2>1. CASE ExpireLogin(l, t)
      BY <1>9, <1>b, <1>c, <1>t, <2>1, ExpireLoginKind
      DEF DenyProviderCallback, controlVars, StepKind
    <2>2. CASE ~ExpireLogin(l, t)
      <3>1. Written(l, "provider_exchange_failed", "provider")
        BY <1>9, <1>b, <1>t, <2>2, AdvanceRow, StatusNames DEF DenyProviderCallback
      <3>2. FailKind(l)
        BY <1>9, <1>c, <2>2, <3>1 DEF DenyProviderCallback, Open, FailKind, controlVars
      <3> QED
        BY <3>2 DEF StepKind
    <2> QED
      BY <2>1, <2>2
  <1>10. CASE RecoverAbandonedProviderExchange(l, t)
    <2>1. Written(l, "provider_exchange_failed", "provider")
      BY <1>10, <1>b, <1>t, AdvanceRow, StatusNames DEF RecoverAbandonedProviderExchange
    <2>2. FailKind(l)
      BY <1>10, <1>c, <2>1 DEF RecoverAbandonedProviderExchange, FailKind, controlVars
    <2> QED
      BY <2>2 DEF StepKind
  <1>11. CASE CommitHandoffExchange(l, t)
    <2>1. CASE ticket[l].expires <= t
      <3>1. TicketLapseKind(l)
        BY <1>11, <1>b, <1>t, <2>1
        DEF CommitHandoffExchange, ExpireTicket, SpendTicket, TicketLapseKind, controlVars,
            LoginTypeOK, TicketTypeOK, TicketRow
      <3> QED
        BY <3>1 DEF StepKind
    <2>2. CASE ~(ticket[l].expires <= t)
      <3>1. Written(l, "completed", login[l].method)
        BY <1>11, <1>b, <1>t, <2>2, AdvanceRow, StatusNames DEF CommitHandoffExchange, ExpireTicket
      <3>2. SpendKind(l, t)
        BY <1>11, <2>2, <3>1 DEF CommitHandoffExchange, ExpireTicket, SpendTicket, SpendKind, controlVars
      <3> QED
        BY <3>2 DEF StepKind
    <2> QED
      BY <2>1, <2>2
  <1> QED
    BY <1>1, <1>2, <1>3, <1>4, <1>5, <1>6, <1>7, <1>8, <1>9, <1>10, <1>11 DEF LoginRequest

\* And so has every step of a provider callback.
LEMMA CallbackKind ==
    ASSUME Base, NEW t \in ClockReading, NEW c \in Callback, CallbackStep(c, t)
    PROVE  StepKind
  <1>t. t \in Nat
    BY ClockReadingType DEF Base, LoginTypeOK
  <1>b. LoginTypeOK /\ login \in [Login -> LoginRow] /\ callback[c] \in CallbackRequest
    BY DEF Base, LoginTypeOK
  <1> DEFINE m == callback[c].login
  <1>m. callback[c].pc \in {"exchanging", "failing", "issued"} => m \in Login
    BY <1>b DEF Base, ClaimsKnown, Claimed, CallbackRequest
  <1> HIDE DEF m
  <1>1. ASSUME NEW l \in Login, ClaimProviderCallback(c, l, t) PROVE StepKind
    <2>1. CASE ExpireLogin(l, t)
      <3>1. callback' = [callback EXCEPT ![c].pc = "ended"] /\ UNCHANGED owner
        BY <1>1, <2>1, <1>b, <1>t
        DEF ClaimProviderCallback, ExpireLogin, Open, controlVars, LoginRow
      <3> QED
        BY <1>1, <1>b, <1>t, <2>1, <3>1, PcStep, ExpireLoginKind DEF ClaimProviderCallback, StepKind
    <2>2. CASE ~ExpireLogin(l, t)
      <3>1. Written(l, "provider_exchange_in_progress", "provider")
        BY <1>1, <1>b, <1>t, <2>2, AdvanceRow, StatusNames DEF ClaimProviderCallback
      <3>2. callback' = [callback EXCEPT ![c] =
                [pc |-> "exchanging", login |-> l, revision |-> login[l].revision + 1]]
        BY <1>1, <2>2 DEF ClaimProviderCallback
      <3>3. login[l].revision \in Nat /\ login'[l].revision = login[l].revision + 1
        BY <1>b, <3>1 DEF Written, LoginRow
      <3>4. ClaimKind(l, c)
        BY <1>1, <1>b, <2>2, <3>1, <3>2, <3>3
        DEF ClaimProviderCallback, Open, ClaimKind, controlVars, LoginTypeOK, CallbackRequest
      <3> QED
        BY <3>4 DEF StepKind
    <2> QED
      BY <2>1, <2>2
  <1>2. CASE ProviderExchangeError(c)
    BY <1>2, <1>b, PcStep DEF ProviderExchangeError, StepKind, QuietKind
  <1>3. CASE ProviderCompletionError(c)
    BY <1>3, <1>b, PcStep DEF ProviderCompletionError, StepKind, QuietKind
  <1>4. CASE CrashCallback(c)
    BY <1>4, <1>b, PcStep DEF CrashCallback, StepKind, QuietKind
  <1>5. CASE FailProviderExchange(c, t)
    <2>1. m \in Login /\ ClaimsKept
      BY <1>5, <1>b, <1>m, PcStep DEF FailProviderExchange
    <2>2. CASE login' = login
      BY <1>5, <2>1, <2>2 DEF FailProviderExchange, StepKind, QuietKind
    <2>3. CASE login' # login
      <3>1. /\ login[m].status = "provider_exchange_in_progress"
            /\ Advance(m, "provider_exchange_failed", "provider", t)
            /\ UNCHANGED <<owner, ticket>>
        BY <1>5, <2>3 DEF FailProviderExchange, controlVars, m
      <3>2. FailKind(m)
        BY <1>b, <1>t, <2>1, <3>1, AdvanceRow, StatusNames DEF FailKind
      <3> QED
        BY <2>1, <3>2 DEF StepKind
    <2> QED
      BY <2>2, <2>3
  <1>6. CASE CompleteAuthenticatedIdentity(c, t)
    <2>1. m \in Login
      BY <1>6, <1>m DEF CompleteAuthenticatedIdentity
    <2>2. CASE /\ ExpireLogin(m, t)
               /\ callback' = [callback EXCEPT ![c].pc = "failing"]
               /\ UNCHANGED controlVars
      BY <1>6, <1>b, <1>t, <2>1, <2>2, PcStep, ExpireLoginKind
      DEF CompleteAuthenticatedIdentity, controlVars, StepKind
    <2>3. CASE /\ Open(m, "provider_exchange_in_progress", t)
               /\ Advance(m, "provider_exchange_failed", "provider", t)
               /\ callback' = [callback EXCEPT ![c].pc = "failing"]
               /\ UNCHANGED <<controlVars, challenge, ticket>>
      <3>1. ClaimsKept
        BY <1>6, <1>b, <2>3, PcStep DEF CompleteAuthenticatedIdentity
      <3>2. FailKind(m)
        BY <1>b, <1>t, <2>1, <2>3, <3>1, AdvanceRow, StatusNames DEF FailKind, Open, controlVars
      <3> QED
        BY <2>1, <3>2 DEF StepKind
    <2>4. CASE /\ Open(m, "provider_exchange_in_progress", t)
               /\ ~CompletionRefused(c, m)
               /\ InsertHandoff(m, "provider", t)
               /\ Advance(m, "handoff_issued", "provider", t)
               /\ callback' = [callback EXCEPT ![c].pc = "issued"]
      <3>1. ClaimsKept
        BY <1>6, <1>b, <2>4, PcStep DEF CompleteAuthenticatedIdentity
      <3>2. Written(m, "handoff_issued", "provider")
        BY <1>b, <1>t, <2>1, <2>4, AdvanceRow, StatusNames
      <3>3. ticket' \in [Login -> TicketRow]
        BY <1>b, <1>t, <2>1, <2>4, InsertHandoffType
      <3>4. GrantKind(m, t)
        BY <2>1, <2>4, <3>1, <3>2, <3>3, StatusNames
        DEF GrantKind, Open, CompletionRefused, Current, ProviderOwners, ApplicationOwners,
            Base, MethodKnown
      <3> QED
        BY <2>1, <3>4 DEF StepKind
    <2> QED
      BY <1>6, <2>2, <2>3, <2>4 DEF CompleteAuthenticatedIdentity, m
  <1> QED
    BY <1>1, <1>2, <1>3, <1>4, <1>5, <1>6 DEF CallbackStep

\* Hence every step has a kind.
LEMMA EveryStepHasAKind == Base /\ [LoginNext]_vars => StepKind
  <1> SUFFICES ASSUME Base, [LoginNext]_vars PROVE StepKind
    OBVIOUS
  <1>1. CASE ControlNext /\ UNCHANGED loginVars
    BY <1>1, SameCallbacks DEF loginVars, Base, StepKind, QuietKind
  <1>2. CASE UNCHANGED vars
    BY <1>2, SameCallbacks DEF vars, loginVars, Base, StepKind, QuietKind
  <1> QED
    BY <1>1, <1>2, RequestKind, CallbackKind DEF LoginNext

-----------------------------------------------------------------------------
(* Owners and challenges, which few steps write *)

\* Every step of the login keeps the owner rows in type and moves them forward.
LEMMA ControlStep ==
    ASSUME LoginTypeOK, [LoginNext]_vars
    PROVE  ControlTypeOK' /\ OwnersForward
  <1>1. CASE ControlNext
    BY <1>1, ControlNextType, ControlNextForward DEF LoginTypeOK
  <1>2. CASE UNCHANGED controlVars
    BY <1>2 DEF controlVars, LoginTypeOK, ControlTypeOK, OwnersForward
  <1>3. ASSUME NEW c \in Callback, NEW t \in ClockReading, CompleteAuthenticatedIdentity(c, t)
        PROVE  UNCHANGED controlVars \/ ControlNext
    BY <1>3
    DEF CompleteAuthenticatedIdentity, ObservedProfile, controlVars, ControlNext, SubjectCommand
  <1>4. ASSUME NEW c \in Callback, NEW t \in ClockReading, CallbackStep(c, t)
        PROVE  UNCHANGED controlVars \/ ControlNext
    BY <1>3, <1>4
    DEF CallbackStep, ClaimProviderCallback, ProviderExchangeError, ProviderCompletionError,
        FailProviderExchange, CrashCallback
  <1>5. ASSUME NEW l \in Login, NEW t \in ClockReading, LoginRequest(l, t)
        PROVE  UNCHANGED controlVars
    BY <1>5
    DEF LoginRequest, CreateLoginTransaction, BindHostedBrowser, SelectProviderMethod,
        SelectEmailMethod, CommitEmailGeneration, RejectOtp, CompleteEmailProof,
        ConfirmBrowserSessionReuse, DenyProviderCallback, RecoverAbandonedProviderExchange,
        CommitHandoffExchange
  <1> QED
    BY <1>1, <1>2, <1>4, <1>5 DEF LoginNext, vars

\* The three steps that write a challenge.
ChallengeWrite ==
    \E t \in ClockReading, l \in Login :
        \/ CommitEmailGeneration(l, t)
        \/ \E g \in 1..MaxGenerations : RejectOtp(l, g, t) \/ CompleteEmailProof(l, g, t)

\* Only the email handlers write challenges.
LEMMA ChallengeStep ==
    ASSUME [LoginNext]_vars PROVE UNCHANGED challenge \/ ChallengeWrite
  <1>1. ASSUME NEW c \in Callback, NEW t \in ClockReading, CallbackStep(c, t)
        PROVE  UNCHANGED challenge
    BY <1>1
    DEF CallbackStep, ClaimProviderCallback, ProviderExchangeError, ProviderCompletionError,
        FailProviderExchange, CrashCallback, CompleteAuthenticatedIdentity, ExpireLogin
  <1>2. ASSUME NEW l \in Login, NEW t \in ClockReading, LoginRequest(l, t)
        PROVE  UNCHANGED challenge \/ ChallengeWrite
    BY <1>2
    DEF LoginRequest, CreateLoginTransaction, BindHostedBrowser, SelectProviderMethod,
        SelectEmailMethod, ConfirmBrowserSessionReuse, DenyProviderCallback, ExpireLogin,
        RecoverAbandonedProviderExchange, CommitHandoffExchange, ChallengeWrite
  <1> QED
    BY <1>1, <1>2 DEF LoginNext, vars, loginVars

\* Only an open challenge, with attempts left, can be answered.
AttemptsLeft ==
    /\ GuessesBounded
    /\ \A l \in Login : challenge[l].status = "pending" => challenge[l].attempts < OtpMaxAttempts

\* They keep the type of challenges, and never admit a code too many.
LEMMA ChallengeWriteType ==
    ASSUME LoginTypeOK, ChallengeWrite
    PROVE  challenge' \in [Login -> ChallengeRow] /\ (AttemptsLeft => AttemptsLeft')
  <1> PICK t \in ClockReading, l \in Login :
        \/ CommitEmailGeneration(l, t)
        \/ \E g \in 1..MaxGenerations : RejectOtp(l, g, t) \/ CompleteEmailProof(l, g, t)
    BY DEF ChallengeWrite
  <1>t. t \in Nat
    BY ClockReadingType DEF LoginTypeOK
  <1>b. challenge \in [Login -> ChallengeRow]
    BY DEF LoginTypeOK
  <1>m. OtpMaxAttempts \in Nat \ {0}
    BY LoginAssumption
  <1>1. CASE CommitEmailGeneration(l, t)
    <2>1. login[l].expires \in Nat
      BY DEF LoginTypeOK, LoginRow
    <2>2. Lesser(t + ChallengeLifetime, login[l].expires) \in Nat
      BY <1>t, <2>1, LoginAssumption DEF Lesser
    <2> QED
      BY <1>1, <1>b, <1>t, <1>m, <2>2
      DEF CommitEmailGeneration, ChallengeRow, AttemptsLeft, GuessesBounded
  <1>2. ASSUME NEW g \in 1..MaxGenerations, RejectOtp(l, g, t)
        PROVE  challenge' \in [Login -> ChallengeRow] /\ (AttemptsLeft => AttemptsLeft')
    <2> DEFINE n == challenge[l].attempts + 1
               s == IF n >= OtpMaxAttempts THEN "exhausted" ELSE challenge[l].status
    <2>1. n \in Nat /\ s \in {"none", "pending", "delivery_unavailable", "exhausted", "consumed"}
      BY <1>b DEF ChallengeRow
    <2>2. challenge' = [challenge EXCEPT ![l].attempts = n, ![l].status = s]
      BY <1>2 DEF RejectOtp
    <2>3. (n = OtpMaxAttempts => s = "exhausted") /\ (s = "pending" => n < OtpMaxAttempts)
      BY <1>m, <2>1
    <2>4. AttemptsLeft => n <= OtpMaxAttempts
      BY <1>2, <1>b, <1>m DEF RejectOtp, ProofAdmitted, AttemptsLeft, ChallengeRow
    <2> HIDE DEF n, s
    <2>5. /\ challenge' \in [Login -> ChallengeRow]
          /\ challenge'[l].attempts = n /\ challenge'[l].status = s
          /\ \A k \in Login \ {l} : challenge'[k] = challenge[k]
      BY <1>b, <2>1, <2>2 DEF ChallengeRow
    <2> QED
      BY <2>3, <2>4, <2>5 DEF AttemptsLeft, GuessesBounded
  <1>3. ASSUME NEW g \in 1..MaxGenerations, CompleteEmailProof(l, g, t)
        PROVE  challenge' \in [Login -> ChallengeRow] /\ (AttemptsLeft => AttemptsLeft')
    BY <1>3, <1>b, <1>m DEF CompleteEmailProof, ProofAdmitted, ChallengeRow, AttemptsLeft, GuessesBounded
  <1> QED
    BY <1>1, <1>2, <1>3

-----------------------------------------------------------------------------
(* The inductive invariant *)

\* A claimed login never returns to a status from which it could be claimed.
ClaimsStand ==
    \A c \in Callback : Claimed(c) =>
        login[callback[c].login].status \notin Entry \cup {"absent"}

\* A ticket is first written by the step that issues the handoff.
NoEarlyTicket ==
    \A l \in Login :
        login[l].status \in Entry \cup {"absent", "provider_exchange_in_progress",
                                       "provider_exchange_failed"}
            => ticket[l].status = "none" /\ ticket[l].expires = 0

\* A ticket carries the revisions its login captured.
CopiedOwners(l) ==
    {"project", "application", "policy"}
        \cup (IF login[l].method = "provider" THEN {"provider"} ELSE {})

TicketCopiesLogin ==
    \A l \in Login : ticket[l].status # "none" =>
        \A o \in CopiedOwners(l) : ticket[l].snap[o] = login[l].snap[o]

\* Nothing was captured that an owner has not been through.
SnapshotsBehind ==
    \A l \in Login, o \in Owners : login[l].snap[o] <= owner[o].revision

LoginInv ==
    /\ Base
    /\ ClaimsStand /\ ClaimFence
    /\ NoEarlyTicket /\ TicketAgreesWithLogin /\ TicketCopiesLogin
    /\ SnapshotsBehind
    /\ AttemptsLeft

\* The invariant holds before anything has happened.
LEMMA InitEstablishes == LoginInit => LoginInv
  <1> SUFFICES ASSUME LoginInit PROVE LoginInv
    OBVIOUS
  <1>1. ControlTypeOK
    BY DEF LoginInit, ControlInit, ControlTypeOK, OwnerStatus, Revision
  <1>2. Snapshot \in OwnerSnapshot
    BY <1>1, SnapshotType
  <1>3. LoginTypeOK
    BY <1>1, <1>2 DEF LoginInit, LoginTypeOK, LoginRow, ChallengeRow, TicketInit,
       TicketTypeOK, TicketRow, TicketSnapshot, CallbackRequest, Status, Method
  <1>4. Base
    BY <1>3 DEF LoginInit, Base, ClaimsKnown, Claimed, MethodKnown
  <1>5. ClaimsStand /\ ClaimFence /\ NoEarlyTicket /\ TicketAgreesWithLogin /\ TicketCopiesLogin
    BY DEF LoginInit, TicketInit, ClaimsStand, ClaimFence, Claimed, NoEarlyTicket, TicketAgreesWithLogin,
       TicketCopiesLogin
  <1>6. SnapshotsBehind
    BY <1>1 DEF LoginInit, SnapshotsBehind, Snapshot, ControlTypeOK, Revision
  <1>7. AttemptsLeft
    BY LoginAssumption DEF LoginInit, AttemptsLeft, GuessesBounded
  <1> QED
    BY <1>4, <1>5, <1>6, <1>7 DEF LoginInv

\* Tickets keep their type.
LEMMA TicketType ==
    ASSUME LoginTypeOK, StepKind PROVE ticket' \in [Login -> TicketRow]
  BY DEF LoginTypeOK, StepKind, QuietKind, StartKind, EntryKind, FailKind, LapseKind,
     TicketLapseKind, ClaimKind, GrantKind, SpendKind, TicketTypeOK, TicketRow

\* Every step keeps the types.
LEMMA TypeInductive ==
    ASSUME Base, [LoginNext]_vars PROVE LoginTypeOK'
  <1>1. StepKind
    BY EveryStepHasAKind
  <1>2. ControlTypeOK'
    BY ControlStep DEF Base
  <1>3. challenge' \in [Login -> ChallengeRow]
    BY ChallengeStep, ChallengeWriteType DEF Base, LoginTypeOK
  <1>4. ticket' \in [Login -> TicketRow]
    BY <1>1, TicketType DEF Base
  <1>5. login' \in [Login -> LoginRow]
    BY <1>1 DEF Base, LoginTypeOK, StepKind, QuietKind, StartKind, EntryKind, FailKind, LapseKind,
       TicketLapseKind, ClaimKind, GrantKind, SpendKind, Written
  <1>6. callback' \in [Callback -> CallbackRequest]
    BY <1>1 DEF Base, LoginTypeOK, StepKind, QuietKind, StartKind, EntryKind, FailKind, LapseKind,
       TicketLapseKind, ClaimKind, GrantKind, SpendKind, ClaimsKept
  <1> QED
    BY <1>2, <1>3, <1>4, <1>5, <1>6 DEF LoginTypeOK, TicketTypeOK

\* A claim names a login, whatever step is taken.
LEMMA ClaimsKnownInductive ==
    ASSUME Base, StepKind PROVE ClaimsKnown'
  <1>1. CASE ClaimsKept
    BY <1>1 DEF Base, ClaimsKnown, Claimed, ClaimsKept, LoginTypeOK, CallbackRequest
  <1>2. CASE UNCHANGED callback
    BY <1>2 DEF Base, ClaimsKnown, Claimed
  <1>3. ASSUME NEW l \in Login, NEW c \in Callback, ClaimKind(l, c) PROVE ClaimsKnown'
    BY <1>3, LoginAssumption DEF ClaimKind, Base, ClaimsKnown, Claimed
  <1> QED
    BY <1>1, <1>2, <1>3 DEF StepKind, QuietKind, StartKind, EntryKind, FailKind, LapseKind,
       TicketLapseKind, GrantKind, SpendKind

\* A login past the selection of a method has one.
LEMMA MethodKnownInductive ==
    ASSUME Base, StepKind PROVE MethodKnown'
  BY SMTT(20) DEF Base, MethodKnown, StepKind, QuietKind, StartKind, EntryKind, FailKind, LapseKind,
     TicketLapseKind, ClaimKind, GrantKind, SpendKind, Written, Entry

\* No step but a claim takes a login into an exchange, and no step at all
\* leads from behind a claim back to before it.
LEMMA StatusMoves ==
    ASSUME Base, StepKind, NEW l \in Login
    PROVE  /\ login[l].status \notin Entry \cup {"absent"}
                 => login'[l].status \notin Entry \cup {"absent"}
           /\ login'[l].status = "provider_exchange_in_progress"
                 => \/ login'[l] = login[l]
                    \/ \E c \in Callback : ClaimKind(l, c)
  <1>1. ASSUME NEW k \in Login, NEW c \in Callback, ClaimKind(k, c), k # l
        PROVE  login'[l] = login[l]
    BY <1>1 DEF ClaimKind, Written
  <1>2. ASSUME NEW c \in Callback, ClaimKind(l, c)
        PROVE  login[l].status \in Entry /\ login'[l].status \notin Entry \cup {"absent"}
    BY <1>2 DEF ClaimKind, Written, Entry
  <1> QED
    BY <1>1, <1>2, SMTT(20) DEF StepKind, QuietKind, StartKind, EntryKind, FailKind, LapseKind,
       TicketLapseKind, GrantKind, SpendKind, Written, Entry

\* Claims stand and stay fenced, kind of step by kind of step.
LEMMA ClaimsInductive ==
    ASSUME Base, ClaimsStand, ClaimFence, StepKind PROVE ClaimsStand' /\ ClaimFence'
  <1>c. \A c \in Callback : Claimed(c) => callback[c].login \in Login
    BY DEF Base, LoginTypeOK, CallbackRequest, Claimed
  <1>1. ASSUME NEW l \in Login, NEW c \in Callback, ClaimKind(l, c)
        PROVE  ClaimsStand' /\ ClaimFence'
    <2>1. \A d \in Callback : callback[d].login # l
      BY <1>1, LoginAssumption DEF ClaimKind, ClaimsStand, Claimed, Entry
    <2>2. /\ callback'[c].login = l /\ callback'[c].revision = login'[l].revision
          /\ \A d \in Callback \ {c} : callback'[d] = callback[d]
          /\ \A k \in Login \ {l} : login'[k] = login[k]
          /\ login'[l].status = "provider_exchange_in_progress"
      BY <1>1 DEF ClaimKind, Written
    <2>3. ClaimsStand'
      BY <1>c, <2>1, <2>2, LoginAssumption DEF ClaimsStand, Claimed, Entry
    <2>4. ClaimFence'
      BY <1>c, <2>1, <2>2, LoginAssumption DEF ClaimFence, Claimed
    <2> QED
      BY <2>3, <2>4
  <1>2. CASE ~\E l \in Login, c \in Callback : ClaimKind(l, c)
    <2>1. \A c \in Callback : /\ callback'[c].login = callback[c].login
                              /\ callback'[c].revision = callback[c].revision
      BY <1>2 DEF StepKind, QuietKind, StartKind, EntryKind, FailKind, LapseKind,
         TicketLapseKind, GrantKind, SpendKind, ClaimsKept
    <2>2. \A l \in Login : login'[l].status = "provider_exchange_in_progress"
                             => login'[l] = login[l]
      BY <1>2, StatusMoves
    <2>3. ClaimsStand'
      BY <1>c, <2>1, StatusMoves DEF ClaimsStand, Claimed
    <2>4. ClaimFence'
      BY <1>c, <2>1, <2>2 DEF ClaimFence, Claimed
    <2> QED
      BY <2>3, <2>4
  <1> QED
    BY <1>1, <1>2

\* Tickets and logins stay in agreement.
LEMMA TicketsInductive ==
    ASSUME Base, NoEarlyTicket, TicketAgreesWithLogin, StepKind
    PROVE  NoEarlyTicket' /\ TicketAgreesWithLogin'
  <1>b. /\ ticket \in [Login -> TicketRow]
        /\ \A l \in Login : login[l].expires \in Nat /\ ticket[l].expires \in Nat
    BY DEF Base, LoginTypeOK, LoginRow, TicketTypeOK, TicketRow
  <1>t. \A t \in ClockReading : t + HandoffLifetime \in Nat
    BY ClockReadingType, TicketAssumption DEF Base, LoginTypeOK
  <1>1. CASE UNCHANGED <<login, ticket>>
    BY <1>1 DEF NoEarlyTicket, TicketAgreesWithLogin
  <1>2. ASSUME NEW l \in Login, StartKind(l) PROVE NoEarlyTicket' /\ TicketAgreesWithLogin'
    <2>1. login'[l].expires \in Nat
      BY <1>2 DEF StartKind, LoginRow
    <2> QED
      BY <1>2, <1>b, <2>1 DEF StartKind, NoEarlyTicket, TicketAgreesWithLogin, Entry
  <1>3. ASSUME NEW l \in Login, EntryKind(l) \/ FailKind(l) \/ LapseKind(l) \/
                                \E c \in Callback : ClaimKind(l, c)
        PROVE  NoEarlyTicket' /\ TicketAgreesWithLogin'
    BY <1>3 DEF EntryKind, FailKind, LapseKind, ClaimKind, Written, NoEarlyTicket,
       TicketAgreesWithLogin, Entry, Terminal
  <1>4. ASSUME NEW l \in Login, TicketLapseKind(l) PROVE NoEarlyTicket' /\ TicketAgreesWithLogin'
    <2>1. /\ ticket'[l].status = "expired" /\ ticket'[l].expires = ticket[l].expires
          /\ \A k \in Login \ {l} : ticket'[k] = ticket[k]
      BY <1>4, <1>b DEF TicketLapseKind, TicketRow
    <2> QED
      BY <1>4, <2>1 DEF TicketLapseKind, NoEarlyTicket, TicketAgreesWithLogin
  <1>5. ASSUME NEW l \in Login, NEW t \in ClockReading, SpendKind(l, t)
        PROVE  NoEarlyTicket' /\ TicketAgreesWithLogin'
    <2>1. /\ ticket'[l].status = "consumed" /\ ticket'[l].expires = ticket[l].expires
          /\ \A k \in Login \ {l} : ticket'[k] = ticket[k]
      BY <1>5, <1>b DEF SpendKind, TicketRow
    <2> QED
      BY <1>5, <2>1 DEF SpendKind, Written, NoEarlyTicket, TicketAgreesWithLogin, Entry
  <1>6. ASSUME NEW l \in Login, NEW t \in ClockReading, GrantKind(l, t)
        PROVE  NoEarlyTicket' /\ TicketAgreesWithLogin'
    <2>1. /\ ticket'[l].status = "issued" /\ ticket'[l].expires <= login[l].expires
          /\ \A k \in Login \ {l} : ticket'[k] = ticket[k]
      BY <1>6, <1>b, <1>t DEF GrantKind, InsertHandoff, IssueTicket, Lesser
    <2> QED
      BY <1>6, <2>1 DEF GrantKind, Written, NoEarlyTicket, TicketAgreesWithLogin, Entry
  <1> QED
    BY <1>1, <1>2, <1>3, <1>4, <1>5, <1>6 DEF StepKind, QuietKind

\* A ticket keeps carrying what its login captured.
LEMMA CopiesInductive ==
    ASSUME Base, NoEarlyTicket, TicketAgreesWithLogin, TicketCopiesLogin, StepKind
    PROVE  TicketCopiesLogin'
  <1>b. ticket \in [Login -> TicketRow]
    BY DEF Base, LoginTypeOK, TicketTypeOK
  <1> SUFFICES ASSUME NEW l \in Login, ticket'[l].status # "none", NEW o \in CopiedOwners(l)'
               PROVE  ticket'[l].snap[o] = login'[l].snap[o]
    BY DEF TicketCopiesLogin
  <1>1. ASSUME NEW t \in ClockReading, GrantKind(l, t)
        PROVE  ticket'[l].snap[o] = login'[l].snap[o]
    <2>1. PICK method \in Method : Written(l, "handoff_issued", method) /\ InsertHandoff(l, method, t)
      BY <1>1 DEF GrantKind
    <2>2. ticket'[l].snap = HandoffSnapshot(l, method)
      BY <1>b, <2>1 DEF InsertHandoff, IssueTicket
    <2>3. o \in {"project", "application", "policy"} \/ (o = "provider" /\ method = "provider")
      BY <2>1 DEF Written, CopiedOwners
    <2>4. HandoffSnapshot(l, method)[o] = login[l].snap[o]
      BY <2>3 DEF HandoffSnapshot, TicketOwners
    <2> QED
      BY <2>1, <2>2, <2>4 DEF Written
  <1>2. CASE ~\E t \in ClockReading : GrantKind(l, t)
    <2>1. /\ ticket[l].status # "none" /\ ticket'[l].snap = ticket[l].snap
      BY <1>2, <1>b DEF StepKind, QuietKind, StartKind, EntryKind, FailKind, LapseKind,
         TicketLapseKind, ClaimKind, GrantKind, SpendKind, InsertHandoff, IssueTicket, TicketRow
    <2>2. login[l].status \in {"handoff_issued", "completed", "expired"}
      BY <2>1 DEF NoEarlyTicket, Entry, Base, LoginTypeOK, LoginRow, Status
    <2>3. login'[l].snap = login[l].snap /\ login'[l].method = login[l].method
      BY <1>2, <2>2, SMTT(20) DEF StepKind, QuietKind, StartKind, EntryKind, FailKind, LapseKind,
         TicketLapseKind, ClaimKind, GrantKind, SpendKind, Written, Entry
    <2> QED
      BY <2>1, <2>3 DEF TicketCopiesLogin, CopiedOwners
  <1> QED
    BY <1>1, <1>2

\* Owners move forward, snapshots do not: they stay behind.
LEMMA SnapshotsInductive ==
    ASSUME Base, SnapshotsBehind, StepKind, OwnersForward, ControlTypeOK' PROVE SnapshotsBehind'
  <1>1. \A l \in Login : login'[l].snap = login[l].snap \/ login'[l].snap = Snapshot
    BY DEF StepKind, QuietKind, StartKind, EntryKind, FailKind, LapseKind,
       TicketLapseKind, ClaimKind, GrantKind, SpendKind, Written
  <1>2. \A o \in Owners : /\ owner[o].revision \in Nat /\ owner'[o].revision \in Nat
                          /\ owner[o].revision <= owner'[o].revision
    BY DEF OwnersForward, Base, LoginTypeOK, ControlTypeOK, Revision
  <1>3. \A l \in Login, o \in Owners : login[l].snap[o] \in Nat
    BY DEF Base, LoginTypeOK, LoginRow, OwnerSnapshot, Revision
  <1>4. \A o \in Owners : Snapshot[o] = owner[o].revision
    BY DEF Snapshot
  <1>5. ASSUME NEW l \in Login, NEW o \in Owners PROVE login'[l].snap[o] <= owner'[o].revision
    <2>1. CASE login'[l].snap = login[l].snap
      BY <1>2, <1>3, <2>1 DEF SnapshotsBehind
    <2>2. CASE login'[l].snap = Snapshot
      BY <1>2, <1>4, <2>2
    <2> QED
      BY <1>1, <2>1, <2>2
  <1> QED
    BY <1>5 DEF SnapshotsBehind

\* The invariant is inductive.
LEMMA StepPreserves == LoginInv /\ [LoginNext]_vars => LoginInv'
  <1> SUFFICES ASSUME LoginInv, [LoginNext]_vars PROVE LoginInv'
    OBVIOUS
  <1>1. Base /\ LoginTypeOK /\ StepKind /\ OwnersForward /\ LoginTypeOK' /\ ControlTypeOK'
    BY EveryStepHasAKind, ControlStep, TypeInductive DEF LoginInv, Base
  <1>2. Base'
    BY <1>1, ClaimsKnownInductive, MethodKnownInductive DEF Base
  <1>3. ClaimsStand' /\ ClaimFence' /\ NoEarlyTicket' /\ TicketAgreesWithLogin'
    BY <1>1, ClaimsInductive, TicketsInductive DEF LoginInv
  <1>4. SnapshotsBehind'
    BY <1>1, SnapshotsInductive DEF LoginInv
  <1>5. TicketCopiesLogin'
    BY <1>1, CopiesInductive DEF LoginInv
  <1>6. AttemptsLeft'
    BY <1>1, ChallengeStep, ChallengeWriteType DEF LoginInv, AttemptsLeft, GuessesBounded
  <1> QED
    BY <1>2, <1>3, <1>4, <1>5, <1>6 DEF LoginInv

\* Nothing that any handler, callback or operator does, in any order, breaks
\* the invariant.
THEOREM LoginInvariant == LoginSpec => []LoginInv
  BY InitEstablishes, StepPreserves, PTL DEF LoginSpec

-----------------------------------------------------------------------------
(* What is claimed of the login *)

\* Every variable keeps its type.
THEOREM LoginTypeCorrect == LoginSpec => []LoginTypeOK
  <1>1. LoginInv => LoginTypeOK
    BY DEF LoginInv, Base
  <1> QED
    BY <1>1, LoginInvariant, PTL

\* At most one callback claims a login, and the revision it remembers is the
\* row's for as long as the exchange is in progress (claim_provider_callback).
THEOREM ClaimsAreFenced == LoginSpec => []ClaimFence
  <1>1. LoginInv => ClaimFence
    BY DEF LoginInv
  <1> QED
    BY <1>1, LoginInvariant, PTL

\* The ticket and the login agree (insert_handoff, commit_handoff_exchange).
THEOREM TicketsAgree == LoginSpec => []TicketAgreesWithLogin
  <1>1. LoginInv => TicketAgreesWithLogin
    BY DEF LoginInv
  <1> QED
    BY <1>1, LoginInvariant, PTL

\* No challenge admits more than otp_max_attempts wrong codes (verify_email_proof).
THEOREM GuessesAreBounded == LoginSpec => []GuessesBounded
  <1>1. LoginInv => GuessesBounded
    BY DEF LoginInv, AttemptsLeft
  <1> QED
    BY <1>1, LoginInvariant, PTL

\* No handler writes a login that has ended.
THEOREM SettledLoginsStay == LoginSpec => SettledForever
  <1>1. LoginInv /\ [LoginNext]_vars =>
          \A l \in Login : login[l].status \in {"provider_exchange_failed", "completed", "expired"}
              => login'[l] = login[l]
    <2> SUFFICES ASSUME LoginInv, [LoginNext]_vars, NEW l \in Login,
                        login[l].status \in {"provider_exchange_failed", "completed", "expired"}
                 PROVE  login'[l] = login[l]
      OBVIOUS
    <2>1. StepKind
      BY EveryStepHasAKind DEF LoginInv
    <2> QED
      BY <2>1, SMTT(20) DEF StepKind, QuietKind, StartKind, EntryKind, FailKind, LapseKind, Terminal,
         TicketLapseKind, ClaimKind, GrantKind, SpendKind, Written, Entry
  <1> QED
    BY <1>1, LoginInvariant, PTL DEF LoginSpec, SettledForever

\* A ticket is exchanged within the lifetime of its login, up to the age of the
\* clock reading (commit_handoff_exchange).
THEOREM ExchangesInTime == LoginSpec => ExchangedInTime
  <1>1. LoginInv /\ [LoginNext]_vars =>
          \A l \in Login : login[l].status # "completed" /\ login'[l].status = "completed"
              => now < login[l].expires + MaxClockLag
    <2> SUFFICES ASSUME LoginInv, [LoginNext]_vars, NEW l \in Login,
                        login[l].status # "completed", login'[l].status = "completed"
                 PROVE  now < login[l].expires + MaxClockLag
      OBVIOUS
    <2>1. StepKind
      BY EveryStepHasAKind DEF LoginInv
    <2>2. \E t \in ClockReading : SpendKind(l, t)
      BY <2>1, SMTT(20) DEF StepKind, QuietKind, StartKind, EntryKind, FailKind, LapseKind,
         TicketLapseKind, ClaimKind, GrantKind, SpendKind, Written, Entry
    <2>3. PICK t \in ClockReading : ticket[l].expires > t
      BY <2>2 DEF SpendKind
    <2>4. /\ now \in Nat /\ t \in Nat /\ now - t <= MaxClockLag /\ MaxClockLag \in Nat
          /\ login[l].expires \in Nat /\ ticket[l].expires \in Nat
      BY ControlPlaneAssumption
      DEF ClockReading, LoginInv, Base, LoginTypeOK, ControlTypeOK, LoginRow, TicketTypeOK, TicketRow
    <2>5. ticket[l].expires <= login[l].expires
      BY DEF LoginInv, TicketAgreesWithLogin
    <2> QED
      BY <2>3, <2>4, <2>5
  <1> QED
    BY <1>1, LoginInvariant, PTL DEF LoginSpec, ExchangedInTime

\* Withdrawn authority stays withdrawn and grants nothing any more.
THEOREM WithdrawalStays == LoginSpec => WithdrawalIsFinal
  <1>1. LoginInv /\ [LoginNext]_vars =>
          \A l \in Login : Withdrawn(l) /\ login[l].status # "absent" =>
              /\ Withdrawn(l)'
              /\ login'[l].status \in {"handoff_issued", "completed"}
                    => login'[l].status = login[l].status
    <2> SUFFICES ASSUME LoginInv, [LoginNext]_vars, NEW l \in Login,
                        Withdrawn(l), login[l].status # "absent"
                 PROVE  /\ Withdrawn(l)'
                        /\ login'[l].status \in {"handoff_issued", "completed"}
                              => login'[l].status = login[l].status
      OBVIOUS
    <2> DEFINE S == {"project", "application", "policy"}
                       \cup (IF login[l].method = "provider" THEN {"provider"} ELSE {})
    <2>1. StepKind /\ OwnersForward /\ Base /\ ControlTypeOK'
      BY EveryStepHasAKind, ControlStep DEF LoginInv, Base
    <2>2. PICK o \in S : ~Active(o) \/ owner[o].revision # login[l].snap[o]
      BY DEF Withdrawn, Current
    <2>3. o \in Owners
      BY DEF Owners
    <2>4. /\ login'[l].snap = login[l].snap
          /\ login[l].method = "provider" => login'[l].method = "provider"
      BY <2>1, SMTT(20) DEF StepKind, QuietKind, StartKind, EntryKind, FailKind, LapseKind, Method,
         TicketLapseKind, ClaimKind, GrantKind, SpendKind, Written, Base, MethodKnown
    <2>5. ~(owner'[o].status = "active" /\ owner'[o].revision = login'[l].snap[o])
      <3>1. CASE owner'[o] = owner[o]
        BY <2>2, <2>4, <3>1 DEF Active
      <3>2. CASE owner'[o].revision > owner[o].revision
        <4>1. /\ owner[o].revision \in Nat /\ owner'[o].revision \in Nat
              /\ login[l].snap[o] \in Nat /\ login[l].snap[o] <= owner[o].revision
          BY <2>1, <2>3 DEF LoginInv, SnapshotsBehind, Base, LoginTypeOK, ControlTypeOK, LoginRow,
             OwnerSnapshot, Revision
        <4> QED
          BY <2>4, <3>2, <4>1
      <3> QED
        BY <2>1, <2>3, <3>1, <3>2 DEF OwnersForward
    <2>6. Withdrawn(l)'
      BY <2>4, <2>5 DEF Withdrawn, Current, Active
    <2>7. ASSUME login'[l].status \in {"handoff_issued", "completed"},
                 login'[l].status # login[l].status
          PROVE  FALSE
      <3>1. \E t \in ClockReading : GrantKind(l, t) \/ SpendKind(l, t)
        BY <2>1, <2>7, SMTT(20) DEF StepKind, QuietKind, StartKind, EntryKind, FailKind, LapseKind,
           TicketLapseKind, ClaimKind, GrantKind, SpendKind, Written, Entry
      <3>2. ASSUME NEW t \in ClockReading, GrantKind(l, t) PROVE Current(S, login[l].snap)
        BY <3>2 DEF GrantKind, Current
      <3>3. ASSUME NEW t \in ClockReading, SpendKind(l, t) PROVE Current(S, login[l].snap)
        <4>1. ticket[l].status # "none" /\ Current(HandoffOwners(l), ticket[l].snap)
          BY <3>3 DEF SpendKind
        <4>2. \A p \in S : ticket[l].snap[p] = login[l].snap[p] /\ login[l].snap[p] # 0
          BY <4>1 DEF LoginInv, TicketCopiesLogin, CopiedOwners, Base, LoginTypeOK, LoginRow,
             OwnerSnapshot, Owners, Revision
        <4>3. S \subseteq HandoffOwners(l)
          BY <4>2 DEF HandoffOwners, TicketOwners
        <4> QED
          BY <4>1, <4>2, <4>3 DEF Current
      <3> QED
        BY <3>1, <3>2, <3>3 DEF Withdrawn
    <2> QED
      BY <2>6, <2>7
  <1> QED
    BY <1>1, LoginInvariant, PTL DEF LoginSpec, WithdrawalIsFinal

-----------------------------------------------------------------------------
(* The refinement of OneShotGrant *)

\* A row that is not written, under a ticket that is not written, keeps its
\* phase; so does a ticket that no request can use any more.
LEMMA SamePhase ==
    ASSUME NEW l \in Login, login'[l].status = login[l].status, ticket'[l] = ticket[l]
    PROVE  Phase(l)' = Phase(l)
  BY DEF Phase

\* Callbacks that keep their claims keep every login's holders.
LEMMA SameHolders ==
    ASSUME ClaimsKept \/ UNCHANGED callback PROVE \A l \in Login : Holders(l)' = Holders(l)
  BY DEF ClaimsKept, Holders

\* The phase of a login by its status.
LEMMA PhaseOf ==
    ASSUME NEW l \in Login
    PROVE  /\ login[l].status \in Entry \cup {"absent"} => Phase(l) = "open"
           /\ login[l].status = "provider_exchange_in_progress" => Phase(l) = "claimed"
           /\ login[l].status = "provider_exchange_failed" => Phase(l) = "failed"
           /\ login[l].status = "completed" => Phase(l) = "spent"
           /\ login[l].status = "expired" => Phase(l) = "lapsed"
           /\ login[l].status = "handoff_issued" /\ ticket[l].status = "issued"
                 => Phase(l) = "granted"
           /\ login[l].status = "handoff_issued" /\ ticket[l].status = "expired"
                 => Phase(l) = "lapsed"
  BY DEF Phase, Entry

\* The phase of a login after a step, by its status then.
LEMMA PhaseAfter ==
    ASSUME NEW l \in Login
    PROVE  /\ login'[l].status \in Entry \cup {"absent"} => Phase(l)' = "open"
           /\ login'[l].status = "provider_exchange_in_progress" => Phase(l)' = "claimed"
           /\ login'[l].status = "provider_exchange_failed" => Phase(l)' = "failed"
           /\ login'[l].status = "completed" => Phase(l)' = "spent"
           /\ login'[l].status = "expired" => Phase(l)' = "lapsed"
           /\ login'[l].status = "handoff_issued" /\ ticket'[l].status = "issued"
                 => Phase(l)' = "granted"
           /\ login'[l].status = "handoff_issued" /\ ticket'[l].status = "expired"
                 => Phase(l)' = "lapsed"
  BY DEF Phase, Entry

\* Moving one login's phase is a step of the promise.
LEMMA OneMove ==
    ASSUME NEW l \in Login, NEW from, NEW to,
           Phase(l) \in from, Phase(l)' = to,
           \A k \in Login \ {l} : Phase(k)' = Phase(k),
           \A k \in Login : Holders(k)' = Holders(k)
    PROVE  Promise!Move(l, from, to)
  BY DEF Promise!Move

\* A step that moves no phase and no holder is a stutter of the promise.
LEMMA Stutter ==
    ASSUME \A k \in Login : Phase(k)' = Phase(k), \A k \in Login : Holders(k)' = Holders(k)
    PROVE  UNCHANGED Promise!grantVars
  BY DEF Promise!grantVars

\* Every step of the login is a step of the promise, or a stutter.
LEMMA StepKeepsPromise ==
    LoginInv /\ [LoginNext]_vars => [Promise!Next]_(Promise!grantVars)
  <1> SUFFICES ASSUME LoginInv, [LoginNext]_vars PROVE [Promise!Next]_(Promise!grantVars)
    OBVIOUS
  <1>1. StepKind /\ Base
    BY EveryStepHasAKind DEF LoginInv
  <1>h. ASSUME ~\E l \in Login, c \in Callback : ClaimKind(l, c)
        PROVE  \A l \in Login : Holders(l)' = Holders(l)
    BY <1>1, <1>h, SameHolders DEF StepKind, QuietKind, StartKind, EntryKind, FailKind, LapseKind,
       TicketLapseKind, GrantKind, SpendKind
  <1>2. CASE QuietKind
    BY <1>2, SamePhase, SameHolders, Stutter DEF QuietKind
  <1>3. ASSUME NEW l \in Login, StartKind(l) \/ EntryKind(l) PROVE UNCHANGED Promise!grantVars
    <2>1. \A k \in Login \ {l} : Phase(k)' = Phase(k)
      BY <1>3, SamePhase DEF StartKind, EntryKind, Written
    <2>2. Phase(l) = "open" /\ Phase(l)' = "open"
      BY <1>3, PhaseOf, PhaseAfter DEF StartKind, EntryKind, Written, Entry
    <2> QED
      BY <1>3, <2>1, <2>2, SameHolders, Stutter DEF StartKind, EntryKind
  <1>4. ASSUME NEW l \in Login, FailKind(l) PROVE Promise!Next
    <2>1. \A k \in Login \ {l} : Phase(k)' = Phase(k)
      BY <1>4, SamePhase DEF FailKind, Written
    <2>2. Phase(l) \in {"open", "claimed"} /\ Phase(l)' = "failed"
      BY <1>4, PhaseOf, PhaseAfter DEF FailKind, Written, Entry
    <2>3. Promise!Fail(l)
      BY <1>4, <2>1, <2>2, SameHolders, OneMove DEF FailKind, Promise!Fail
    <2> QED
      BY <2>3 DEF Promise!Next
  <1>5. ASSUME NEW l \in Login, LapseKind(l) PROVE [Promise!Next]_(Promise!grantVars)
    <2>1. \A k \in Login \ {l} : Phase(k)' = Phase(k)
      BY <1>5, SamePhase DEF LapseKind, Written
    <2>2. login[l].status \in Entry \cup {"provider_exchange_in_progress", "handoff_issued"}
      BY <1>1, <1>5 DEF LapseKind, Terminal, Entry, Status, Base, LoginTypeOK, LoginRow
    <2>3. login[l].status = "handoff_issued" => ticket[l].status \in {"issued", "expired"}
      BY DEF LoginInv, TicketAgreesWithLogin
    <2>4. Phase(l) \in {"open", "claimed", "granted", "lapsed"} /\ Phase(l)' = "lapsed"
      BY <1>5, <2>2, <2>3, PhaseOf, PhaseAfter DEF LapseKind, Written
    <2>5. CASE Phase(l) = "lapsed"
      BY <1>5, <2>1, <2>4, <2>5, SameHolders, Stutter DEF LapseKind
    <2>6. CASE Phase(l) # "lapsed"
      <3>1. Promise!Lapse(l)
        BY <1>5, <2>1, <2>4, <2>6, SameHolders, OneMove DEF LapseKind, Promise!Lapse
      <3> QED
        BY <3>1 DEF Promise!Next
    <2> QED
      BY <2>5, <2>6
  <1>6. ASSUME NEW l \in Login, TicketLapseKind(l) PROVE [Promise!Next]_(Promise!grantVars)
    <2>1. /\ ticket'[l].status = "expired"
          /\ \A k \in Login \ {l} : ticket'[k] = ticket[k]
      BY <1>1, <1>6 DEF TicketLapseKind, Base, LoginTypeOK, TicketTypeOK, TicketRow
    <2>2. \A k \in Login \ {l} : Phase(k)' = Phase(k)
      BY <1>6, <2>1, SamePhase DEF TicketLapseKind
    <2>3. login[l].status \in {"handoff_issued", "expired"} /\ login' = login
      BY <1>6 DEF TicketLapseKind, LoginInv, TicketAgreesWithLogin
    <2>4. Phase(l) \in {"granted", "lapsed"} /\ Phase(l)' = "lapsed"
      BY <1>6, <2>1, <2>3, PhaseOf, PhaseAfter DEF TicketLapseKind
    <2>5. CASE Phase(l) = "lapsed"
      BY <1>6, <2>2, <2>4, <2>5, SameHolders, Stutter DEF TicketLapseKind
    <2>6. CASE Phase(l) = "granted"
      <3>1. Promise!Lapse(l)
        BY <1>6, <2>2, <2>4, <2>6, SameHolders, OneMove DEF TicketLapseKind, Promise!Lapse
      <3> QED
        BY <3>1 DEF Promise!Next
    <2> QED
      BY <2>4, <2>5, <2>6
  <1>7. ASSUME NEW l \in Login, NEW t \in ClockReading, GrantKind(l, t) PROVE Promise!Next
    <2>1. /\ ticket'[l].status = "issued"
          /\ \A k \in Login \ {l} : ticket'[k] = ticket[k]
      BY <1>1, <1>7 DEF GrantKind, InsertHandoff, IssueTicket, Base, LoginTypeOK, TicketTypeOK
    <2>2. \A k \in Login \ {l} : Phase(k)' = Phase(k)
      BY <1>7, <2>1, SamePhase DEF GrantKind, Written
    <2>3. Phase(l) \in {"open", "claimed"} /\ Phase(l)' = "granted"
      BY <1>7, <2>1, PhaseOf, PhaseAfter DEF GrantKind, Written, Entry
    <2>4. Promise!Grant(l)
      BY <1>7, <2>2, <2>3, SameHolders, OneMove DEF GrantKind, Promise!Grant
    <2> QED
      BY <2>4 DEF Promise!Next
  <1>8. ASSUME NEW l \in Login, NEW t \in ClockReading, SpendKind(l, t) PROVE Promise!Next
    <2>1. \A k \in Login \ {l} : ticket'[k] = ticket[k]
      BY <1>1, <1>8 DEF SpendKind, Base, LoginTypeOK, TicketTypeOK
    <2>2. \A k \in Login \ {l} : Phase(k)' = Phase(k)
      BY <1>8, <2>1, SamePhase DEF SpendKind, Written
    <2>3. Phase(l) = "granted" /\ Phase(l)' = "spent"
      BY <1>8, PhaseOf, PhaseAfter DEF SpendKind, Written
    <2>4. Promise!Spend(l)
      BY <1>8, <2>2, <2>3, SameHolders, OneMove DEF SpendKind, Promise!Spend
    <2> QED
      BY <2>4 DEF Promise!Next
  <1>9. ASSUME NEW l \in Login, NEW c \in Callback, ClaimKind(l, c) PROVE Promise!Next
    <2>1. /\ callback'[c].login = l /\ callback[c].login = "none"
          /\ \A d \in Callback \ {c} : callback'[d] = callback[d]
          /\ \A k \in Login \ {l} : login'[k] = login[k]
          /\ ticket' = ticket
      BY <1>1, <1>9 DEF ClaimKind, Written, Base, ClaimsKnown, Claimed
    <2>2. \A k \in Login \ {l} : Phase(k)' = Phase(k)
      BY <2>1, SamePhase
    <2>3. Phase(l) = "open" /\ Phase(l)' = "claimed"
      BY <1>9, PhaseOf, PhaseAfter DEF ClaimKind, Written, Entry
    <2>4. \A d \in Callback : callback[d].login # l
      BY <1>9, LoginAssumption DEF ClaimKind, LoginInv, ClaimsStand, Claimed, Entry
    <2>5. Holders(l) = {} /\ Holders(l)' = {c}
      BY <2>1, <2>4 DEF Holders
    <2>6. \A k \in Login \ {l} : Holders(k)' = Holders(k)
      BY <2>1, LoginAssumption DEF Holders
    <2>7. Promise!Claim(l, c)
      BY <2>2, <2>3, <2>5, <2>6 DEF Promise!Claim
    <2> QED
      BY <2>7 DEF Promise!Next
  <1> QED
    BY <1>1, <1>2, <1>3, <1>4, <1>5, <1>6, <1>7, <1>8, <1>9, Stutter DEF StepKind

\* The login, with its revisions, clock, retries and crashes, implements
\* OneShotGrant.
THEOREM LoginKeepsPromise == LoginSpec => KeepsPromise
  <1>1. LoginInit => Promise!Init
    BY LoginAssumption DEF LoginInit, Promise!Init, Phase, Holders
  <1> QED
    BY <1>1, StepKeepsPromise, LoginInvariant, PTL DEF LoginSpec, KeepsPromise, Promise!Spec

-----------------------------------------------------------------------------
(* The inductive invariant of sessions *)

\* A ticket that was issued names the browser session it was issued to.
Seated == \A k \in Login : ticket[k].status # "none" => seat[k] \in Browser

\* A session names its browser session and was paid for with its ticket; the
\* family exists exactly when the session does.
Housed ==
    \A k \in Login :
        /\ session[k].status # "none" =>
              session[k].browser \in Browser /\ ticket[k].status = "consumed"
        /\ session[k].status = "none" <=> family[k].status = "none"
        /\ family[k].status = "none" <=> family[k].current = 0
        /\ family[k].current <= MaxGeneration

\* A request under way names its session and, for a refresh, its token.
RequestsKnown ==
    \A r \in Request :
        /\ request[r].pc \in {"exchange", "exchanged"} => request[r].session \in Login
        /\ request[r].pc \in {"refresh", "rotated"} =>
              /\ request[r].session \in Login
              /\ session[request[r].session].status # "none"
              /\ request[r].generation \in 1..MaxGeneration

\* A logout interaction names its session and its browser session.
LogoutsKnown ==
    \A i \in Logout : logout[i].status # "none" =>
        logout[i].session \in Login /\ logout[i].browser \in Browser

SessionBase == SessionTypeOK /\ Seated /\ Housed /\ RequestsKnown /\ LogoutsKnown

\* No captured revision is ahead of the row it was taken from.
CapturesBehind ==
    /\ \A k \in Login : session[k].status # "none" =>
          \A o \in SessionOwners : session[k].snap[o] <= owner[o].revision
    /\ \A r \in Request : request[r].pc \in {"exchange", "refresh"} =>
          \A o \in WorkOwners : request[r].snap[o] <= owner[o].revision
    /\ \A r \in Request : request[r].pc = "refresh" =>
          /\ request[r].familyRevision <= family[request[r].session].revision
          /\ request[r].sessionRevision <= session[request[r].session].revision

SessionInv ==
    /\ SessionBase
    /\ TokensMatchFamily
    /\ CapturesBehind
    /\ LogoutEndsWhatItSaw

-----------------------------------------------------------------------------
(* Kinds of step.  What a step does to sessions, families and tokens is one  *)
(* of four things; most steps do nothing to them.                            *)

Keep == UNCHANGED <<session, family, generation>>

\* A session is born with its family and its first token.
Birth(r, k) ==
    /\ request[r].pc = "exchange" /\ request[r].session = k
    /\ ticket[k].status = "issued" /\ ticket' = [ticket EXCEPT ![k].status = "consumed"]
    /\ \E t \in ClockReading :
          session' = [session EXCEPT ![k] =
             [status |-> "active", revision |-> 1, snap |-> Revisions(SessionOwners),
              browser |-> seat[k], expires |-> t + SessionLifetime]]
    /\ family' = [family EXCEPT ![k] = [status |-> "active", revision |-> 1, current |-> 1]]
    /\ generation' = [generation EXCEPT ![k][1] = "current"]
    /\ Current(WorkOwners, request[r].snap)
    /\ request' = [request EXCEPT ![r].pc = "exchanged"]

\* A session, its family or both are revoked, or a spent token came back.
End(k) ==
    /\ session[k].status # "none"
    /\ RevokeSession(k) \/ UNCHANGED session
    /\ \/ UNCHANGED generation /\ (RevokeFamily(k) \/ UNCHANGED family)
       \/ \E g \in 1..MaxGeneration : Spent(k, g) /\ RecordRefreshReplay(k, g)

\* The newest token is replaced.
Growth(r, k, g) ==
    /\ request[r].pc = "refresh" /\ request[r].session = k /\ request[r].generation = g
    /\ g \in 1..MaxGeneration /\ g < MaxGeneration
    /\ \E t \in ClockReading : RefreshAdmitted(k, g, t)
    /\ family[k].revision = request[r].familyRevision
    /\ session[k].revision = request[r].sessionRevision
    /\ Current(WorkOwners, request[r].snap)
    /\ generation' = [generation EXCEPT ![k][g] = "consumed", ![k][g + 1] = "current"]
    /\ family' = [family EXCEPT ![k].current = g + 1, ![k].revision = @ + 1]
    /\ request' = [request EXCEPT ![r].pc = "rotated"]
    /\ UNCHANGED session

\* What a step that hands out no token does to a request.
RequestMoves ==
    /\ request' = [r \in Request |-> request'[r]]
    /\ \A r \in Request :
        \/ request'[r] = request[r]
        \/ request[r].pc \in {"idle", "exchange", "refresh"}
              /\ request'[r] = [request[r] EXCEPT !.pc = "ended"]
        \/ \E k \in Login :
              /\ request[r].pc = "idle"
              /\ request'[r] = [NoRequest EXCEPT !.pc = "exchange", !.session = k,
                                                 !.snap = Revisions(WorkOwners)]
        \/ \E k \in Login, g \in 1..MaxGeneration :
              /\ request[r].pc = "idle" /\ session[k].status # "none"
              /\ request'[r] =
                    [pc |-> "refresh", session |-> k, generation |-> g,
                     familyRevision |-> family[k].revision,
                     sessionRevision |-> session[k].revision, snap |-> Revisions(WorkOwners)]

\* What it does to tickets, with the browser sessions they name.
TicketMoves ==
    \A k \in Login :
        \/ ticket'[k] = ticket[k] /\ seat'[k] = seat[k]
        \/ ticket[k].status = "none" /\ ticket'[k].status = "issued" /\ seat'[k] \in Browser
        \/ ticket[k].status = "issued" /\ ticket'[k].status = "expired" /\ seat'[k] = seat[k]

SessionKind ==
    \/ Keep /\ RequestMoves /\ TicketMoves
    \/ \E r \in Request, k \in Login : Birth(r, k) /\ UNCHANGED seat
    \/ \E k \in Login : End(k) /\ RequestMoves /\ UNCHANGED <<ticket, seat>>
    \/ \E r \in Request, k \in Login, g \in 1..MaxGeneration :
          Growth(r, k, g) /\ UNCHANGED <<ticket, seat>>

\* A browser session that is terminated is never written again, and every
\* write advances its revision.
BrowserMoves ==
    \A b \in Browser :
        \/ browser'[b] = browser[b]
        \/ /\ browser[b].status # "terminated" /\ browser'[b].status # "none"
           /\ browser'[b].revision = browser[b].revision + 1

\* An interaction is consumed together with the browser session it names.
LogoutMoves ==
    \A i \in Logout :
        \/ logout'[i] = logout[i]
        \/ /\ logout[i].status # "consumed" /\ logout'[i].status # "consumed"
           /\ logout'[i].session \in Login /\ logout'[i].browser \in Browser
        \/ /\ logout[i].status = "csrf_bound"
           /\ logout'[i] = [logout[i] EXCEPT !.status = "consumed"]
           /\ browser[logout[i].browser].revision = logout[i].browserRevision
           /\ browser' = [browser EXCEPT ![logout[i].browser].status = "terminated",
                                         ![logout[i].browser].revision = @ + 1]

-----------------------------------------------------------------------------
(* Every step has a kind *)

\* Owner rows keep their type and only move forward.
LEMMA SessionControlStep ==
    ASSUME ControlTypeOK, [SessionNext]_authorityVars
    PROVE  ControlTypeOK' /\ OwnersForward
  <1>1. CASE ControlNext
    BY <1>1, ControlNextType, ControlNextForward
  <1>2. CASE UNCHANGED controlVars
    BY <1>2 DEF controlVars, ControlTypeOK, OwnersForward
  <1>3. ASSUME NEW k \in Login, NEW b \in Browser, NEW method, NEW t, IssueHandoff(k, b, method, t)
        PROVE  UNCHANGED controlVars \/ ControlNext
    BY <1>3 DEF IssueHandoff, ObservedProfile, controlVars, ControlNext, SubjectCommand
  <1>4. ASSUME SessionStep PROVE UNCHANGED controlVars
    BY <1>4, ZenonT(30)
    DEF SessionStep, BrowserStep, EndOfSession, RequestStep, LogoutStep, OtherUserSignsIn,
        RevokeBrowserSession, LogoutApplicationSession, RevokeApplicationSession,
        PrepareHandoffExchange, PrepareRefreshRotation, RotateRefreshToken, EndRequest,
        PrepareBrowserLogout, BindBrowserLogout, ConfirmBrowserLogout
  <1>5. ASSUME NEW r, NEW t, CommitExchange(r, t) PROVE UNCHANGED controlVars
    BY <1>5 DEF CommitExchange
  <1> QED
    BY <1>1, <1>2, <1>3, <1>4, <1>5 DEF SessionNext, authorityVars, controlVars

\* What a reuse writes is a browser session's row.
LEMMA ReusedRow ==
    ASSUME NEW row \in BrowserRow, NEW a \in Nat
    PROVE  [row EXCEPT !.revision = @ + 1, !.activity = a] \in BrowserRow
  <1>1. [row EXCEPT !.revision = @ + 1] \in BrowserRow
    BY DEF BrowserRow
  <1>2. \A row2 \in BrowserRow : [row2 EXCEPT !.activity = a] \in BrowserRow
    BY DEF BrowserRow
  <1>3. [row EXCEPT !.revision = @ + 1, !.activity = a]
          = [[row EXCEPT !.revision = @ + 1] EXCEPT !.activity = a]
    BY DEF BrowserRow
  <1> QED
    BY <1>1, <1>2, <1>3

\* A new authentication or a reuse of a browser session advances its revision.
LEMMA SignInMoves ==
    ASSUME SessionTypeOK, NEW b \in Browser, NEW t \in Nat, SignInBrowser(b, t) \/ ReuseBrowser(b, t)
    PROVE  BrowserMoves /\ browser' \in [Browser -> BrowserRow]
  <1>1. Revisions(BrowserOwners) \in BrowserSnapshot
    BY DEF Revisions, BrowserSnapshot, BrowserOwners, SessionTypeOK, ControlTypeOK, Owners, Revision
  <1>2. CASE SignInBrowser(b, t)
    BY <1>1, <1>2 DEF SignInBrowser, BrowserMoves, SessionTypeOK, BrowserRow
  <1>3. CASE ReuseBrowser(b, t)
    <2>1. browser[b] \in BrowserRow /\ browser[b].status = "active"
      BY <1>3 DEF ReuseBrowser, BrowserLive, SessionTypeOK
    <2>2. browser' \in [Browser -> BrowserRow]
      <3> DEFINE a == IF browser[b].activity < t THEN t ELSE browser[b].activity
                 row == [browser[b] EXCEPT !.revision = @ + 1, !.activity = a]
      <3>1. a \in Nat
        BY <2>1 DEF BrowserRow
      <3>2. row \in BrowserRow
        <4> HIDE DEF a
        <4> QED
          BY <2>1, <3>1, ReusedRow
      <3>3. browser \in [Browser -> BrowserRow]
        BY DEF SessionTypeOK
      <3>4. browser' = [browser EXCEPT ![b] = row]
        BY <1>3 DEF ReuseBrowser
      <3> HIDE DEF row
      <3> QED
        BY <3>2, <3>3, <3>4
    <2>3. /\ browser'[b].status = "active"
          /\ browser'[b].revision = browser[b].revision + 1
          /\ \A c \in Browser \ {b} : browser'[c] = browser[c]
      BY <1>3, <2>1 DEF ReuseBrowser, SessionTypeOK, BrowserRow
    <2> QED
      BY <2>1, <2>2, <2>3 DEF BrowserMoves
  <1> QED
    BY <1>2, <1>3

\* So does its termination.
LEMMA TerminateMoves ==
    ASSUME SessionTypeOK, NEW b \in Browser, browser[b].status = "active", TerminateBrowser(b)
    PROVE  BrowserMoves /\ browser' \in [Browser -> BrowserRow]
  <1>a. browser \in [Browser -> BrowserRow]
    BY DEF SessionTypeOK
  <1>1. browser' \in [Browser -> BrowserRow]
    BY <1>a DEF TerminateBrowser, BrowserRow
  <1>2. /\ browser'[b].status = "terminated"
        /\ browser'[b].revision = browser[b].revision + 1
        /\ \A c \in Browser \ {b} : browser'[c] = browser[c]
    BY DEF TerminateBrowser, SessionTypeOK, BrowserRow
  <1> QED
    BY <1>1, <1>2 DEF BrowserMoves

\* The steps on browser sessions alone.
LEMMA BrowserStepKind ==
    ASSUME SessionBase, NEW b \in Browser, BrowserStep(b)
    PROVE  /\ SessionKind /\ BrowserMoves /\ LogoutMoves
           /\ browser' \in [Browser -> BrowserRow] /\ logout' \in [Logout -> LogoutRow]
  BY TerminateMoves
  DEF BrowserStep, OtherUserSignsIn, RevokeBrowserSession, SessionBase, SessionTypeOK, SessionKind,
      Keep, RequestMoves, TicketMoves, LogoutMoves

\* The end of a session, by its user or by an operator.
LEMMA EndOfSessionKind ==
    ASSUME SessionBase, NEW k \in Login, EndOfSession(k)
    PROVE  /\ SessionKind /\ BrowserMoves /\ LogoutMoves
           /\ browser' \in [Browser -> BrowserRow] /\ logout' \in [Logout -> LogoutRow]
  <1>1. End(k) /\ UNCHANGED <<ticket, seat, browser, logout, request>>
    BY DEF EndOfSession, LogoutApplicationSession, RevokeApplicationSession, End
  <1> QED
    BY <1>1 DEF SessionBase, SessionTypeOK, SessionKind, RequestMoves, BrowserMoves, LogoutMoves

\* The steps of exchange and refresh requests but the exchange's commit.
LEMMA RequestStepKind ==
    ASSUME SessionBase, TokensMatchFamily, NEW r \in Request, NEW t \in ClockReading,
           RequestStep(r, t)
    PROVE  /\ SessionKind /\ BrowserMoves /\ LogoutMoves
           /\ browser' \in [Browser -> BrowserRow] /\ logout' \in [Logout -> LogoutRow]
  <1>1. UNCHANGED <<ticket, seat, browser, logout>>
    BY DEF RequestStep, PrepareHandoffExchange, PrepareRefreshRotation, RotateRefreshToken,
       EndRequest, rowVars
  <1>2. request \in [Request -> RequestRow]
    BY DEF SessionBase, SessionTypeOK
  <1>3. ASSUME NEW k \in Login, PrepareHandoffExchange(r, k, t) PROVE SessionKind
    <2>1. Keep /\ RequestMoves
      BY <1>2, <1>3 DEF PrepareHandoffExchange, rowVars, Keep, RequestMoves
    <2> QED
      BY <1>1, <2>1 DEF SessionKind, TicketMoves
  <1>4. ASSUME NEW k \in Login, NEW g \in 1..MaxGeneration, Spent(k, g), RecordRefreshReplay(k, g),
               request[r].pc \in {"idle", "refresh"},
               request' = [request EXCEPT ![r].pc = "ended"], UNCHANGED session
        PROVE  SessionKind
    <2>1. session[k].status # "none"
      BY <1>4 DEF TokensMatchFamily, SessionBase, Housed, SessionTypeOK, FamilyRow
    <2> QED
      BY <1>1, <1>2, <1>4, <2>1 DEF SessionKind, End, RequestMoves
  <1>5. ASSUME NEW k \in Login, NEW g \in 1..MaxGeneration, PrepareRefreshRotation(r, k, g, t)
        PROVE  SessionKind
    <2>1. CASE Spent(k, g) /\ RecordRefreshReplay(k, g) /\ request' = [request EXCEPT ![r].pc = "ended"]
      BY <1>4, <1>5, <2>1 DEF PrepareRefreshRotation
    <2>2. CASE /\ RefreshAdmitted(k, g, t) /\ UNCHANGED <<generation, family>>
               /\ request' = [request EXCEPT ![r] =
                    [pc |-> "refresh", session |-> k, generation |-> g,
                     familyRevision |-> family[k].revision, sessionRevision |-> session[k].revision,
                     snap |-> Revisions(WorkOwners)]]
      <3>1. Keep /\ RequestMoves
        BY <1>2, <1>5, <2>2
        DEF PrepareRefreshRotation, RefreshAdmitted, SessionCurrent, Keep, RequestMoves
      <3> QED
        BY <1>1, <3>1 DEF SessionKind, TicketMoves
    <2> QED
      BY <1>5, <2>1, <2>2 DEF PrepareRefreshRotation
  <1>6. ASSUME RotateRefreshToken(r, t) PROVE SessionKind
    <2> DEFINE k == request[r].session
               g == request[r].generation
    <2>1. k \in Login /\ g \in 1..MaxGeneration
      BY <1>6 DEF RotateRefreshToken, SessionBase, RequestsKnown
    <2>2. CASE Spent(k, g) /\ RecordRefreshReplay(k, g) /\ request' = [request EXCEPT ![r].pc = "ended"]
      BY <1>4, <1>6, <2>1, <2>2 DEF RotateRefreshToken
    <2>3. CASE ~(Spent(k, g) /\ RecordRefreshReplay(k, g) /\ request' = [request EXCEPT ![r].pc = "ended"])
      <3>1. Growth(r, k, g)
        BY <1>6, <2>1, <2>3 DEF RotateRefreshToken, Growth
      <3> QED
        BY <1>1, <2>1, <3>1 DEF SessionKind
    <2> QED
      BY <2>2, <2>3
  <1>7. ASSUME EndRequest(r) PROVE SessionKind
    <2>1. Keep /\ RequestMoves
      BY <1>2, <1>7 DEF EndRequest, rowVars, Keep, RequestMoves
    <2> QED
      BY <1>1, <2>1 DEF SessionKind, TicketMoves
  <1>8. SessionKind
    BY <1>3, <1>5, <1>6, <1>7 DEF RequestStep
  <1> QED
    BY <1>1, <1>8 DEF SessionBase, SessionTypeOK, BrowserMoves, LogoutMoves

\* The row a logout interaction is prepared with.
LEMMA PreparedLogout ==
    ASSUME SessionBase, NEW k \in Login, NEW t \in Nat, SessionCurrent(k, t)
    PROVE  LET b == session[k].browser
           IN  [status |-> "prepared", session |-> k, sessionRevision |-> session[k].revision,
                browser |-> b, browserRevision |-> browser[b].revision,
                expires |-> Lesser(t + LogoutLifetime, Lesser(session[k].expires, Idle(b)))]
               \in LogoutRow
  <1> DEFINE b == session[k].browser
  <1>1. b \in Browser
    BY DEF SessionBase, Housed, SessionCurrent
  <1>2. session[k] \in SessionRow /\ browser[b] \in BrowserRow
    BY <1>1 DEF SessionBase, SessionTypeOK
  <1>3. Idle(b) \in Nat
    BY <1>2, SessionAssumption DEF Idle, Absolute, Lesser, BrowserRow
  <1>4. t + LogoutLifetime \in Nat /\ session[k].expires \in Nat
    BY <1>2, SessionAssumption DEF SessionRow
  <1>5. Lesser(t + LogoutLifetime, Lesser(session[k].expires, Idle(b))) \in Nat
    BY <1>3, <1>4 DEF Lesser
  <1>6. session[k].revision \in Nat /\ browser[b].revision \in Nat
    BY <1>2 DEF SessionRow, BrowserRow
  <1> HIDE DEF b
  <1>7. [status |-> "prepared", session |-> k, sessionRevision |-> session[k].revision,
         browser |-> b, browserRevision |-> browser[b].revision,
         expires |-> Lesser(t + LogoutLifetime, Lesser(session[k].expires, Idle(b)))] \in LogoutRow
    BY <1>1, <1>5, <1>6 DEF LogoutRow
  <1> QED
    BY <1>7 DEF b

\* The steps of a browser logout.
LEMMA LogoutStepKind ==
    ASSUME SessionBase, NEW i \in Logout, NEW t \in ClockReading, LogoutStep(i, t)
    PROVE  /\ SessionKind /\ BrowserMoves /\ LogoutMoves
           /\ browser' \in [Browser -> BrowserRow] /\ logout' \in [Logout -> LogoutRow]
  <1> USE DEF SessionBase
  <1>1. UNCHANGED <<controlVars, ticket, seat, session, family, generation, request>>
    BY DEF LogoutStep, PrepareBrowserLogout, BindBrowserLogout, ConfirmBrowserLogout
  <1>2. SessionKind
    BY <1>1 DEF SessionKind, Keep, RequestMoves, TicketMoves, SessionTypeOK
  <1>3. t \in Nat
    BY ClockReadingType DEF SessionTypeOK
  <1>4. logout \in [Logout -> LogoutRow] /\ browser \in [Browser -> BrowserRow]
    BY DEF SessionTypeOK
  <1>5. ASSUME NEW k \in Login, PrepareBrowserLogout(i, k, t)
        PROVE  LogoutMoves /\ logout' \in [Logout -> LogoutRow] /\ UNCHANGED browser
    <2> DEFINE b == session[k].browser
               row == [status |-> "prepared", session |-> k,
                       sessionRevision |-> session[k].revision,
                       browser |-> b, browserRevision |-> browser[b].revision,
                       expires |-> Lesser(t + LogoutLifetime, Lesser(session[k].expires, Idle(b)))]
    <2>1. row \in LogoutRow
      BY <1>3, <1>5, PreparedLogout DEF PrepareBrowserLogout
    <2>2. logout' = [logout EXCEPT ![i] = row] /\ UNCHANGED browser /\ logout[i].status = "none"
      BY <1>5 DEF PrepareBrowserLogout
    <2>3. row.status = "prepared" /\ row.session \in Login /\ row.browser \in Browser
      BY <1>5 DEF PrepareBrowserLogout, SessionCurrent, Housed
    <2> HIDE DEF row
    <2> QED
      BY <1>4, <2>1, <2>2, <2>3 DEF LogoutMoves
  <1>6. ASSUME NEW s \in {"csrf_bound", "expired"}, logout[i].status \in {"prepared", "csrf_bound"},
               logout' = [logout EXCEPT ![i].status = s]
        PROVE  LogoutMoves /\ logout' \in [Logout -> LogoutRow]
    <2>1. logout' \in [Logout -> LogoutRow]
      BY <1>4, <1>6 DEF LogoutRow
    <2>2. logout[i].session \in Login /\ logout[i].browser \in Browser
      BY <1>6 DEF LogoutsKnown
    <2>3. logout'[i].session = logout[i].session /\ logout'[i].browser = logout[i].browser
          /\ logout'[i].status = s /\ \A j \in Logout \ {i} : logout'[j] = logout[j]
      BY <1>4, <1>6 DEF LogoutRow
    <2> QED
      BY <1>6, <2>1, <2>2, <2>3 DEF LogoutMoves
  <1>7. ASSUME LogoutAdmitted(i, "csrf_bound", t), TerminateBrowser(logout[i].browser),
               logout' = [logout EXCEPT ![i].status = "consumed"]
        PROVE  /\ LogoutMoves /\ logout' \in [Logout -> LogoutRow]
               /\ BrowserMoves /\ browser' \in [Browser -> BrowserRow]
    <2>1. logout' \in [Logout -> LogoutRow]
      BY <1>4, <1>7 DEF LogoutRow
    <2>2. /\ logout[i].status = "csrf_bound"
          /\ browser[logout[i].browser].revision = logout[i].browserRevision
          /\ browser[logout[i].browser].status = "active"
      BY <1>7 DEF LogoutAdmitted, BrowserLive
    <2>3. logout[i].browser \in Browser
      BY <2>2 DEF LogoutsKnown
    <2>4. BrowserMoves /\ browser' \in [Browser -> BrowserRow]
      BY <1>7, <2>2, <2>3, TerminateMoves
    <2> QED
      BY <1>4, <1>7, <2>1, <2>2, <2>4 DEF LogoutMoves, TerminateBrowser
  <1>8. CASE ExpireBrowserLogout(i, t)
    BY <1>2, <1>4, <1>6, <1>8 DEF ExpireBrowserLogout, BrowserMoves
  <1>9. CASE LogoutAdmitted(i, "prepared", t) /\ logout' = [logout EXCEPT ![i].status = "csrf_bound"]
             /\ UNCHANGED browser
    BY <1>2, <1>4, <1>6, <1>9 DEF LogoutAdmitted, BrowserMoves
  <1>10. CASE \E k \in Login : PrepareBrowserLogout(i, k, t)
    BY <1>2, <1>4, <1>5, <1>10 DEF BrowserMoves
  <1> QED
    BY <1>2, <1>7, <1>8, <1>9, <1>10 DEF LogoutStep, BindBrowserLogout, ConfirmBrowserLogout

\* A completed login issues its ticket and seats it.
LEMMA IssueHandoffKind ==
    ASSUME SessionBase, NEW t \in ClockReading, NEW k \in Login, NEW b \in Browser, NEW method,
           IssueHandoff(k, b, method, t)
    PROVE  /\ SessionKind /\ BrowserMoves /\ LogoutMoves
           /\ browser' \in [Browser -> BrowserRow] /\ logout' \in [Logout -> LogoutRow]
  <1> USE DEF SessionBase
  <1>1. t \in Nat
    BY ClockReadingType DEF SessionTypeOK
  <1>2. BrowserMoves /\ browser' \in [Browser -> BrowserRow]
    BY <1>1, SignInMoves DEF IssueHandoff
  <1>3. PICK e, snap : ticket' = [ticket EXCEPT ![k] =
                                    [status |-> "issued", expires |-> e, snap |-> snap]]
    BY DEF IssueHandoff, IssueTicket
  <1>4. ticket[k].status = "none" /\ seat' = [seat EXCEPT ![k] = b]
        /\ UNCHANGED <<session, family, generation, logout, request>>
    BY DEF IssueHandoff
  <1>5. ticket \in [Login -> TicketRow] /\ seat \in [Login -> Browser \cup {"none"}]
    BY DEF SessionTypeOK, TicketTypeOK
  <1>6. TicketMoves
    BY <1>3, <1>4, <1>5 DEF TicketMoves
  <1> QED
    BY <1>2, <1>4, <1>6 DEF SessionKind, Keep, RequestMoves, LogoutMoves, SessionTypeOK

\* The commit of an exchange expires the ticket or creates the session.
LEMMA CommitExchangeKind ==
    ASSUME SessionBase, NEW t \in ClockReading, NEW r \in Request, CommitExchange(r, t)
    PROVE  /\ SessionKind /\ BrowserMoves /\ LogoutMoves
           /\ browser' \in [Browser -> BrowserRow] /\ logout' \in [Logout -> LogoutRow]
  <1> DEFINE k == request[r].session
  <1>1. k \in Login /\ UNCHANGED <<seat, browser, logout>> /\ request[r].pc = "exchange"
    BY DEF CommitExchange, SessionBase, RequestsKnown
  <1>2. ticket \in [Login -> TicketRow] /\ request \in [Request -> RequestRow]
    BY DEF SessionBase, SessionTypeOK, TicketTypeOK
  <1>3. ASSUME ExpireTicket(k, t), request' = [request EXCEPT ![r].pc = "ended"],
               UNCHANGED <<session, family, generation>>
        PROVE  SessionKind
    <2>1. TicketMoves
      BY <1>1, <1>2, <1>3 DEF TicketMoves, ExpireTicket, TicketRow
    <2>2. RequestMoves
      BY <1>1, <1>2, <1>3 DEF RequestMoves
    <2> QED
      BY <1>3, <2>1, <2>2 DEF SessionKind, Keep
  <1>4. ASSUME SpendTicket(k, t) PROVE SessionKind
    <2>1. Birth(r, k)
      BY <1>1, <1>2, <1>4 DEF CommitExchange, Birth, SpendTicket, ExpireTicket, TicketRow
    <2> QED
      BY <1>1, <2>1 DEF SessionKind
  <1>5. SessionKind
    BY <1>3, <1>4 DEF CommitExchange
  <1> QED
    BY <1>1, <1>5 DEF BrowserMoves, LogoutMoves, SessionBase, SessionTypeOK

\* Every step, or none, is of one kind, and moves browser sessions and logout
\* interactions as it may.
LEMMA EverySessionStep ==
    ASSUME SessionBase, TokensMatchFamily, [SessionNext]_authorityVars
    PROVE  /\ SessionKind /\ BrowserMoves /\ LogoutMoves
           /\ browser' \in [Browser -> BrowserRow] /\ logout' \in [Logout -> LogoutRow]
  <1>1. CASE UNCHANGED <<ticket, sessionVars>>
    BY <1>1
    DEF SessionKind, Keep, RequestMoves, TicketMoves, BrowserMoves, LogoutMoves, sessionVars, rowVars,
        SessionBase, SessionTypeOK
  <1>2. CASE SessionStep
    BY <1>2, BrowserStepKind, EndOfSessionKind, RequestStepKind, LogoutStepKind DEF SessionStep
  <1> QED
    BY <1>1, <1>2, IssueHandoffKind, CommitExchangeKind DEF SessionNext, authorityVars

-----------------------------------------------------------------------------
(* Types are kept *)

\* Captured revisions are snapshots.
LEMMA RevisionsType ==
    ASSUME ControlTypeOK
    PROVE  /\ Revisions(SessionOwners) \in SessionSnapshot
           /\ Revisions(WorkOwners) \in WorkSnapshot
  BY DEF ControlTypeOK, Owners, Revision, Revisions, SessionSnapshot, WorkSnapshot, SessionOwners,
     WorkOwners

\* Tickets and the browser sessions they name.
LEMMA TicketStepType ==
    ASSUME SessionBase, [SessionNext]_authorityVars
    PROVE  TicketTypeOK' /\ seat' \in [Login -> Browser \cup {"none"}]
  <1>1. /\ ticket \in [Login -> TicketRow] /\ seat \in [Login -> Browser \cup {"none"}]
        /\ ControlTypeOK
    BY DEF SessionBase, SessionTypeOK, TicketTypeOK
  <1>2. ASSUME NEW t \in ClockReading, NEW k \in Login, NEW b \in Browser, NEW method,
               IssueHandoff(k, b, method, t)
        PROVE  TicketTypeOK' /\ seat' \in [Login -> Browser \cup {"none"}]
    <2> DEFINE snap == [o \in TicketOwners |->
                           IF o = "provider" /\ method # "provider" THEN 0 ELSE owner[o].revision]
    <2>1. PICK e \in t+1 .. t+HandoffLifetime : IssueTicket(k, e, snap)
      BY <1>2 DEF IssueHandoff
    <2>2. e \in Nat
      BY <1>1, <2>1, ClockReadingType, TicketAssumption
    <2>3. snap \in TicketSnapshot
      BY <1>1 DEF ControlTypeOK, TicketSnapshot, TicketOwners, Owners, Revision
    <2> HIDE DEF snap
    <2>4. TicketTypeOK'
      BY <1>1, <2>1, <2>2, <2>3 DEF TicketTypeOK, TicketRow, IssueTicket
    <2>5. seat' \in [Login -> Browser \cup {"none"}]
      BY <1>1, <1>2 DEF IssueHandoff
    <2> QED
      BY <2>4, <2>5
  <1>3. ASSUME NEW t \in ClockReading, NEW r \in Request, CommitExchange(r, t)
        PROVE  TicketTypeOK' /\ UNCHANGED seat
    BY <1>1, <1>3 DEF CommitExchange, ExpireTicket, SpendTicket, TicketTypeOK, TicketRow
  <1>4. ASSUME SessionStep PROVE UNCHANGED <<ticket, seat>>
    BY <1>4, ZenonT(30)
    DEF SessionStep, BrowserStep, EndOfSession, RequestStep, LogoutStep, OtherUserSignsIn,
        RevokeBrowserSession, LogoutApplicationSession, RevokeApplicationSession, rowVars,
        PrepareHandoffExchange, PrepareRefreshRotation, RotateRefreshToken, EndRequest,
        PrepareBrowserLogout, BindBrowserLogout, ConfirmBrowserLogout
  <1> QED
    BY <1>1, <1>2, <1>3, <1>4 DEF SessionNext, authorityVars, sessionVars, rowVars, TicketTypeOK

\* The rows of requests.
LEMMA RequestMovesType ==
    ASSUME SessionTypeOK, RequestMoves
    PROVE  request' \in [Request -> RequestRow]
  <1>1. Revisions(WorkOwners) \in WorkSnapshot
    BY RevisionsType DEF SessionTypeOK
  <1>2. /\ request \in [Request -> RequestRow] /\ family \in [Login -> FamilyRow]
        /\ session \in [Login -> SessionRow]
    BY DEF SessionTypeOK
  <1>3. \A k \in Login : family[k].revision \in Nat /\ session[k].revision \in Nat
    BY <1>2 DEF FamilyRow, SessionRow
  <1>4. ASSUME NEW r \in Request PROVE request'[r] \in RequestRow
    <2>1. [request[r] EXCEPT !.pc = "ended"] \in RequestRow
      BY <1>2 DEF RequestRow
    <2>2. \A k \in Login : [NoRequest EXCEPT !.pc = "exchange", !.session = k,
                                  !.snap = Revisions(WorkOwners)] \in RequestRow
      BY <1>1 DEF RequestRow, NoRequest
    <2>3. \A k \in Login, g \in 1..MaxGeneration :
             [pc |-> "refresh", session |-> k, generation |-> g,
              familyRevision |-> family[k].revision,
              sessionRevision |-> session[k].revision, snap |-> Revisions(WorkOwners)] \in RequestRow
      BY <1>1, <1>3 DEF RequestRow
    <2>4. CASE request'[r] = request[r]
      BY <1>2, <2>4
    <2>5. CASE request'[r] = [request[r] EXCEPT !.pc = "ended"]
      BY <2>1, <2>5
    <2>6. CASE \E k \in Login : request'[r] = [NoRequest EXCEPT !.pc = "exchange", !.session = k,
                                                  !.snap = Revisions(WorkOwners)]
      BY <2>2, <2>6
    <2>7. CASE \E k \in Login, g \in 1..MaxGeneration :
                 request'[r] =
                    [pc |-> "refresh", session |-> k, generation |-> g,
                     familyRevision |-> family[k].revision,
                     sessionRevision |-> session[k].revision, snap |-> Revisions(WorkOwners)]
      BY <2>3, <2>7
    <2> QED
      BY <2>4, <2>5, <2>6, <2>7 DEF RequestMoves
  <1> QED
    BY <1>4 DEF RequestMoves

\* A birth writes rows of the right type.
LEMMA BirthType ==
    ASSUME SessionBase, NEW r \in Request, NEW k \in Login, Birth(r, k)
    PROVE  /\ session' \in [Login -> SessionRow] /\ family' \in [Login -> FamilyRow]
           /\ generation' \in [Login -> [1..MaxGeneration -> GenerationStatus]]
           /\ request' \in [Request -> RequestRow]
  <1>1. /\ session \in [Login -> SessionRow] /\ family \in [Login -> FamilyRow]
        /\ generation \in [Login -> [1..MaxGeneration -> GenerationStatus]]
        /\ request \in [Request -> RequestRow] /\ ControlTypeOK
    BY DEF SessionBase, SessionTypeOK
  <1>2. seat[k] \in Browser /\ Revisions(SessionOwners) \in SessionSnapshot
    BY <1>1, RevisionsType DEF Birth, SessionBase, Seated
  <1>3. PICK t \in ClockReading : session' = [session EXCEPT ![k] =
             [status |-> "active", revision |-> 1, snap |-> Revisions(SessionOwners),
              browser |-> seat[k], expires |-> t + SessionLifetime]]
    BY DEF Birth
  <1>4. t + SessionLifetime \in Nat
    BY <1>1, <1>3, ClockReadingType, SessionAssumption
  <1>5. session' \in [Login -> SessionRow]
    BY <1>1, <1>2, <1>3, <1>4 DEF SessionRow
  <1>6. family' \in [Login -> FamilyRow]
    BY <1>1 DEF Birth, FamilyRow
  <1>7. generation' \in [Login -> [1..MaxGeneration -> GenerationStatus]]
    BY <1>1, SessionAssumption DEF Birth, GenerationStatus
  <1>8. request' \in [Request -> RequestRow]
    <2>1. request' = [request EXCEPT ![r].pc = "exchanged"]
      BY DEF Birth
    <2> QED
      BY <1>1, <2>1, ZenonT(30) DEF RequestRow
  <1> QED
    BY <1>5, <1>6, <1>7, <1>8

\* So does the end of a session or of its family.
LEMMA EndType ==
    ASSUME SessionBase, NEW k \in Login, End(k)
    PROVE  /\ session' \in [Login -> SessionRow] /\ family' \in [Login -> FamilyRow]
           /\ generation' \in [Login -> [1..MaxGeneration -> GenerationStatus]]
  <1>1. /\ session \in [Login -> SessionRow] /\ family \in [Login -> FamilyRow]
        /\ generation \in [Login -> [1..MaxGeneration -> GenerationStatus]]
    BY DEF SessionBase, SessionTypeOK
  <1>2. ASSUME RevokeSession(k) PROVE session' \in [Login -> SessionRow]
    <2>1. CASE session' = [session EXCEPT ![k].status = "revoked", ![k].revision = @ + 1]
      <3>1. session \in [Login -> SessionRow]
        BY <1>1
      <3> QED
        BY <2>1, <3>1 DEF SessionRow
    <2> QED
      BY <1>1, <1>2, <2>1 DEF RevokeSession
  <1>3. ASSUME RevokeFamily(k) PROVE family' \in [Login -> FamilyRow]
    BY <1>1, <1>3 DEF RevokeFamily, FamilyRow
  <1>4. ASSUME NEW g \in 1..MaxGeneration, generation' = [generation EXCEPT ![k][g] = "replayed"]
        PROVE  generation' \in [Login -> [1..MaxGeneration -> GenerationStatus]]
    BY <1>1, <1>4 DEF GenerationStatus
  <1>5. session' \in [Login -> SessionRow]
    BY <1>1, <1>2 DEF End
  <1>6. family' \in [Login -> FamilyRow]
    BY <1>1, <1>3 DEF End, RecordRefreshReplay
  <1>7. generation' \in [Login -> [1..MaxGeneration -> GenerationStatus]]
    BY <1>1, <1>4 DEF End, RecordRefreshReplay
  <1> QED
    BY <1>5, <1>6, <1>7

\* And a rotation.
LEMMA GrowthType ==
    ASSUME SessionBase, NEW r \in Request, NEW k \in Login, NEW g \in 1..MaxGeneration,
           Growth(r, k, g)
    PROVE  /\ session' \in [Login -> SessionRow] /\ family' \in [Login -> FamilyRow]
           /\ generation' \in [Login -> [1..MaxGeneration -> GenerationStatus]]
           /\ request' \in [Request -> RequestRow]
  <1>1. /\ session \in [Login -> SessionRow] /\ family \in [Login -> FamilyRow]
        /\ generation \in [Login -> [1..MaxGeneration -> GenerationStatus]]
        /\ request \in [Request -> RequestRow]
    BY DEF SessionBase, SessionTypeOK
  <1>2. g + 1 \in 1..MaxGeneration
    BY SessionAssumption DEF Growth
  <1>3. family' \in [Login -> FamilyRow]
    BY <1>1 DEF Growth, FamilyRow
  <1>4. generation' \in [Login -> [1..MaxGeneration -> GenerationStatus]]
    BY <1>1, <1>2 DEF Growth, GenerationStatus
  <1>5. request' \in [Request -> RequestRow]
    BY <1>1, ZenonT(30) DEF Growth, RequestRow
  <1> QED
    BY <1>1, <1>3, <1>4, <1>5 DEF Growth

\* Every step keeps every variable's type.
LEMMA SessionTypeStep ==
    ASSUME SessionBase, TokensMatchFamily, [SessionNext]_authorityVars
    PROVE  SessionTypeOK'
  <1>1. ControlTypeOK'
    BY SessionControlStep DEF SessionBase, SessionTypeOK
  <1>2. TicketTypeOK' /\ seat' \in [Login -> Browser \cup {"none"}]
    BY TicketStepType
  <1>3. SessionKind /\ browser' \in [Browser -> BrowserRow] /\ logout' \in [Logout -> LogoutRow]
    BY EverySessionStep
  <1>4. /\ session' \in [Login -> SessionRow] /\ family' \in [Login -> FamilyRow]
        /\ generation' \in [Login -> [1..MaxGeneration -> GenerationStatus]]
        /\ request' \in [Request -> RequestRow]
    <2>1. CASE Keep /\ RequestMoves
      BY <2>1, RequestMovesType DEF Keep, SessionBase, SessionTypeOK
    <2>2. CASE \E k \in Login : End(k) /\ RequestMoves
      BY <2>2, EndType, RequestMovesType DEF SessionBase
    <2> QED
      BY <1>3, <2>1, <2>2, BirthType, GrowthType DEF SessionKind
  <1> QED
    BY <1>1, <1>2, <1>3, <1>4 DEF SessionTypeOK

-----------------------------------------------------------------------------
(* The rest of the invariant is kept *)

\* What no step undoes in a session that exists.
SessionsForward ==
    \A k \in Login : session[k].status # "none" =>
        /\ session'[k].status # "none"
        /\ session'[k].snap = session[k].snap
        /\ session'[k].browser = session[k].browser
        /\ session'[k].revision >= session[k].revision
        /\ family'[k].revision >= family[k].revision
        /\ session[k].status = "revoked" => session'[k].status = "revoked"
        /\ family[k].status = "revoked" => family'[k].status = "revoked"

\* A birth, row by row.
BirthEffect(r, k) ==
    /\ session[k].status = "none" /\ family[k].current = 0
    /\ \A j \in Login \ {k} : session'[j] = session[j] /\ family'[j] = family[j]
                                /\ generation'[j] = generation[j] /\ ticket'[j] = ticket[j]
    /\ session'[k].status = "active" /\ session'[k].revision = 1
    /\ session'[k].snap = Revisions(SessionOwners) /\ session'[k].browser = seat[k]
    /\ family'[k].status = "active" /\ family'[k].revision = 1 /\ family'[k].current = 1
    /\ generation'[k][1] = "current" /\ ticket'[k].status = "consumed"
    /\ \A g \in 1..MaxGeneration \ {1} : generation'[k][g] = generation[k][g]
    /\ request'[r] = [request[r] EXCEPT !.pc = "exchanged"]
    /\ \A q \in Request \ {r} : request'[q] = request[q]

\* Its effect follows from the transaction's assignments.
LEMMA BirthRows ==
    ASSUME SessionBase, NEW r \in Request, NEW k \in Login, Birth(r, k)
    PROVE  BirthEffect(r, k)
  <1>1. session[k].status = "none" /\ family[k].current = 0
    BY DEF Birth, SessionBase, Housed
  <1>2. /\ session \in [Login -> SessionRow] /\ family \in [Login -> FamilyRow]
        /\ generation \in [Login -> [1..MaxGeneration -> GenerationStatus]]
        /\ request \in [Request -> RequestRow] /\ ticket \in [Login -> TicketRow]
    BY DEF SessionBase, SessionTypeOK, TicketTypeOK
  <1>3. PICK t \in ClockReading : session' = [session EXCEPT ![k] =
             [status |-> "active", revision |-> 1, snap |-> Revisions(SessionOwners),
              browser |-> seat[k], expires |-> t + SessionLifetime]]
    BY DEF Birth
  <1>4. 1 \in 1..MaxGeneration
    BY SessionAssumption
  <1>5. /\ \A j \in Login \ {k} : session'[j] = session[j]
        /\ session'[k].status = "active" /\ session'[k].revision = 1
        /\ session'[k].snap = Revisions(SessionOwners) /\ session'[k].browser = seat[k]
    BY <1>2, <1>3
  <1>6. /\ \A j \in Login \ {k} : family'[j] = family[j]
        /\ family'[k].status = "active" /\ family'[k].revision = 1 /\ family'[k].current = 1
    BY <1>2 DEF Birth
  <1>7. /\ \A j \in Login \ {k} : generation'[j] = generation[j]
        /\ generation'[k][1] = "current"
        /\ \A g \in 1..MaxGeneration \ {1} : generation'[k][g] = generation[k][g]
    <2>1. /\ generation \in [Login -> [1..MaxGeneration -> GenerationStatus]]
          /\ generation' = [generation EXCEPT ![k] = [generation[k] EXCEPT ![1] = "current"]]
      BY <1>2 DEF Birth
    <2> QED
      BY <1>4, <2>1
  <1>8. ticket'[k].status = "consumed" /\ \A j \in Login \ {k} : ticket'[j] = ticket[j]
    BY <1>2 DEF Birth, TicketRow
  <1>9. /\ request'[r] = [request[r] EXCEPT !.pc = "exchanged"]
        /\ \A q \in Request \ {r} : request'[q] = request[q]
    BY <1>2 DEF Birth
  <1> QED
    BY <1>1, <1>5, <1>6, <1>7, <1>8, <1>9 DEF BirthEffect

\* The end of a session or of its family, row by row.
EndEffect(k) ==
    /\ session[k].status # "none" /\ family[k].status # "none"
    /\ \A j \in Login \ {k} : session'[j] = session[j] /\ family'[j] = family[j]
                                /\ generation'[j] = generation[j]
    /\ session'[k].snap = session[k].snap /\ session'[k].browser = session[k].browser
    /\ session'[k].revision >= session[k].revision
    /\ session'[k].status \in {session[k].status, "revoked"}
    /\ family'[k].current = family[k].current
    /\ family'[k].revision >= family[k].revision
    /\ family'[k].status \in {family[k].status, "revoked"}
    /\ \A g \in 1..MaxGeneration :
          \/ generation'[k][g] = generation[k][g]
          \/ /\ Spent(k, g) /\ generation'[k][g] = "replayed"
             /\ family'[k].status = "revoked"

\* The same for the end.
LEMMA EndRows ==
    ASSUME SessionBase, NEW k \in Login, End(k)
    PROVE  EndEffect(k)
  <1>1. /\ session \in [Login -> SessionRow] /\ family \in [Login -> FamilyRow]
        /\ generation \in [Login -> [1..MaxGeneration -> GenerationStatus]]
    BY DEF SessionBase, SessionTypeOK
  <1>2. /\ \A j \in Login \ {k} : session'[j] = session[j]
        /\ session'[k].snap = session[k].snap /\ session'[k].browser = session[k].browser
        /\ session'[k].revision >= session[k].revision
        /\ session'[k].status \in {session[k].status, "revoked"}
    <2>1. CASE UNCHANGED session
      BY <1>1, <2>1 DEF SessionRow
    <2>2. CASE session' = [session EXCEPT ![k].status = "revoked", ![k].revision = @ + 1]
      BY <1>1, <2>2 DEF SessionRow
    <2> QED
      BY <2>1, <2>2 DEF End, RevokeSession
  <1>3. family[k].status # "none" /\ session[k].status # "none"
    BY DEF End, SessionBase, Housed
  <1>4. ASSUME RevokeFamily(k)
        PROVE  /\ \A j \in Login \ {k} : family'[j] = family[j]
               /\ family'[k].current = family[k].current
               /\ family'[k].revision >= family[k].revision
               /\ family'[k].status = "revoked"
    BY <1>1, <1>3, <1>4 DEF RevokeFamily, FamilyRow
  <1>5. CASE UNCHANGED generation /\ RevokeFamily(k)
    BY <1>2, <1>3, <1>4, <1>5 DEF EndEffect
  <1>6. CASE UNCHANGED <<generation, family>>
    <2>1. family[k].revision \in Nat
      BY <1>1 DEF FamilyRow
    <2> QED
      BY <1>2, <1>3, <1>6, <2>1 DEF EndEffect
  <1>7. ASSUME NEW g \in 1..MaxGeneration, Spent(k, g), RecordRefreshReplay(k, g)
        PROVE  EndEffect(k)
    <2>1. /\ \A j \in Login \ {k} : generation'[j] = generation[j]
          /\ \A f \in 1..MaxGeneration : f # g => generation'[k][f] = generation[k][f]
          /\ generation'[k][g] = "replayed"
      BY <1>1, <1>7 DEF RecordRefreshReplay
    <2>2. RevokeFamily(k)
      BY <1>7 DEF RecordRefreshReplay
    <2> QED
      BY <1>2, <1>3, <1>4, <1>7, <2>1, <2>2 DEF EndEffect
  <1> QED
    BY <1>5, <1>6, <1>7 DEF End

\* A rotation, row by row.
GrowthEffect(r, k, g) ==
    /\ g + 1 \in 1..MaxGeneration /\ family[k].current = g /\ session[k].status = "active"
    /\ \A j \in Login \ {k} : family'[j] = family[j] /\ generation'[j] = generation[j]
    /\ session' = session
    /\ family'[k].status = "active" /\ family[k].status = "active"
    /\ family'[k].revision = family[k].revision + 1 /\ family'[k].current = g + 1
    /\ generation'[k][g] = "consumed" /\ generation'[k][g + 1] = "current"
    /\ \A f \in 1..MaxGeneration : f # g /\ f # g + 1 => generation'[k][f] = generation[k][f]
    /\ request'[r] = [request[r] EXCEPT !.pc = "rotated"]
    /\ \A q \in Request \ {r} : request'[q] = request[q]

\* The same for the rotation.
LEMMA GrowthRows ==
    ASSUME SessionBase, NEW r \in Request, NEW k \in Login, NEW g \in 1..MaxGeneration,
           Growth(r, k, g)
    PROVE  GrowthEffect(r, k, g)
  <1>1. /\ session \in [Login -> SessionRow] /\ family \in [Login -> FamilyRow]
        /\ generation \in [Login -> [1..MaxGeneration -> GenerationStatus]]
        /\ request \in [Request -> RequestRow]
    BY DEF SessionBase, SessionTypeOK
  <1>2. g + 1 \in 1..MaxGeneration
    BY SessionAssumption DEF Growth
  <1>3. family[k].current = g /\ session[k].status = "active" /\ family[k].status = "active"
    BY DEF Growth, RefreshAdmitted, SessionCurrent
  <1>4. /\ \A j \in Login \ {k} : family'[j] = family[j]
        /\ family'[k].status = family[k].status
        /\ family'[k].revision = family[k].revision + 1 /\ family'[k].current = g + 1
    BY <1>1 DEF Growth, FamilyRow
  <1>5. /\ \A j \in Login \ {k} : generation'[j] = generation[j]
        /\ generation'[k][g] = "consumed" /\ generation'[k][g + 1] = "current"
        /\ \A f \in 1..MaxGeneration : f # g /\ f # g + 1 => generation'[k][f] = generation[k][f]
    <2>1. /\ generation \in [Login -> [1..MaxGeneration -> GenerationStatus]]
          /\ generation' = [generation EXCEPT ![k] =
                               [generation[k] EXCEPT ![g] = "consumed", ![g + 1] = "current"]]
      BY <1>1, <1>2 DEF Growth
    <2>2. generation'[k] = [generation[k] EXCEPT ![g] = "consumed", ![g + 1] = "current"]
          /\ \A j \in Login \ {k} : generation'[j] = generation[j]
      BY <2>1
    <2>3. generation[k] \in [1..MaxGeneration -> GenerationStatus] /\ g # g + 1
      BY <2>1
    <2> QED
      BY <1>2, <2>2, <2>3
  <1>6. /\ request'[r] = [request[r] EXCEPT !.pc = "rotated"]
        /\ \A q \in Request \ {r} : request'[q] = request[q]
    BY <1>1 DEF Growth
  <1> QED
    BY <1>2, <1>3, <1>4, <1>5, <1>6 DEF Growth, GrowthEffect

\* A step, row by row.
SessionEffect ==
    \/ Keep /\ RequestMoves /\ TicketMoves
    \/ \E r \in Request, k \in Login : Birth(r, k) /\ BirthEffect(r, k) /\ UNCHANGED seat
    \/ \E k \in Login : EndEffect(k) /\ RequestMoves /\ UNCHANGED <<ticket, seat>>
    \/ \E r \in Request, k \in Login, g \in 1..MaxGeneration :
          Growth(r, k, g) /\ GrowthEffect(r, k, g) /\ UNCHANGED <<ticket, seat>>

\* Every kind has its effect.
LEMMA KindHasEffect ==
    ASSUME SessionBase, SessionKind PROVE SessionEffect
  BY BirthRows, EndRows, GrowthRows DEF SessionKind, SessionEffect

\* No step undoes what a session has become.
LEMMA SessionsOnlyForward ==
    ASSUME SessionBase, SessionEffect
    PROVE  SessionsForward
  <1>1. session \in [Login -> SessionRow] /\ family \in [Login -> FamilyRow]
    BY DEF SessionBase, SessionTypeOK
  <1>2. \A k \in Login : session[k].revision \in Nat /\ family[k].revision \in Nat
    BY <1>1 DEF SessionRow, FamilyRow
  <1>3. CASE Keep
    BY <1>2, <1>3 DEF Keep, SessionsForward
  <1>4. ASSUME NEW r, NEW k \in Login, BirthEffect(r, k) PROVE SessionsForward
    BY <1>2, <1>4 DEF BirthEffect, SessionsForward
  <1>5. ASSUME NEW k \in Login, EndEffect(k) PROVE SessionsForward
    BY <1>2, <1>5 DEF EndEffect, SessionsForward
  <1>6. ASSUME NEW r, NEW k \in Login, NEW g \in 1..MaxGeneration, GrowthEffect(r, k, g)
        PROVE  SessionsForward
    BY <1>2, <1>6 DEF GrowthEffect, SessionsForward
  <1> QED
    BY <1>3, <1>4, <1>5, <1>6 DEF SessionEffect

\* Tickets stay seated.
LEMMA SeatedKept ==
    ASSUME SessionBase, SessionEffect PROVE Seated'
  <1>1. CASE TicketMoves
    BY <1>1 DEF TicketMoves, Seated, SessionBase
  <1>2. ASSUME NEW r, NEW k \in Login, Birth(r, k), BirthEffect(r, k), UNCHANGED seat PROVE Seated'
    <2>1. ticket[k].status = "issued"
      BY <1>2 DEF Birth
    <2> QED
      BY <1>2, <2>1 DEF BirthEffect, Seated, SessionBase
  <1>3. CASE UNCHANGED <<ticket, seat>>
    BY <1>3 DEF Seated, SessionBase
  <1> QED
    BY <1>1, <1>2, <1>3 DEF SessionEffect

\* Tickets that were consumed stay consumed.
LEMMA ConsumedStays ==
    ASSUME SessionEffect
    PROVE  \A k \in Login : ticket[k].status = "consumed" => ticket'[k].status = "consumed"
  <1> SUFFICES ASSUME NEW k \in Login, ticket[k].status = "consumed"
               PROVE  ticket'[k].status = "consumed"
    OBVIOUS
  <1>1. ASSUME TicketMoves PROVE ticket'[k].status = "consumed"
    BY <1>1 DEF TicketMoves
  <1>2. ASSUME NEW r, NEW j \in Login, BirthEffect(r, j)
        PROVE  ticket'[k].status = "consumed"
    BY <1>2 DEF BirthEffect
  <1>3. ASSUME UNCHANGED ticket PROVE ticket'[k].status = "consumed"
    BY <1>3
  <1> QED
    BY <1>1, <1>2, <1>3 DEF SessionEffect

\* Sessions, families and tickets keep matching.
LEMMA HousedKept ==
    ASSUME SessionBase, SessionEffect PROVE Housed'
  <1>1. /\ session \in [Login -> SessionRow] /\ family \in [Login -> FamilyRow] /\ Housed /\ Seated
        /\ \A k \in Login : ticket[k].status = "consumed" => ticket'[k].status = "consumed"
    BY ConsumedStays DEF SessionBase, SessionTypeOK
  <1>2. CASE Keep
    BY <1>1, <1>2 DEF Keep, Housed
  <1>3. ASSUME NEW r, NEW k \in Login, Birth(r, k), BirthEffect(r, k) PROVE Housed'
    <2>1. seat[k] \in Browser
      BY <1>1, <1>3 DEF Birth, Seated
    <2>2. 1 <= MaxGeneration
      BY SessionAssumption
    <2> QED
      BY <1>1, <1>3, <2>1, <2>2 DEF BirthEffect, Housed
  <1>4. ASSUME NEW k \in Login, EndEffect(k) PROVE Housed'
    BY <1>1, <1>4 DEF EndEffect, Housed
  <1>5. ASSUME NEW r, NEW k \in Login, NEW g \in 1..MaxGeneration, GrowthEffect(r, k, g)
        PROVE  Housed'
    BY <1>1, <1>5, SessionAssumption DEF GrowthEffect, Housed
  <1> QED
    BY <1>2, <1>3, <1>4, <1>5 DEF SessionEffect

\* Requests keep naming what they work on.
LEMMA RequestsKnownKept ==
    ASSUME SessionBase, SessionEffect PROVE RequestsKnown'
  <1>1. request \in [Request -> RequestRow] /\ RequestsKnown /\ SessionsForward
    BY SessionsOnlyForward DEF SessionBase, SessionTypeOK
  <1>2. ASSUME RequestMoves, NEW r \in Request
        PROVE  /\ request'[r].pc \in {"exchange", "exchanged"} => request'[r].session \in Login
               /\ request'[r].pc \in {"refresh", "rotated"} =>
                     /\ request'[r].session \in Login
                     /\ session[request'[r].session].status # "none"
                     /\ request'[r].generation \in 1..MaxGeneration
    <2>1. request[r] \in RequestRow
      BY <1>1
    <2>2. CASE request'[r] = request[r]
      BY <1>1, <2>2 DEF RequestsKnown
    <2>3. CASE request'[r] = [request[r] EXCEPT !.pc = "ended"]
      BY <2>1, <2>3 DEF RequestRow
    <2>4. CASE \E k \in Login : request'[r] = [NoRequest EXCEPT !.pc = "exchange", !.session = k,
                                                  !.snap = Revisions(WorkOwners)]
      BY <2>4 DEF NoRequest
    <2>5. CASE \E k \in Login, g \in 1..MaxGeneration :
                 /\ session[k].status # "none"
                 /\ request'[r] =
                    [pc |-> "refresh", session |-> k, generation |-> g,
                     familyRevision |-> family[k].revision,
                     sessionRevision |-> session[k].revision, snap |-> Revisions(WorkOwners)]
      BY <2>5
    <2> QED
      BY <1>2, <2>2, <2>3, <2>4, <2>5 DEF RequestMoves
  <1>3. CASE RequestMoves
    BY <1>1, <1>2, <1>3 DEF RequestsKnown, SessionsForward
  <1>4. ASSUME NEW r \in Request, NEW k \in Login, Birth(r, k), BirthEffect(r, k)
        PROVE  RequestsKnown'
    <2>1. request'[r].pc = "exchanged" /\ request'[r].session = k
      BY <1>1, <1>4 DEF BirthEffect, Birth, RequestRow
    <2>2. \A q \in Request \ {r} : request'[q] = request[q]
      BY <1>4 DEF BirthEffect
    <2> QED
      BY <1>1, <2>1, <2>2 DEF RequestsKnown, SessionsForward
  <1>5. ASSUME NEW r \in Request, NEW k \in Login, NEW g \in 1..MaxGeneration, Growth(r, k, g),
               GrowthEffect(r, k, g)
        PROVE  RequestsKnown'
    <2>1. request'[r].pc = "rotated" /\ request'[r].session = k /\ request'[r].generation = g
      BY <1>1, <1>5 DEF GrowthEffect, Growth, RequestRow
    <2>2. session[k].status # "none" /\ \A q \in Request \ {r} : request'[q] = request[q]
      BY <1>5 DEF GrowthEffect
    <2> QED
      BY <1>1, <2>1, <2>2 DEF RequestsKnown, SessionsForward
  <1> QED
    BY <1>3, <1>4, <1>5 DEF SessionEffect

\* Logout interactions keep naming what they end, and what they ended stays as
\* they left it.
LEMMA LogoutsKept ==
    ASSUME SessionBase, LogoutEndsWhatItSaw, BrowserMoves, LogoutMoves
    PROVE  LogoutsKnown' /\ LogoutEndsWhatItSaw'
  <1>1. logout \in [Logout -> LogoutRow] /\ browser \in [Browser -> BrowserRow] /\ LogoutsKnown
    BY DEF SessionBase, SessionTypeOK
  <1> SUFFICES ASSUME NEW i \in Logout
               PROVE  /\ logout'[i].status # "none" =>
                            logout'[i].session \in Login /\ logout'[i].browser \in Browser
                      /\ logout'[i].status = "consumed" =>
                            /\ browser'[logout'[i].browser].status = "terminated"
                            /\ browser'[logout'[i].browser].revision = logout'[i].browserRevision + 1
    BY DEF LogoutsKnown, LogoutEndsWhatItSaw
  <1>2. CASE logout'[i] = logout[i]
    BY <1>1, <1>2 DEF LogoutsKnown, LogoutEndsWhatItSaw, BrowserMoves
  <1>3. CASE /\ logout[i].status # "consumed" /\ logout'[i].status # "consumed"
             /\ logout'[i].session \in Login /\ logout'[i].browser \in Browser
    BY <1>3
  <1>4. CASE /\ logout[i].status = "csrf_bound"
             /\ logout'[i] = [logout[i] EXCEPT !.status = "consumed"]
             /\ browser[logout[i].browser].revision = logout[i].browserRevision
             /\ browser' = [browser EXCEPT ![logout[i].browser].status = "terminated",
                                           ![logout[i].browser].revision = @ + 1]
    <2>1. logout[i].session \in Login /\ logout[i].browser \in Browser /\ logout[i] \in LogoutRow
      BY <1>1, <1>4 DEF LogoutsKnown
    <2>2. /\ logout'[i].session = logout[i].session /\ logout'[i].browser = logout[i].browser
          /\ logout'[i].browserRevision = logout[i].browserRevision
      BY <1>4, <2>1 DEF LogoutRow
    <2>3. /\ browser'[logout[i].browser].status = "terminated"
          /\ browser'[logout[i].browser].revision = browser[logout[i].browser].revision + 1
      BY <1>1, <1>4, <2>1 DEF BrowserRow
    <2> QED
      BY <1>4, <2>1, <2>2, <2>3
  <1> QED
    BY <1>2, <1>3, <1>4 DEF LogoutMoves

\* The newest token of a family stays the only one that is current.
LEMMA TokensKept ==
    ASSUME SessionBase, TokensMatchFamily, SessionEffect
    PROVE  TokensMatchFamily'
  <1>1. family \in [Login -> FamilyRow] /\ \A k \in Login : family[k].current \in Nat
    BY DEF SessionBase, SessionTypeOK, FamilyRow
  <1>2. CASE Keep
    BY <1>2 DEF Keep, TokensMatchFamily, Spent
  <1>3. ASSUME NEW r, NEW k \in Login, BirthEffect(r, k) PROVE TokensMatchFamily'
    <2>1. ASSUME NEW g \in 1..MaxGeneration
          PROVE  generation[k][g] \notin {"current", "consumed", "replayed"}
      BY <1>3, <2>1 DEF TokensMatchFamily, BirthEffect, Spent
    <2> QED
      BY <1>3, <2>1 DEF TokensMatchFamily, BirthEffect, Spent
  <1>4. ASSUME NEW k \in Login, EndEffect(k) PROVE TokensMatchFamily'
    <2> SUFFICES ASSUME NEW j \in Login, NEW g \in 1..MaxGeneration
                 PROVE  /\ generation'[j][g] = "current" <=> g = family'[j].current
                        /\ generation'[j][g] \in {"consumed", "replayed"} <=> g < family'[j].current
                        /\ generation'[j][g] = "replayed" => family'[j].status = "revoked"
      BY DEF TokensMatchFamily, Spent
    <2>1. /\ generation[j][g] = "current" <=> g = family[j].current
          /\ generation[j][g] \in {"consumed", "replayed"} <=> g < family[j].current
          /\ generation[j][g] = "replayed" => family[j].status = "revoked"
      BY DEF TokensMatchFamily, Spent
    <2>2. CASE j # k
      BY <1>4, <2>1, <2>2 DEF EndEffect
    <2>3. CASE j = k
      BY <1>1, <1>4, <2>1, <2>3 DEF EndEffect, Spent
    <2> QED
      BY <2>2, <2>3
  <1>5. ASSUME NEW r, NEW k \in Login, NEW g \in 1..MaxGeneration, GrowthEffect(r, k, g)
        PROVE  TokensMatchFamily'
    <2> SUFFICES ASSUME NEW j \in Login, NEW f \in 1..MaxGeneration
                 PROVE  /\ generation'[j][f] = "current" <=> f = family'[j].current
                        /\ generation'[j][f] \in {"consumed", "replayed"} <=> f < family'[j].current
                        /\ generation'[j][f] = "replayed" => family'[j].status = "revoked"
      BY DEF TokensMatchFamily, Spent
    <2>1. /\ generation[j][f] = "current" <=> f = family[j].current
          /\ generation[j][f] \in {"consumed", "replayed"} <=> f < family[j].current
          /\ generation[j][f] = "replayed" => family[j].status = "revoked"
      BY DEF TokensMatchFamily, Spent
    <2>2. CASE j # k
      BY <1>5, <2>1, <2>2 DEF GrowthEffect
    <2>3. CASE j = k /\ f \in {g, g + 1}
      BY <1>5, <2>3 DEF GrowthEffect
    <2>4. CASE j = k /\ f \notin {g, g + 1}
      BY <1>5, <2>1, <2>4 DEF GrowthEffect
    <2> QED
      BY <2>2, <2>3, <2>4
  <1> QED
    BY <1>2, <1>3, <1>4, <1>5 DEF SessionEffect

\* Captured revisions stay behind.
LEMMA CapturesKept ==
    ASSUME SessionBase, CapturesBehind, SessionEffect, OwnersForward, ControlTypeOK',
           SessionTypeOK'
    PROVE  CapturesBehind'
  <1>1. /\ request \in [Request -> RequestRow] /\ RequestsKnown /\ SessionsForward
        /\ session \in [Login -> SessionRow] /\ family \in [Login -> FamilyRow] /\ ControlTypeOK
    BY SessionsOnlyForward DEF SessionBase, SessionTypeOK
  <1>2. \A o \in Owners : /\ owner[o].revision \in Nat /\ owner'[o].revision \in Nat
                          /\ owner[o].revision <= owner'[o].revision
    BY <1>1 DEF OwnersForward, ControlTypeOK, Revision
  <1>3. SessionOwners \subseteq Owners /\ WorkOwners \subseteq Owners
    BY DEF SessionOwners, WorkOwners, Owners
  <1>4. \A k \in Login : /\ session[k].revision \in Nat /\ family[k].revision \in Nat
                         /\ session'[k].revision \in Nat /\ family'[k].revision \in Nat
                         /\ \A o \in SessionOwners : session[k].snap[o] \in Nat
    BY <1>1 DEF SessionTypeOK, SessionRow, FamilyRow, SessionSnapshot
  <1>5. \A r \in Request : /\ request[r].familyRevision \in Nat /\ request[r].sessionRevision \in Nat
                           /\ \A o \in WorkOwners : request[r].snap[o] \in Nat
    BY <1>1 DEF RequestRow, WorkSnapshot
  <1>6. ASSUME NEW k \in Login, session'[k].status # "none", NEW o \in SessionOwners
        PROVE  session'[k].snap[o] <= owner'[o].revision
    <2>1. \/ session[k].status # "none" /\ session'[k].snap = session[k].snap
          \/ session'[k].snap = Revisions(SessionOwners)
      <3>1. CASE session[k].status # "none"
        BY <1>1, <3>1 DEF SessionsForward
      <3>2. CASE session[k].status = "none"
        <4>1. ASSUME NEW r, NEW j \in Login, BirthEffect(r, j)
              PROVE  session'[k].snap = Revisions(SessionOwners)
          BY <1>6, <3>2, <4>1 DEF BirthEffect
        <4>2. ASSUME NEW j \in Login, EndEffect(j) PROVE FALSE
          BY <1>6, <3>2, <4>2 DEF EndEffect
        <4>3. ASSUME session' = session PROVE FALSE
          BY <1>6, <3>2, <4>3
        <4> QED
          BY <4>1, <4>2, <4>3 DEF SessionEffect, Keep, GrowthEffect
      <3> QED
        BY <3>1, <3>2
    <2>2. CASE session[k].status # "none" /\ session'[k].snap = session[k].snap
      <3>1. session[k].snap[o] <= owner[o].revision
        BY <2>2 DEF CapturesBehind
      <3> QED
        BY <1>2, <1>3, <1>4, <2>2, <3>1
    <2>3. CASE session'[k].snap = Revisions(SessionOwners)
      BY <1>2, <1>3, <2>3 DEF Revisions
    <2> QED
      BY <2>1, <2>2, <2>3
  <1>7. ASSUME NEW r \in Request, request'[r] = request[r]
        PROVE  /\ request'[r].pc \in {"exchange", "refresh"} =>
                     \A o \in WorkOwners : request'[r].snap[o] <= owner'[o].revision
               /\ request'[r].pc = "refresh" =>
                     /\ request'[r].familyRevision <= family'[request'[r].session].revision
                     /\ request'[r].sessionRevision <= session'[request'[r].session].revision
    <2>1. ASSUME request[r].pc \in {"exchange", "refresh"}, NEW o \in WorkOwners
          PROVE  request[r].snap[o] <= owner'[o].revision
      <3>1. request[r].snap[o] <= owner[o].revision
        BY <2>1 DEF CapturesBehind
      <3> QED
        BY <1>2, <1>3, <1>5, <3>1
    <2>2. ASSUME request[r].pc = "refresh"
          PROVE  /\ request[r].familyRevision <= family'[request[r].session].revision
                 /\ request[r].sessionRevision <= session'[request[r].session].revision
      <3> DEFINE k == request[r].session
      <3>1. k \in Login /\ session[k].status # "none"
        BY <1>1, <2>2 DEF RequestsKnown
      <3>2. /\ request[r].familyRevision <= family[k].revision
            /\ request[r].sessionRevision <= session[k].revision
        BY <2>2 DEF CapturesBehind
      <3>3. family[k].revision <= family'[k].revision /\ session[k].revision <= session'[k].revision
        BY <1>1, <1>4, <3>1 DEF SessionsForward
      <3> HIDE DEF k
      <3>4. /\ request[r].familyRevision <= family'[k].revision
            /\ request[r].sessionRevision <= session'[k].revision
        BY <1>4, <1>5, <3>1, <3>2, <3>3
      <3> QED
        BY <3>4 DEF k
    <2> QED
      BY <1>7, <2>1, <2>2
  <1>8. ASSUME NEW r \in Request
        PROVE  \/ request'[r] = request[r]
               \/ request'[r].pc \notin {"exchange", "refresh"}
               \/ request'[r].pc = "exchange" /\ request'[r].snap = Revisions(WorkOwners)
               \/ \E k \in Login :
                     /\ session[k].status # "none"
                     /\ request'[r].session = k /\ request'[r].snap = Revisions(WorkOwners)
                     /\ request'[r].familyRevision = family[k].revision
                     /\ request'[r].sessionRevision = session[k].revision
    <2>1. request[r] \in RequestRow
      BY <1>1
    <2>2. ASSUME NEW pc \in {"ended", "exchanged", "rotated"},
                 request'[r] = [request[r] EXCEPT !.pc = pc]
          PROVE  request'[r].pc \notin {"exchange", "refresh"}
      BY <2>1, <2>2 DEF RequestRow
    <2>3. ASSUME NEW k \in Login, request'[r] = [NoRequest EXCEPT !.pc = "exchange", !.session = k,
                                                        !.snap = Revisions(WorkOwners)]
          PROVE  request'[r].pc = "exchange" /\ request'[r].snap = Revisions(WorkOwners)
      BY <2>3 DEF NoRequest
    <2>4. ASSUME NEW k \in Login, NEW g \in 1..MaxGeneration,
                 request'[r] =
                    [pc |-> "refresh", session |-> k, generation |-> g,
                     familyRevision |-> family[k].revision,
                     sessionRevision |-> session[k].revision, snap |-> Revisions(WorkOwners)]
          PROVE  /\ request'[r].session = k /\ request'[r].snap = Revisions(WorkOwners)
                 /\ request'[r].familyRevision = family[k].revision
                 /\ request'[r].sessionRevision = session[k].revision
      BY <2>4
    <2>5. CASE RequestMoves
      BY <2>2, <2>3, <2>4, <2>5 DEF RequestMoves
    <2>6. ASSUME NEW q \in Request, NEW k, BirthEffect(q, k)
          PROVE  request'[r] = request[r] \/ request'[r] = [request[r] EXCEPT !.pc = "exchanged"]
      BY <2>6 DEF BirthEffect
    <2>7. ASSUME NEW q \in Request, NEW k, NEW g, GrowthEffect(q, k, g)
          PROVE  request'[r] = request[r] \/ request'[r] = [request[r] EXCEPT !.pc = "rotated"]
      BY <2>7 DEF GrowthEffect
    <2> QED
      BY <2>2, <2>5, <2>6, <2>7 DEF SessionEffect
  <1>9. \A o \in WorkOwners : Revisions(WorkOwners)[o] <= owner'[o].revision
    BY <1>2, <1>3 DEF Revisions
  <1>10. ASSUME NEW r \in Request
         PROVE  /\ request'[r].pc \in {"exchange", "refresh"} =>
                     \A o \in WorkOwners : request'[r].snap[o] <= owner'[o].revision
                /\ request'[r].pc = "refresh" =>
                     /\ request'[r].familyRevision <= family'[request'[r].session].revision
                     /\ request'[r].sessionRevision <= session'[request'[r].session].revision
    BY <1>1, <1>4, <1>7, <1>8, <1>9 DEF SessionsForward
  <1> QED
    BY <1>6, <1>10 DEF CapturesBehind

-----------------------------------------------------------------------------
(* The invariant holds *)

\* Before the first login there is nothing to disagree about.
LEMMA SessionInitEstablishes == SessionInit => SessionInv
  <1> SUFFICES ASSUME SessionInit PROVE SessionInv
    OBVIOUS
  <1> USE DEF SessionInit, SessionRowsInit
  <1>1. ControlTypeOK
    BY DEF ControlInit, ControlTypeOK, OwnerStatus, Revision
  <1>2. TicketTypeOK
    BY DEF TicketInit, TicketTypeOK, TicketRow, TicketSnapshot
  <1>3. browser \in [Browser -> BrowserRow]
    BY DEF BrowserRow, BrowserSnapshot
  <1>4. session \in [Login -> SessionRow]
    BY DEF SessionRow, SessionSnapshot
  <1>5. /\ family \in [Login -> FamilyRow] /\ seat \in [Login -> Browser \cup {"none"}]
        /\ generation \in [Login -> [1..MaxGeneration -> GenerationStatus]]
    BY DEF FamilyRow, GenerationStatus
  <1>6. logout \in [Logout -> LogoutRow]
    BY DEF LogoutRow
  <1>7. request \in [Request -> RequestRow]
    BY DEF RequestRow, NoRequest, WorkSnapshot
  <1>8. SessionTypeOK
    BY <1>1, <1>2, <1>3, <1>4, <1>5, <1>6, <1>7 DEF SessionTypeOK
  <1>9. Seated /\ LogoutsKnown /\ LogoutEndsWhatItSaw
    BY DEF TicketInit, Seated, LogoutsKnown, LogoutEndsWhatItSaw
  <1>10. Housed /\ TokensMatchFamily
    BY SessionAssumption DEF Housed, TokensMatchFamily, Spent
  <1>11. RequestsKnown /\ CapturesBehind
    BY DEF RequestsKnown, CapturesBehind, NoRequest
  <1> QED
    BY <1>8, <1>9, <1>10, <1>11 DEF SessionInv, SessionBase

\* What one step does, as every property below uses it.
LEMMA SessionInvStep ==
    ASSUME SessionInv, [SessionNext]_authorityVars
    PROVE  /\ SessionInv' /\ SessionEffect /\ SessionsForward /\ BrowserMoves
           /\ OwnersForward /\ ControlTypeOK /\ ControlTypeOK'
  <1>1. SessionBase /\ TokensMatchFamily /\ CapturesBehind /\ LogoutEndsWhatItSaw
    BY DEF SessionInv
  <1>2. SessionKind /\ BrowserMoves /\ LogoutMoves
    BY <1>1, EverySessionStep
  <1>3. SessionEffect /\ SessionsForward
    BY <1>1, <1>2, KindHasEffect, SessionsOnlyForward
  <1>4. ControlTypeOK /\ ControlTypeOK' /\ OwnersForward
    BY <1>1, SessionControlStep DEF SessionBase, SessionTypeOK
  <1>5. SessionTypeOK'
    BY <1>1, SessionTypeStep
  <1>6. Seated' /\ Housed' /\ RequestsKnown'
    BY <1>1, <1>3, SeatedKept, HousedKept, RequestsKnownKept
  <1>7. LogoutsKnown' /\ LogoutEndsWhatItSaw'
    BY <1>1, <1>2, LogoutsKept
  <1>8. TokensMatchFamily'
    BY <1>1, <1>3, TokensKept
  <1>9. CapturesBehind'
    BY <1>1, <1>3, <1>4, <1>5, CapturesKept
  <1> QED
    BY <1>2, <1>3, <1>4, <1>5, <1>6, <1>7, <1>8, <1>9 DEF SessionInv, SessionBase

\* Nothing that any request, browser, operator or logout does, in any order,
\* breaks the invariant.
THEOREM SessionInvariant == SessionSpec => []SessionInv
  <1>1. SessionInv /\ [SessionNext]_authorityVars => SessionInv'
    BY SessionInvStep
  <1> QED
    BY <1>1, SessionInitEstablishes, PTL DEF SessionSpec

-----------------------------------------------------------------------------
(* What is claimed of sessions *)

\* Every variable keeps its type.
THEOREM SessionTypeCorrect == SessionSpec => []SessionTypeOK
  <1>1. SessionInv => SessionTypeOK
    BY DEF SessionInv, SessionBase
  <1> QED
    BY <1>1, SessionInvariant, PTL

\* Exactly the newest token of a family is current, and a family of which a
\* spent token came back is revoked (rotate_refresh_token, record_refresh_replay).
THEOREM TokensMatch == SessionSpec => []TokensMatchFamily
  <1>1. SessionInv => TokensMatchFamily
    BY DEF SessionInv
  <1> QED
    BY <1>1, SessionInvariant, PTL

\* A confirmed browser logout ended the state it was prepared for
\* (confirm_browser_logout).
THEOREM LogoutsEndWhatTheySaw == SessionSpec => []LogoutEndsWhatItSaw
  <1>1. SessionInv => LogoutEndsWhatItSaw
    BY DEF SessionInv
  <1> QED
    BY <1>1, SessionInvariant, PTL

\* An ended session never comes back and its family never gets another token.
THEOREM OverStaysOver == SessionSpec => OverIsOver
  <1>1. SessionInv /\ [SessionNext]_authorityVars =>
          \A k \in Login : session[k].status # "none" /\ Over(k) =>
              /\ Over(k)'
              /\ family'[k].current = family[k].current
    <2> SUFFICES ASSUME SessionInv, [SessionNext]_authorityVars, NEW k \in Login,
                        session[k].status # "none", Over(k)
                 PROVE  Over(k)' /\ family'[k].current = family[k].current
      OBVIOUS
    <2>1. /\ SessionEffect /\ SessionsForward /\ BrowserMoves /\ OwnersForward
          /\ ControlTypeOK /\ ControlTypeOK' /\ SessionBase /\ CapturesBehind
      BY SessionInvStep DEF SessionInv
    <2>2. session[k].browser \in Browser /\ session[k] \in SessionRow
      BY <2>1 DEF SessionBase, Housed, SessionTypeOK
    <2>3. session'[k].snap = session[k].snap /\ session'[k].browser = session[k].browser
      BY <2>1 DEF SessionsForward
    <2>4. ASSUME session[k].status = "revoked" \/ family[k].status = "revoked" PROVE Over(k)'
      BY <2>1, <2>4 DEF SessionsForward, Over
    <2>5. ASSUME browser[session[k].browser].status = "terminated" PROVE Over(k)'
      BY <2>1, <2>2, <2>3, <2>5 DEF BrowserMoves, Over
    <2>6. ASSUME ~Current(SessionOwners, session[k].snap) PROVE Over(k)'
      <3>1. \A o \in SessionOwners : session[k].snap[o] \in Nat
        BY <2>2 DEF SessionRow, SessionSnapshot
      <3>2. \A o \in SessionOwners : session[k].snap[o] <= owner[o].revision
        BY <2>1 DEF CapturesBehind
      <3>3. SessionOwners \in SUBSET Owners
        BY DEF SessionOwners, Owners
      <3>4. \E o \in SessionOwners : owner'[o].status # "active" \/ owner'[o].revision # session[k].snap[o]
        BY <2>1, <2>6, <3>1, <3>2, <3>3, StaleStaysStale
      <3> QED
        BY <2>3, <3>4 DEF Over, Current, Active
    <2>7. Over(k)'
      BY <2>4, <2>5, <2>6 DEF Over
    <2>8. ASSUME NEW r \in Request, NEW g \in 1..MaxGeneration, Growth(r, k, g) PROVE FALSE
      BY <2>8 DEF Growth, RefreshAdmitted, SessionCurrent, BrowserLive, Over
    <2>9. family'[k].current = family[k].current
      <3>1. ASSUME Keep PROVE family'[k].current = family[k].current
        BY <3>1 DEF Keep
      <3>2. ASSUME NEW q \in Request, NEW j \in Login, BirthEffect(q, j)
            PROVE  family'[k].current = family[k].current
        BY <3>2 DEF BirthEffect
      <3>3. ASSUME NEW j \in Login, EndEffect(j)
            PROVE  family'[k].current = family[k].current
        BY <3>3 DEF EndEffect
      <3>4. ASSUME NEW q \in Request, NEW j \in Login, NEW g \in 1..MaxGeneration,
                   Growth(q, j, g), GrowthEffect(q, j, g)
            PROVE  family'[k].current = family[k].current
        <4>1. j # k
          BY <2>8, <3>4
        <4> QED
          BY <3>4, <4>1 DEF GrowthEffect
      <3> QED
        BY <2>1, <3>1, <3>2, <3>3, <3>4 DEF SessionEffect
    <2> QED
      BY <2>7, <2>9
  <1> QED
    BY <1>1, SessionInvariant, PTL DEF SessionSpec, OverIsOver

\* The clock has not passed what a rotation checked, up to its reading's age.
THEOREM TokensComeInTime == SessionSpec => TokensInTime
  <1>1. SessionInv /\ [SessionNext]_authorityVars =>
          \A k \in Login : family[k].current > 0 /\ family'[k].current # family[k].current =>
              /\ now < session[k].expires + MaxClockLag
              /\ now < Idle(session[k].browser) + MaxClockLag
    <2> SUFFICES ASSUME SessionInv, [SessionNext]_authorityVars, NEW k \in Login,
                        family[k].current > 0, family'[k].current # family[k].current
                 PROVE  /\ now < session[k].expires + MaxClockLag
                        /\ now < Idle(session[k].browser) + MaxClockLag
      OBVIOUS
    <2>1. SessionEffect /\ ControlTypeOK /\ SessionBase
      BY SessionInvStep DEF SessionInv
    <2>2. PICK r \in Request, g \in 1..MaxGeneration : Growth(r, k, g)
      <3>1. ASSUME NEW q, NEW j \in Login, BirthEffect(q, j) PROVE FALSE
        BY <3>1 DEF BirthEffect
      <3>2. ASSUME NEW j \in Login, EndEffect(j) PROVE FALSE
        BY <3>2 DEF EndEffect
      <3>3. ASSUME NEW q, NEW j \in Login, NEW f, GrowthEffect(q, j, f) PROVE j = k
        BY <3>3 DEF GrowthEffect
      <3> QED
        BY <2>1, <3>1, <3>2, <3>3 DEF SessionEffect, Keep
    <2>3. PICK t \in ClockReading : RefreshAdmitted(k, g, t)
      BY <2>2 DEF Growth
    <2>4. /\ session[k].status = "active" /\ session[k].expires > t
          /\ Idle(session[k].browser) > t
      BY <2>3 DEF RefreshAdmitted, SessionCurrent, BrowserLive
    <2>5. session[k].browser \in Browser /\ session[k] \in SessionRow
      BY <2>1, <2>4 DEF SessionBase, Housed, SessionTypeOK
    <2>6. browser[session[k].browser] \in BrowserRow
      BY <2>1, <2>5 DEF SessionBase, SessionTypeOK
    <2>7. Idle(session[k].browser) \in Nat /\ session[k].expires \in Nat
      BY <2>5, <2>6, SessionAssumption DEF Idle, Absolute, Lesser, BrowserRow, SessionRow
    <2>8. t \in Nat /\ now <= t + MaxClockLag /\ now \in Nat /\ MaxClockLag \in Nat
      BY <2>1, <2>3, ClockReadingType, ControlPlaneAssumption DEF ControlTypeOK
    <2> QED
      BY <2>4, <2>7, <2>8
  <1> QED
    BY <1>1, SessionInvariant, PTL DEF SessionSpec, TokensInTime

\* What was overtaken while its token was signed is never handed out.
THEOREM OvertakenStaysLost == SessionSpec => OvertakenWorkIsLost
  <1>1. SessionInv /\ [SessionNext]_authorityVars =>
          \A r \in Request : request[r].pc \in {"exchange", "refresh"} /\ Overtaken(r) =>
              \/ request'[r].pc = "ended"
              \/ request'[r] = request[r] /\ Overtaken(r)'
    <2> SUFFICES ASSUME SessionInv, [SessionNext]_authorityVars, NEW r \in Request,
                        request[r].pc \in {"exchange", "refresh"}, Overtaken(r)
                 PROVE  \/ request'[r].pc = "ended"
                        \/ request'[r] = request[r] /\ Overtaken(r)'
      OBVIOUS
    <2>1. /\ SessionEffect /\ SessionsForward /\ OwnersForward /\ SessionTypeOK'
          /\ ControlTypeOK /\ ControlTypeOK' /\ SessionBase /\ SessionTypeOK /\ CapturesBehind
      BY SessionInvStep DEF SessionInv, SessionBase
    <2>2. request[r] \in RequestRow
      BY <2>1 DEF SessionTypeOK
    <2>3. request'[r] = request[r] \/ request'[r].pc = "ended"
      <3>1. CASE RequestMoves
        BY <2>2, <3>1 DEF RequestMoves, RequestRow
      <3>2. ASSUME NEW q \in Request, NEW k \in Login, Birth(q, k), BirthEffect(q, k)
            PROVE  request'[r] = request[r]
        <4>1. q # r
          BY <3>2 DEF Birth, Overtaken
        <4> QED
          BY <3>2, <4>1 DEF BirthEffect
      <3>3. ASSUME NEW q \in Request, NEW k \in Login, NEW g \in 1..MaxGeneration,
                   Growth(q, k, g), GrowthEffect(q, k, g)
            PROVE  request'[r] = request[r]
        <4>1. q # r
          BY <3>3 DEF Growth, Overtaken
        <4> QED
          BY <3>3, <4>1 DEF GrowthEffect
      <3> QED
        BY <2>1, <3>1, <3>2, <3>3 DEF SessionEffect
    <2>4. ASSUME request'[r] = request[r], ~Current(WorkOwners, request[r].snap)
          PROVE  Overtaken(r)'
      <3>1. \A o \in WorkOwners : request[r].snap[o] \in Nat
        BY <2>2 DEF RequestRow, WorkSnapshot
      <3>2. \A o \in WorkOwners : request[r].snap[o] <= owner[o].revision
        BY <2>1 DEF CapturesBehind
      <3>3. WorkOwners \in SUBSET Owners
        BY DEF WorkOwners, Owners
      <3>4. \E o \in WorkOwners : owner'[o].status # "active" \/ owner'[o].revision # request[r].snap[o]
        BY <2>1, <2>4, <3>1, <3>2, <3>3, StaleStaysStale
      <3> QED
        BY <2>4, <3>4 DEF Overtaken, Current, Active
    <2>5. ASSUME request'[r] = request[r], request[r].pc = "refresh",
                 \/ family[request[r].session].revision # request[r].familyRevision
                 \/ session[request[r].session].revision # request[r].sessionRevision
          PROVE  Overtaken(r)'
      <3> DEFINE k == request[r].session
      <3>1. k \in Login /\ session[k].status # "none"
        BY <2>1, <2>5 DEF SessionBase, RequestsKnown
      <3>2. /\ request[r].familyRevision <= family[k].revision
            /\ request[r].sessionRevision <= session[k].revision
        BY <2>1, <2>5 DEF CapturesBehind
      <3>3. family'[k].revision >= family[k].revision /\ session'[k].revision >= session[k].revision
        BY <2>1, <3>1 DEF SessionsForward
      <3>4. /\ family[k].revision \in Nat /\ session[k].revision \in Nat
            /\ family'[k].revision \in Nat /\ session'[k].revision \in Nat
        BY <2>1, <3>1 DEF SessionTypeOK, FamilyRow, SessionRow
      <3>5. request[r].familyRevision \in Nat /\ request[r].sessionRevision \in Nat
        BY <2>2 DEF RequestRow
      <3>6. \/ family'[k].revision # request[r].familyRevision
            \/ session'[k].revision # request[r].sessionRevision
        <4> HIDE DEF k
        <4>1. \/ family[k].revision # request[r].familyRevision
              \/ session[k].revision # request[r].sessionRevision
          BY <2>5 DEF k
        <4> QED
          BY <3>2, <3>3, <3>4, <3>5, <4>1
      <3> QED
        BY <2>5, <3>6 DEF Overtaken
    <2> QED
      BY <2>3, <2>4, <2>5 DEF Overtaken
  <1> QED
    BY <1>1, SessionInvariant, PTL DEF SessionSpec, OvertakenWorkIsLost

-----------------------------------------------------------------------------
(* Refresh families implement TokenChain *)

\* The token a request was handed.
Handed(r) ==
    IF request[r].pc = "exchanged" THEN <<request[r].session, 1>>
    ELSE IF request[r].pc = "rotated" THEN <<request[r].session, request[r].generation + 1>>
    ELSE <<>>

\* Requests that hand out nothing change no holder's token.
LEMMA NothingHanded ==
    ASSUME SessionBase, RequestMoves
    PROVE  \A r \in Request : Handed(r)' = Handed(r)
  <1> SUFFICES ASSUME NEW r \in Request PROVE Handed(r)' = Handed(r)
    OBVIOUS
  <1>1. request[r] \in RequestRow
    BY DEF SessionBase, SessionTypeOK
  <1>2. CASE request'[r] = request[r]
    BY <1>2 DEF Handed
  <1>3. CASE /\ request[r].pc \in {"idle", "exchange", "refresh"}
             /\ request'[r].pc \in {"ended", "exchange", "refresh"}
    BY <1>3 DEF Handed
  <1>4. ASSUME request[r].pc \in {"idle", "exchange", "refresh"},
               request'[r] = [request[r] EXCEPT !.pc = "ended"]
        PROVE  Handed(r)' = Handed(r)
    BY <1>1, <1>3, <1>4 DEF RequestRow
  <1>5. ASSUME request[r].pc = "idle", NEW k \in Login,
               request'[r] = [NoRequest EXCEPT !.pc = "exchange", !.session = k,
                                               !.snap = Revisions(WorkOwners)]
        PROVE  Handed(r)' = Handed(r)
    BY <1>3, <1>5 DEF NoRequest
  <1>6. ASSUME request[r].pc = "idle", NEW k \in Login, NEW g \in 1..MaxGeneration,
               request'[r] =
                  [pc |-> "refresh", session |-> k, generation |-> g,
                   familyRevision |-> family[k].revision,
                   sessionRevision |-> session[k].revision, snap |-> Revisions(WorkOwners)]
        PROVE  Handed(r)' = Handed(r)
    BY <1>3, <1>6
  <1> QED
    BY <1>2, <1>4, <1>5, <1>6 DEF RequestMoves

\* Every step is a step of TokenChain or leaves its variables alone: the birth of
\* a session and a rotation grow the chain, the revocation of a family cuts it.
LEMMA StepKeepsChain ==
    ASSUME SessionInv, [SessionNext]_authorityVars
    PROVE  [Chains!Next]_(Chains!chainVars)
  <1> DEFINE head == [k \in Login |-> family[k].current]
             cut == [k \in Login |-> family[k].status = "revoked"]
             handed == [r \in Request |-> Handed(r)]
  <1>1. /\ SessionEffect /\ SessionBase /\ family \in [Login -> FamilyRow]
        /\ request \in [Request -> RequestRow]
    BY SessionInvStep DEF SessionInv, SessionBase, SessionTypeOK
  <1>2. ASSUME RequestMoves PROVE handed' = handed
    BY <1>1, <1>2, NothingHanded
  <1>3. CASE Keep /\ RequestMoves
    <2>1. UNCHANGED <<head, cut, handed>>
      BY <1>2, <1>3 DEF Keep
    <2> QED
      BY <2>1 DEF Chains!chainVars, Handed
  <1>4. ASSUME NEW k \in Login, EndEffect(k), RequestMoves
        PROVE  UNCHANGED <<head, cut, handed>> \/ Chains!Cut(k)
    <2>1. head' = head
      BY <1>4 DEF EndEffect
    <2>2. cut' = cut \/ cut' = [cut EXCEPT ![k] = TRUE]
      <3>1. CASE family'[k].status = family[k].status
        BY <1>4, <3>1 DEF EndEffect
      <3>2. CASE family'[k].status = "revoked"
        BY <1>4, <3>2 DEF EndEffect
      <3> QED
        BY <1>4, <3>1, <3>2 DEF EndEffect
    <2>3. head[k] > 0
      BY <1>1, <1>4 DEF EndEffect, SessionBase, Housed, FamilyRow
    <2>4. handed' = handed
      BY <1>2, <1>4
    <2> QED
      BY <2>1, <2>2, <2>3, <2>4 DEF Chains!Cut, Handed
  <1>5. ASSUME NEW r \in Request, NEW k \in Login, ~cut[k], handed[r] = <<>>,
               family'[k].current = family[k].current + 1, family'[k].status = "active",
               \A j \in Login \ {k} : family'[j] = family[j],
               Handed(r)' = <<k, family[k].current + 1>>,
               \A q \in Request \ {r} : request'[q] = request[q]
        PROVE  Chains!Grow(k, r)
    <2>1. head' = [head EXCEPT ![k] = @ + 1]
      BY <1>5
    <2>2. cut' = cut
      BY <1>5
    <2>3. handed' = [handed EXCEPT ![r] = <<k, head[k] + 1>>]
      <3>1. \A q \in Request \ {r} : Handed(q)' = Handed(q)
        BY <1>5 DEF Handed
      <3> HIDE DEF Handed
      <3> QED
        BY <1>5, <3>1
    <2> QED
      BY <1>5, <2>1, <2>2, <2>3 DEF Chains!Grow, Handed
  <1>6. ASSUME NEW r \in Request, NEW k \in Login, Birth(r, k), BirthEffect(r, k)
        PROVE  Chains!Grow(k, r)
    <2>1. /\ request[r].pc = "exchange" /\ request[r].session = k
          /\ request'[r].pc = "exchanged" /\ request'[r].session = k
      BY <1>1, <1>6 DEF Birth, BirthEffect, RequestRow
    <2>2. family[k].status = "none" /\ family[k].current = 0
      BY <1>1, <1>6 DEF BirthEffect, SessionBase, Housed
    <2>3. Handed(r)' = <<k, 1>> /\ Handed(r) = <<>>
      BY <2>1 DEF Handed
    <2>4. /\ family'[k].current = family[k].current + 1 /\ family'[k].status = "active"
          /\ \A j \in Login \ {k} : family'[j] = family[j]
          /\ \A q \in Request \ {r} : request'[q] = request[q]
      BY <1>6, <2>2 DEF BirthEffect
    <2>5. Handed(r)' = <<k, family[k].current + 1>>
      BY <2>2, <2>3
    <2> QED
      BY <1>5, <2>2, <2>3, <2>4, <2>5
  <1>7. ASSUME NEW r \in Request, NEW k \in Login, NEW g \in 1..MaxGeneration,
               Growth(r, k, g), GrowthEffect(r, k, g)
        PROVE  Chains!Grow(k, r)
    <2>1. /\ request[r].pc = "refresh" /\ request[r].session = k /\ request[r].generation = g
          /\ request'[r].pc = "rotated" /\ request'[r].session = k /\ request'[r].generation = g
      BY <1>1, <1>7 DEF Growth, GrowthEffect, RequestRow
    <2> QED
      BY <1>5, <1>7, <2>1 DEF GrowthEffect, Handed
  <1>8. CASE \E k \in Login : EndEffect(k) /\ RequestMoves
    BY <1>4, <1>8 DEF Chains!Next, Chains!chainVars, Handed
  <1> QED
    BY <1>1, <1>3, <1>6, <1>7, <1>8 DEF SessionEffect, Chains!Next

\* Sessions and their tokens, with revisions, replays and concurrent requests,
\* implement TokenChain.
THEOREM SessionKeepsChain == SessionSpec => KeepsChain
  <1>1. ASSUME SessionInit PROVE Chains!Init
    <2>1. \A k \in Login : family[k].current = 0 /\ family[k].status # "revoked"
      BY <1>1 DEF SessionInit, SessionRowsInit
    <2>2. \A r \in Request : request[r].pc = "idle"
      BY <1>1 DEF SessionInit, SessionRowsInit, NoRequest
    <2> QED
      BY <2>1, <2>2 DEF Chains!Init
  <1> QED
    BY <1>1, StepKeepsChain, SessionInvariant, PTL DEF SessionSpec, KeepsChain, Chains!Spec

-----------------------------------------------------------------------------
(* The inductive invariant of the composition *)

\* A session was paid for with its ticket, and was created under the revisions
\* that the ticket carried.
Inherited == {"project", "application", "policy"}

SessionsFollowTickets ==
    \A k \in Login :
        /\ session[k].status # "none" <=> ticket[k].status = "consumed"
        /\ session[k].status # "none" =>
              \A o \in Inherited : session[k].snap[o] = ticket[k].snap[o]

RuntimeInv == LoginInv /\ SessionInv /\ SessionsFollowTickets

LEMMA RuntimeInitEstablishes == RuntimeInit => RuntimeInv
  <1> SUFFICES ASSUME RuntimeInit PROVE RuntimeInv
    OBVIOUS
  <1>1. LoginInv
    BY InitEstablishes DEF RuntimeInit
  <1>2. SessionInv
    BY SessionInitEstablishes DEF RuntimeInit, LoginInit, SessionInit
  <1>3. SessionsFollowTickets
    BY DEF SessionsFollowTickets, RuntimeInit, LoginInit, TicketInit, SessionRowsInit
  <1> QED
    BY <1>1, <1>2, <1>3 DEF RuntimeInv

-----------------------------------------------------------------------------
(* Every step is one of both parts *)

StepOfBoth == [LoginNext]_vars /\ [SessionNext]_authorityVars

\* A step that issues no ticket completes no login, and leaves the owners alone:
\* only the completion by a provider writes a profile, and it finds no ticket yet.
LEMMA LoginAloneParts ==
    ASSUME RuntimeInv, LoginAlone
    PROVE  StepOfBoth
  <1>1. LoginNext
    BY DEF LoginAlone, LoginNext
  <1>2. UNCHANGED <<ticket, sessionVars>>
    BY DEF LoginAlone
  <1>3. UNCHANGED controlVars
    <2>1. ASSUME NEW l \in Login, NEW t, LoginRequest(l, t)
          PROVE  UNCHANGED controlVars
      BY <2>1
      DEF LoginRequest, CreateLoginTransaction, BindHostedBrowser, SelectProviderMethod,
          SelectEmailMethod, CommitEmailGeneration, RejectOtp, CompleteEmailProof,
          ConfirmBrowserSessionReuse, DenyProviderCallback, RecoverAbandonedProviderExchange,
          CommitHandoffExchange
    <2>2. ASSUME NEW c \in Callback, NEW t, CompleteAuthenticatedIdentity(c, t)
          PROVE  UNCHANGED controlVars
      <3> DEFINE l == callback[c].login
      <3>1. l \in Login
        BY <2>2 DEF CompleteAuthenticatedIdentity, RuntimeInv, LoginInv, Base, ClaimsKnown,
                    Claimed, LoginTypeOK, CallbackRequest
      <3>2. CASE Open(l, "provider_exchange_in_progress", t) /\ InsertHandoff(l, "provider", t)
        <4>1. ticket[l].status = "none" /\ ticket \in [Login -> TicketRow]
          BY <3>1, <3>2 DEF Open, RuntimeInv, LoginInv, NoEarlyTicket, Base, LoginTypeOK,
                            TicketTypeOK
        <4>2. ticket'[l].status = "issued"
          BY <3>1, <3>2, <4>1 DEF InsertHandoff, IssueTicket
        <4> QED
          BY <1>2, <4>1, <4>2
      <3> QED
        BY <2>2, <3>2 DEF CompleteAuthenticatedIdentity
    <2>3. ASSUME NEW c \in Callback, NEW t, CallbackStep(c, t)
          PROVE  UNCHANGED controlVars
      BY <2>2, <2>3
      DEF CallbackStep, ClaimProviderCallback, ProviderExchangeError, ProviderCompletionError,
          FailProviderExchange, CrashCallback
    <2> QED
      BY <2>1, <2>3 DEF LoginAlone
  <1> QED
    BY <1>1, <1>2, <1>3 DEF StepOfBoth, authorityVars

\* The completion of a login is the step of a login and the issue of a handoff.
LEMMA CompleteLoginParts ==
    ASSUME NEW l \in Login, NEW b \in Browser, NEW t \in ClockReading, CompleteLogin(l, b, t)
    PROVE  StepOfBoth
  <1>1. LoginNext
    BY DEF CompleteLogin, LoginNext, LoginRequest, CallbackStep
  <1>2. SessionNext
    BY DEF CompleteLogin, SessionNext
  <1> QED
    BY <1>1, <1>2 DEF StepOfBoth

\* The exchange of a ticket concerns the login its request names.
LEMMA ExchangeParts ==
    ASSUME RuntimeInv, NEW r \in Request, NEW t \in ClockReading, Exchange(r, t)
    PROVE  StepOfBoth
  <1>1. request[r].session \in Login
    BY DEF Exchange, CommitExchange, RuntimeInv, SessionInv, SessionBase, RequestsKnown
  <1>2. LoginNext
    BY <1>1 DEF Exchange, LoginNext, LoginRequest
  <1>3. SessionNext
    BY DEF Exchange, SessionNext
  <1> QED
    BY <1>2, <1>3 DEF StepOfBoth

\* The other steps of sessions write nothing a login knows of.
LEMMA SessionAloneParts ==
    ASSUME SessionAlone
    PROVE  StepOfBoth
  <1>1. SessionNext
    BY DEF SessionAlone, SessionNext
  <1>2. UNCHANGED <<controlVars, ticket>>
    BY DEF SessionAlone, SessionStep, BrowserStep, OtherUserSignsIn, RevokeBrowserSession,
           EndOfSession, LogoutApplicationSession, RevokeApplicationSession,
           RequestStep, PrepareHandoffExchange, PrepareRefreshRotation, RotateRefreshToken,
           EndRequest, LogoutStep, PrepareBrowserLogout, BindBrowserLogout, ConfirmBrowserLogout
  <1> QED
    BY <1>1, <1>2 DEF StepOfBoth, SessionAlone, vars, loginVars

LEMMA StepKeepsParts ==
    ASSUME RuntimeInv, [RuntimeNext]_runtimeVars
    PROVE  StepOfBoth
  <1>1. CASE ControlNext /\ UNCHANGED <<loginVars, sessionVars>>
    BY <1>1 DEF StepOfBoth, LoginNext, SessionNext, loginVars
  <1>2. CASE UNCHANGED runtimeVars
    BY <1>2 DEF StepOfBoth, runtimeVars, vars, loginVars, authorityVars
  <1> QED
    BY <1>1, <1>2, LoginAloneParts, CompleteLoginParts, ExchangeParts, SessionAloneParts
    DEF RuntimeNext

-----------------------------------------------------------------------------
(* Sessions follow tickets *)

\* The exchange that gives birth to a session finds every revision the ticket
\* carries unchanged, and the ticket carries all that a session inherits.
LEMMA BornUnderTicket ==
    ASSUME RuntimeInv, [LoginNext]_vars, NEW r \in Request, NEW k \in Login, Birth(r, k)
    PROVE  \A o \in Inherited : owner[o].revision = ticket[k].snap[o]
  <1>1. Base /\ LoginTypeOK /\ TicketCopiesLogin /\ ticket \in [Login -> TicketRow]
    BY DEF RuntimeInv, LoginInv, Base, LoginTypeOK, TicketTypeOK
  <1>2. ticket[k].status = "issued" /\ ticket'[k].status = "consumed"
    BY <1>1 DEF Birth, TicketRow
  <1>3. PICK l \in Login, t \in ClockReading : SpendKind(l, t)
    <2>1. StepKind
      BY <1>1, EveryStepHasAKind
    <2>2. ticket' # ticket
      BY <1>2
    <2>3. ASSUME NEW l \in Login, TicketLapseKind(l) PROVE FALSE
      BY <1>1, <1>2, <2>3 DEF TicketLapseKind, TicketRow
    <2>4. ASSUME NEW l \in Login, NEW t \in ClockReading, GrantKind(l, t) PROVE FALSE
      BY <1>1, <1>2, <2>4 DEF GrantKind, InsertHandoff, IssueTicket
    <2> QED
      BY <2>1, <2>2, <2>3, <2>4
      DEF StepKind, QuietKind, StartKind, EntryKind, FailKind, LapseKind, ClaimKind
  <1>4. l = k
    BY <1>1, <1>2, <1>3 DEF SpendKind
  <1>5. \A o \in Inherited : ticket[k].snap[o] = login[k].snap[o] /\ login[k].snap[o] # 0
    BY <1>1, <1>2
    DEF TicketCopiesLogin, CopiedOwners, Inherited, LoginTypeOK, LoginRow, OwnerSnapshot, Owners,
        Revision
  <1>6. Inherited \subseteq HandoffOwners(k)
    BY <1>5 DEF HandoffOwners, Inherited, TicketOwners
  <1> QED
    BY <1>3, <1>4, <1>6 DEF SpendKind, Current

LEMMA SessionsFollowTicketsKept ==
    ASSUME RuntimeInv, StepOfBoth
    PROVE  SessionsFollowTickets'
  <1>1. /\ SessionsFollowTickets /\ SessionBase /\ TokensMatchFamily
        /\ ticket \in [Login -> TicketRow] /\ session \in [Login -> SessionRow]
    BY DEF RuntimeInv, SessionInv, SessionBase, SessionTypeOK, TicketTypeOK
  <1>2. SessionKind
    BY <1>1, EverySessionStep DEF StepOfBoth
  <1>3. CASE Keep /\ TicketMoves
    BY <1>1, <1>3 DEF Keep, TicketMoves, SessionsFollowTickets
  <1>4. ASSUME NEW r \in Request, NEW k \in Login, Birth(r, k)
        PROVE  SessionsFollowTickets'
    <2>1. \A o \in Inherited : owner[o].revision = ticket[k].snap[o]
      BY <1>4, BornUnderTicket DEF StepOfBoth
    <2>2. /\ ticket'[k].status = "consumed" /\ ticket'[k].snap = ticket[k].snap
          /\ \A j \in Login \ {k} : ticket'[j] = ticket[j]
      BY <1>1, <1>4 DEF Birth, TicketRow
    <2>3. /\ session'[k].status = "active" /\ session'[k].snap = Revisions(SessionOwners)
          /\ \A j \in Login \ {k} : session'[j] = session[j]
      BY <1>1, <1>4 DEF Birth
    <2>4. \A o \in Inherited : session'[k].snap[o] = ticket'[k].snap[o]
      BY <2>1, <2>2, <2>3 DEF Revisions, SessionOwners, Inherited
    <2> QED
      BY <1>1, <2>2, <2>3, <2>4 DEF SessionsFollowTickets
  <1>5. ASSUME NEW k \in Login, End(k), UNCHANGED ticket
        PROVE  SessionsFollowTickets'
    <2>1. \A j \in Login : /\ session'[j].snap = session[j].snap
                           /\ session'[j].status = "none" <=> session[j].status = "none"
      BY <1>1, <1>5 DEF End, RevokeSession, SessionRow
    <2> QED
      BY <1>1, <1>5, <2>1 DEF SessionsFollowTickets
  <1>6. CASE UNCHANGED <<session, ticket>>
    BY <1>1, <1>6 DEF SessionsFollowTickets
  <1> QED
    BY <1>2, <1>3, <1>4, <1>5, <1>6 DEF SessionKind, Growth

\* The invariant is inductive.
LEMMA RuntimeStep ==
    ASSUME RuntimeInv, [RuntimeNext]_runtimeVars
    PROVE  RuntimeInv' /\ StepOfBoth
  <1>1. StepOfBoth
    BY StepKeepsParts
  <1>2. LoginInv'
    BY <1>1, StepPreserves DEF StepOfBoth, RuntimeInv
  <1>3. SessionInv'
    BY <1>1, SessionInvStep DEF StepOfBoth, RuntimeInv
  <1>4. SessionsFollowTickets'
    BY <1>1, SessionsFollowTicketsKept
  <1> QED
    BY <1>1, <1>2, <1>3, <1>4 DEF RuntimeInv

THEOREM RuntimeInvariant == RuntimeSpec => []RuntimeInv
  <1>1. RuntimeInv /\ [RuntimeNext]_runtimeVars => RuntimeInv'
    BY RuntimeStep
  <1> QED
    BY <1>1, RuntimeInitEstablishes, PTL DEF RuntimeSpec

-----------------------------------------------------------------------------
(* What is claimed of the Runtime *)

\* The Runtime implements the specification of the login, although its handlers
\* write rows of both parts (issue_handoff, commit_handoff_exchange) ...
THEOREM RuntimeImplementsLogin == RuntimeSpec => LoginSpec
  <1>1. RuntimeInit => LoginInit
    BY DEF RuntimeInit
  <1>2. RuntimeInv /\ [RuntimeNext]_runtimeVars => [LoginNext]_vars
    BY RuntimeStep DEF StepOfBoth
  <1> QED
    BY <1>1, <1>2, RuntimeInvariant, PTL DEF RuntimeSpec, LoginSpec

\* ... and the specification of sessions.
THEOREM RuntimeImplementsSession == RuntimeSpec => SessionSpec
  <1>1. RuntimeInit => SessionInit
    BY DEF RuntimeInit, LoginInit, SessionInit
  <1>2. RuntimeInv /\ [RuntimeNext]_runtimeVars => [SessionNext]_authorityVars
    BY RuntimeStep DEF StepOfBoth
  <1> QED
    BY <1>1, <1>2, RuntimeInvariant, PTL DEF RuntimeSpec, SessionSpec

\* There is a session exactly when its login completed, and it stands on the
\* revisions of the Project, the Application and the policy that the login
\* captured when it started (create_login_transaction to commit_handoff_exchange).
THEOREM SessionsInherit == RuntimeSpec => []SessionsInheritLogins
  <1>1. RuntimeInv => SessionsInheritLogins
    BY DEF RuntimeInv, LoginInv, TicketAgreesWithLogin, TicketCopiesLogin, CopiedOwners,
           SessionsFollowTickets, Inherited, SessionsInheritLogins
  <1> QED
    BY <1>1, RuntimeInvariant, PTL

\* What was proved of a login alone and of sessions alone holds of the Runtime:
\* the authority of a login is spent once and never after it was withdrawn, and a
\* session that is over stays over, whatever the other part does.
THEOREM RuntimeKeepsPromises ==
    RuntimeSpec => /\ KeepsPromise /\ WithdrawalIsFinal /\ []ClaimFence
                   /\ KeepsChain /\ OverIsOver /\ []TokensMatchFamily
  BY RuntimeImplementsLogin, RuntimeImplementsSession, LoginKeepsPromise, WithdrawalStays,
     ClaimsAreFenced, SessionKeepsChain, OverStaysOver, TokensMatch, PTL
=============================================================================
