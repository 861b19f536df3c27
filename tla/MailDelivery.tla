---------------------------- MODULE MailDelivery ----------------------------
(***************************************************************************)
(* The mail of email logins: how a message is queued with its challenge,   *)
(* claimed by one worker at a time under a lease, submitted to the relay,  *)
(* retried, and settled; and the life of the SMTP configuration and of the *)
(* credential it is sent with.                                             *)
(*                                                                         *)
(* The message of a challenge generation is one row of mail_outbox, named  *)
(* here by its login and its generation.  A worker keeps two deadlines of  *)
(* its own: it stops submitting CompletionReserve before the end of a      *)
(* lease that it counts from before its claim, while PostgreSQL counts the *)
(* lease from the claim.  The relay is outside: after the body was sent it *)
(* may have accepted the message whether or not the worker hears of it.    *)
(*                                                                         *)
(* Of a login only what mail depends on is kept; LoginTransaction has the  *)
(* rest.  Mail of identity mutations queues in the same table under its    *)
(* own authority and is not modelled.                                      *)
(***************************************************************************)
EXTENDS ControlPlane, FiniteSets

CONSTANTS
    Login, Worker, Smtp,
    ProjectSmtp,        \* the configurations of the Project; the others are the deployment's
    SmtpVolatile,       \* the configurations operators change in this instance
    RecipientOf,        \* RecipientOf[l]: the address the login's mail goes to
    MaxGenerations,     \* generations of a login's challenge
    MaxAttempts,        \* attempts of one message
    ClaimLease,         \* MAIL_CLAIM_LEASE
    CompletionReserve,  \* MAIL_COMPLETION_RESERVE
    RetryDelay,         \* the backoff before the next attempt
    ResendAfter,        \* between generations, and between messages to a recipient
    BacklogLimit,       \* MAX_ACTIVE_MAIL_OUTBOX_PER_PROJECT
    LoginLifetime, ChallengeLifetime,
    SmtpRetention,      \* how long a replaced configuration stays usable
    LastStart           \* bound: no login starts later

MailAssumption ==
    /\ {MaxGenerations, MaxAttempts, ClaimLease, CompletionReserve, LoginLifetime,
        ChallengeLifetime, BacklogLimit} \subseteq Nat \ {0}
    /\ {RetryDelay, ResendAfter, SmtpRetention, LastStart} \subseteq Nat
    /\ CompletionReserve < ClaimLease
    /\ IsFiniteSet(Login) /\ Login \subseteq DOMAIN RecipientOf
    /\ SmtpVolatile \subseteq Smtp /\ ProjectSmtp \subseteq Smtp
    /\ "none" \notin Worker \cup Smtp

VARIABLES
    login,      \* login_transactions with its login_email_method_snapshots
    challenge,  \* email_challenges, by login and generation
    outbox,     \* mail_outbox, likewise
    smtp,       \* project_smtp_configurations and the state of its credential
    worker,     \* the workers' memory
    relay       \* relay[j]: the attempts of which the relay accepted the message

mailVars == <<login, challenge, outbox, smtp, worker, relay>>
allVars == <<controlVars, mailVars>>

Job == Login \X (1..MaxGenerations)
MailOwners == {"metadata", "project", "application", "email"}

Waiting == {"pending", "retry", "ambiguous"}
ActiveMail == Waiting \cup {"leased"}
SettledMail == {"delivered", "permanent_failure", "expired", "cancelled"}
\* PolicyDenied is treated as Permanent everywhere and is not told apart.
Outcome == {"delivered", "transient", "permanent", "ambiguous"}
LoginRow == [status : {"none", "entry", "challenge", "over"}, expires : Nat,
             snap : [MailOwners -> Nat], smtp : Smtp \cup {"none"}, eligibility : Nat]
ChallengeRow == [status : {"none", "pending", "delivery_unavailable", "superseded",
                           "exhausted", "expired", "consumed"}, issued : Nat, expires : Nat]
MailRow == [status : ActiveMail \cup SettledMail \cup {"none"}, attempts : 0..MaxAttempts,
            owner : Worker \cup {"none"}, leaseExpires : Nat, next : Nat,
            created : Nat, queued : Nat]
SmtpRow == [status : {"pending", "active", "retained", "disabled", "retired"},
            eligibility : Nat, retainedUntil : Nat,
            cleanup : {"none", "pending", "leased", "erased"},
            cleaner : Worker \cup {"none"}, cleanupExpires : Nat]
WorkerPc == {"idle", "claiming", "claimed", "connecting", "sent", "finishing", "cleaning"}
WorkerRow == [pc : WorkerPc, started : Nat, job : Job \cup {<<>>}, attempt : 0..MaxAttempts,
              lease : Nat, outcome : Outcome, smtp : Smtp \cup {"none"}]

MailTypeOK ==
    /\ ControlTypeOK
    /\ login \in [Login -> LoginRow]
    /\ challenge \in [Job -> ChallengeRow]
    /\ outbox \in [Job -> MailRow]
    /\ smtp \in [Smtp -> SmtpRow]
    /\ worker \in [Worker -> WorkerRow]
    /\ relay \in [Job -> SUBSET (1..MaxAttempts)]

Idle == [pc |-> "idle", started |-> 0, job |-> <<>>, attempt |-> 0, lease |-> 0,
         outcome |-> "transient", smtp |-> "none"]

\* One configuration is active; the others were tested and wait for activation.
MailInit ==
    /\ ControlInit
    /\ login = [l \in Login |-> [status |-> "none", expires |-> 0, smtp |-> "none",
                                 eligibility |-> 0, snap |-> [o \in MailOwners |-> 0]]]
    /\ challenge = [j \in Job |-> [status |-> "none", issued |-> 0, expires |-> 0]]
    /\ outbox = [j \in Job |-> [status |-> "none", attempts |-> 0, owner |-> "none",
                                leaseExpires |-> 0, next |-> 0, created |-> 0, queued |-> 0]]
    /\ \E c \in Smtp :
          smtp = [d \in Smtp |->
                    [status |-> IF d = c THEN "active" ELSE "pending", eligibility |-> 1,
                     retainedUntil |-> 0, cleanup |-> "none", cleaner |-> "none",
                     cleanupExpires |-> 0]]
    /\ worker = [w \in Worker |-> Idle]
    /\ relay = [j \in Job |-> {}]

-----------------------------------------------------------------------------
(* Authority *)

Eligible(c, revision, t) ==
    /\ smtp[c].eligibility = revision
    /\ \/ smtp[c].status = "active"
       \/ smtp[c].status = "retained" /\ smtp[c].retainedUntil > t

\* The login's owners, method and pinned SMTP configuration are as captured.
MailAuthority(l, t) ==
    /\ Current(MailOwners, login[l].snap)
    /\ Eligible(login[l].smtp, login[l].eligibility, t)

Generation(l) == Cardinality({g \in 1..MaxGenerations : challenge[<<l, g>>].status # "none"})

\* The cleanup of a retired configuration erases its credential; delete_project erases
\* that of every configuration of the Project in the transaction that closes it.
ErasedWithProject(c) == c \in ProjectSmtp /\ owner["project"].status = "closed"
CredentialErased(c) == smtp[c].cleanup = "erased" \/ ErasedWithProject(c)

LeaseOver(j) == outbox[j].status = "leased" /\ outbox[j].leaseExpires <= now

NotInHandMutant(j) == outbox[j].status \in ActiveMail

\* Nobody is sending the message: its last claimant gave it back or was too long.
NotInHand(j) == outbox[j].status \in Waiting \/ LeaseOver(j)

\* The row goes to status s and holds no lease.
Released(row, s) == [row EXCEPT !.status = s, !.owner = "none", !.leaseExpires = 0]

-----------------------------------------------------------------------------
(* Logins and challenges *)

StartLogin(l, c, t) ==
    /\ login[l].status = "none" /\ now <= LastStart
    /\ \A o \in MailOwners : Active(o)
    /\ Eligible(c, smtp[c].eligibility, t)
    /\ login' = [login EXCEPT ![l] =
          [status |-> "entry", expires |-> t + LoginLifetime, smtp |-> c,
           eligibility |-> smtp[c].eligibility,
           snap |-> [o \in MailOwners |-> owner[o].revision]]]
    /\ UNCHANGED <<controlVars, challenge, outbox, smtp, worker, relay>>

\* Counts every message ever queued for the recipient, settled or not.
RecipientWasRecentlyEnqueued(l) ==
    \E j \in Job : /\ RecipientOf[j[1]] = RecipientOf[l]
                   /\ outbox[j].status # "none" /\ outbox[j].created + ResendAfter > now

\* Whether the new challenge gets a message.  mail is the outbox after the
\* cancellations of the same transaction.
AuthorizeMailDelivery(l, mail) ==
    /\ Cardinality({j \in Job : mail[j].status \in ActiveMail}) < BacklogLimit
    /\ ~RecipientWasRecentlyEnqueued(l)

\* issued is the replica's reading, d that of the database, taken before the wait
\* for the Project's mail lock.  Earlier messages of the login that nobody is
\* sending are cancelled, earlier challenges superseded.
CommitEmailGeneration(l, issued, d) ==
    LET g == Generation(l) + 1
        j == <<l, g>>
        earlier == {<<l, f>> : f \in 1..(g - 1)}
        expires == IF issued + ChallengeLifetime < login[l].expires
                   THEN issued + ChallengeLifetime ELSE login[l].expires
        cancelled == [k \in Job |->
            IF k \in earlier /\ NotInHand(k)
            THEN Released(outbox[k], "cancelled") ELSE outbox[k]]
        dispatch == AuthorizeMailDelivery(l, cancelled)
    IN  /\ login[l].status \in {"entry", "challenge"} /\ login[l].expires > issued
        /\ g <= MaxGenerations /\ issued <= d
        /\ \A k \in earlier : challenge[k].issued + ResendAfter <= d
        /\ MailAuthority(l, issued)
        /\ challenge' = [k \in Job |->
             IF k = j THEN [status |-> IF dispatch THEN "pending" ELSE "delivery_unavailable",
                            issued |-> issued, expires |-> expires]
             ELSE IF k \in earlier /\ challenge[k].status \in {"pending", "delivery_unavailable"}
             THEN [challenge[k] EXCEPT !.status = "superseded"] ELSE challenge[k]]
        /\ outbox' = IF dispatch
                     THEN [cancelled EXCEPT ![j] =
                            [status |-> "pending", attempts |-> 0, owner |-> "none",
                             leaseExpires |-> 0, next |-> d, created |-> d, queued |-> now]]
                     ELSE cancelled
        /\ login' = [login EXCEPT ![l].status = "challenge"]
        /\ UNCHANGED <<controlVars, smtp, worker, relay>>

\* The last wrong code, and the completion of the proof or another end of the login.
ExhaustChallenge(j) ==
    /\ challenge[j].status = "pending" /\ challenge[j].expires > now
    /\ challenge' = [challenge EXCEPT ![j].status = "exhausted"]
    /\ UNCHANGED <<controlVars, login, outbox, smtp, worker, relay>>

EndLogin(l) ==
    /\ login[l].status \in {"entry", "challenge"}
    /\ login' = [login EXCEPT ![l].status = "over"]
    /\ \/ UNCHANGED challenge
       \/ \E g \in 1..MaxGenerations :
             /\ g = Generation(l) /\ challenge[<<l, g>>].status = "pending"
             /\ challenge' = [challenge EXCEPT ![<<l, g>>].status = "consumed"]
    /\ UNCHANGED <<controlVars, outbox, smtp, worker, relay>>

LoginStep ==
    \/ \E l \in Login, c \in Smtp, t \in ClockReading : StartLogin(l, c, t)
    \/ \E l \in Login, t, d \in ClockReading : CommitEmailGeneration(l, t, d)
    \/ \E l \in Login : EndLogin(l)
    \/ \E j \in Job : ExhaustChallenge(j)

-----------------------------------------------------------------------------
(* The worker.  useful_until of a message is the expiry of its challenge. *)

UsefulUntil(j) == challenge[j].expires
DispatchDeadline(w) == worker[w].started + ClaimLease - CompletionReserve
LeaseDeadline(w) == worker[w].started + ClaimLease
Attempt(w, pc) == worker' = [worker EXCEPT ![w].pc = pc]
Settles(w, outcome) == worker' = [worker EXCEPT ![w].pc = "finishing", ![w].outcome = outcome]

\* A message that a worker may be given now: the newest generation of a login
\* that is still open under the authority it captured.
DueMail(j) ==
    /\ NotInHand(j)
    /\ outbox[j].attempts < MaxAttempts
    /\ outbox[j].next <= now /\ UsefulUntil(j) > now
    /\ challenge[j].status = "pending" /\ j[2] = Generation(j[1])
    /\ login[j[1]].status = "challenge" /\ login[j[1]].expires > now
    /\ MailAuthority(j[1], now)

\* Every round of the loop starts its deadlines before it asks for a message.
StartRound(w) ==
    /\ worker[w].pc = "idle"
    /\ worker' = [worker EXCEPT ![w] = [Idle EXCEPT !.pc = "claiming", !.started = now]]
    /\ UNCHANGED <<controlVars, login, challenge, outbox, smtp, relay>>

\* The lease starts at the claim itself.  The answer may be lost, or come after
\* the deadline at which the worker stops waiting for it.
ClaimDueMail(w, j) ==
    /\ worker[w].pc = "claiming"
    /\ DueMail(j) /\ \A k \in Job : DueMail(k) => outbox[j].next <= outbox[k].next
    /\ outbox' = [outbox EXCEPT ![j].status = "leased", ![j].owner = w,
                                ![j].attempts = @ + 1, ![j].leaseExpires = now + ClaimLease]
    /\ \/ /\ now < DispatchDeadline(w)
          /\ worker' = [worker EXCEPT ![w].pc = "claimed", ![w].job = j,
                           ![w].attempt = outbox[j].attempts + 1, ![w].lease = now + ClaimLease]
       \/ worker' = [worker EXCEPT ![w] = Idle]
    /\ UNCHANGED <<controlVars, login, challenge, smtp, relay>>

\* What the worker finds out before it connects: no time left, no use left, a
\* message or a credential that does not fit.
PreparationFails(w) ==
    /\ worker[w].pc = "claimed"
    /\ \/ Settles(w, "transient")
       \/ now < DispatchDeadline(w) /\ Settles(w, "permanent")
    /\ UNCHANGED <<controlVars, login, challenge, outbox, smtp, relay>>

\* The credential of the pinned configuration is read here.
Connect(w) ==
    /\ worker[w].pc = "claimed"
    /\ now < DispatchDeadline(w) /\ now < UsefulUntil(worker[w].job)
    /\ ~CredentialErased(login[worker[w].job[1]].smtp)
    /\ Attempt(w, "connecting")
    /\ UNCHANGED <<controlVars, login, challenge, outbox, smtp, relay>>

\* A refusal, an unexpected answer or a failure before the body.
FailBeforeData(w) ==
    /\ worker[w].pc = "connecting"
    /\ \E o \in {"transient", "permanent", "ambiguous"} : Settles(w, o)
    /\ UNCHANGED <<controlVars, login, challenge, outbox, smtp, relay>>

\* The body leaves; from here only the relay knows.
SendBody(w) ==
    /\ worker[w].pc = "connecting" /\ now < DispatchDeadline(w)
    /\ relay' \in {relay, [relay EXCEPT ![worker[w].job] = @ \cup {worker[w].attempt}]}
    /\ Attempt(w, "sent")
    /\ UNCHANGED <<controlVars, login, challenge, outbox, smtp>>

\* The final response, or its absence.
FinalResponse(w) ==
    /\ worker[w].pc = "sent"
    /\ \/ Settles(w, "ambiguous")
       \/ now < DispatchDeadline(w) /\
             IF worker[w].attempt \in relay[worker[w].job] THEN Settles(w, "delivered")
             ELSE \E o \in {"transient", "permanent"} : Settles(w, o)
    /\ UNCHANGED <<controlVars, login, challenge, outbox, smtp, relay>>

\* MailRetryState::next_attempt
RetryAllowed(w, t) ==
    /\ worker[w].outcome \in {"transient", "ambiguous"}
    /\ worker[w].attempt < MaxAttempts
    /\ t + RetryDelay < UsefulUntil(worker[w].job)

\* The worker's claim is the one the row knows of.
Fenced(w) ==
    LET row == outbox[worker[w].job]
    IN  /\ row.status = "leased" /\ row.owner = w /\ row.attempts = worker[w].attempt
        /\ row.leaseExpires = worker[w].lease /\ row.leaseExpires > now

\* t is the reading the retry is counted from.
FinishMailAttempt(w, t) ==
    LET j == worker[w].job
        outcome == worker[w].outcome
        status == CASE outcome = "delivered" -> "delivered"
                    [] RetryAllowed(w, t) -> IF outcome = "transient" THEN "retry" ELSE "ambiguous"
                    [] OTHER -> "permanent_failure"
        next == IF RetryAllowed(w, t) THEN t + RetryDelay ELSE UsefulUntil(j)
    IN  /\ worker[w].pc = "finishing" /\ now < LeaseDeadline(w)
        /\ outbox' = IF Fenced(w)
                     THEN [outbox EXCEPT ![j] = [Released(@, status) EXCEPT !.next = next]]
                     ELSE outbox
        /\ worker' = [worker EXCEPT ![w] = Idle]
        /\ UNCHANGED <<controlVars, login, challenge, smtp, relay>>

\* A deadline passed, nothing was due, a lost connection, or a stopped replica.
EndRound(w) ==
    /\ worker[w].pc # "idle"
    /\ worker' = [worker EXCEPT ![w] = Idle]
    /\ UNCHANGED <<controlVars, login, challenge, outbox, smtp, relay>>

WorkerStep ==
    \/ \E w \in Worker :
          \/ StartRound(w) \/ PreparationFails(w) \/ Connect(w) \/ FailBeforeData(w)
          \/ SendBody(w) \/ FinalResponse(w) \/ EndRound(w)
    \/ \E w \in Worker, j \in Job : ClaimDueMail(w, j)
    \/ \E w \in Worker, t \in ClockReading : FinishMailAttempt(w, t)

-----------------------------------------------------------------------------
(* Maintenance, which every round runs first.  t is the replica's reading; *)
(* each class of rows is a transaction of its own and may fail alone.       *)

FailExhaustedMail(j) ==
    /\ NotInHand(j) /\ outbox[j].attempts >= MaxAttempts
    /\ outbox' = [outbox EXCEPT ![j] = Released(@, "permanent_failure")]
    /\ UNCHANGED <<controlVars, login, challenge, smtp, worker, relay>>

ExpireMail(j, t) ==
    /\ NotInHand(j) /\ UsefulUntil(j) <= t
    /\ outbox' = [outbox EXCEPT ![j] = Released(@, "expired")]
    /\ UNCHANGED <<controlVars, login, challenge, smtp, worker, relay>>

ExpireChallenge(j, t) ==
    /\ challenge[j].status = "pending" /\ challenge[j].expires <= t
    /\ challenge' = [challenge EXCEPT ![j].status = "expired"]
    /\ UNCHANGED <<controlVars, login, outbox, smtp, worker, relay>>

MaintainShortTermData ==
    \/ \E j \in Job : FailExhaustedMail(j)
    \/ \E j \in Job, t \in ClockReading : ExpireMail(j, t) \/ ExpireChallenge(j, t)

-----------------------------------------------------------------------------
(* SMTP configurations *)

\* The one that was active stays usable for a while.
ActivateSmtpConfiguration(c, t) ==
    /\ smtp[c].status = "pending"
    /\ smtp' = [d \in Smtp |->
         IF d = c THEN [smtp[d] EXCEPT !.status = "active"]
         ELSE IF smtp[d].status = "active"
         THEN [smtp[d] EXCEPT !.status = "retained", !.retainedUntil = t + SmtpRetention]
         ELSE smtp[d]]
    /\ UNCHANGED <<controlVars, login, challenge, outbox, worker, relay>>

\* Disabled or compromised.
TerminateSmtpConfiguration(c) ==
    /\ smtp[c].status \notin {"disabled", "retired"}
    /\ smtp' = [smtp EXCEPT ![c].status = "disabled", ![c].retainedUntil = 0,
                            ![c].eligibility = @ + 1]
    /\ UNCHANGED <<controlVars, login, challenge, outbox, worker, relay>>

SmtpNeededMutant(c, t) ==
    \E l \in Login : login[l].smtp = c /\
        \/ login[l].status \in {"entry", "challenge"} /\ login[l].expires > t
        \/ \E g \in 1..MaxGenerations :
              /\ challenge[<<l, g>>].expires > t
              /\ challenge[<<l, g>>].status = "pending" \/ outbox[<<l, g>>].status \in Waiting

\* A login, a challenge or a message may still need the credential.
SmtpNeeded(c, t) ==
    \E l \in Login : login[l].smtp = c /\
        \/ login[l].status \in {"entry", "challenge"} /\ login[l].expires > t
        \/ \E g \in 1..MaxGenerations :
              /\ challenge[<<l, g>>].expires > t
              /\ \/ challenge[<<l, g>>].status = "pending"
                 \/ outbox[<<l, g>>].status \in ActiveMail

\* The first transaction of claim_smtp_credential_cleanup.
RetireSmtpConfiguration(c, t) ==
    /\ \/ smtp[c].status = "disabled"
       \/ smtp[c].status = "retained" /\ smtp[c].retainedUntil <= t
    /\ ~SmtpNeeded(c, t)
    /\ smtp' = [smtp EXCEPT ![c].status = "retired", ![c].retainedUntil = 0,
                            ![c].eligibility = @ + 1, ![c].cleanup = "pending"]
    /\ UNCHANGED <<controlVars, login, challenge, outbox, worker, relay>>

\* Its second one.
ClaimSmtpCredentialCleanup(w, c, t) ==
    /\ worker[w].pc = "idle"
    /\ smtp[c].cleanup = "pending" \/ (smtp[c].cleanup = "leased" /\ smtp[c].cleanupExpires <= t)
    /\ smtp' = [smtp EXCEPT ![c].cleanup = "leased", ![c].cleaner = w,
                            ![c].cleanupExpires = t + ClaimLease]
    /\ worker' = [worker EXCEPT ![w] = [Idle EXCEPT !.pc = "cleaning", !.smtp = c]]
    /\ UNCHANGED <<controlVars, login, challenge, outbox, relay>>

\* The fence is the lease's owner alone; erasing twice is harmless.
FinishSmtpCredentialCleanup(w) ==
    LET c == worker[w].smtp
    IN  /\ worker[w].pc = "cleaning"
        /\ smtp' = IF smtp[c].cleanup = "leased" /\ smtp[c].cleaner = w
                   THEN [smtp EXCEPT ![c].cleanup = "erased", ![c].cleaner = "none",
                                     ![c].cleanupExpires = 0]
                   ELSE smtp
        /\ worker' = [worker EXCEPT ![w] = Idle]
        /\ UNCHANGED <<controlVars, login, challenge, outbox, relay>>

SmtpStep ==
    \/ \E c \in SmtpVolatile : TerminateSmtpConfiguration(c)
    \/ \E c \in SmtpVolatile, t \in ClockReading :
          ActivateSmtpConfiguration(c, t) \/ RetireSmtpConfiguration(c, t)
    \/ \E w \in Worker, c \in Smtp, t \in ClockReading : ClaimSmtpCredentialCleanup(w, c, t)
    \/ \E w \in Worker : FinishSmtpCredentialCleanup(w)

MailNext ==
    \/ LoginStep \/ WorkerStep \/ MaintainShortTermData \/ SmtpStep
    \/ ControlNext /\ UNCHANGED mailVars

MailSpec == MailInit /\ [][MailNext]_allVars

\* run_mail_worker runs the maintenance once a second on every replica.
PassTime == Tick /\ UNCHANGED mailVars

-----------------------------------------------------------------------------
(* Properties *)

\* submit, finish_mail_attempt: a message recorded as delivered was accepted by the
\* relay in the attempt the row counts last, and one that waits for a retry after a
\* definite failure was not: whatever is uncertain is recorded as ambiguous.
RecordedMeansHappened ==
    \A j \in Job :
        /\ outbox[j].status = "delivered" => outbox[j].attempts \in relay[j]
        /\ outbox[j].status = "retry" => outbox[j].attempts \notin relay[j]

\* authorize_mail_delivery: one recipient gets messages ResendAfter apart, over all
\* logins, up to the age of the reading a queued message is dated with.
RecipientSpacing ==
    \A j, k \in Job :
        /\ j # k /\ RecipientOf[j[1]] = RecipientOf[k[1]]
        /\ outbox[j].status # "none" /\ outbox[k].status # "none"
        => \/ outbox[j].queued + ResendAfter <= outbox[k].queued + MaxClockLag
           \/ outbox[k].queued + ResendAfter <= outbox[j].queued + MaxClockLag

\* authorize_mail_delivery: a Project's unsettled messages stay within the limit.
BacklogBounded == Cardinality({j \in Job : outbox[j].status \in ActiveMail}) <= BacklogLimit

\* claim_smtp_credential_cleanup: however configurations are replaced, disabled and
\* retired, the credential of a message in hand is not erased while it is of use; only
\* the deletion of the Project that owns it takes it away from under a worker.
CredentialOutlivesMail ==
    \A w \in Worker :
        /\ worker[w].pc \in {"claimed", "connecting", "sent"}
        /\ now < DispatchDeadline(w) /\ now < UsefulUntil(worker[w].job)
        => LET c == login[worker[w].job[1]].smtp
           IN CredentialErased(c) => ErasedWithProject(c)

MailSafe ==
    /\ MailTypeOK /\ RecordedMeansHappened /\ RecipientSpacing
    /\ BacklogBounded /\ CredentialOutlivesMail

\* maintain_short_term_data: every message is settled, whatever workers do and
\* however its authority is withdrawn.
MailOpen == \E j \in Job : outbox[j].status \in ActiveMail

-----------------------------------------------------------------------------
(* The outbox as leased work *)

ItemState(j) ==
    CASE outbox[j].status = "none" -> "absent"
      [] outbox[j].status \in Waiting -> "open"
      [] outbox[j].status = "leased" -> "held"
      [] OTHER -> "done"

HoldsClaim(w) == worker[w].pc \in {"claimed", "connecting", "sent", "finishing"}

Leases == INSTANCE LeasedWork
    WITH Item <- Job,
         item <- [j \in Job |-> [state |-> ItemState(j), term |-> outbox[j].attempts]],
         claim <- [w \in Worker |->
                     IF HoldsClaim(w) THEN <<worker[w].job, worker[w].attempt>> ELSE <<>>]

\* run_once: the body of a message leaves only while the row still names this
\* worker's claim and its lease runs.  Two workers never send one message at once.
SubmitsUnderLease ==
    \A w \in Worker : worker[w].pc = "connecting" /\ worker'[w].pc = "sent" => Fenced(w)

\* claim_due_mail, finish_mail_attempt: the attempt number is the term of a lease.
\* Only the latest claimant settles or releases a message, and a settled one stays so.
KeepsLease == [Leases!LeasedNext]_(Leases!leasedVars) /\ SubmitsUnderLease

\* finish_mail_attempt, run_once: no step of anyone breaks the lease discipline of the outbox.
KeepsLeases == [][KeepsLease]_allVars
=============================================================================
