--------------------------- MODULE DeliveryProofs ---------------------------
(***************************************************************************)
(* Proofs about the mail outbox, for every set of logins, workers and SMTP *)
(* configurations and every value of the limits: MailDelivery keeps its    *)
(* invariants and implements LeasedWork.                                   *)
(*                                                                         *)
(* A worker counts its own deadline and the row has a lease; neither knows *)
(* the other's clock.  The invariant says how they stand to each other:    *)
(* while the lease runs, the row has the very claim of the worker          *)
(* (ClaimFits), and what the relay received under it is what the row will  *)
(* say (MessageFits).  The limits of recipients and of the backlog rest on *)
(* counting finite sets; the credential of a message in hand survives      *)
(* because retiring a configuration waits for the messages it is for.      *)
(***************************************************************************)
EXTENDS MailDelivery, ControlPlaneProofs, FiniteSetTheorems, TLAPS

-----------------------------------------------------------------------------
(* Mail: the inductive invariant *)

GivenUp == {"permanent_failure", "expired", "cancelled"}

\* The generations of a login are numbered without gaps.
IssuedUpTo(l, n) == \A g \in 1..MaxGenerations : challenge[<<l, g>>].status # "none" <=> g <= n
Numbered(l) == \E n \in 0..MaxGenerations : IssuedUpTo(l, n)

\* A message has a challenge of a login that has an SMTP configuration; the relay
\* heard of attempts that the row counts, and of the last one as the row says.
MessageFits(j) ==
    /\ challenge[j].status # "none" => login[j[1]].status # "none"
    /\ login[j[1]].status # "none" => login[j[1]].smtp \in Smtp
    /\ outbox[j].status # "none" => challenge[j].status # "none"
    /\ outbox[j].status = "none" => outbox[j].attempts = 0
    /\ outbox[j].queued <= outbox[j].created + MaxClockLag
    /\ \A a \in relay[j] : a <= outbox[j].attempts
    /\ outbox[j].status = "delivered" => outbox[j].attempts \in relay[j]
    /\ outbox[j].status = "retry" => outbox[j].attempts \notin relay[j]

\* The row still has the worker's claim.
InHand(w) ==
    LET row == outbox[worker[w].job]
    IN row.status = "leased" /\ row.owner = w /\ row.attempts = worker[w].attempt
       /\ row.leaseExpires = worker[w].lease

\* A worker's lease is at least as long as the worker counts, and while it runs the
\* row has the claim; later the row was given up or has another attempt.
ClaimFits(w) ==
    HoldsClaim(w) =>
        LET j == worker[w].job
            a == worker[w].attempt
        IN /\ j \in Job /\ a \in 1..MaxAttempts /\ outbox[j].status # "none" /\ a <= outbox[j].attempts
           /\ worker[w].lease >= LeaseDeadline(w)
           /\ worker[w].lease > now => InHand(w)
           /\ a = outbox[j].attempts => InHand(w) \/ outbox[j].status \in GivenUp
           /\ worker[w].pc \in {"claimed", "connecting"} => a \notin relay[j]
           /\ worker[w].pc = "finishing" /\ worker[w].outcome = "delivered" => a \in relay[j]
           /\ worker[w].pc = "finishing" /\ worker[w].outcome \in {"transient", "permanent"} =>
                 a \notin relay[j]

\* No two workers believe they hold one claim.
ClaimsDiffer ==
    \A v, w \in Worker :
        /\ HoldsClaim(v) /\ HoldsClaim(w)
        /\ worker[v].job = worker[w].job /\ worker[v].attempt = worker[w].attempt
        => v = w

\* The configuration of a message that can still be sent is not retired.
SmtpKept(w) ==
    /\ worker[w].pc \in {"claimed", "connecting", "sent"}
    /\ now < DispatchDeadline(w) /\ now < UsefulUntil(worker[w].job)
    => smtp[login[worker[w].job[1]].smtp].status # "retired"

ClaimsInv == ClaimsDiffer /\ \A w \in Worker : worker[w].started <= now /\ ClaimFits(w)

MessagesInv == (\A l \in Login : Numbered(l)) /\ \A j \in Job : MessageFits(j)

SmtpInv ==
    /\ \A c \in Smtp : smtp[c].cleanup # "none" => smtp[c].status = "retired"
    /\ \A w \in Worker : SmtpKept(w) /\ (worker[w].pc = "cleaning" => worker[w].smtp \in Smtp)

LimitsInv == RecipientSpacing /\ BacklogBounded

MailInv == MailTypeOK /\ ClaimsInv /\ MessagesInv /\ SmtpInv /\ LimitsInv

\* What the proofs use of the constants.
LEMMA MailConstants ==
    ASSUME MailAssumption
    PROVE  /\ MaxGenerations \in Nat /\ MaxAttempts \in Nat /\ MaxAttempts > 0
           /\ ClaimLease \in Nat /\ CompletionReserve \in Nat /\ CompletionReserve < ClaimLease
           /\ LoginLifetime \in Nat /\ ChallengeLifetime \in Nat /\ BacklogLimit \in Nat
           /\ RetryDelay \in Nat /\ ResendAfter \in Nat /\ SmtpRetention \in Nat
           /\ MaxClockLag \in Nat /\ IsFiniteSet(Login) /\ SmtpVolatile \subseteq Smtp
  BY ControlPlaneAssumption DEF MailAssumption

LEMMA JobsFinite ==
    ASSUME MailAssumption
    PROVE  IsFiniteSet(Job)
  <1>1. IsFiniteSet(1..MaxGenerations)
    BY MailConstants, FS_Interval
  <1> QED
    BY <1>1, MailConstants, FS_Product DEF Job

LEMMA EmptyBacklog ==
    ASSUME MailAssumption, {j \in Job : outbox[j].status \in ActiveMail} = {}
    PROVE  BacklogBounded
  <1> DEFINE S == {j \in Job : outbox[j].status \in ActiveMail}
  <1>1. Cardinality(S) = 0
    <2>1. Cardinality({}) = 0
      BY FS_EmptySet
    <2> QED
      BY <2>1, Zenon
  <1> HIDE DEF S
  <1>2. Cardinality(S) <= BacklogLimit
    BY <1>1, MailConstants
  <1> QED
    BY <1>2, Zenon DEF BacklogBounded, S

LEMMA MailInitEstablishes ==
    ASSUME MailAssumption, MailInit
    PROVE  MailInv
  <1> USE MailConstants DEF MailInit
  <1>1. MailTypeOK
    <2>1. ControlTypeOK
      BY DEF ControlInit, ControlTypeOK, OwnerStatus, Revision
    <2>2. login \in [Login -> LoginRow] /\ challenge \in [Job -> ChallengeRow]
      BY DEF LoginRow, ChallengeRow
    <2>3. outbox \in [Job -> MailRow]
      <3>1. 0 \in 0..MaxAttempts
        OBVIOUS
      <3> QED
        BY <3>1 DEF MailRow
    <2>4. smtp \in [Smtp -> SmtpRow]
      BY DEF SmtpRow
    <2>5. Idle \in WorkerRow
      BY DEF Idle, WorkerRow, WorkerPc, Outcome
    <2>6. relay \in [Job -> SUBSET (1..MaxAttempts)] /\ worker \in [Worker -> WorkerRow]
      BY <2>5
    <2> QED
      BY <2>1, <2>2, <2>3, <2>4, <2>6 DEF MailTypeOK
  <1>2. \A w \in Worker : worker[w].pc = "idle" /\ worker[w].started = 0
    BY DEF Idle
  <1>3. ClaimsInv
    BY <1>2 DEF ClaimsInv, ClaimsDiffer, ClaimFits, HoldsClaim, ControlInit
  <1>4. MessagesInv
    <2>1. ASSUME NEW l \in Login PROVE Numbered(l)
      <3>1. \A g \in 1..MaxGenerations : <<l, g>> \in Job /\ ~(g <= 0)
        BY DEF Job
      <3>2. IssuedUpTo(l, 0)
        BY <3>1 DEF IssuedUpTo
      <3> QED
        BY <3>2 DEF Numbered
    <2>2. ASSUME NEW j \in Job PROVE MessageFits(j)
      <3>1. j[1] \in Login
        BY DEF Job
      <3> QED
        BY <3>1 DEF MessageFits
    <2> QED
      BY <2>1, <2>2 DEF MessagesInv
  <1>5. SmtpInv
    BY <1>2 DEF SmtpInv, SmtpKept
  <1>6. LimitsInv
    <2>1. {j \in Job : outbox[j].status \in ActiveMail} = {}
      BY DEF ActiveMail, Waiting
    <2>2. BacklogBounded
      BY <2>1, EmptyBacklog
    <2>3. RecipientSpacing
      BY DEF RecipientSpacing
    <2> QED
      BY <2>2, <2>3 DEF LimitsInv
  <1> QED
    BY <1>1, <1>3, <1>4, <1>5, <1>6 DEF MailInv

-----------------------------------------------------------------------------
(* What a step leaves standing that does not touch the rows in question *)

LEMMA ClaimsStand ==
    ASSUME ClaimsInv, UNCHANGED <<now, worker, outbox, relay>>
    PROVE  ClaimsInv'
  BY DEF ClaimsInv, ClaimsDiffer, ClaimFits, HoldsClaim, InHand, LeaseDeadline

LEMMA MessagesStand ==
    ASSUME MessagesInv, UNCHANGED <<login, challenge, outbox, relay>>
    PROVE  MessagesInv'
  BY DEF MessagesInv, Numbered, IssuedUpTo, MessageFits

LEMMA SmtpStand ==
    ASSUME SmtpInv, UNCHANGED <<now, login, challenge, smtp, worker>>
    PROVE  SmtpInv'
  BY DEF SmtpInv, SmtpKept, DispatchDeadline, UsefulUntil

LEMMA LimitsStand ==
    ASSUME LimitsInv, UNCHANGED outbox
    PROVE  LimitsInv'
  BY DEF LimitsInv, RecipientSpacing, BacklogBounded

-----------------------------------------------------------------------------
(* Time and operators *)

LEMMA ControlKeepsMail ==
    ASSUME MailAssumption, MailInv, ControlNext, UNCHANGED mailVars
    PROVE  MailInv'
  <1>1. /\ ControlTypeOK' /\ ControlTypeOK
        /\ UNCHANGED <<login, challenge, outbox, smtp, worker, relay>>
    BY ControlNextType DEF MailInv, MailTypeOK, mailVars
  <1>2. now <= now' /\ now \in Nat /\ now' \in Nat
    BY <1>1 DEF ControlNext, Tick, ProjectCommand, MethodCommand, SubjectCommand, Revise, ControlTypeOK,
        UpdateProject, UpdateProjectPolicy, DisableProject, EnableProject, DeleteProject,
        ReplaceApplicationConfiguration, DisableApplication, UpdateProvider,
        UpdateProviderEgressPolicy, AssignProvider, UnassignProvider, DisableProvider,
        UpdateEmailPolicy, AssignEmailMethod, DisableProjectUser, EnableProjectUser,
        FanOutProjectedUser, ActivateSigningKey, TransitionSigningKey
  <1>3. MailTypeOK'
    BY <1>1 DEF MailInv, MailTypeOK
  <1>4. \A w \in Worker : worker[w].started \in Nat /\ worker[w].lease \in Nat
    BY DEF MailInv, MailTypeOK, WorkerRow
  <1>5. ClaimsInv'
    BY <1>1, <1>2, <1>4 DEF MailInv, ClaimsInv, ClaimsDiffer, ClaimFits, HoldsClaim, InHand, LeaseDeadline
  <1>6. SmtpInv'
    <2>1. ASSUME NEW w \in Worker PROVE SmtpKept(w)'
      <3>1. CASE worker[w].pc \in {"claimed", "connecting", "sent"}
        <4>1. worker[w].job \in Job
          BY <3>1 DEF MailInv, ClaimsInv, ClaimFits, HoldsClaim
        <4>2. UsefulUntil(worker[w].job) \in Nat /\ DispatchDeadline(w) \in Int
          BY <1>4, <4>1, MailConstants DEF MailInv, MailTypeOK, ChallengeRow, UsefulUntil, DispatchDeadline
        <4>3. UsefulUntil(worker[w].job)' = UsefulUntil(worker[w].job) /\ DispatchDeadline(w)' = DispatchDeadline(w)
          BY <1>1 DEF UsefulUntil, DispatchDeadline
        <4>4. SmtpKept(w)
          BY DEF MailInv, SmtpInv
        <4> QED
          BY <1>1, <1>2, <4>2, <4>3, <4>4 DEF SmtpKept
      <3>2. CASE worker[w].pc \notin {"claimed", "connecting", "sent"}
        BY <1>1, <3>2 DEF SmtpKept
      <3> QED
        BY <3>1, <3>2
    <2> QED
      BY <1>1, <2>1 DEF MailInv, SmtpInv
  <1> QED
    BY <1>1, <1>3, <1>5, <1>6, MessagesStand, LimitsStand DEF MailInv

-----------------------------------------------------------------------------
(* The rows of workers and messages *)

LEMMA WorkerType ==
    ASSUME MailTypeOK, NEW w \in Worker
    PROVE  /\ worker[w] \in WorkerRow
           /\ worker[w].started \in Nat /\ worker[w].lease \in Nat
           /\ worker[w].attempt \in 0..MaxAttempts /\ worker[w].job \in Job \cup {<<>>}
  BY DEF MailTypeOK, WorkerRow

LEMMA MessageType ==
    ASSUME MailTypeOK, NEW j \in Job
    PROVE  /\ outbox[j] \in MailRow
           /\ outbox[j].attempts \in 0..MaxAttempts /\ outbox[j].leaseExpires \in Nat
           /\ outbox[j].next \in Nat /\ outbox[j].created \in Nat /\ outbox[j].queued \in Nat
           /\ challenge[j].issued \in Nat /\ challenge[j].expires \in Nat
           /\ relay[j] \subseteq 1..MaxAttempts /\ j[1] \in Login /\ j[2] \in 1..MaxGenerations
           /\ j = <<j[1], j[2]>>
  BY DEF MailTypeOK, MailRow, ChallengeRow, Job

LEMMA IdleType == MailAssumption => Idle \in WorkerRow
  BY MailConstants DEF Idle, WorkerRow, WorkerPc, Outcome

\* Messages are added, and given up by others than the worker that has them in hand.
GivesUp ==
    \A k \in Job :
        outbox[k].status # "none" =>
            \/ outbox'[k] = outbox[k]
            \/ /\ NotInHand(k) /\ outbox'[k].status \in GivenUp
               /\ outbox'[k].attempts = outbox[k].attempts
               /\ outbox'[k].queued = outbox[k].queued
               /\ outbox'[k].created = outbox[k].created

LEMMA GivingUpKeepsClaims ==
    ASSUME MailTypeOK, ClaimsInv, GivesUp, UNCHANGED <<now, worker, relay>>
    PROVE  ClaimsInv'
  <1>1. ClaimsDiffer'
    BY DEF ClaimsInv, ClaimsDiffer, HoldsClaim
  <1>2. ASSUME NEW w \in Worker PROVE worker'[w].started <= now' /\ ClaimFits(w)'
    <2>1. worker[w].started <= now /\ ClaimFits(w)
      BY DEF ClaimsInv
    <2>2. CASE ~HoldsClaim(w)
      BY <2>1, <2>2 DEF ClaimFits, HoldsClaim
    <2>3. CASE HoldsClaim(w)
      <3> DEFINE j == worker[w].job
      <3>1. j \in Job /\ outbox[j].status # "none"
        BY <2>1, <2>3 DEF ClaimFits
      <3>2. CASE outbox'[j] = outbox[j]
        BY <2>1, <3>1, <3>2 DEF ClaimFits, HoldsClaim, InHand, LeaseDeadline
      <3>3. CASE outbox'[j] # outbox[j]
        <4>1. /\ NotInHand(j) /\ outbox'[j].status \in GivenUp
              /\ outbox'[j].attempts = outbox[j].attempts
          BY <3>1, <3>3 DEF GivesUp
        <4>2. ~(worker[w].lease > now)
          <5>1. SUFFICES ASSUME worker[w].lease > now PROVE FALSE
            OBVIOUS
          <5>2. InHand(w)
            BY <2>1, <2>3, <5>1 DEF ClaimFits
          <5> QED
            BY <4>1, <5>1, <5>2, WorkerType, MessageType, <3>1
            DEF NotInHand, LeaseOver, InHand, Waiting, MailTypeOK, ControlTypeOK
        <4>3. outbox'[j].status # "none"
          BY <4>1 DEF GivenUp
        <4> QED
          BY <2>1, <2>3, <3>1, <4>1, <4>2, <4>3 DEF ClaimFits, HoldsClaim, LeaseDeadline
      <3> QED
        BY <3>2, <3>3
    <2> QED
      BY <2>2, <2>3
  <1> QED
    BY <1>1, <1>2 DEF ClaimsInv

\* A worker that stops, or begins something else, gives its claim up.
LEMMA DroppingKeepsClaims ==
    ASSUME MailTypeOK, ClaimsInv, NEW w \in Worker, NEW r \in WorkerRow,
           r.pc \notin {"claimed", "connecting", "sent", "finishing"}, r.started <= now,
           worker' = [worker EXCEPT ![w] = r], UNCHANGED <<now, outbox, relay>>
    PROVE  ClaimsInv'
  <1>1. \A v \in Worker : v # w => worker'[v] = worker[v]
    BY DEF MailTypeOK
  <1>2. worker'[w] = r
    BY DEF MailTypeOK
  <1>3. ~HoldsClaim(w)'
    BY <1>2 DEF HoldsClaim
  <1>4. \A v \in Worker : HoldsClaim(v)' => v # w /\ worker'[v] = worker[v] /\ HoldsClaim(v)
    BY <1>1, <1>3 DEF HoldsClaim
  <1>5. ClaimsDiffer'
    BY <1>4 DEF ClaimsInv, ClaimsDiffer
  <1>6. ASSUME NEW v \in Worker PROVE worker'[v].started <= now' /\ ClaimFits(v)'
    <2>1. worker[v].started <= now /\ ClaimFits(v)
      BY DEF ClaimsInv
    <2>2. CASE v = w
      BY <1>2, <1>3, <2>2 DEF ClaimFits
    <2>3. CASE v # w
      BY <1>1, <2>1, <2>3 DEF ClaimFits, HoldsClaim, InHand, LeaseDeadline
    <2> QED
      BY <2>2, <2>3
  <1> QED
    BY <1>5, <1>6 DEF ClaimsInv

LEMMA DroppingKeepsSmtp ==
    ASSUME MailTypeOK, SmtpInv, NEW w \in Worker, NEW r \in WorkerRow,
           r.pc \notin {"claimed", "connecting", "sent", "finishing"},
           r.pc = "cleaning" => r.smtp \in Smtp,
           worker' = [worker EXCEPT ![w] = r], UNCHANGED <<now, login, challenge, smtp>>
    PROVE  SmtpInv'
  <1>1. \A v \in Worker : v # w => worker'[v] = worker[v]
    BY DEF MailTypeOK
  <1>2. worker'[w] = r
    BY DEF MailTypeOK
  <1>3. SmtpKept(w)'
    BY <1>2 DEF SmtpKept
  <1>4. ASSUME NEW v \in Worker, v # w PROVE SmtpKept(v)'
    <2>1. SmtpKept(v)
      BY DEF SmtpInv
    <2> QED
      BY <1>1, <1>4, <2>1 DEF SmtpKept, DispatchDeadline, UsefulUntil
  <1> QED
    BY <1>1, <1>2, <1>3, <1>4 DEF SmtpInv

\* A worker goes on with what it claimed: what it learnt is what the relay knows.
LEMMA ProceedingKeepsMail ==
    ASSUME MailInv, NEW w \in Worker, NEW r \in WorkerRow, HoldsClaim(w),
           r.pc \in {"connecting", "sent", "finishing"},
           r.started = worker[w].started, r.job = worker[w].job,
           r.attempt = worker[w].attempt, r.lease = worker[w].lease,
           r.pc \in {"connecting", "sent"} => worker[w].pc \in {"claimed", "connecting"},
           r.pc = "connecting" => worker[w].attempt \notin relay[worker[w].job],
           r.pc = "finishing" /\ r.outcome = "delivered" =>
               worker[w].attempt \in relay[worker[w].job],
           r.pc = "finishing" /\ r.outcome \in {"transient", "permanent"} =>
               worker[w].attempt \notin relay[worker[w].job],
           worker' = [worker EXCEPT ![w] = r],
           UNCHANGED <<controlVars, login, challenge, outbox, smtp, relay>>
    PROVE  MailInv'
  <1> USE DEF MailInv
  <1>0. UNCHANGED <<now, owner>>
    BY DEF controlVars
  <1>1. \A v \in Worker : worker'[v] = IF v = w THEN r ELSE worker[v]
    BY DEF MailTypeOK
  <1>2. MailTypeOK'
    <2>1. worker' \in [Worker -> WorkerRow]
      BY DEF MailTypeOK
    <2> QED
      BY <1>0, <2>1 DEF MailTypeOK, ControlTypeOK
  <1>3. HoldsClaim(w)' /\ \A v \in Worker : HoldsClaim(v)' <=> HoldsClaim(v)
    BY <1>1 DEF HoldsClaim
  <1>4. ClaimsInv'
    <2>1. \A v \in Worker : /\ worker'[v].job = worker[v].job
                            /\ worker'[v].attempt = worker[v].attempt
                            /\ worker'[v].lease = worker[v].lease
                            /\ worker'[v].started = worker[v].started
      BY <1>1
    <2>2. ClaimsDiffer'
      BY <1>3, <2>1 DEF ClaimsInv, ClaimsDiffer
    <2>3. ASSUME NEW v \in Worker PROVE worker'[v].started <= now' /\ ClaimFits(v)'
      <3>1. worker[v].started <= now /\ ClaimFits(v)
        BY DEF ClaimsInv
      <3>2. InHand(v)' <=> InHand(v)
        BY <1>0, <2>1 DEF InHand
      <3>3. CASE v = w
        BY <1>0, <1>1, <1>3, <2>1, <3>1, <3>2, <3>3 DEF ClaimFits, LeaseDeadline
      <3>4. CASE v # w
        BY <1>0, <1>1, <3>1, <3>2, <3>4 DEF ClaimFits, LeaseDeadline, HoldsClaim
      <3> QED
        BY <3>3, <3>4
    <2> QED
      BY <2>2, <2>3 DEF ClaimsInv
  <1>5. SmtpInv'
    <2>1. ASSUME NEW v \in Worker PROVE SmtpKept(v)'
      <3>1. SmtpKept(v)
        BY DEF SmtpInv
      <3> QED
        BY <1>0, <1>1, <3>1 DEF SmtpKept, DispatchDeadline, UsefulUntil
    <2>2. \A v \in Worker : worker'[v].pc = "cleaning" => worker'[v].smtp \in Smtp
      BY <1>1 DEF SmtpInv
    <2> QED
      BY <2>1, <2>2 DEF SmtpInv
  <1> QED
    BY <1>2, <1>4, <1>5, MessagesStand, LimitsStand

-----------------------------------------------------------------------------
(* The rounds of the workers *)

LEMMA SettlingKeepsMail ==
    ASSUME MailInv, NEW w \in Worker, HoldsClaim(w), NEW outcome \in Outcome,
           outcome = "delivered" => worker[w].attempt \in relay[worker[w].job],
           outcome \in {"transient", "permanent"} =>
               worker[w].attempt \notin relay[worker[w].job],
           Settles(w, outcome),
           UNCHANGED <<controlVars, login, challenge, outbox, smtp, relay>>
    PROVE  MailInv'
  <1> DEFINE r == [worker[w] EXCEPT !.pc = "finishing", !.outcome = outcome]
  <1>1. "finishing" \in WorkerPc
    BY DEF WorkerPc
  <1>2. /\ r \in WorkerRow /\ r.pc = "finishing" /\ r.outcome = outcome
        /\ r.started = worker[w].started /\ r.job = worker[w].job
        /\ r.attempt = worker[w].attempt /\ r.lease = worker[w].lease
    BY <1>1 DEF MailInv, MailTypeOK, WorkerRow
  <1>3. worker' = [worker EXCEPT ![w] = r]
    BY DEF Settles, MailInv, MailTypeOK
  <1> HIDE DEF r
  <1> QED
    BY <1>2, <1>3, ProceedingKeepsMail

LEMMA WorkerStepsKeepMail ==
    ASSUME MailAssumption, MailInv, NEW w \in Worker,
           PreparationFails(w) \/ Connect(w) \/ FailBeforeData(w) \/ FinalResponse(w)
    PROVE  MailInv'
  <1>1. ClaimFits(w) /\ Outcome = {"delivered", "transient", "permanent", "ambiguous"}
    BY DEF MailInv, ClaimsInv, Outcome
  <1>2. CASE PreparationFails(w)
    <2>1. HoldsClaim(w) /\ worker[w].attempt \notin relay[worker[w].job]
      BY <1>1, <1>2 DEF PreparationFails, HoldsClaim, ClaimFits
    <2>2. \E o \in {"transient", "permanent"} : Settles(w, o)
      BY <1>2 DEF PreparationFails
    <2> QED
      BY <1>1, <1>2, <2>1, <2>2, SettlingKeepsMail DEF PreparationFails
  <1>3. CASE Connect(w)
    <2> DEFINE r == [worker[w] EXCEPT !.pc = "connecting"]
    <2>1. HoldsClaim(w) /\ worker[w].pc = "claimed" /\ worker[w].attempt \notin relay[worker[w].job]
      BY <1>1, <1>3 DEF Connect, HoldsClaim, ClaimFits
    <2>2. "connecting" \in WorkerPc
      BY DEF WorkerPc
    <2>3. /\ r \in WorkerRow /\ r.pc = "connecting"
          /\ r.started = worker[w].started /\ r.job = worker[w].job
          /\ r.attempt = worker[w].attempt /\ r.lease = worker[w].lease
      BY <2>2 DEF MailInv, MailTypeOK, WorkerRow
    <2>4. worker' = [worker EXCEPT ![w] = r]
      BY <1>3 DEF Connect, Attempt, MailInv, MailTypeOK
    <2>5. UNCHANGED <<controlVars, login, challenge, outbox, smtp, relay>>
      BY <1>3 DEF Connect
    <2> HIDE DEF r
    <2> QED
      BY <2>1, <2>3, <2>4, <2>5, ProceedingKeepsMail
  <1>4. CASE FailBeforeData(w)
    <2>1. HoldsClaim(w) /\ worker[w].attempt \notin relay[worker[w].job]
      BY <1>1, <1>4 DEF FailBeforeData, HoldsClaim, ClaimFits
    <2> QED
      BY <1>1, <1>4, <2>1, SettlingKeepsMail DEF FailBeforeData
  <1>5. CASE FinalResponse(w)
    <2>1. HoldsClaim(w) /\ UNCHANGED <<controlVars, login, challenge, outbox, smtp, relay>>
      BY <1>5 DEF FinalResponse, HoldsClaim
    <2>2. CASE Settles(w, "ambiguous")
      BY <1>1, <2>1, <2>2, SettlingKeepsMail
    <2>3. CASE /\ worker[w].attempt \in relay[worker[w].job]
               /\ Settles(w, "delivered")
      BY <1>1, <2>1, <2>3, SettlingKeepsMail
    <2>4. CASE /\ worker[w].attempt \notin relay[worker[w].job]
               /\ \E o \in {"transient", "permanent"} : Settles(w, o)
      BY <1>1, <2>1, <2>4, SettlingKeepsMail
    <2> QED
      BY <1>5, <2>2, <2>3, <2>4 DEF FinalResponse
  <1> QED
    BY <1>2, <1>3, <1>4, <1>5

LEMMA DroppingKeepsMail ==
    ASSUME MailInv, NEW w \in Worker, NEW r \in WorkerRow,
           r.pc \in {"idle", "claiming"}, r.started <= now,
           worker' = [worker EXCEPT ![w] = r],
           UNCHANGED <<controlVars, login, challenge, outbox, smtp, relay>>
    PROVE  MailInv'
  <1>1. UNCHANGED <<now, owner, login, challenge, outbox, smtp, relay>>
    BY DEF controlVars
  <1>2. MailTypeOK'
    BY <1>1 DEF MailInv, MailTypeOK, ControlTypeOK
  <1> QED
    BY <1>1, <1>2, DroppingKeepsClaims, DroppingKeepsSmtp, MessagesStand, LimitsStand
    DEF MailInv

LEMMA RoundsKeepMail ==
    ASSUME MailAssumption, MailInv, NEW w \in Worker, StartRound(w) \/ EndRound(w)
    PROVE  MailInv'
  <1>1. Idle \in WorkerRow /\ now \in Nat
    BY IdleType DEF MailInv, MailTypeOK, ControlTypeOK
  <1>2. CASE StartRound(w)
    <2> DEFINE r == [Idle EXCEPT !.pc = "claiming", !.started = now]
    <2>1. r \in WorkerRow /\ r.pc = "claiming" /\ r.started <= now
      <3>1. r \in WorkerRow
        BY <1>1 DEF WorkerRow, WorkerPc
      <3>2. r.pc = "claiming" /\ r.started = now
        BY DEF Idle
      <3> QED
        BY <1>1, <3>1, <3>2
    <2>2. worker' = [worker EXCEPT ![w] = r]
      BY <1>2 DEF StartRound
    <2>3. UNCHANGED <<controlVars, login, challenge, outbox, smtp, relay>>
      BY <1>2 DEF StartRound
    <2> HIDE DEF r
    <2> QED
      BY <2>1, <2>2, <2>3, DroppingKeepsMail
  <1>3. CASE EndRound(w)
    <2>1. Idle.pc = "idle" /\ Idle.started <= now
      BY <1>1 DEF Idle
    <2> QED
      BY <1>1, <1>3, <2>1, DroppingKeepsMail DEF EndRound
  <1> QED
    BY <1>2, <1>3

\* The body leaves: no other worker has this attempt of the message, and a message that
\* waits for a retry is not the one in hand.
LEMMA SendBodyKeepsMail ==
    ASSUME MailAssumption, MailInv, NEW w \in Worker, SendBody(w)
    PROVE  MailInv'
  <1> USE DEF MailInv
  <1> DEFINE j == worker[w].job
             a == worker[w].attempt
             r == [worker[w] EXCEPT !.pc = "sent"]
  <1>1. UNCHANGED <<now, owner, login, challenge, outbox, smtp>> /\ worker[w].pc = "connecting"
    BY DEF SendBody, controlVars
  <1>2. /\ HoldsClaim(w) /\ ClaimFits(w) /\ worker[w].started <= now
        /\ j \in Job /\ a \in 1..MaxAttempts /\ a <= outbox[j].attempts
        /\ a = outbox[j].attempts => InHand(w) \/ outbox[j].status \in GivenUp
    BY <1>1 DEF ClaimsInv, HoldsClaim, ClaimFits
  <1>3. /\ r \in WorkerRow /\ r.pc = "sent" /\ r.started = worker[w].started /\ r.job = j
        /\ r.attempt = a /\ r.lease = worker[w].lease
    BY DEF MailTypeOK, WorkerRow, WorkerPc
  <1>4. worker' = [worker EXCEPT ![w] = r]
    BY DEF SendBody, Attempt, MailTypeOK
  <1> HIDE DEF r
  <1>5. \A v \in Worker : worker'[v] = IF v = w THEN r ELSE worker[v]
    BY <1>4 DEF MailTypeOK
  <1>6. relay' \in {relay, [relay EXCEPT ![j] = @ \cup {a}]}
    BY DEF SendBody
  <1>7. \A k \in Job : /\ relay[k] \subseteq relay'[k]
                       /\ \A b \in relay'[k] : b \in relay[k] \/ (k = j /\ b = a)
    BY <1>2, <1>6 DEF MailTypeOK
  <1>8. MailTypeOK'
    <2>1. relay' \in [Job -> SUBSET (1..MaxAttempts)]
      BY <1>2, <1>6 DEF MailTypeOK
    <2>2. worker' \in [Worker -> WorkerRow]
      BY <1>3, <1>4 DEF MailTypeOK
    <2> QED
      BY <1>1, <2>1, <2>2 DEF MailTypeOK, ControlTypeOK
  <1>9. ClaimsInv'
    <2>1. \A v \in Worker : /\ HoldsClaim(v)' <=> HoldsClaim(v)
                            /\ worker'[v].job = worker[v].job
                            /\ worker'[v].attempt = worker[v].attempt
                            /\ worker'[v].lease = worker[v].lease
                            /\ worker'[v].started = worker[v].started
      BY <1>2, <1>3, <1>5 DEF HoldsClaim
    <2>2. ClaimsDiffer'
      BY <2>1 DEF ClaimsInv, ClaimsDiffer
    <2>3. ASSUME NEW v \in Worker PROVE worker'[v].started <= now' /\ ClaimFits(v)'
      <3>1. worker[v].started <= now /\ ClaimFits(v)
        BY DEF ClaimsInv
      <3>2. InHand(v)' <=> InHand(v)
        BY <1>1, <2>1 DEF InHand
      <3>3. CASE v = w
        BY <1>1, <1>3, <1>5, <2>1, <3>1, <3>2, <3>3 DEF ClaimFits, LeaseDeadline
      <3>4. CASE v # w /\ HoldsClaim(v)
        <4>1. worker[v].job \in Job
          BY <3>1, <3>4 DEF ClaimFits
        <4>2. ~(worker[v].job = j /\ worker[v].attempt = a)
          BY <1>2, <3>4 DEF ClaimsInv, ClaimsDiffer
        <4>3. worker[v].attempt \in relay'[worker[v].job] <=> worker[v].attempt \in relay[worker[v].job]
          BY <1>7, <4>1, <4>2
        <4>4. worker'[v] = worker[v]
          BY <1>5, <3>4
        <4> QED
          BY <1>1, <3>1, <3>2, <4>3, <4>4, <3>4 DEF ClaimFits, LeaseDeadline, HoldsClaim
      <3>5. CASE v # w /\ ~HoldsClaim(v)
        BY <1>1, <2>1, <3>1, <3>5 DEF ClaimFits
      <3> QED
        BY <3>3, <3>4, <3>5
    <2> QED
      BY <2>2, <2>3 DEF ClaimsInv
  <1>10. MessagesInv'
    <2>1. \A l \in Login : Numbered(l)'
      BY <1>1 DEF MessagesInv, Numbered, IssuedUpTo
    <2>2. ASSUME NEW k \in Job PROVE MessageFits(k)'
      <3>1. MessageFits(k)
        BY DEF MessagesInv
      <3>2. \A b \in relay'[k] : b <= outbox[k].attempts
        BY <1>2, <1>7, <3>1 DEF MessageFits
      <3>3. outbox[k].status = "retry" => outbox[k].attempts \notin relay'[k]
        <4>1. SUFFICES ASSUME outbox[k].status = "retry", k = j, outbox[k].attempts = a PROVE FALSE
          BY <1>7, <3>1 DEF MessageFits
        <4> QED
          BY <1>2, <4>1 DEF InHand, GivenUp
      <3>4. outbox[k].status = "delivered" => outbox[k].attempts \in relay'[k]
        BY <1>7, <3>1 DEF MessageFits
      <3> QED
        BY <1>1, <3>1, <3>2, <3>3, <3>4 DEF MessageFits
    <2> QED
      BY <2>1, <2>2 DEF MessagesInv
  <1>11. SmtpInv'
    <2>1. ASSUME NEW v \in Worker PROVE SmtpKept(v)'
      <3>1. SmtpKept(v)
        BY DEF SmtpInv
      <3> QED
        BY <1>1, <1>3, <1>5, <3>1 DEF SmtpKept, DispatchDeadline, UsefulUntil
    <2>2. \A v \in Worker : worker'[v].pc = "cleaning" => worker'[v].smtp \in Smtp
      BY <1>3, <1>5 DEF SmtpInv
    <2> QED
      BY <1>1, <2>1, <2>2 DEF SmtpInv
  <1> QED
    BY <1>1, <1>8, <1>9, <1>10, <1>11, LimitsStand

\* Rows that change without becoming unsettled, or being dated anew, keep the limits.
LEMMA SettlingKeepsLimits ==
    ASSUME MailAssumption, MailTypeOK, LimitsInv,
           \A k \in Job : /\ outbox'[k].queued = outbox[k].queued
                          /\ outbox'[k].status = "none" <=> outbox[k].status = "none"
                          /\ outbox'[k].status \in ActiveMail => outbox[k].status \in ActiveMail
    PROVE  LimitsInv'
  <1>1. RecipientSpacing'
    BY DEF LimitsInv, RecipientSpacing
  <1>2. BacklogBounded'
    <2> DEFINE S == {k \in Job : outbox[k].status \in ActiveMail}
               T == {k \in Job : outbox'[k].status \in ActiveMail}
    <2>1. T \subseteq S /\ S \subseteq Job
      OBVIOUS
    <2>2. Cardinality(S) <= BacklogLimit
      BY DEF LimitsInv, BacklogBounded
    <2> HIDE DEF S, T
    <2>3. IsFiniteSet(S) /\ IsFiniteSet(T)
      BY <2>1, JobsFinite, FS_Subset
    <2>4. Cardinality(T) <= Cardinality(S) /\ Cardinality(T) \in Nat /\ Cardinality(S) \in Nat
      BY <2>1, <2>3, FS_Subset, FS_CardinalityType
    <2>5. Cardinality(T) <= BacklogLimit
      BY <2>2, <2>4, MailConstants
    <2> QED
      BY <2>5, Zenon DEF BacklogBounded, T
  <1> QED
    BY <1>1, <1>2 DEF LimitsInv

-----------------------------------------------------------------------------
(* Claims and their ends *)

\* The claim of a message that nobody is sending: whoever had it before has an older
\* attempt and a lease that ran out.
LEMMA ClaimKeepsMail ==
    ASSUME MailAssumption, MailInv, NEW w \in Worker, NEW j \in Job, ClaimDueMail(w, j)
    PROVE  MailInv'
  <1> USE DEF MailInv
  <1>1. UNCHANGED <<now, owner, login, challenge, smtp, relay>> /\ worker[w].pc = "claiming"
    BY DEF ClaimDueMail, controlVars
  <1>2. /\ NotInHand(j) /\ outbox[j].attempts < MaxAttempts /\ MailAuthority(j[1], now)
        /\ outbox[j].status \in ActiveMail
    BY DEF ClaimDueMail, DueMail, NotInHand, LeaseOver, ActiveMail
  <1> DEFINE b == outbox[j].attempts + 1
             row == [outbox[j] EXCEPT !.status = "leased", !.owner = w, !.attempts = @ + 1,
                                      !.leaseExpires = now + ClaimLease]
             r == [worker[w] EXCEPT !.pc = "claimed", !.job = j, !.attempt = b,
                                    !.lease = now + ClaimLease]
  <1>3. /\ now \in Nat /\ outbox[j] \in MailRow /\ outbox[j].attempts \in 0..MaxAttempts
        /\ now + ClaimLease \in Nat /\ b \in 1..MaxAttempts
    BY <1>2, MailConstants, MessageType DEF MailTypeOK, ControlTypeOK
  <1>4. /\ row \in MailRow /\ row.status = "leased" /\ row.owner = w /\ row.attempts = b
        /\ row.leaseExpires = now + ClaimLease /\ row.queued = outbox[j].queued
        /\ row.created = outbox[j].created
    <2>1. outbox[j].attempts + 1 \in 0..MaxAttempts
      BY <1>2, <1>3, MailConstants
    <2>2. row \in MailRow
      BY <1>3, <2>1 DEF MailRow, ActiveMail
    <2> QED
      BY <1>3, <2>2 DEF MailRow
  <1>5. outbox' = [outbox EXCEPT ![j] = row]
    BY DEF ClaimDueMail, MailTypeOK
  <1>6. /\ r \in WorkerRow /\ r.pc = "claimed" /\ r.job = j /\ r.attempt = b
        /\ r.lease = now + ClaimLease /\ r.started = worker[w].started
    <2>1. b \in 0..MaxAttempts /\ worker[w] \in WorkerRow
      <3>1. b \in 0..MaxAttempts
        BY <1>3, MailConstants
      <3> QED
        BY <3>1, WorkerType
    <2> HIDE DEF b
    <2>2. r \in WorkerRow
      BY <1>3, <2>1 DEF WorkerRow, WorkerPc
    <2> QED
      BY <2>1, <2>2 DEF WorkerRow
  <1>7. worker' \in {[worker EXCEPT ![w] = r], [worker EXCEPT ![w] = Idle]}
    BY DEF ClaimDueMail, MailTypeOK
  <1> HIDE DEF row, r, b
  <1>8. \A k \in Job : outbox'[k] = IF k = j THEN row ELSE outbox[k]
    BY <1>5 DEF MailTypeOK
  <1>9. MailTypeOK'
    <2>1. outbox' \in [Job -> MailRow]
      BY <1>4, <1>5 DEF MailTypeOK
    <2>2. worker' \in [Worker -> WorkerRow]
      BY <1>6, <1>7, IdleType DEF MailTypeOK
    <2> QED
      BY <1>1, <2>1, <2>2 DEF MailTypeOK, ControlTypeOK
  <1>10. \A v \in Worker : v # w => worker'[v] = worker[v]
    BY <1>7 DEF MailTypeOK
  <1>11. worker'[w] = r \/ worker'[w] = Idle
    BY <1>7 DEF MailTypeOK
  <1>12. /\ HoldsClaim(w)' => worker'[w] = r
         /\ \A v \in Worker : v # w => (HoldsClaim(v)' <=> HoldsClaim(v))
    BY <1>10, <1>11 DEF HoldsClaim, Idle
  <1>13. ASSUME NEW v \in Worker, v # w, HoldsClaim(v), worker[v].job = j
         PROVE  worker[v].attempt < b /\ worker[v].attempt \in Nat /\ ~(worker[v].lease > now)
    <2>1. ClaimFits(v)
      BY DEF ClaimsInv
    <2>2. worker[v].attempt <= outbox[j].attempts /\ worker[v].attempt \in 1..MaxAttempts
      BY <1>13, <2>1 DEF ClaimFits
    <2>3. ~(worker[v].lease > now)
      <3>1. SUFFICES ASSUME worker[v].lease > now PROVE FALSE
        OBVIOUS
      <3>2. InHand(v)
        BY <1>13, <2>1, <3>1 DEF ClaimFits
      <3> QED
        BY <1>2, <1>3, <1>13, <3>1, <3>2, WorkerType DEF NotInHand, LeaseOver, InHand, Waiting
    <2> QED
      BY <1>3, <2>2, <2>3 DEF b
  <1>14. ClaimsInv'
    <2>1. ClaimsDiffer'
      <3>1. SUFFICES ASSUME NEW u \in Worker, NEW v \in Worker, HoldsClaim(u)', HoldsClaim(v)',
                            worker'[u].job = worker'[v].job,
                            worker'[u].attempt = worker'[v].attempt, u # v
                     PROVE  FALSE
        BY DEF ClaimsDiffer
      <3>2. CASE u # w /\ v # w
        BY <1>10, <1>12, <3>1, <3>2 DEF ClaimsInv, ClaimsDiffer
      <3>3. ASSUME NEW x \in Worker, x # w, HoldsClaim(x)', HoldsClaim(w)',
                   worker'[x].job = worker'[w].job, worker'[x].attempt = worker'[w].attempt
            PROVE  FALSE
        BY <1>3, <1>6, <1>10, <1>12, <1>13, <3>3
      <3> QED
        BY <3>1, <3>2, <3>3
    <2>2. worker'[w].started <= now' /\ ClaimFits(w)'
      <3>1. worker[w].started <= now /\ worker[w].started \in Nat
        BY WorkerType DEF ClaimsInv
      <3>2. CASE worker'[w] = Idle
        <4>1. worker'[w].started = 0 /\ ~HoldsClaim(w)'
          BY <3>2 DEF Idle, HoldsClaim
        <4> QED
          BY <1>1, <1>3, <4>1 DEF ClaimFits
      <3>3. CASE worker'[w] = r
        <4>1. InHand(w)'
          BY <1>4, <1>6, <1>8, <3>3 DEF InHand
        <4>2. b \notin relay[j]
          BY <1>3 DEF MessagesInv, MessageFits, b
        <4>3. worker'[w].lease >= LeaseDeadline(w)'
          BY <1>1, <1>3, <1>6, <3>1, <3>3, MailConstants DEF LeaseDeadline
        <4>4. outbox'[j].status = "leased" /\ outbox'[j].attempts = b
          BY <1>4, <1>8
        <4> QED
          BY <1>1, <1>3, <1>6, <3>1, <3>3, <4>1, <4>2, <4>3, <4>4 DEF ClaimFits
      <3> QED
        BY <1>11, <3>2, <3>3
    <2>3. ASSUME NEW v \in Worker, v # w PROVE worker'[v].started <= now' /\ ClaimFits(v)'
      <3>1. worker[v].started <= now /\ ClaimFits(v) /\ worker'[v] = worker[v]
        BY <1>10, <2>3 DEF ClaimsInv
      <3>2. CASE ~HoldsClaim(v)
        BY <1>1, <1>12, <2>3, <3>1, <3>2 DEF ClaimFits
      <3>3. CASE HoldsClaim(v) /\ worker[v].job # j
        <4>1. worker[v].job \in Job
          BY <3>1, <3>3 DEF ClaimFits
        <4>2. outbox'[worker[v].job] = outbox[worker[v].job]
          BY <1>8, <3>3, <4>1
        <4> QED
          BY <1>1, <3>1, <3>3, <4>2 DEF ClaimFits, HoldsClaim, InHand, LeaseDeadline
      <3>4. CASE HoldsClaim(v) /\ worker[v].job = j
        <4>1. worker[v].attempt < b /\ ~(worker[v].lease > now) /\ worker[v].attempt \in Nat
          BY <1>13, <2>3, <3>4
        <4>2. outbox'[j].attempts = b /\ outbox'[j].status = "leased"
          BY <1>4, <1>8
        <4> QED
          BY <1>1, <1>3, <3>1, <3>4, <4>1, <4>2 DEF ClaimFits, HoldsClaim, LeaseDeadline
      <3> QED
        BY <3>2, <3>3, <3>4
    <2> QED
      BY <2>1, <2>2, <2>3 DEF ClaimsInv
  <1>15. MessagesInv'
    <2>1. \A l \in Login : Numbered(l)'
      BY <1>1 DEF MessagesInv, Numbered, IssuedUpTo
    <2>2. ASSUME NEW k \in Job PROVE MessageFits(k)'
      <3>1. MessageFits(k)
        BY DEF MessagesInv
      <3>2. CASE k # j
        BY <1>1, <1>8, <3>1, <3>2 DEF MessageFits
      <3>3. CASE k = j
        <4>1. outbox[j].status # "none" /\ relay[j] \subseteq 1..MaxAttempts
          BY <1>2, MessageType DEF ActiveMail, Waiting
        <4>2. \A x \in relay[j] : x <= b
          BY <1>3, <3>1, <3>3, <4>1 DEF MessageFits, b
        <4> QED
          BY <1>1, <1>4, <1>8, <3>1, <3>3, <4>1, <4>2 DEF MessageFits
      <3> QED
        BY <3>2, <3>3
    <2> QED
      BY <2>1, <2>2 DEF MessagesInv
  <1>16. SmtpInv'
    <2>1. smtp[login[j[1]].smtp].status # "retired"
      BY <1>2 DEF MailAuthority, Eligible
    <2>2. ASSUME NEW v \in Worker PROVE SmtpKept(v)'
      <3>1. SmtpKept(v)
        BY DEF SmtpInv
      <3>2. CASE v # w
        BY <1>1, <1>10, <3>1, <3>2 DEF SmtpKept, DispatchDeadline, UsefulUntil
      <3>3. CASE v = w /\ worker'[w] = r
        BY <1>1, <1>6, <2>1, <3>3 DEF SmtpKept
      <3>4. CASE v = w /\ worker'[w] = Idle
        BY <3>4 DEF SmtpKept, Idle
      <3> QED
        BY <1>11, <3>2, <3>3, <3>4
    <2>3. worker'[w].pc # "cleaning"
      BY <1>6, <1>11 DEF Idle
    <2> QED
      BY <1>1, <1>10, <2>2, <2>3 DEF SmtpInv
  <1>17. LimitsInv'
    <2>1. ASSUME NEW k \in Job
          PROVE  /\ outbox'[k].queued = outbox[k].queued
                 /\ outbox'[k].status = "none" <=> outbox[k].status = "none"
                 /\ outbox'[k].status \in ActiveMail => outbox[k].status \in ActiveMail
      BY <1>2, <1>4, <1>8 DEF ActiveMail, Waiting
    <2> QED
      BY <2>1, SettlingKeepsLimits
  <1> QED
    BY <1>9, <1>14, <1>15, <1>16, <1>17

\* The row a fenced worker leaves behind.
LEMMA FinishedRow ==
    ASSUME MailAssumption, MailTypeOK, NEW j \in Job, NEW s \in ActiveMail \cup SettledMail,
           NEW n \in Nat
    PROVE  LET row == [Released(outbox[j], s) EXCEPT !.next = n]
           IN /\ row \in MailRow /\ row.status = s /\ row.attempts = outbox[j].attempts
              /\ row.queued = outbox[j].queued /\ row.created = outbox[j].created
  <1>1. outbox[j] \in MailRow
    BY MessageType
  <1> QED
    BY <1>1 DEF MailRow, Released

\* What a fenced worker records agrees with the relay.  Others that had the message
\* before have an older attempt, and their leases ran out.
LEMMA FinishKeepsMail ==
    ASSUME MailAssumption, MailInv, NEW w \in Worker, NEW t \in ClockReading,
           FinishMailAttempt(w, t)
    PROVE  MailInv'
  <1> USE DEF MailInv
  <1> DEFINE j == worker[w].job
             a == worker[w].attempt
             outcome == worker[w].outcome
             status == CASE outcome = "delivered" -> "delivered"
                         [] RetryAllowed(w, t) -> IF outcome = "transient" THEN "retry" ELSE "ambiguous"
                         [] OTHER -> "permanent_failure"
             next == IF RetryAllowed(w, t) THEN t + RetryDelay ELSE UsefulUntil(j)
             row == [Released(outbox[j], status) EXCEPT !.next = next]
  <1>1. /\ UNCHANGED <<now, owner, login, challenge, smtp, relay>>
        /\ worker[w].pc = "finishing" /\ worker' = [worker EXCEPT ![w] = Idle]
    BY DEF FinishMailAttempt, controlVars
  <1>2. /\ HoldsClaim(w) /\ ClaimFits(w) /\ j \in Job
        /\ outcome = "delivered" => a \in relay[j]
        /\ outcome \in {"transient", "permanent"} => a \notin relay[j]
    BY <1>1 DEF ClaimsInv, HoldsClaim, ClaimFits
  <1>3. /\ status \in {"delivered", "retry", "ambiguous", "permanent_failure"}
        /\ status = "delivered" => outcome = "delivered"
        /\ status = "retry" => outcome = "transient"
    OBVIOUS
  <1>4. next \in Nat
    <2>1. t \in Nat /\ t + RetryDelay \in Nat
      BY ClockReadingType, MailConstants DEF MailTypeOK
    <2>2. UsefulUntil(j) \in Nat
      BY <1>2, MessageType DEF UsefulUntil
    <2> QED
      BY <2>1, <2>2
  <1>5. outbox' = IF Fenced(w) THEN [outbox EXCEPT ![j] = row] ELSE outbox
    BY <1>2 DEF FinishMailAttempt, MailTypeOK
  <1>6. /\ row \in MailRow /\ row.status = status /\ row.attempts = outbox[j].attempts
        /\ row.queued = outbox[j].queued /\ row.created = outbox[j].created
    <2>1. status \in ActiveMail \cup SettledMail
      BY <1>3 DEF ActiveMail, SettledMail, Waiting
    <2> HIDE DEF status, next
    <2> QED
      BY <1>2, <1>4, <2>1, FinishedRow
  <1> HIDE DEF status, next, row
  <1>7. Idle \in WorkerRow /\ Idle.pc = "idle" /\ Idle.started <= now
    <2>1. now \in Nat
      BY DEF MailTypeOK, ControlTypeOK
    <2> QED
      BY <2>1, IdleType DEF Idle
  <1>8. MailTypeOK'
    <2>1. outbox' \in [Job -> MailRow]
      BY <1>2, <1>5, <1>6 DEF MailTypeOK
    <2>2. worker' \in [Worker -> WorkerRow]
      BY <1>1, <1>7 DEF MailTypeOK
    <2> QED
      BY <1>1, <2>1, <2>2 DEF MailTypeOK, ControlTypeOK
  <1>9. SmtpInv'
    BY <1>1, <1>7, DroppingKeepsSmtp
  <1>10. CASE ~Fenced(w)
    <2>1. outbox' = outbox
      BY <1>5, <1>10
    <2>2. ClaimsInv'
      BY <1>1, <1>7, <2>1, DroppingKeepsClaims
    <2> QED
      BY <1>1, <1>8, <1>9, <2>1, <2>2, MessagesStand, LimitsStand
  <1>11. CASE Fenced(w)
    <2>1. /\ outbox[j].status = "leased" /\ outbox[j].owner = w /\ outbox[j].attempts = a
          /\ \A k \in Job : outbox'[k] = IF k = j THEN row ELSE outbox[k]
      BY <1>2, <1>5, <1>11 DEF Fenced, MailTypeOK
    <2>2. /\ worker'[w] = Idle /\ ~HoldsClaim(w)'
          /\ \A v \in Worker : v # w => worker'[v] = worker[v] /\ (HoldsClaim(v)' <=> HoldsClaim(v))
      BY <1>1, <1>7 DEF HoldsClaim, MailTypeOK
    <2>3. ClaimsInv'
      <3>1. ClaimsDiffer'
        BY <2>2 DEF ClaimsInv, ClaimsDiffer
      <3>2. ASSUME NEW v \in Worker PROVE worker'[v].started <= now' /\ ClaimFits(v)'
        <4>1. worker[v].started <= now /\ ClaimFits(v)
          BY DEF ClaimsInv
        <4>2. CASE v = w
          BY <1>1, <1>7, <2>2, <4>2 DEF ClaimFits
        <4>3. CASE v # w /\ ~HoldsClaim(v)
          BY <1>1, <2>2, <4>1, <4>3 DEF ClaimFits
        <4>4. CASE v # w /\ HoldsClaim(v) /\ worker[v].job # j
          <5>1. worker[v].job \in Job
            BY <4>1, <4>4 DEF ClaimFits
          <5>2. outbox'[worker[v].job] = outbox[worker[v].job] /\ worker'[v] = worker[v]
            BY <2>1, <2>2, <4>4, <5>1
          <5> QED
            BY <1>1, <4>1, <4>4, <5>2 DEF ClaimFits, HoldsClaim, InHand, LeaseDeadline
        <4>5. CASE v # w /\ HoldsClaim(v) /\ worker[v].job = j
          <5>1. worker[v].attempt # a /\ ~InHand(v)
            BY <1>2, <2>1, <4>5 DEF ClaimsInv, ClaimsDiffer, InHand
          <5>2. ~(worker[v].lease > now)
            BY <4>1, <4>5, <5>1 DEF ClaimFits
          <5>3. worker'[v] = worker[v] /\ outbox'[j] = row /\ row.attempts = a /\ row.status # "none"
            BY <1>2, <1>3, <1>6, <2>1, <2>2, <4>5
          <5> QED
            BY <1>1, <2>1, <4>1, <4>5, <5>1, <5>2, <5>3 DEF ClaimFits, HoldsClaim, LeaseDeadline
        <4> QED
          BY <4>2, <4>3, <4>4, <4>5
      <3> QED
        BY <3>1, <3>2 DEF ClaimsInv
    <2>4. MessagesInv'
      <3>1. \A l \in Login : Numbered(l)'
        BY <1>1 DEF MessagesInv, Numbered, IssuedUpTo
      <3>2. ASSUME NEW k \in Job PROVE MessageFits(k)'
        <4>1. MessageFits(k)
          BY DEF MessagesInv
        <4>2. CASE k # j
          BY <1>1, <2>1, <4>1, <4>2 DEF MessageFits
        <4>3. CASE k = j
          BY <1>1, <1>2, <1>3, <1>6, <2>1, <4>1, <4>3 DEF MessageFits
        <4> QED
          BY <4>2, <4>3
      <3> QED
        BY <3>1, <3>2 DEF MessagesInv
    <2>5. LimitsInv'
      <3>1. ASSUME NEW k \in Job
            PROVE  /\ outbox'[k].queued = outbox[k].queued
                   /\ outbox'[k].status = "none" <=> outbox[k].status = "none"
                   /\ outbox'[k].status \in ActiveMail => outbox[k].status \in ActiveMail
        BY <1>3, <1>6, <2>1 DEF ActiveMail
      <3> QED
        BY <3>1, SettlingKeepsLimits
    <2> QED
      BY <1>8, <1>9, <2>3, <2>4, <2>5
  <1> QED
    BY <1>10, <1>11

-----------------------------------------------------------------------------
(* Maintenance *)

\* A message that nobody is sending is given up.
LEMMA GivingUpKeepsMail ==
    ASSUME MailAssumption, MailInv, NEW j \in Job, NEW s \in GivenUp, NotInHand(j),
           outbox' = [outbox EXCEPT ![j] = Released(@, s)],
           UNCHANGED <<controlVars, login, challenge, smtp, worker, relay>>
    PROVE  MailInv'
  <1> USE DEF MailInv
  <1> DEFINE row == Released(outbox[j], s)
  <1>1. UNCHANGED <<now, owner>>
    BY DEF controlVars
  <1>2. /\ row \in MailRow /\ row.status = s /\ row.attempts = outbox[j].attempts
        /\ row.queued = outbox[j].queued /\ row.created = outbox[j].created
    <2>1. outbox[j] \in MailRow
      BY MessageType
    <2> QED
      BY <2>1 DEF Released, MailRow, GivenUp, SettledMail
  <1> HIDE DEF row
  <1>3. \A k \in Job : outbox'[k] = IF k = j THEN row ELSE outbox[k]
    BY DEF MailTypeOK, row
  <1>4. MailTypeOK'
    <2>1. outbox' = [outbox EXCEPT ![j] = row]
      BY DEF row, MailTypeOK
    <2>2. outbox' \in [Job -> MailRow]
      BY <1>2, <2>1 DEF MailTypeOK
    <2> QED
      BY <1>1, <2>2 DEF MailTypeOK, ControlTypeOK
  <1>5. GivesUp
    BY <1>2, <1>3 DEF GivesUp
  <1>6. ClaimsInv'
    BY <1>1, <1>5, GivingUpKeepsClaims
  <1>7. outbox[j].status \in ActiveMail
    BY DEF NotInHand, LeaseOver, ActiveMail
  <1>8. MessagesInv'
    <2>1. \A l \in Login : Numbered(l)'
      BY DEF MessagesInv, Numbered, IssuedUpTo
    <2>2. ASSUME NEW k \in Job PROVE MessageFits(k)'
      <3>1. MessageFits(k)
        BY DEF MessagesInv
      <3>2. CASE k # j
        BY <1>3, <3>1, <3>2 DEF MessageFits
      <3>3. CASE k = j
        BY <1>2, <1>3, <1>7, <3>1, <3>3 DEF MessageFits, GivenUp, ActiveMail, Waiting
      <3> QED
        BY <3>2, <3>3
    <2> QED
      BY <2>1, <2>2 DEF MessagesInv
  <1>9. LimitsInv'
    <2>1. ASSUME NEW k \in Job
          PROVE  /\ outbox'[k].queued = outbox[k].queued
                 /\ outbox'[k].status = "none" <=> outbox[k].status = "none"
                 /\ outbox'[k].status \in ActiveMail => outbox[k].status \in ActiveMail
      BY <1>2, <1>3, <1>7 DEF ActiveMail, Waiting, GivenUp
    <2> QED
      BY <2>1, SettlingKeepsLimits
  <1> QED
    BY <1>1, <1>4, <1>6, <1>8, <1>9, SmtpStand

\* A challenge takes another status; nothing else of it changes.
LEMMA EndingChallengeKeepsMail ==
    ASSUME MailAssumption, MailInv, NEW j \in Job,
           challenge[j].status # "none",
           NEW s \in {"exhausted", "expired", "consumed"},
           challenge' = [challenge EXCEPT ![j].status = s],
           login' \in [Login -> LoginRow],
           \A l \in Login : /\ login'[l].status = "none" <=> login[l].status = "none"
                            /\ login'[l].smtp = login[l].smtp,
           UNCHANGED <<controlVars, outbox, smtp, worker, relay>>
    PROVE  MailInv'
  <1> USE DEF MailInv
  <1>1. UNCHANGED <<now, owner>>
    BY DEF controlVars
  <1>2. /\ challenge' \in [Job -> ChallengeRow]
        /\ \A k \in Job : /\ challenge'[k].status = "none" <=> challenge[k].status = "none"
                          /\ challenge'[k].expires = challenge[k].expires
    BY DEF MailTypeOK, ChallengeRow
  <1>3. MailTypeOK'
    BY <1>1, <1>2 DEF MailTypeOK, ControlTypeOK
  <1>4. MessagesInv'
    <2>1. \A l \in Login, g \in 1..MaxGenerations : <<l, g>> \in Job
      BY DEF Job
    <2>2. \A l \in Login : Numbered(l)'
      BY <1>2, <2>1 DEF MessagesInv, Numbered, IssuedUpTo
    <2>3. \A k \in Job : MessageFits(k)'
      BY <1>2, MessageType DEF MessagesInv, MessageFits
    <2> QED
      BY <2>2, <2>3 DEF MessagesInv
  <1>5. SmtpInv'
    <2>1. ASSUME NEW v \in Worker PROVE SmtpKept(v)'
      <3>1. SmtpKept(v)
        BY DEF SmtpInv
      <3>2. CASE worker[v].pc \in {"claimed", "connecting", "sent"}
        <4>1. worker[v].job \in Job
          BY <3>2 DEF ClaimsInv, ClaimFits, HoldsClaim
        <4>2. worker[v].job[1] \in Login
          BY <4>1, MessageType
        <4> QED
          BY <1>1, <1>2, <3>1, <4>1, <4>2 DEF SmtpKept, DispatchDeadline, UsefulUntil
      <3>3. CASE worker[v].pc \notin {"claimed", "connecting", "sent"}
        BY <3>3 DEF SmtpKept
      <3> QED
        BY <3>2, <3>3
    <2> QED
      BY <2>1 DEF SmtpInv
  <1> QED
    BY <1>1, <1>3, <1>4, <1>5, ClaimsStand, LimitsStand

-----------------------------------------------------------------------------
(* Logins and their generations *)

\* The messages of a login wait for nothing but the login: one that is new has none.
LEMMA StartLoginKeepsMail ==
    ASSUME MailAssumption, MailInv, NEW l \in Login, NEW c \in Smtp, NEW t \in ClockReading,
           StartLogin(l, c, t)
    PROVE  MailInv'
  <1> USE DEF MailInv
  <1> DEFINE row == [status |-> "entry", expires |-> t + LoginLifetime, smtp |-> c,
                     eligibility |-> smtp[c].eligibility,
                     snap |-> [o \in MailOwners |-> owner[o].revision]]
  <1>1. UNCHANGED <<now, owner, challenge, outbox, smtp, worker, relay>> /\ login[l].status = "none"
    BY DEF StartLogin, controlVars
  <1>2. login' = [login EXCEPT ![l] = row]
    BY DEF StartLogin
  <1>3. row \in LoginRow /\ row.status = "entry" /\ row.smtp = c
    <2>1. t + LoginLifetime \in Nat
      BY ClockReadingType, MailConstants DEF MailTypeOK
    <2>2. smtp[c].eligibility \in Nat
      BY DEF MailTypeOK, SmtpRow
    <2>3. \A o \in MailOwners : owner[o].revision \in Nat
      BY DEF MailTypeOK, ControlTypeOK, MailOwners, Owners, Revision
    <2>4. [o \in MailOwners |-> owner[o].revision] \in [MailOwners -> Nat]
      BY <2>3
    <2> QED
      BY <2>1, <2>2, <2>4 DEF LoginRow
  <1> HIDE DEF row
  <1>4. \A m \in Login : login'[m] = IF m = l THEN row ELSE login[m]
    BY <1>2 DEF MailTypeOK
  <1>5. MailTypeOK'
    BY <1>1, <1>2, <1>3 DEF MailTypeOK, ControlTypeOK
  <1>6. MessagesInv'
    <2>1. \A m \in Login : Numbered(m)'
      BY <1>1 DEF MessagesInv, Numbered, IssuedUpTo
    <2>2. ASSUME NEW j \in Job PROVE MessageFits(j)'
      <3>1. MessageFits(j) /\ j[1] \in Login
        BY MessageType DEF MessagesInv
      <3> QED
        BY <1>1, <1>3, <1>4, <3>1 DEF MessageFits
    <2> QED
      BY <2>1, <2>2 DEF MessagesInv
  <1>7. SmtpInv'
    <2>1. ASSUME NEW v \in Worker PROVE SmtpKept(v)'
      <3>1. SmtpKept(v)
        BY DEF SmtpInv
      <3>2. CASE worker[v].pc \in {"claimed", "connecting", "sent"}
        <4>1. worker[v].job \in Job /\ outbox[worker[v].job].status # "none"
          BY <3>2 DEF ClaimsInv, ClaimFits, HoldsClaim
        <4>2. worker[v].job[1] \in Login /\ login[worker[v].job[1]].status # "none"
          BY <4>1, MessageType DEF MessagesInv, MessageFits
        <4>3. login'[worker[v].job[1]] = login[worker[v].job[1]]
          BY <1>1, <1>4, <4>2
        <4> QED
          BY <1>1, <3>1, <4>3 DEF SmtpKept, DispatchDeadline, UsefulUntil
      <3>3. CASE worker[v].pc \notin {"claimed", "connecting", "sent"}
        BY <1>1, <3>3 DEF SmtpKept
      <3> QED
        BY <3>2, <3>3
    <2> QED
      BY <1>1, <2>1 DEF SmtpInv
  <1> QED
    BY <1>1, <1>5, <1>6, <1>7, ClaimsStand, LimitsStand

\* The number of a login's generations is the number of the last one.
LEMMA GenerationIsLast ==
    ASSUME MailAssumption, NEW l \in Login, NEW n \in 0..MaxGenerations, IssuedUpTo(l, n)
    PROVE  Generation(l) = n
  <1> DEFINE S == {g \in 1..MaxGenerations : challenge[<<l, g>>].status # "none"}
  <1>1. n \in Nat /\ n <= MaxGenerations
    BY MailConstants
  <1>2. S = 1..n
    BY <1>1, MailConstants DEF IssuedUpTo
  <1>3. Cardinality(1..n) = n
    BY <1>1, FS_Interval
  <1> HIDE DEF S
  <1>4. Cardinality(S) = n
    BY <1>2, <1>3
  <1> QED
    BY <1>4, Zenon DEF Generation, S

\* What others than workers do to messages: they add them, and give up those that are
\* not settled.
Administered ==
    \A k \in Job :
        \/ outbox'[k] = outbox[k]
        \/ /\ outbox[k].status = "none" /\ outbox[k].attempts = 0
           /\ outbox'[k].status = "pending" /\ outbox'[k].attempts = 0
        \/ /\ outbox[k].status \in ActiveMail /\ outbox'[k].status \in GivenUp
           /\ outbox'[k].attempts = outbox[k].attempts

\* A new generation: its row and its message are new, the earlier messages that nobody
\* is sending are cancelled, and the new one was admitted.
LEMMA CommitKeepsMail ==
    ASSUME MailAssumption, MailInv, NEW l \in Login, NEW issued \in ClockReading,
           NEW d \in ClockReading, CommitEmailGeneration(l, issued, d)
    PROVE  MailInv' /\ Administered
  <1> USE DEF MailInv
  <1> DEFINE g == Generation(l) + 1
             j == <<l, g>>
             earlier == {<<l, f>> : f \in 1..(g - 1)}
             expires == IF issued + ChallengeLifetime < login[l].expires
                        THEN issued + ChallengeLifetime ELSE login[l].expires
             cancelled == [k \in Job |->
                 IF k \in earlier /\ NotInHand(k)
                 THEN Released(outbox[k], "cancelled") ELSE outbox[k]]
             dispatch == AuthorizeMailDelivery(l, cancelled)
             new == [status |-> "pending", attempts |-> 0, owner |-> "none",
                     leaseExpires |-> 0, next |-> d, created |-> d, queued |-> now]
  <1>1. UNCHANGED <<now, owner, smtp, worker, relay>>
    BY DEF CommitEmailGeneration, controlVars
  <1>2. /\ login[l].status \in {"entry", "challenge"} /\ g <= MaxGenerations
        /\ login' = [login EXCEPT ![l].status = "challenge"]
        /\ challenge' = [k \in Job |->
             IF k = j THEN [status |-> IF dispatch THEN "pending" ELSE "delivery_unavailable",
                            issued |-> issued, expires |-> expires]
             ELSE IF k \in earlier /\ challenge[k].status \in {"pending", "delivery_unavailable"}
             THEN [challenge[k] EXCEPT !.status = "superseded"] ELSE challenge[k]]
        /\ outbox' = IF dispatch THEN [cancelled EXCEPT ![j] = new] ELSE cancelled
    BY DEF CommitEmailGeneration
  <1>3. PICK n \in 0..MaxGenerations : IssuedUpTo(l, n)
    BY DEF MessagesInv, Numbered
  <1>4. Generation(l) = n
    BY <1>3, GenerationIsLast
  <1>5. /\ now \in Nat /\ d \in Nat /\ issued \in Nat /\ d <= now /\ now <= d + MaxClockLag
        /\ n \in Nat /\ g = n + 1 /\ g \in 1..MaxGenerations /\ j \in Job
    <2>1. now \in Nat /\ d \in Nat /\ issued \in Nat /\ d <= now /\ now <= d + MaxClockLag
      BY ClockReadingType DEF MailTypeOK, ControlTypeOK
    <2>2. n \in Nat /\ g = n + 1 /\ g \in 1..MaxGenerations
      BY <1>2, <1>4, MailConstants
    <2> QED
      BY <2>1, <2>2 DEF Job
  <1>6. challenge[j].status = "none" /\ outbox[j].status = "none" /\ outbox[j].attempts = 0
        /\ relay[j] = {}
    <2>1. challenge[j].status = "none"
      BY <1>3, <1>5 DEF IssuedUpTo
    <2>2. outbox[j].status = "none" /\ outbox[j].attempts = 0
      BY <1>5, <2>1 DEF MessagesInv, MessageFits
    <2>3. relay[j] \subseteq 1..MaxAttempts /\ \A a \in relay[j] : a <= 0
      BY <1>5, <2>2, MessageType DEF MessagesInv, MessageFits
    <2> QED
      BY <2>1, <2>2, <2>3, MailConstants
  <1>7. \A k \in Job : NotInHand(k) => outbox[k].status \in ActiveMail
    BY DEF NotInHand, LeaseOver, ActiveMail
  <1>8. /\ new \in MailRow /\ new.status = "pending" /\ new.attempts = 0
        /\ new.queued = now /\ new.created = d
    BY <1>5, MailConstants DEF MailRow, ActiveMail, Waiting
  <1>9. \A k \in Job :
           LET row == Released(outbox[k], "cancelled")
           IN /\ row \in MailRow /\ row.status = "cancelled"
              /\ row.attempts = outbox[k].attempts /\ row.queued = outbox[k].queued
              /\ row.created = outbox[k].created
    BY MessageType DEF Released, MailRow, SettledMail
  <1>10. /\ cancelled \in [Job -> MailRow] /\ cancelled[j] = outbox[j]
         /\ \A k \in Job :
              /\ cancelled[k].queued = outbox[k].queued
              /\ cancelled[k].created = outbox[k].created
              /\ cancelled[k].attempts = outbox[k].attempts
              /\ \/ cancelled[k] = outbox[k]
                 \/ NotInHand(k) /\ outbox[k].status \in ActiveMail /\ cancelled[k].status = "cancelled"
    <2>1. ASSUME NEW k \in Job
          PROVE  /\ cancelled[k] \in MailRow
                 /\ cancelled[k].queued = outbox[k].queued
                 /\ cancelled[k].created = outbox[k].created
                 /\ cancelled[k].attempts = outbox[k].attempts
                 /\ \/ cancelled[k] = outbox[k]
                    \/ NotInHand(k) /\ outbox[k].status \in ActiveMail /\ cancelled[k].status = "cancelled"
      <3>1. CASE k \in earlier /\ NotInHand(k)
        BY <1>7, <1>9, <3>1
      <3>2. CASE ~(k \in earlier /\ NotInHand(k))
        BY <3>2, MessageType
      <3> QED
        BY <3>1, <3>2
    <2>2. ~NotInHand(j)
      BY <1>5, <1>6, <1>7 DEF ActiveMail, Waiting
    <2>3. cancelled[j] = outbox[j]
      BY <1>5, <2>2
    <2> QED
      BY <2>1, <2>3
  <1>11. dispatch => /\ Cardinality({k \in Job : cancelled[k].status \in ActiveMail}) < BacklogLimit
                     /\ ~RecipientWasRecentlyEnqueued(l)
    BY DEF AuthorizeMailDelivery
  <1>12. /\ challenge' \in [Job -> ChallengeRow] /\ challenge'[j].status # "none"
         /\ \A k \in Job : k # j =>
              /\ challenge'[k].status = "none" <=> challenge[k].status = "none"
              /\ challenge'[k].expires = challenge[k].expires
    <2>1. expires \in Nat
      BY <1>5, MailConstants DEF MailTypeOK, LoginRow
    <2> HIDE DEF dispatch, earlier, expires
    <2>2. \A k \in Job : challenge'[k] =
             IF k = j THEN [status |-> IF dispatch THEN "pending" ELSE "delivery_unavailable",
                            issued |-> issued, expires |-> expires]
             ELSE IF k \in earlier /\ challenge[k].status \in {"pending", "delivery_unavailable"}
             THEN [challenge[k] EXCEPT !.status = "superseded"] ELSE challenge[k]
      BY <1>2
    <2> HIDE DEF j
    <2>3. ASSUME NEW k \in Job
          PROVE  /\ challenge'[k] \in ChallengeRow
                 /\ k = j => challenge'[j].status # "none"
                 /\ k # j => /\ challenge'[k].status = "none" <=> challenge[k].status = "none"
                             /\ challenge'[k].expires = challenge[k].expires
      <3>1. challenge[k] \in ChallengeRow
        BY DEF MailTypeOK
      <3>2. CASE k = j
        <4> DEFINE s == IF dispatch THEN "pending" ELSE "delivery_unavailable"
        <4>1. s \in {"pending", "delivery_unavailable"}
          OBVIOUS
        <4>2. challenge'[k] = [status |-> s, issued |-> issued, expires |-> expires]
          BY <2>2, <3>2
        <4> HIDE DEF s
        <4>3. challenge'[k] \in ChallengeRow /\ challenge'[k].status = s
          BY <1>5, <2>1, <4>1, <4>2 DEF ChallengeRow
        <4> QED
          BY <3>2, <4>1, <4>3
      <3>3. CASE k # j
        <4>1. \/ challenge'[k] = challenge[k]
              \/ /\ challenge[k].status \in {"pending", "delivery_unavailable"}
                 /\ challenge'[k] = [challenge[k] EXCEPT !.status = "superseded"]
          BY <2>2, <3>3
        <4> QED
          BY <3>1, <3>3, <4>1 DEF ChallengeRow
      <3> QED
        BY <3>2, <3>3
    <2>4. DOMAIN challenge' = Job /\ challenge' = [k \in Job |-> challenge'[k]]
      BY <1>2
    <2> QED
      BY <1>5, <2>3, <2>4
  <1> HIDE DEF cancelled, dispatch, new, earlier, expires
  <1>13. \A k \in Job : outbox'[k] = IF k = j /\ dispatch THEN new ELSE cancelled[k]
    BY <1>2, <1>5, <1>10
  <1>14. MailTypeOK'
    <2>1. outbox' \in [Job -> MailRow]
      BY <1>2, <1>8, <1>10
    <2>2. login' \in [Login -> LoginRow]
      BY <1>2 DEF MailTypeOK, LoginRow
    <2> QED
      BY <1>1, <1>12, <2>1, <2>2 DEF MailTypeOK, ControlTypeOK
  <1>15. ClaimsInv'
    <2>1. GivesUp
      BY <1>6, <1>10, <1>13 DEF GivesUp, GivenUp
    <2> QED
      BY <1>1, <2>1, GivingUpKeepsClaims
  <1>16. \A m \in Login : /\ login'[m].smtp = login[m].smtp
                          /\ login'[m].status = IF m = l THEN "challenge" ELSE login[m].status
    BY <1>2 DEF MailTypeOK, LoginRow
  <1>17. MessagesInv'
    <2>1. ASSUME NEW m \in Login PROVE Numbered(m)'
      <3>1. \A f \in 1..MaxGenerations : <<m, f>> \in Job
        BY DEF Job
      <3>2. CASE m # l
        <4>1. \A f \in 1..MaxGenerations : <<m, f>> # j
          BY <3>2
        <4> QED
          BY <1>12, <3>1, <4>1 DEF MessagesInv, Numbered, IssuedUpTo
      <3>3. CASE m = l
        <4>1. \A f \in 1..MaxGenerations : <<m, f>> = j <=> f = g
          BY <3>3
        <4>2. \A f \in 1..MaxGenerations : challenge'[<<m, f>>].status # "none" <=> f <= g
          BY <1>3, <1>5, <1>12, <3>1, <3>3, <4>1 DEF IssuedUpTo
        <4>3. g \in 0..MaxGenerations
          BY <1>5, MailConstants
        <4> QED
          BY <4>2, <4>3 DEF Numbered, IssuedUpTo
      <3> QED
        BY <3>2, <3>3
    <2>2. ASSUME NEW k \in Job PROVE MessageFits(k)'
      <3>1. MessageFits(k) /\ k[1] \in Login
        BY MessageType DEF MessagesInv
      <3>2. login'[k[1]].smtp = login[k[1]].smtp /\ (login'[k[1]].status = "none" <=> login[k[1]].status = "none")
        BY <1>2, <1>16, <3>1
      <3>3. CASE k # j
        <4>1. \/ outbox'[k] = outbox[k]
              \/ outbox'[k].status = "cancelled" /\ outbox[k].status \in ActiveMail
          BY <1>10, <1>13, <3>3
        <4>2. outbox'[k].queued = outbox[k].queued /\ outbox'[k].created = outbox[k].created
              /\ outbox'[k].attempts = outbox[k].attempts
          BY <1>10, <1>13, <3>3
        <4>3. challenge'[k].status = "none" <=> challenge[k].status = "none"
          BY <1>12, <3>3
        <4>4. "none" \notin ActiveMail
          BY DEF ActiveMail, Waiting
        <4> QED
          BY <1>1, <3>1, <3>2, <4>1, <4>2, <4>3, <4>4 DEF MessageFits
      <3>4. CASE k = j
        <4>1. k[1] = l /\ login[l].status # "none"
          BY <1>2, <3>4
        <4>2. CASE dispatch
          BY <1>1, <1>5, <1>6, <1>8, <1>12, <1>13, <3>1, <3>2, <3>4, <4>1, <4>2 DEF MessageFits
        <4>3. CASE ~dispatch
          BY <1>1, <1>5, <1>6, <1>10, <1>12, <1>13, <3>1, <3>2, <3>4, <4>1, <4>3 DEF MessageFits
        <4> QED
          BY <4>2, <4>3
      <3> QED
        BY <3>3, <3>4
    <2> QED
      BY <2>1, <2>2 DEF MessagesInv
  <1>18. SmtpInv'
    <2>1. ASSUME NEW v \in Worker PROVE SmtpKept(v)'
      <3>1. SmtpKept(v)
        BY DEF SmtpInv
      <3>2. CASE worker[v].pc \in {"claimed", "connecting", "sent"}
        <4>1. worker[v].job \in Job /\ outbox[worker[v].job].status # "none"
          BY <3>2 DEF ClaimsInv, ClaimFits, HoldsClaim
        <4>2. worker[v].job # j /\ worker[v].job[1] \in Login
          BY <1>6, <4>1, MessageType
        <4> QED
          BY <1>1, <1>12, <1>16, <3>1, <4>1, <4>2 DEF SmtpKept, DispatchDeadline, UsefulUntil
      <3>3. CASE worker[v].pc \notin {"claimed", "connecting", "sent"}
        BY <1>1, <3>3 DEF SmtpKept
      <3> QED
        BY <3>2, <3>3
    <2> QED
      BY <1>1, <2>1 DEF SmtpInv
  <1>19. RecipientSpacing'
    <2>1. SUFFICES ASSUME NEW x \in Job, NEW y \in Job, x # y,
                          RecipientOf[x[1]] = RecipientOf[y[1]],
                          outbox'[x].status # "none", outbox'[y].status # "none"
                   PROVE  \/ outbox'[x].queued + ResendAfter <= outbox'[y].queued + MaxClockLag
                          \/ outbox'[y].queued + ResendAfter <= outbox'[x].queued + MaxClockLag
      BY DEF RecipientSpacing
    <2>2. \A k \in Job : k # j => /\ outbox'[k].queued = outbox[k].queued
                                  /\ outbox'[k].status # "none" => outbox[k].status # "none"
      BY <1>10, <1>13 DEF ActiveMail, Waiting
    <2>3. CASE x # j /\ y # j
      BY <2>1, <2>2, <2>3 DEF LimitsInv, RecipientSpacing
    <2>4. ASSUME NEW k \in Job, k # j, RecipientOf[k[1]] = RecipientOf[l],
                 outbox'[k].status # "none", outbox'[j].status # "none"
          PROVE  outbox'[k].queued + ResendAfter <= outbox'[j].queued + MaxClockLag
      <3>1. dispatch
        BY <1>5, <1>6, <1>10, <1>13, <2>4
      <3>2. ~(outbox[k].created + ResendAfter > now)
        BY <1>11, <2>2, <2>4, <3>1 DEF RecipientWasRecentlyEnqueued
      <3>3. outbox[k].queued <= outbox[k].created + MaxClockLag
        BY DEF MessagesInv, MessageFits
      <3>4. outbox'[k].queued = outbox[k].queued /\ outbox'[j].queued = now
        BY <1>5, <1>8, <1>13, <2>2, <2>4, <3>1
      <3>5. outbox[k].queued \in Nat /\ outbox[k].created \in Nat
        BY MessageType
      <3> QED
        BY <1>5, <3>2, <3>3, <3>4, <3>5, MailConstants
    <2>5. j[1] = l
      OBVIOUS
    <2> QED
      BY <2>1, <2>3, <2>4, <2>5
  <1>20. BacklogBounded'
    <2> DEFINE S == {k \in Job : cancelled[k].status \in ActiveMail}
               A == {k \in Job : outbox[k].status \in ActiveMail}
               T == {k \in Job : outbox'[k].status \in ActiveMail}
    <2>1. S \subseteq Job /\ A \subseteq Job /\ T \subseteq Job
      OBVIOUS
    <2>2. S \subseteq A
      <3>1. "cancelled" \notin ActiveMail
        BY DEF ActiveMail, Waiting
      <3> QED
        BY <1>10, <3>1
    <2>3. dispatch => T \subseteq S \cup {j}
      BY <1>13
    <2>4. ~dispatch => T = S
      BY <1>13
    <2>5. Cardinality(A) <= BacklogLimit
      BY DEF LimitsInv, BacklogBounded
    <2>6. dispatch => Cardinality(S) < BacklogLimit
      BY <1>11
    <2> HIDE DEF S, A, T
    <2>7. IsFiniteSet(S) /\ IsFiniteSet(A) /\ IsFiniteSet(T)
      BY <2>1, JobsFinite, FS_Subset
    <2>8. Cardinality(S) \in Nat /\ Cardinality(A) \in Nat /\ Cardinality(T) \in Nat
          /\ Cardinality(S) <= Cardinality(A)
      BY <2>2, <2>7, FS_Subset, FS_CardinalityType
    <2>9. IsFiniteSet(S \cup {j}) /\ Cardinality(S \cup {j}) \in Nat
          /\ Cardinality(S \cup {j}) <= Cardinality(S) + 1
      <3>1. IsFiniteSet(S \cup {j})
            /\ Cardinality(S \cup {j}) = IF j \in S THEN Cardinality(S) ELSE Cardinality(S) + 1
        BY <2>7, FS_AddElement
      <3> QED
        BY <2>8, <3>1
    <2>10. CASE dispatch
      <3>1. Cardinality(T) <= Cardinality(S \cup {j})
        BY <2>3, <2>9, <2>10, FS_Subset
      <3>2. Cardinality(T) <= BacklogLimit
        BY <2>6, <2>8, <2>9, <2>10, <3>1, MailConstants
      <3> QED
        BY <3>2, Zenon DEF BacklogBounded, T
    <2>11. CASE ~dispatch
      <3>1. Cardinality(T) <= BacklogLimit
        BY <2>4, <2>5, <2>8, <2>11, MailConstants
      <3> QED
        BY <3>1, Zenon DEF BacklogBounded, T
    <2> QED
      BY <2>10, <2>11
  <1>21. Administered
    BY <1>5, <1>6, <1>8, <1>10, <1>13 DEF Administered, GivenUp
  <1> QED
    BY <1>14, <1>15, <1>17, <1>18, <1>19, <1>20, <1>21 DEF LimitsInv

\* The end of a login, with or without the proof that consumes its challenge.
LEMMA EndLoginKeepsMail ==
    ASSUME MailAssumption, MailInv, NEW l \in Login, EndLogin(l)
    PROVE  MailInv'
  <1>1. /\ UNCHANGED <<controlVars, outbox, smtp, worker, relay>>
        /\ login' = [login EXCEPT ![l].status = "over"] /\ login[l].status # "none"
    BY DEF EndLogin
  <1>2. /\ login' \in [Login -> LoginRow]
        /\ \A m \in Login : /\ login'[m].status = "none" <=> login[m].status = "none"
                            /\ login'[m].smtp = login[m].smtp
    BY <1>1 DEF MailInv, MailTypeOK, LoginRow
  <1>3. CASE UNCHANGED challenge
    <2>1. UNCHANGED <<now, owner>>
      BY <1>1 DEF controlVars
    <2>2. MailTypeOK'
      BY <1>1, <1>2, <1>3, <2>1 DEF MailInv, MailTypeOK, ControlTypeOK
    <2>3. MessagesInv'
      <3>1. \A m \in Login : Numbered(m)'
        BY <1>3 DEF MailInv, MessagesInv, Numbered, IssuedUpTo
      <3>2. ASSUME NEW k \in Job PROVE MessageFits(k)'
        <4>1. MessageFits(k) /\ k[1] \in Login
          BY MessageType DEF MailInv, MessagesInv
        <4> QED
          BY <1>1, <1>2, <1>3, <4>1 DEF MessageFits
      <3> QED
        BY <3>1, <3>2 DEF MessagesInv
    <2>4. SmtpInv'
      <3>1. ASSUME NEW v \in Worker PROVE SmtpKept(v)'
        <4>1. SmtpKept(v)
          BY DEF MailInv, SmtpInv
        <4>2. CASE worker[v].pc \in {"claimed", "connecting", "sent"}
          <5>1. worker[v].job \in Job
            BY <4>2 DEF MailInv, ClaimsInv, ClaimFits, HoldsClaim
          <5>2. worker[v].job[1] \in Login
            BY <5>1, MessageType DEF MailInv
          <5> QED
            BY <1>1, <1>2, <1>3, <2>1, <4>1, <5>2 DEF SmtpKept, DispatchDeadline, UsefulUntil
        <4>3. CASE worker[v].pc \notin {"claimed", "connecting", "sent"}
          BY <1>1, <4>3 DEF SmtpKept
        <4> QED
          BY <4>2, <4>3
      <3> QED
        BY <1>1, <3>1 DEF MailInv, SmtpInv
    <2> QED
      BY <1>1, <2>1, <2>2, <2>3, <2>4, ClaimsStand, LimitsStand DEF MailInv
  <1>4. ASSUME NEW g \in 1..MaxGenerations, challenge[<<l, g>>].status = "pending",
               challenge' = [challenge EXCEPT ![<<l, g>>].status = "consumed"]
        PROVE  MailInv'
    <2>1. <<l, g>> \in Job
      BY DEF Job
    <2> QED
      BY <1>1, <1>2, <1>4, <2>1, EndingChallengeKeepsMail
  <1> QED
    BY <1>3, <1>4 DEF EndLogin

LEMMA LoginStepKeepsMail ==
    ASSUME MailAssumption, MailInv, LoginStep
    PROVE  MailInv'
  <1>1. ASSUME NEW j \in Job, ExhaustChallenge(j) PROVE MailInv'
    <2>1. login \in [Login -> LoginRow]
      BY DEF MailInv, MailTypeOK
    <2> QED
      BY <1>1, <2>1, EndingChallengeKeepsMail DEF ExhaustChallenge
  <1> QED
    BY <1>1, StartLoginKeepsMail, CommitKeepsMail, EndLoginKeepsMail DEF LoginStep

LEMMA WorkerStepKeepsMail ==
    ASSUME MailAssumption, MailInv, WorkerStep
    PROVE  MailInv'
  BY RoundsKeepMail, WorkerStepsKeepMail, SendBodyKeepsMail, ClaimKeepsMail, FinishKeepsMail
  DEF WorkerStep

LEMMA MaintenanceKeepsMail ==
    ASSUME MailAssumption, MailInv, MaintainShortTermData
    PROVE  MailInv'
  <1>1. ASSUME NEW j \in Job, FailExhaustedMail(j) PROVE MailInv'
    BY <1>1, GivingUpKeepsMail DEF FailExhaustedMail, GivenUp
  <1>2. ASSUME NEW j \in Job, NEW t \in ClockReading, ExpireMail(j, t) PROVE MailInv'
    BY <1>2, GivingUpKeepsMail DEF ExpireMail, GivenUp
  <1>3. ASSUME NEW j \in Job, NEW t \in ClockReading, ExpireChallenge(j, t) PROVE MailInv'
    <2>1. login \in [Login -> LoginRow]
      BY DEF MailInv, MailTypeOK
    <2> QED
      BY <1>3, <2>1, EndingChallengeKeepsMail DEF ExpireChallenge
  <1> QED
    BY <1>1, <1>2, <1>3 DEF MaintainShortTermData

-----------------------------------------------------------------------------
(* SMTP configurations *)

\* A step on the configurations alone is safe when it retires none that is needed.
LEMMA SmtpRowsKeepMail ==
    ASSUME MailInv, smtp' \in [Smtp -> SmtpRow],
           \A c \in Smtp : smtp'[c].cleanup # "none" => smtp'[c].status = "retired",
           \A w \in Worker :
               /\ worker[w].pc \in {"claimed", "connecting", "sent"}
               /\ now < DispatchDeadline(w) /\ now < UsefulUntil(worker[w].job)
               => smtp'[login[worker[w].job[1]].smtp].status # "retired",
           UNCHANGED <<controlVars, login, challenge, outbox, worker, relay>>
    PROVE  MailInv'
  <1>1. UNCHANGED <<now, owner>>
    BY DEF controlVars
  <1>2. MailTypeOK'
    BY <1>1 DEF MailInv, MailTypeOK, ControlTypeOK
  <1>3. SmtpInv'
    <2>1. ASSUME NEW w \in Worker PROVE SmtpKept(w)'
      BY <1>1 DEF SmtpKept, DispatchDeadline, UsefulUntil
    <2> QED
      BY <2>1 DEF MailInv, SmtpInv
  <1> QED
    BY <1>1, <1>2, <1>3, ClaimsStand, MessagesStand, LimitsStand DEF MailInv

\* A worker that can still send has its message in hand, of a login whose
\* configuration is not retired.
LEMMA SendingIsInHand ==
    ASSUME MailAssumption, MailInv, NEW w \in Worker, HoldsClaim(w), now < DispatchDeadline(w)
    PROVE  /\ InHand(w) /\ worker[w].lease > now
           /\ worker[w].job \in Job /\ worker[w].job[1] \in Login
           /\ login[worker[w].job[1]].smtp \in Smtp
  <1>1. ClaimFits(w) /\ now \in Nat /\ worker[w].started \in Nat /\ worker[w].lease \in Nat
    BY WorkerType DEF MailInv, ClaimsInv, MailTypeOK, ControlTypeOK
  <1>2. worker[w].lease > now
    BY <1>1, MailConstants DEF ClaimFits, LeaseDeadline, DispatchDeadline
  <1>3. InHand(w) /\ worker[w].job \in Job /\ outbox[worker[w].job].status # "none"
    BY <1>1, <1>2 DEF ClaimFits
  <1> QED
    BY <1>2, <1>3, MessageType DEF MailInv, MessagesInv, MessageFits

LEMMA SmtpStepKeepsMail ==
    ASSUME MailAssumption, MailInv, SmtpStep
    PROVE  MailInv'
  <1> USE DEF MailInv
  <1>0. SmtpVolatile \subseteq Smtp /\ smtp \in [Smtp -> SmtpRow] /\ now \in Nat
    BY MailConstants DEF MailTypeOK, ControlTypeOK
  <1> DEFINE Sending(w) == /\ worker[w].pc \in {"claimed", "connecting", "sent"}
                           /\ now < DispatchDeadline(w) /\ now < UsefulUntil(worker[w].job)
  <1>1. ASSUME NEW w \in Worker, Sending(w)
        PROVE  /\ InHand(w) /\ worker[w].job \in Job /\ worker[w].job[1] \in Login
               /\ login[worker[w].job[1]].smtp \in Smtp
               /\ smtp[login[worker[w].job[1]].smtp].status # "retired"
    <2>1. HoldsClaim(w)
      BY <1>1 DEF HoldsClaim
    <2>2. SmtpKept(w)
      BY DEF SmtpInv
    <2> QED
      BY <1>1, <2>1, <2>2, SendingIsInHand DEF SmtpKept
  <1>2. ASSUME NEW c \in Smtp, TerminateSmtpConfiguration(c) PROVE MailInv'
    <2>1. smtp' \in [Smtp -> SmtpRow]
      BY <1>0, <1>2 DEF TerminateSmtpConfiguration, SmtpRow
    <2>2. \A d \in Smtp : /\ smtp'[d].cleanup = smtp[d].cleanup
                          /\ d # c => smtp'[d].status = smtp[d].status
                          /\ smtp'[c].status = "disabled"
      BY <1>0, <1>2 DEF TerminateSmtpConfiguration, SmtpRow
    <2>3. smtp[c].cleanup = "none"
      BY <1>2 DEF TerminateSmtpConfiguration, SmtpInv
    <2>4. \A d \in Smtp : smtp'[d].cleanup # "none" => smtp'[d].status = "retired"
      BY <2>2, <2>3 DEF SmtpInv
    <2>5. \A w \in Worker : Sending(w) => smtp'[login[worker[w].job[1]].smtp].status # "retired"
      BY <1>1, <2>2
    <2> QED
      BY <1>2, <2>1, <2>4, <2>5, SmtpRowsKeepMail DEF TerminateSmtpConfiguration
  <1>3. ASSUME NEW c \in Smtp, NEW t \in ClockReading, ActivateSmtpConfiguration(c, t) PROVE MailInv'
    <2>1. t + SmtpRetention \in Nat
      BY ClockReadingType, MailConstants DEF MailTypeOK
    <2>2. ASSUME NEW d \in Smtp
          PROVE  /\ smtp'[d] \in SmtpRow /\ smtp'[d].cleanup = smtp[d].cleanup
                 /\ \/ smtp'[d] = smtp[d]
                    \/ smtp[d].status \in {"pending", "active"} /\ smtp'[d].status \in {"active", "retained"}
      <3>1. smtp[d] \in SmtpRow
        BY <1>0
      <3>2. \/ smtp'[d] = smtp[d]
            \/ smtp[d].status = "pending" /\ smtp'[d] = [smtp[d] EXCEPT !.status = "active"]
            \/ smtp[d].status = "active" /\
               smtp'[d] = [smtp[d] EXCEPT !.status = "retained", !.retainedUntil = t + SmtpRetention]
        <4>1. smtp'[d] =
                 IF d = c THEN [smtp[d] EXCEPT !.status = "active"]
                 ELSE IF smtp[d].status = "active"
                 THEN [smtp[d] EXCEPT !.status = "retained", !.retainedUntil = t + SmtpRetention]
                 ELSE smtp[d]
          BY <1>3 DEF ActivateSmtpConfiguration
        <4>2. smtp[c].status = "pending"
          BY <1>3 DEF ActivateSmtpConfiguration
        <4>3. CASE d = c
          BY <4>1, <4>2, <4>3
        <4>4. CASE d # c /\ smtp[d].status = "active"
          BY <4>1, <4>4
        <4>5. CASE d # c /\ smtp[d].status # "active"
          BY <4>1, <4>5
        <4> QED
          BY <4>3, <4>4, <4>5
      <3> QED
        BY <2>1, <3>1, <3>2 DEF SmtpRow
    <2>3. smtp' \in [Smtp -> SmtpRow]
      <3>1. smtp' = [d \in Smtp |-> smtp'[d]]
        BY <1>3 DEF ActivateSmtpConfiguration
      <3> QED
        BY <2>2, <3>1
    <2>4. \A d \in Smtp : smtp'[d].cleanup # "none" => smtp'[d].status = "retired"
      BY <2>2 DEF SmtpInv
    <2>5. \A w \in Worker : Sending(w) => smtp'[login[worker[w].job[1]].smtp].status # "retired"
      BY <1>1, <2>2
    <2> QED
      BY <1>3, <2>3, <2>4, <2>5, SmtpRowsKeepMail DEF ActivateSmtpConfiguration
  <1>4. ASSUME NEW c \in Smtp, NEW t \in ClockReading, RetireSmtpConfiguration(c, t) PROVE MailInv'
    <2>1. smtp' \in [Smtp -> SmtpRow]
      BY <1>0, <1>4 DEF RetireSmtpConfiguration, SmtpRow
    <2>2. smtp'[c].status = "retired" /\ \A d \in Smtp : d # c => smtp'[d] = smtp[d]
      BY <1>0, <1>4 DEF RetireSmtpConfiguration, SmtpRow
    <2>3. \A d \in Smtp : smtp'[d].cleanup # "none" => smtp'[d].status = "retired"
      BY <2>2 DEF SmtpInv
    <2>4. ASSUME NEW w \in Worker, Sending(w) PROVE login[worker[w].job[1]].smtp # c
      <3>1. SUFFICES ASSUME login[worker[w].job[1]].smtp = c PROVE FALSE
        OBVIOUS
      <3> DEFINE j == worker[w].job
      <3>2. /\ j \in Job /\ outbox[j].status = "leased" /\ challenge[j].expires > now
            /\ challenge[j].expires \in Nat /\ j = <<j[1], j[2]>>
            /\ j[1] \in Login /\ j[2] \in 1..MaxGenerations
        BY <1>0, <1>1, <2>4, MessageType DEF InHand, UsefulUntil
      <3>3. t \in Nat /\ t <= now
        BY ClockReadingType DEF MailTypeOK
      <3>4. challenge[<<j[1], j[2]>>].expires > t /\ outbox[<<j[1], j[2]>>].status \in ActiveMail
        BY <1>0, <3>2, <3>3 DEF ActiveMail
      <3>5. SmtpNeeded(c, t)
        BY <3>1, <3>2, <3>4 DEF SmtpNeeded
      <3> QED
        BY <1>4, <3>5 DEF RetireSmtpConfiguration
    <2>5. \A w \in Worker : Sending(w) => smtp'[login[worker[w].job[1]].smtp].status # "retired"
      BY <1>1, <2>2, <2>4
    <2> QED
      BY <1>4, <2>1, <2>3, <2>5, SmtpRowsKeepMail DEF RetireSmtpConfiguration
  <1>5. ASSUME NEW w \in Worker, NEW c \in Smtp, NEW t \in ClockReading,
               ClaimSmtpCredentialCleanup(w, c, t)
        PROVE  MailInv'
    <2> DEFINE r == [Idle EXCEPT !.pc = "cleaning", !.smtp = c]
    <2>1. UNCHANGED <<now, owner, login, challenge, outbox, relay>>
      BY <1>5 DEF ClaimSmtpCredentialCleanup, controlVars
    <2>2. r \in WorkerRow /\ r.pc = "cleaning" /\ r.smtp = c /\ r.started <= now
      <3>1. Idle \in WorkerRow
        BY IdleType
      <3>2. r \in WorkerRow
        BY <3>1 DEF WorkerRow, WorkerPc
      <3>3. r.pc = "cleaning" /\ r.smtp = c /\ r.started = 0
        BY DEF Idle
      <3> QED
        BY <1>0, <3>2, <3>3
    <2>3. worker' = [worker EXCEPT ![w] = r]
      BY <1>5 DEF ClaimSmtpCredentialCleanup
    <2> HIDE DEF r
    <2>4. t + ClaimLease \in Nat
      BY ClockReadingType, MailConstants DEF MailTypeOK
    <2>5. smtp' \in [Smtp -> SmtpRow]
      <3> DEFINE row == [smtp[c] EXCEPT !.cleanup = "leased", !.cleaner = w,
                                        !.cleanupExpires = t + ClaimLease]
      <3>1. row \in SmtpRow
        <4>1. smtp[c] \in SmtpRow
          BY <1>0
        <4> QED
          BY <2>4, <4>1 DEF SmtpRow
      <3>2. smtp' = [smtp EXCEPT ![c] = row]
        BY <1>0, <1>5 DEF ClaimSmtpCredentialCleanup
      <3> HIDE DEF row
      <3> QED
        BY <1>0, <3>1, <3>2
    <2>6. \A d \in Smtp : smtp'[d].status = smtp[d].status /\ (smtp'[d].cleanup # "none" => smtp[d].cleanup # "none")
      BY <1>0, <1>5 DEF ClaimSmtpCredentialCleanup, SmtpRow
    <2>7. MailTypeOK'
      BY <2>1, <2>2, <2>3, <2>5 DEF MailTypeOK, ControlTypeOK
    <2>8. ClaimsInv'
      BY <2>1, <2>2, <2>3, DroppingKeepsClaims
    <2>9. SmtpInv'
      <3>1. \A v \in Worker : worker'[v] = IF v = w THEN r ELSE worker[v]
        BY <2>3 DEF MailTypeOK
      <3>2. ASSUME NEW v \in Worker PROVE SmtpKept(v)'
        <4>1. CASE v = w
          BY <2>2, <3>1, <4>1 DEF SmtpKept
        <4>2. CASE v # w
          <5>1. SUFFICES ASSUME Sending(v)' PROVE smtp'[login'[worker'[v].job[1]].smtp].status # "retired"
            BY DEF SmtpKept
          <5>2. Sending(v)
            BY <2>1, <3>1, <4>2, <5>1 DEF DispatchDeadline, UsefulUntil
          <5> QED
            BY <1>1, <2>1, <2>6, <3>1, <4>2, <5>2
        <4> QED
          BY <4>1, <4>2
      <3> QED
        BY <2>2, <2>6, <3>1, <3>2 DEF SmtpInv
    <2> QED
      BY <2>1, <2>7, <2>8, <2>9, MessagesStand, LimitsStand
  <1>6. ASSUME NEW w \in Worker, FinishSmtpCredentialCleanup(w) PROVE MailInv'
    <2>1. UNCHANGED <<now, owner, login, challenge, outbox, relay>>
      BY <1>6 DEF FinishSmtpCredentialCleanup, controlVars
    <2>2. Idle \in WorkerRow /\ Idle.pc = "idle" /\ Idle.started <= now
      BY <1>0, IdleType DEF Idle
    <2>3. worker' = [worker EXCEPT ![w] = Idle]
      BY <1>6 DEF FinishSmtpCredentialCleanup
    <2>4. worker[w].smtp \in Smtp
      BY <1>6 DEF FinishSmtpCredentialCleanup, SmtpInv
    <2>5. smtp' \in [Smtp -> SmtpRow]
      BY <1>0, <1>6, <2>4 DEF FinishSmtpCredentialCleanup, SmtpRow
    <2>6. \A d \in Smtp : smtp'[d].status = smtp[d].status /\ (smtp'[d].cleanup # "none" => smtp[d].cleanup # "none")
      BY <1>0, <1>6, <2>4 DEF FinishSmtpCredentialCleanup, SmtpRow
    <2>7. MailTypeOK'
      BY <2>1, <2>2, <2>3, <2>5 DEF MailTypeOK, ControlTypeOK
    <2>8. ClaimsInv'
      BY <2>1, <2>2, <2>3, DroppingKeepsClaims
    <2>9. SmtpInv'
      <3>1. \A v \in Worker : worker'[v] = IF v = w THEN Idle ELSE worker[v]
        BY <2>3 DEF MailTypeOK
      <3>2. ASSUME NEW v \in Worker PROVE SmtpKept(v)'
        <4>1. CASE v = w
          BY <2>2, <3>1, <4>1 DEF SmtpKept
        <4>2. CASE v # w
          <5>1. SUFFICES ASSUME Sending(v)' PROVE smtp'[login'[worker'[v].job[1]].smtp].status # "retired"
            BY DEF SmtpKept
          <5>2. Sending(v)
            BY <2>1, <3>1, <4>2, <5>1 DEF DispatchDeadline, UsefulUntil
          <5> QED
            BY <1>1, <2>1, <2>6, <3>1, <4>2, <5>2
        <4> QED
          BY <4>1, <4>2
      <3> QED
        BY <2>2, <2>6, <3>1, <3>2 DEF SmtpInv
    <2> QED
      BY <2>1, <2>7, <2>8, <2>9, MessagesStand, LimitsStand
  <1> QED
    BY <1>0, <1>2, <1>3, <1>4, <1>5, <1>6 DEF SmtpStep

-----------------------------------------------------------------------------
(* What holds of every behaviour *)

LEMMA MailStepKeeps == ASSUME MailAssumption PROVE MailInv /\ [MailNext]_allVars => MailInv'
  <1> SUFFICES ASSUME MailInv, [MailNext]_allVars PROVE MailInv'
    OBVIOUS
  <1>1. CASE UNCHANGED allVars
    <2>1. UNCHANGED <<now, owner, login, challenge, outbox, smtp, worker, relay>>
      BY <1>1 DEF allVars, mailVars, controlVars
    <2>2. MailTypeOK'
      BY <2>1 DEF MailInv, MailTypeOK, ControlTypeOK
    <2> QED
      BY <2>1, <2>2, ClaimsStand, MessagesStand, SmtpStand, LimitsStand DEF MailInv
  <1> QED
    BY <1>1, LoginStepKeepsMail, WorkerStepKeepsMail, MaintenanceKeepsMail, SmtpStepKeepsMail,
       ControlKeepsMail
    DEF MailNext

\* The outbox, the workers' memory, the relay and the SMTP configurations stay in
\* agreement, however the workers, the maintenance and the operators interleave.
THEOREM MailInvariant ==
    ASSUME MailAssumption
    PROVE  MailSpec => []MailInv
  <1>1. MailInit => MailInv
    BY MailInitEstablishes
  <1>2. MailInv /\ [MailNext]_allVars => MailInv'
    BY MailStepKeeps
  <1> QED
    BY <1>1, <1>2, PTL DEF MailSpec

\* submit, finish_mail_attempt, authorize_mail_delivery, claim_smtp_credential_cleanup:
\* what the outbox records is what happened, recipients and Projects keep their limits,
\* and no credential is erased under the hands of a worker that can still send, unless
\* its Project is deleted.
THEOREM MailIsSafe ==
    ASSUME MailAssumption
    PROVE  MailSpec => []MailSafe
  <1>1. MailInv => MailSafe
    <2> SUFFICES ASSUME MailInv PROVE MailSafe
      OBVIOUS
    <2>1. RecordedMeansHappened
      BY DEF MailInv, MessagesInv, MessageFits, RecordedMeansHappened
    <2>2. CredentialOutlivesMail
      <3>1. SUFFICES ASSUME NEW w \in Worker, worker[w].pc \in {"claimed", "connecting", "sent"},
                            now < DispatchDeadline(w), now < UsefulUntil(worker[w].job)
                     PROVE  smtp[login[worker[w].job[1]].smtp].cleanup # "erased"
        BY DEF CredentialOutlivesMail, CredentialErased
      <3>2. HoldsClaim(w)
        BY <3>1 DEF HoldsClaim
      <3>3. login[worker[w].job[1]].smtp \in Smtp
        BY <3>1, <3>2, SendingIsInHand
      <3> QED
        BY <3>1, <3>3 DEF MailInv, SmtpInv, SmtpKept
    <2> QED
      BY <2>1, <2>2 DEF MailInv, LimitsInv, MailSafe
  <1> QED
    BY <1>1, MailInvariant, PTL

-----------------------------------------------------------------------------
(* The outbox implements leased work *)

ClaimOf(w) == IF HoldsClaim(w) THEN <<worker[w].job, worker[w].attempt>> ELSE <<>>
ItemOf(j) == [state |-> ItemState(j), term |-> outbox[j].attempts]

LEMMA ItemStateOf ==
    ASSUME NEW j \in Job
    PROVE  /\ outbox[j].status = "none" => ItemState(j) = "absent"
           /\ outbox[j].status \in Waiting => ItemState(j) = "open"
           /\ outbox[j].status = "leased" => ItemState(j) = "held"
           /\ outbox[j].status \in SettledMail => ItemState(j) = "done"
  BY DEF ItemState, Waiting, SettledMail

LEMMA ItemStateAfter ==
    ASSUME NEW j \in Job
    PROVE  /\ outbox'[j].status = "none" => ItemState(j)' = "absent"
           /\ outbox'[j].status \in Waiting => ItemState(j)' = "open"
           /\ outbox'[j].status = "leased" => ItemState(j)' = "held"
           /\ outbox'[j].status \in SettledMail => ItemState(j)' = "done"
  BY DEF ItemState, Waiting, SettledMail

LEMMA ItemSame ==
    ASSUME NEW j \in Job, outbox'[j] = outbox[j]
    PROVE  ItemOf(j)' = ItemOf(j)
  BY DEF ItemOf, ItemState

LEMMA ItemsStand == UNCHANGED outbox => \A j \in Job : ItemOf(j)' = ItemOf(j)
  BY DEF ItemOf, ItemState

LEMMA ClaimsHeld == UNCHANGED worker => \A w \in Worker : ClaimOf(w)' = ClaimOf(w)
  BY DEF ClaimOf, HoldsClaim

LEMMA LeaseStutter ==
    ASSUME \A j \in Job : ItemOf(j)' = ItemOf(j), \A w \in Worker : ClaimOf(w)' = ClaimOf(w)
    PROVE  UNCHANGED Leases!leasedVars
  BY DEF Leases!leasedVars, ItemOf, ClaimOf

LEMMA LeaseGivenUp ==
    ASSUME NEW w \in Worker, \A j \in Job : ItemOf(j)' = ItemOf(j), ClaimOf(w)' = <<>>,
           \A v \in Worker : v # w => ClaimOf(v)' = ClaimOf(v)
    PROVE  Leases!LeasedNext
  <1>1. Leases!GiveUp(w)
    BY DEF Leases!GiveUp, Leases!NoClaim, ItemOf, ClaimOf
  <1> QED
    BY <1>1 DEF Leases!LeasedNext

LEMMA LeaseAdministered ==
    ASSUME Administered, UNCHANGED worker
    PROVE  Leases!LeasedNext
  <1>1. ASSUME NEW k \in Job
        PROVE  \/ ItemOf(k)' = ItemOf(k)
               \/ ItemOf(k).state = "absent" /\ ItemOf(k)' = [state |-> "open", term |-> 0]
               \/ /\ ItemOf(k).state \in {"open", "held"}
                  /\ ItemOf(k)' = [ItemOf(k) EXCEPT !.state = "done"]
    <2>1. CASE outbox'[k] = outbox[k]
      BY <2>1, ItemSame
    <2>2. CASE /\ outbox[k].status = "none" /\ outbox[k].attempts = 0
               /\ outbox'[k].status = "pending" /\ outbox'[k].attempts = 0
      <3>1. ItemState(k) = "absent" /\ ItemState(k)' = "open"
        BY <2>2, ItemStateOf, ItemStateAfter DEF Waiting
      <3> QED
        BY <2>2, <3>1 DEF ItemOf
    <2>3. CASE /\ outbox[k].status \in ActiveMail /\ outbox'[k].status \in GivenUp
               /\ outbox'[k].attempts = outbox[k].attempts
      <3>1. ItemState(k) \in {"open", "held"}
        BY <2>3, ItemStateOf DEF ActiveMail
      <3>2. ItemState(k)' = "done"
        BY <2>3, ItemStateAfter DEF GivenUp, SettledMail
      <3> QED
        BY <2>3, <3>1, <3>2 DEF ItemOf
    <2> QED
      BY <2>1, <2>2, <2>3 DEF Administered
  <1>2. \A w \in Worker : ClaimOf(w)' = ClaimOf(w)
    BY ClaimsHeld
  <1>3. Leases!Administer
    BY <1>1, <1>2 DEF Leases!Administer, ItemOf, ClaimOf
  <1> QED
    BY <1>3 DEF Leases!LeasedNext

\* The memory of the other workers is theirs.
LEMMA OtherClaims ==
    ASSUME MailTypeOK, NEW w \in Worker, NEW r, worker' = [worker EXCEPT ![w] = r]
    PROVE  worker'[w] = r /\ \A v \in Worker : v # w => worker'[v] = worker[v] /\ ClaimOf(v)' = ClaimOf(v)
  BY DEF MailTypeOK, ClaimOf, HoldsClaim

LEMMA DroppedClaim ==
    ASSUME NEW w \in Worker, worker'[w].pc \notin {"claimed", "connecting", "sent", "finishing"}
    PROVE  ClaimOf(w)' = <<>>
  BY DEF ClaimOf, HoldsClaim

\* The claim hands the message out under a new term.
LEMMA ClaimTakes ==
    ASSUME MailAssumption, MailInv, NEW w \in Worker, NEW j \in Job, ClaimDueMail(w, j)
    PROVE  Leases!LeasedNext
  <1>1. /\ worker[w].pc = "claiming" /\ outbox[j].status \in ActiveMail
        /\ outbox[j].attempts \in Nat
    BY MessageType DEF MailInv, ClaimDueMail, DueMail, NotInHand, LeaseOver, ActiveMail
  <1>2. /\ outbox'[j].status = "leased" /\ outbox'[j].attempts = outbox[j].attempts + 1
        /\ \A k \in Job : k # j => outbox'[k] = outbox[k]
    BY DEF ClaimDueMail, MailInv, MailTypeOK, MailRow
  <1>3. ItemOf(j).state \in {"open", "held"} /\ ItemOf(j).term = outbox[j].attempts
    BY <1>1, ItemStateOf DEF ItemOf, ActiveMail
  <1>4. ItemOf(j)' = [state |-> "held", term |-> outbox[j].attempts + 1]
    BY <1>2, ItemStateAfter DEF ItemOf
  <1>5. \A k \in Job : k # j => ItemOf(k)' = ItemOf(k)
    BY <1>2, ItemSame
  <1>6. ClaimOf(w) = <<>>
    BY <1>1 DEF ClaimOf, HoldsClaim
  <1>7. PICK r : /\ worker' = [worker EXCEPT ![w] = r]
                 /\ \/ r.pc = "idle"
                    \/ r.pc = "claimed" /\ r.job = j /\ r.attempt = outbox[j].attempts + 1
    <2>1. CASE worker' = [worker EXCEPT ![w] = Idle]
      <3>1. Idle.pc = "idle"
        BY DEF Idle
      <3> QED
        BY <2>1, <3>1
    <2>2. CASE worker' = [worker EXCEPT ![w].pc = "claimed", ![w].job = j,
                             ![w].attempt = outbox[j].attempts + 1, ![w].lease = now + ClaimLease]
      <3> DEFINE r == [worker[w] EXCEPT !.pc = "claimed", !.job = j,
                             !.attempt = outbox[j].attempts + 1, !.lease = now + ClaimLease]
      <3>1. r.pc = "claimed" /\ r.job = j /\ r.attempt = outbox[j].attempts + 1
        BY DEF MailInv, MailTypeOK, WorkerRow
      <3>2. worker' = [worker EXCEPT ![w] = r]
        BY <2>2 DEF MailInv, MailTypeOK
      <3> HIDE DEF r
      <3> QED
        BY <3>1, <3>2
    <2> QED
      BY <2>1, <2>2 DEF ClaimDueMail
  <1>8. worker'[w] = r /\ \A v \in Worker : v # w => ClaimOf(v)' = ClaimOf(v)
    BY <1>7, OtherClaims DEF MailInv
  <1>9. ClaimOf(w)' = <<>> \/ ClaimOf(w)' = <<j, outbox[j].attempts + 1>>
    BY <1>7, <1>8 DEF ClaimOf, HoldsClaim
  <1> DEFINE item == [k \in Job |-> ItemOf(k)]
             claim == [v \in Worker |-> ClaimOf(v)]
  <1>10. item' = [item EXCEPT ![j] = [state |-> "held", term |-> @.term + 1]]
    <2>1. item[j].term = outbox[j].attempts
      BY <1>3
    <2> QED
      BY <1>4, <1>5, <2>1
  <1>11. claim' \in {claim, [claim EXCEPT ![w] = <<j, item[j].term + 1>>]}
    <2>1. item[j].term = outbox[j].attempts
      BY <1>3
    <2>2. CASE ClaimOf(w)' = <<>>
      <3>1. claim' = claim
        BY <1>6, <1>8, <2>2
      <3> QED
        BY <3>1
    <2>3. CASE ClaimOf(w)' = <<j, outbox[j].attempts + 1>>
      <3>1. claim' = [claim EXCEPT ![w] = <<j, outbox[j].attempts + 1>>]
        BY <1>8, <2>3
      <3> QED
        BY <2>1, <3>1
    <2> QED
      BY <1>9, <2>2, <2>3
  <1>12. item[j].state \in {"open", "held"}
    BY <1>3
  <1>13. Leases!Take(w, j)
    BY <1>10, <1>11, <1>12 DEF Leases!Take, ItemOf, ClaimOf
  <1> QED
    BY <1>13 DEF Leases!LeasedNext

\* A fenced worker records the latest term; any other one changes nothing.
LEMMA FinishRecords ==
    ASSUME MailAssumption, MailInv, NEW w \in Worker, NEW t \in ClockReading,
           FinishMailAttempt(w, t)
    PROVE  Leases!LeasedNext
  <1> DEFINE outcome == worker[w].outcome
             status == CASE outcome = "delivered" -> "delivered"
                         [] RetryAllowed(w, t) -> IF outcome = "transient" THEN "retry" ELSE "ambiguous"
                         [] OTHER -> "permanent_failure"
             next == IF RetryAllowed(w, t) THEN t + RetryDelay ELSE UsefulUntil(worker[w].job)
  <1>1. worker[w].pc = "finishing" /\ worker' = [worker EXCEPT ![w] = Idle] /\ Idle.pc = "idle"
    BY DEF FinishMailAttempt, Idle
  <1>2. PICK j \in Job : HoldsClaim(w) /\ j = worker[w].job
    BY <1>1 DEF MailInv, ClaimsInv, HoldsClaim, ClaimFits
  <1>3. ClaimOf(w)' = <<>> /\ \A v \in Worker : v # w => ClaimOf(v)' = ClaimOf(v)
    BY <1>1, OtherClaims, DroppedClaim DEF MailInv
  <1>4. CASE ~Fenced(w)
    <2>1. UNCHANGED outbox
      BY <1>4 DEF FinishMailAttempt
    <2> QED
      BY <1>3, <2>1, ItemsStand, LeaseGivenUp
  <1>5. CASE Fenced(w)
    <2>1. outbox' = [outbox EXCEPT ![j] = [Released(outbox[j], status) EXCEPT !.next = next]]
      BY <1>2, <1>5 DEF FinishMailAttempt, MailInv, MailTypeOK
    <2>2. status \in {"retry", "ambiguous"} \/ status \in {"delivered", "permanent_failure"}
      OBVIOUS
    <2> HIDE DEF status, next
    <2>3. /\ outbox'[j].status = status /\ outbox'[j].attempts = outbox[j].attempts
          /\ \A k \in Job : k # j => outbox'[k] = outbox[k]
      BY <1>2, <2>1 DEF MailInv, MailTypeOK, MailRow, Released
    <2>4. PICK s \in {"open", "done"} : ItemState(j)' = s
      BY <1>2, <2>2, <2>3, ItemStateAfter DEF Waiting, SettledMail
    <2>5. /\ ItemOf(j).state = "held" /\ ItemOf(j).term = outbox[j].attempts
          /\ ClaimOf(w) = <<j, outbox[j].attempts>>
      BY <1>2, <1>5, ItemStateOf DEF Fenced, ItemOf, ClaimOf
    <2>6. ItemOf(j)' = [ItemOf(j) EXCEPT !.state = s]
      BY <2>3, <2>4 DEF ItemOf
    <2>7. \A k \in Job : k # j => ItemOf(k)' = ItemOf(k)
      BY <2>3, ItemSame
    <2> DEFINE item == [k \in Job |-> ItemOf(k)]
               claim == [v \in Worker |-> ClaimOf(v)]
    <2>8. item' = [item EXCEPT ![j].state = s]
      BY <1>2, <2>6, <2>7
    <2>9. claim' = [claim EXCEPT ![w] = <<>>]
      BY <1>3
    <2>10. claim[w] = <<j, item[j].term>> /\ item[j].state = "held"
      BY <1>2, <2>5
    <2>11. Leases!Record(w, j, s)
      BY <2>8, <2>9, <2>10 DEF Leases!Record, Leases!NoClaim, ItemOf, ClaimOf
    <2> QED
      BY <1>2, <2>11 DEF Leases!LeasedNext
  <1> QED
    BY <1>4, <1>5

\* What a worker does with the message in hand is between it and the relay.
LEMMA WorkingStutters ==
    ASSUME MailInv, NEW w \in Worker, 
           \/ PreparationFails(w) \/ Connect(w) \/ FailBeforeData(w) \/ SendBody(w)
           \/ FinalResponse(w)
    PROVE  UNCHANGED Leases!leasedVars
  <1>1. UNCHANGED outbox /\ HoldsClaim(w)
    BY DEF PreparationFails, Connect, FailBeforeData, SendBody, FinalResponse, HoldsClaim
  <1>2. \E pc \in {"connecting", "sent", "finishing"} :
           Attempt(w, pc) \/ \E o \in Outcome : pc = "finishing" /\ Settles(w, o)
    BY DEF PreparationFails, Connect, FailBeforeData, SendBody, FinalResponse, Outcome
  <1>3. /\ worker'[w].pc \in {"connecting", "sent", "finishing"}
        /\ worker'[w].job = worker[w].job /\ worker'[w].attempt = worker[w].attempt
        /\ \A v \in Worker : v # w => worker'[v] = worker[v]
    BY <1>2 DEF Attempt, Settles, MailInv, MailTypeOK, WorkerRow
  <1>4. \A v \in Worker : ClaimOf(v)' = ClaimOf(v)
    BY <1>1, <1>3 DEF ClaimOf, HoldsClaim
  <1> QED
    BY <1>1, <1>4, ItemsStand, LeaseStutter

LEMMA MailStepKeepsLease ==
    ASSUME MailAssumption, MailInv, MailNext
    PROVE  [Leases!LeasedNext]_(Leases!leasedVars)
  <1>1. ASSUME UNCHANGED <<outbox, worker>> PROVE UNCHANGED Leases!leasedVars
    BY <1>1, ItemsStand, ClaimsHeld, LeaseStutter
  <1>2. CASE LoginStep
    <2>1. ASSUME NEW l \in Login, NEW t \in ClockReading, NEW d \in ClockReading,
                 CommitEmailGeneration(l, t, d)
          PROVE  Leases!LeasedNext
      <3>1. Administered /\ UNCHANGED worker
        BY <2>1, CommitKeepsMail DEF CommitEmailGeneration
      <3> QED
        BY <3>1, LeaseAdministered
    <2> QED
      BY <1>1, <1>2, <2>1 DEF LoginStep, StartLogin, EndLogin, ExhaustChallenge
  <1>3. CASE WorkerStep
    <2>1. ASSUME NEW w \in Worker, StartRound(w) \/ EndRound(w) PROVE Leases!LeasedNext
      <3> DEFINE s == [Idle EXCEPT !.pc = "claiming", !.started = now]
      <3>1. UNCHANGED outbox
        BY <2>1 DEF StartRound, EndRound
      <3>2. Idle.pc = "idle" /\ s.pc = "claiming"
        BY DEF Idle
      <3>3. worker' = [worker EXCEPT ![w] = s] \/ worker' = [worker EXCEPT ![w] = Idle]
        BY <2>1 DEF StartRound, EndRound
      <3> HIDE DEF s
      <3>4. ClaimOf(w)' = <<>> /\ \A v \in Worker : v # w => ClaimOf(v)' = ClaimOf(v)
        BY <3>2, <3>3, OtherClaims, DroppedClaim DEF MailInv
      <3> QED
        BY <3>1, <3>4, ItemsStand, LeaseGivenUp
    <2> QED
      BY <1>3, <2>1, ClaimTakes, FinishRecords, WorkingStutters DEF WorkerStep
  <1>4. CASE MaintainShortTermData
    <2>1. ASSUME NEW j \in Job, NEW s \in GivenUp, NotInHand(j), UNCHANGED worker,
                 outbox' = [outbox EXCEPT ![j] = Released(@, s)]
          PROVE  Leases!LeasedNext
      <3>1. /\ outbox'[j].status = s /\ outbox'[j].attempts = outbox[j].attempts
            /\ \A k \in Job : k # j => outbox'[k] = outbox[k]
        BY <2>1 DEF MailInv, MailTypeOK, MailRow, Released
      <3>2. outbox[j].status \in ActiveMail
        BY <2>1 DEF NotInHand, LeaseOver, ActiveMail
      <3>3. Administered
        BY <3>1, <3>2 DEF Administered
      <3> QED
        BY <2>1, <3>3, LeaseAdministered
    <2>2. ASSUME NEW j \in Job, NEW t \in ClockReading, ExpireChallenge(j, t)
          PROVE  UNCHANGED Leases!leasedVars
      BY <1>1, <2>2 DEF ExpireChallenge
    <2>3. "permanent_failure" \in GivenUp /\ "expired" \in GivenUp
      BY DEF GivenUp
    <2> QED
      BY <1>4, <2>1, <2>2, <2>3 DEF MaintainShortTermData, FailExhaustedMail, ExpireMail
  <1>5. CASE SmtpStep
    <2>1. ASSUME NEW w \in Worker, NEW c \in Smtp, NEW t \in ClockReading,
                 ClaimSmtpCredentialCleanup(w, c, t)
          PROVE  Leases!LeasedNext
      <3> DEFINE s == [Idle EXCEPT !.pc = "cleaning", !.smtp = c]
      <3>1. UNCHANGED outbox /\ worker' = [worker EXCEPT ![w] = s]
        BY <2>1 DEF ClaimSmtpCredentialCleanup
      <3>2. s.pc = "cleaning"
        BY DEF Idle
      <3> HIDE DEF s
      <3>3. ClaimOf(w)' = <<>> /\ \A v \in Worker : v # w => ClaimOf(v)' = ClaimOf(v)
        BY <3>1, <3>2, OtherClaims, DroppedClaim DEF MailInv
      <3> QED
        BY <3>1, <3>3, ItemsStand, LeaseGivenUp
    <2>2. ASSUME NEW w \in Worker, FinishSmtpCredentialCleanup(w) PROVE Leases!LeasedNext
      <3>1. UNCHANGED outbox /\ worker' = [worker EXCEPT ![w] = Idle] /\ Idle.pc = "idle"
        BY <2>2 DEF FinishSmtpCredentialCleanup, Idle
      <3>2. ClaimOf(w)' = <<>> /\ \A v \in Worker : v # w => ClaimOf(v)' = ClaimOf(v)
        BY <3>1, OtherClaims, DroppedClaim DEF MailInv
      <3> QED
        BY <3>1, <3>2, ItemsStand, LeaseGivenUp
    <2> QED
      BY <1>1, <1>5, <2>1, <2>2
      DEF SmtpStep, TerminateSmtpConfiguration, ActivateSmtpConfiguration, RetireSmtpConfiguration
  <1>6. CASE ControlNext /\ UNCHANGED mailVars
    BY <1>1, <1>6 DEF mailVars
  <1> QED
    BY <1>2, <1>3, <1>4, <1>5, <1>6 DEF MailNext

LEMMA BodiesLeaveUnderLease ==
    ASSUME MailAssumption, MailInv, MailNext
    PROVE  SubmitsUnderLease
  <1> SUFFICES ASSUME NEW v \in Worker, worker[v].pc = "connecting", worker'[v].pc = "sent"
               PROVE  Fenced(v)
    BY DEF SubmitsUnderLease
  <1>1. UNCHANGED worker => FALSE
    OBVIOUS
  <1>2. ASSUME NEW w \in Worker, NEW r, r.pc # "sent", worker' = [worker EXCEPT ![w] = r] PROVE FALSE
    BY <1>2 DEF MailInv, MailTypeOK
  <1>3. ASSUME NEW w \in Worker, NEW pc, pc # "sent", Attempt(w, pc) PROVE FALSE
    BY <1>3 DEF Attempt, MailInv, MailTypeOK, WorkerRow
  <1>4. ASSUME NEW w \in Worker, NEW o, Settles(w, o) PROVE FALSE
    BY <1>4 DEF Settles, MailInv, MailTypeOK, WorkerRow
  <1>5. /\ Idle.pc = "idle" /\ \A c : [Idle EXCEPT !.pc = "cleaning", !.smtp = c].pc = "cleaning"
        /\ [Idle EXCEPT !.pc = "claiming", !.started = now].pc = "claiming"
    BY DEF Idle
  <1>6. ASSUME NEW w \in Worker, NEW j \in Job, ClaimDueMail(w, j) PROVE FALSE
    <2>1. CASE worker' = [worker EXCEPT ![w] = Idle]
      BY <1>2, <1>5, <2>1
    <2>2. CASE worker' = [worker EXCEPT ![w].pc = "claimed", ![w].job = j,
                             ![w].attempt = outbox[j].attempts + 1, ![w].lease = now + ClaimLease]
      BY <2>2 DEF MailInv, MailTypeOK, WorkerRow
    <2> QED
      BY <1>6, <2>1, <2>2 DEF ClaimDueMail
  <1>7. ASSUME NEW w \in Worker, SendBody(w) PROVE Fenced(v)
    <2>1. v = w
      BY <1>7 DEF SendBody, Attempt, MailInv, MailTypeOK
    <2>2. HoldsClaim(v) /\ now < DispatchDeadline(v)
      BY <1>7, <2>1 DEF SendBody, HoldsClaim
    <2>3. InHand(v) /\ worker[v].lease > now
      BY <2>2, SendingIsInHand
    <2> QED
      BY <2>3 DEF InHand, Fenced
  <1>8. ASSUME NEW w \in Worker, StartRound(w) \/ EndRound(w) PROVE FALSE
    BY <1>2, <1>5, <1>8 DEF StartRound, EndRound
  <1>9. ASSUME NEW w \in Worker, PreparationFails(w) \/ FailBeforeData(w) \/ FinalResponse(w)
        PROVE  FALSE
    BY <1>4, <1>9 DEF PreparationFails, FailBeforeData, FinalResponse
  <1>10. ASSUME NEW w \in Worker, Connect(w) PROVE FALSE
    BY <1>3, <1>10 DEF Connect
  <1>11. ASSUME NEW w \in Worker, NEW t \in ClockReading, FinishMailAttempt(w, t) PROVE FALSE
    <2>1. worker' = [worker EXCEPT ![w] = Idle]
      BY <1>11 DEF FinishMailAttempt
    <2> QED
      BY <1>2, <1>5, <2>1
  <1>12. CASE WorkerStep
    BY <1>6, <1>7, <1>8, <1>9, <1>10, <1>11, <1>12 DEF WorkerStep
  <1>13. CASE LoginStep
    BY <1>1, <1>13 DEF LoginStep, StartLogin, CommitEmailGeneration, EndLogin, ExhaustChallenge
  <1>14. CASE MaintainShortTermData
    BY <1>1, <1>14 DEF MaintainShortTermData, FailExhaustedMail, ExpireMail, ExpireChallenge
  <1>15. CASE SmtpStep
    <2>1. ASSUME NEW w \in Worker, NEW c \in Smtp, NEW t \in ClockReading,
                 ClaimSmtpCredentialCleanup(w, c, t)
          PROVE  FALSE
      BY <1>2, <1>5, <2>1 DEF ClaimSmtpCredentialCleanup
    <2>2. ASSUME NEW w \in Worker, FinishSmtpCredentialCleanup(w) PROVE FALSE
      BY <1>2, <1>5, <2>2 DEF FinishSmtpCredentialCleanup
    <2> QED
      BY <1>1, <1>15, <2>1, <2>2
      DEF SmtpStep, TerminateSmtpConfiguration, ActivateSmtpConfiguration, RetireSmtpConfiguration
  <1>16. CASE ControlNext /\ UNCHANGED mailVars
    BY <1>1, <1>16 DEF mailVars
  <1> QED
    BY <1>12, <1>13, <1>14, <1>15, <1>16 DEF MailNext

LEMMA MailStarts == MailInit => Leases!LeasedInit
  <1> SUFFICES ASSUME MailInit PROVE Leases!LeasedInit
    OBVIOUS
  <1>1. \A j \in Job : outbox[j].status = "none" /\ outbox[j].attempts = 0
    BY DEF MailInit
  <1>2. \A j \in Job : ItemOf(j) = [state |-> "absent", term |-> 0]
    BY <1>1, ItemStateOf DEF ItemOf
  <1>3. \A w \in Worker : worker[w].pc = "idle"
    BY DEF MailInit, Idle
  <1>4. \A w \in Worker : ClaimOf(w) = <<>>
    BY <1>3 DEF ClaimOf, HoldsClaim
  <1> QED
    BY <1>2, <1>4 DEF Leases!LeasedInit, Leases!NoClaim, ItemOf, ClaimOf

\* claim_due_mail, finish_mail_attempt: the outbox implements leased work.  The attempt
\* number is the term: only the latest claimant settles or releases a message, and what
\* is settled is never handed out again.
THEOREM MailImplementsLeasedWork ==
    ASSUME MailAssumption
    PROVE  MailSpec => Leases!LeasedSpec
  <1>1. MailInv /\ [MailNext]_allVars => [Leases!LeasedNext]_(Leases!leasedVars)
    <2>1. ASSUME UNCHANGED allVars PROVE UNCHANGED Leases!leasedVars
      BY <2>1, ItemsStand, ClaimsHeld, LeaseStutter DEF allVars, mailVars
    <2> QED
      BY <2>1, MailStepKeepsLease
  <1> QED
    BY <1>1, MailStarts, MailInvariant, PTL DEF MailSpec, Leases!LeasedSpec

\* run_once: besides, the body of a message leaves only under a lease that still runs
\* and that the row knows of, so that no two workers send one message at once.
THEOREM MailKeepsLeases ==
    ASSUME MailAssumption
    PROVE  MailSpec => KeepsLeases
  <1>1. MailInv /\ [MailNext]_allVars => [KeepsLease]_allVars
    BY MailStepKeepsLease, BodiesLeaveUnderLease DEF KeepsLease
  <1> QED
    BY <1>1, MailInvariant, PTL DEF MailSpec, KeepsLeases
=============================================================================
