---------------------------- MODULE MagicTransfer ----------------------------
(***************************************************************************)
(* The transfer contexts of magic links.  Opening the mailed link in any   *)
(* browser establishes a short-lived context for its challenge; only a     *)
(* later explicit submission proves the link, through the context or,      *)
(* from the browser where the interaction began, directly.                 *)
(*                                                                         *)
(* One owner is modelled: a login transaction or one proof slot of an      *)
(* identity mutation, which use the same table with small differences.     *)
(* A submission verifies, re-protects the address outside the database and *)
(* completes in a second transaction that repeats every guard.             *)
(***************************************************************************)
EXTENDS Naturals, FiniteSets

CONSTANTS
    Owner,          \* "login" or "identity_mutation"
    Contexts,       \* rows of magic_transfer_contexts
    Holders,        \* the browsers that may open the link
    Origin,         \* the browser the interaction is bound to
    None,
    MaxGeneration,  \* max_generations
    MaxContexts,    \* MAX_MAGIC_TRANSFER_CONTEXTS_PER_CHALLENGE
    Validity,       \* lifetime of a challenge
    ContextTtl,     \* five minutes
    OwnerDeadline,  \* expires_at of the login or of the intent
    MaxClockLag,    \* how far a replica's clock may be behind the database's
    MaxTime

MagicAssumption ==
    /\ Owner \in {"login", "identity_mutation"}
    /\ Origin \in Holders
    /\ None \notin Holders \cup Contexts /\ IsFiniteSet(Contexts)
    /\ MaxGeneration \in Nat \ {0} /\ MaxContexts \in Nat \ {0}
    /\ Validity \in Nat \ {0} /\ ContextTtl \in Nat \ {0}
    /\ OwnerDeadline \in Nat /\ MaxClockLag \in Nat /\ MaxTime \in Nat

VARIABLES
    clock,      \* the database's time
    owner,      \* "pending", "completed" or "expired"
    challenge,  \* [generations -> status, whether the origin is required, expiry]
    context,    \* [Contexts -> status, challenge, holder, expiry]
    attempt,    \* [Holders -> a verified submission that is not completed yet]
    winner      \* the browser whose submission completed the owner

magicVars == <<clock, owner, challenge, context, attempt, winner>>

Generations == 1..MaxGeneration
NoContext == [status |-> "none", challenge |-> 0, holder |-> None, expires |-> 0]
NoAttempt == [challenge |-> 0, via |-> None]

Issued == {g \in Generations : challenge[g].status # "none"}
Newest == IF Issued = {} THEN 0 ELSE CHOOSE g \in Issued : \A h \in Issued : h <= g

Lesser(a, b) == IF a <= b THEN a ELSE b

\* Logins are timed by the replica that serves the request, identity
\* mutations by the database.
Reading == IF Owner = "login" THEN {t \in 0..clock : clock - t <= MaxClockLag} ELSE {clock}

\* A challenge that can still be proved.
ChallengeLive(g, t) ==
    /\ owner = "pending" /\ t < OwnerDeadline
    /\ g = Newest
    /\ challenge[g].status = "pending" /\ t < challenge[g].expires

\* A further code replaces the one before; the policy of the moment decides
\* whether its link may be opened in another browser.
CommitGeneration(required, dispatch, t) ==
    LET g == Newest + 1 IN
    /\ owner = "pending" /\ t < OwnerDeadline
    /\ g \in Generations
    /\ challenge' = [h \in Generations |->
          IF h = g THEN [status |-> IF dispatch THEN "pending" ELSE "delivery_unavailable",
                         required |-> required, expires |-> Lesser(t + Validity, OwnerDeadline)]
          ELSE IF challenge[h].status \in {"pending", "delivery_unavailable"}
               THEN [challenge[h] EXCEPT !.status = "superseded"]
               ELSE challenge[h]]
    /\ UNCHANGED <<clock, owner, context, attempt, winner>>

Unexpired(c, t) == context[c].status = "pending" /\ t < context[c].expires

ContextsOf(g, t) == {c \in Contexts : context[c].challenge = g /\ Unexpired(c, t)}

ContextRoom(g, t) == Cardinality(ContextsOf(g, t)) < MaxContexts

ExpirePending(g, t) ==
    [c \in Contexts |-> IF context[c].challenge = g /\ context[c].status = "pending"
                           /\ context[c].expires <= t
                        THEN [context[c] EXCEPT !.status = "expired"] ELSE context[c]]

ContextExpiry(g, t) == Lesser(t + ContextTtl, Lesser(challenge[g].expires, OwnerDeadline))

\* The mailed link is opened: a GET that proves nothing.
EstablishMagicTransferContext(c, g, b, t) ==
    /\ context[c].status = "none"
    /\ ChallengeLive(g, t)
    /\ ContextRoom(g, t)
    /\ context' = [ExpirePending(g, t) EXCEPT ![c] =
          [status |-> "pending", challenge |-> g, holder |-> b, expires |-> ContextExpiry(g, t)]]
    /\ UNCHANGED <<clock, owner, challenge, attempt, winner>>

\* An identity mutation ends when the link of its challenge is used too late.
ExpireLateMutation(g) ==
    /\ Owner = "identity_mutation"
    /\ owner = "pending" /\ g = Newest
    /\ g \in Generations /\ challenge[g].status = "pending"
    /\ challenge[g].expires <= clock
    /\ owner' = "expired"
    /\ challenge' = [challenge EXCEPT ![g].status = "expired"]
    /\ UNCHANGED <<clock, context, attempt, winner>>

\* validate_email_confirmation_authority and validate_email_context: a context
\* is submitted by the browser that holds its cookie, and the origin's binding
\* is demanded where the challenge was issued with it.
ContextAdmittedMutant(b, c, g, t) ==
    context[c].holder = b /\ context[c].challenge = g /\ Unexpired(c, t)

ContextAdmitted(b, c, g, t) ==
    /\ context[c].holder = b /\ context[c].challenge = g /\ Unexpired(c, t)
    /\ challenge[g].required => b = Origin

AdmittedBy(b, via, g, t) ==
    IF via = None THEN b = Origin ELSE ContextAdmitted(b, via, g, t)

\* The first transaction of a submission.
VerifyEmailProof(b, via, g, t) ==
    /\ attempt[b] = NoAttempt
    /\ ChallengeLive(g, t)
    /\ AdmittedBy(b, via, g, t)
    /\ attempt' = [attempt EXCEPT ![b] = [challenge |-> g, via |-> via]]
    /\ UNCHANGED <<clock, owner, challenge, context, winner>>

StillLive(a, t) == ChallengeLive(a.challenge, t)

Consumed(via) == [context EXCEPT ![via].status = "consumed"]

\* The second: every guard again, then context, challenge and owner together.
CompleteEmailProof(b, t) ==
    LET a == attempt[b] IN
    /\ a # NoAttempt
    /\ StillLive(a, t)
    /\ AdmittedBy(b, a.via, a.challenge, t)
    /\ context' = IF a.via = None THEN context ELSE Consumed(a.via)
    /\ challenge' = [challenge EXCEPT ![a.challenge].status = "consumed"]
    /\ owner' = "completed"
    /\ winner' = b
    /\ attempt' = [attempt EXCEPT ![b] = NoAttempt]
    /\ UNCHANGED clock

\* The second transaction is refused, or the request was lost after the first.
DropAttempt(b) ==
    /\ attempt[b] # NoAttempt
    /\ attempt' = [attempt EXCEPT ![b] = NoAttempt]
    /\ UNCHANGED <<clock, owner, challenge, context, winner>>

\* Maintenance ends overdue challenges and deletes contexts that are over.
ExpireChallenges ==
    [g \in Generations |-> IF challenge[g].status = "pending" /\ challenge[g].expires <= clock
                           THEN [challenge[g] EXCEPT !.status = "expired"] ELSE challenge[g]]

Over(c) ==
    /\ context[c].status \in {"pending", "expired", "consumed"}
    /\ \/ context[c].expires <= clock
       \/ context[c].status = "consumed"
       \/ challenge[context[c].challenge].status # "pending"

MaintainShortTermData ==
    /\ challenge' = IF Owner = "login" THEN ExpireChallenges ELSE challenge
    /\ context' = [c \in Contexts |-> IF Over(c) THEN [context[c] EXCEPT !.status = "deleted"]
                                                 ELSE context[c]]
    /\ <<challenge', context'>> # <<challenge, context>>
    /\ UNCHANGED <<clock, owner, attempt, winner>>

ExpireOwner ==
    /\ owner = "pending" /\ OwnerDeadline <= clock
    /\ owner' = "expired"
    /\ UNCHANGED <<clock, challenge, context, attempt, winner>>

Tick ==
    /\ clock < MaxTime
    /\ clock' = clock + 1
    /\ UNCHANGED <<owner, challenge, context, attempt, winner>>

-----------------------------------------------------------------------------
MagicInit ==
    /\ clock = 0
    /\ owner = "pending"
    /\ challenge = [g \in Generations |-> [status |-> "none", required |-> TRUE, expires |-> 0]]
    /\ context = [c \in Contexts |-> NoContext]
    /\ attempt = [b \in Holders |-> NoAttempt]
    /\ winner = None

OpenLink ==
    \E t \in Reading, b \in Holders, g \in Generations, c \in Contexts :
        EstablishMagicTransferContext(c, g, b, t)

SubmitProof ==
    \E t \in Reading, b \in Holders :
        \/ \E g \in Generations, via \in Contexts \cup {None} : VerifyEmailProof(b, via, g, t)
        \/ CompleteEmailProof(b, t)

MagicNext ==
    \/ \E t \in Reading, required, dispatch \in BOOLEAN : CommitGeneration(required, dispatch, t)
    \/ OpenLink
    \/ SubmitProof
    \/ \E g \in Generations : ExpireLateMutation(g)
    \/ \E b \in Holders : DropAttempt(b)
    \/ MaintainShortTermData
    \/ ExpireOwner
    \/ Tick

MagicSpec == MagicInit /\ [][MagicNext]_magicVars

-----------------------------------------------------------------------------
\* The shape of the rows.
MagicTypeOK ==
    /\ clock \in 0..MaxTime
    /\ owner \in {"pending", "completed", "expired"}
    /\ challenge \in [Generations -> [status : {"none", "pending", "delivery_unavailable",
                                                "superseded", "expired", "consumed"},
                                      required : BOOLEAN, expires : 0..OwnerDeadline]]
    /\ context \in [Contexts -> [status : {"none", "pending", "expired", "consumed", "deleted"},
                                 challenge : 0..MaxGeneration, holder : Holders \cup {None},
                                 expires : 0..OwnerDeadline]]
    /\ attempt \in [Holders -> [challenge : 0..MaxGeneration, via : Contexts \cup {None}]]
    /\ winner \in Holders \cup {None}

\* However many browsers verified the same link before one of them completed,
\* one submission wins: the owner is completed exactly when one challenge is
\* consumed, at most one context is, and it belongs to that challenge.
OneSubmissionWins ==
    LET spent == {g \in Generations : challenge[g].status = "consumed"}
        used == {c \in Contexts : context[c].status = "consumed"}
    IN  /\ Cardinality(spent) = IF owner = "completed" THEN 1 ELSE 0
        /\ Cardinality(used) <= 1
        /\ \A c \in used : context[c].challenge \in spent

\* A link issued for the origin only is completed by the origin only, although
\* any browser can open it and hold a context for it, and although links issued
\* before or after it may be transferable.
BoundLinksStayBound ==
    \A g \in Generations :
        challenge[g].status = "consumed" /\ challenge[g].required => winner = Origin

\* A challenge never has more usable contexts than the limit, by the
\* database's clock, whatever the clocks of the replicas say.
ContextsBounded == \A g \in Generations : Cardinality(ContextsOf(g, clock)) <= MaxContexts

\* A context never outlives the challenge or the owner it was opened for.
ContextsEndFirst ==
    \A c \in Contexts : context[c].status = "pending" =>
        context[c].expires <= challenge[context[c].challenge].expires
        /\ context[c].expires <= OwnerDeadline

\* A context someone opened and left is removed by maintenance.
ContextOpen == \E c \in Contexts : context[c].status = "pending"

MagicSafe ==
    /\ MagicTypeOK /\ OneSubmissionWins /\ BoundLinksStayBound
    /\ ContextsBounded /\ ContextsEndFirst

=============================================================================
