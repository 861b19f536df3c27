------------------------- MODULE ManagedConnection --------------------------
(***************************************************************************)
(* Managed provider connections: the renewable credential that a user's    *)
(* provider identity left with OwlAuth, and the workers that renew it,     *)
(* read the profile with it, revoke it and protect it under a new key.     *)
(*                                                                         *)
(* A connection is fenced by its revision and its generation; every        *)
(* credential has a generation of its own and is destroyed, never reused.  *)
(* A worker talks to the provider between two transactions, under a lease  *)
(* that may run out before the provider answers.  The provider rotates     *)
(* what it renews: a credential whose renewal was submitted may be spent.  *)
(*                                                                         *)
(* All connections here are of one provider, with one outbound budget.     *)
(***************************************************************************)
EXTENDS ControlPlane, FiniteSets

CONSTANTS
    Connection, Worker,
    Connected,      \* the connections that exist from the start
    Generations,    \* bound on a connection's generation
    MaxRevision,    \* bound on a connection's revision
    ReplayModes,    \* whether the adapters deployed can replay a renewal
    Revocable,      \* whether the adapter supports revocation
    ReadRetrySafe,  \* whether the adapter reads a profile after a renewal
    Lease, RetryDelay, RenewalInterval,
    LastClaim       \* bound: no worker starts later

ManagedAssumption ==
    /\ {Generations, MaxRevision, Lease, RenewalInterval} \subseteq Nat \ {0}
    /\ {RetryDelay, LastClaim} \subseteq Nat
    /\ Connected \subseteq Connection
    /\ ReplayModes \subseteq BOOLEAN /\ {Revocable, ReadRetrySafe} \subseteq BOOLEAN
    /\ "none" \notin Worker
    /\ ~({"application", "provider"} \subseteq Volatile)

VARIABLES
    connection,  \* managed_provider_connections
    credential,  \* managed_provider_credentials, by credential generation
    operation,   \* managed_provider_renewal_operations, by expected generation
    budget,      \* managed_provider_claim_fairness: the outbound lease
    worker,      \* the workers' memory
    presented,   \* presented[c][g]: how often the renewal of generation g was sent
    revoked      \* revoked[c][k]: how often the revocation of credential k was sent

managedVars == <<connection, credential, operation, budget, worker, presented, revoked>>
managedAll == <<controlVars, managedVars>>

Generation == 1..Generations
ManagedOwners == {"project", "provider", "user"}
Never == MaxTime + Lease + RenewalInterval + RetryDelay + 1
LeaseKind == {"none", "renewal", "revocation", "rewrap"}
ManagedState == {"none", "active", "reauth_required", "revoked", "disconnected"}
Intent == {"none", "revoke", "disconnect"}
OpenOperation == {"prepared", "submitted"}
TerminalOperation == {"successor_committed", "reauth_required", "superseded_by_login", "abandoned"}
RenewalResult == {"success", "transient", "ambiguous", "invalid_grant", "revoked"}

\* bound is the connection generation that the current credential's row names.
\* Times that count how far off something is are bounded by Never, "not scheduled".
ConnectionRow == [state : ManagedState, revision : Nat, generation : 0..Generations,
                  credential : 0..Generations, bound : 0..Generations,
                  captured : [ManagedOwners -> Revision], linked : BOOLEAN,
                  supports : BOOLEAN, next : 0..Never, intent : Intent, dispatched : BOOLEAN, leaseOwner : Worker \cup {"none"},
                  leaseKind : LeaseKind, leaseExpires : Nat]
OperationRow == [state : OpenOperation \cup TerminalOperation \cup {"none"}, replay : BOOLEAN,
                 credential : 0..Generations, egress : Nat, owner : Worker \cup {"none"},
                 expires : Nat]
ManagedWorkerRow ==
    [pc : {"idle", "prepared", "dispatching", "answered", "terminalizing", "profile",
           "revoking", "revocation_sent", "revocation_answered", "rewrapping"},
     job : Connection \cup {"none"}, revision : Nat, generation : 0..Generations,
     credential : 0..Generations, captured : [ManagedOwners -> Revision], egress : Nat,
     expires : Nat, submitted : BOOLEAN, authority : BOOLEAN, replay : BOOLEAN,
     result : RenewalResult]

\* Ciphertext under a retired key is "retained", under the active one "sealed".
ManagedTypeOK ==
    /\ ControlTypeOK
    /\ connection \in [Connection -> ConnectionRow]
    /\ credential \in [Connection -> [Generation -> {"none", "retained", "sealed", "destroyed"}]]
    /\ operation \in [Connection -> [Generation -> OperationRow]]
    /\ budget \in [owner : Worker \cup {"none"}, expires : Nat]
    /\ worker \in [Worker -> ManagedWorkerRow]
    /\ presented \in [Connection -> [Generation -> 0..2]]
    /\ revoked \in [Connection -> [Generation -> 0..2]]

ManagedSnapshot == [o \in ManagedOwners |-> owner[o].revision]
NoConnection == [state |-> "none", revision |-> 0, generation |-> 0, credential |-> 0,
                 bound |-> 0,
                 captured |-> [o \in ManagedOwners |-> 1], linked |-> TRUE,
                 supports |-> Revocable, next |-> Never, intent |-> "none",
                 dispatched |-> FALSE, leaseOwner |-> "none", leaseKind |-> "none",
                 leaseExpires |-> 0]
NoOperation == [state |-> "none", replay |-> FALSE, credential |-> 0, egress |-> 0,
                owner |-> "none", expires |-> 0]
IdleWorker == [pc |-> "idle", job |-> "none", revision |-> 0, generation |-> 0,
               credential |-> 0, captured |-> [o \in ManagedOwners |-> 1], egress |-> 0,
               expires |-> 0, submitted |-> FALSE, authority |-> FALSE, replay |-> FALSE,
               result |-> "transient"]

\* A connected identity logged in under a key that has been rotated since.
ManagedInit ==
    /\ ControlInit
    /\ connection = [c \in Connection |->
                       IF c \in Connected
                       THEN [NoConnection EXCEPT !.state = "active", !.revision = 1,
                                                 !.generation = 1, !.credential = 1, !.bound = 1,
                                                 !.next = 0]
                       ELSE NoConnection]
    /\ credential = [c \in Connection |-> [k \in Generation |->
                       IF c \in Connected /\ k = 1 THEN "retained" ELSE "none"]]
    /\ operation = [c \in Connection |-> [g \in Generation |-> NoOperation]]
    /\ budget = [owner |-> "none", expires |-> 0]
    /\ worker = [w \in Worker |-> IdleWorker]
    /\ presented = [c \in Connection |-> [g \in Generation |-> 0]]
    /\ revoked = [c \in Connection |-> [k \in Generation |-> 0]]

-----------------------------------------------------------------------------
(* Rows *)

Accessible(c, k) == credential[c][k] \in {"retained", "sealed"}
CurrentAccessible(c) == connection[c].credential > 0 /\ Accessible(c, connection[c].credential)

\* Project, provider, user and identity are what the connection captured.
OwnersCurrent(c) == Current(ManagedOwners, connection[c].captured) /\ connection[c].linked

LeaseFree(c, t) == connection[c].leaseExpires <= t

\* The budget is free when its lease is over or its holder holds no connection any more.
BudgetFree(t) ==
    \/ budget.expires <= t
    \/ \A c \in Connection : connection[c].leaseOwner # budget.owner \/ LeaseFree(c, t)

Leased(row, w, kind, t) ==
    [row EXCEPT !.leaseOwner = w, !.leaseKind = kind, !.leaseExpires = t + Lease]
Unleased(row) ==
    [row EXCEPT !.leaseOwner = "none", !.leaseKind = "none", !.leaseExpires = 0]

RecordClaimFairness(w, t) == budget' = [owner |-> w, expires |-> t + Lease]

Destroyed(c, k) ==
    [credential EXCEPT ![c] = [@ EXCEPT ![k] = IF @ = "none" THEN @ ELSE "destroyed"]]

\* The end of a credential: a new generation of the connection, without a credential.
Ended(row, state) ==
    [Unleased(row) EXCEPT !.state = state, !.revision = @ + 1, !.generation = @ + 1,
                          !.next = Never]
Answered(row, state) == [Ended(row, state) EXCEPT !.intent = "none", !.dispatched = FALSE]

\* Room for the step within the bounds of the instance.
InBounds(c) == connection[c].revision < MaxRevision /\ connection[c].generation < Generations

\* A worker's guard: what it read of the connection with its claim.
Claimed(w, c, pc, t, egress) ==
    [IdleWorker EXCEPT !.pc = pc, !.job = c, !.revision = connection[c].revision,
                       !.generation = connection[c].generation,
                       !.credential = connection[c].credential,
                       !.captured = connection[c].captured, !.egress = egress,
                       !.expires = t + Lease]

\* The connection is still the one that w's guard names.
Unmoved(w) ==
    LET row == connection[worker[w].job]
    IN  /\ row.revision = worker[w].revision /\ row.generation = worker[w].generation
        /\ row.credential = worker[w].credential

GuardAuthority(w) ==
    /\ Current(ManagedOwners, worker[w].captured) /\ connection[worker[w].job].linked
    /\ owner["egress"].revision = worker[w].egress

HoldsLease(w, kind, t) ==
    LET row == connection[worker[w].job]
    IN  /\ row.leaseOwner = w /\ row.leaseKind = kind
        /\ row.leaseExpires = worker[w].expires /\ row.leaseExpires > t

Forget(w) == worker' = [worker EXCEPT ![w] = IdleWorker]

-----------------------------------------------------------------------------
(* Renewal *)

Operation(c) == operation[c][connection[c].generation]

\* authority_valid of an operation: the owners, and the egress policy it was prepared under.
OperationAuthority(c) ==
    OwnersCurrent(c) /\ Operation(c).egress = owner["egress"].revision

\* An operation of the current generation whose worker did not come back.  One that
\* was submitted is taken up whatever became of its authority.
Recoverable(c, t) ==
    /\ connection[c].state = "active" /\ CurrentAccessible(c) /\ LeaseFree(c, t)
    /\ Operation(c).state \in OpenOperation /\ Operation(c).expires <= t
    /\ Operation(c).credential = connection[c].credential
    /\ Operation(c).state = "submitted" \/ OperationAuthority(c)

Startable(w, t) == worker[w].pc = "idle" /\ t <= LastClaim /\ BudgetFree(t)

\* prepare_next_renewal, first half: submitted operations go before prepared ones.
ResumeRenewal(w, c, t) ==
    LET op == Operation(c)
    IN  /\ Startable(w, t) /\ Recoverable(c, t)
        /\ op.state = "submitted" \/
              \A d \in Connection : Recoverable(d, t) => Operation(d).state # "submitted"
        /\ connection' = [connection EXCEPT ![c] = Leased(@, w, "renewal", t)]
        /\ operation' = [operation EXCEPT ![c][connection[c].generation].owner = w,
                                          ![c][connection[c].generation].expires = t + Lease]
        /\ RecordClaimFairness(w, t)
        /\ \E mode \in ReplayModes :
              worker' = [worker EXCEPT ![w] =
                           [Claimed(w, c, "prepared", t, op.egress) EXCEPT
                              !.submitted = op.state = "submitted",
                              !.authority = OperationAuthority(c),
                              !.replay = mode /\ op.replay]]
        /\ UNCHANGED <<controlVars, credential, presented, revoked>>

\* claim_connection_on for a kind of work, except that the revocation queue is the one
\* of the connections with an intent and the others leave those alone.
Claimable(c, kind, t) ==
    /\ connection[c].state = "active" /\ CurrentAccessible(c) /\ LeaseFree(c, t)
    /\ IF kind = "revocation"
       THEN connection[c].intent # "none" /\ ~connection[c].dispatched
       ELSE connection[c].intent = "none"
    /\ kind = "renewal" => connection[c].next <= t
    /\ kind = "rewrap" => credential[c][connection[c].credential] = "retained"
    /\ kind = "rewrap" \/ OwnersCurrent(c)

\* A generation is renewed once: when it has an operation already, the connection
\* leaves the schedule instead.
PrepareRenewal(w, c, t) ==
    /\ Startable(w, t) /\ Claimable(c, "renewal", t)
    /\ \A d \in Connection : ~Recoverable(d, t)
    /\ RecordClaimFairness(w, t)
    /\ IF Operation(c).state = "none"
       THEN \E mode \in ReplayModes :
              /\ connection' = [connection EXCEPT ![c] = Leased(@, w, "renewal", t)]
              /\ operation' = [operation EXCEPT ![c][connection[c].generation] =
                                 [NoOperation EXCEPT
                                    !.state = "prepared", !.replay = mode, !.owner = w,
                                    !.credential = connection[c].credential,
                                    !.egress = owner["egress"].revision, !.expires = t + Lease]]
              /\ worker' = [worker EXCEPT ![w] =
                              [Claimed(w, c, "prepared", t, owner["egress"].revision) EXCEPT
                                 !.authority = TRUE, !.replay = mode]]
       ELSE /\ connection' = [connection EXCEPT ![c] = [Unleased(@) EXCEPT !.next = Never]]
            /\ UNCHANGED <<operation, worker>>
    /\ UNCHANGED <<controlVars, credential, presented, revoked>>

\* A submitted operation goes on only under its authority and an adapter that replays.
MayReplay(w) == worker[w].authority /\ worker[w].replay

Terminalizing(w, result) ==
    worker' = [worker EXCEPT ![w].pc = "terminalizing", ![w].result = result]

\* The adapter is not the one of the connection any more, or the answer is lost for good.
RefuseRenewal(w) ==
    /\ worker[w].pc = "prepared"
    /\ Terminalizing(w, "invalid_grant")
    /\ UNCHANGED <<controlVars, connection, credential, operation, budget, presented, revoked>>

OwnsOperation(w) ==
    LET op == operation[worker[w].job][worker[w].generation]
    IN  op.owner = w /\ op.expires = worker[w].expires

\* The credential cannot be read here: the operation stays prepared, for later.
ReleasePreparedFailure(w, t) ==
    LET c == worker[w].job
        retry == t + RetryDelay
        holds == connection[c].leaseOwner = w /\ connection[c].leaseKind = "renewal"
    IN  /\ worker[w].pc = "prepared" /\ ~worker[w].submitted
        /\ IF OwnsOperation(w) /\ operation[c][worker[w].generation].state = "prepared"
           THEN /\ operation' = [operation EXCEPT ![c][worker[w].generation].owner = "none",
                                                  ![c][worker[w].generation].expires = retry]
                /\ connection' = [connection EXCEPT ![c] =
                                    IF holds THEN [Unleased(@) EXCEPT !.next = retry] ELSE @]
           ELSE UNCHANGED <<connection, operation>>
        /\ Forget(w)
        /\ UNCHANGED <<controlVars, credential, budget, presented, revoked>>

\* The last point where the renewal is refused: after it, the credential counts as spent.
MarkRenewalSubmitted(w, t) ==
    LET c == worker[w].job
        op == operation[c][worker[w].generation]
    IN  /\ worker[w].pc = "prepared" /\ ~worker[w].submitted
        /\ IF /\ GuardAuthority(w) /\ connection[c].state = "active" /\ Unmoved(w)
              /\ HoldsLease(w, "renewal", t) /\ CurrentAccessible(c)
              /\ op.state = "prepared" /\ op.owner = w /\ op.expires > t
              /\ op.egress = worker[w].egress
           THEN /\ operation' = [operation EXCEPT ![c][worker[w].generation].state = "submitted"]
                /\ worker' = [worker EXCEPT ![w].pc = "dispatching"]
           ELSE UNCHANGED operation /\ Forget(w)
        /\ UNCHANGED <<controlVars, connection, credential, budget, presented, revoked>>

ResendSubmitted(w) ==
    /\ worker[w].pc = "prepared" /\ worker[w].submitted /\ MayReplay(w)
    /\ worker' = [worker EXCEPT ![w].pc = "dispatching"]
    /\ UNCHANGED <<controlVars, connection, credential, operation, budget, presented, revoked>>

Counted(n) == IF n < 2 THEN n + 1 ELSE 2

\* The provider is asked; only a prerequisite that fails before is known not to reach it.
Renew(w) ==
    /\ worker[w].pc = "dispatching"
    /\ \E r \in RenewalResult :
          /\ worker' = [worker EXCEPT ![w].pc = "answered", ![w].result = r]
          /\ IF r = "transient" THEN UNCHANGED presented
             ELSE presented' = [presented EXCEPT ![worker[w].job][worker[w].generation] =
                                                    Counted(@)]
    /\ UNCHANGED <<controlVars, connection, credential, operation, budget, revoked>>

\* An answer that may come again is left to the next worker, if it may replay.
GiveUpRenewal(w) ==
    /\ worker[w].pc = "answered" /\ worker[w].result # "success"
    /\ IF worker[w].result \in {"transient", "ambiguous"} /\ worker[w].replay
       THEN Forget(w)
       ELSE Terminalizing(w, worker[w].result)
    /\ UNCHANGED <<controlVars, connection, credential, operation, budget, presented, revoked>>

\* The successor is for the connection, the operation and the authority it was asked under.
SuccessorFenced(w, t) ==
    LET c == worker[w].job
        op == operation[c][worker[w].generation]
    IN  /\ GuardAuthority(w) /\ connection[c].state = "active" /\ Unmoved(w)
        /\ op.state = "submitted" /\ op.owner = w /\ op.expires > t
        /\ op.egress = worker[w].egress /\ CurrentAccessible(c)

\* Scopes that do not match end the connection like a fence that failed.
CommitRenewalSuccessor(w, t) ==
    LET c == worker[w].job
        k == worker[w].credential
        n == connection[c].credential + 1
    IN  /\ worker[w].pc = "answered" /\ worker[w].result = "success" /\ InBounds(c)
        /\ \/ /\ SuccessorFenced(w, t)
              /\ credential' = [Destroyed(c, k) EXCEPT ![c][n] = "sealed"]
              /\ connection' = [connection EXCEPT
                                  ![c].revision = @ + 1, ![c].generation = @ + 1,
                                  ![c].credential = n, ![c].bound = @ + 1,
                                  ![c].next = worker[w].expires + 1]
              /\ operation' = [operation EXCEPT ![c][worker[w].generation] =
                                 [@ EXCEPT !.state = "successor_committed", !.owner = "none",
                                           !.expires = 0]]
              /\ worker' = [worker EXCEPT ![w].pc = "profile", ![w].revision = @ + 1,
                                          ![w].generation = @ + 1, ![w].credential = @ + 1]
           \/ Terminalizing(w, "invalid_grant") /\ UNCHANGED <<connection, credential, operation>>
        /\ UNCHANGED <<controlVars, budget, presented, revoked>>

\* Whatever is to be recorded, only the operation's current worker records it.
TerminalizeRenewal(w, t) ==
    LET c == worker[w].job
        state == IF worker[w].result = "revoked" THEN "revoked" ELSE "reauth_required"
    IN  /\ worker[w].pc = "terminalizing" /\ InBounds(c)
        /\ IF /\ connection[c].revision = worker[w].revision
              /\ connection[c].generation = worker[w].generation
              /\ operation[c][worker[w].generation].state \in OpenOperation
              /\ OwnsOperation(w) /\ worker[w].expires > t
           THEN /\ operation' = [operation EXCEPT ![c][worker[w].generation] =
                                   [@ EXCEPT !.state = "reauth_required", !.owner = "none",
                                             !.expires = 0]]
                /\ credential' = Destroyed(c, worker[w].credential)
                /\ connection' = [connection EXCEPT ![c] = Ended(@, state)]
           ELSE UNCHANGED <<connection, credential, operation>>
        /\ Forget(w)
        /\ UNCHANGED <<controlVars, budget, presented, revoked>>

SuccessorClaim(w, t) ==
    /\ GuardAuthority(w) /\ connection[worker[w].job].state = "active" /\ Unmoved(w)
    /\ HoldsLease(w, "renewal", t)

\* The lease of the renewal is given back, with the time of the next one.
GiveBack(w, t, next) ==
    /\ worker[w].pc = "profile"
    /\ connection' = IF SuccessorClaim(w, t)
                     THEN [connection EXCEPT ![worker[w].job] = [Unleased(@) EXCEPT !.next = next]]
                     ELSE connection
    /\ Forget(w)
    /\ UNCHANGED <<controlVars, credential, operation, budget, presented, revoked>>

\* The profile is read with the new credential and written to the user.
CommitSuccessorProfile(w, t) == ReadRetrySafe /\ GiveBack(w, t, t + RenewalInterval)

FinishSuccessorProfileFailure(w, t) == ReadRetrySafe /\ GiveBack(w, t, t + RetryDelay)

FinishSuccessorWithoutProfile(w, t) == ~ReadRetrySafe /\ GiveBack(w, t, Never)

\* The read shows that the credential is of no use: invalid, or revoked.
FenceSuccessorReadEvidence(w, t) ==
    LET c == worker[w].job
    IN  /\ worker[w].pc = "profile" /\ ReadRetrySafe /\ InBounds(c)
        /\ IF SuccessorClaim(w, t) /\ connection[c].intent = "none" /\ CurrentAccessible(c)
           THEN \E state \in {"reauth_required", "revoked"} :
                   /\ credential' = Destroyed(c, worker[w].credential)
                   /\ connection' = [connection EXCEPT ![c] = Ended(@, state)]
           ELSE UNCHANGED <<connection, credential>>
        /\ Forget(w)
        /\ UNCHANGED <<controlVars, operation, budget, presented, revoked>>

RenewalStep(w, t) ==
    \/ \E c \in Connection : ResumeRenewal(w, c, t) \/ PrepareRenewal(w, c, t)
    \/ RefuseRenewal(w) \/ ReleasePreparedFailure(w, t) \/ MarkRenewalSubmitted(w, t)
    \/ ResendSubmitted(w) \/ Renew(w) \/ GiveUpRenewal(w) \/ CommitRenewalSuccessor(w, t)
    \/ TerminalizeRenewal(w, t) \/ FenceSuccessorReadEvidence(w, t)
    \/ CommitSuccessorProfile(w, t) \/ FinishSuccessorProfileFailure(w, t)
    \/ FinishSuccessorWithoutProfile(w, t)

-----------------------------------------------------------------------------
(* Revocation: the credential is destroyed before the provider hears of it.  *)

\* A dispatched revocation ends in what was asked for, as far as it is known.
Unknown(c) == IF connection[c].intent = "disconnect" THEN "disconnected" ELSE "reauth_required"

\* The worker that sent it did not come back.
TerminalizeAmbiguousRevocation(c, t) ==
    /\ connection[c].state = "active" /\ connection[c].intent # "none"
    /\ connection[c].dispatched /\ LeaseFree(c, t) /\ InBounds(c)
    /\ connection' = [connection EXCEPT ![c] = Answered(@, Unknown(c))]
    /\ UNCHANGED <<controlVars, credential, operation, budget, worker, presented, revoked>>

\* The owners moved on: nothing can be sent any more, whoever holds the lease.
TerminalizeStaleRevocation(c) ==
    /\ connection[c].state = "active" /\ connection[c].intent # "none"
    /\ ~OwnersCurrent(c) /\ InBounds(c)
    /\ credential' = Destroyed(c, connection[c].credential)
    /\ connection' = [connection EXCEPT ![c] = Answered(@, Unknown(c))]
    /\ UNCHANGED <<controlVars, operation, budget, worker, presented, revoked>>

ClaimRevocation(w, c, t) ==
    /\ Startable(w, t) /\ Claimable(c, "revocation", t)
    /\ connection' = [connection EXCEPT ![c] = Leased(@, w, "revocation", t)]
    /\ RecordClaimFairness(w, t)
    /\ worker' = [worker EXCEPT ![w] = Claimed(w, c, "revoking", t, owner["egress"].revision)]
    /\ UNCHANGED <<controlVars, credential, operation, presented, revoked>>

\* The credential cannot be read here.
ReleaseRevocationClaim(w) ==
    LET c == worker[w].job
    IN  /\ worker[w].pc = "revoking"
        /\ connection' = IF /\ connection[c].state = "active" /\ Unmoved(w)
                            /\ connection[c].leaseOwner = w
                            /\ connection[c].leaseKind = "revocation" /\ ~connection[c].dispatched
                         THEN [connection EXCEPT ![c] = Unleased(@)]
                         ELSE connection
        /\ Forget(w)
        /\ UNCHANGED <<controlVars, credential, operation, budget, presented, revoked>>

MarkRevocationDispatched(w, t) ==
    LET c == worker[w].job
    IN  /\ worker[w].pc = "revoking" /\ InBounds(c)
        /\ IF /\ GuardAuthority(w) /\ connection[c].state = "active" /\ Unmoved(w)
              /\ connection[c].intent # "none" /\ ~connection[c].dispatched
              /\ HoldsLease(w, "revocation", t) /\ CurrentAccessible(c)
           THEN /\ credential' = Destroyed(c, worker[w].credential)
                /\ connection' = [connection EXCEPT ![c].dispatched = TRUE]
                /\ worker' = [worker EXCEPT ![w].pc = "revocation_sent"]
           ELSE Forget(w) /\ UNCHANGED <<connection, credential>>
        /\ UNCHANGED <<controlVars, operation, budget, presented, revoked>>

\* The provider is asked, unless the adapter is not the one the credential is from.
Revoke(w) ==
    /\ worker[w].pc = "revocation_sent"
    /\ \/ revoked' = [revoked EXCEPT ![worker[w].job][worker[w].credential] = Counted(@)]
       \/ UNCHANGED revoked
    /\ worker' = [worker EXCEPT ![w].pc = "revocation_answered"]
    /\ UNCHANGED <<controlVars, connection, credential, operation, budget, presented>>

RevocationResult == {"confirmed", "ambiguous", "unsupported"}

FinishRevocation(w, t) ==
    LET c == worker[w].job
        row == connection[c]
    IN  /\ worker[w].pc = "revocation_answered" /\ InBounds(c)
        /\ \E r \in RevocationResult :
              connection' =
                IF /\ row.state = "active" /\ Unmoved(w) /\ row.dispatched
                   /\ row.leaseOwner = w /\ row.leaseKind = "revocation" /\ row.leaseExpires > t
                   /\ ~CurrentAccessible(c)
                THEN [connection EXCEPT ![c] =
                        [Answered(@, IF r = "confirmed" /\ @.intent = "revoke"
                                     THEN "revoked" ELSE Unknown(c))
                           EXCEPT !.supports = @ /\ r # "unsupported"]]
                ELSE connection
        /\ Forget(w)
        /\ UNCHANGED <<controlVars, credential, operation, budget, presented, revoked>>

RevocationStep(w, t) ==
    \/ \E c \in Connection : ClaimRevocation(w, c, t)
    \/ ReleaseRevocationClaim(w) \/ MarkRevocationDispatched(w, t) \/ Revoke(w)
    \/ FinishRevocation(w, t)

-----------------------------------------------------------------------------
(* Protection under the active key *)

ClaimRewrap(w, c, t) ==
    /\ Startable(w, t) /\ Claimable(c, "rewrap", t)
    /\ connection' = [connection EXCEPT ![c] = Leased(@, w, "rewrap", t)]
    /\ RecordClaimFairness(w, t)
    /\ worker' = [worker EXCEPT ![w] = Claimed(w, c, "rewrapping", t, owner["egress"].revision)]
    /\ UNCHANGED <<controlVars, credential, operation, presented, revoked>>

FinishRewrap(w, t) ==
    LET c == worker[w].job
        k == worker[w].credential
    IN  /\ worker[w].pc = "rewrapping"
        /\ IF /\ connection[c].state = "active" /\ Unmoved(w) /\ connection[c].leaseOwner = w
              /\ connection[c].leaseKind = "rewrap" /\ connection[c].leaseExpires > t
              /\ credential[c][k] = "retained"
           THEN /\ credential' = [credential EXCEPT ![c][k] = "sealed"]
                /\ connection' = [connection EXCEPT ![c] = Unleased(@)]
           ELSE UNCHANGED <<connection, credential>>
        /\ Forget(w)
        /\ UNCHANGED <<controlVars, operation, budget, presented, revoked>>

RewrapStep(w, t) == FinishRewrap(w, t) \/ \E c \in Connection : ClaimRewrap(w, c, t)

\* The process stops; what it had read and what it was told is lost.
EndRound(w) ==
    /\ worker[w].pc # "idle" /\ Forget(w)
    /\ UNCHANGED <<controlVars, connection, credential, operation, budget, presented, revoked>>

-----------------------------------------------------------------------------
(* What operators, logins and other components do to a connection *)

\* A command waits neither for a lease nor for an intent: it is refused.
Commandable(c, t) == connection[c].intent = "none" /\ LeaseFree(c, t)

RequestSynchronize(c, t) ==
    /\ connection[c].state = "active" /\ Commandable(c, t) /\ t <= LastClaim
    /\ connection' = [connection EXCEPT ![c].next = t]
    /\ UNCHANGED <<controlVars, credential, operation, budget, worker, presented, revoked>>

RequestRevocation(c, t) ==
    /\ connection[c].state = "active" /\ connection[c].supports /\ Commandable(c, t)
    /\ connection[c].revision < MaxRevision
    /\ connection' = [connection EXCEPT ![c].revision = @ + 1, ![c].intent = "revoke"]
    /\ UNCHANGED <<controlVars, credential, operation, budget, worker, presented, revoked>>

\* What the provider can be told is left to a worker; the rest is done here.
Disconnect(c, t) ==
    /\ connection[c].state \in {"active", "reauth_required", "revoked"} /\ Commandable(c, t)
    /\ InBounds(c)
    /\ IF connection[c].state = "active" /\ connection[c].supports /\ CurrentAccessible(c)
       THEN /\ connection' = [connection EXCEPT ![c].revision = @ + 1, ![c].intent = "disconnect"]
            /\ UNCHANGED credential
       ELSE /\ credential' = Destroyed(c, connection[c].credential)
            /\ connection' = [connection EXCEPT ![c] = Ended(@, "disconnected")]
    /\ UNCHANGED <<controlVars, operation, budget, worker, presented, revoked>>

AllDestroyed(row) == [k \in Generation |-> IF row[k] = "none" THEN "none" ELSE "destroyed"]

\* A fresh credential: everything before it is gone, the owners are captured anew.
Renewed(row, next) ==
    [Unleased(row) EXCEPT !.state = "active", !.revision = @ + 1, !.generation = @ + 1,
                          !.credential = @ + 1, !.bound = row.generation + 1,
                          !.captured = ManagedSnapshot, !.next = next]

Superseded(op) == [op EXCEPT !.state = "superseded_by_login", !.owner = "none", !.expires = 0]

LoginAdmits(c) ==
    /\ connection[c].intent = "none" /\ ~connection[c].dispatched
    /\ connection[c].leaseKind # "revocation"

\* A login callback brings a credential; it is dropped when a revocation is under way.
LoginCallbackCredential(c, t) ==
    /\ \A o \in ManagedOwners \cup {"application"} : Active(o)
    /\ connection[c].linked /\ LoginAdmits(c) /\ InBounds(c)
    /\ operation' = [operation EXCEPT ![c] = [g \in Generation |->
                        IF /\ g = connection[c].generation /\ @[g].state \in OpenOperation
                           /\ @[g].credential = connection[c].credential
                        THEN Superseded(@[g]) ELSE @[g]]]
    /\ credential' = [credential EXCEPT ![c] =
                        [AllDestroyed(@) EXCEPT ![connection[c].credential + 1] = "sealed"]]
    /\ connection' = [connection EXCEPT ![c] =
                        [Renewed(@, t) EXCEPT !.supports = Revocable]]
    /\ UNCHANGED <<controlVars, budget, worker, presented, revoked>>

\* The credential's row must name the connection's generation.
UnlinkAdmits(c) == connection[c].bound = connection[c].generation

\* disconnect_managed_identity: the identity goes, and the credential with it.
UnlinkIdentity(c) ==
    /\ connection[c].state # "none" /\ connection[c].linked
    /\ connection[c].state = "disconnected" \/ (UnlinkAdmits(c) /\ InBounds(c))
    /\ LET row == connection[c]
       IN  IF row.state = "disconnected"
           THEN connection' = [connection EXCEPT ![c].linked = FALSE] /\ UNCHANGED credential
           ELSE /\ credential' = Destroyed(c, row.credential)
                /\ connection' = [connection EXCEPT ![c] =
                                    [Answered(row, "disconnected") EXCEPT !.linked = FALSE]]
    /\ UNCHANGED <<controlVars, operation, budget, worker, presented, revoked>>

\* Deleting the Project erases its credentials and abandons what was under way.
DeletionErases ==
    /\ credential' = [c \in Connection |-> AllDestroyed(credential[c])]
    /\ operation' = [c \in Connection |-> [g \in Generation |->
                       IF operation[c][g].state \in OpenOperation
                       THEN [operation[c][g] EXCEPT !.state = "abandoned", !.owner = "none",
                                                    !.expires = 0]
                       ELSE operation[c][g]]]
    /\ connection' = [c \in Connection |-> [Unleased(connection[c]) EXCEPT !.next = Never]]

ManagedControl ==
    /\ ControlNext
    /\ IF owner["project"].status # "closed" /\ owner'["project"].status = "closed"
       THEN DeletionErases
       ELSE UNCHANGED <<connection, credential, operation>>
    /\ UNCHANGED <<budget, worker, presented, revoked>>

ConnectionCommand(c, t) ==
    \/ RequestSynchronize(c, t) \/ RequestRevocation(c, t) \/ Disconnect(c, t)
    \/ LoginCallbackCredential(c, t) \/ UnlinkIdentity(c)
    \/ TerminalizeAmbiguousRevocation(c, t) \/ TerminalizeStaleRevocation(c)

WorkerStep(w, t) ==
    RenewalStep(w, t) \/ RevocationStep(w, t) \/ RewrapStep(w, t) \/ EndRound(w)

ManagedNext ==
    \/ ManagedControl
    \/ \E t \in ClockReading :
          \/ \E c \in Connection : ConnectionCommand(c, t)
          \/ \E w \in Worker : WorkerStep(w, t)

ManagedSpec == ManagedInit /\ [][ManagedNext]_managedAll

\* The worker loop goes round for ever: each round begins with the revocations whose
\* worker did not come back.  The clock advances; nothing else is assumed.
PassTime == Tick /\ ManagedControl

Recovery == \E c \in Connection : TerminalizeAmbiguousRevocation(c, now)

-----------------------------------------------------------------------------
(* Properties *)

\* A renewal consumes its credential at the provider.  However workers stop, lose
\* answers and take each other's operations up, a credential is presented by one
\* operation only, and once unless the adapter of the operation can replay it.
CredentialPresentedOnce ==
    \A c \in Connection : \A g \in Generation :
        /\ presented[c][g] > 1 => operation[c][g].replay
        /\ \A h \in Generation \ {g} :
              presented[c][g] > 0 /\ presented[c][h] > 0 =>
                 operation[c][g].credential # operation[c][h].credential

\* Provider material exists for the current credential of an active connection of a
\* linked identity only: no end of a connection, no replacement, no unlink and no
\* deletion of the Project, in whatever order with the workers, leaves a copy.
MaterialOnlyWhileActive ==
    \A c \in Connection : \A k \in Generation :
        Accessible(c, k) =>
            /\ connection[c].state = "active" /\ connection[c].credential = k
            /\ connection[c].linked /\ ~connection[c].dispatched
            /\ owner["project"].status # "closed"

\* A revocation reaches the provider at most once, and never while the credential it
\* revokes can still be used from here.
RevocationSentOnce ==
    \A c \in Connection : \A k \in Generation :
        revoked[c][k] > 0 => revoked[c][k] = 1 /\ ~Accessible(c, k)

\* One provider is asked about one connection at a time.
OneOutboundLease ==
    \A c, d \in Connection :
        connection[c].leaseExpires > now /\ connection[d].leaseExpires > now => c = d

ManagedSafe ==
    /\ ManagedTypeOK /\ CredentialPresentedOnce /\ MaterialOnlyWhileActive
    /\ RevocationSentOnce /\ OneOutboundLease

\* What a worker was told about one credential never ends or replaces another one:
\* a worker that comes back late leaves a connection that moved on as it is.
LateAnswersChangeNothing ==
    \A w \in Worker : \A c \in Connection :
        worker[w].job = c /\ worker'[w] # worker[w] /\ connection'[c].generation # connection[c].generation
           => worker[w].generation = connection[c].generation
              /\ worker[w].credential = connection[c].credential

\* A revocation that was dispatched is brought to an end, also when the worker that
\* sent it never comes back.
RevocationOpen == \E c \in Connection : connection[c].dispatched

\* An intent to revoke or to disconnect is for an active connection; spec/11 lets every
\* other state be left by reauthorization, by disconnecting or by a login.
IntentOwnsActive ==
    \A c \in Connection : connection[c].intent # "none" => connection[c].state = "active"

=============================================================================
