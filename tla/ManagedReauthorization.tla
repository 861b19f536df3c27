----------------------- MODULE ManagedReauthorization -----------------------
(***************************************************************************)
(* Managed reauthorization: an operator creates a short-lived interaction  *)
(* for one connection, a browser takes it to the provider, and its         *)
(* callback replaces the connection's credential.  The interaction freezes *)
(* the connection's revision and generation and every owner; while it is   *)
(* open, workers, operators and logins go on changing the connection.      *)
(*                                                                         *)
(* The create result, with the only copy of the hosted address, is kept    *)
(* for replays until the interaction's deadline and erased then.           *)
(***************************************************************************)
EXTENDS ManagedConnection

CONSTANTS
    Interaction,
    InteractionLife,  \* ten minutes
    LastCreate        \* bound: no interaction is created later

ReauthorizationAssumption ==
    InteractionLife \in Nat \ {0} /\ LastCreate \in Nat

VARIABLES
    interaction,  \* managed_provider_reauthorization_interactions
    created,      \* managed_reauthorization_create_results
    exchange,     \* the callback handler between its claim and its completion
    severed       \* history: interactions open when their connection was taken away

reauthVars == <<interaction, created, exchange, severed>>
reauthAll == <<managedAll, reauthVars>>

ReauthOwners == {"project", "provider", "user", "application", "egress"}
OpenStatus == {"awaiting_browser_binding", "awaiting_provider_start",
               "provider_authorization_started", "provider_exchange_in_progress"}
TerminalStatus == {"completed", "provider_exchange_failed", "expired", "cancelled"}

\* material is what can still authenticate a request: every digest ("full"), the
\* routing of a repeated callback ("routing"), or nothing.
InteractionRow == [status : OpenStatus \cup TerminalStatus \cup {"none"},
                   connection : Connection \cup {"none"}, revision : 0..MaxRevision,
                   generation : 0..Generations, credential : 0..Generations,
                   captured : [ReauthOwners -> Revision], expires : Nat,
                   material : {"none", "full", "routing"}]

ReauthTypeOK ==
    /\ interaction \in [Interaction -> InteractionRow]
    /\ created \in [Interaction -> {"none", "live", "erased"}]
    /\ exchange \in [Interaction -> BOOLEAN]
    /\ severed \subseteq Interaction

NoInteraction == [status |-> "none", connection |-> "none", revision |-> 0, generation |-> 0,
                  credential |-> 0, captured |-> [o \in ReauthOwners |-> 1], expires |-> 0,
                  material |-> "none"]

ReauthInit ==
    /\ ManagedInit
    /\ interaction = [i \in Interaction |-> NoInteraction]
    /\ created = [i \in Interaction |-> "none"]
    /\ exchange = [i \in Interaction |-> FALSE]
    /\ severed = {}

-----------------------------------------------------------------------------
(* The interaction *)

Open(i) == interaction[i].status \in OpenStatus
Alive(i, t) == interaction[i].expires > t

MutantIgnoresIntent(i) ==
    LET row == connection[interaction[i].connection]
    IN  row.generation = interaction[i].generation /\ row.credential = interaction[i].credential

\* The connection's part of the frozen authority.
ConnectionFrozen(i) ==
    LET row == connection[interaction[i].connection]
    IN  /\ row.revision = interaction[i].revision /\ row.generation = interaction[i].generation
        /\ row.credential = interaction[i].credential /\ row.intent = "none"

\* lock_and_classify_current_authority: every frozen owner, in lock order.
AuthorityCurrent(i, t) ==
    /\ \A o \in ReauthOwners \ {"egress"} : Active(o)
    /\ \A o \in ReauthOwners : owner[o].revision = interaction[i].captured[o]
    /\ connection[interaction[i].connection].linked /\ ConnectionFrozen(i) /\ Alive(i, t)

\* erase_result_for_interaction: not before the deadline, and then once.
ErasedAt(i, t) == IF Alive(i, t) THEN created[i] ELSE "erased"

\* scrub_terminal_material: a callback that may come again finds its way to the end
\* of a completed or failed interaction, until the deadline.
Scrubbed(i, status, t) ==
    [interaction[i] EXCEPT
       !.status = status,
       !.material = IF status \in {"completed", "provider_exchange_failed"} /\ Alive(i, t)
                    THEN "routing" ELSE "none"]

Terminate(i, status, t) ==
    /\ interaction' = [interaction EXCEPT ![i] = Scrubbed(i, status, t)]
    /\ created' = [created EXCEPT ![i] = ErasedAt(i, t)]

Create(i, c, t) ==
    /\ interaction[i].status = "none" /\ t <= LastCreate
    /\ \A o \in ReauthOwners \ {"egress"} : Active(o)
    /\ connection[c].state # "none" /\ connection[c].linked /\ Commandable(c, t)
    /\ interaction' = [interaction EXCEPT ![i] =
                         [status |-> "awaiting_browser_binding", connection |-> c,
                          revision |-> connection[c].revision,
                          generation |-> connection[c].generation,
                          credential |-> connection[c].credential,
                          captured |-> [o \in ReauthOwners |-> owner[o].revision],
                          expires |-> t + InteractionLife, material |-> "full"]]
    /\ created' = [created EXCEPT ![i] = "live"]
    /\ UNCHANGED <<managedAll, exchange, severed>>

\* expire_by_id: the deadline ends the interaction, or takes its routing away.
Expired(i, t) ==
    /\ interaction[i].status # "none" /\ ~Alive(i, t)
    /\ IF Open(i) THEN Terminate(i, "expired", t)
       ELSE IF interaction[i].material = "routing"
            THEN Terminate(i, interaction[i].status, t)
            ELSE UNCHANGED <<interaction, created>>

\* The create command comes again: it is answered from the stored result, or without
\* the address once that is gone.
ReplayCreate(i, t) ==
    /\ interaction[i].status # "none" /\ ~Alive(i, t) /\ created[i] = "live"
    /\ IF Open(i) THEN Terminate(i, "expired", t)
       ELSE /\ created' = [created EXCEPT ![i] = "erased"]
            /\ interaction' = [interaction EXCEPT ![i].material = "none"]
    /\ UNCHANGED <<managedAll, exchange, severed>>

Cancel(i, t) ==
    /\ Open(i) /\ interaction[i].status # "provider_exchange_in_progress" /\ Alive(i, t)
    /\ Terminate(i, "cancelled", t)
    /\ UNCHANGED <<managedAll, exchange, severed>>

BindBrowser(i, t) ==
    /\ interaction[i].status = "awaiting_browser_binding" /\ Alive(i, t)
    /\ interaction' = [interaction EXCEPT ![i].status = "awaiting_provider_start"]
    /\ UNCHANGED <<managedAll, created, exchange, severed>>

\* A request that comes with the deadline past finds the interaction expired.
LateRequest(i, t) ==
    /\ Open(i) \/ interaction[i].material = "routing"
    /\ Expired(i, t)
    /\ UNCHANGED <<managedAll, exchange, severed>>

StartProvider(i, t) ==
    /\ interaction[i].status = "awaiting_provider_start" /\ AuthorityCurrent(i, t)
    /\ interaction' = [interaction EXCEPT ![i].status = "provider_authorization_started"]
    /\ UNCHANGED <<managedAll, created, exchange, severed>>

\* The callback is claimed once; under a stale authority it fails, and the connection is
\* not touched.
ClaimCallback(i, t) ==
    /\ interaction[i].status = "provider_authorization_started" /\ Alive(i, t)
    /\ IF AuthorityCurrent(i, t)
       THEN /\ interaction' = [interaction EXCEPT ![i].status = "provider_exchange_in_progress"]
            /\ exchange' = [exchange EXCEPT ![i] = TRUE]
            /\ UNCHANGED created
       ELSE Terminate(i, "provider_exchange_failed", t) /\ UNCHANGED exchange
    /\ UNCHANGED <<managedAll, severed>>

DenyCallback(i, t) ==
    /\ interaction[i].status = "provider_authorization_started" /\ Alive(i, t)
    /\ Terminate(i, "provider_exchange_failed", t)
    /\ UNCHANGED <<managedAll, exchange, severed>>

\* The provider gave a credential for the very identity: it replaces the connection's,
\* in whatever state that is.  An open renewal is left to find itself superseded.
CompleteCallback(i, t) ==
    LET c == interaction[i].connection
    IN  /\ exchange[i] /\ interaction[i].status = "provider_exchange_in_progress"
        /\ AuthorityCurrent(i, t) /\ InBounds(c)
        /\ credential' = [credential EXCEPT ![c] =
                            [AllDestroyed(@) EXCEPT ![connection[c].credential + 1] = "sealed"]]
        /\ connection' = [connection EXCEPT ![c] =
                            [Renewed(@, t) EXCEPT !.supports = Revocable]]
        /\ Terminate(i, "completed", t)
        /\ exchange' = [exchange EXCEPT ![i] = FALSE]
        /\ UNCHANGED <<controlVars, operation, budget, worker, presented, revoked, severed>>

\* The exchange, the identity or the commit was refused; a row that somebody else
\* ended meanwhile is left alone.
FailCallback(i, t) ==
    /\ exchange[i]
    /\ IF interaction[i].status = "provider_exchange_in_progress"
       THEN Terminate(i, "provider_exchange_failed", t)
       ELSE UNCHANGED <<interaction, created>>
    /\ exchange' = [exchange EXCEPT ![i] = FALSE]
    /\ UNCHANGED <<managedAll, severed>>

\* The process stops before the callback is completed.
LoseExchange(i) ==
    /\ exchange[i] /\ exchange' = [exchange EXCEPT ![i] = FALSE]
    /\ UNCHANGED <<managedAll, interaction, created, severed>>

\* terminalize_unreadable_interactions: a key that the material needs is gone.
TerminalizeUnreadable(i, t) ==
    /\ Open(i) /\ Alive(i, t)
    /\ interaction' = [interaction EXCEPT ![i].status = "cancelled", ![i].material = "none"]
    /\ UNCHANGED <<managedAll, created, exchange, severed>>

Sweepable(i, t) ==
    /\ ~Alive(i, t)
    /\ \/ Open(i) \/ interaction[i].material = "routing"
       \/ interaction[i].status = "cancelled" /\ created[i] = "live"

TerminalizeExpired(i, t) ==
    /\ Sweepable(i, t)
    /\ interaction' = [interaction EXCEPT
                         ![i].status = IF Open(i) THEN "expired" ELSE @, ![i].material = "none"]
    /\ created' = [created EXCEPT ![i] = "erased"]
    /\ UNCHANGED <<managedAll, exchange, severed>>

-----------------------------------------------------------------------------
(* Composition *)

InteractionStep(i, t) ==
    \/ \E c \in Connection : Create(i, c, t)
    \/ ReplayCreate(i, t) \/ Cancel(i, t) \/ BindBrowser(i, t) \/ LateRequest(i, t)
    \/ StartProvider(i, t) \/ ClaimCallback(i, t) \/ DenyCallback(i, t)
    \/ CompleteCallback(i, t) \/ FailCallback(i, t) \/ LoseExchange(i)
    \/ TerminalizeUnreadable(i, t) \/ TerminalizeExpired(i, t)

\* The connection is taken away: a revocation or a disconnect is requested or done, or
\* the identity is unlinked.
TakenAway(c) ==
    \/ connection'[c].intent # "none" /\ connection[c].intent = "none"
    \/ connection'[c].state = "disconnected" /\ connection[c].state # "disconnected"
    \/ connection[c].linked /\ ~connection'[c].linked

ConnectionStep ==
    /\ ManagedNext
    /\ severed' = severed \cup {i \in Interaction : Open(i) /\ TakenAway(interaction[i].connection)}
    /\ UNCHANGED <<interaction, created, exchange>>

ReauthNext ==
    \/ ConnectionStep
    \/ \E t \in ClockReading : \E i \in Interaction : InteractionStep(i, t)

ReauthSpec == ReauthInit /\ [][ReauthNext]_reauthAll

\* The worker loop sweeps in every round.
PassMoreTime == Tick /\ ConnectionStep

Sweep == \E i \in Interaction : TerminalizeExpired(i, now)

-----------------------------------------------------------------------------
(* Properties *)

\* A callback never brings back what was taken away while its interaction was open:
\* it loses against a disconnect, a revocation and an unlink, however late it comes.
SeveredNeverCompletes ==
    \A i \in severed : interaction[i].status # "completed"

\* Two interactions of one connection, a login, a renewal and a callback compete for
\* one generation: at most one interaction replaces it.
OneReplacementPerGeneration ==
    \A i, j \in Interaction :
        /\ interaction[i].status = "completed" /\ interaction[j].status = "completed"
        /\ interaction[i].connection = interaction[j].connection
        /\ interaction[i].generation = interaction[j].generation
        => i = j

\* A create command that is repeated before the deadline finds its result; nothing
\* that ends the interaction, at whatever clock reading, erases it earlier, and what
\* could still authenticate a request does not outlive an end that needs no routing.
ResultKeptUntilDeadline ==
    \A i \in Interaction :
        /\ created[i] = "erased" => interaction[i].expires <= now /\ ~Open(i)
        /\ interaction[i].material = "full" => Open(i)
        /\ interaction[i].material = "routing" => created[i] = "live"

ReauthSafe ==
    /\ ReauthTypeOK /\ SeveredNeverCompletes /\ OneReplacementPerGeneration
    /\ ResultKeptUntilDeadline /\ MaterialOnlyWhileActive

\* Every interaction ends and every create result is erased, although browsers go away
\* and callback handlers stop half-way.
ReauthorizationOpen ==
    \E i \in Interaction : Open(i) \/ created[i] \notin {"none", "erased"}
                           \/ interaction[i].material # "none"
=============================================================================
