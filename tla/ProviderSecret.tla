--------------------------- MODULE ProviderSecret ---------------------------
(***************************************************************************)
(* The client registration of one upstream provider: how it is created and *)
(* how its client secret is replaced, while operators retry, race and give *)
(* up, and while logins are using the secret that is current.              *)
(*                                                                         *)
(* The secret is sealed outside the database, between a transaction that   *)
(* reserves a generation and its material and one that publishes them.     *)
(* The request digest of the operation leaves the secret out; whether a    *)
(* repeated request carries the same secret is decided by the fingerprint  *)
(* that is stored with the material when it goes live and kept when it is  *)
(* erased.  The secret itself stands for its fingerprint here.             *)
(***************************************************************************)
EXTENDS Naturals, FiniteSets

CONSTANTS
    Client,         \* Control requests in flight
    Login,          \* Runtime logins that use the provider
    Secret,         \* client secrets that operators submit
    Profile,        \* <<display name, client id>> of the registration
    Alias,          \* idempotency keys
    Operators,      \* the other operator commands of this instance
    Oidc,           \* the provider is a custom OIDC one (egress policy applies)
    MaxGeneration,  \* bound on secret generations
    MaxRevision     \* bound on every revision

ProviderSecretAssumption ==
    /\ Operators \subseteq {"update", "assign", "disable", "project", "delete", "egress", "abandon"}
    /\ Oidc \in BOOLEAN
    /\ {MaxGeneration, MaxRevision} \subseteq Nat \ {0}
    /\ "none" \notin Secret \cup Profile \cup Alias

VARIABLES
    project,    \* projects: status and metadata_revision
    egress,     \* project_provider_egress_policies.revision
    provider,   \* provider_configurations
    assigned,   \* application_provider_assignments: the Application may use it
    generation, \* provider_secret_generations: status of each
    material,   \* protected_materials of the generations
    operation,  \* provider_secret_operations by operation_alias
    client,     \* the requests in flight and their last answer
    login       \* the Runtime's logins

secretVars == <<project, egress, provider, assigned, generation, material,
                operation, client, login>>

Generation == 1..MaxGeneration
Revision == 1..MaxRevision

ProviderRow == [status : {"none", "provisioning", "active", "disabled"},
                revision : 0..MaxRevision, generation : 0..MaxGeneration,
                profile : Profile \cup {"none"}]
MaterialRow == [state : {"none", "pending", "live", "erased"},
                fingerprint : Secret \cup {"none"}]
\* digest: the fields of the request that request_digest covers are profile, kind
\* and egress.  expected: expected_project_revision of a creation and
\* expected_provider_revision of a replacement.  first is not stored: it remembers
\* the secret of the request that reserved the generation.
OperationRow == [state : {"none", "prepared", "completed", "abandoned"},
                 kind : {"none", "create", "replace"},
                 target : 0..MaxGeneration, profile : Profile \cup {"none"},
                 egress : 0..MaxRevision, expected : 0..MaxRevision,
                 first : Secret \cup {"none"}]
ClientRow == [step : {"idle", "sealing", "ok", "refused"}, alias : Alias \cup {"none"},
              secret : Secret \cup {"none"}, expected : 0..MaxRevision]
LoginRow == [step : {"idle", "started", "read", "opened", "redeemed", "failed"},
             revision : 0..MaxRevision, generation : 0..MaxGeneration,
             profile : Profile \cup {"none"}, secret : Secret \cup {"none"}]

SecretTypeOK ==
    /\ project \in [status : {"active", "disabled", "deleting"}, revision : Revision]
    /\ egress \in Revision
    /\ provider \in ProviderRow
    /\ assigned \in BOOLEAN
    /\ generation \in [Generation -> {"none", "pending", "active", "retired", "abandoned"}]
    /\ material \in [Generation -> MaterialRow]
    /\ operation \in [Alias -> OperationRow]
    /\ client \in [Client -> ClientRow]
    /\ login \in [Login -> LoginRow]

NoMaterial == [state |-> "none", fingerprint |-> "none"]
NoOperation == [state |-> "none", kind |-> "none", target |-> 0, profile |-> "none",
                egress |-> 0, expected |-> 0, first |-> "none"]
NoClient == [step |-> "idle", alias |-> "none", secret |-> "none", expected |-> 0]
NoLogin == [step |-> "idle", revision |-> 0, generation |-> 0, profile |-> "none",
            secret |-> "none"]

SecretInit ==
    /\ project = [status |-> "active", revision |-> 1]
    /\ egress = 1
    /\ provider = [status |-> "none", revision |-> 0, generation |-> 0, profile |-> "none"]
    /\ assigned = FALSE
    /\ generation = [g \in Generation |-> "none"]
    /\ material = [g \in Generation |-> NoMaterial]
    /\ operation = [a \in Alias |-> NoOperation]
    /\ client = [c \in Client |-> NoClient]
    /\ login = [l \in Login |-> NoLogin]

-----------------------------------------------------------------------------
(* Custody: the states of one protected material. *)

\* reserve_in_transaction: material ids are fresh, so a generation has one.
Reserve(g) == material' = [material EXCEPT ![g] = [NoMaterial EXCEPT !.state = "pending"]]

\* finalize_pending_material takes s for generation g: it is the first one, or
\* the one that is or was there.
Accepts(g, s) == material[g].state = "pending" \/ material[g].fingerprint = s

\* What finalize_pending_material leaves in generation g.
Finalized(g, s) ==
    IF material[g].state = "pending" THEN [state |-> "live", fingerprint |-> s]
                                     ELSE material[g]

\* erase_by_id_in_transaction keeps the fingerprint.
Erased(row) == IF row.state \in {"pending", "live"} THEN [row EXCEPT !.state = "erased"] ELSE row

-----------------------------------------------------------------------------
(* What the handlers share. *)

Pending(a) == operation[a].kind = "replace" /\ operation[a].state = "prepared"
NoPendingReplacement == \A a \in Alias : ~Pending(a)

ActiveProject == project.status = "active"
ActiveProvider == ActiveProject /\ provider.status = "active"

\* enforce_project_fence.
ProjectFence(r) == ActiveProject /\ project.revision = r

\* enforce_provider_egress_fence.
EgressFence(r) == r = 0 \/ egress = r

CurrentEgress == IF Oidc THEN egress ELSE 0

\* The provider moves on: every change of it that logins must notice.
BumpProvider(row) == row.revision < MaxRevision /\ provider' = [row EXCEPT !.revision = @ + 1]

Submit(c, a, s, r) ==
    client' = [client EXCEPT ![c] = [step |-> "sealing", alias |-> a, secret |-> s, expected |-> r]]

Answer(c, answer) == client' = [client EXCEPT ![c].step = answer]

\* The latest generation of the ledger.
Latest == CHOOSE g \in 0..MaxGeneration :
              /\ \A h \in Generation : h > g => generation[h] = "none"
              /\ g > 0 => generation[g] # "none"

-----------------------------------------------------------------------------
(* Creating the registration. *)

\* prepare_provider_stage, the first time: the provider key is taken.
ReserveProvider(c, a, s, p) ==
    /\ operation[a].state = "none"
    /\ ActiveProject /\ provider.status = "none"
    /\ provider' = [status |-> "provisioning", revision |-> 1, generation |-> 1, profile |-> p]
    /\ generation' = [generation EXCEPT ![1] = "pending"]
    /\ Reserve(1)
    /\ operation' = [operation EXCEPT ![a] =
                        [state |-> "prepared", kind |-> "create", target |-> 1, profile |-> p,
                         egress |-> CurrentEgress, expected |-> project.revision, first |-> s]]
    /\ Submit(c, a, s, project.revision)

\* prepare_provider_stage under an alias that was used: the digest is compared,
\* and an unfinished creation is fenced by the Project as it is now (the request
\* names its revision) and takes that revision over.
ReplayProvider(c, a, s, p) ==
    /\ operation[a].kind = "create" /\ operation[a].profile = p
    /\ \/ operation[a].state = "completed" /\ UNCHANGED operation
       \/ /\ operation[a].state = "prepared" /\ ActiveProject
          /\ operation' = [operation EXCEPT ![a].expected = project.revision]
    /\ Submit(c, a, s, project.revision)
    /\ UNCHANGED <<provider, generation, material>>

PrepareProvider(c) ==
    /\ client[c].step = "idle"
    /\ \E a \in Alias, s \in Secret, p \in Profile :
           ReserveProvider(c, a, s, p) \/ ReplayProvider(c, a, s, p)
    /\ UNCHANGED <<project, egress, assigned, login>>

\* reconcile_provider: the alias and the fields come from the rows, the secret is
\* entered again.
ReconcileProvider(c) ==
    /\ client[c].step = "idle" /\ ActiveProject
    /\ \E a \in Alias, s \in Secret :
           /\ \/ operation[a].state = "prepared" /\ provider.status = "provisioning"
              \/ operation[a].state = "completed"
           /\ ReplayProvider(c, a, s, provider.profile)
    /\ UNCHANGED <<project, egress, assigned, login>>

\* finalize_protected_provider_stage of a creation that is still open.
MayPublishProvider(c) ==
    LET o == operation[client[c].alias]
    IN /\ o.state = "prepared"
       /\ ProjectFence(client[c].expected) /\ EgressFence(o.egress)
       /\ o.expected = client[c].expected
       /\ provider.status = "provisioning" /\ provider.revision = 1

PublishProvider(c) ==
    /\ MayPublishProvider(c)
    /\ BumpProvider([provider EXCEPT !.status = "active"])
    /\ material' = [material EXCEPT ![1] = Finalized(1, client[c].secret)]
    /\ generation' = [generation EXCEPT ![1] = "active"]
    /\ operation' = [operation EXCEPT ![client[c].alias].state = "completed"]
    /\ Answer(c, "ok")

\* A creation that was completed is answered by comparing the fingerprint.
ReplayCompleted(c) ==
    LET o == operation[client[c].alias]
    IN /\ o.state = "completed" /\ Accepts(o.target, client[c].secret)
       /\ material' = [material EXCEPT ![o.target] = Finalized(o.target, client[c].secret)]
       /\ Answer(c, "ok")
       /\ UNCHANGED <<provider, generation, operation>>

FinalizeProvider(c) ==
    /\ client[c].step = "sealing" /\ operation[client[c].alias].kind = "create"
    /\ \/ PublishProvider(c)
       \/ ReplayCompleted(c)
       \/ /\ ~MayPublishProvider(c)
          /\ operation[client[c].alias].state = "completed"
                 => ~Accepts(operation[client[c].alias].target, client[c].secret)
          /\ Answer(c, "refused")
          /\ UNCHANGED <<provider, generation, material, operation>>
    /\ UNCHANGED <<project, egress, assigned, login>>

-----------------------------------------------------------------------------
(* Replacing the secret. *)

\* prepare_provider_secret_replacement_stage, the first time.
ReserveReplacement(c, a, s, p) ==
    /\ operation[a].state = "none"
    /\ ActiveProvider /\ NoPendingReplacement
    /\ Latest < MaxGeneration
    /\ Reserve(Latest + 1)
    /\ generation' = [generation EXCEPT ![Latest + 1] = "pending"]
    /\ operation' = [operation EXCEPT ![a] =
                        [state |-> "prepared", kind |-> "replace", target |-> Latest + 1,
                         profile |-> p, egress |-> 0, expected |-> provider.revision,
                         first |-> s]]
    /\ Submit(c, a, s, provider.revision)

\* The same request again, whatever became of the operation since.
ReplayReplacement(c, a, s, p) ==
    /\ ActiveProject
    /\ operation[a].kind = "replace" /\ operation[a].profile = p
    /\ Submit(c, a, s, operation[a].expected)
    /\ UNCHANGED <<generation, material, operation>>

PrepareReplacement(c) ==
    /\ client[c].step = "idle"
    /\ \E a \in Alias, s \in Secret, p \in Profile :
           ReserveReplacement(c, a, s, p) \/ ReplayReplacement(c, a, s, p)
    /\ UNCHANGED <<project, egress, provider, assigned, login>>

\* provider_secret_replacement_recovery_stage: the pending replacement that the
\* unchanged provider is waiting for.
Recoverable(a) ==
    /\ ActiveProvider /\ Pending(a)
    /\ operation[a].expected = provider.revision
    /\ operation[a].target > provider.generation

\* reconcile_provider_secret_replacement.
ReconcileReplacement(c) ==
    /\ client[c].step = "idle"
    /\ \E a \in Alias, s \in Secret :
           Recoverable(a) /\ ReplayReplacement(c, a, s, operation[a].profile)
    /\ UNCHANGED <<project, egress, provider, assigned, login>>

\* finalize_provider_secret_replacement_stage of a replacement that is still open.
MayPublishReplacement(c) ==
    LET o == operation[client[c].alias]
    IN /\ ActiveProvider
       /\ o.state = "prepared" /\ o.expected = client[c].expected
       /\ provider.revision = o.expected /\ provider.generation < o.target
       /\ generation[provider.generation] = "active" /\ generation[o.target] = "pending"
       /\ Accepts(o.target, client[c].secret)

\* The secret that was replaced is kept.
PublishReplacementMutant(c) ==
    LET o == operation[client[c].alias]
    IN /\ MayPublishReplacement(c)
       /\ BumpProvider([provider EXCEPT !.generation = o.target, !.profile = o.profile])
       /\ material' = [material EXCEPT ![o.target] = Finalized(o.target, client[c].secret)]
       /\ generation' = [generation EXCEPT ![provider.generation] = "retired",
                                           ![o.target] = "active"]
       /\ operation' = [operation EXCEPT ![client[c].alias].state = "completed"]
       /\ Answer(c, "ok")

PublishReplacement(c) ==
    LET o == operation[client[c].alias]
    IN /\ MayPublishReplacement(c)
       /\ BumpProvider([provider EXCEPT !.generation = o.target, !.profile = o.profile])
       /\ material' = [material EXCEPT ![o.target] = Finalized(o.target, client[c].secret),
                                       ![provider.generation] = Erased(@)]
       /\ generation' = [generation EXCEPT ![provider.generation] = "retired",
                                           ![o.target] = "active"]
       /\ operation' = [operation EXCEPT ![client[c].alias].state = "completed"]
       /\ Answer(c, "ok")

FinalizeReplacement(c) ==
    /\ client[c].step = "sealing" /\ operation[client[c].alias].kind = "replace"
    /\ \/ PublishReplacement(c)
       \/ ActiveProvider /\ ReplayCompleted(c)
       \/ /\ ~MayPublishReplacement(c)
          /\ ~ /\ ActiveProvider /\ operation[client[c].alias].state = "completed"
               /\ Accepts(operation[client[c].alias].target, client[c].secret)
          /\ Answer(c, "refused")
          /\ UNCHANGED <<provider, generation, material, operation>>
    /\ UNCHANGED <<project, egress, assigned, login>>

\* abandon_provider_secret_replacement_stage.
AbandonReplacement ==
    /\ "abandon" \in Operators
    /\ \E a \in Alias :
           /\ Recoverable(a) /\ generation[operation[a].target] = "pending"
           /\ material' = [material EXCEPT ![operation[a].target] = Erased(@)]
           /\ generation' = [generation EXCEPT ![operation[a].target] = "abandoned"]
           /\ operation' = [operation EXCEPT ![a].state = "abandoned"]
    /\ UNCHANGED <<project, egress, provider, assigned, client, login>>

\* The seal failed, the process died or the caller went away before the second
\* transaction; or the caller has read its answer.
LeaveRequest(c) ==
    /\ client[c].step # "idle"
    /\ client' = [client EXCEPT ![c] = NoClient]
    /\ UNCHANGED <<project, egress, provider, assigned, generation, material, operation, login>>

-----------------------------------------------------------------------------
(* The provider's other commands.  Each is refused while a replacement is     *)
(* pending and moves the provider's revision.                                 *)

UpdateProvider ==
    /\ "update" \in Operators
    /\ ActiveProvider /\ NoPendingReplacement
    /\ \E p \in Profile : BumpProvider([provider EXCEPT !.profile = p])
    /\ UNCHANGED <<project, egress, assigned, generation, material, operation, client, login>>

AssignProvider ==
    /\ "assign" \in Operators
    /\ ActiveProvider /\ NoPendingReplacement /\ ~assigned
    /\ BumpProvider(provider) /\ assigned' = TRUE
    /\ UNCHANGED <<project, egress, generation, material, operation, client, login>>

UnassignProvider ==
    /\ "assign" \in Operators
    /\ ActiveProvider /\ NoPendingReplacement /\ assigned
    /\ BumpProvider(provider) /\ assigned' = FALSE
    /\ UNCHANGED <<project, egress, generation, material, operation, client, login>>

DisableProvider ==
    /\ "disable" \in Operators
    /\ ActiveProvider /\ NoPendingReplacement
    /\ BumpProvider([provider EXCEPT !.status = "disabled"]) /\ assigned' = FALSE
    /\ UNCHANGED <<project, egress, generation, material, operation, client, login>>

UpdateProject ==
    /\ "project" \in Operators
    /\ ActiveProject /\ project.revision < MaxRevision
    /\ project' = [project EXCEPT !.revision = @ + 1]
    /\ UNCHANGED <<egress, provider, assigned, generation, material, operation, client, login>>

UpdateEgressPolicy ==
    /\ "egress" \in Operators
    /\ ActiveProject /\ egress < MaxRevision
    /\ egress' = egress + 1
    /\ UNCHANGED <<project, provider, assigned, generation, material, operation, client, login>>

\* delete_project erases every configuration secret of the Project.
EraseConfigurationSecrets ==
    material' = [g \in Generation |-> Erased(material[g])]

DeleteProject ==
    /\ "delete" \in Operators
    /\ ActiveProject
    /\ project' = [project EXCEPT !.status = "deleting"]
    /\ EraseConfigurationSecrets
    /\ UNCHANGED <<egress, provider, assigned, generation, operation, client, login>>

-----------------------------------------------------------------------------
(* A login at the Runtime. *)

\* The login captures the provider's revision.
BeginLogin(l) ==
    /\ login[l].step = "idle"
    /\ ActiveProvider /\ assigned
    /\ login' = [login EXCEPT ![l] = [NoLogin EXCEPT !.step = "started",
                                                     !.revision = provider.revision]]
    /\ UNCHANGED <<project, egress, provider, assigned, generation, material, operation, client>>

\* provider_runtime_context: the registration as it is, fenced by the revision.
ReadContext(l) ==
    /\ login[l].step = "started"
    /\ login' = [login EXCEPT ![l] =
                    IF provider.status = "active" /\ assigned /\ provider.revision = @.revision
                    THEN [@ EXCEPT !.step = "read", !.generation = provider.generation,
                                   !.profile = provider.profile]
                    ELSE [@ EXCEPT !.step = "failed"]]
    /\ UNCHANGED <<project, egress, provider, assigned, generation, material, operation, client>>

\* ProviderSecretResolver::resolve opens a live material only.
OpenSecret(l) ==
    /\ login[l].step = "read"
    /\ login' = [login EXCEPT ![l] =
                    IF material[@.generation].state = "live"
                    THEN [login[l] EXCEPT !.step = "opened",
                                          !.secret = material[login[l].generation].fingerprint]
                    ELSE [@ EXCEPT !.step = "failed"]]
    /\ UNCHANGED <<project, egress, provider, assigned, generation, material, operation, client>>

\* The code was exchanged with what was read; the handoff is fenced again.
RedeemHandoff(l) ==
    /\ login[l].step = "opened"
    /\ login' = [login EXCEPT ![l].step =
                    IF ActiveProvider /\ assigned /\ provider.revision = login[l].revision
                    THEN "redeemed" ELSE "failed"]
    /\ UNCHANGED <<project, egress, provider, assigned, generation, material, operation, client>>

ForgetLogin(l) ==
    /\ login[l].step \in {"redeemed", "failed"}
    /\ login' = [login EXCEPT ![l] = NoLogin]
    /\ UNCHANGED <<project, egress, provider, assigned, generation, material, operation, client>>

-----------------------------------------------------------------------------
ClientStep(c) ==
    \/ PrepareProvider(c) \/ ReconcileProvider(c) \/ FinalizeProvider(c)
    \/ PrepareReplacement(c) \/ ReconcileReplacement(c) \/ FinalizeReplacement(c)
    \/ LeaveRequest(c)

LoginStep(l) ==
    BeginLogin(l) \/ ReadContext(l) \/ OpenSecret(l) \/ RedeemHandoff(l) \/ ForgetLogin(l)

OperatorStep ==
    \/ AbandonReplacement \/ UpdateProvider \/ AssignProvider \/ UnassignProvider
    \/ DisableProvider \/ UpdateProject \/ UpdateEgressPolicy \/ DeleteProject

SecretNext ==
    \/ \E c \in Client : ClientStep(c)
    \/ \E l \in Login : LoginStep(l)
    \/ OperatorStep

SecretSpec == SecretInit /\ [][SecretNext]_secretVars

-----------------------------------------------------------------------------
(* Properties. *)

\* A configured provider of a Project that was not deleted has exactly one live
\* secret, that of the generation it points to, and the ledger says so: neither a
\* replay nor an abandonment erases the secret in use, and no old one survives.
OneLiveSecret ==
    /\ provider.status \in {"active", "disabled"} =>
           /\ generation[provider.generation] = "active"
           /\ \A g \in Generation \ {provider.generation} :
                  generation[g] # "active" /\ material[g].state # "live"
           /\ project.status # "deleting" => material[provider.generation].state = "live"
    /\ provider.status \in {"none", "provisioning"} =>
           \A g \in Generation : material[g].state # "live"

\* A caller that was told its request succeeded submitted the secret that was
\* stored, although the digest its alias is checked with leaves the secret out:
\* two callers with one alias and two secrets never both succeed.
SuccessMeansStored ==
    \A c \in Client : client[c].step = "ok" =>
        material[operation[client[c].alias].target].fingerprint = client[c].secret

\* A pending replacement can always be finished or given up: nothing moves the
\* provider on from under it.  (Every other command asks for pending ones first.)
PendingCanProceed ==
    ActiveProject => \A a \in Alias : Pending(a) =>
        /\ Recoverable(a)
        /\ \A b \in Alias : Pending(b) => b = a
        /\ generation[operation[a].target] = "pending"
        /\ material[operation[a].target] = [state |-> "pending", fingerprint |-> "none"]

\* What a login sends upstream is one registration: the client id and the secret
\* that belong to the revision it captured, never one of each.
ExchangeIsOneRegistration ==
    \A l \in Login : login[l].step = "opened" /\ login[l].revision = provider.revision =>
        /\ login[l].profile = provider.profile
        /\ login[l].secret = material[provider.generation].fingerprint

\* Once a Project is being deleted none of its secrets can be opened, whatever
\* request was between its two transactions at that time.
DeletionErases == project.status = "deleting" => \A g \in Generation : material[g].state # "live"

\* A secret that was erased stays erased and the record of which one it was stays
\* what it is; a generation that was retired or abandoned is never used again.
ErasedForGood ==
    \A g \in Generation :
        /\ material[g].state = "erased" => material'[g] = material[g]
        /\ material[g].state = "live" => material'[g].fingerprint = material[g].fingerprint
        /\ generation[g] \in {"retired", "abandoned"} => generation'[g] = generation[g]

SecretSafe ==
    /\ SecretTypeOK /\ OneLiveSecret /\ SuccessMeansStored
    /\ PendingCanProceed /\ ExchangeIsOneRegistration /\ DeletionErases
=============================================================================
