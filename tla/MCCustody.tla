----------------------------- MODULE MCCustody ------------------------------
(***************************************************************************)
(* Bounded instances of the modules about material in custody: the signing *)
(* ring of a Project, the client secret of a provider, server keys, and    *)
(* the scan of all protected material when a process starts. They change   *)
(* different rows. One behaviour plays one scene: the component of the     *)
(* scene is on stage and the variables of the others have the value Off. A *)
(* variable that two components call by the same name belongs to the one   *)
(* on stage. ServerKey and CustodyInventory are extended and rest in an    *)
(* initial state while they are off stage.                                 *)
(***************************************************************************)
EXTENDS CustodyInventory, ServerKey, TLC

CONSTANTS k1, k2, w1, w2, c1, c2, s1, s2, p1, p2, a1, a2, a3, r1, r2, Off

VARIABLES
    scene,
    \* SigningRing
    owner, toggles, ring, signing, material, operation, object, tokens, worker,
    failures,
    \* ProviderSecret
    egress, provider, assigned, generation, client, login

vars == <<scene, owner, toggles, ring, signing, material, operation, object, tokens,
           worker, failures, egress, provider, assigned, generation, client, login,
           project, key, idem, caller, answers, shown, request, usage, walk, now, faults,
           row, revision, scan, outages>>

\* What the instances have in common: of signing rings,
Lease == 1
RetryDelay == 1
TokenLifetime == 1
VerificationRetention == 0
PropagationDelay == 0

\* of provider secrets,
Secret == {s1, s2}
Profile == {p1, p2}

\* and of the inventory: the kind of each material and the format that sealed it.
MaterialKind == [m \in Materials |-> IF m % 2 = 0 THEN "signing_key" ELSE "configuration_secret"]
MaterialFormat == [m \in Materials |-> IF m = 4 THEN "v2" ELSE "v1"]

\* Off stage the scan finds every material sealed by this deployment.
InventoryRests == InventoryInit /\ \A m \in StartLive : row[m].seal = "own"

\* Scenes with one operator and two server keys.
OneOperator == caller'[c2] = Idle /\ idem'[a3] = NoRecord /\ key'[3] = NoRow

\* Two workers carry two rotations through every failure of the provider while the
\* Project is disabled and enabled.
SigningWorkers == INSTANCE SigningRing
    WITH Key <- {k1, k2}, Worker <- {w1, w2}, Stable <- TRUE,
         Operators <- {"rotate", "toggle"},
         Faults <- {"invalid", "safe", "reconcile", "never", "unsupported"},
         MaxFaults <- 2, MaxToggles <- 2, project <- owner, key <- signing,
         faults <- failures

\* The same while an operator revokes keys at any moment.
SigningRevoke == INSTANCE SigningRing
    WITH Key <- {k1, k2}, Worker <- {w1, w2}, Stable <- TRUE,
         Operators <- {"rotate", "revoke"}, Faults <- {"reconcile"}, MaxFaults <- 1,
         MaxToggles <- 0, project <- owner, key <- signing, faults <- failures

\* Two requests create and replace the secret of a provider, under repeated idempotency
\* keys and with either secret, while operators abandon, disable and delete.
SecretRequests == INSTANCE ProviderSecret
    WITH Client <- {c1, c2}, Login <- {}, Alias <- {a1, a2, a3},
         Operators <- {"disable", "abandon", "delete"}, Oidc <- FALSE, MaxGeneration <- 3,
         MaxRevision <- 4, project <- owner

\* A login of a custom OIDC provider reads the registration while it is replaced.
SecretLogins == INSTANCE ProviderSecret
    WITH Client <- {c1}, Login <- {"l1"}, Alias <- {a1, a2},
         Operators <- {"update", "assign", "project", "egress", "delete"}, Oidc <- TRUE,
         MaxGeneration <- 2, MaxRevision <- 3, project <- owner

\* Two operators create, acknowledge and revoke server keys; an answer is lost and
\* identifiers collide.
KeyLifecycle == INSTANCE ServerKey
    WITH Versions <- {1}, MaxTime <- 1

\* Two requests of the Server API are authenticated while the key is revoked and the
\* Project disabled.
KeyUse == INSTANCE ServerKey
    WITH Attempts <- 1, MaxLosses <- 0, MaxCollisions <- 0

\* An operator pages through the keys while others are created.
KeyWalk == INSTANCE ServerKey
    WITH Attempts <- 1, Versions <- {1}, MaxLosses <- 0, MaxCollisions <- 0

ASSUME CustodyAssumption ==
    /\ SigningWorkers!SigningAssumption
    /\ SigningRevoke!SigningAssumption
    /\ SecretRequests!ProviderSecretAssumption
    /\ SecretLogins!ProviderSecretAssumption
    /\ KeyLifecycle!KeyAssumption
    /\ KeyUse!KeyAssumption
    /\ KeyWalk!KeyAssumption
    /\ InventoryAssumption

\* The variables of the components that are off stage, and that they have no value or
\* rest.
offSigning == <<egress, provider, assigned, generation, client, login, project, key, idem,
                caller, answers, shown, request, usage, walk, now, faults, row, revision,
                scan, outages>>
SigningAlone == egress = Off /\ provider = Off /\ assigned = Off /\ generation = Off /\
                client = Off /\ login = Off /\ KeyInit /\ InventoryRests

offSecret == <<toggles, ring, signing, object, tokens, worker, failures, project, key,
               idem, caller, answers, shown, request, usage, walk, now, faults, row,
               revision, scan, outages>>
SecretAlone == toggles = Off /\ ring = Off /\ signing = Off /\ object = Off /\
               tokens = Off /\ worker = Off /\ failures = Off /\ KeyInit /\ InventoryRests

offKey == <<owner, toggles, ring, signing, material, operation, object, tokens, worker,
            failures, egress, provider, assigned, generation, client, login, row, revision,
            scan, outages>>
KeyAlone == owner = Off /\ toggles = Off /\ ring = Off /\ signing = Off /\
            material = Off /\ operation = Off /\ object = Off /\ tokens = Off /\
            worker = Off /\ failures = Off /\ egress = Off /\ provider = Off /\
            assigned = Off /\ generation = Off /\ client = Off /\ login = Off /\
            InventoryRests

offInventory == <<owner, toggles, ring, signing, material, operation, object, tokens,
                  worker, failures, egress, provider, assigned, generation, client, login,
                  project, key, idem, caller, answers, shown, request, usage, walk, now,
                  faults>>
InventoryAlone == owner = Off /\ toggles = Off /\ ring = Off /\ signing = Off /\
                  material = Off /\ operation = Off /\ object = Off /\ tokens = Off /\
                  worker = Off /\ failures = Off /\ egress = Off /\ provider = Off /\
                  assigned = Off /\ generation = Off /\ client = Off /\ login = Off /\
                  KeyInit

Init ==
    \/ /\ \/ scene = "signing_workers" /\ SigningWorkers!SigningInit
          \/ scene = "signing_revoke" /\ SigningRevoke!SigningInit
       /\ SigningAlone
    \/ /\ \/ scene = "secret_requests" /\ SecretRequests!SecretInit
          \/ scene = "secret_logins" /\ SecretLogins!SecretInit
       /\ SecretAlone
    \/ /\ \/ scene = "key_lifecycle" /\ KeyLifecycle!KeyInit
          \/ scene = "key_use" /\ KeyUse!KeyInit
          \/ scene = "key_walk" /\ KeyWalk!KeyInit
       /\ KeyAlone
    \/ scene = "inventory" /\ InventoryInit /\ InventoryAlone

Next ==
    /\ \/ scene = "signing_workers" /\ SigningWorkers!SigningNext /\ UNCHANGED offSigning
       \/ scene = "signing_revoke" /\ SigningRevoke!SigningNext /\ UNCHANGED offSigning
       \/ scene = "secret_requests" /\ SecretRequests!SecretNext /\ UNCHANGED offSecret
       \/ scene = "secret_logins" /\ SecretLogins!SecretNext /\ UNCHANGED offSecret
       \/ scene = "key_lifecycle" /\ KeyLifecycle!KeyNext /\ UNCHANGED request /\ UNCHANGED offKey
       \/ scene = "key_use" /\ KeyUse!KeyNext /\ OneOperator /\ UNCHANGED offKey
       \/ scene = "key_walk" /\ KeyWalk!WalkNext /\ OneOperator /\ UNCHANGED request /\ UNCHANGED offKey
       \/ scene = "inventory" /\ InventoryNext /\ UNCHANGED offInventory
    /\ UNCHANGED scene

Spec == Init /\ [][Next]_vars

-----------------------------------------------------------------------------
(***************************************************************************)
(* prepare_signing_key, publish_signing_key, transition_signing_key,       *)
(* record_signing_provider_result: at most one key signs and one is on its *)
(* way, a key that is published or signs has its handle and its object,    *)
(* what a token needs is published, and an operation that ended without a  *)
(* key left nothing behind at the provider.                                *)
(***************************************************************************)
SigningSafe ==
    /\ scene = "signing_workers" => SigningWorkers!SigningSafe /\ SigningWorkers!NothingLeftBehind
    /\ scene = "signing_revoke" => SigningRevoke!SigningSafe

(***************************************************************************)
(* prepare_provider, finalize_provider_secret, abandon_secret_replacement: *)
(* one live secret, that of the generation the provider points to; who is  *)
(* told of success submitted it; a pending replacement can be finished or  *)
(* given up; and a login sends one registration upstream.                  *)
(***************************************************************************)
SecretSafe ==
    /\ scene = "secret_requests" => SecretRequests!SecretSafe
    /\ scene = "secret_logins" => SecretLogins!SecretSafe

(***************************************************************************)
(* submit_signing_provision, erase_material, advance_epoch: the object of  *)
(* the provider is made or destroyed only for an operation that says so in *)
(* the database, the epoch moves with the key that signs, and a secret     *)
(* that was erased or retired never comes back.                            *)
(***************************************************************************)
LedgerFirst ==
    [][/\ scene = "signing_workers" => SigningWorkers!EffectsAreAnnounced
       /\ scene = "signing_revoke" => SigningRevoke!EpochFollowsActiveKey
       /\ scene = "secret_requests" => SecretRequests!ErasedForGood]_vars

\* Those who act in pairs are interchangeable, and so are the secrets and profiles they send.
Actors == w1 :> w2 @@ w2 :> w1 @@ c1 :> c2 @@ c2 :> c1 @@ r1 :> r2 @@ r2 :> r1
Values == s1 :> s2 @@ s2 :> s1 @@ p1 :> p2 @@ p2 :> p1
Symmetry == Permutations({a1, a2, a3}) \cup {Actors, Values}
=============================================================================
