---------------------------- MODULE MCIdentities ----------------------------
(***************************************************************************)
(* Bounded instances of the modules about the identities of a user: the    *)
(* managed connection of an identity to its provider, its reauthorization, *)
(* the proofs an identity mutation collects, and what links, unlinks and   *)
(* merges do to users. One behaviour plays one scene: the component of the *)
(* scene is on stage and the variables of the others have the value Off. A *)
(* variable that two components call by the same name belongs to the one   *)
(* on stage. IdentityMutation and IdentityGraph are extended and rest in   *)
(* an initial state while they are off stage; their scenes share the sets  *)
(* and differ in the operations that are asked for.                        *)
(***************************************************************************)
EXTENDS IdentityMutation, IdentityGraph, TLC

CONSTANTS c1, c2, w1, w2, i1, i2, i3, u1, u2, u3, a1, a2, k1, k2, Off

VARIABLES
    scene,
    \* ManagedConnection
    time, rights, connection, credential, operation, budget, worker, presented, revoked,
    \* ManagedReauthorization
    interaction, begun, calls, severed,
    \* MutationAggregate
    asked, ways, deadline, stage, edition, tied, proof, proved

vars == <<scene, time, rights, connection, credential, operation, budget, worker,
           presented, revoked, interaction, begun, calls, severed, asked, ways, deadline,
           stage, edition, tied, proof, proved, now, owner, kind, method, intent, slot,
           receipt, challenge, evidence, created, exchange, prepared, accepted, user,
           identity, binding, token, signing, mutation>>

\* What the instances have in common: of managed connections,
Revocable == TRUE
Lease == 1
RetryDelay == 1
RenewalInterval == 1

\* and of users: one of them has two ways in.
Accounts == i1 :> u1 @@ i2 :> u1

\* A scene without second codes, and one with a single intent and two users.
NothingResent == \A r \in Role : prepared'[r] # 0 => Newest(r) = 0
OneMerge == /\ user'[u3] = user[u3]
            /\ mutation'[k2] = NoIntent

\* Off stage nobody has done anything yet.
MutationRests == MutationInit /\ kind = "unlink" /\ method["identity_owner"] = "email"
GraphRests == GraphInit /\ user[u1].primary = i1

\* One connection that two workers renew, revoke and protect while it is disconnected,
\* logged in again and unlinked; leases run out with the answer outstanding.
ManagedWorkers == INSTANCE ManagedConnection
    WITH Connection <- {"c1"}, Connected <- {"c1"}, Worker <- {w1, w2}, Generations <- 2,
         MaxRevision <- 3, ReplayModes <- BOOLEAN, ReadRetrySafe <- TRUE, LastClaim <- 1,
         Volatile <- {}, MaxTime <- 2, now <- time, owner <- rights

\* One worker, with the Project and the user changed under it.
ManagedOwners == INSTANCE ManagedConnection
    WITH Connection <- {"c1"}, Connected <- {"c1"}, Worker <- {"w1"}, Generations <- 2,
         MaxRevision <- 3, ReplayModes <- {FALSE}, ReadRetrySafe <- TRUE, LastClaim <- 1,
         Volatile <- {"project", "user", "profile"}, MaxTime <- 2, now <- time,
         owner <- rights

\* Two connections of one provider and two workers.
ManagedBudget == INSTANCE ManagedConnection
    WITH Connection <- {c1, c2}, Connected <- {c1, c2}, Worker <- {w1, w2},
         Generations <- 2, MaxRevision <- 2, ReplayModes <- {TRUE}, ReadRetrySafe <- FALSE,
         LastClaim <- 0, Volatile <- {}, MaxTime <- 1, now <- time, owner <- rights

\* Two interactions of one connection against operators, a login, an unlink and a
\* worker.
Reauth == INSTANCE ManagedReauthorization
    WITH Connection <- {"c1"}, Connected <- {"c1"}, Worker <- {"w1"}, Generations <- 2,
         MaxRevision <- 2, ReplayModes <- {FALSE}, ReadRetrySafe <- FALSE, LastClaim <- 0,
         Volatile <- {}, MaxTime <- 1, Interaction <- {w1, w2}, InteractionLife <- 1,
         LastCreate <- 0, now <- time, owner <- rights, created <- begun, exchange <- calls

\* The same with more that operators ask for, and no worker to do it.
ReauthIntent == INSTANCE ManagedReauthorization
    WITH Connection <- {"c1"}, Connected <- {"c1"}, Worker <- {}, Generations <- 2,
         MaxRevision <- 3, ReplayModes <- {FALSE}, ReadRetrySafe <- FALSE, LastClaim <- 0,
         Volatile <- {}, MaxTime <- 1, Interaction <- {w1, w2}, InteractionLife <- 1,
         LastCreate <- 0, now <- time, owner <- rights, created <- begun, exchange <- calls

\* Every mutation, with slots that can each be proved in either way.
Domain == INSTANCE MutationAggregate
    WITH Kinds <- {"link", "unlink", "merge"}, IntentLife <- 3, ReceiptLife <- 2,
         MaxTime <- 3, MaxRevision <- 12, now <- time, kind <- asked, method <- ways,
         expires <- deadline, status <- stage, revision <- edition, bound <- tied,
         slot <- proof, receipt <- proved

\* The codes of an unlink: resent, guessed, timed out, and the email method withdrawn.
MutationCodes == INSTANCE IdentityMutation
    WITH Kinds <- {"unlink"}, Methods <- {"email"}, MaxIntentRevision <- 8

\* Two slots, proved in different ways, and their confirmation; no code is sent twice.
MutationLink == INSTANCE IdentityMutation
    WITH Kinds <- {"link"}, Volatile <- {"metadata"}, MaxTime <- 2, IntentLife <- 2,
         ReceiptLife <- 1, MaxAttempts <- 1

\* Two users with sessions, and their merge.
GraphMerge == INSTANCE IdentityGraph
    WITH Registered <- i1 :> u1 @@ i2 :> u1 @@ i3 :> u2, Operations <- {"merge"},
         MaxGraphRevision <- 2

\* Three users and two merges at once, without sessions.
GraphMerges == INSTANCE IdentityGraph
    WITH Registered <- i1 :> u1 @@ i2 :> u2 @@ i3 :> u3, Operations <- {"merge"},
         MaxGraphRevision <- 3

ASSUME IdentitiesAssumption ==
    /\ ManagedWorkers!ManagedAssumption
    /\ ManagedOwners!ManagedAssumption
    /\ ManagedBudget!ManagedAssumption
    /\ Reauth!ReauthorizationAssumption
    /\ ReauthIntent!ReauthorizationAssumption
    /\ Domain!AggregateAssumption
    /\ MutationCodes!MutationAssumption
    /\ MutationLink!MutationAssumption
    /\ GraphAssumption
    /\ GraphMerge!GraphAssumption
    /\ GraphMerges!GraphAssumption

\* The variables of the components that are off stage, and that they have no value or
\* rest.
offManaged == <<interaction, begun, calls, severed, asked, ways, deadline, stage, edition,
                tied, proof, proved, now, owner, kind, method, intent, slot, receipt,
                challenge, evidence, created, exchange, prepared, accepted, user, identity,
                binding, token, signing, mutation>>
ManagedAlone == interaction = Off /\ begun = Off /\ calls = Off /\ severed = Off /\
                asked = Off /\ ways = Off /\ deadline = Off /\ stage = Off /\
                edition = Off /\ tied = Off /\ proof = Off /\ proved = Off /\
                MutationRests /\ GraphRests

offReauth == <<asked, ways, deadline, stage, edition, tied, proof, proved, now, owner,
               kind, method, intent, slot, receipt, challenge, evidence, created, exchange,
               prepared, accepted, user, identity, binding, token, signing, mutation>>
ReauthAlone == asked = Off /\ ways = Off /\ deadline = Off /\ stage = Off /\
               edition = Off /\ tied = Off /\ proof = Off /\ proved = Off /\
               MutationRests /\ GraphRests

offAggregate == <<rights, connection, credential, operation, budget, worker, presented,
                  revoked, interaction, begun, calls, severed, now, owner, kind, method,
                  intent, slot, receipt, challenge, evidence, created, exchange, prepared,
                  accepted, user, identity, binding, token, signing, mutation>>
AggregateAlone == rights = Off /\ connection = Off /\ credential = Off /\
                  operation = Off /\ budget = Off /\ worker = Off /\ presented = Off /\
                  revoked = Off /\ interaction = Off /\ begun = Off /\ calls = Off /\
                  severed = Off /\ MutationRests /\ GraphRests

offMutation == <<time, rights, connection, credential, operation, budget, worker,
                 presented, revoked, interaction, begun, calls, severed, asked, ways,
                 deadline, stage, edition, tied, proof, proved, user, identity, binding,
                 token, signing, mutation>>
MutationAlone == time = Off /\ rights = Off /\ connection = Off /\ credential = Off /\
                 operation = Off /\ budget = Off /\ worker = Off /\ presented = Off /\
                 revoked = Off /\ interaction = Off /\ begun = Off /\ calls = Off /\
                 severed = Off /\ asked = Off /\ ways = Off /\ deadline = Off /\
                 stage = Off /\ edition = Off /\ tied = Off /\ proof = Off /\
                 proved = Off /\ GraphRests

offGraph == <<time, rights, connection, credential, operation, budget, worker, presented,
              revoked, interaction, begun, calls, severed, asked, ways, deadline, stage,
              edition, tied, proof, proved, now, owner, kind, method, intent, slot,
              receipt, challenge, evidence, created, exchange, prepared, accepted>>
GraphAlone == time = Off /\ rights = Off /\ connection = Off /\ credential = Off /\
              operation = Off /\ budget = Off /\ worker = Off /\ presented = Off /\
              revoked = Off /\ interaction = Off /\ begun = Off /\ calls = Off /\
              severed = Off /\ asked = Off /\ ways = Off /\ deadline = Off /\
              stage = Off /\ edition = Off /\ tied = Off /\ proof = Off /\ proved = Off /\
              MutationRests

Init ==
    \/ /\ \/ scene = "managed_workers" /\ ManagedWorkers!ManagedInit
          \/ scene = "managed_owners" /\ ManagedOwners!ManagedInit
          \/ scene = "managed_budget" /\ ManagedBudget!ManagedInit
       /\ ManagedAlone
    \/ /\ \/ scene = "reauth" /\ Reauth!ReauthInit
          \/ scene = "reauth_intent" /\ ReauthIntent!ReauthInit
       /\ ReauthAlone
    \/ scene = "aggregate" /\ Domain!AggregateInit /\ AggregateAlone
    \/ /\ \/ scene = "mutation_codes" /\ MutationCodes!MutationInit
          \/ scene = "mutation_link" /\ MutationLink!MutationInit
       /\ MutationAlone
    \/ /\ \/ scene = "graph_unlink" /\ GraphInit
          \/ scene = "graph_merge" /\ GraphMerge!GraphInit
          \/ scene = "graph_merges" /\ GraphMerges!GraphInit
       /\ GraphAlone

Next ==
    /\ \/ scene = "managed_workers" /\ ManagedWorkers!ManagedNext /\ UNCHANGED offManaged
       \/ scene = "managed_owners" /\ ManagedOwners!ManagedNext /\ UNCHANGED offManaged
       \/ scene = "managed_budget" /\ ManagedBudget!ManagedNext /\ UNCHANGED offManaged
       \/ scene = "reauth" /\ Reauth!ReauthNext /\ UNCHANGED offReauth
       \/ scene = "reauth_intent" /\ ReauthIntent!ReauthNext /\ UNCHANGED offReauth
       \/ scene = "aggregate" /\ Domain!AggregateNext /\ UNCHANGED offAggregate
       \/ scene = "mutation_codes" /\ MutationCodes!MutationNext /\ UNCHANGED offMutation
       \/ scene = "mutation_link" /\ MutationLink!MutationNext /\ NothingResent /\ UNCHANGED offMutation
       \/ scene = "graph_unlink" /\ GraphNext /\ UNCHANGED token /\ UNCHANGED offGraph
       \/ scene = "graph_merge" /\ GraphMerge!GraphNext /\ OneMerge /\ UNCHANGED offGraph
       \/ scene = "graph_merges" /\ GraphMerges!GraphNext /\ UNCHANGED token /\ UNCHANGED offGraph
    /\ UNCHANGED scene

Spec == Init /\ [][Next]_vars

-----------------------------------------------------------------------------
(***************************************************************************)
(* claim_renewal, dispatch_revocation, unlink_managed_connection,          *)
(* complete_reauthorization: a credential is presented once unless its     *)
(* adapter can replay it, material exists only for the current credential  *)
(* of an active connection, a revocation is sent once, one lease per       *)
(* provider is outstanding, and a callback never brings back what was      *)
(* taken away.                                                             *)
(***************************************************************************)
ManagedSafe ==
    /\ scene = "managed_workers" => ManagedWorkers!ManagedSafe
    /\ scene = "managed_owners" => ManagedOwners!ManagedSafe
    /\ scene = "managed_budget" => ManagedBudget!ManagedSafe
    /\ scene = "reauth" => Reauth!ReauthSafe
    /\ scene = "reauth_intent" => ReauthIntent!ReauthSafe

(***************************************************************************)
(* confirm_control, complete, record_renewal_success, confirm_link: the    *)
(* handlers do to an intent only what the aggregate allows, which          *)
(* completes it with fresh proofs and ends it once; a late answer of a     *)
(* provider changes nothing that moved on; and an identity changes hands   *)
(* by a merge only.                                                        *)
(***************************************************************************)
IdentitiesMoveByRight ==
    [][/\ scene = "managed_workers" => ManagedWorkers!LateAnswersChangeNothing
       /\ scene = "aggregate" => Domain!MutationSafe' /\ Domain!MovesByRight
       /\ scene = "mutation_codes" => MutationCodes!MovesByRight
       /\ scene = "mutation_link" => MutationLink!MovesByRight
       /\ scene = "graph_unlink" => IdentityChangesHandsByMerge]_vars

(***************************************************************************)
(* spec/11: an intent to revoke or to disconnect is for an active          *)
(* connection.                                                             *)
(***************************************************************************)
IntentOwnsActive == scene = "managed_workers" => ManagedWorkers!IntentOwnsActive

\* Connections and Applications are interchangeable, and so are those who act on them.
Swap == c1 :> c2 @@ c2 :> c1 @@ a1 :> a2 @@ a2 :> a1
Symmetry == Permutations({w1, w2}) \cup {Swap}
=============================================================================
