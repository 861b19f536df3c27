---------------------------- MODULE SigningRing -----------------------------
(***************************************************************************)
(* A Project's key ring: how a signing key is obtained from a key provider *)
(* outside the database, published, made the active key, kept for as long  *)
(* as tokens signed with it may be verified, and given up.                 *)
(*                                                                         *)
(* The provider is called between two transactions.  A key_provisioning_   *)
(* operations row says how far the call may have come: "submitted" is      *)
(* committed before the first call, the answer is recorded under the lease *)
(* that the call was made with, and whoever finds a lapsed lease asks the  *)
(* provider what became of it.  An object that is not wanted any more is   *)
(* destroyed at the provider before its handle is erased here.             *)
(*                                                                         *)
(* Time passes in ticks; leases, retry delays and verification windows are *)
(* the number of ticks they have left.                                     *)
(***************************************************************************)
EXTENDS Naturals, FiniteSets

CONSTANTS
    Key,            \* the keys that can ever be prepared (LIST_LIMIT of them)
    Worker,         \* Control replicas running the maintenance of keys
    Stable,         \* the provider keeps an object per operation (StableOperation)
    Operators,      \* the operator commands of this instance
    Faults,         \* the failures that provider calls may end with
    MaxFaults,      \* bound on failed provider calls and crashes
    MaxToggles,     \* bound on how often the Project is disabled and enabled
    Lease, RetryDelay,
    TokenLifetime, VerificationRetention, PropagationDelay

SigningAssumption ==
    /\ Stable \in BOOLEAN
    /\ Operators \subseteq {"rotate", "revoke", "toggle", "delete"}
    /\ Faults \subseteq {"invalid", "safe", "reconcile", "never", "unsupported"}
    /\ {MaxFaults, MaxToggles, VerificationRetention, PropagationDelay} \subseteq Nat
    /\ {Lease, RetryDelay, TokenLifetime} \subseteq Nat \ {0}
    /\ "none" \notin Worker \cup Key

VARIABLES
    project,    \* projects.status; "gone" once the row is deleted
    toggles,    \* how often the Project was disabled or enabled
    ring,       \* project_key_rings: revision and signing epoch
    key,        \* project_signing_keys
    material,   \* protected_materials of the keys
    operation,  \* key_provisioning_operations
    object,     \* object[k]: whether the provider holds an object for k
    tokens,     \* tokens[k]: for how long some token signed with k is valid
    worker,     \* the workers' memory
    faults      \* failed provider calls and crashes so far

signingVars == <<project, toggles, ring, key, material, operation, object, tokens, worker, faults>>

KeyState == {"none", "provisioning", "published", "active", "retiring",
             "retired", "revoked", "abandoned"}
OpenState == {"prepared", "submitted", "stored", "cleanup_pending", "cleanup_leased"}
EndState == {"completed", "failed", "abandoned", "cleanup_blocked"}
Retention == TokenLifetime + VerificationRetention + PropagationDelay

ProviderCall == {"provision", "inspect", "cleanup", "destroy"}
ProviderAnswer == {"none", "ok", "absent"} \cup Faults

\* jwk: the public key was recorded.  verify: the ticks until verify_not_after.
KeyRow == [state : KeyState, jwk : BOOLEAN, verify : 0..Retention]
\* never: last_retry_classification is "never".  ringRevision: expected_ring_revision.
OperationRow == [state : OpenState \cup EndState \cup {"none"}, holder : Worker \cup {"none"},
                 lease : 0..Lease, wait : 0..RetryDelay, never : BOOLEAN, ringRevision : Nat]
WorkerRow == [call : ProviderCall \cup {"none"}, key : Key \cup {"none"},
              lease : 0..Lease, answer : ProviderAnswer]

SigningTypeOK ==
    /\ project \in {"active", "disabled", "deleting", "gone"}
    /\ toggles \in 0..MaxToggles /\ faults \in 0..MaxFaults
    /\ ring \in [revision : Nat \ {0}, epoch : Nat \ {0}]
    /\ key \in [Key -> KeyRow]
    /\ material \in [Key -> {"none", "pending", "live", "erased"}]
    /\ operation \in [Key -> OperationRow]
    /\ object \in [Key -> BOOLEAN]
    /\ tokens \in [Key -> 0..TokenLifetime]
    /\ worker \in [Worker -> WorkerRow]

NoKey == [state |-> "none", jwk |-> FALSE, verify |-> 0]
NewKey == [NoKey EXCEPT !.state = "provisioning"]
NoOperation == [state |-> "none", holder |-> "none", lease |-> 0, wait |-> 0,
                never |-> FALSE, ringRevision |-> 0]
NewOperation(revision) == [NoOperation EXCEPT !.state = "prepared", !.ringRevision = revision]
IdleWorker == [call |-> "none", key |-> "none", lease |-> 0, answer |-> "none"]
NewRing == [revision |-> 1, epoch |-> 1]

\* Creating the Project commits the intent to provision its first key.
CreateProject(k) ==
    /\ project = "active"
    /\ ring = NewRing
    /\ key = [x \in Key |-> IF x = k THEN NewKey ELSE NoKey]
    /\ material = [x \in Key |-> IF x = k THEN "pending" ELSE "none"]
    /\ operation = [x \in Key |-> IF x = k THEN NewOperation(1) ELSE NoOperation]

SigningInit ==
    /\ CreateProject(CHOOSE k \in Key : TRUE)
    /\ object = [k \in Key |-> FALSE]
    /\ tokens = [k \in Key |-> 0]
    /\ worker = [w \in Worker |-> IdleWorker]
    /\ toggles = 0 /\ faults = 0

-----------------------------------------------------------------------------
(* What the handlers share. *)

\* An operation whose lease was given back is open to whoever comes next.
Released(row, state) == [row EXCEPT !.state = state, !.holder = "none", !.lease = 0]

\* ensure_signing_provider_lease: w still holds the operation it works on.
HoldsLease(w) ==
    LET k == worker[w].key
    IN operation[k].holder = w /\ operation[k].lease > 0

Bump(epochToo) == [revision |-> ring.revision + 1,
                   epoch |-> IF epochToo THEN ring.epoch + 1 ELSE ring.epoch]

\* SigningKeyState::transition.
MayBecome(from, to) ==
    <<from, to>> \in {<<"provisioning", "published">>, <<"provisioning", "abandoned">>,
                      <<"provisioning", "revoked">>, <<"published", "active">>,
                      <<"published", "abandoned">>, <<"published", "revoked">>,
                      <<"active", "retiring">>, <<"active", "revoked">>,
                      <<"retiring", "retired">>, <<"retiring", "revoked">>}

Candidate == {"provisioning", "published"}
Usable == {"published", "active", "retiring"}

-----------------------------------------------------------------------------
(* Operators. *)

\* request_signing_key_rotation.  A request that was made before is answered with
\* what it prepared then and changes nothing.
PrepareSigningKey(k) ==
    /\ project = "active" /\ key[k].state = "none"
    /\ \A x \in Key : key[x].state \notin Candidate
    /\ key' = [key EXCEPT ![k] = NewKey]
    /\ material' = [material EXCEPT ![k] = "pending"]
    /\ operation' = [operation EXCEPT ![k] = NewOperation(ring.revision)]
    /\ UNCHANGED <<project, toggles, ring, object, tokens, worker, faults>>

RequestRotation ==
    /\ "rotate" \in Operators
    /\ \E k \in Key : PrepareSigningKey(k)

\* abandon_signing_key_operation: what the provider may hold is cleaned up first.
MustClean(k) == operation[k].state \in {"submitted", "stored", "cleanup_pending"}
AbandonOperation(k) ==
    /\ operation[k].state \in {"prepared", "submitted", "stored", "cleanup_pending", "failed"}
    /\ operation' = [operation EXCEPT ![k] = [Released(@, IF MustClean(k) THEN "cleanup_pending"
                                                           ELSE "abandoned") EXCEPT !.wait = 0]]
    /\ material' = IF MustClean(k) THEN material ELSE [material EXCEPT ![k] = "erased"]

\* transition_signing_key to "revoked".  The caller's revision of the ring is
\* compared under its lock: a command that lost a race changes nothing.
TransitionRevoked(k) ==
    /\ project # "gone" /\ MayBecome(key[k].state, "revoked")
    /\ IF key[k].state = "provisioning"
       THEN AbandonOperation(k) /\ key' = [key EXCEPT ![k].state = "abandoned"]
       ELSE key' = [key EXCEPT ![k].state = "revoked"] /\ UNCHANGED <<operation, material>>
    /\ ring' = Bump(TRUE)
    /\ UNCHANGED <<project, toggles, object, tokens, worker, faults>>

RevokeSigningKey(k) == "revoke" \in Operators /\ TransitionRevoked(k)

DisableProject ==
    /\ project = "active" /\ toggles < MaxToggles /\ "toggle" \in Operators
    /\ project' = "disabled" /\ toggles' = toggles + 1
    /\ UNCHANGED <<ring, key, material, operation, object, tokens, worker, faults>>

EnableProject ==
    /\ project = "disabled" /\ toggles < MaxToggles
    /\ project' = "active" /\ toggles' = toggles + 1
    /\ UNCHANGED <<ring, key, material, operation, object, tokens, worker, faults>>

\* delete_project turns every operation whose material is left into cleanup.
DeleteProject ==
    /\ project \in {"active", "disabled"} /\ "delete" \in Operators
    /\ project' = "deleting"
    /\ operation' = [k \in Key |->
           IF material[k] \in {"pending", "live"} /\ operation[k].state \in
                OpenState \cup {"completed", "failed"}
           THEN [Released(operation[k], "cleanup_pending") EXCEPT !.wait = 0]
           ELSE operation[k]]
    /\ UNCHANGED <<toggles, ring, key, material, object, tokens, worker, faults>>

\* owlauth_finalize_project_deletion, called at the end of every maintenance pass.
\* The rows go with the Project; they are kept here to say what they were.
FinalizeDeletion ==
    /\ project = "deleting"
    /\ \A k \in Key : /\ material[k] \notin {"pending", "live"}
                      /\ operation[k].state \notin OpenState \cup {"cleanup_blocked"}
    /\ project' = "gone"
    /\ UNCHANGED <<toggles, ring, key, material, operation, object, tokens, worker, faults>>

-----------------------------------------------------------------------------
(* Maintenance.  A pass picks due operations, published keys and retiring   *)
(* keys past their window; what it picked is read again by every step.      *)

\* The due operations of signing_key_maintenance_items: the lease has lapsed and
\* the retry delay is over.
Due(k) ==
    /\ project # "gone" /\ operation[k].state \in OpenState
    /\ operation[k].lease = 0 /\ operation[k].wait = 0

\* claim_signing_provider_action finds nothing submitted for an inactive Project.
GiveUpPrepared(k) ==
    /\ Due(k) /\ operation[k].state = "prepared" /\ project # "active"
    /\ TransitionRevoked(k)

\* The call is made before "submitted" is committed.
ClaimedStateMutant(k) == IF operation[k].state \in {"prepared", "submitted"} THEN operation[k].state
                                                                         ELSE "cleanup_leased"

\* claim_signing_provider_action: state and lease are committed before the call.
ClaimedState(k) == IF operation[k].state \in {"prepared", "submitted"} THEN "submitted"
                                                                     ELSE "cleanup_leased"
CallFor(k) == CASE operation[k].state = "prepared" -> "provision"
                [] operation[k].state = "submitted" -> "inspect"
                [] OTHER -> "cleanup"
ClaimProviderAction(w, k) ==
    /\ worker[w] = IdleWorker /\ Due(k) /\ operation[k].state # "stored"
    /\ operation[k].state = "prepared" => project = "active"
    /\ operation' = [operation EXCEPT ![k].state = ClaimedState(k), ![k].holder = w,
                                      ![k].lease = Lease, ![k].wait = 0]
    /\ worker' = [worker EXCEPT ![w] = [call |-> CallFor(k), key |-> k,
                                        lease |-> Lease, answer |-> "none"]]
    /\ UNCHANGED <<project, toggles, ring, key, material, object, tokens, faults>>

-----------------------------------------------------------------------------
(* The provider.  A request to provision takes effect within the lease it   *)
(* was made under or not at all; a failure with an uncertain outcome may    *)
(* have taken effect.                                                       *)

Calling(w, call) == worker[w].call = call /\ worker[w].answer = "none"
Answer(w, a) == worker' = [worker EXCEPT ![w].answer = a]
Uncertain == {"reconcile", "never"}

Fails(w, answers) ==
    /\ faults < MaxFaults
    /\ faults' = faults + 1
    /\ \E a \in answers \cap Faults : Answer(w, a)

\* The same operation never gets a second object.
CallProvision(w) ==
    /\ Calling(w, "provision") /\ worker[w].lease > 0
    /\ LET k == worker[w].key
           made == [object EXCEPT ![k] = Stable]
       IN \/ object' = made /\ Answer(w, "ok") /\ UNCHANGED faults
          \/ object' = made /\ Fails(w, {"invalid"})
          \/ object' = object /\ Fails(w, {"safe"})
          \/ object' \in {object, made} /\ Fails(w, Uncertain)
    /\ UNCHANGED <<project, toggles, ring, key, material, operation, tokens>>

CallInspect(w) ==
    /\ Calling(w, "inspect") \/ Calling(w, "cleanup")
    /\ \/ Answer(w, IF object[worker[w].key] THEN "ok" ELSE "absent") /\ UNCHANGED faults
       \/ object[worker[w].key] /\ worker[w].call = "inspect" /\ Fails(w, {"invalid"})
       \/ Fails(w, {"safe"} \cup Uncertain)
    /\ UNCHANGED <<project, toggles, ring, key, material, operation, object, tokens>>

CallDestroy(w) ==
    /\ Calling(w, "destroy")
    /\ LET destroyed == [object EXCEPT ![worker[w].key] = FALSE]
       IN \/ object' = destroyed /\ Answer(w, "ok") /\ UNCHANGED faults
          \/ object' = object /\ Fails(w, {"unsupported", "safe"})
          \/ object' \in {object, destroyed} /\ Fails(w, Uncertain)
    /\ UNCHANGED <<project, toggles, ring, key, material, operation, tokens>>

-----------------------------------------------------------------------------
(* What the worker records of the answer.  An answer that comes back under  *)
(* a lease that was lost is dropped: Dismiss.                               *)

Answered(w, call, answers) == worker[w].call = call /\ worker[w].answer \in answers
Dismiss(w) == worker' = [worker EXCEPT ![w] = IdleWorker]

\* An uncertain provisioning is taken for one that had no effect.
AfterFailureMutant(call, answer) ==
    CASE call = "provision" -> IF answer # "never" THEN "prepared" ELSE "submitted"
      [] call = "inspect" -> IF answer = "never" THEN "cleanup_blocked" ELSE "submitted"
      [] OTHER -> IF answer = "never" THEN "cleanup_blocked" ELSE "cleanup_pending"

\* record_signing_provider_failure.
AfterFailure(call, answer) ==
    CASE call = "provision" -> IF answer = "safe" THEN "prepared" ELSE "submitted"
      [] call = "inspect" -> IF answer = "never" THEN "cleanup_blocked" ELSE "submitted"
      [] OTHER -> IF answer = "never" THEN "cleanup_blocked" ELSE "cleanup_pending"
RecordFailure(w) ==
    /\ worker[w].answer \in {"safe"} \cup Uncertain /\ HoldsLease(w)
    /\ LET k == worker[w].key
           never == worker[w].answer = "never"
       IN operation' = [operation EXCEPT ![k] =
              [Released(@, AfterFailure(worker[w].call, worker[w].answer)) EXCEPT
                  !.wait = IF never THEN 0 ELSE RetryDelay, !.never = never]]
    /\ Dismiss(w)
    /\ UNCHANGED <<project, toggles, ring, key, material, object, tokens, faults>>

\* record_signing_provider_absence: the call that was lost had no effect.
RecordAbsence(w) ==
    /\ Answered(w, "inspect", {"absent"}) /\ HoldsLease(w)
    /\ LET k == worker[w].key
           terminal == project # "active" \/ operation[k].never
       IN /\ operation[k].state = "submitted"
          /\ operation' = [operation EXCEPT ![k] =
                 [Released(@, IF terminal THEN "failed" ELSE "prepared") EXCEPT
                     !.never = terminal /\ @]]
    /\ Dismiss(w)
    /\ UNCHANGED <<project, toggles, ring, key, material, object, tokens, faults>>

\* queue_signing_provider_cleanup: the key that came back cannot be used.
QueueCleanup(w) ==
    /\ worker[w].answer = "invalid" /\ HoldsLease(w)
    /\ operation[worker[w].key].state = "submitted"
    /\ operation' = [operation EXCEPT ![worker[w].key] = Released(@, "cleanup_pending")]
    /\ Dismiss(w)
    /\ UNCHANGED <<project, toggles, ring, key, material, object, tokens, faults>>

\* record_protected_signing_key_material, in a Project that was disabled meanwhile
\* only to be cleaned up.
RecordMaterial(w) ==
    /\ worker[w].call \in {"provision", "inspect"} /\ worker[w].answer = "ok" /\ HoldsLease(w)
    /\ LET k == worker[w].key
       IN /\ operation[k].state = "submitted" /\ key[k].state = "provisioning"
          /\ key' = [key EXCEPT ![k].jwk = TRUE]
          /\ material' = [material EXCEPT ![k] = "live"]
          /\ operation' = [operation EXCEPT ![k] =
                 Released(@, IF project = "active" THEN "stored" ELSE "cleanup_pending")]
    /\ Dismiss(w)
    /\ UNCHANGED <<project, toggles, ring, object, tokens, faults>>

\* The object that cleanup found is destroyed next.
DestroyFound(w) ==
    /\ Answered(w, "cleanup", {"ok"})
    /\ worker' = [worker EXCEPT ![w].call = "destroy", ![w].answer = "none"]
    /\ UNCHANGED <<project, toggles, ring, key, material, operation, object, tokens, faults>>

\* complete_signing_provider_cleanup with nothing left at the provider.
CompleteCleanup(w) ==
    /\ Answered(w, "cleanup", {"absent"}) \/ Answered(w, "destroy", {"ok"})
    /\ HoldsLease(w)
    /\ LET k == worker[w].key
           given == key[k].state = "provisioning" /\ project # "deleting"
       IN /\ operation[k].state = "cleanup_leased"
          /\ project = "deleting" \/ key[k].state \in {"provisioning", "abandoned"}
          /\ operation' = [operation EXCEPT ![k] = Released(@, "abandoned")]
          /\ material' = [material EXCEPT ![k] = "erased"]
          /\ key' = IF given THEN [key EXCEPT ![k].state = "abandoned"] ELSE key
          /\ ring' = IF given THEN Bump(TRUE) ELSE ring
    /\ Dismiss(w)
    /\ UNCHANGED <<project, toggles, object, tokens, faults>>

\* complete_signing_provider_cleanup for a provider that cannot destroy.
BlockCleanup(w) ==
    /\ Answered(w, "destroy", {"unsupported"}) /\ HoldsLease(w)
    /\ operation[worker[w].key].state = "cleanup_leased"
    /\ operation' = [operation EXCEPT ![worker[w].key] = Released(@, "cleanup_blocked")]
    /\ Dismiss(w)
    /\ UNCHANGED <<project, toggles, ring, key, material, object, tokens, faults>>

RecordAnswer(w) ==
    \/ RecordFailure(w) \/ RecordAbsence(w) \/ QueueCleanup(w) \/ RecordMaterial(w)
    \/ DestroyFound(w) \/ CompleteCleanup(w) \/ BlockCleanup(w)

\* The lease was lost, or the replica crashes: nothing is recorded.
LoseWork(w) ==
    /\ worker[w] # IdleWorker
    /\ \/ worker[w].answer # "none" /\ ~HoldsLease(w) /\ UNCHANGED faults
       \/ worker[w].lease = 0 /\ UNCHANGED faults
       \/ worker[w].lease > 0 /\ faults < MaxFaults /\ faults' = faults + 1
    /\ Dismiss(w)
    /\ UNCHANGED <<project, toggles, ring, key, material, operation, object, tokens>>

-----------------------------------------------------------------------------
(* Publication, activation and retirement. *)

\* publish_signing_key: a candidate of a disabled Project, or prepared for an older
\* revision of the ring, is cleaned up instead.
PublishSigningKey(k) ==
    /\ project # "gone" /\ operation[k].state = "stored"
    /\ IF project # "active" \/ (key[k].state = "provisioning" /\ operation[k].ringRevision # ring.revision)
       THEN operation' = [operation EXCEPT ![k].state = "cleanup_pending", ![k].wait = 0]
            /\ UNCHANGED <<key, ring>>
       ELSE /\ key[k].state = "provisioning"
            /\ operation' = [operation EXCEPT ![k].state = "completed"]
            /\ key' = [key EXCEPT ![k].state = "published"]
            /\ ring' = Bump(FALSE)
    /\ UNCHANGED <<project, toggles, material, object, tokens, worker, faults>>

\* activate_signing_key_if_ready: the predecessor is kept for verification.
ActivateSigningKey(k) ==
    /\ project = "active" /\ key[k].state = "published"
    /\ key' = [x \in Key |-> IF x = k THEN [key[x] EXCEPT !.state = "active"]
                             ELSE IF key[x].state = "active"
                             THEN [key[x] EXCEPT !.state = "retiring", !.verify = Retention]
                             ELSE key[x]]
    /\ ring' = Bump(TRUE)
    /\ UNCHANGED <<project, toggles, material, operation, object, tokens, worker, faults>>

\* retire_signing_key.
RetireSigningKey(k) ==
    /\ project = "active" /\ key[k].state = "retiring" /\ key[k].verify = 0
    /\ key' = [key EXCEPT ![k].state = "retired"]
    /\ ring' = Bump(TRUE)
    /\ UNCHANGED <<project, toggles, material, operation, object, tokens, worker, faults>>

\* Runtime signs an access token with the active key.
SignToken(k) ==
    /\ project = "active" /\ key[k].state = "active" /\ tokens[k] < TokenLifetime
    /\ tokens' = [tokens EXCEPT ![k] = TokenLifetime]
    /\ UNCHANGED <<project, toggles, ring, key, material, operation, object, worker, faults>>

Less(n) == IF n > 0 THEN n - 1 ELSE 0

Tick ==
    /\ operation' = [k \in Key |-> [operation[k] EXCEPT !.lease = Less(@), !.wait = Less(@)]]
    /\ key' = [k \in Key |-> [key[k] EXCEPT !.verify = Less(@)]]
    /\ tokens' = [k \in Key |-> Less(tokens[k])]
    /\ worker' = [w \in Worker |-> [worker[w] EXCEPT !.lease = Less(@)]]
    /\ UNCHANGED <<project, toggles, ring, material, object, faults>>

-----------------------------------------------------------------------------
\* One pass of reconcile_signing_key_lifecycle touches k in one of these ways.
Maintain(k) ==
    \/ \E w \in Worker : ClaimProviderAction(w, k)
    \/ GiveUpPrepared(k)
    \/ PublishSigningKey(k)
    \/ ActivateSigningKey(k)
    \/ RetireSigningKey(k)

WorkerStep(w) == CallProvision(w) \/ CallInspect(w) \/ CallDestroy(w) \/ RecordAnswer(w)

SigningNext ==
    \/ RequestRotation \/ DisableProject \/ EnableProject \/ DeleteProject \/ FinalizeDeletion
    \/ \E k \in Key : RevokeSigningKey(k) \/ Maintain(k) \/ SignToken(k)
    \/ \E w \in Worker : WorkerStep(w) \/ LoseWork(w)
    \/ Tick

SigningSpec == SigningInit /\ [][SigningNext]_signingVars

-----------------------------------------------------------------------------
(* Properties. *)

(***************************************************************************)
(* At most one key signs and at most one is on its way: the candidate that *)
(* prepare_signing_key found pending is still the only one when it is      *)
(* published and activated several transactions later.                     *)
(***************************************************************************)
OneRotationAtATime ==
    /\ Cardinality({k \in Key : key[k].state = "active"}) <= 1
    /\ Cardinality({k \in Key : key[k].state \in Candidate}) <= 1

(***************************************************************************)
(* A key that Runtime publishes or signs with has its handle in custody    *)
(* and its object at the provider until the Project is deleted: no late    *)
(* answer, cleanup or revocation of another attempt takes them away.       *)
(***************************************************************************)
UsableKeyIsIntact ==
    project \in {"active", "disabled"} =>
        \A k \in Key : key[k].state \in Usable =>
            /\ material[k] = "live" /\ key[k].jwk
            /\ object[k] = Stable

(***************************************************************************)
(* The handle of a provider object is erased only after the object is      *)
(* destroyed: without its handle nobody could destroy it any more.         *)
(***************************************************************************)
ErasedAfterDestroyed ==
    \A k \in Key : material[k] = "erased" /\ key[k].jwk => ~object[k]

(***************************************************************************)
(* An operation that ended without a key has left nothing at the provider, *)
(* although its answers were lost, late or uncertain.  (With an emergency  *)
(* revocation or a deletion while the provider is called this is not so:   *)
(* cleanup may ask the provider before the call arrives there.)            *)
(***************************************************************************)
NothingLeftBehind ==
    \A k \in Key : operation[k].state \in {"failed", "abandoned"} => ~object[k]

(***************************************************************************)
(* While a token signed with a key is valid the key is published for       *)
(* verification, unless an operator revoked it or deleted the Project.     *)
(***************************************************************************)
VerifiableWhileValid ==
    project \in {"active", "disabled"} =>
        \A k \in Key : tokens[k] > 0 => key[k].state \in {"active", "retiring", "revoked"}

ActiveKeys == {k \in Key : key[k].state = "active"}

(***************************************************************************)
(* Whenever another key signs, or none, the signing epoch has moved: what  *)
(* was started under the old epoch is refused when it commits.             *)
(***************************************************************************)
EpochFollowsActiveKey == ActiveKeys' # ActiveKeys => ring'.epoch > ring.epoch

(***************************************************************************)
(* The provider's object is made or destroyed only for an operation that   *)
(* says so in the database: a crash right after the call leaves a row from *)
(* which the next worker goes on.                                          *)
(***************************************************************************)
EffectsAreAnnounced ==
    \A k \in Key : object'[k] # object[k] =>
        operation[k].state \in IF object'[k] THEN {"submitted"}
                               ELSE {"cleanup_pending", "cleanup_leased", "cleanup_blocked"}

SigningSafe ==
    /\ SigningTypeOK /\ OneRotationAtATime /\ UsableKeyIsIntact
    /\ ErasedAfterDestroyed /\ VerifiableWhileValid
=============================================================================
