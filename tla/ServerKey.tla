------------------------------ MODULE ServerKey ------------------------------
(***************************************************************************)
(* Project server keys: their creation with a credential that is revealed  *)
(* once, the acknowledgement of its delivery, revocation, and their use on *)
(* the Server API (adapters/postgres/server_key.rs, application/           *)
(* server_key.rs, server_api.rs).                                          *)
(*                                                                         *)
(* Operators repeat a command under its idempotency key when the answer    *)
(* was lost; requests authenticate in three reads; the time of last use is *)
(* written by a detached task that may run after the key was revoked.      *)
(***************************************************************************)
EXTENDS Integers, FiniteSets

CONSTANTS
    Keys,           \* identifiers of keys, ordered as the database orders them
    Callers,        \* Control requests in flight
    IdemKeys,       \* idempotency keys
    Requests,       \* Server API requests in flight
    MaxActive,      \* active keys of a Project (10 in the code)
    Attempts,       \* identifiers tried by one creation (4 in the code)
    Versions,       \* digest key versions a key may have been created under
    Ring,           \* versions the verifier of this process holds
    MaxLosses,      \* bound: answers lost on their way to the operator
    MaxCollisions,  \* bound: random public identifiers that were taken
    MaxTime,        \* bound: usage buckets
    KeysPerPage        \* keys listed at a time

KeyAssumption ==
    /\ Keys \subseteq Nat \ {0} /\ IsFiniteSet(Keys)
    /\ Ring \subseteq Versions
    /\ {MaxActive, Attempts, MaxTime, KeysPerPage} \subseteq Nat \ {0}
    /\ {MaxLosses, MaxCollisions} \subseteq Nat

VARIABLES
    project,    \* "active" or "disabled"
    key,        \* [Keys -> row of project_server_keys]
    idem,       \* [IdemKeys -> completed record of a command, or NoRecord]
    caller,     \* [Callers -> where a Control request stands]
    answers,    \* what each idempotency key was answered with
    shown,      \* [Keys -> times its credential was sent to the operator]
    request,    \* [Requests -> where a Server API request stands]
    usage,      \* the telemetry: buckets observed, and the write in flight
    walk,       \* one operator paging through the keys
    now,        \* current usage bucket
    faults      \* losses and collisions so far

keyVars == <<project, key, idem, caller, answers, shown, request, usage, walk, now, faults>>

NoRecord == [none |-> TRUE]

NoRow == [status |-> "none", revision |-> 0, acknowledged |-> FALSE,
          created |-> 0, last_used |-> 0, version |-> 0]

Idle == [pc |-> "idle", kind |-> "none", idem |-> 0, key |-> 0, expected |-> 0, tries |-> 0]

Existing == {k \in Keys : key[k].status # "none"}

Active == {k \in Keys : key[k].status = "active"}

Unacknowledged == {k \in Active : ~key[k].acknowledged}

-----------------------------------------------------------------------------
(***************************************************************************)
(* Idempotency: one completed record per key, naming the command.          *)
(***************************************************************************)

\* What a digest covers: the kind of command and all of its arguments.
Digest(c) == <<caller[c].kind, caller[c].key, caller[c].expected>>

Recorded(c) == idem[caller[c].idem] # NoRecord

\* A record of another command is a conflict; of the same one, a replay.
Replayed(c) == Recorded(c) /\ idem[caller[c].idem].digest = Digest(c)

\* The response is the row as it was when the command completed.
Complete(c, k, row) ==
    idem' = [idem EXCEPT ![caller[c].idem] =
               [digest |-> Digest(c), key |-> k, response |-> row]]

Respond(c, what, k, row) ==
    /\ caller' = [caller EXCEPT ![c].pc = "answered"]
    /\ answers' = [answers EXCEPT ![caller[c].idem] =
                     IF what = "done" THEN @ \cup {<<Digest(c), k, row>>} ELSE @]

Refuse(c) ==
    /\ Respond(c, "refused", 0, NoRow)
    /\ UNCHANGED <<project, key, idem, shown, request, usage, walk, now, faults>>

ReplayAnswer(c) ==
    LET record == idem[caller[c].idem]
    IN /\ Respond(c, "done", record.key, record.response)
       /\ UNCHANGED <<project, key, idem, shown, request, usage, walk, now, faults>>

-----------------------------------------------------------------------------
(***************************************************************************)
(* Creation.                                                               *)
(***************************************************************************)

SubmitCreate(c, i) ==
    /\ caller[c].pc = "idle"
    /\ caller' = [caller EXCEPT ![c] = [Idle EXCEPT !.pc = "replay", !.kind = "create",
                                                    !.idem = i]]
    /\ UNCHANGED <<project, key, idem, answers, shown, request, usage, walk, now, faults>>

\* A transaction of its own looks for a completed record first.
ReplayCreate(c) ==
    /\ caller[c].pc = "replay"
    /\ caller[c].kind = "create"
    /\ \/ Recorded(c) /\ ~Replayed(c) /\ Refuse(c)
       \/ Replayed(c) /\ ReplayAnswer(c)
       \/ /\ ~Recorded(c)
          /\ caller' = [caller EXCEPT ![c].pc = "attempt"]
          /\ UNCHANGED <<project, key, idem, answers, shown, request, usage, walk, now, faults>>

MayCreateMutant == project = "active" /\ Cardinality(Active) < MaxActive

\* Under the lock of the Project row: no key is waiting for its acknowledgement
\* and there is room for one more.
MayCreate ==
    /\ project = "active"
    /\ Unacknowledged = {}
    /\ Cardinality(Active) < MaxActive

InsertKey(c, k, v) ==
    LET row == [status |-> "active", revision |-> 1, acknowledged |-> FALSE,
                created |-> now, last_used |-> 0, version |-> v]
    IN /\ key' = [key EXCEPT ![k] = row]
       /\ Complete(c, k, row)
       /\ Respond(c, "done", k, row)
       /\ shown' = [shown EXCEPT ![k] = @ + 1]
       /\ UNCHANGED <<project, request, usage, walk, now, faults>>

\* The record is looked up again under the same lock before anything is
\* inserted: another request of this idempotency key may have completed.
AttemptCreate(c) ==
    /\ caller[c].pc = "attempt"
    /\ \/ Recorded(c) /\ ~Replayed(c) /\ Refuse(c)
       \/ Replayed(c) /\ ReplayAnswer(c)
       \/ ~Recorded(c) /\ ~MayCreate /\ Refuse(c)
       \/ /\ ~Recorded(c) /\ MayCreate
          /\ \E k \in Keys \ Existing, v \in Versions : InsertKey(c, k, v)

\* The public identifier is taken: the transaction rolls back and a new one is
\* drawn, a bounded number of times.
Collide(c) ==
    /\ caller[c].pc = "attempt"
    /\ ~Recorded(c) /\ MayCreate
    /\ faults.collisions < MaxCollisions
    /\ faults' = [faults EXCEPT !.collisions = @ + 1]
    /\ caller' = [caller EXCEPT ![c].tries = @ + 1,
                                ![c].pc = IF caller[c].tries + 1 = Attempts
                                            THEN "answered" ELSE "attempt"]
    /\ UNCHANGED <<project, key, idem, answers, shown, request, usage, walk, now>>

-----------------------------------------------------------------------------
(***************************************************************************)
(* Acknowledgement and revocation: one transaction each.                   *)
(***************************************************************************)

\* The operator names the revision it read.
SubmitChange(c, i, kind, k) ==
    /\ caller[c].pc = "idle"
    /\ k \in Existing
    /\ caller' = [caller EXCEPT ![c] = [Idle EXCEPT !.pc = "change", !.kind = kind,
                                          !.idem = i, !.key = k, !.expected = key[k].revision]]
    /\ UNCHANGED <<project, key, idem, answers, shown, request, usage, walk, now, faults>>

\* The row under lock is at the expected revision and may take the change.
MayAcknowledge(k, expected) ==
    /\ key[k].revision = expected
    /\ key[k].status = "active"
    /\ ~key[k].acknowledged

MayRevoke(k, expected) ==
    /\ key[k].revision = expected
    /\ key[k].status = "active"

Change(c, new) ==
    LET k == caller[c].key
    IN /\ key' = [key EXCEPT ![k] = new]
       /\ Complete(c, k, new)
       /\ Respond(c, "done", k, new)
       /\ UNCHANGED <<project, shown, request, usage, walk, now, faults>>

AcknowledgeDelivery(c) ==
    LET k == caller[c].key
    IN /\ caller[c].pc = "change" /\ caller[c].kind = "acknowledge"
       /\ \/ Recorded(c) /\ ~Replayed(c) /\ Refuse(c)
          \/ Replayed(c) /\ ReplayAnswer(c)
          \/ ~Recorded(c) /\ ~MayAcknowledge(k, caller[c].expected) /\ Refuse(c)
          \/ /\ ~Recorded(c) /\ MayAcknowledge(k, caller[c].expected)
             /\ Change(c, [key[k] EXCEPT !.acknowledged = TRUE, !.revision = @ + 1])

RevokeKey(c) ==
    LET k == caller[c].key
    IN /\ caller[c].pc = "change" /\ caller[c].kind = "revoke"
       /\ \/ Recorded(c) /\ ~Replayed(c) /\ Refuse(c)
          \/ Replayed(c) /\ ReplayAnswer(c)
          \/ ~Recorded(c) /\ ~MayRevoke(k, caller[c].expected) /\ Refuse(c)
          \/ /\ ~Recorded(c) /\ MayRevoke(k, caller[c].expected)
             /\ Change(c, [key[k] EXCEPT !.status = "revoked", !.revision = @ + 1])

\* The answer arrives, or is lost and the operator repeats the same command.
Deliver(c) ==
    /\ caller[c].pc = "answered"
    /\ caller' = [caller EXCEPT ![c] = Idle]
    /\ UNCHANGED <<project, key, idem, answers, shown, request, usage, walk, now, faults>>

LoseAnswer(c) ==
    /\ caller[c].pc = "answered"
    /\ faults.losses < MaxLosses
    /\ faults' = [faults EXCEPT !.losses = @ + 1]
    /\ caller' = [caller EXCEPT ![c].pc = IF caller[c].kind = "create" THEN "replay" ELSE "change",
                                ![c].tries = 0]
    /\ UNCHANGED <<project, key, idem, answers, shown, request, usage, walk, now>>

DisableProject ==
    /\ project = "active"
    /\ project' = "disabled"
    /\ UNCHANGED <<key, idem, caller, answers, shown, request, usage, walk, now, faults>>

-----------------------------------------------------------------------------
(***************************************************************************)
(* Server API requests.                                                    *)
(***************************************************************************)

Usable(k) == key[k].status = "active" /\ project = "active"

SetRequest(r, new) ==
    /\ request' = [request EXCEPT ![r] = new]
    /\ UNCHANGED <<project, key, idem, caller, answers, shown, walk, now, faults>>

\* The row of the public identifier, active in an active Project.
ReadAuthority(r, k) ==
    /\ request[r].pc = "idle"
    /\ Usable(k)
    /\ SetRequest(r, [pc |-> "digest", key |-> k])
    /\ UNCHANGED usage

\* The digest under the stored version: only a version of this process's ring.
CompareDigest(r) ==
    /\ request[r].pc = "digest"
    /\ SetRequest(r, IF key[request[r].key].version \in Ring
                       THEN [request[r] EXCEPT !.pc = "confirm"]
                       ELSE [pc |-> "idle", key |-> 0])
    /\ UNCHANGED usage

ConfirmActiveMutant(r) ==
    /\ request[r].pc = "confirm"
    /\ SetRequest(r, [request[r] EXCEPT !.pc = "authenticated"])
    /\ UNCHANGED usage

\* The last read of the authentication.
ConfirmActive(r) ==
    /\ request[r].pc = "confirm"
    /\ SetRequest(r, IF Usable(request[r].key)
                       THEN [request[r] EXCEPT !.pc = "authenticated"]
                       ELSE [pc |-> "idle", key |-> 0])
    /\ UNCHANGED usage

\* One write in flight per process, one per key and bucket; otherwise the
\* observation is dropped.
ObserveUsage(r) ==
    LET k == request[r].key
        fresh == usage.writing = 0 /\ usage.observed[k] < now
    IN /\ request[r].pc = "authenticated"
       /\ SetRequest(r, [pc |-> "idle", key |-> 0])
       /\ usage' = IF fresh THEN [usage EXCEPT !.writing = k, !.bucket = now,
                                               !.observed[k] = now]
                            ELSE usage

\* The detached write, or its deadline.
RecordUsage ==
    LET k == usage.writing
        value == IF usage.bucket > key[k].created THEN usage.bucket ELSE key[k].created
    IN /\ k # 0
       /\ key' = IF Usable(k) /\ key[k].last_used < value
                   THEN [key EXCEPT ![k].last_used = value] ELSE key
       /\ usage' = [usage EXCEPT !.writing = 0]
       /\ UNCHANGED <<project, idem, caller, answers, shown, request, walk, now, faults>>

DropUsage ==
    /\ usage.writing # 0
    /\ usage' = [usage EXCEPT !.writing = 0]
    /\ UNCHANGED <<project, key, idem, caller, answers, shown, request, walk, now, faults>>

NextBucket ==
    /\ now < MaxTime
    /\ now' = now + 1
    /\ UNCHANGED <<project, key, idem, caller, answers, shown, request, usage, walk, faults>>

-----------------------------------------------------------------------------
(***************************************************************************)
(* An operator pages through the keys in order of creation.                *)
(***************************************************************************)

Position(k) == <<key[k].created, k>>

Precedes(p, q) == p[1] < q[1] \/ (p[1] = q[1] /\ p[2] < q[2])

\* The next keys behind the cursor, creation time first and identifier second.
Page ==
    LET behind == {k \in Existing : Precedes(walk.after, Position(k))}
    IN {k \in behind : Cardinality({j \in behind : Precedes(Position(j), Position(k))}) < KeysPerPage}

BeginWalk ==
    /\ walk.pc = "idle"
    /\ walk' = [pc |-> "walking", after |-> <<0, 0>>, there |-> Existing, seen |-> {},
                twice |-> FALSE]
    /\ UNCHANGED <<project, key, idem, caller, answers, shown, request, usage, now, faults>>

ListKeys ==
    /\ walk.pc = "walking"
    /\ LET last == CHOOSE k \in Page : \A j \in Page : j = k \/ Precedes(Position(j), Position(k))
       IN walk' = IF Page = {}
                    THEN [walk EXCEPT !.pc = "done"]
                    ELSE [walk EXCEPT !.after = Position(last), !.seen = @ \cup Page,
                                      !.twice = @ \/ walk.seen \cap Page # {}]
    /\ UNCHANGED <<project, key, idem, caller, answers, shown, request, usage, now, faults>>

-----------------------------------------------------------------------------
KeyInit ==
    /\ project = "active"
    /\ key = [k \in Keys |-> NoRow]
    /\ idem = [i \in IdemKeys |-> NoRecord]
    /\ caller = [c \in Callers |-> Idle]
    /\ answers = [i \in IdemKeys |-> {}]
    /\ shown = [k \in Keys |-> 0]
    /\ request = [r \in Requests |-> [pc |-> "idle", key |-> 0]]
    /\ usage = [observed |-> [k \in Keys |-> 0], writing |-> 0, bucket |-> 0]
    /\ walk = [pc |-> "idle", after |-> <<0, 0>>, there |-> {}, seen |-> {}, twice |-> FALSE]
    /\ now = 1
    /\ faults = [losses |-> 0, collisions |-> 0]

Control(c) ==
    \/ \E i \in IdemKeys :
          \/ SubmitCreate(c, i)
          \/ \E k \in Keys, kind \in {"acknowledge", "revoke"} : SubmitChange(c, i, kind, k)
    \/ ReplayCreate(c)
    \/ AttemptCreate(c)
    \/ Collide(c)
    \/ AcknowledgeDelivery(c)
    \/ RevokeKey(c)
    \/ Deliver(c)
    \/ LoseAnswer(c)

Serve(r) ==
    \/ \E k \in Keys : ReadAuthority(r, k)
    \/ CompareDigest(r)
    \/ ConfirmActive(r)
    \/ ObserveUsage(r)

KeyNext ==
    \/ \E c \in Callers : Control(c)
    \/ \E r \in Requests : Serve(r)
    \/ RecordUsage
    \/ DropUsage
    \/ DisableProject
    \/ NextBucket

\* The same beside an operator who pages through the keys.
WalkNext == KeyNext \/ BeginWalk \/ ListKeys

KeySpec == KeyInit /\ [][WalkNext]_keyVars

-----------------------------------------------------------------------------
KeyTypeOK ==
    /\ project \in {"active", "disabled"}
    /\ key \in [Keys -> [status : {"none", "active", "revoked"}, revision : 0..3,
                         acknowledged : BOOLEAN, created : 0..MaxTime,
                         last_used : 0..MaxTime, version : Versions \cup {0}]]
    /\ \A c \in Callers : caller[c].tries \in 0..Attempts
    /\ Cardinality(Active) <= MaxActive
    /\ usage.writing \in Keys \cup {0}
    /\ now \in 1..MaxTime

(***************************************************************************)
(* The spec's delivery gate: at most one active key of a Project waits for *)
(* its acknowledgement, whatever creations race.                           *)
(***************************************************************************)
OneUnacknowledged == Cardinality(Unacknowledged) <= 1

(***************************************************************************)
(* A credential is revealed at most once: no repetition of its creation,   *)
(* by any caller, in any state, brings it back.                            *)
(***************************************************************************)
RevealedOnce == \A k \in Keys : shown[k] <= 1

(***************************************************************************)
(* Whoever sends one command under one idempotency key is told the same    *)
(* thing, although the key may have been acknowledged or revoked since.    *)
(***************************************************************************)
OneAnswer ==
    \A i \in IdemKeys : \A a, b \in answers[i] : a = b

(***************************************************************************)
(* A request is authenticated only at a moment at which its key and its    *)
(* Project are active: a revocation that committed before holds.           *)
(***************************************************************************)
AuthenticatedWhileActive ==
    \A r \in Requests :
        request[r].pc # "authenticated" /\ request'[r].pc = "authenticated"
            => Usable(request[r].key)

(***************************************************************************)
(* The row of a revoked key is final, for late usage writes too, and usage *)
(* never moves the revision an operator has read, nor back in time.        *)
(***************************************************************************)
RevokedIsFinal ==
    \A k \in Keys :
        /\ key[k].status = "revoked" => key'[k] = key[k]
        /\ key'[k].last_used >= key[k].last_used
        /\ key'[k].last_used # key[k].last_used => key'[k].revision = key[k].revision

(***************************************************************************)
(* authenticate, record_usage: a revocation that committed holds, for the  *)
(* requests under way and for what they leave to be written later.         *)
(***************************************************************************)
RevocationHolds == [][AuthenticatedWhileActive /\ RevokedIsFinal]_keyVars

(***************************************************************************)
(* An operator that pages to the end has seen every key there was when it  *)
(* began, and none twice, whatever was created meanwhile.                  *)
(***************************************************************************)
WalkComplete ==
    walk.pc = "done" => walk.there \subseteq walk.seen /\ ~walk.twice

ServerKeySafe == KeyTypeOK /\ OneUnacknowledged /\ RevealedOnce /\ OneAnswer /\ WalkComplete
=============================================================================
