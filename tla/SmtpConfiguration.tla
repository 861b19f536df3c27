-------------------------- MODULE SmtpConfiguration --------------------------
(***************************************************************************)
(* SMTP configurations of Projects: creation in two transactions around    *)
(* the sealing of the credential, the test that has to deliver before the  *)
(* configuration may be activated, termination, and the erasure of test    *)
(* recipients and credentials (adapters/postgres/email_control.rs,         *)
(* application/email_control.rs, and the test and cleanup lanes of the     *)
(* mail worker in adapters/postgres/email.rs and application/mail.rs).     *)
(*                                                                         *)
(* Requests and workers stop between any two of their transactions; time   *)
(* is the countdown of each row's own deadline.                            *)
(***************************************************************************)
EXTENDS Integers, FiniteSets

CONSTANTS
    Configs,        \* configurations in the order of their generations
    ProjectOf,      \* [Configs -> the Project a configuration belongs to]
    Deletable,      \* the Projects that operators delete in this instance
    Tests,          \* test operations in the order of their creation
    Requests,       \* operator requests in flight
    Workers,        \* mail workers
    Secrets,        \* credentials an operator may enter
    MaxLive,        \* live generations of a Project (32 in the code)
    PrepareLimit,   \* time a test may be in preparation (5 minutes)
    TestLife,       \* time until a test expires (10 minutes)
    Lease,          \* time a worker has for its claim
    Retention,      \* time a replaced configuration stays usable (10 minutes)
    MaxCommands,    \* bound: operator commands submitted
    MaxCrashes      \* bound: requests and workers that stop

SmtpAssumption ==
    /\ Configs \subseteq Nat \ {0} /\ IsFiniteSet(Configs)
    /\ Tests \subseteq Nat \ {0} /\ IsFiniteSet(Tests)
    /\ {MaxLive, PrepareLimit, TestLife, Lease, Retention} \subseteq Nat \ {0}
    /\ {MaxCommands, MaxCrashes} \subseteq Nat
    /\ Deletable \subseteq {ProjectOf[c] : c \in Configs}

Projects == {ProjectOf[c] : c \in Configs}

VARIABLES
    project,    \* [Projects -> security revision, and whether it is being deleted]
    conf,       \* [Configs -> row of project_smtp_configurations and its secret operation]
    test,       \* [Tests -> row of project_smtp_test_operations]
    material,   \* [credential or recipient -> protected material]
    request,    \* [Requests -> where an operator request stands]
    worker,     \* [Workers -> the claim a worker holds]
    relayed,    \* what relays accepted: test, and the secret used
    used        \* commands and stops so far, against their bounds

vars == <<project, conf, test, material, request, worker, relayed, used>>

Credential(c) == <<"credential", c>>
Recipient(t) == <<"recipient", t>>

NoConf == [status |-> "none", revision |-> 0, eligibility |-> 0, operation |-> "none",
           fingerprint |-> "none", retained |-> 0]

NoTest == [state |-> "none", conf |-> 0, revision |-> 0, eligibility |-> 0, left |-> 0,
           preparing |-> 0, lease |-> 0, cleaner |-> "none", cleaning |-> 0,
           erased |-> FALSE]

Absent == [state |-> "absent", fingerprint |-> "none"]

IdleRequest == [pc |-> "idle", kind |-> "none", of |-> 0, conf |-> 0, secret |-> "none",
                expected |-> 0]

IdleWorker == [pc |-> "idle", of |-> 0, outcome |-> "none"]

Terminal == {"delivered", "failed", "ambiguous"}

Open == {"preparing", "pending", "submitting"}

\* A generation a worker may still use.
Eligible(c) ==
    \/ conf[c].status \in {"pending", "active"}
    \/ conf[c].status = "retained" /\ conf[c].retained > 0

\* The configuration is as it was when the test was created.
Unchanged(t) ==
    LET c == test[t].conf
    IN /\ conf[c].revision = test[t].revision
       /\ conf[c].eligibility = test[t].eligibility

-----------------------------------------------------------------------------
(***************************************************************************)
(* Creation of a configuration.                                            *)
(***************************************************************************)

\* An operator enters a configuration; a repetition names the same operation,
\* whose digest covers everything but the credential.
SubmitConfiguration(r, c, s) ==
    /\ request[r].pc = "idle"
    /\ used.commands < MaxCommands
    /\ used' = [used EXCEPT !.commands = @ + 1]
    /\ request' = [request EXCEPT ![r] = [pc |-> "prepare", kind |-> "create", of |-> c,
                                          conf |-> c, secret |-> s,
                                          expected |-> project[ProjectOf[c]].revision]]
    /\ UNCHANGED <<project, conf, test, material, worker, relayed>>

Live(p) == {c \in Configs : ProjectOf[c] = p /\ Eligible(c)}

\* The row of a Project being deleted takes no update (projects_enforce_lifecycle), and
\* with it no new generation; none of the other handlers here looks at the Project.
PrepareSmtpConfiguration(r) ==
    LET c == request[r].of
        p == ProjectOf[c]
        replay == conf[c].status # "none"
        admitted == /\ project[p].revision = request[r].expected /\ ~project[p].deleting
                    /\ Cardinality(Live(p)) < MaxLive
                    /\ \A d \in Configs : ProjectOf[d] = p /\ d < c => conf[d].status # "none"
    IN /\ request[r].pc = "prepare" /\ request[r].kind = "create"
       /\ \/ /\ replay
             /\ request' = [request EXCEPT ![r].pc = "seal"]
             /\ UNCHANGED <<project, conf, material>>
          \/ /\ ~replay /\ admitted
             /\ project' = [project EXCEPT ![p].revision = @ + 1]
             /\ conf' = [conf EXCEPT ![c] = [NoConf EXCEPT !.status = "pending", !.revision = 1,
                                               !.eligibility = 1, !.operation = "prepared"]]
             /\ material' = [material EXCEPT ![Credential(c)].state = "pending"]
             /\ request' = [request EXCEPT ![r].pc = "seal"]
          \/ /\ ~replay /\ ~admitted
             /\ request' = [request EXCEPT ![r] = IdleRequest]
             /\ UNCHANGED <<project, conf, material>>
       /\ UNCHANGED <<test, worker, relayed, used>>

\* The provider seals outside any transaction, or fails.
Seal(r) ==
    /\ request[r].pc = "seal"
    /\ \/ request' = [request EXCEPT ![r].pc = "finalize"]
       \/ request' = [request EXCEPT ![r] = IdleRequest]
    /\ UNCHANGED <<project, conf, test, material, worker, relayed, used>>

\* Pending material takes the envelope; later only the same secret is accepted.
Accepts(m, s) ==
    \/ material[m].state = "pending"
    \/ material[m].state \in {"live", "erased"} /\ material[m].fingerprint = s

Finalized(m, s) ==
    [material EXCEPT ![m] = IF @.state = "pending" THEN [state |-> "live", fingerprint |-> s]
                                                   ELSE @]

FinalizeSmtpConfiguration(r) ==
    LET c == request[r].of
        s == request[r].secret
        accepted == /\ \/ conf[c].operation = "completed"
                       \/ conf[c].operation = "prepared" /\ conf[c].status = "pending"
                    /\ Accepts(Credential(c), s)
    IN /\ request[r].pc = "finalize" /\ request[r].kind = "create"
       /\ request' = [request EXCEPT ![r] = IdleRequest]
       /\ IF accepted
            THEN /\ conf' = [conf EXCEPT ![c].fingerprint = s, ![c].operation = "completed"]
                 /\ material' = Finalized(Credential(c), s)
            ELSE UNCHANGED <<conf, material>>
       /\ UNCHANGED <<project, test, worker, relayed, used>>

-----------------------------------------------------------------------------
(***************************************************************************)
(* Creation of a test: the recipient is sealed between two transactions.   *)
(***************************************************************************)

SubmitTest(r, t, c) ==
    /\ request[r].pc = "idle"
    /\ used.commands < MaxCommands
    /\ used' = [used EXCEPT !.commands = @ + 1]
    /\ conf[c].status # "none"
    /\ \/ test[t].state # "none" /\ test[t].conf = c
       \/ test[t].state = "none" /\ \A u \in Tests : u < t => test[u].state # "none"
    /\ request' = [request EXCEPT ![r] = [pc |-> "prepare", kind |-> "test", of |-> t,
                                          conf |-> c, secret |-> "none",
                                          expected |-> conf[c].revision]]
    /\ UNCHANGED <<project, conf, test, material, worker, relayed>>

PrepareSmtpTest(r) ==
    LET t == request[r].of
        c == request[r].conf
        replay == test[t].state # "none"
        admitted == /\ conf[c].revision = request[r].expected
                    /\ conf[c].status \notin {"disabled", "compromised", "retired"}
    IN /\ request[r].pc = "prepare" /\ request[r].kind = "test"
       /\ \/ /\ replay /\ test[t].conf = c
             /\ request' = [request EXCEPT ![r].pc = "seal"]
             /\ UNCHANGED <<test, material>>
          \/ /\ ~replay /\ admitted
             /\ test' = [test EXCEPT ![t] = [NoTest EXCEPT !.state = "preparing", !.conf = c,
                                               !.revision = conf[c].revision,
                                               !.eligibility = conf[c].eligibility,
                                               !.left = TestLife, !.preparing = PrepareLimit]]
             /\ material' = [material EXCEPT ![Recipient(t)].state = "pending"]
             /\ request' = [request EXCEPT ![r].pc = "seal"]
          \/ /\ IF replay THEN test[t].conf # c ELSE ~admitted
             /\ request' = [request EXCEPT ![r] = IdleRequest]
             /\ UNCHANGED <<test, material>>
       /\ UNCHANGED <<project, conf, worker, relayed, used>>

\* The preparation is queued unless its time is over; a repetition of a test
\* that went further may still finalize the material, but not the test.
FinalizeSmtpTestEnqueue(r) ==
    LET t == request[r].of
        queued == test[t].state = "preparing"
        accepted == /\ queued => test[t].preparing > 0
                    /\ Accepts(Recipient(t), "address")
    IN /\ request[r].pc = "finalize" /\ request[r].kind = "test"
       /\ request' = [request EXCEPT ![r] = IdleRequest]
       /\ IF accepted
            THEN /\ material' = Finalized(Recipient(t), "address")
                 /\ test' = IF queued THEN [test EXCEPT ![t].state = "pending"] ELSE test
            ELSE UNCHANGED <<test, material>>
       /\ UNCHANGED <<project, conf, worker, relayed, used>>

-----------------------------------------------------------------------------
(***************************************************************************)
(* Activation and termination. The operator names the revision it read; a  *)
(* stale one is refused, so only the current one is enumerated.            *)
(***************************************************************************)

DeliveredTestMutant(c) == \E t \in Tests : test[t].conf = c /\ test[t].state \in Terminal

\* Evidence for exactly this revision of the configuration.
DeliveredTest(c) ==
    \E t \in Tests : test[t].conf = c /\ test[t].state = "delivered" /\ Unchanged(t)

\* The active configuration is retained and the new one takes its place.
ActivateSmtpConfiguration(c) ==
    /\ conf[c].status = "pending"
    /\ DeliveredTest(c)
    /\ conf' = [d \in Configs |->
                  CASE d = c -> [conf[c] EXCEPT !.status = "active", !.revision = @ + 1]
                    [] ProjectOf[d] = ProjectOf[c] /\ conf[d].status = "active"
                         -> [conf[d] EXCEPT !.status = "retained", !.retained = Retention,
                                            !.revision = @ + 1]
                    [] OTHER -> conf[d]]
    /\ UNCHANGED <<project, test, material, request, worker, relayed, used>>

TerminateSmtpConfiguration(c, status) ==
    /\ conf[c].status \in {"pending", "active", "retained"}
    /\ conf' = [conf EXCEPT ![c].status = status, ![c].retained = 0,
                            ![c].revision = @ + 1, ![c].eligibility = @ + 1]
    /\ UNCHANGED <<project, test, material, request, worker, relayed, used>>

-----------------------------------------------------------------------------
(***************************************************************************)
(* The worker's test lane. One transaction first ends what is over, then   *)
(* claims the oldest test that is left; if that one cannot be turned into a *)
(* job the whole transaction rolls back.                                   *)
(***************************************************************************)

Swept(t) ==
    CASE test[t].state \in {"preparing", "pending"} /\ test[t].left = 0
           -> [test[t] EXCEPT !.state = "failed", !.preparing = 0]
      [] test[t].state = "submitting" /\ test[t].lease = 0
           -> [test[t] EXCEPT !.state = "ambiguous"]
      [] test[t].state = "pending" /\ ~(Unchanged(t) /\ Eligible(test[t].conf))
           -> [test[t] EXCEPT !.state = "failed"]
      [] OTHER -> test[t]

Queue == {t \in Tests : Swept(t).state = "pending"}

Head == CHOOSE t \in Queue : \A u \in Queue : t <= u

\* The row of the head carries the fingerprint of a finished credential.
HeadReadable == conf[test[Head].conf].fingerprint # "none"

ClaimSmtpTest(w) ==
    /\ worker[w].pc = "idle"
    /\ \/ /\ Queue = {}
          /\ \E t \in Tests : Swept(t) # test[t]
          /\ test' = [t \in Tests |-> Swept(t)]
          /\ UNCHANGED worker
       \/ /\ Queue # {}
          /\ HeadReadable
          /\ test' = [t \in Tests |->
                        IF t = Head THEN [Swept(t) EXCEPT !.state = "submitting", !.lease = Lease]
                                    ELSE Swept(t)]
          /\ worker' = [worker EXCEPT ![w] = [pc |-> "testing", of |-> Head, outcome |-> "none"]]
    /\ UNCHANGED <<project, conf, material, request, relayed, used>>

\* Recipient and credential are opened and the message is handed to the relay,
\* all before the lease ends; whatever cannot be opened is an outcome too.
SubmitToRelay(w) ==
    LET t == worker[w].of
        c == test[t].conf
        openable == /\ material[Recipient(t)].state = "live"
                    /\ material[Credential(c)].state = "live"
                    /\ material[Credential(c)].fingerprint = conf[c].fingerprint
        accepted == relayed' = relayed \cup {<<t, material[Credential(c)].fingerprint,
                                               Cardinality({m \in relayed : m[1] = t}) + 1>>}
    IN /\ worker[w].pc = "testing" /\ worker[w].outcome = "none"
       /\ test[t].lease > 0
       /\ \/ /\ openable
             /\ \/ accepted /\ worker' = [worker EXCEPT ![w].outcome = "delivered"]
                \/ accepted /\ worker' = [worker EXCEPT ![w].outcome = "ambiguous"]
                \/ UNCHANGED relayed /\ worker' = [worker EXCEPT ![w].outcome = "failed"]
          \/ /\ ~openable
             /\ worker' = [worker EXCEPT ![w].outcome = "failed"]
             /\ UNCHANGED relayed
       /\ UNCHANGED <<project, conf, test, material, request, used>>

\* Recorded only under the lease; afterwards the worker gives up.
FinishSmtpTest(w) ==
    LET t == worker[w].of
    IN /\ worker[w].pc = "testing"
       /\ worker[w].outcome # "none" \/ test[t].lease = 0
       /\ test' = IF worker[w].outcome # "none" /\ test[t].state = "submitting" /\ test[t].lease > 0
                    THEN [test EXCEPT ![t].state = worker[w].outcome, ![t].lease = 0]
                    ELSE test
       /\ worker' = [worker EXCEPT ![w] = IdleWorker]
       /\ UNCHANGED <<project, conf, material, request, relayed, used>>

-----------------------------------------------------------------------------
(***************************************************************************)
(* The worker's cleanup lanes.                                             *)
(***************************************************************************)

\* A transaction of its own ends the preparations that took too long.
AbandonPreparations ==
    LET stale == {t \in Tests : test[t].state = "preparing" /\ test[t].preparing = 0}
    IN /\ stale # {}
       /\ test' = [t \in Tests |->
                     IF t \in stale THEN [test[t] EXCEPT !.state = "ambiguous"] ELSE test[t]]
       /\ UNCHANGED <<project, conf, material, request, worker, relayed, used>>

Erased(m) == [material EXCEPT ![m].state = "erased"]

ClaimSmtpSecretCleanup(w, t) ==
    /\ worker[w].pc = "idle"
    /\ test[t].state \in Terminal
    /\ ~test[t].erased
    /\ test[t].cleaner = "none" \/ test[t].cleaning = 0
    /\ test' = [test EXCEPT ![t].cleaner = w, ![t].cleaning = Lease]
    /\ worker' = [worker EXCEPT ![w] = [pc |-> "cleaning", of |-> t, outcome |-> "none"]]
    /\ UNCHANGED <<project, conf, material, request, relayed, used>>

\* The lease names its owner; another worker's claim takes it away.
FinishSmtpSecretCleanup(w) ==
    LET t == worker[w].of
    IN /\ worker[w].pc = "cleaning"
       /\ worker' = [worker EXCEPT ![w] = IdleWorker]
       /\ IF test[t].cleaner = w /\ ~test[t].erased
            THEN /\ material' = Erased(Recipient(t))
                 /\ test' = [test EXCEPT ![t].erased = TRUE, ![t].cleaner = "none", ![t].cleaning = 0]
            ELSE UNCHANGED <<material, test>>
       /\ UNCHANGED <<project, conf, request, relayed, used>>

\* Nothing a worker could still submit under the generation is left. Logins and
\* their mail are MailDelivery's part of the same condition.
Retirable(c) ==
    /\ \/ conf[c].status \in {"disabled", "compromised"}
       \/ conf[c].status = "retained" /\ conf[c].retained = 0
    /\ ~\E t \in Tests : test[t].conf = c /\ test[t].state \in Open

\* Retirement and the erasure of the credential, whose lease no other step
\* of this model looks at.
RetireAndErase(c) ==
    /\ Retirable(c)
    /\ conf' = [conf EXCEPT ![c].status = "retired", ![c].retained = 0,
                            ![c].revision = @ + 1, ![c].eligibility = @ + 1]
    /\ material' = Erased(Credential(c))
    /\ UNCHANGED <<project, test, request, worker, relayed, used>>

-----------------------------------------------------------------------------
(***************************************************************************)
(* Deletion of a Project erases its protected materials in the transaction *)
(* that begins it, whatever requests and workers are about to do with them.*)
(***************************************************************************)

OwnedBy(p) == {Credential(c) : c \in {d \in Configs : ProjectOf[d] = p}} \cup
              {Recipient(t) : t \in {u \in Tests : test[u].state # "none"
                                                     /\ ProjectOf[test[u].conf] = p}}

DeleteProject(p) ==
    /\ ~project[p].deleting
    /\ project' = [project EXCEPT ![p] = [revision |-> @.revision + 1, deleting |-> TRUE]]
    /\ material' = [m \in DOMAIN material |->
                      IF m \in OwnedBy(p) /\ material[m].state # "absent"
                        THEN [material[m] EXCEPT !.state = "erased"] ELSE material[m]]
    /\ UNCHANGED <<conf, test, request, worker, relayed, used>>

-----------------------------------------------------------------------------
StopRequest(r) ==
    /\ request[r].pc # "idle"
    /\ used.stops < MaxCrashes
    /\ used' = [used EXCEPT !.stops = @ + 1]
    /\ request' = [request EXCEPT ![r] = IdleRequest]
    /\ UNCHANGED <<project, conf, test, material, worker, relayed>>

StopWorker(w) ==
    /\ worker[w].pc # "idle"
    /\ used.stops < MaxCrashes
    /\ used' = [used EXCEPT !.stops = @ + 1]
    /\ worker' = [worker EXCEPT ![w] = IdleWorker]
    /\ UNCHANGED <<project, conf, test, material, request, relayed>>

Down(n) == IF n = 0 THEN 0 ELSE n - 1

Tick ==
    /\ test' = [t \in Tests |-> [test[t] EXCEPT !.left = Down(@), !.preparing = Down(@),
                                                !.lease = Down(@), !.cleaning = Down(@)]]
    /\ conf' = [c \in Configs |-> [conf[c] EXCEPT !.retained = Down(@)]]
    /\ <<test', conf'>> # <<test, conf>>
    /\ UNCHANGED <<project, material, request, worker, relayed, used>>

-----------------------------------------------------------------------------
Init ==
    /\ project = [p \in Projects |-> [revision |-> 1, deleting |-> FALSE]]
    /\ conf = [c \in Configs |-> NoConf]
    /\ test = [t \in Tests |-> NoTest]
    /\ material = [m \in {Credential(c) : c \in Configs} \cup {Recipient(t) : t \in Tests} |-> Absent]
    /\ request = [r \in Requests |-> IdleRequest]
    /\ worker = [w \in Workers |-> IdleWorker]
    /\ relayed = {}
    /\ used = [commands |-> 0, stops |-> 0]

Operate(r) ==
    \/ \E c \in Configs, s \in Secrets : SubmitConfiguration(r, c, s)
    \/ \E t \in Tests, c \in Configs : SubmitTest(r, t, c)
    \/ StopRequest(r)

Progress(r) ==
    \/ PrepareSmtpConfiguration(r)
    \/ PrepareSmtpTest(r)
    \/ Seal(r)
    \/ FinalizeSmtpConfiguration(r)
    \/ FinalizeSmtpTestEnqueue(r)

Work(w) ==
    \/ ClaimSmtpTest(w)
    \/ SubmitToRelay(w)
    \/ FinishSmtpTest(w)
    \/ \E t \in Tests : ClaimSmtpSecretCleanup(w, t)
    \/ FinishSmtpSecretCleanup(w)

Next ==
    \/ \E r \in Requests : Operate(r) \/ Progress(r)
    \/ \E w \in Workers : Work(w) \/ StopWorker(w)
    \/ \E c \in Configs :
          \/ ActivateSmtpConfiguration(c)
          \/ \E status \in {"disabled", "compromised"} : TerminateSmtpConfiguration(c, status)
          \/ RetireAndErase(c)
    \/ \E p \in Deletable : DeleteProject(p)
    \/ AbandonPreparations
    \/ Tick

Spec == Init /\ [][Next]_vars

-----------------------------------------------------------------------------
SmtpTypeOK ==
    /\ \A c \in Configs :
          /\ conf[c].status \in {"none", "pending", "active", "retained", "disabled",
                                 "compromised", "retired"}
          /\ conf[c].operation \in {"none", "prepared", "completed"}
          /\ conf[c].retained \in 0..Retention
    /\ \A t \in Tests :
          /\ test[t].state \in {"none"} \cup Open \cup Terminal
          /\ {test[t].lease, test[t].cleaning} \subseteq 0..Lease
    /\ \A p \in Projects : Cardinality(Live(p)) <= MaxLive

Deleting(c) == project[ProjectOf[c]].deleting

(***************************************************************************)
(* The configuration of a Project that sends mail has had a message        *)
(* accepted under the very credential it holds, the credential is still    *)
(* there unless the Project is being deleted, and there is one such        *)
(* configuration.                                                          *)
(***************************************************************************)
ActiveIsProven ==
    /\ \A c \in Configs : conf[c].status = "active" =>
          /\ \E m \in relayed : test[m[1]].conf = c /\ m[2] = conf[c].fingerprint
          /\ \/ Deleting(c)
             \/ material[Credential(c)] = [state |-> "live", fingerprint |-> conf[c].fingerprint]
    /\ \A c, d \in Configs : (conf[c].status = "active" /\ conf[d].status = "active"
                                /\ ProjectOf[c] = ProjectOf[d]) => c = d

(***************************************************************************)
(* One test is one message: no restart, expired lease or repetition hands  *)
(* a second one to the relay.                                              *)
(***************************************************************************)
OneMessagePerTest == \A m \in relayed : m[3] = 1

(***************************************************************************)
(* While a worker has a test under its lease, neither the recipient nor    *)
(* the credential it is about to open is erased, but by the deletion of    *)
(* the Project.                                                            *)
(***************************************************************************)
NothingErasedUnderLease ==
    \A t \in Tests : (test[t].state = "submitting" /\ test[t].lease > 0) =>
        \/ Deleting(test[t].conf)
        \/ /\ material[Recipient(t)].state = "live"
           /\ material[Credential(test[t].conf)].state = "live"

(***************************************************************************)
(* Once a Project is being deleted none of its credentials is there, and   *)
(* no request that was preparing, sealing or repeating one brings it back. *)
(* (A test prepared afterwards still gets a recipient, and its cleanup.)   *)
(***************************************************************************)
DeletionErasesCredentials ==
    \A c \in Configs : Deleting(c) => material[Credential(c)].state \in {"absent", "erased"}

SmtpSafe ==
    /\ SmtpTypeOK /\ ActiveIsProven /\ OneMessagePerTest
    /\ NothingErasedUnderLease /\ DeletionErasesCredentials
=============================================================================
