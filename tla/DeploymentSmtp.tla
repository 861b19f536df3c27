--------------------------- MODULE DeploymentSmtp ---------------------------
(***************************************************************************)
(* The deployment-default SMTP generations. An operator registers a        *)
(* generation in two transactions around the sealing of its credential;    *)
(* which generation sends mail is decided by the configuration of the      *)
(* processes, each of which reconciles the registry when it starts; a      *)
(* worker retires what nothing is pinned to any more and erases the        *)
(* credential (adapters/postgres/email_control.rs and email.rs,            *)
(* application/email_control.rs, composition.rs).                          *)
(*                                                                         *)
(* Rolling restarts start processes with different configurations in any   *)
(* order. A login that was offered mail is pinned to a generation and to   *)
(* its eligibility.                                                        *)
(***************************************************************************)
EXTENDS Integers, FiniteSets

CONSTANTS
    Generations,    \* generation numbers
    Servers,        \* server processes
    Registrations,  \* requests of operators in flight
    MailLogins,     \* logins that may be offered mail
    Secrets,        \* credentials; a secret stands for its fingerprint
    Retention,      \* time a replaced generation stays usable (10 minutes)
    LoginLife,      \* time a login lasts (10 minutes)
    MaxCommands,    \* bound: operator commands
    MaxStarts       \* bound: starts of processes

DeploymentAssumption ==
    /\ Generations \subseteq Nat \ {0} /\ IsFiniteSet(Generations)
    /\ "none" \notin Secrets
    /\ {Retention, LoginLife} \subseteq Nat \ {0}
    /\ {MaxCommands, MaxStarts} \subseteq Nat

VARIABLES
    gen,            \* [Generations -> row of deployment_smtp_generations and its operation]
    envelope,       \* [Generations -> the protected credential]
    process,        \* [Servers -> where the start of a process stands]
    registration,   \* [Registrations -> where a request stands]
    pin,            \* [MailLogins -> what a login is pinned to]
    spent           \* commands and starts so far, against their bounds

deploymentVars == <<gen, envelope, process, registration, pin, spent>>

NoGen == [status |-> "none", revision |-> 0, eligibility |-> 0, fingerprint |-> "none",
          operation |-> "none", retained |-> 0]

NoMaterial == [state |-> "absent", secret |-> "none"]

NoRequest == [pc |-> "idle", of |-> 0, secret |-> "none", expected |-> "none"]

NoProcess == [pc |-> "down", of |-> 0, wants |-> "none", fingerprint |-> "none"]

NoLogin == [pinned |-> 0, eligibility |-> 0, left |-> 0]

Terminated == {"disabled", "compromised", "retired"}

-----------------------------------------------------------------------------
(***************************************************************************)
(* Registration of a generation. The request may name the fingerprint the  *)
(* processes are configured with; the digest covers it, and not the secret. *)
(***************************************************************************)

ReconcileGeneration(r, g, s, expected) ==
    /\ registration[r].pc = "idle"
    /\ spent.commands < MaxCommands
    /\ spent' = [spent EXCEPT !.commands = @ + 1]
    /\ registration' = [registration EXCEPT ![r] = [pc |-> "prepare", of |-> g, secret |-> s,
                                          expected |-> expected]]
    /\ UNCHANGED <<gen, envelope, process, pin>>

\* The same operation is taken up where it stands.
PrepareDeploymentSmtpGeneration(r) ==
    LET g == registration[r].of
    IN /\ registration[r].pc = "prepare"
       /\ registration' = [registration EXCEPT ![r].pc = "seal"]
       /\ \/ gen[g].status # "none" /\ UNCHANGED <<gen, envelope>>
          \/ /\ gen[g].status = "none"
             /\ gen' = [gen EXCEPT ![g] = [NoGen EXCEPT !.status = "reconciled", !.revision = 1,
                                             !.eligibility = 1, !.operation = "prepared"]]
             /\ envelope' = [envelope EXCEPT ![g].state = "pending"]
       /\ UNCHANGED <<process, pin, spent>>

\* The provider may fail, and a secret with another fingerprint is refused.
SealCredential(r) ==
    /\ registration[r].pc = "seal"
    /\ \/ /\ registration[r].expected \in {"none", registration[r].secret}
          /\ registration' = [registration EXCEPT ![r].pc = "finalize"]
       \/ registration' = [registration EXCEPT ![r] = NoRequest]
    /\ UNCHANGED <<gen, envelope, process, pin, spent>>

FinalizeDeploymentSmtpGenerationMutant(r) ==
    LET g == registration[r].of
        s == registration[r].secret
    IN /\ registration[r].pc = "finalize"
       /\ registration' = [registration EXCEPT ![r] = NoRequest]
       /\ IF envelope[g].state \in {"pending", "live"}
            THEN /\ envelope' = [envelope EXCEPT ![g] = [state |-> "live", secret |-> s]]
                 /\ gen' = IF gen[g].operation = "prepared"
                             THEN [gen EXCEPT ![g].fingerprint = s, ![g].operation = "completed"]
                             ELSE gen
            ELSE UNCHANGED <<gen, envelope>>
       /\ UNCHANGED <<process, pin, spent>>

\* The first envelope stays; afterwards the same secret is answered with the
\* record and another one is refused.
FinalizeDeploymentSmtpGeneration(r) ==
    LET g == registration[r].of
        s == registration[r].secret
        first == envelope[g].state = "pending" /\ gen[g].operation = "prepared"
    IN /\ registration[r].pc = "finalize"
       /\ registration' = [registration EXCEPT ![r] = NoRequest]
       /\ IF first
            THEN /\ envelope' = [envelope EXCEPT ![g] = [state |-> "live", secret |-> s]]
                 /\ gen' = [gen EXCEPT ![g].fingerprint = s, ![g].operation = "completed"]
            ELSE UNCHANGED <<gen, envelope>>
       /\ UNCHANGED <<process, pin, spent>>

\* A generation without a fingerprint has no record to answer with, so the
\* transaction rolls back. The operator names the current revision.
TerminateDeploymentSmtpGeneration(g, status) ==
    /\ spent.commands < MaxCommands
    /\ spent' = [spent EXCEPT !.commands = @ + 1]
    /\ gen[g].status \notin Terminated \cup {"none"}
    /\ gen[g].fingerprint # "none"
    /\ gen' = [gen EXCEPT ![g].status = status, ![g].retained = 0,
                          ![g].revision = @ + 1, ![g].eligibility = @ + 1]
    /\ UNCHANGED <<envelope, process, registration, pin>>

-----------------------------------------------------------------------------
(***************************************************************************)
(* The start of a process.                                                 *)
(***************************************************************************)

NoneActive == \A g \in Generations : gen[g].status # "active"

\* Without a generation to reconcile, or with one that is still to be sealed
\* through this very process, none may be active.
StartUnconfigured(p) ==
    /\ process[p].pc = "down"
    /\ spent.starts < MaxStarts
    /\ spent' = [spent EXCEPT !.starts = @ + 1]
    /\ process' = [process EXCEPT ![p].pc = IF NoneActive THEN "up" ELSE "down"]
    /\ UNCHANGED <<gen, envelope, registration, pin>>

\* A generation that is to be used is first opened with the fingerprint the
\* process is configured with. Failures end the start.
StartConfigured(p, g, wants, s) ==
    LET opens == /\ gen[g].fingerprint = s
                 /\ envelope[g] = [state |-> "live", secret |-> s]
    IN /\ process[p].pc = "down"
       /\ spent.starts < MaxStarts
       /\ spent' = [spent EXCEPT !.starts = @ + 1]
       /\ gen[g].status # "none"
       /\ wants \in {"reconciled", "active"} => opens
       /\ process' = [process EXCEPT ![p] = [pc |-> "reconcile", of |-> g, wants |-> wants,
                                             fingerprint |-> s]]
       /\ UNCHANGED <<gen, envelope, registration, pin>>

Activatable(g) == gen[g].status \in {"reconciled", "retained", "active"}

\* The generation takes the place of the one that is active.
Activated(g) ==
    [h \in Generations |->
        CASE h = g -> [gen[g] EXCEPT !.status = "active", !.retained = 0,
                                     !.revision = IF gen[g].status = "active" THEN @ ELSE @ + 1]
          [] h # g /\ gen[h].status = "active"
               -> [gen[h] EXCEPT !.status = "retained", !.retained = Retention, !.revision = @ + 1]
          [] OTHER -> gen[h]]

\* A termination by configuration, which also replaces another termination.
Ended(g, status) ==
    [gen EXCEPT ![g].status = status, ![g].retained = 0,
                ![g].revision = @ + 1, ![g].eligibility = @ + 1]

\* Endpoint, sender and credential of the row are those of the process; a row
\* without a fingerprint is nobody's. The fingerprint stands for all of them.
SameConfiguration(g, s) == gen[g].fingerprint = s

\* The registry is brought to what the process is configured with, or the
\* start fails and leaves the registry alone.
ReconcileDeploymentSmtp(p) ==
    LET g == process[p].of
        w == process[p].wants
        possible == /\ SameConfiguration(g, process[p].fingerprint)
                    /\ \/ w \in {gen[g].status, "reconciled"}
                       \/ w = "active" /\ Activatable(g)
                       \/ w \in {"disabled", "compromised"} /\ gen[g].status # "retired"
    IN /\ process[p].pc = "reconcile"
       /\ \/ /\ possible
             /\ process' = [process EXCEPT ![p].pc = "up"]
             /\ gen' = IF w \in {gen[g].status, "reconciled"} THEN gen
                       ELSE IF w = "active" THEN Activated(g) ELSE Ended(g, w)
          \/ /\ ~possible
             /\ process' = [process EXCEPT ![p] = NoProcess]
             /\ UNCHANGED gen
       /\ UNCHANGED <<envelope, registration, pin, spent>>

StopProcess(p) ==
    /\ process[p].pc # "down"
    /\ process' = [process EXCEPT ![p] = NoProcess]
    /\ UNCHANGED <<gen, envelope, registration, pin, spent>>

-----------------------------------------------------------------------------
(***************************************************************************)
(* Logins, retirement and time.                                            *)
(***************************************************************************)

\* A login snapshots the generation that is active when it begins.
PinLogin(l, g) ==
    /\ pin[l].left = 0
    /\ gen[g].status = "active"
    /\ pin' = [pin EXCEPT ![l] = [pinned |-> g, eligibility |-> gen[g].eligibility,
                                      left |-> LoginLife]]
    /\ UNCHANGED <<gen, envelope, process, registration, spent>>

EndLogin(l) ==
    /\ pin[l].left > 0
    /\ pin' = [pin EXCEPT ![l] = NoLogin]
    /\ UNCHANGED <<gen, envelope, process, registration, spent>>

Pinned(g) == \E l \in MailLogins : pin[l].pinned = g /\ pin[l].left > 0

Retirable(g) ==
    /\ \/ gen[g].status \in {"disabled", "compromised"}
       \/ gen[g].status = "retained" /\ gen[g].retained = 0
    /\ ~Pinned(g)

\* Retirement and erasure; the cleanup of a retired credential is never undone.
RetireDeploymentGeneration(g) ==
    /\ Retirable(g)
    /\ gen' = [gen EXCEPT ![g].status = "retired", ![g].retained = 0,
                          ![g].revision = @ + 1, ![g].eligibility = @ + 1]
    /\ envelope' = [envelope EXCEPT ![g].state = "erased"]
    /\ UNCHANGED <<process, registration, pin, spent>>

Down(n) == IF n = 0 THEN 0 ELSE n - 1

Tick ==
    /\ gen' = [g \in Generations |-> [gen[g] EXCEPT !.retained = Down(@)]]
    /\ pin' = [l \in MailLogins |-> IF pin[l].left <= 1 THEN NoLogin
                                                        ELSE [pin[l] EXCEPT !.left = @ - 1]]
    /\ <<gen', pin'>> # <<gen, pin>>
    /\ UNCHANGED <<envelope, process, registration, spent>>

-----------------------------------------------------------------------------
DeploymentInit ==
    /\ gen = [g \in Generations |-> NoGen]
    /\ envelope = [g \in Generations |-> NoMaterial]
    /\ process = [p \in Servers |-> NoProcess]
    /\ registration = [r \in Registrations |-> NoRequest]
    /\ pin = [l \in MailLogins |-> NoLogin]
    /\ spent = [commands |-> 0, starts |-> 0]

Register(r) ==
    \/ \E g \in Generations, s \in Secrets, e \in Secrets \cup {"none"} :
          ReconcileGeneration(r, g, s, e)
    \/ PrepareDeploymentSmtpGeneration(r)
    \/ SealCredential(r)
    \/ FinalizeDeploymentSmtpGeneration(r)

Run(p) ==
    \/ StartUnconfigured(p)
    \/ \E g \in Generations, s \in Secrets :
          \E w \in {"reconciled", "active", "disabled", "compromised"} :
              StartConfigured(p, g, w, s)
    \/ ReconcileDeploymentSmtp(p)
    \/ StopProcess(p)

DeploymentNext ==
    \/ \E r \in Registrations : Register(r)
    \/ \E g \in Generations :
          \/ \E status \in {"disabled", "compromised"} :
                TerminateDeploymentSmtpGeneration(g, status)
          \/ RetireDeploymentGeneration(g)
    \/ \E p \in Servers : Run(p)
    \/ \E l \in MailLogins : EndLogin(l) \/ \E g \in Generations : PinLogin(l, g)
    \/ Tick

DeploymentSpec == DeploymentInit /\ [][DeploymentNext]_deploymentVars

-----------------------------------------------------------------------------
(***************************************************************************)
(* Statuses are those of the table, an operation is completed exactly when *)
(* its generation has a fingerprint, and at most one generation is active  *)
(* however the starts of differently configured processes interleave.      *)
(***************************************************************************)
DeploymentTypeOK ==
    /\ \A g \in Generations :
          /\ gen[g].status \in {"none", "reconciled", "active", "retained"} \cup Terminated
          /\ (gen[g].operation = "completed") = (gen[g].fingerprint # "none")
          /\ gen[g].retained \in 0..Retention
          /\ envelope[g].state \in {"absent", "pending", "live", "erased"}
    /\ Cardinality({g \in Generations : gen[g].status = "active"}) <= 1

(***************************************************************************)
(* A generation that may send, for a new login or for one pinned to it,    *)
(* has its credential, the one whose fingerprint the registry shows: a     *)
(* start that checked the credential before another process replaced the   *)
(* generation and a worker erased it does not bring it back.               *)
(***************************************************************************)
UsableOpens ==
    \A g \in Generations :
        LET usable == \/ gen[g].status = "active"
                      \/ \E l \in MailLogins : /\ pin[l].pinned = g /\ pin[l].left > 0
                                               /\ pin[l].eligibility = gen[g].eligibility
        IN usable => envelope[g] = [state |-> "live", secret |-> gen[g].fingerprint]

(***************************************************************************)
(* A termination holds against every later start with an old               *)
(* configuration: the generation is never usable again, and what was       *)
(* pinned to it before stays refused.                                      *)
(***************************************************************************)
TerminationKept ==
    \A g \in Generations : gen[g].status \in Terminated =>
        gen'[g].status \in Terminated /\ gen'[g].eligibility >= gen[g].eligibility

DeploymentSafe == DeploymentTypeOK /\ UsableOpens
=============================================================================
