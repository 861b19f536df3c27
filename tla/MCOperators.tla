---------------------------- MODULE MCOperators -----------------------------
(***************************************************************************)
(* Bounded instances of the modules about operating a deployment: the      *)
(* commands of the Control API as operators send and repeat them, the      *)
(* command line with the profiles it keeps, and one server process from    *)
(* start to exit. One behaviour plays one scene: the component of the      *)
(* scene is on stage and the variables of the others have the value Off. A *)
(* variable that two components call by the same name belongs to the one   *)
(* on stage.                                                               *)
(***************************************************************************)
EXTENDS Naturals, TLC

CONSTANTS i1, i2, p1, p2, n1, n2, e1, e2, v1, v2, None, Off

VARIABLES
    scene,
    \* ControlSurface
    status, rev, ledger, asked, sends, flight, answer, background, effects, moved,
    \* RemoteProfile
    store, lock, served, proc, runs, deploys, kills, released, approved, accepted,
    \* ServerProcess
    phase, result, pools, bound, ready, server, open, shutdown, worker, maintenance

vars == <<scene, status, rev, ledger, asked, sends, flight, answer, background, effects,
           moved, store, lock, served, proc, runs, deploys, kills, released, approved,
           accepted, phase, result, pools, bound, ready, server, open, shutdown, worker,
           maintenance>>

\* The tables of commands, which have no state.
Api == INSTANCE ControlSurface
    WITH Command <- <<>>, Intents <- {}, Keys <- {}, Offered <- {}, Starts <- {},
         MaxSends <- 0, MaxBackground <- 0
Cli == INSTANCE RemoteProfile
    WITH Command <- <<>>, Processes <- {}, Names <- {}, Endpoints <- {}, Identities <- {}, Variables <- {},
         Offered <- {}, MaxRuns <- 0, MaxDeploys <- 0, MaxKills <- 0
ApiCommands == Api!Commands
CliCommands == Cli!Commands

DirectoryCommands ==
    UNION {DOMAIN Api!ProjectCommands, DOMAIN Api!ProjectPolicyCommands,
           DOMAIN Api!ProjectLifecycleCommands, DOMAIN Api!EmailCommands,
           DOMAIN Api!DeploymentSmtpCommands, DOMAIN Api!SmtpCommands,
           DOMAIN Api!SmtpLifecycleCommands, DOMAIN Api!ServerKeyCommands,
           DOMAIN Api!UserCommands, DOMAIN Api!SessionCommands}

DirectoryStarts == {<<>>, [user |-> "disabled", server_key |-> "revoked", smtp |-> "active"]}

\* Signing keys, connections, reauthorizations and identity mutations.
WorkedCommands ==
    UNION {DOMAIN Api!SigningCommands, DOMAIN Api!ConnectionCommands,
           DOMAIN Api!ReauthorizationCommands, DOMAIN Api!IntentCommands,
           DOMAIN Api!IntentLifecycleCommands,
           {"disable_project", "enable_project", "update_project"}}

WiringCommands ==
    (DOMAIN ApiCommands \ (DirectoryCommands \cup WorkedCommands))
    \cup {"disable_project", "enable_project", "update_project", "assign_email_method"}

WiringStarts ==
    {<<>>,
     [assignment |-> "disabled", endpoint |-> "pending"],
     [assignment |-> "disabled", provider |-> "provisioning"],
     [replacement |-> "pending"]}

\* Projects, their policies, mail, users, sessions and server keys.
Directory == INSTANCE ControlSurface
    WITH Command <- ApiCommands, Intents <- {i1, i2}, Keys <- {"k"},
         Offered <- DirectoryCommands, Starts <- DirectoryStarts, MaxSends <- 2,
         MaxBackground <- 0

\* Applications, endpoints, providers, and the Project around them.
Wiring == INSTANCE ControlSurface
    WITH Command <- ApiCommands, Intents <- {i1, i2}, Keys <- {"k"},
         Offered <- WiringCommands, Starts <- WiringStarts, MaxSends <- 2,
         MaxBackground <- 0

\* What workers and hosted interactions also move.
Worked == INSTANCE ControlSurface
    WITH Command <- ApiCommands, Intents <- {i1, i2}, Keys <- {"k"},
         Offered <- WorkedCommands, Starts <- {<<>>}, MaxSends <- 2, MaxBackground <- 1

\* Commands of each kind against one name while it is rebound and the servers change.
ProfileKeys == INSTANCE RemoteProfile
    WITH Command <- CliCommands, Processes <- {p1, p2}, Names <- {"n1"},
         Endpoints <- {e1, e2}, Identities <- {i1, i2}, Variables <- {v1, v2},
         Offered <- {"project_list", "project_delete", "provider_create"}, MaxRuns <- 3,
         MaxDeploys <- 1, MaxKills <- 0

\* Profiles added, selected and rebound by processes that may be killed.
ProfileStore == INSTANCE RemoteProfile
    WITH Command <- CliCommands, Processes <- {p1, p2}, Names <- {n1, n2},
         Endpoints <- {e1, e2}, Identities <- {"i1"}, Variables <- {v1, v2}, Offered <- {},
         MaxRuns <- 3, MaxDeploys <- 0, MaxKills <- 1

\* Two planes with connections, and three workers.
Process == INSTANCE ServerProcess
    WITH Planes <- {"auth", "control"},
         Workers <- {"mail", "provider_recovery", "webhook_delivery"}, MaxConnections <- 2,
         MailBatch <- 2, OtherBatch <- 2, MaxTicks <- 1

\* Workers whose ticks and batches race with the drain.
ProcessDrain == INSTANCE ServerProcess
    WITH Planes <- {"auth", "control"}, Workers <- {"mail", "managed_sync"},
         MaxConnections <- 1, MailBatch <- 2, OtherBatch <- 1, MaxTicks <- 3

ASSUME OperatorsAssumption ==
    /\ Directory!SurfaceAssumption
    /\ Wiring!SurfaceAssumption
    /\ Worked!SurfaceAssumption
    /\ ProfileKeys!ProfileAssumption
    /\ ProfileStore!ProfileAssumption
    /\ Process!ProcessAssumption
    /\ ProcessDrain!ProcessAssumption

\* The variables of the components that are off stage, and that they have no value.
offSurface == <<store, lock, served, proc, runs, deploys, kills, released, approved,
                accepted, phase, result, pools, bound, ready, server, open, shutdown,
                worker, maintenance>>
SurfaceAlone == store = Off /\ lock = Off /\ served = Off /\ proc = Off /\ runs = Off /\
                deploys = Off /\ kills = Off /\ released = Off /\ approved = Off /\
                accepted = Off /\ phase = Off /\ result = Off /\ pools = Off /\
                bound = Off /\ ready = Off /\ server = Off /\ open = Off /\
                shutdown = Off /\ worker = Off /\ maintenance = Off

offProfile == <<status, rev, ledger, asked, sends, flight, answer, background, effects,
                moved, phase, result, pools, bound, ready, server, open, shutdown, worker,
                maintenance>>
ProfileAlone == status = Off /\ rev = Off /\ ledger = Off /\ asked = Off /\ sends = Off /\
                flight = Off /\ answer = Off /\ background = Off /\ effects = Off /\
                moved = Off /\ phase = Off /\ result = Off /\ pools = Off /\ bound = Off /\
                ready = Off /\ server = Off /\ open = Off /\ shutdown = Off /\
                worker = Off /\ maintenance = Off

offProcess == <<status, rev, ledger, asked, sends, flight, answer, background, effects,
                moved, store, lock, served, proc, runs, deploys, kills, released, approved,
                accepted>>
ProcessAlone == status = Off /\ rev = Off /\ ledger = Off /\ asked = Off /\ sends = Off /\
                flight = Off /\ answer = Off /\ background = Off /\ effects = Off /\
                moved = Off /\ store = Off /\ lock = Off /\ served = Off /\ proc = Off /\
                runs = Off /\ deploys = Off /\ kills = Off /\ released = Off /\
                approved = Off /\ accepted = Off

Init ==
    \/ /\ \/ scene = "directory" /\ Directory!Init
          \/ scene = "wiring" /\ Wiring!Init
          \/ scene = "worked" /\ Worked!Init
       /\ SurfaceAlone
    \/ /\ \/ scene = "profile_keys" /\ ProfileKeys!Init
          \/ scene = "profile_store" /\ ProfileStore!Init
       /\ ProfileAlone
    \/ /\ \/ scene = "process" /\ Process!Init
          \/ scene = "process_drain" /\ ProcessDrain!Init
       /\ ProcessAlone

Next ==
    /\ \/ scene = "directory" /\ Directory!Next /\ UNCHANGED offSurface
       \/ scene = "wiring" /\ Wiring!Next /\ UNCHANGED offSurface
       \/ scene = "worked" /\ Worked!Next /\ UNCHANGED offSurface
       \/ scene = "profile_keys" /\ ProfileKeys!Next /\ UNCHANGED offProfile
       \/ scene = "profile_store" /\ ProfileStore!Next /\ UNCHANGED offProfile
       \/ scene = "process" /\ Process!Next /\ UNCHANGED offProcess
       \/ scene = "process_drain" /\ ProcessDrain!Next /\ UNCHANGED offProcess
    /\ UNCHANGED scene

Spec == Init /\ [][Next]_vars

-----------------------------------------------------------------------------
(***************************************************************************)
(* lookup_idempotency_record, authenticate_validated_profile,              *)
(* mutate_store, serve_until_shutdown: a command takes effect once however *)
(* often it is repeated; a key is sent only where an operator pinned it    *)
(* and an acknowledged profile is kept; a ready process serves, and pools  *)
(* close under no work unless the deadline cut it short.                   *)
(***************************************************************************)
OperatorsSafe ==
    /\ scene = "directory" => Directory!TypeOK /\ Directory!AtMostOnce
    /\ scene = "wiring" => Wiring!AtMostOnce
    /\ scene = "worked" => Worked!AtMostOnce
    /\ scene = "profile_keys" => /\ ProfileKeys!TypeOK
                                 /\ ProfileKeys!KeyStaysWithItsPin
                                 /\ ProfileKeys!CommandGoesWhereShown
    /\ scene = "profile_store" => ProfileStore!AcknowledgedProfilesKept
    /\ scene = "process" => /\ Process!ProcessTypeOK
                            /\ Process!ReadyMeansServing
                            /\ Process!WorkEndsBeforePools
    /\ scene = "process_drain" => ProcessDrain!OneLateBatch

(***************************************************************************)
(* require_revision, rebind_profile_at, with_graceful_shutdown: a fenced   *)
(* command acts on the very history its operator saw and success is        *)
(* reported for what happened, a pin is replaced only by who displayed it, *)
(* and a drain only ever has fewer connections to wait for.                *)
(***************************************************************************)
ActsOnWhatWasSeen ==
    [][/\ scene = "directory" => Directory!HonestSuccess
       /\ scene = "wiring" => Wiring!ActsOnWhatWasSeen
       /\ scene = "worked" => Worked!HonestSuccess /\ Worked!ActsOnWhatWasSeen
       /\ scene = "profile_store" => ProfileStore!ReplacesWhatItDisplayed
       /\ scene = "process" => Process!DrainOnlyShrinks]_vars

\* Intents, processes, names, endpoints and variables are interchangeable.
Symmetry == Permutations({i1, i2}) \cup Permutations({p1, p2})
    \cup Permutations({e1, e2}) \cup Permutations({v1, v2})
=============================================================================
