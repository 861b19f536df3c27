----------------------------- MODULE MCSettings -----------------------------
(***************************************************************************)
(* Bounded instances of the modules about what operators configure and     *)
(* what is derived from it: SMTP of a Project and of the deployment, the   *)
(* redirects and origins of Applications, and the projections of a user.   *)
(* They change different rows. One behaviour plays one scene: the          *)
(* component of the scene is on stage and the variables of the others have *)
(* the value Off. A variable that two components call by the same name     *)
(* belongs to the one on stage. ApplicationConfiguration, DeploymentSmtp   *)
(* and Projection are extended and rest in their initial state while they  *)
(* are off stage.                                                          *)
(***************************************************************************)
EXTENDS ApplicationConfiguration, DeploymentSmtp, Projection, TLC

CONSTANTS w1, w2, r1, r2, s1, s2, p1, p2, a1, a2, a3, c1, c2, u1, u2, Off

VARIABLES
    scene,
    \* SmtpConfiguration
    owner, conf, test, material, asked, worker, relayed, used,
    \* ApplicationConfiguration
    edited, editor, logins, requests, shown

vars == <<scene, owner, conf, test, material, asked, worker, relayed, used, gen, envelope,
           process, registration, pin, spent, edited, editor, logins, requests, shown, app,
           reader, login, request, seen, project, application, user, proj, events, ring,
           handoff, changes>>

\* A user without a name, bound to nothing.
ProjectionRests ==
    /\ project = "active" /\ application = [a \in Apps |-> "active"]
    /\ user = [status |-> "active", revision |-> 1, name |-> Nothing, source |-> "provider"]
    /\ proj = [a \in Apps |-> NoProjection] /\ events = [a \in Apps |-> <<>>]
    /\ ring = [p \in Processes |-> [write |-> First, readable |-> {First}]]
    /\ handoff = [h \in Handoffs |-> NoHandoff] /\ changes = 0

\* Two generations of the SMTP configuration of a Project, tested, activated, replaced
\* and terminated.
SmtpActivation == INSTANCE SmtpConfiguration
    WITH Configs <- {1, 2}, Tests <- {1, 2}, Requests <- {r1}, Workers <- {w1},
         Secrets <- {s1}, MaxLive <- 2, TestLife <- 1, MaxCommands <- 4, MaxCrashes <- 0,
         Deletable <- {}, ProjectOf <- [c \in {1, 2} |-> "project"], PrepareLimit <- 1,
         Lease <- 1, project <- owner, request <- asked

\* One test that two requests prepare and two workers send; requests and workers stop
\* anywhere, and the Project may be deleted.
SmtpTests == INSTANCE SmtpConfiguration
    WITH Configs <- {1}, Tests <- {1}, Requests <- {r1, r2}, Workers <- {w1, w2},
         Secrets <- {s1, s2}, MaxLive <- 1, TestLife <- 2, MaxCommands <- 3,
         MaxCrashes <- 1, Deletable <- {"project"},
         ProjectOf <- [c \in {1, 2} |-> "project"], PrepareLimit <- 1, Lease <- 1,
         project <- owner, request <- asked

\* Operators who read, replace and disable one Application at once.
ConfigurationOperators == INSTANCE ApplicationConfiguration
    WITH Applications <- {a1}, Redirects <- {u1, u2}, Origins <- {s1, s2},
         Operators <- {p1, p2}, Requests <- {}, Logins <- {}, MaxRevision <- 5,
         app <- edited, reader <- editor, login <- logins, request <- requests,
         seen <- shown

ASSUME SettingsAssumption ==
    /\ SmtpActivation!SmtpAssumption
    /\ SmtpTests!SmtpAssumption
    /\ DeploymentAssumption
    /\ ConfigurationOperators!ConfigurationAssumption
    /\ ConfigurationAssumption
    /\ ProjectionAssumption

\* The variables of the components that are off stage, and that they have no value or
\* rest.
offSmtp == <<gen, envelope, process, registration, pin, spent, edited, editor, logins,
             requests, shown, app, reader, login, request, seen, project, application,
             user, proj, events, ring, handoff, changes>>
SmtpAlone == edited = Off /\ editor = Off /\ logins = Off /\ requests = Off /\
             shown = Off /\ DeploymentInit /\ ConfigurationInit /\ ProjectionRests

offDeployment == <<owner, conf, test, material, asked, worker, relayed, used, edited,
                   editor, logins, requests, shown, app, reader, login, request, seen,
                   project, application, user, proj, events, ring, handoff, changes>>
DeploymentAlone == owner = Off /\ conf = Off /\ test = Off /\ material = Off /\
                   asked = Off /\ worker = Off /\ relayed = Off /\ used = Off /\
                   edited = Off /\ editor = Off /\ logins = Off /\ requests = Off /\
                   shown = Off /\ ConfigurationInit /\ ProjectionRests

offOperators == <<owner, conf, test, material, asked, worker, relayed, used, gen, envelope,
                  process, registration, pin, spent, app, reader, login, request, seen,
                  project, application, user, proj, events, ring, handoff, changes>>
OperatorsAlone == owner = Off /\ conf = Off /\ test = Off /\ material = Off /\
                  asked = Off /\ worker = Off /\ relayed = Off /\ used = Off /\
                  DeploymentInit /\ ConfigurationInit /\ ProjectionRests

offConfiguration == <<owner, conf, test, material, asked, worker, relayed, used, gen,
                      envelope, process, registration, pin, spent, edited, editor, logins,
                      requests, shown, project, application, user, proj, events, ring,
                      handoff, changes>>
ConfigurationAlone == owner = Off /\ conf = Off /\ test = Off /\ material = Off /\
                      asked = Off /\ worker = Off /\ relayed = Off /\ used = Off /\
                      edited = Off /\ editor = Off /\ logins = Off /\ requests = Off /\
                      shown = Off /\ DeploymentInit /\ ProjectionRests

offProjection == <<owner, conf, test, material, asked, worker, relayed, used, gen,
                   envelope, process, registration, pin, spent, edited, editor, logins,
                   requests, shown, app, reader, login, request, seen>>
ProjectionAlone == owner = Off /\ conf = Off /\ test = Off /\ material = Off /\
                   asked = Off /\ worker = Off /\ relayed = Off /\ used = Off /\
                   edited = Off /\ editor = Off /\ logins = Off /\ requests = Off /\
                   shown = Off /\ DeploymentInit /\ ConfigurationInit

Init ==
    \/ /\ \/ scene = "smtp_activation" /\ SmtpActivation!Init
          \/ scene = "smtp_tests" /\ SmtpTests!Init
       /\ SmtpAlone
    \/ scene = "deployment" /\ DeploymentInit /\ DeploymentAlone
    \/ scene = "configuration_operators" /\ ConfigurationOperators!ConfigurationInit /\ OperatorsAlone
    \/ scene = "configuration_origins" /\ ConfigurationInit /\ ConfigurationAlone
    \/ scene = "projection" /\ ProjectionInit /\ ProjectionAlone

Next ==
    /\ \/ scene = "smtp_activation" /\ SmtpActivation!Next /\ UNCHANGED offSmtp
       \/ scene = "smtp_tests" /\ SmtpTests!Next /\ UNCHANGED offSmtp
       \/ scene = "deployment" /\ DeploymentNext /\ UNCHANGED offDeployment
       \/ scene = "configuration_operators" /\ ConfigurationOperators!ConfigurationNext /\ UNCHANGED offOperators
       \/ scene = "configuration_origins" /\ ConfigurationNext /\ UNCHANGED offConfiguration
       \/ scene = "projection" /\ ProjectionNext /\ UNCHANGED offProjection
    /\ UNCHANGED scene

Spec == Init /\ [][Next]_vars

-----------------------------------------------------------------------------
(***************************************************************************)
(* activate_smtp_configuration, claim_smtp_test,                           *)
(* retire_project_smtp_configurations: the configuration that sends has    *)
(* had a message accepted under the credential it holds, a test is one     *)
(* message, and nothing a worker has under its lease is erased but by the  *)
(* deletion of the Project.                                                *)
(***************************************************************************)
SmtpSafe ==
    /\ scene = "smtp_activation" => SmtpActivation!SmtpSafe
    /\ scene = "smtp_tests" => SmtpTests!SmtpSafe

(***************************************************************************)
(* replace_application_configuration, lock_login_application_owners,       *)
(* terminate_deployment_smtp_generation: a replacement overwrites only     *)
(* what its operator was shown, nobody is sent to a redirect that is no    *)
(* longer configured, and a termination holds against every later start.   *)
(***************************************************************************)
DecisionsHold ==
    [][/\ scene = "configuration_operators" => ConfigurationOperators!ReplacesWhatWasRead
       /\ scene = "configuration_origins" => RedirectStillConfigured
       /\ scene = "deployment" => TerminationKept]_vars

\* Whatever there are two of is interchangeable; a scene has few of them, so that two
\* permutations serve all.
Symmetry == Permutations({a1, a2}) \cup {w1 :> w2 @@ w2 :> w1 @@ p1 :> p2 @@ p2 :> p1,
             r1 :> r2 @@ r2 :> r1 @@ s1 :> s2 @@ s2 :> s1 @@ u1 :> u2 @@ u2 :> u1
                 @@ c1 :> c2 @@ c2 :> c1}
=============================================================================
