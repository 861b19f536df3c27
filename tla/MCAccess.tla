------------------------------ MODULE MCAccess ------------------------------
(***************************************************************************)
(* Bounded instances of the modules around the Runtime: the pages and      *)
(* cookies of browsers, links opened elsewhere, and the deletion of what   *)
(* is over. They are different views of it. One behaviour plays one scene: *)
(* the component of the scene is on stage and the variables of the others  *)
(* have the value Off. A variable that two components call by the same     *)
(* name belongs to the one on stage. HostedBrowser and MagicTransfer are   *)
(* extended and rest in their initial state while they are off stage;      *)
(* scenes of the same component differ in which of its interactions move.  *)
(***************************************************************************)
EXTENDS HostedBrowser, MagicTransfer, TLC

CONSTANTS c1, c2, origin, stranger, b1, b2, u1, r1, r2, j1, j2, Off

VARIABLES
    scene,
    \* Retention
    now, owners, login, ticket, seat, browser, sessions, family, generation, logout,
    request, job

vars == <<scene, status, claim, session, signOut, jar, wire, binder, opened, finisher,
           kept, clock, owner, challenge, context, attempt, winner, now, owners, login,
           ticket, seat, browser, sessions, family, generation, logout, request, job>>

\* What the instances have in common: of the sessions that are pruned,
HandoffLifetime == 1
IdleLifetime == 2
ReuseMaxAge == 1
LogoutLifetime == 1

\* and of prune jobs.
Grace == 2
Skew == 0
Batch == 1

\* An identity proof and a reauthorization side by side in two browsers.
Untouched(these) == \A i \in these : status'[i] = status[i]

\* The link of a login; clocks of replicas differ.
MagicLogin == INSTANCE MagicTransfer
    WITH Owner <- "login", ContextTtl <- 1, MaxClockLag <- 1, MaxTime <- 3

\* One session with its tokens and a logout interaction, beside a prune job.
RetentionTokens == INSTANCE Retention
    WITH Login <- {"l1"}, Request <- {r1, r2}, Logout <- {"i1"}, Job <- {"j1"},
         MaxTime <- 6, LastRequest <- 6, SessionLifetime <- 2, MaxGeneration <- 2,
         LoginTail <- 0, Browser <- {"b1"}, Volatile <- {}, MaxOwnerRevision <- 1,
         MaxClockLag <- 1, BrowserLifetime <- 2, owner <- owners, session <- sessions

\* A browser that signs in again while two jobs prune its session.
RetentionBrowser == INSTANCE Retention
    WITH Login <- {"l1", "l2"}, Request <- {"r1"}, Logout <- {}, Job <- {j1, j2},
         MaxTime <- 5, LastRequest <- 5, SessionLifetime <- 2, MaxGeneration <- 1,
         LoginTail <- 0, Browser <- {"b1"}, Volatile <- {}, MaxOwnerRevision <- 1,
         MaxClockLag <- 1, BrowserLifetime <- 2, owner <- owners, session <- sessions

ASSUME AccessAssumption ==
    /\ HostedAssumption
    /\ MagicAssumption
    /\ MagicLogin!MagicAssumption
    /\ RetentionTokens!RetentionAssumption
    /\ RetentionBrowser!RetentionAssumption

\* The variables of the components that are off stage, and that they have no value or
\* rest.
offHosted == <<clock, owner, challenge, context, attempt, winner, now, owners, login,
               ticket, seat, browser, sessions, family, generation, logout, request, job>>
HostedAlone == now = Off /\ owners = Off /\ login = Off /\ ticket = Off /\ seat = Off /\
               browser = Off /\ sessions = Off /\ family = Off /\ generation = Off /\
               logout = Off /\ request = Off /\ job = Off /\ MagicInit

offMagic == <<status, claim, session, signOut, jar, wire, binder, opened, finisher, kept,
              now, owners, login, ticket, seat, browser, sessions, family, generation,
              logout, request, job>>
MagicAlone == now = Off /\ owners = Off /\ login = Off /\ ticket = Off /\ seat = Off /\
              browser = Off /\ sessions = Off /\ family = Off /\ generation = Off /\
              logout = Off /\ request = Off /\ job = Off /\ HostedInit

offRetention == <<status, claim, session, signOut, jar, wire, binder, opened, finisher,
                  kept, clock, owner, challenge, context, attempt, winner>>
RetentionAlone == HostedInit /\ MagicInit

Init ==
    \/ /\ \/ scene = "hosted_proofs" /\ HostedInit
          \/ scene = "hosted_logins" /\ HostedInit
       /\ HostedAlone
    \/ /\ \/ scene = "magic_mutation" /\ MagicInit
          \/ scene = "magic_login" /\ MagicLogin!MagicInit
       /\ MagicAlone
    \/ /\ \/ scene = "retention_tokens" /\ RetentionTokens!RetentionInit
          \/ scene = "retention_browser" /\ RetentionBrowser!RetentionInit
       /\ RetentionAlone

Next ==
    /\ \/ scene = "hosted_proofs" /\ HostedNext /\ Untouched(Logins) /\ UNCHANGED offHosted
       \/ scene = "hosted_logins" /\ HostedNext /\ Untouched(Proofs \cup Reauthorizations) /\ UNCHANGED offHosted
       \/ scene = "magic_mutation" /\ MagicNext /\ UNCHANGED offMagic
       \/ scene = "magic_login" /\ MagicLogin!MagicNext /\ UNCHANGED offMagic
       \/ scene = "retention_tokens" /\ RetentionTokens!RetentionNext /\ UNCHANGED offRetention
       \/ scene = "retention_browser" /\ RetentionBrowser!RetentionNext /\ UNCHANGED offRetention
    /\ UNCHANGED scene

Spec == Init /\ [][Next]_vars

-----------------------------------------------------------------------------
(***************************************************************************)
(* prune_runtime_data: no foreign key stops a job, and as long as a        *)
(* session may be refreshed every token it had is still known.             *)
(***************************************************************************)
RetentionSafe ==
    /\ scene = "retention_tokens" => RetentionTokens!RetentionSafe
    /\ scene = "retention_browser" => RetentionBrowser!RetentionSafe

(***************************************************************************)
(* prune_runtime_data: nothing a handler would still accept, by whatever   *)
(* clock it reads, is deleted.                                             *)
(***************************************************************************)
NothingLiveGoes ==
    [][/\ scene = "retention_tokens" => RetentionTokens!NothingLiveGoes
       /\ scene = "retention_browser" => RetentionBrowser!NothingLiveGoes]_vars

\* Contexts, browsers, requests and jobs are interchangeable; a scene has two of one
\* of them, so that one permutation serves all.
Swap == c1 :> c2 @@ c2 :> c1 @@ b1 :> b2 @@ b2 :> b1 @@ r1 :> r2 @@ r2 :> r1 @@ j1 :> j2 @@ j2 :> j1
Symmetry == Permutations({c1, c2}) \cup {Swap}
=============================================================================
