---------------------------- MODULE ControlPlane ----------------------------
(***************************************************************************)
(* The rows every Runtime transaction consults before it grants anything,  *)
(* the operator commands that change them, and the clock.                  *)
(*                                                                         *)
(* OwlAuth does not rewrite logins, tickets or sessions when an operator   *)
(* disables or edits something: the command advances a revision on the     *)
(* changed row, and every later transaction compares the revision it       *)
(* captured with the current one.  An "owner" is one such row, reduced to  *)
(* its status and the revision that Runtime compares:                      *)
(*   metadata     projects.metadata_revision                               *)
(*   project      projects.status, security_revision                       *)
(*   application  applications.status, security_revision                   *)
(*   policy       project_policies.claims_revision, session_revision       *)
(*   provider     provider_configurations and its Application assignment   *)
(*   egress       project_provider_egress_policies.revision                *)
(*   email        project_email_policies, its assignment, the SMTP setting *)
(*   user         project_users.status, security_revision                  *)
(*   signing      project_key_rings.signing_epoch and its active key       *)
(*   profile      project_users.user_revision, the Application binding and *)
(*                the projection derived from them                         *)
(* One Project with one Application, provider and user is modelled: no     *)
(* transaction here reads an owner of another Project.                     *)
(***************************************************************************)
EXTENDS Naturals

CONSTANTS
    Volatile,          \* the owners that operators change in this instance
    MaxOwnerRevision,  \* bound on an owner's revision
    MaxTime,           \* bound on the clock
    MaxClockLag        \* how old the clock reading of a transaction may be

Owners == {"metadata", "project", "application", "policy", "provider",
           "egress", "email", "user", "signing", "profile"}

ASSUME ControlPlaneAssumption ==
    /\ Volatile \subseteq Owners
    /\ MaxOwnerRevision \in Nat \ {0}
    /\ MaxTime \in Nat
    /\ MaxClockLag \in Nat

VARIABLES
    now,    \* the database clock
    owner   \* owner[o]: [status, revision]

controlVars == <<now, owner>>

\* "closed" is for good: a Project that is deleting, a disabled provider
\* configuration.  A provider that is only "disabled" is unassigned.
OwnerStatus == {"active", "disabled", "closed"}
Revision == Nat \ {0}
OwnerSnapshot == [Owners -> Revision]

ControlTypeOK ==
    /\ now \in Nat
    /\ owner \in [Owners -> [status : OwnerStatus, revision : Revision]]

ControlInit ==
    /\ now = 0
    /\ owner = [o \in Owners |-> [status |-> "active", revision |-> 1]]

Active(o) == owner[o].status = "active"

\* The revisions a transaction captures.
Snapshot == [o \in Owners |-> owner[o].revision]

\* Every owner in S is active and still at the revision captured in snap.
Current(S, snap) == \A o \in S : Active(o) /\ owner[o].revision = snap[o]

(***************************************************************************)
(* A handler reads command.now on its own replica before it waits for the  *)
(* row lock, so its transaction may work with a reading that is up to      *)
(* MaxClockLag old when it commits.                                        *)
(***************************************************************************)
ClockReading == {t \in 0..now : now - t <= MaxClockLag}

-----------------------------------------------------------------------------
(* Operator commands.  Each is one transaction, guarded by the revision the *)
(* operator last saw; a stale command is refused and changes nothing.       *)

\* Advance the revision of every owner in touched; those in S take status.
Revise(touched, S, status) ==
    /\ touched \subseteq Volatile
    /\ \A o \in touched : owner[o].revision < MaxOwnerRevision
    /\ owner' = [o \in Owners |->
                    IF o \in touched
                    THEN [status   |-> IF o \in S THEN status ELSE owner[o].status,
                          revision |-> owner[o].revision + 1]
                    ELSE owner[o]]
    /\ UNCHANGED now

UpdateProject ==
    Active("project") /\ Revise({"metadata"}, {}, "active")

UpdateProjectPolicy ==
    Active("project") /\ Revise({"policy"}, {}, "active")

DisableProject ==
    Active("project") /\ Revise({"project"}, {"project"}, "disabled")

EnableProject ==
    owner["project"].status = "disabled" /\ Revise({"project"}, {"project"}, "active")

DeleteProject ==
    owner["project"].status # "closed" /\ Revise({"project"}, {"project"}, "closed")

ReplaceApplicationConfiguration ==
    Active("project") /\ Active("application") /\ Revise({"application"}, {}, "active")

\* There is no command that enables a disabled Application.  Disabling it also
\* disables the provider assignments that are active.
DisableApplication ==
    /\ Active("project") /\ Active("application")
    /\ LET touched == {"application"} \cup (IF Active("provider") THEN {"provider"} ELSE {})
       IN  Revise(touched, touched, "disabled")

\* Also the end of a secret replacement, which advances provider.revision.
UpdateProvider ==
    Active("project") /\ Active("provider") /\ Revise({"provider"}, {}, "active")

UpdateProviderEgressPolicy ==
    Active("project") /\ Revise({"egress"}, {}, "active")

\* Assigning, unassigning and disabling a provider advance the Application's
\* security revision in the same transaction.
AssignProvider ==
    /\ Active("project") /\ Active("application") /\ owner["provider"].status = "disabled"
    /\ Revise({"application", "provider"}, {"provider"}, "active")

UnassignProvider ==
    /\ Active("project") /\ Active("application") /\ Active("provider")
    /\ Revise({"application", "provider"}, {"provider"}, "disabled")

DisableProvider ==
    /\ Active("project") /\ Active("application") /\ Active("provider")
    /\ Revise({"application", "provider"}, {"provider"}, "closed")

UpdateEmailPolicy ==
    \E s \in {"active", "disabled"} : Revise({"email"}, {"email"}, s)

AssignEmailMethod ==
    \E s \in {"active", "disabled"} : Revise({"application", "email"}, {"email"}, s)

\* user_revision, and with it every projection, moves with the user's status.
DisableProjectUser ==
    Active("project") /\ Active("user") /\ Revise({"user", "profile"}, {"user"}, "disabled")

EnableProjectUser ==
    Active("project") /\ ~Active("user") /\ Revise({"user", "profile"}, {"user"}, "active")

\* A profile change of an active Project's user, written to every projection.
FanOutProjectedUser ==
    Active("project") /\ Active("user") /\ Revise({"profile"}, {}, "active")

ActivateSigningKey ==
    Active("project") /\ Revise({"signing"}, {"signing"}, "active")

\* Every transition of any key advances the epoch; revoking the active key also
\* leaves the ring without one.  Revocation needs no active Project.
TransitionSigningKey ==
    \/ Active("signing") /\ Revise({"signing"}, {"signing"}, "disabled")
    \/ Revise({"signing"}, {}, "active")

ProjectCommand ==
    \/ UpdateProject \/ UpdateProjectPolicy
    \/ DisableProject \/ EnableProject \/ DeleteProject
    \/ ReplaceApplicationConfiguration \/ DisableApplication

MethodCommand ==
    \/ UpdateProvider \/ UpdateProviderEgressPolicy \/ AssignProvider \/ UnassignProvider
    \/ DisableProvider \/ UpdateEmailPolicy \/ AssignEmailMethod

SubjectCommand ==
    \/ DisableProjectUser \/ EnableProjectUser \/ FanOutProjectedUser
    \/ ActivateSigningKey \/ TransitionSigningKey

Tick ==
    /\ now < MaxTime
    /\ now' = now + 1
    /\ UNCHANGED owner

ControlNext == Tick \/ ProjectCommand \/ MethodCommand \/ SubjectCommand
=============================================================================
