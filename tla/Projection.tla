----------------------------- MODULE Projection -----------------------------
(***************************************************************************)
(* The projection of one Project user for the Applications the user is     *)
(* bound to (adapters/postgres/projection.rs and its callers in            *)
(* session_authority.rs, control_lifecycle.rs, runtime_authority.rs and    *)
(* server_api.rs): a document with its own revision, the verified email    *)
(* kept as ciphertext under the key version of the process that wrote it,  *)
(* and one event for every revision.                                       *)
(*                                                                         *)
(* The digest of a stored document stands for the document itself.         *)
(***************************************************************************)
EXTENDS Integers, Sequences, FiniteSets

CONSTANTS
    Apps,           \* Applications the user may be bound to
    Processes,      \* server processes, each with its own projection-email ring
    Handoffs,       \* handoff exchanges in flight
    Names,          \* profiles of the user
    Emails,         \* verified email identities of the user
    Versions,       \* key versions of the projection-email ring
    MaxBindings,    \* Applications a user may be bound to (64 in the code)
    MaxChanges      \* bound: changes of the user, its owners and the rings

ProjectionAssumption ==
    /\ IsFiniteSet(Apps)
    /\ Versions \subseteq Nat \ {0} /\ \E v \in Versions : \A w \in Versions : v <= w
    /\ MaxBindings \in Nat \ {0}
    /\ MaxChanges \in Nat

VARIABLES
    project,    \* status of the Project
    application,    \* [Apps -> status of the Application]
    user,       \* row of project_users: status, revision, name, primary source
    proj,       \* [Apps -> row of application_user_projections, or none]
    events,     \* [Apps -> documents of the events, in order]
    ring,       \* [Processes -> write version and readable versions]
    handoff,    \* [Handoffs -> what an exchange has prepared]
    changes

projectionVars == <<project, application, user, proj, events, ring, handoff, changes>>

Nothing == "none"

NoCipher == [email |-> Nothing, version |-> 0, bound |-> 0]

NoDocument == [revision |-> 0, user |-> 0, status |-> Nothing, name |-> Nothing, email |-> Nothing]

NoProjection == [exists |-> FALSE, revision |-> 0, source |-> 0, identity |-> Nothing,
                 cipher |-> NoCipher, digest |-> NoDocument]

NoHandoff == [process |-> Nothing, app |-> Nothing, user |-> 0, document |-> NoDocument]

-----------------------------------------------------------------------------
(***************************************************************************)
(* Materialization for the user row u by process p.                        *)
(***************************************************************************)

\* Only an active user whose primary source is an email identity shows it.
PrimaryVerifiedEmail(u) ==
    IF u.status = "active" /\ u.source \in Emails THEN u.source ELSE Nothing

\* Something the public document shows has changed; a ciphertext under another
\* key version is not such a change.
SemanticChange(p, a, u) ==
    \/ ~proj[a].exists
    \/ proj[a].source # u.revision
    \/ proj[a].identity # PrimaryVerifiedEmail(u)
    \/ (proj[a].cipher # NoCipher) # (PrimaryVerifiedEmail(u) # Nothing)

Document(u, r) == [revision |-> r, user |-> u.revision, status |-> u.status,
                   name |-> u.name, email |-> PrimaryVerifiedEmail(u)]

\* The ciphertext is bound to the Application and the revision.
Protect(p, a, u, r) ==
    [email |-> PrimaryVerifiedEmail(u), version |-> ring[p].write, bound |-> <<a, r>>]

CanReuseProtectedMutant(p, a, u) ==
    /\ proj[a].exists
    /\ proj[a].identity = PrimaryVerifiedEmail(u)
    /\ proj[a].cipher.version = ring[p].write

CanReuseProtected(p, a, u) ==
    /\ proj[a].exists
    /\ ~SemanticChange(p, a, u)
    /\ proj[a].cipher.version = ring[p].write

Material(p, a, u) ==
    LET r == IF SemanticChange(p, a, u) THEN proj[a].revision + 1 ELSE proj[a].revision
    IN [exists |-> TRUE, revision |-> r, source |-> u.revision,
        identity |-> PrimaryVerifiedEmail(u),
        cipher |-> CASE PrimaryVerifiedEmail(u) = Nothing -> NoCipher
                     [] PrimaryVerifiedEmail(u) # Nothing /\ CanReuseProtected(p, a, u)
                          -> proj[a].cipher
                     [] OTHER -> Protect(p, a, u, r),
        digest |-> Document(u, r)]

\* What a process makes of the stored row: the document with the opened email,
\* if the digest covers exactly that.
WireDocument(p, a) ==
    LET c == proj[a].cipher
        opens == c = NoCipher \/ (c.version \in ring[p].readable
                                   /\ c.bound = <<a, proj[a].revision>>)
        wire == [proj[a].digest EXCEPT !.email = c.email]
    IN IF opens /\ wire = proj[a].digest THEN wire ELSE NoDocument

\* The Server API's own view of the user, which does not go through a projection.
ServerUser == [revision |-> user.revision, status |-> user.status, name |-> user.name,
               email |-> PrimaryVerifiedEmail(user)]

-----------------------------------------------------------------------------
(***************************************************************************)
(* Changes of the user. Each is one transaction of a process that ends     *)
(* with the fan-out; u is the row it leaves.                               *)
(***************************************************************************)

\* Bindings in a disabled Application are passed over.
FannedOut(a) == proj[a].exists /\ application[a] = "active"

FanOut(p, u) ==
    /\ proj' = [a \in Apps |-> IF FannedOut(a) THEN Material(p, a, u) ELSE proj[a]]
    /\ events' = [a \in Apps |->
                    IF FannedOut(a) /\ SemanticChange(p, a, u)
                      THEN Append(events[a], Material(p, a, u).digest) ELSE events[a]]

Change == changes < MaxChanges /\ changes' = changes + 1

\* A login under the primary identity brings another profile.
ObserveProfile(p, n) ==
    LET u == [user EXCEPT !.name = n, !.revision = @ + 1]
    IN /\ Change
       /\ project = "active" /\ user.status = "active" /\ user.name # n
       /\ user' = u /\ FanOut(p, u)
       /\ UNCHANGED <<project, application, ring, handoff>>

\* A link, unlink or merge leaves the user with another primary source.
ChangePrimarySource(p, s) ==
    LET u == [user EXCEPT !.source = s, !.revision = @ + 1]
    IN /\ Change
       /\ project = "active" /\ user.status = "active" /\ user.source # s
       /\ user' = u /\ FanOut(p, u)
       /\ UNCHANGED <<project, application, ring, handoff>>

DisableProjectUser(p) ==
    LET u == [user EXCEPT !.status = "disabled", !.revision = @ + 1]
    IN /\ Change
       /\ project = "active" /\ user.status = "active"
       /\ user' = u /\ FanOut(p, u)
       /\ UNCHANGED <<project, application, ring, handoff>>

EnableProjectUser(p) ==
    LET u == [user EXCEPT !.status = "active", !.revision = @ + 1]
    IN /\ Change
       /\ project = "active" /\ user.status = "disabled"
       /\ user' = u /\ FanOut(p, u)
       /\ UNCHANGED <<project, application, ring, handoff>>

-----------------------------------------------------------------------------
(***************************************************************************)
(* Readers that repair, and the handoff that binds.                        *)
(***************************************************************************)

\* The current session, and the preparation of a refresh: the row is brought
\* to the authoritative material, and nothing is announced.
RepairRuntimeProjection(p, a) ==
    /\ project = "active" /\ application[a] = "active" /\ user.status = "active"
    /\ proj[a].exists
    /\ Material(p, a, user) # proj[a]
    /\ proj' = [proj EXCEPT ![a] = Material(p, a, user)]
    /\ UNCHANGED <<project, application, user, events, ring, handoff, changes>>

PrepareHandoffExchange(h, p, a) ==
    /\ handoff[h] = NoHandoff
    /\ project = "active" /\ application[a] = "active" /\ user.status = "active"
    /\ handoff' = [handoff EXCEPT ![h] = [process |-> p, app |-> a, user |-> user.revision,
                                          document |-> Material(p, a, user).digest]]
    /\ UNCHANGED <<project, application, user, proj, events, ring, changes>>

Bound == {a \in Apps : proj[a].exists}

MayBind(a) == proj[a].exists \/ Cardinality(Bound) < MaxBindings

\* Nothing has moved since the preparation, or the exchange is refused.
CommitHandoffExchange(h) ==
    LET p == handoff[h].process
        a == handoff[h].app
        m == Material(p, a, user)
        accepted == /\ project = "active" /\ application[a] = "active" /\ user.status = "active"
                    /\ user.revision = handoff[h].user
                    /\ m.digest = handoff[h].document
                    /\ MayBind(a)
    IN /\ handoff[h] # NoHandoff
       /\ handoff' = [handoff EXCEPT ![h] = NoHandoff]
       /\ IF accepted
            THEN /\ proj' = [proj EXCEPT ![a] = m]
                 /\ events' = IF SemanticChange(p, a, user)
                                THEN [events EXCEPT ![a] = Append(@, m.digest)] ELSE events
            ELSE UNCHANGED <<proj, events>>
       /\ UNCHANGED <<project, application, user, ring, changes>>

-----------------------------------------------------------------------------
(***************************************************************************)
(* Owners, and the operators' rotation of the rings.                       *)
(***************************************************************************)

DisableProject ==
    /\ Change /\ project = "active" /\ project' = "disabled"
    /\ UNCHANGED <<application, user, proj, events, ring, handoff>>

EnableProject ==
    /\ Change /\ project = "disabled" /\ project' = "active"
    /\ UNCHANGED <<application, user, proj, events, ring, handoff>>

DisableBoundApplication(a) ==
    /\ Change /\ application[a] = "active" /\ application' = [application EXCEPT ![a] = "disabled"]
    /\ UNCHANGED <<project, user, proj, events, ring, handoff>>

\* A process restarts with another ring. Operators write under a version only
\* when every process reads it, and drop one when nothing is stored under it
\* and no process writes it.
RestartWithRing(p, w, readable) ==
    /\ Change
    /\ w \in readable
    /\ \A q \in Processes \ {p} : w \in ring[q].readable /\ ring[q].write \in readable
    /\ \A a \in Apps : proj[a].cipher # NoCipher => proj[a].cipher.version \in readable
    /\ ring' = [ring EXCEPT ![p] = [write |-> w, readable |-> readable]]
    /\ ring' # ring
    /\ handoff' = [h \in Handoffs |-> IF handoff[h].process = p THEN NoHandoff ELSE handoff[h]]
    /\ UNCHANGED <<project, application, user, proj, events>>

-----------------------------------------------------------------------------
First == CHOOSE v \in Versions : \A w \in Versions : v <= w

ProjectionInit ==
    /\ project = "active"
    /\ application = [a \in Apps |-> "active"]
    /\ \E n \in Names, s \in Emails \cup {"provider"} :
          user = [status |-> "active", revision |-> 1, name |-> n, source |-> s]
    /\ proj = [a \in Apps |-> NoProjection]
    /\ events = [a \in Apps |-> <<>>]
    /\ ring = [p \in Processes |-> [write |-> First, readable |-> {First}]]
    /\ handoff = [h \in Handoffs |-> NoHandoff]
    /\ changes = 0

Project(p) ==
    \/ \E n \in Names : ObserveProfile(p, n)
    \/ \E s \in Emails \cup {"provider"} : ChangePrimarySource(p, s)
    \/ DisableProjectUser(p)
    \/ EnableProjectUser(p)
    \/ \E a \in Apps : RepairRuntimeProjection(p, a)
    \/ \E h \in Handoffs, a \in Apps : PrepareHandoffExchange(h, p, a)
    \/ \E w \in Versions, readable \in SUBSET Versions : RestartWithRing(p, w, readable)

ProjectionNext ==
    \/ \E p \in Processes : Project(p)
    \/ \E h \in Handoffs : CommitHandoffExchange(h)
    \/ DisableProject
    \/ EnableProject
    \/ \E a \in Apps : DisableBoundApplication(a)

ProjectionSpec == ProjectionInit /\ [][ProjectionNext]_projectionVars

-----------------------------------------------------------------------------
(***************************************************************************)
(* Rings can write what they read, and a user is bound to a bounded number *)
(* of Applications, so that the fan-out of a change is bounded too.        *)
(***************************************************************************)
ProjectionTypeOK ==
    /\ {project, user.status} \cup {application[a] : a \in Apps} \subseteq {"active", "disabled"}
    /\ \A p \in Processes : ring[p].write \in ring[p].readable
    /\ Cardinality(Bound) <= MaxBindings

(***************************************************************************)
(* Every revision of a projection was announced by exactly one event, in   *)
(* order, and the last event shows what the projection shows. The repairs  *)
(* made by readers and by processes with another key version stay silent   *)
(* and change nothing an event would have to tell.                         *)
(***************************************************************************)
EventsTellProjection ==
    \A a \in Bound :
        /\ Len(events[a]) = proj[a].revision
        /\ \A i \in 1..Len(events[a]) : events[a][i].revision = i
        /\ events[a][proj[a].revision] = proj[a].digest

(***************************************************************************)
(* There is no stale window: what any process reads for an Application is  *)
(* the user as it is, the same that the Server API shows directly. In      *)
(* particular a disabled user's email is not kept.                         *)
(***************************************************************************)
ReadersSeeUser ==
    \A p \in Processes, a \in Bound : application[a] = "active" =>
        LET d == WireDocument(p, a)
        IN [revision |-> d.user, status |-> d.status, name |-> d.name, email |-> d.email]
             = ServerUser

ProjectionSafe == ProjectionTypeOK /\ EventsTellProjection /\ ReadersSeeUser
=============================================================================
