---------------------------- MODULE IdentityGraph ----------------------------
(***************************************************************************)
(* The graph of one project: its users, the provider and email identities  *)
(* that log them in, their bindings to applications, and what logins,      *)
(* sign-ups, exchanges, lifecycle commands and confirmed identity          *)
(* mutations (link, unlink, merge) do to it.                               *)
(*                                                                         *)
(* How an intent collects its proofs is the subject of IdentityMutation:   *)
(* here an open intent is a ready one, carrying what its creation froze.   *)
(* Every operation below holds the project's graph lock or the row of the  *)
(* user it writes, so each is one step; exchanges and refreshes sign       *)
(* outside the database and take two.                                      *)
(***************************************************************************)
EXTENDS Naturals, FiniteSets

CONSTANTS
    Users,          \* rows of project_users that may come into being
    Idents,         \* rows of linked_identities and email_identities
    Apps,           \* applications of the project
    Intents,        \* rows of identity_mutation_intents
    Tokens,         \* handoff tickets and the session each one becomes
    None,           \* SQL NULL
    Registered,     \* identity |-> owner of the accounts that already exist
    Operations,     \* operation kinds the operator asks for
    MaxBindings,    \* MAX_APPLICATION_BINDINGS_PER_USER
    MaxGraphRevision  \* bound on every revision counter

GraphAssumption ==
    /\ None \notin Users \cup Idents
    /\ DOMAIN Registered \subseteq Idents
    /\ \A i \in DOMAIN Registered : Registered[i] \in Users
    /\ IsFiniteSet(Idents) /\ IsFiniteSet(Apps)
    /\ Operations \subseteq {"link", "unlink", "merge"}
    /\ MaxBindings \in Nat /\ MaxGraphRevision \in Nat \ {0}

VARIABLES
    user,       \* [Users -> status, user and security revision, primary source, winner]
    identity,   \* [Idents -> owner, status, revision]
    binding,    \* [Users -> applications bound to the user]
    token,      \* [Tokens -> ticket or session]
    signing,    \* [Tokens -> what an exchange or a refresh read before it signed]
    mutation    \* [Intents -> ready mutation and what it froze]

graphVars == <<user, identity, binding, token, signing, mutation>>

NoUser == [status |-> "none", revision |-> 0, security |-> 0, primary |-> None, into |-> None]
NewUser(i) == [status |-> "active", revision |-> 1, security |-> 1, primary |-> i, into |-> None]
NoIdentity == [owner |-> None, status |-> "none", revision |-> 0]

NewIdentity(u) == [owner |-> u, status |-> "active", revision |-> 1]
NoToken == [state |-> "none", user |-> None, identity |-> None, security |-> 0, app |-> None]
NoIntent == [status |-> "none"]
Idle == [revision |-> 0, security |-> 0]

Sources == {"preserve", "clear"} \cup Idents

Alive(u) == user[u].status = "active"
Owned(u) == {i \in Idents : identity[i].owner = u}
ActiveIdentities(u) == {i \in Owned(u) : identity[i].status = "active"}
LiveToken(s) == token[s].state \in {"ticket", "session"}

(***************************************************************************)
(* Logging in.                                                             *)
(***************************************************************************)
IssueTo(s, u, i, a, security) ==
    token' = [token EXCEPT ![s] =
        [state |-> "ticket", user |-> u, identity |-> i, security |-> security, app |-> a]]

\* The first login with an identity no row knows: a user, its identity and
\* its primary source come into being together.
SignUp(i, u, s, a) ==
    /\ identity[i].status = "none"
    /\ user[u].status = "none"
    /\ token[s].state = "none"
    /\ user' = [user EXCEPT ![u] = NewUser(i)]
    /\ identity' = [identity EXCEPT ![i] = NewIdentity(u)]
    /\ IssueTo(s, u, i, a, 1)
    /\ UNCHANGED <<binding, signing, mutation>>

\* A later login: the profile the provider sent may have changed, which moves
\* the identity's revision, and the user's if the identity is its source.
Login(i, s, a, changed) ==
    LET u == identity[i].owner IN
    /\ identity[i].status = "active"
    /\ Alive(u)
    /\ token[s].state = "none"
    /\ changed => identity[i].revision < MaxGraphRevision /\ user[u].revision < MaxGraphRevision
    /\ identity' = [identity EXCEPT ![i].revision = IF changed THEN @ + 1 ELSE @]
    /\ user' = [user EXCEPT ![u].revision = IF changed /\ user[u].primary = i THEN @ + 1 ELSE @]
    /\ IssueTo(s, u, i, a, user[u].security)
    /\ UNCHANGED <<binding, signing, mutation>>

\* What both halves of an exchange and of a refresh ask of the user.
UserCurrent(s) ==
    LET u == token[s].user IN
    Alive(u) /\ user[u].security = token[s].security

\* prepare_handoff_exchange and prepare_refresh_rotation read what the access
\* token will say and let go of every lock while it is signed.
PrepareSigning(s) ==
    /\ LiveToken(s)
    /\ UserCurrent(s)
    /\ signing[s] = Idle
    /\ signing' = [signing EXCEPT ![s] = [revision |-> user[token[s].user].revision,
                                          security |-> user[token[s].user].security]]
    /\ UNCHANGED <<user, identity, binding, token, mutation>>

StillAsPrepared(s) ==
    /\ UserCurrent(s)
    /\ signing[s] = [revision |-> user[token[s].user].revision,
                     security |-> user[token[s].user].security]

\* The first exchange for an application binds the user to it, within the limit.
BindingAdmitted(u, a) == a \in binding[u] \/ Cardinality(binding[u]) < MaxBindings

CommitExchange(s) ==
    LET u == token[s].user IN
    /\ token[s].state = "ticket"
    /\ StillAsPrepared(s)
    /\ BindingAdmitted(u, token[s].app)
    /\ token' = [token EXCEPT ![s].state = "session"]
    /\ binding' = [binding EXCEPT ![u] = @ \cup {token[s].app}]
    /\ signing' = [signing EXCEPT ![s] = Idle]
    /\ UNCHANGED <<user, identity, mutation>>

RefreshStillAsPrepared(s) == token[s].state = "session" /\ StillAsPrepared(s)

CommitRefresh(s) ==
    /\ token[s].state # "ticket"
    /\ RefreshStillAsPrepared(s)
    /\ token' = [token EXCEPT ![s].state = "session"]
    /\ signing' = [signing EXCEPT ![s] = Idle]
    /\ UNCHANGED <<user, identity, binding, mutation>>

\* The second half finds something changed, or never comes.
AbandonSigning(s) ==
    /\ signing[s] # Idle
    /\ signing' = [signing EXCEPT ![s] = Idle]
    /\ UNCHANGED <<user, identity, binding, token, mutation>>


WinsAMerge(u) == \E l \in Users : user[l].into = u


Bumped(r, status) ==
    [r EXCEPT !.status = status, !.revision = @ + 1, !.security = @ + 1]

Bumpable(u) == user[u].revision < MaxGraphRevision /\ user[u].security < MaxGraphRevision

DisableUser(u) ==
    /\ Alive(u) /\ Bumpable(u)
    /\ ~WinsAMerge(u)
    /\ user' = [user EXCEPT ![u] = Bumped(@, "disabled")]
    /\ UNCHANGED <<identity, binding, token, signing, mutation>>

EnableUser(u) ==
    /\ user[u].status = "disabled" /\ Bumpable(u)
    /\ user' = [user EXCEPT ![u] = Bumped(@, "active")]
    /\ UNCHANGED <<identity, binding, token, signing, mutation>>

(***************************************************************************)
(* Creating a mutation freezes the users, the identities that prove them   *)
(* and the primary source, all at their revisions.                         *)
(***************************************************************************)
FrozenUsers(S) == [u \in S |-> [revision |-> user[u].revision, security |-> user[u].security]]
FrozenIdentities(S) == [i \in S |-> [owner |-> identity[i].owner, revision |-> identity[i].revision]]

\* derive_and_lock_slots: users active, the identity of each slot owned by its user.
SlotAdmitted(u, i) == Alive(u) /\ i \in ActiveIdentities(u)

\* validate_primary_source_create: a source is an active identity of one of the owners.
SourceAdmitted(source, owners) ==
    source \in Idents => \E u \in owners : source \in ActiveIdentities(u)

OpenIntent(k, kind, target, loser, subject, source, proofs) ==
    LET owners == {target, loser} \ {None}
    IN  mutation' = [mutation EXCEPT ![k] =
            [status |-> "ready", kind |-> kind, target |-> target, loser |-> loser,
             subject |-> subject, source |-> source,
             users |-> FrozenUsers(owners),
             identities |-> FrozenIdentities(proofs \cup ({source} \cap Idents))]]

\* Which identity the candidate slot proves is known only once it is proved.
CreateLink(k, u, proof, candidate) ==
    /\ "link" \in Operations /\ mutation[k] = NoIntent
    /\ SlotAdmitted(u, proof)
    /\ OpenIntent(k, "link", u, None, candidate, "preserve", {proof})
    /\ UNCHANGED <<user, identity, binding, token, signing>>

CreateUnlink(k, u, i, source) ==
    /\ "unlink" \in Operations /\ mutation[k] = NoIntent
    /\ SlotAdmitted(u, i)
    /\ SourceAdmitted(source, {u})
    /\ OpenIntent(k, "unlink", u, None, i, source, {i})
    /\ UNCHANGED <<user, identity, binding, token, signing>>

CreateMerge(k, w, l, wproof, lproof, source) ==
    /\ "merge" \in Operations /\ mutation[k] = NoIntent
    /\ w # l
    /\ source \in Idents
    /\ SlotAdmitted(w, wproof) /\ SlotAdmitted(l, lproof)
    /\ SourceAdmitted(source, {w, l})
    /\ OpenIntent(k, "merge", w, l, None, source, {wproof, lproof})
    /\ UNCHANGED <<user, identity, binding, token, signing>>

(***************************************************************************)
(* Confirming a ready mutation.                                            *)
(***************************************************************************)
\* revalidate_final_authority: every frozen user is active at its revisions.
UsersAsFrozen(m) ==
    \A u \in DOMAIN m.users :
        Alive(u) /\ m.users[u] = [revision |-> user[u].revision, security |-> user[u].security]

\* require_identity for the slots and revalidate_primary_source for the source.
IdentitiesAsFrozen(m) ==
    \A i \in DOMAIN m.identities :
        /\ identity[i].status = "active"
        /\ m.identities[i] = [owner |-> identity[i].owner, revision |-> identity[i].revision]

FinalAuthority(m) == UsersAsFrozen(m) /\ IdentitiesAsFrozen(m)

RevisionsLeft(S, T) ==
    /\ \A u \in S : Bumpable(u)
    /\ \A i \in T : identity[i].revision < MaxGraphRevision

Complete(k, status) == mutation' = [mutation EXCEPT ![k].status = status]

CandidateUnknown(i) == identity[i].status = "none"

ConfirmLink(k) ==
    LET m == mutation[k] IN
    /\ m.status = "ready" /\ m.kind = "link"
    /\ FinalAuthority(m)
    /\ CandidateUnknown(m.subject)
    /\ identity' = [identity EXCEPT ![m.subject] = NewIdentity(m.target)]
    /\ Complete(k, "completed")
    /\ UNCHANGED <<user, binding, token, signing>>

AnotherRemainsMutant(u) == Cardinality(Owned(u)) > 1

\* The last identity that can log a user in is never removed.
AnotherRemains(u) == Cardinality(ActiveIdentities(u)) > 1


PrimaryAfterUnlink(r, i, source) ==
    CASE source = "preserve" -> r
      [] source = "clear"    -> [r EXCEPT !.revision = @ + 1]
      [] OTHER               -> [r EXCEPT !.revision = @ + 1, !.primary = source]

DispositionFits(r, i, source) ==
    /\ source = "preserve" => r.primary # i
    /\ source = "clear" => r.primary = i
    /\ source # i

ConfirmUnlink(k) ==
    LET m == mutation[k] IN
    /\ m.status = "ready" /\ m.kind = "unlink"
    /\ FinalAuthority(m)
    /\ RevisionsLeft({m.target}, {m.subject})
    /\ AnotherRemains(m.target)
    /\ DispositionFits(user[m.target], m.subject, m.source)
    /\ identity' = [identity EXCEPT ![m.subject].status = "disabled", ![m.subject].revision = @ + 1]
    /\ user' = [user EXCEPT ![m.target] = PrimaryAfterUnlink(@, m.subject, m.source)]
    /\ Complete(k, "completed")
    /\ UNCHANGED <<binding, token, signing>>

BindingUnionExceeded(m) == Cardinality(binding[m.target] \cup binding[m.loser]) > MaxBindings

\* The winner could not take all the applications: the intent is cancelled
\* and nothing moves.
CancelOverLimit(k) ==
    LET m == mutation[k] IN
    /\ m.status = "ready" /\ m.kind = "merge"
    /\ FinalAuthority(m)
    /\ BindingUnionExceeded(m)
    /\ Complete(k, "cancelled")
    /\ UNCHANGED <<user, identity, binding, token, signing>>

\* Families, application sessions, browser sessions and issued tickets.
RevokeLoserSessions(l) ==
    [s \in Tokens |-> IF token[s].user = l /\ LiveToken(s)
                      THEN [token[s] EXCEPT !.state = "revoked"] ELSE token[s]]

MergedLoser(r, w) == [Bumped(r, "merged") EXCEPT !.into = w, !.primary = None]

\* Every identity of the loser moves, the disabled ones too.

IdentitiesMoved(w, l) ==
    [i \in Idents |-> IF identity[i].owner = l
                      THEN [identity[i] EXCEPT !.owner = w, !.revision = @ + 1]
                      ELSE identity[i]]


BindingsMerged(w, l) == [binding EXCEPT ![w] = @ \cup binding[l], ![l] = {}]

ConfirmMerge(k) ==
    LET m == mutation[k]
        w == m.target
        l == m.loser
    IN  /\ m.status = "ready" /\ m.kind = "merge"
        /\ FinalAuthority(m)
        /\ RevisionsLeft({w, l}, Owned(l))
        /\ ~BindingUnionExceeded(m)
        /\ ~WinsAMerge(l)
        /\ token' = RevokeLoserSessions(l)
        /\ identity' = IdentitiesMoved(w, l)
        /\ binding' = BindingsMerged(w, l)
        /\ user' = [user EXCEPT ![l] = MergedLoser(@, w),
                                ![w].primary = m.source, ![w].revision = @ + 1]
        /\ Complete(k, "completed")
        /\ UNCHANGED signing

\* Cancelled by the operator or past its deadline.
CloseIntent(k) ==
    /\ mutation[k].status = "ready"
    /\ Complete(k, "cancelled")
    /\ UNCHANGED <<user, identity, binding, token, signing>>

-----------------------------------------------------------------------------
\* The accounts that exist already: each owner signed up with one of its
\* identities and linked the others.
GraphInit ==
    /\ identity = [i \in Idents |-> IF i \in DOMAIN Registered THEN NewIdentity(Registered[i])
                                                               ELSE NoIdentity]
    /\ user \in [Users -> {NoUser} \cup {NewUser(i) : i \in DOMAIN Registered}]
    /\ \A u \in Users : IF \E i \in DOMAIN Registered : Registered[i] = u
                        THEN user[u].primary \in Owned(u)
                        ELSE user[u] = NoUser
    /\ binding = [u \in Users |-> {}]
    /\ token = [s \in Tokens |-> NoToken]
    /\ signing = [s \in Tokens |-> Idle]
    /\ mutation = [k \in Intents |-> NoIntent]

LoginStep ==
    \E s \in Tokens :
        \/ \E i \in Idents, a \in Apps :
             \/ \E u \in Users : SignUp(i, u, s, a)
             \/ \E changed \in BOOLEAN : Login(i, s, a, changed)
        \/ PrepareSigning(s)
        \/ CommitExchange(s)
        \/ CommitRefresh(s)
        \/ AbandonSigning(s)

LifecycleStep == \E u \in Users : DisableUser(u) \/ EnableUser(u)

CreateStep ==
    \E k \in {x \in Intents : mutation[x] = NoIntent}, u \in Users :
      \E i \in Owned(u) :
        \/ \E candidate \in Idents : CreateLink(k, u, i, candidate)
        \/ \E source \in Sources : CreateUnlink(k, u, i, source)
        \/ \E l \in Users \ {u} : \E j \in Owned(l), source \in Idents :
             CreateMerge(k, u, l, i, j, source)

ConfirmStep ==
    \E k \in Intents :
        \/ ConfirmLink(k)
        \/ ConfirmUnlink(k)
        \/ ConfirmMerge(k)
        \/ CancelOverLimit(k)
        \/ CloseIntent(k)

GraphNext == LoginStep \/ LifecycleStep \/ CreateStep \/ ConfirmStep

GraphSpec == GraphInit /\ [][GraphNext]_graphVars

-----------------------------------------------------------------------------
\* Every row has the shape its table gives it, within the bounds.
GraphTypeOK ==
    /\ user \in [Users -> [status : {"none", "active", "disabled", "merged"},
                           revision : 0..MaxGraphRevision, security : 0..MaxGraphRevision,
                           primary : Idents \cup {None}, into : Users \cup {None}]]
    /\ identity \in [Idents -> [owner : Users \cup {None}, status : {"none", "active", "disabled"},
                                revision : 0..MaxGraphRevision]]
    /\ binding \in [Users -> SUBSET Apps]
    /\ \A s \in Tokens : token[s].state \in {"none", "ticket", "session", "revoked"}
    /\ signing \in [Tokens -> [revision : 0..MaxGraphRevision, security : 0..MaxGraphRevision]]
    /\ \A k \in Intents : mutation[k].status \in {"none", "ready", "completed", "cancelled"}

\* A user that exists and is not merged can always be logged into: however
\* the removals of its identities interleave, one active identity remains
\* (the count of confirm_unlink, which no user revision protects when the
\* disposition is preserve).
EveryUserReachable ==
    \A u \in Users : user[u].status \in {"active", "disabled"} => ActiveIdentities(u) # {}

\* The primary source of a user is one of its own identities, and a merged
\* user has none (update_user_primary and the loser's reset in confirm_merge).
PrimaryIsOwned ==
    \A u \in Users :
        IF user[u].status \in {"active", "disabled"}
        THEN user[u].primary \in Owned(u)
        ELSE user[u].primary = None

\* A merged user owns nothing that could still act for it: no identity, no
\* binding, no ticket and no session; and its winner is active, so merges
\* form neither chains nor cycles (confirm_merge and the deferred triggers).
MergedUsersOwnNothing ==
    \A l \in Users : user[l].status = "merged" =>
        /\ Owned(l) = {} /\ binding[l] = {}
        /\ \A s \in Tokens : token[s].user = l => ~LiveToken(s)
        /\ user[l].into # None /\ Alive(user[l].into)

\* A ticket or a session that is alive speaks for the user who owns the
\* identity it was obtained with, although merges move identities while
\* exchanges and refreshes are signed outside the database.
TokensFollowIdentities ==
    \A s \in Tokens : LiveToken(s) => identity[token[s].identity].owner = token[s].user

\* No user is bound to more applications than the limit, whether by its own
\* exchanges or by winning a merge (merge_binding_union_count).
BindingsBounded == \A u \in Users : Cardinality(binding[u]) <= MaxBindings

\* An identity changes hands only when its owner is merged into the new one:
\* no sign-up, login or link ever takes over a row that exists, active or
\* disabled (the namespace checks of confirm_link and of the login).
IdentityChangesHandsByMerge ==
    \A i \in Idents : identity[i].owner # None =>
        \/ identity'[i].owner = identity[i].owner
        \/ user'[identity[i].owner].into = identity'[i].owner

GraphSafe ==
    /\ GraphTypeOK /\ EveryUserReachable /\ PrimaryIsOwned /\ MergedUsersOwnNothing
    /\ TokensFollowIdentities /\ BindingsBounded

=============================================================================
