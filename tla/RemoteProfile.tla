--------------------------- MODULE RemoteProfile ---------------------------
(***************************************************************************)
(* The command line of an operator: the profiles it keeps in one file, the *)
(* identity each of them pins, and the commands that send the operator's   *)
(* key to the server a profile names.  Several processes of the command    *)
(* line run at once on the same file, the server behind an endpoint may    *)
(* be replaced at any time, and a process may be killed between any two    *)
(* steps.                                                                  *)
(*                                                                         *)
(* An identity stands for what a descriptor pins: product, instance, API   *)
(* base and credential class.  A name of an environment variable stands    *)
(* for the key it holds.  Requests that are refused before they read       *)
(* anything (bad names, a missing --yes) change nothing and are left out.  *)
(***************************************************************************)
EXTENDS Naturals, FiniteSets, TLC

CONSTANTS Command,     \* the commands that talk to the server: Commands, below
          Processes,   \* invocations of the command line
          Names,       \* names of profiles
          Endpoints,   \* origins
          Identities,  \* what a descriptor may say a server is
          Variables,   \* environment variables that may hold a key
          None,        \* no value
          Offered,     \* the commands the operators of this instance use
          MaxRuns, MaxDeploys, MaxKills

VARIABLES store,       \* the file: profiles and the selected one
          lock,        \* who holds profiles.lock
          served,      \* the descriptor every endpoint answers with
          proc,        \* every process
          runs, deploys, kills,
          released,    \* auxiliary: where keys were sent
          approved,    \* auxiliary: endpoint, identity and variable an operator confirmed
          accepted     \* auxiliary: the profile of every name as last acknowledged

vars == <<store, lock, served, proc, runs, deploys, kills, released, approved, accepted>>

---------------------------------------------------------------------------
(* The commands that talk to the server: whether one wants --yes, for      *)
(* which it shows the profile it loaded and keeps it, and whether it sends *)
(* a write-only secret read from a variable of its own.                    *)

Plain == [confirm |-> FALSE, secret |-> FALSE]
Confirmed == [confirm |-> TRUE, secret |-> FALSE]
WithSecret == [confirm |-> FALSE, secret |-> TRUE]

ProjectCommands ==
    [project_list |-> Plain, project_get |-> Plain, project_create |-> Plain,
     project_disable |-> Confirmed, project_enable |-> Confirmed, project_delete |-> Confirmed]

ServerKeyCommands ==
    [server_key_list |-> Plain, server_key_create |-> Plain,
     server_key_acknowledge |-> Confirmed, server_key_revoke |-> Confirmed]

UserCommands ==
    [user_list |-> Plain, user_lookup |-> Plain, user_get |-> Plain, user_identities |-> Plain,
     user_disable |-> Confirmed, user_enable |-> Confirmed, user_sessions |-> Plain]

UserSessionCommands ==
    [revoke_application_session |-> Confirmed, revoke_browser_session |-> Confirmed]

PolicyCommands == [policy_get |-> Plain, policy_set |-> Confirmed]

ApplicationCommands ==
    [application_list |-> Plain, application_get |-> Plain, application_create |-> Plain,
     application_disable |-> Confirmed, application_events |-> Plain]

ProviderCommands ==
    [egress_get |-> Plain, egress_set |-> Confirmed, preflight |-> Plain, provider_list |-> Plain,
     provider_create |-> WithSecret]

ProviderLifecycleCommands ==
    [provider_disable |-> Confirmed, provider_assign |-> Confirmed, provider_unassign |-> Confirmed]

SigningCommands == [signing_key_list |-> Plain, signing_key_rotate |-> Plain, signing_key_revoke |-> Confirmed]

EndpointCommands ==
    [endpoint_list |-> Plain, endpoint_get |-> Plain, endpoint_create |-> WithSecret,
     endpoint_update |-> Confirmed, prepare_secret_rotation |-> WithSecret,
     activate_secret_rotation |-> Confirmed]

EndpointLifecycleCommands ==
    [endpoint_test |-> Confirmed, endpoint_activate |-> Confirmed, endpoint_disable |-> Confirmed]

DeliveryCommands == [delivery_list |-> Plain, delivery_replay |-> Confirmed]

SystemCommand == [system |-> Plain]

Commands == ProjectCommands @@ ServerKeyCommands @@ UserCommands @@ UserSessionCommands
            @@ PolicyCommands @@ ApplicationCommands @@ ProviderCommands @@ ProviderLifecycleCommands
            @@ SigningCommands @@ EndpointCommands @@ EndpointLifecycleCommands @@ DeliveryCommands
            @@ SystemCommand

ProfileAssumption == Command = Commands /\ {MaxRuns, MaxDeploys, MaxKills} \subseteq Nat

---------------------------------------------------------------------------
(* Profiles and the file that keeps them. *)

Profile == [endpoint: Endpoints, identity: Identities, variable: Variables, version: 0 .. 1]

Store == [profile: [Names -> Profile \cup {None}], current: Names \cup {None}]

\* The key names a binding of an endpoint's identity to a variable.
Authority(profile) == [endpoint |-> profile.endpoint, identity |-> profile.identity,
                       variable |-> profile.variable]

SameAuthority(left, right) == Authority(left) = Authority(right)

Idle == [at |-> "idle", does |-> None, name |-> None, endpoint |-> None, variable |-> None,
         yes |-> FALSE, secret |-> None, snapshot |-> None, shown |-> None, seen |-> None,
         held |-> None]

\* The profile a command means: the one it names or the selected one.
Selected(requested) == IF requested = None THEN store.current ELSE requested

ProfileFromDescriptor(p) ==
    [endpoint |-> proc[p].endpoint, identity |-> proc[p].seen.identity,
     variable |-> proc[p].variable, version |-> proc[p].seen.version]

\* The profile a command acts on: the one it loaded when it started.
ActsOn(p) == proc[p].snapshot

---------------------------------------------------------------------------
(* Starting an invocation. *)

Start(p, does) ==
    /\ proc[p].at = "idle"
    /\ runs < MaxRuns
    /\ runs' = runs + 1
    /\ proc' = [proc EXCEPT ![p] = does]
    /\ UNCHANGED <<store, lock, served, deploys, kills, released, approved, accepted>>

AddProfile(p, n, e, v, yes) ==
    Start(p, [Idle EXCEPT !.at = "discover", !.does = "add", !.name = n, !.endpoint = e,
                          !.variable = v, !.yes = yes])

\* A new pin wants a variable other than the one the profile has.
RebindProfile(p, n, e, v, yes) ==
    /\ store.profile[n] # None
    /\ store.profile[n].variable # v
    /\ Start(p, [Idle EXCEPT !.at = "discover", !.does = "rebind", !.name = n, !.endpoint = e,
                             !.variable = v, !.yes = yes, !.snapshot = store.profile[n]])

Refresh(p, does, n) ==
    /\ store.profile[n] # None
    /\ Start(p, [Idle EXCEPT !.at = "discover", !.does = does, !.name = n,
                             !.endpoint = store.profile[n].endpoint,
                             !.snapshot = store.profile[n]])

UseProfile(p, n) == Refresh(p, "use", n)

CheckProfile(p, requested) ==
    /\ Selected(requested) # None
    /\ Refresh(p, "check", Selected(requested))

\* A confirmed command prints the profile it loaded before it goes on.
RequireConfirmation(row, profile) == IF row.confirm THEN profile ELSE None

\* v is the variable that holds a write-only secret, where one is sent.
RunCommand(p, c, requested, v) ==
    LET n == Selected(requested)
        row == Command[c]
    IN /\ n # None
       /\ store.profile[n] # None
       /\ row.secret <=> v # None
       /\ Start(p, [Idle EXCEPT !.at = "discover", !.does = "command", !.name = n,
                                !.secret = v, !.snapshot = store.profile[n],
                                !.shown = RequireConfirmation(row, store.profile[n])])

---------------------------------------------------------------------------
(* Discovery. *)

\* The origin an invocation asks for its descriptor.
Target(p) == IF proc[p].does = "command" THEN ActsOn(p).endpoint ELSE proc[p].endpoint

\* Every invocation that has a pin compares the descriptor with it.
DescriptorMatches(p, descriptor) ==
    proc[p].does \in {"use", "check", "command"} => descriptor.identity = ActsOn(p).identity

Finish(p) == proc' = [proc EXCEPT ![p] = Idle]

Discover(p) ==
    /\ proc[p].at = "discover"
    /\ served[Target(p)].valid
    /\ DescriptorMatches(p, served[Target(p)])
    /\ LET seen == served[Target(p)]
       IN \/ /\ proc[p].does = "command"
             /\ proc' = [proc EXCEPT ![p].at = "handshake", ![p].seen = seen]
          \/ /\ proc[p].does \in {"use", "check"} \/ proc[p].yes
             /\ proc' = [proc EXCEPT ![p].at = "lock", ![p].seen = seen]
          \/ /\ proc[p].does \in {"add", "rebind"} /\ ~proc[p].yes
             /\ Finish(p)  \* the run only displays what it found
    /\ UNCHANGED <<store, lock, served, runs, deploys, kills, released, approved, accepted>>

\* No answer, an answer that is no descriptor, or one of another identity.
DiscoverFails(p) ==
    /\ proc[p].at = "discover"
    /\ ~served[Target(p)].valid \/ ~DescriptorMatches(p, served[Target(p)])
    /\ Finish(p)
    /\ UNCHANGED <<store, lock, served, runs, deploys, kills, released, approved, accepted>>

---------------------------------------------------------------------------
(* Writing the file: everything from the load to the rename is under the   *)
(* lock.                                                                   *)

LockStore(p) ==
    /\ proc[p].at = "lock"
    /\ lock = None
    /\ lock' = p
    /\ proc' = [proc EXCEPT ![p].at = "save", ![p].held = store]
    /\ UNCHANGED <<store, served, runs, deploys, kills, released, approved, accepted>>

InsertProfile(p, held) ==
    [profile |-> [held.profile EXCEPT ![proc[p].name] = ProfileFromDescriptor(p)],
     current |-> IF held.current = None THEN proc[p].name ELSE held.current]

ReplaceProfile(p, held) ==
    [held EXCEPT !.profile[proc[p].name] = ProfileFromDescriptor(p)]

MergeCapabilityCache(p, held) ==
    [profile |-> [held.profile EXCEPT ![proc[p].name].version = proc[p].seen.version],
     current |-> IF proc[p].does = "use" THEN proc[p].name ELSE held.current]

\* The profile under the lock is the one loaded before discovery.
StillTheSame(p, held) ==
    /\ held.profile[proc[p].name] # None
    /\ SameAuthority(held.profile[proc[p].name], proc[p].snapshot)

MayWrite(p, held) ==
    IF proc[p].does = "add" THEN held.profile[proc[p].name] = None ELSE StillTheSame(p, held)

Mutated(p, held) ==
    CASE proc[p].does = "add" -> InsertProfile(p, held)
      [] proc[p].does = "rebind" -> ReplaceProfile(p, held)
      [] OTHER -> MergeCapabilityCache(p, held)

\* The temporary file is complete and synced before it takes the place of
\* the old one.
SaveStore(p) ==
    /\ proc[p].at = "save"
    /\ MayWrite(p, proc[p].held)
    /\ store' = Mutated(p, proc[p].held)
    /\ lock' = None
    /\ IF proc[p].does \in {"add", "rebind"}
       THEN /\ approved' = approved \cup {Authority(ProfileFromDescriptor(p))}
            /\ accepted' = [accepted EXCEPT ![proc[p].name] = Authority(ProfileFromDescriptor(p))]
       ELSE UNCHANGED <<approved, accepted>>
    /\ Finish(p)
    /\ UNCHANGED <<served, runs, deploys, kills, released>>

RefuseMutation(p) ==
    /\ proc[p].at = "save"
    /\ ~MayWrite(p, proc[p].held)
    /\ lock' = None
    /\ Finish(p)
    /\ UNCHANGED <<store, served, runs, deploys, kills, released, approved, accepted>>

---------------------------------------------------------------------------
(* Requests with the operator's key. *)

Release(p, variable) ==
    released' = released \cup
        {[authority |-> [endpoint |-> Target(p), identity |-> proc[p].seen.identity,
                         variable |-> variable],
          shown |-> proc[p].shown]}

\* The key is read after the descriptor was compared, and its first use is
\* to ask the server what it is; any answer but the right one ends it.
Handshake(p) ==
    /\ proc[p].at = "handshake"
    /\ Release(p, ActsOn(p).variable)
    /\ \/ proc' = [proc EXCEPT ![p].at = "send"]
       \/ Finish(p)
    /\ UNCHANGED <<store, lock, served, runs, deploys, kills, approved, accepted>>

\* The variable of the key is not one to read a secret from.
ReadWriteOnlySecret(p) == proc[p].secret # ActsOn(p).variable

Send(p) ==
    /\ proc[p].at = "send"
    /\ IF ReadWriteOnlySecret(p) THEN Release(p, ActsOn(p).variable) ELSE UNCHANGED released
    /\ Finish(p)
    /\ UNCHANGED <<store, lock, served, runs, deploys, kills, approved, accepted>>

---------------------------------------------------------------------------
(* The world around the processes. *)

\* The operating system drops the lock of a process that ends.
Kill(p) ==
    /\ kills < MaxKills
    /\ proc[p].at # "idle"
    /\ kills' = kills + 1
    /\ lock' = IF lock = p THEN None ELSE lock
    /\ Finish(p)
    /\ UNCHANGED <<store, served, runs, deploys, released, approved, accepted>>

Descriptor == [valid: BOOLEAN, identity: Identities, version: 0 .. 1]

\* Another server, another version of it, or none, answers at an endpoint.
Deploy(e) ==
    /\ deploys < MaxDeploys
    /\ deploys' = deploys + 1
    /\ \E d \in Descriptor : d # served[e] /\ served' = [served EXCEPT ![e] = d]
    /\ UNCHANGED <<store, lock, proc, runs, kills, released, approved, accepted>>

---------------------------------------------------------------------------

Init ==
    /\ store = [profile |-> [n \in Names |-> None], current |-> None]
    /\ lock = None
    /\ \E i \in [Endpoints -> Identities] :
           served = [e \in Endpoints |-> [valid |-> TRUE, identity |-> i[e], version |-> 0]]
    /\ proc = [p \in Processes |-> Idle]
    /\ runs = 0 /\ deploys = 0 /\ kills = 0
    /\ released = {} /\ approved = {}
    /\ accepted = [n \in Names |-> None]

Invoke(p) ==
    \/ \E n \in Names, e \in Endpoints, v \in Variables, yes \in BOOLEAN :
           AddProfile(p, n, e, v, yes) \/ RebindProfile(p, n, e, v, yes)
    \/ \E n \in Names : UseProfile(p, n)
    \/ \E requested \in Names \cup {None} : CheckProfile(p, requested)
    \/ \E c \in Offered, requested \in Names \cup {None}, v \in Variables \cup {None} :
           RunCommand(p, c, requested, v)

Proceed(p) == \/ Discover(p) \/ DiscoverFails(p) \/ LockStore(p) \/ SaveStore(p)
              \/ RefuseMutation(p) \/ Handshake(p) \/ Send(p)

Next == \/ \E p \in Processes : Invoke(p) \/ Proceed(p) \/ Kill(p)
        \/ \E e \in Endpoints : Deploy(e)

Spec == Init /\ [][Next]_vars

---------------------------------------------------------------------------
(* Properties. *)

\* The shapes of the state; only a process that is writing holds the lock.
TypeOK ==
    /\ store \in Store
    /\ lock \in Processes \cup {None}
    /\ \A p \in Processes : lock = p <=> proc[p].at = "save"
    /\ served \in [Endpoints -> Descriptor]
    /\ store.current # None => store.profile[store.current] # None

\* However often profiles are rebound and servers replaced while commands
\* run, a key is only sent to an endpoint after the descriptor found there
\* was the identity an operator had confirmed for that endpoint and that
\* key (authenticate_validated_profile, validate_current_identity).
KeyStaysWithItsPin == \A r \in released : r.authority \in approved

\* A confirmed command goes to the server and with the key it displayed,
\* even if its profile is rebound before the request
\* (require_confirmation, authenticated_server_snapshot).
CommandGoesWhereShown ==
    \A r \in released : r.shown # None => r.authority = Authority(r.shown)

\* No profile an invocation reported as saved is lost or turned back by
\* another process, killed or not, that writes the same file
\* (mutate_store, merge_capability_cache).
AcknowledgedProfilesKept ==
    \A n \in Names : accepted[n] # None =>
        store.profile[n] # None /\ Authority(store.profile[n]) = accepted[n]

\* A pin is only replaced by a rebind that displayed that very pin as the
\* old one (rebind_profile_at).
ReplacesWhatItDisplayed ==
    store' # store =>
        \A n \in Names :
            (store.profile[n] # None /\ ~SameAuthority(store.profile[n], store'.profile[n]))
                => \E p \in Processes :
                       /\ proc[p].does = "rebind" /\ proc[p].at = "save" /\ proc[p].name = n
                       /\ SameAuthority(proc[p].snapshot, store.profile[n])
============================================================================
