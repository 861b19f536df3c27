-------------------------- MODULE ControlSurface --------------------------
(***************************************************************************)
(* The Control API as its operators meet it: every command an operator can *)
(* send, what the request names (an idempotency key, the revisions the     *)
(* operator saw) and what the server compares before it acts.  Requests    *)
(* are sent over a network that loses answers, so an operator repeats a    *)
(* command whose outcome is unknown, and the copies arrive in any order    *)
(* and at any time, before and after the commands of other operators.      *)
(*                                                                         *)
(* A command is a row of Command: the resource it is `on`, the statuses it *)
(* is admitted `from` and leads `to` (none: the status stays), the         *)
(* counters it compares (`fence`) and advances (`moves`), the resources    *)
(* that must be active (`needs`; `gate`, those looked at before the key    *)
(* is), the `ledger` its key is looked up in, the resources it `shuts`     *)
(* with the counter each of them advances, and when it answers without     *)
(* acting (`settles`, in one of the statuses `settled`).  What a command   *)
(* does beyond that is the subject of the component's own module.          *)
(***************************************************************************)
EXTENDS Naturals, FiniteSets, TLC

CONSTANTS Command,      \* the commands: Commands, below
          Intents,      \* decisions of operators: each is one request
          Keys,         \* idempotency keys
          Offered,      \* the commands the operators of this instance use
          Starts,       \* statuses to start from, where not the ordinary ones
          MaxSends,     \* copies of one request
          MaxBackground \* steps of background workers

VARIABLES status,       \* of every resource
          rev,          \* every revision counter
          ledger,       \* idempotency records
          asked,        \* the request of every intent
          sends,        \* copies sent so far
          flight,       \* copies not yet handled
          answer,       \* the last answer the operator received
          background,
          effects,      \* auxiliary: how often an intent took effect
          moved         \* auxiliary: status changes of a resource

vars == <<status, rev, ledger, asked, sends, flight, answer, background, effects, moved>>

Nothing == "none"
Same == {}

---------------------------------------------------------------------------
(* The shapes of a row. *)

Fenced(on, from, to, counters) ==
    [on |-> on, from |-> from, to |-> to, fence |-> counters, moves |-> counters,
     needs |-> {"project"}, gate |-> {}, ledger |-> Nothing, shuts |-> {},
     settles |-> "never", settled |-> {}, calm |-> "any"]

Keyed(in, counters) ==
    [Fenced("nothing", {"active"}, Same, counters) EXCEPT !.ledger = in, !.moves = {}]

With(row, field, value) == [row EXCEPT ![field] = value]

Settling(row, statuses, how) == [row EXCEPT !.settled = statuses, !.settles = how]

---------------------------------------------------------------------------
(* The commands, one definition per family of handlers. *)


ProjectCommands ==
    [create_project |-> With(Keyed("control", {}), "needs", {}),
     update_project |-> Fenced("project", {"active"}, Same, {"project.metadata"})]

ProjectPolicyCommands ==
    [update_project_policy |-> Fenced("policy", {"active"}, Same, {"policy.claims", "policy.session"})]

ProjectLifecycleCommands ==
    [disable_project |-> Fenced("project", {"active"}, {"disabled"}, {"project.security"}),
     enable_project |-> With(Fenced("project", {"disabled"}, {"active"}, {"project.security"}), "needs", {}),
     delete_project |-> Settling(
         With(Fenced("project", {"active", "disabled"}, {"deleting"}, {"project.security"}), "needs", {}),
         {"deleting"}, "any")]

EmailCommands ==
    [update_email_method_policy |->
         With(Fenced("email", {"active"}, Same, {"email.policy", "email.security"}), "needs", {}),
     assign_email_method |->
         With(Fenced("application", {"active", "disabled"}, Same, {"application.security"}), "needs", {})]

DeploymentSmtpCommands ==
    [reconcile_deployment_smtp |-> With(Keyed("deployment_smtp", {}), "needs", {}),
     disable_deployment_smtp |-> With(
         Fenced("deployment_smtp", {"active"}, {"disabled"}, {"deployment_smtp.revision"}), "needs", {}),
     compromise_deployment_smtp |-> With(
         Fenced("deployment_smtp", {"active"}, {"compromised"}, {"deployment_smtp.revision"}), "needs", {})]

SmtpCommands ==
    [create_smtp_configuration |-> With(Keyed("smtp", {"project.security"}), "needs", {}),
     test_smtp_configuration |->
         [Keyed("smtp_test", {"smtp.revision"}) EXCEPT
             !.on = "smtp", !.from = {"pending", "active"}, !.needs = {}]]

SmtpLifecycleCommands ==
    [activate_smtp |-> With(Fenced("smtp", {"pending"}, {"active"}, {"smtp.revision"}), "needs", {}),
     disable_smtp |->
         With(Fenced("smtp", {"pending", "active"}, {"disabled"}, {"smtp.revision"}), "needs", {}),
     compromise_smtp |->
         With(Fenced("smtp", {"pending", "active"}, {"compromised"}, {"smtp.revision"}), "needs", {})]

IntentCommands ==
    [create_identity_mutation_intent |-> Keyed("control", {})]

IntentLifecycleCommands ==
    [cancel_identity_mutation_intent |-> Settling(
         With(Fenced("intent", {"pending_proof", "ready"}, {"cancelled"}, {"intent.revision"}), "needs", {}),
         {"lapsed"}, "any"),
     confirm_identity_mutation_intent |->
         Fenced("intent", {"ready"}, {"completed", "cancelled"}, {"intent.revision"})]

ServerKeyCommands ==
    [create_server_key |->
         [Keyed("control", {}) EXCEPT
             !.on = "server_key", !.from = {"active", "revoked"}, !.to = {"delivered"},
             !.moves = {"server_key.revision"}],
     acknowledge_server_key |->
         [Keyed("control", {"server_key.revision"}) EXCEPT
             !.on = "server_key", !.from = {"delivered"}, !.to = {"active"},
             !.moves = {"server_key.revision"}, !.needs = {}],
     revoke_server_key |->
         [Keyed("control", {"server_key.revision"}) EXCEPT
             !.on = "server_key", !.from = {"delivered", "active"}, !.to = {"revoked"},
             !.moves = {"server_key.revision"}, !.needs = {}]]

UserCommands ==
    [disable_user |-> Settling(
         Fenced("user", {"active"}, {"disabled"}, {"user.security"}), {"disabled"}, "same"),
     enable_user |-> Settling(
         Fenced("user", {"disabled"}, {"active"}, {"user.security"}), {"active"}, "same")]

SessionCommands ==
    [revoke_application_session |-> Settling(
         With(Fenced("application_session", {"active"}, {"revoked"}, {"application_session.revision"}),
              "needs", {}), {"revoked"}, "same"),
     revoke_browser_session |-> Settling(
         With(Fenced("browser_session", {"active"}, {"terminated"}, {"browser_session.revision"}),
              "needs", {}), {"terminated"}, "same")]

ApplicationCommands ==
    [create_application |-> With(Keyed("control", {}), "gate", {"project"}),
     update_application |-> Fenced("application", {"active"}, Same, {"application.metadata"}),
     replace_application_configuration |->
         Fenced("application", {"active"}, Same, {"application.security"}),
     disable_application |->
         [Fenced("application", {"active"}, {"disabled"}, {"application.security"}) EXCEPT
             !.shuts = {<<"endpoint", "endpoint.revision">>, <<"assignment", "provider.revision">>},
             !.calm = "assigned"]]

Hosting == {"project", "application"}

EndpointCommands ==
    [create_webhook_endpoint |-> With(Keyed("endpoint", {}), "gate", Hosting)]


EndpointLifecycleCommands ==
    [update_webhook_endpoint |->
         With(Fenced("endpoint", {"pending", "active"}, Same, {"endpoint.revision"}), "needs", Hosting),
     test_webhook_endpoint |->
         With(Fenced("endpoint", {"pending", "active"}, Same, {"endpoint.revision"}), "needs", Hosting),
     activate_webhook_endpoint |-> Settling(
         With(Fenced("endpoint", {"pending"}, {"active"}, {"endpoint.revision"}), "needs", Hosting),
         {"active"}, "next"),
     disable_webhook_endpoint |-> With(
         Fenced("endpoint", {"pending", "active"}, {"disabled"}, {"endpoint.revision"}), "needs", Hosting)]

EndpointSecretCommands ==
    [prepare_webhook_secret_rotation |->
         [Keyed("endpoint_secret", {"endpoint.revision"}) EXCEPT
             !.on = "rotation", !.from = {"idle", "pending"}, !.to = {"pending"},
             !.gate = Hosting \cup {"endpoint"}, !.moves = {"rotation.generation"}],
     activate_webhook_secret_rotation |-> Settling(
         [Fenced("rotation", {"pending"}, {"idle"}, {"endpoint.revision", "rotation.generation"}) EXCEPT
             !.needs = Hosting \cup {"endpoint"}, !.moves = {"endpoint.revision"}], {"idle"}, "next")]

DeliveryCommands ==
    [replay_webhook_delivery |->
         With(Fenced("nothing", {"active"}, Same, {}), "needs", Hosting \cup {"endpoint"})]


SigningCommands ==
    [rotate_signing_key |->
         [Keyed("signing", {"project.metadata"}) EXCEPT
             !.on = "candidate", !.from = {"idle"}, !.to = {"provisioning"}, !.moves = {"candidate.key"}],
     revoke_signing_key |->
         [Fenced("candidate", {"provisioning"}, {"idle"}, {"ring.revision", "candidate.key"}) EXCEPT
             !.needs = {}, !.moves = {"ring.revision"}]]

EgressCommands ==
    [update_provider_egress_policy |-> Fenced("egress", {"active"}, Same, {"egress.revision"})]

ProviderCommands ==
    [create_provider |-> Keyed("provider", {"project.metadata", "egress.revision"}),
     update_provider |->
         With(Fenced("provider", {"active"}, Same, {"provider.revision"}), "calm", "always")]

ProviderSecretCommands ==
    [replace_provider_secret |->
         [Keyed("provider", {"provider.revision"}) EXCEPT
             !.on = "replacement", !.from = {"idle"}, !.to = {"pending"}, !.gate = {"project"},
             !.needs = {"project", "provider"}, !.moves = {"replacement.generation"}],
     reconcile_secret_replacement |->
         [Fenced("replacement", {"pending"}, {"idle"}, {"provider.revision", "replacement.generation"}) EXCEPT
             !.needs = {"project", "provider"}, !.moves = {"provider.revision"}],
     abandon_secret_replacement |->
         [Fenced("replacement", {"pending"}, {"idle"}, {"provider.revision"}) EXCEPT
             !.needs = {"project", "provider"}, !.moves = {}]]

ProviderRecoveryCommands ==
    [reconcile_provider |-> Settling(
         With(Fenced("provider", {"provisioning"}, {"active"}, {"project.metadata"}), "moves",
              {"provider.revision"}), {"active", "disabled"}, "any")]

\* Mutant: unassigning advances the provider only.
ProviderLifecycleCommandsMutant ==
    [disable_provider |->
         [Fenced("provider", {"active"}, {"disabled"}, {"provider.revision"}) EXCEPT
             !.shuts = {<<"assignment", "application.security">>}, !.calm = "always"],
     assign_provider |->
         [Fenced("assignment", {"disabled"}, {"active"}, {"application.security"}) EXCEPT
             !.needs = Hosting \cup {"provider"}, !.calm = "always",
             !.moves = {"application.security", "provider.revision"}],
     unassign_provider |->
         [Fenced("assignment", {"active"}, {"disabled"}, {"application.security"}) EXCEPT
             !.needs = Hosting \cup {"provider"}, !.calm = "always", !.moves = {"provider.revision"}]]


ProviderLifecycleCommands ==
    [disable_provider |->
         [Fenced("provider", {"active"}, {"disabled"}, {"provider.revision"}) EXCEPT
             !.shuts = {<<"assignment", "application.security">>}, !.calm = "always"],
     assign_provider |->
         [Fenced("assignment", {"disabled"}, {"active"}, {"application.security"}) EXCEPT
             !.needs = Hosting \cup {"provider"}, !.calm = "always",
             !.moves = {"application.security", "provider.revision"}],
     unassign_provider |->
         [Fenced("assignment", {"active"}, {"disabled"}, {"application.security"}) EXCEPT
             !.needs = Hosting \cup {"provider"}, !.calm = "always",
             !.moves = {"application.security", "provider.revision"}]]

Connection == {"connection.revision", "connection.generation"}

ConnectionCommands ==
    [synchronize_connection |->
         [Fenced("connection", {"active"}, Same, Connection) EXCEPT !.moves = {}, !.needs = {}],
     disconnect_connection |->
         [Fenced("connection", {"active", "revoked"}, {"revoking", "disconnected"}, Connection) EXCEPT
             !.moves = {"connection.revision"}, !.needs = {}],
     revoke_connection |->
         [Fenced("connection", {"active"}, {"revoking"}, Connection) EXCEPT
             !.moves = {"connection.revision"}, !.needs = {}]]

\* Mutant: a reauthorization is created without looking the key up.
ReauthorizationCommandsMutant ==
    [create_managed_reauthorization |-> Keyed(Nothing, Connection),
     cancel_managed_reauthorization |->
         With(Fenced("reauthorization", {"open"}, {"cancelled"}, {"reauthorization.revision"}),
              "needs", {})]


ReauthorizationCommands ==
    [create_managed_reauthorization |-> Keyed("control", Connection),
     cancel_managed_reauthorization |->
         With(Fenced("reauthorization", {"open"}, {"cancelled"}, {"reauthorization.revision"}),
              "needs", {})]

Commands ==
    ProjectCommands @@ ProjectPolicyCommands @@ ProjectLifecycleCommands @@ EmailCommands
    @@ DeploymentSmtpCommands @@ SmtpCommands @@ SmtpLifecycleCommands @@ IntentCommands
    @@ IntentLifecycleCommands @@ ServerKeyCommands @@ UserCommands @@ SessionCommands
    @@ ApplicationCommands @@ EndpointCommands @@ EndpointLifecycleCommands
    @@ EndpointSecretCommands @@ DeliveryCommands @@ SigningCommands @@ EgressCommands
    @@ ProviderCommands @@ ProviderSecretCommands @@ ProviderRecoveryCommands
    @@ ProviderLifecycleCommands @@ ConnectionCommands @@ ReauthorizationCommands

SurfaceAssumption == Command = Commands /\ {MaxSends, MaxBackground} \subseteq Nat

---------------------------------------------------------------------------
Counters == UNION {Command[c].fence \cup Command[c].moves : c \in DOMAIN Command}

\* The resources before any command, unless Starts says otherwise.  server_key
\* and candidate stand for the newest key of the Project: a request names the
\* key it saw, which the value of a counter stands for.
Ordinary ==
    [nothing |-> "active", project |-> "active", policy |-> "active", email |-> "active",
     egress |-> "active", application |-> "active", user |-> "active",
     application_session |-> "active", browser_session |-> "active",
     provider |-> "active", assignment |-> "active", replacement |-> "idle",
     endpoint |-> "active", rotation |-> "idle", smtp |-> "pending", deployment_smtp |-> "active",
     intent |-> "ready", server_key |-> "delivered", candidate |-> "idle", connection |-> "active",
     reauthorization |-> "open"]

Resources == DOMAIN Ordinary

Statuses == UNION {Command[c].to \cup Command[c].from : c \in DOMAIN Command} \cup {"lapsed"}

Unasked == [command |-> Nothing, key |-> Nothing, seen |-> <<>>, saw |-> 0]

Asked(i) == asked[i].command # Nothing
Cmd(i) == Command[asked[i].command]

TypeOK ==
    /\ status \in [Resources -> Statuses]
    /\ rev \in [Counters -> Nat]
    /\ ledger \subseteq [scope : {Command[c].ledger : c \in DOMAIN Command}, key : Keys, intent : Intents]
    /\ \A i \in Intents : asked[i] = Unasked \/ asked[i].command \in Offered
    /\ {sends, flight} \subseteq [Intents -> 0 .. MaxSends]
    /\ answer \in [Intents -> {Nothing, "ok", "conflict", "refused", "unavailable"}]
    /\ background \in 0 .. MaxBackground
    /\ effects \in [Intents -> 0 .. MaxSends]
    /\ moved \in [Resources -> Nat]

Init ==
    /\ \E start \in Starts : status = start @@ Ordinary
    /\ rev = [f \in Counters |-> 1]
    /\ ledger = {}
    /\ asked = [i \in Intents |-> Unasked]
    /\ sends = [i \in Intents |-> 0]
    /\ flight = [i \in Intents |-> 0]
    /\ answer = [i \in Intents |-> Nothing]
    /\ background = 0
    /\ effects = [i \in Intents |-> 0]
    /\ moved = [r \in Resources |-> 0]

---------------------------------------------------------------------------
(* Operators. *)

\* An operator reads the resources and decides on a command: the revisions it
\* will send are the ones it read.
Decide(i, c, k) ==
    /\ ~Asked(i)
    /\ asked' = [asked EXCEPT ![i] = [command |-> c,
                                     key |-> IF Command[c].ledger = Nothing THEN Nothing ELSE k,
                                     seen |-> [f \in Command[c].fence |-> rev[f]],
                                     saw |-> moved[Command[c].on]]]
    /\ UNCHANGED <<status, rev, ledger, sends, flight, answer, background, effects, moved>>

\* It sends the request, and again while it does not know the outcome.
Send(i) ==
    /\ Asked(i)
    /\ answer[i] \in {Nothing, "unavailable"}
    /\ sends[i] < MaxSends
    /\ sends' = [sends EXCEPT ![i] = @ + 1]
    /\ flight' = [flight EXCEPT ![i] = @ + 1]
    /\ UNCHANGED <<status, rev, ledger, asked, answer, background, effects, moved>>

---------------------------------------------------------------------------
(* The server. *)

\* The answer to a copy of i's request reaches the operator or is lost: the
\* listener's time budget drops the handler after it committed, or the
\* connection fails.
Answers(i, value) ==
    /\ flight[i] > 0
    /\ flight' = [flight EXCEPT ![i] = @ - 1]
    /\ \/ answer' = [answer EXCEPT ![i] = value]
       \/ answer' = answer
    /\ UNCHANGED <<asked, sends, background>>

\* The credential or the browser metadata is refused, the request exceeds the
\* listener's bounds, or the time budget ends before the handler commits.
TurnAway(i) ==
    /\ Answers(i, "unavailable")
    /\ UNCHANGED <<status, rev, ledger, effects, moved>>

Active(resources) == \A r \in resources : status[r] = "active"

Known(i) == {e \in ledger : e.scope = Cmd(i).ledger /\ e.key = asked[i].key}

\* The revisions named by the request are the current ones.
Current(i) == \A f \in Cmd(i).fence : rev[f] = asked[i].seen[f]

\* ensure_no_pending_secret_replacement.
Calm(i) ==
    CASE Cmd(i).calm = "always" -> status["replacement"] # "pending"
      [] Cmd(i).calm = "assigned" -> status["assignment"] = "active" => status["replacement"] # "pending"
      [] OTHER -> TRUE

\* The command answers without acting, because the resource is already there.
Settled(i) ==
    /\ status[Cmd(i).on] \in Cmd(i).settled
    /\ CASE Cmd(i).settles = "any" -> TRUE
         [] Cmd(i).settles = "same" -> Current(i)
         [] OTHER -> \A f \in Cmd(i).fence :
                        rev[f] = asked[i].seen[f] + (IF f \in Cmd(i).moves THEN 1 ELSE 0)

\* The key was used for this very request: its recorded answer is repeated.
Replay(i) ==
    /\ Active(Cmd(i).gate)
    /\ \E e \in Known(i) : e.intent = i
    /\ Answers(i, "ok")
    /\ UNCHANGED <<status, rev, ledger, effects, moved>>

\* The key was used for another request.
IdempotencyConflict(i) ==
    /\ Active(Cmd(i).gate)
    /\ \E e \in Known(i) : e.intent # i
    /\ Answers(i, "conflict")
    /\ UNCHANGED <<status, rev, ledger, effects, moved>>

Reached(i) == Active(Cmd(i).gate \cup Cmd(i).needs) /\ Known(i) = {}

Settle(i) ==
    /\ Reached(i)
    /\ Settled(i)
    /\ Answers(i, "ok")
    /\ UNCHANGED <<status, rev, ledger, effects, moved>>

Admitted(i) == Reached(i) /\ ~Settled(i) /\ Current(i) /\ status[Cmd(i).on] \in Cmd(i).from /\ Calm(i)

\* A disabled resource, a stale revision or a status the command is not for.
Refuse(i) ==
    /\ Active(Cmd(i).gate) => Known(i) = {}
    /\ ~(Reached(i) /\ Settled(i))
    /\ ~Admitted(i)
    /\ Answers(i, IF Active(Cmd(i).needs) /\ ~Current(i) THEN "conflict" ELSE "refused")
    /\ UNCHANGED <<status, rev, ledger, effects, moved>>

\* The open resources a command shuts, each with the counter that records it.
Shuts(i) == {x \in Cmd(i).shuts : status[x[1]] \in {"pending", "active"}}

\* One transaction: the resource, everything the command shuts, the counters,
\* the idempotency record.
Perform(i) ==
    /\ Admitted(i)
    /\ \E next \in IF Cmd(i).to = Same THEN {status[Cmd(i).on]} ELSE Cmd(i).to :
           status' = [r \in DOMAIN status |-> IF r = Cmd(i).on THEN next
                                         ELSE IF \E x \in Shuts(i) : x[1] = r THEN "disabled" ELSE status[r]]
    /\ rev' = [f \in DOMAIN rev |->
                 IF f \in Cmd(i).moves \cup {x[2] : x \in Shuts(i)} THEN rev[f] + 1 ELSE rev[f]]
    /\ ledger' = IF Cmd(i).ledger = Nothing THEN ledger
                 ELSE ledger \cup {[scope |-> Cmd(i).ledger, key |-> asked[i].key, intent |-> i]}
    /\ effects' = [effects EXCEPT ![i] = @ + 1]
    /\ moved' = [r \in DOMAIN moved |-> IF status'[r] # status[r] THEN moved[r] + 1 ELSE moved[r]]
    /\ Answers(i, "ok")

---------------------------------------------------------------------------
(* Everything else that advances a counter. *)

\* Workers and hosted interactions move a signing ring, a connection or an
\* intent on between two requests.
Progress(counters) ==
    /\ background < MaxBackground
    /\ background' = background + 1
    /\ rev' = [f \in DOMAIN rev |-> IF f \in counters THEN rev[f] + 1 ELSE rev[f]]
    /\ UNCHANGED <<status, ledger, asked, sends, flight, answer, effects, moved>>

\* The deadline of an intent passes.
Lapse ==
    /\ background < MaxBackground
    /\ status["intent"] \in {"pending_proof", "ready"}
    /\ background' = background + 1
    /\ status' = [status EXCEPT !["intent"] = "lapsed"]
    /\ moved' = [moved EXCEPT !["intent"] = @ + 1]
    /\ UNCHANGED <<rev, ledger, asked, sends, flight, answer, effects>>

Worked == {{"ring.revision"}, Connection, {"intent.revision"}}

Next ==
    \/ \E i \in Intents :
          \/ \E c \in Offered, k \in Keys : Decide(i, c, k)
          \/ Send(i)
          \/ Asked(i) /\ (TurnAway(i) \/ Replay(i) \/ IdempotencyConflict(i) \/ Settle(i)
                          \/ Refuse(i) \/ Perform(i))
    \/ \E counters \in Worked : Progress(counters)
    \/ Lapse

Spec == Init /\ [][Next]_vars

---------------------------------------------------------------------------
(* Properties. *)

\* The commands whose repetition nothing stops: they record no key and do not
\* advance what they compare.
Unfenced == {"replay_webhook_delivery", "synchronize_connection", "abandon_secret_replacement"}

\* However often a request is repeated, and whatever other operators do between
\* the copies, it takes effect at most once: a keyed command finds its record, a
\* fenced one a revision that has moved on.
AtMostOnce == \A i \in Intents : asked[i].command \notin Unfenced => effects[i] <= 1

\* A success is never reported for something that did not happen: when an
\* operator is told that its command succeeded, the command has taken effect or
\* the resource is in a state the command accepts as its result.
HonestSuccess ==
    \A i \in Intents :
        (answer'[i] = "ok" /\ answer[i] # "ok") =>
            (effects'[i] > 0 \/ status[Cmd(i).on] \in Cmd(i).settled)

\* A fenced command that changes a status acts on the history its operator saw:
\* the resource was not moved away and back in between (disabled and enabled
\* again, shut by a command on another resource), by whatever path.
ActsOnWhatWasSeen ==
    \A i \in Intents :
        (/\ effects'[i] # effects[i]
         /\ Cmd(i).to # Same
         /\ Cmd(i).ledger = Nothing
         /\ asked[i].command \notin Unfenced) => moved[Cmd(i).on] = asked[i].saw
===========================================================================
