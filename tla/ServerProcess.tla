---------------------------- MODULE ServerProcess ----------------------------
(***************************************************************************)
(* One server process from its first startup phase to its exit             *)
(* (composition.rs): the fail-closed phases before anything is bound, the  *)
(* listeners with their connection limits, the background workers, and the *)
(* shutdown that drains both within a deadline or aborts them.             *)
(***************************************************************************)
EXTENDS Integers, FiniteSets

CONSTANTS
    Planes,         \* the selected planes: {"auth"}, {"control"} or both
    Workers,        \* runtime_worker_selection: the workers composed
    MaxConnections, \* connections a listener admits
    MailBatch,      \* items of one mail batch (10 in the code)
    OtherBatch,     \* items of one managed or webhook batch (16 in the code)
    MaxTicks        \* bound: batches started by one worker

ProcessAssumption ==
    /\ Planes \subseteq {"auth", "control"} /\ Planes # {}
    /\ Workers \subseteq {"mail", "provider_recovery", "managed_sync", "webhook_delivery"}
    /\ ("auth" \notin Planes) => Workers = {}
    /\ {MaxConnections, MailBatch, OtherBatch, MaxTicks} \subseteq Nat \ {0}

VARIABLES
    phase,      \* the startup phase, "serving", "draining", "closing" or "stopped"
    result,     \* what run_with_providers returns
    pools,      \* "none", "open" or "closed"
    bound,      \* planes whose socket is bound
    ready,      \* planes whose probe answers ready
    server,     \* [Planes -> state of the task that serves the plane]
    open,       \* [Planes -> connections admitted and not closed]
    shutdown,   \* the watch channel: "running", "sent" or "dropped"
    worker,     \* [Workers -> [state, left, ticks, late]]
    maintenance \* the signing lifecycle task: "none", "running" or "aborted"

vars == <<phase, result, pools, bound, ready, server, open, shutdown, worker,
          maintenance>>

tasks == <<server, open, worker>>

Phases == <<"providers", "schema", "pools", "readiness", "deployment_smtp",
            "bind_auth", "bind_control", "mark_ready", "spawn">>

-----------------------------------------------------------------------------
(***************************************************************************)
(* Startup.  Each phase succeeds, or the process ends with its error and   *)
(* nothing was served.                                                     *)
(***************************************************************************)

\* An early return before anything is bound; the pools are closed or dropped
\* with the stack frame.
FailStartup(error) ==
    /\ phase' = "stopped"
    /\ result' = error
    /\ pools' = IF pools = "open" THEN "closed" ELSE pools
    /\ bound' = {}
    /\ UNCHANGED <<ready, shutdown, maintenance>>
    /\ UNCHANGED tasks

Advance(from, to) ==
    /\ phase = from
    /\ phase' = to
    /\ UNCHANGED <<result, ready, shutdown, maintenance>>
    /\ UNCHANGED tasks

ValidateProviders ==
    \/ Advance("providers", "schema") /\ UNCHANGED <<pools, bound>>
    \/ phase = "providers" /\ FailStartup("provider_composition")

PrepareSchema ==
    \/ Advance("schema", "pools") /\ UNCHANGED <<pools, bound>>
    \/ phase = "schema" /\ FailStartup("schema")

CreatePools ==
    \/ Advance("pools", "readiness") /\ pools' = "open" /\ UNCHANGED bound
    \/ phase = "pools" /\ FailStartup("database_pools")

ValidateReadiness ==
    \/ Advance("readiness", "deployment_smtp") /\ UNCHANGED <<pools, bound>>
    \/ phase = "readiness" /\ "auth" \in Planes /\ FailStartup("provider_readiness")

ReconcileDeploymentSmtp ==
    \/ Advance("deployment_smtp", "bind_auth") /\ UNCHANGED <<pools, bound>>
    \/ phase = "deployment_smtp" /\ "auth" \in Planes /\ FailStartup("deployment_smtp")

\* Both sockets are bound before either is served.
BindSelected(plane, from, to) ==
    \/ /\ Advance(from, to)
       /\ bound' = bound \cup ({plane} \cap Planes)
       /\ UNCHANGED pools
    \/ phase = from /\ plane \in Planes /\ FailStartup("bind")

BindAuth == BindSelected("auth", "bind_auth", "bind_control")

BindControl == BindSelected("control", "bind_control", "mark_ready")

\* The probes answer from here on, and the maintenance of signing keys runs
\* where the Control plane is composed.
MarkReady ==
    /\ phase = "mark_ready"
    /\ phase' = "spawn"
    /\ ready' = bound
    /\ maintenance' = IF "control" \in Planes THEN "running" ELSE maintenance
    /\ UNCHANGED <<result, pools, bound, shutdown>>
    /\ UNCHANGED tasks

SpawnTasks ==
    /\ phase = "spawn"
    /\ phase' = "serving"
    /\ server' = [p \in Planes |-> "accepting"]
    /\ worker' = [w \in Workers |-> [worker[w] EXCEPT !.state = "waiting"]]
    /\ UNCHANGED <<result, pools, bound, ready, open, shutdown, maintenance>>

-----------------------------------------------------------------------------
(***************************************************************************)
(* Listeners.                                                              *)
(***************************************************************************)

Accept(p) ==
    /\ server[p] = "accepting"
    /\ open[p] < MaxConnections
    /\ open' = [open EXCEPT ![p] = @ + 1]
    /\ UNCHANGED <<phase, result, pools, bound, ready, server, shutdown, worker, maintenance>>

\* The HTTP library serves each connection in a task of its own, which outlives a
\* listener that failed or was aborted.
CloseConnection(p) ==
    /\ open[p] > 0
    /\ open' = [open EXCEPT ![p] = @ - 1]
    /\ UNCHANGED <<phase, result, pools, bound, ready, server, shutdown, worker, maintenance>>

\* with_graceful_shutdown: the listener stops accepting once the channel says so ...
StopAccepting(p) ==
    /\ server[p] = "accepting"
    /\ shutdown # "running"
    /\ server' = [server EXCEPT ![p] = "draining"]
    /\ UNCHANGED <<phase, result, pools, bound, ready, open, shutdown, worker, maintenance>>

\* ... and its task ends when the last connection is closed.
ServerEnds(p) ==
    /\ server[p] = "draining"
    /\ open[p] = 0
    /\ server' = [server EXCEPT ![p] = "ended"]
    /\ UNCHANGED <<phase, result, pools, bound, ready, open, shutdown, worker, maintenance>>

\* The task ends on its own, with an error or a panic.
ListenerFails(p) ==
    /\ server[p] = "accepting"
    /\ phase = "serving"
    /\ server' = [server EXCEPT ![p] = "failed"]
    /\ UNCHANGED <<phase, result, pools, bound, ready, open, shutdown, worker, maintenance>>

\* A listener whose task is over.
Over(p) == server[p] \in {"ended", "failed"}

-----------------------------------------------------------------------------
(***************************************************************************)
(* Background workers.  Each waits for its interval or for the channel,    *)
(* whichever the runtime picks when both are ready, and runs a bounded     *)
(* batch without looking at the channel again.                             *)
(***************************************************************************)

SetWorker(w, new) ==
    /\ worker' = [worker EXCEPT ![w] = new]
    /\ UNCHANGED <<phase, result, pools, bound, ready, server, open, shutdown, maintenance>>

\* The interval ticks: a batch of at most n items starts.
StartBatch(w, n) ==
    /\ worker[w].state = "waiting"
    /\ worker[w].ticks < MaxTicks
    /\ SetWorker(w, [state |-> "batch", left |-> n, ticks |-> worker[w].ticks + 1,
                     late |-> worker[w].late + (IF shutdown = "running" THEN 0 ELSE 1)])

\* One item is done; nothing left, an error or the time budget end the batch.
RunItem(w) ==
    /\ worker[w].state = "batch"
    /\ \/ worker[w].left > 1 /\ SetWorker(w, [worker[w] EXCEPT !.left = @ - 1])
       \/ SetWorker(w, [worker[w] EXCEPT !.state = "checking", !.left = 0])

MailTick(w) == w = "mail" /\ StartBatch(w, MailBatch)

RecoveryTick(w) == w = "provider_recovery" /\ StartBatch(w, 1)

\* The managed batch runs only when the credential keys are readable; otherwise
\* the loop goes straight back to its head.
ManagedTick(w) ==
    /\ w = "managed_sync"
    /\ \/ StartBatch(w, OtherBatch)
       \/ /\ worker[w].state = "waiting"
          /\ worker[w].ticks < MaxTicks
          /\ SetWorker(w, [worker[w] EXCEPT !.state = "checking", !.ticks = @ + 1])

WebhookTick(w) == w = "webhook_delivery" /\ StartBatch(w, OtherBatch)

CheckShutdown(w) ==
    /\ worker[w].state = "checking"
    /\ SetWorker(w, [worker[w] EXCEPT !.state = IF shutdown = "sent" THEN "ended"
                                                                     ELSE "waiting"])

\* The channel changed, or its sender is gone.
ObserveShutdown(w) ==
    /\ worker[w].state = "waiting"
    /\ shutdown # "running"
    /\ SetWorker(w, [worker[w] EXCEPT !.state = "ended"])

WorkerStep(w) == RunItem(w) \/ CheckShutdown(w) \/ ObserveShutdown(w)

Tick(w) == MailTick(w) \/ RecoveryTick(w) \/ ManagedTick(w) \/ WebhookTick(w)

-----------------------------------------------------------------------------
(***************************************************************************)
(* Shutdown.                                                               *)
(***************************************************************************)

BeginDrain ==
    /\ phase = "serving"
    /\ \/ result' = "ok"
       \/ result' = "serve" /\ \E p \in Planes : Over(p)
    /\ phase' = "draining"
    /\ ready' = {}
    /\ shutdown' = "sent"
    /\ UNCHANGED <<pools, bound, maintenance>>
    /\ UNCHANGED tasks

\* The signal handler itself fails: the function returns at once.  The set of
\* server tasks is dropped, which aborts them; the sender is dropped, which
\* the workers observe.
SignalFails ==
    /\ phase = "serving"
    /\ result' = "shutdown_signal"
    /\ phase' = "closing"
    /\ shutdown' = "dropped"
    /\ server' = [p \in Planes |-> IF Over(p) THEN server[p] ELSE "aborting"]
    /\ UNCHANGED <<pools, bound, ready, open, worker, maintenance>>

\* Every server task has ended, then every worker.
Drained ==
    /\ \A p \in Planes : Over(p)
    /\ \A w \in Workers : worker[w].state = "ended"

DrainCompletes ==
    /\ phase = "draining"
    /\ Drained
    /\ phase' = "closing"
    /\ UNCHANGED <<result, pools, bound, ready, shutdown, maintenance>>
    /\ UNCHANGED tasks

\* The deadline passed first: everything still running is aborted, and not
\* waited for.
DrainTimesOut ==
    /\ phase = "draining"
    /\ ~Drained
    /\ phase' = "closing"
    /\ result' = "shutdown_timeout"
    /\ server' = [p \in Planes |-> IF Over(p) THEN server[p] ELSE "aborting"]
    /\ worker' = [w \in Workers |->
                    [worker[w] EXCEPT !.state = IF @ = "ended" THEN @ ELSE "aborting"]]
    /\ UNCHANGED <<pools, bound, ready, open, shutdown, maintenance>>

\* An aborted task goes away at its next suspension point.
AbortServer(p) ==
    /\ server[p] = "aborting"
    /\ server' = [server EXCEPT ![p] = "ended"]
    /\ UNCHANGED <<phase, result, pools, bound, ready, open, shutdown, worker, maintenance>>

AbortWorker(w) ==
    /\ worker[w].state = "aborting"
    /\ SetWorker(w, [worker[w] EXCEPT !.state = "ended"])

\* The maintenance task is aborted and awaited, the pools are closed.
ClosePools ==
    /\ phase = "closing"
    /\ maintenance' = IF maintenance = "running" THEN "aborted" ELSE maintenance
    /\ pools' = "closed"
    /\ phase' = "stopped"
    /\ bound' = {}
    /\ UNCHANGED <<result, ready, shutdown>>
    /\ UNCHANGED tasks

-----------------------------------------------------------------------------
Init ==
    /\ phase = "providers"
    /\ result = "none"
    /\ pools = "none"
    /\ bound = {}
    /\ ready = {}
    /\ server = [p \in Planes |-> "none"]
    /\ open = [p \in Planes |-> 0]
    /\ shutdown = "running"
    /\ worker = [w \in Workers |-> [state |-> "none", left |-> 0, ticks |-> 0, late |-> 0]]
    /\ maintenance = "none"

Startup ==
    \/ ValidateProviders
    \/ PrepareSchema
    \/ CreatePools
    \/ ValidateReadiness
    \/ ReconcileDeploymentSmtp
    \/ BindAuth
    \/ BindControl
    \/ MarkReady
    \/ SpawnTasks

Main == Startup \/ DrainCompletes \/ DrainTimesOut \/ ClosePools

Next ==
    \/ Main
    \/ BeginDrain
    \/ SignalFails
    \/ \E p \in Planes :
          \/ Accept(p)
          \/ CloseConnection(p)
          \/ StopAccepting(p)
          \/ ServerEnds(p)
          \/ ListenerFails(p)
          \/ AbortServer(p)
    \/ \E w \in Workers : Tick(w) \/ WorkerStep(w) \/ AbortWorker(w)

(***************************************************************************)
(* The main task runs, its timer fires, and it reacts to a listener that   *)
(* ended.  A client need never close its connection, and no signal need    *)
(* ever come.                                                              *)
(***************************************************************************)
ListenerEnded == BeginDrain /\ result' = "serve"

Spec == Init /\ [][Next]_vars

-----------------------------------------------------------------------------
ProcessTypeOK ==
    /\ phase \in {Phases[i] : i \in DOMAIN Phases}
                   \cup {"serving", "draining", "closing", "stopped"}
    /\ pools \in {"none", "open", "closed"}
    /\ bound \subseteq Planes /\ ready \subseteq Planes
    /\ server \in [Planes -> {"none", "accepting", "draining", "aborting", "ended", "failed"}]
    /\ open \in [Planes -> 0..MaxConnections]
    /\ shutdown \in {"running", "sent", "dropped"}
    /\ maintenance \in {"none", "running", "aborted"}
    /\ worker \in [Workers -> [state : {"none", "waiting", "batch", "checking", "aborting",
                                        "ended"},
                               left : 0..(MailBatch + OtherBatch),
                               ticks : 0..MaxTicks, late : 0..MaxTicks]]

(***************************************************************************)
(* A probe answers ready only while every selected listener is bound, the  *)
(* pools are open and no drain has begun (mark_ready, mark_unready); the   *)
(* one exception is a failed signal handler, which leaves the flag as the  *)
(* process exits.                                                          *)
(***************************************************************************)
ReadyMeansServing ==
    ready # {} =>
        /\ ready = Planes
        /\ \/ phase \in {"spawn", "serving"} /\ bound = Planes /\ pools = "open"
           \/ result = "shutdown_signal"

(***************************************************************************)
(* serve_until_shutdown: a process that reports a clean exit, or a failed  *)
(* listener, closed its pools under no worker batch, no maintenance task   *)
(* and no connection but those of the listener that failed; only the       *)
(* deadline and a failed signal cut work short.                            *)
(***************************************************************************)
WorkEndsBeforePools ==
    (pools = "closed" /\ result \in {"ok", "serve"}) =>
        /\ \A p \in Planes : open[p] = 0 \/ server[p] = "failed"
        /\ \A w \in Workers : worker[w].state = "ended"
        /\ maintenance # "running"

(***************************************************************************)
(* Once the channel is set no connection is admitted by a listener that    *)
(* saw it, so that a drain only ever has fewer connections to wait for.    *)
(***************************************************************************)
DrainOnlyShrinks ==
    \A p \in Planes : server[p] = "draining" => open'[p] <= open[p]

(***************************************************************************)
(* A worker starts at most one more batch after the shutdown was sent: the *)
(* select may prefer the tick once, the head of the loop then ends it.     *)
(***************************************************************************)
OneLateBatch ==
    shutdown # "dropped" => \A w \in Workers : worker[w].late <= 1

(***************************************************************************)
(* A drain ends, even with a client that never closes its connection; and  *)
(* one listener's failure brings the whole process down rather than leave  *)
(* the other plane serving alone.                                          *)
(***************************************************************************)
ExitOpen ==
    \/ phase \in {"draining", "closing"}
    \/ phase = "serving" /\ \E p \in Planes : Over(p)
=============================================================================
