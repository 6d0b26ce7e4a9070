------------------------------- MODULE Upkeep -------------------------------
(***************************************************************************)
(* How the stores come up in a kernel and are kept: the components of      *)
(* crates/context, memory, audit, scheduler and store, their entries in    *)
(* the service registry, and the housekeeping tasks they leave running.    *)
(*                                                                         *)
(* Ids can be chosen freely, so any order that respects the declared       *)
(* requirements is the order of some deployment; Kernel models how the     *)
(* kernel picks it, and Scheduler, ContextStore, MemoryStore and           *)
(* AuditTrail what is behind each component.                               *)
(***************************************************************************)
EXTENDS UpkeepOptions, Naturals, Sequences, FiniteSets

CONSTANTS
  UpDeployments,    \* the deployments looked at: functions from ids to options
  UpMaxEvents       \* bound: decisions published

VARIABLES
  upWith,           \* the options of each component
  upOrder,          \* the order the kernel laid the components out in
  upPhase,          \* "init", "start", "up", "stop", "wait", "ok" or "timeout"
  upAt,             \* how many components have been through the phase
  upState,          \* ComponentState
  upServices,       \* per capability: who provides it
  upDefaults,       \* per capability: the default provider
  upUses,           \* per component: what it looked up
  upTasks,          \* per component: its sweep, [state, interval, retention]
  upSink,           \* the audit task: UpNone, "running" or "ended"
  upCancelled,      \* components whose scope is cancelled
  upPublished,      \* decisions published
  upFrom            \* decisions published before the audit subscribed, UpNone before that

upVars == <<upWith, upOrder, upPhase, upAt, upState, upServices, upDefaults, upUses, upTasks,
            upSink, upCancelled, upPublished, upFrom>>

Ids == DOMAIN upWith
Kind(c) == upWith[c].kind
Capabilities == {"Db", "Embedder", "ContextStore", "TokenCounter", "MemoryStore", "AuditStore",
                 "AuditRetentionSweeper", "Scheduler", "JobHandler"}
-----------------------------------------------------------------------------
\* descriptor(): what has to be registered, and to come first.
Requires(c) == {upWith[c].database, upWith[c].embedder} \ {UpNone}

\* The kernel lays every component out, once.
Layouts == {order \in [1 .. Cardinality(Ids) -> Ids] : Ids = {order[i] : i \in 1 .. Cardinality(Ids)}}

Respects(order) ==
  \A i \in DOMAIN order : Requires(order[i]) \subseteq {order[j] : j \in 1 .. i - 1}
-----------------------------------------------------------------------------
(***************************************************************************)
(* The registry.                                                           *)
(***************************************************************************)
\* provide_default() and provide() of several capabilities; the last default stands.
provides(c, capabilities) ==
  /\ upServices' = [k \in Capabilities |->
                      IF k \in capabilities THEN upServices[k] \cup {c} ELSE upServices[k]]
  /\ upDefaults' = [k \in Capabilities |->
                      IF k \in capabilities /\ upWith[c].default THEN c ELSE upDefaults[k]]

\* service_named::<Db>.
service_named(id) == IF id \in upServices["Db"] THEN id ELSE UpNone
-----------------------------------------------------------------------------
(***************************************************************************)
(* init(), one component at a time.                                        *)
(***************************************************************************)
Provided(kind) ==
  CASE kind = "db"        -> {"Db"}
    [] kind = "embedder"  -> {"Embedder"}
    [] kind = "context"   -> {"ContextStore", "TokenCounter"}
    [] kind = "memory"    -> {"MemoryStore"}
    [] kind = "audit"     -> {"AuditStore", "AuditRetentionSweeper"}
    [] kind = "scheduler" -> {"Scheduler"}
    [] kind = "jobs"      -> {"JobHandler"}

\* What init() looks up by name is there, or init() fails.
Finds(c) ==
  /\ upWith[c].database # UpNone => service_named(upWith[c].database) # UpNone
  /\ upWith[c].embedder # UpNone => upWith[c].embedder \in upServices["Embedder"]

\* The audit component subscribes here and keeps the subscriptions for start().
subscribes(c) == upFrom' = IF Kind(c) = "audit" THEN upPublished ELSE upFrom

Turn(c) == upAt < Len(upOrder) /\ c = upOrder[upAt + 1]

\* The next component, or the next phase.
Advance(next) ==
  IF upAt + 1 < Len(upOrder) THEN upAt' = upAt + 1 /\ UNCHANGED upPhase
  ELSE upAt' = 0 /\ upPhase' = next

\* rollback(): every component that was reached is stopped.
RollBack(reached) == upPhase' = "stop" /\ upAt' = Len(upOrder) - reached

init(c) ==
  /\ upPhase = "init" /\ Turn(c)
  /\ \/ /\ Finds(c)
        /\ upState' = [upState EXCEPT ![c] = "initialised"]
        /\ upUses' = [upUses EXCEPT ![c] =
                        {service_named(upWith[c].database)} \ {UpNone}]
        /\ provides(c, Provided(Kind(c)))
        /\ subscribes(c)
        /\ Advance("start")
     \/ /\ upState' = [upState EXCEPT ![c] = "failed"]
        /\ RollBack(upAt)
        /\ UNCHANGED <<upServices, upDefaults, upUses, upFrom>>
  /\ UNCHANGED <<upWith, upOrder, upTasks, upSink, upCancelled, upPublished>>
-----------------------------------------------------------------------------
(***************************************************************************)
(* start(): the tasks.                                                     *)
(***************************************************************************)
Sweep(interval, retention) == [state |-> "asleep", interval |-> interval, retention |-> retention]

\* Context: only with a retention.  Memory: always, against each record's own expiry.
start_plain(c) ==
  /\ Kind(c) \in {"context", "memory"}
  /\ upTasks' = [upTasks EXCEPT ![c] =
       IF Kind(c) = "context" /\ upWith[c].retention = UpNone THEN UpNone
       ELSE Sweep(upWith[c].interval, upWith[c].retention)]
  /\ upState' = [upState EXCEPT ![c] = "started"]
  /\ Advance("up")
  /\ UNCHANGED <<upUses, upSink>>

\* AuditSettings: a zero is refused.
refused(value) == value = 0

\* The builder wins where it was used.
settled(given, configured) == IF given # UpNone THEN given ELSE configured

\* Audit: the sink's task first; then the settings, which can still fail the start; then the
\* sweep, when there is a period at all.
start_audit(c) ==
  LET with == upWith[c]
      period == settled(with.retention, with.days)
      interval == settled(with.interval, with.seconds)
  IN  /\ Kind(c) = "audit"
      /\ upSink' = "running"
      /\ IF \/ with.retention = UpNone /\ refused(with.days)
            \/ with.interval = UpNone /\ refused(with.seconds)
         THEN /\ upState' = [upState EXCEPT ![c] = "failed"]
              /\ RollBack(Len(upOrder))
              /\ UNCHANGED upTasks
         ELSE /\ upState' = [upState EXCEPT ![c] = "started"]
              /\ upTasks' = [upTasks EXCEPT ![c] =
                   IF period = UpNone THEN UpNone
                   ELSE Sweep(settled(interval, UpDefaultInterval), period)]
              /\ Advance("up")
      /\ UNCHANGED upUses

\* Every JobHandler the kernel knows about.
handlers == upServices["JobHandler"]

\* Scheduler: the handlers registered by now, once and for all; from here on jobs may fire.
start_scheduler(c) ==
  /\ Kind(c) = "scheduler"
  /\ upUses' = [upUses EXCEPT ![c] = upUses[c] \cup handlers]
  /\ upState' = [upState EXCEPT ![c] = "started"]
  /\ Advance("up")
  /\ UNCHANGED <<upTasks, upSink>>

\* Nothing to start, or a start that fails for reasons of its own.
start_other(c) ==
  /\ \/ /\ Kind(c) \in {"db", "embedder", "jobs"}
        /\ upState' = [upState EXCEPT ![c] = "started"]
        /\ Advance("up")
     \/ /\ Kind(c) \in {"embedder", "scheduler"}
        /\ upState' = [upState EXCEPT ![c] = "failed"]
        /\ RollBack(Len(upOrder))
  /\ UNCHANGED <<upTasks, upUses, upSink>>

start(c) ==
  /\ upPhase = "start" /\ Turn(c)
  /\ start_plain(c) \/ start_audit(c) \/ start_scheduler(c) \/ start_other(c)
  /\ UNCHANGED <<upWith, upOrder, upServices, upDefaults, upCancelled, upPublished, upFrom>>

\* A job fires: its tool calls are decided and recorded, from the moment the scheduler starts.
publishes ==
  /\ upPublished < UpMaxEvents
  /\ \E c \in Ids : Kind(c) = "scheduler" /\ upState[c] = "started"
  /\ upPublished' = upPublished + 1
  /\ UNCHANGED <<upWith, upOrder, upPhase, upAt, upState, upServices, upDefaults, upUses,
                 upTasks, upSink, upCancelled, upFrom>>
-----------------------------------------------------------------------------
(***************************************************************************)
(* The sweeps, and the end.                                                *)
(***************************************************************************)
TaskOnly == UNCHANGED <<upWith, upOrder, upPhase, upAt, upState, upServices, upDefaults, upUses,
                        upCancelled, upPublished, upFrom>>

\* The interval passes; the sweep returns, well or not.
sweeps(c) ==
  /\ upTasks[c] # UpNone /\ upPhase \notin {"ok", "timeout"}
  /\ upTasks[c].state # "ended"
  /\ upTasks' = [upTasks EXCEPT ![c].state = IF upTasks[c].state = "asleep" THEN "sweeping" ELSE "asleep"]
  /\ TaskOnly /\ UNCHANGED upSink

\* A plausible slip: the token is looked at between sweeps only.
between_sweeps == {"asleep"}

\* Where a sweep's task looks at its token: asleep, and beside the sweep.
watches == {"asleep", "sweeping"}

\* Tasks::cancel() reaches a task that looks.
CanEnd(c) == upTasks[c] # UpNone /\ c \in upCancelled /\ upTasks[c].state \in watches

task_ends(c) ==
  \/ /\ CanEnd(c)
     /\ upTasks' = [upTasks EXCEPT ![c].state = "ended"]
     /\ TaskOnly /\ UNCHANGED upSink
  \/ /\ Kind(c) = "audit" /\ c \in upCancelled /\ upSink = "running"
     /\ upSink' = "ended"
     /\ TaskOnly /\ UNCHANGED upTasks

\* shutdown(): every component is stopped in reverse order, and its scope cancelled whether
\* it was running or not.
shutdown ==
  /\ upPhase = "up"
  /\ upPhase' = "stop" /\ upAt' = 0
  /\ UNCHANGED <<upWith, upOrder, upState, upServices, upDefaults, upUses, upTasks, upSink,
                 upCancelled, upPublished, upFrom>>

stop(c) ==
  /\ upPhase = "stop"
  /\ IF upAt = Len(upOrder)
     THEN c = upOrder[1] /\ upPhase' = "wait" /\ UNCHANGED <<upAt, upState, upCancelled>>
     ELSE /\ c = upOrder[Len(upOrder) - upAt]
          /\ upAt' = upAt + 1
          /\ upState' = [upState EXCEPT ![c] =
               IF @ \in {"registered", "failed"} THEN @ ELSE "stopped"]
          /\ upCancelled' = upCancelled \cup {c}
          /\ UNCHANGED upPhase
  /\ UNCHANGED <<upWith, upOrder, upServices, upDefaults, upUses, upTasks, upSink, upPublished,
                 upFrom>>

Busy(c) == upTasks[c] # UpNone /\ upTasks[c].state # "ended"

\* Tasks::shutdown(): until the last task has ended, or the timeout.  A task that can end
\* does so long before that.
waits ==
  /\ upPhase = "wait"
  /\ \/ /\ \A c \in Ids : ~Busy(c)
        /\ upSink # "running"
        /\ upPhase' = "ok"
     \/ /\ \E c \in Ids : Busy(c)
        /\ \A c \in Ids : ~CanEnd(c)
        /\ upPhase' = "timeout"
  /\ UNCHANGED <<upWith, upOrder, upAt, upState, upServices, upDefaults, upUses, upTasks,
                 upSink, upCancelled, upPublished, upFrom>>
-----------------------------------------------------------------------------
UpkeepInit ==
  /\ upWith \in UpDeployments
  /\ upOrder \in Layouts
  /\ Respects(upOrder)
  /\ upPhase = "init" /\ upAt = 0
  /\ upState = [c \in Ids |-> "registered"]
  /\ upServices = [k \in Capabilities |-> {}]
  /\ upDefaults = [k \in Capabilities |-> UpNone]
  /\ upUses = [c \in Ids |-> {}]
  /\ upTasks = [c \in Ids |-> UpNone] /\ upSink = UpNone /\ upCancelled = {}
  /\ upPublished = 0 /\ upFrom = UpNone

UpkeepNext ==
  \/ \E c \in Ids : init(c) \/ start(c) \/ sweeps(c) \/ task_ends(c) \/ stop(c)
  \/ publishes \/ shutdown \/ waits

UpkeepSpec == UpkeepInit /\ [][UpkeepNext]_upVars

\* There are finitely many components; only the audit may be left without an interval.
UpkeepConstants ==
  /\ UpDefaultInterval \notin {UpNone, 0}
  /\ \A with \in UpDeployments :
       /\ IsFiniteSet(DOMAIN with)
       /\ \A c \in DOMAIN with :
            with[c].kind # "audit" => with[c].interval # UpNone
-----------------------------------------------------------------------------
(***************************************************************************)
(* Properties.                                                             *)
(***************************************************************************)
(***************************************************************************)
(* In whatever order the components came up: what a job's firing decides   *)
(* while others are still starting is already subscribed to by the audit;  *)
(* the scheduler knows every handler of the kernel; a durable store uses   *)
(* the database it was told to use; a period pinned in code is the period  *)
(* in force and none means no sweep; a zero is in force only where code    *)
(* pinned it, which no builder refuses, and never because a file said so;  *)
(* and shutting down, or rolling back, never waits for a sweep to finish.  *)
(***************************************************************************)
UpInAnyOrder ==
  /\ \A c \in Ids :
       /\ (Kind(c) = "audit" /\ upFrom # UpNone) => upFrom = 0
       /\ (Kind(c) = "scheduler" /\ upState[c] = "started") =>
             {d \in Ids : Kind(d) = "jobs"} \subseteq upUses[c]
       /\ (upState[c] = "started" /\ upWith[c].database # UpNone) =>
             upWith[c].database \in upUses[c]
       /\ upTasks[c] # UpNone =>
             /\ Kind(c) = "memory" \/ upTasks[c].retention # UpNone
             /\ upWith[c].retention # UpNone => upTasks[c].retention = upWith[c].retention
             /\ upTasks[c].retention = 0 => upWith[c].retention = 0
             /\ upTasks[c].interval # UpNone
             /\ upTasks[c].interval = 0 => upWith[c].interval = 0
  /\ upPhase # "timeout"
=============================================================================
