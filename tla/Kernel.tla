------------------------------- MODULE Kernel -------------------------------
(***************************************************************************)
(* The kernel's lifecycle: build() orders the components, start() brings   *)
(* them up or rolls back, shutdown() takes them down and waits for their   *)
(* background tasks.  start(), shutdown() and run() may be called at any   *)
(* time from several tasks; one mutex serialises them, and a caller may    *)
(* drop its future at any await.  A component's phase is one step: what    *)
(* happens meanwhile happens before or after it.                           *)
(***************************************************************************)
EXTENDS Integers, Sequences, FiniteSets

CONSTANTS
  N,         \* components are 1..N, in the order of their ids
  Absent,    \* an id no component has
  Graphs,    \* the sets of descriptors looked at: [requires, optional]
  Callers,
  Kind,      \* what each caller calls: "start", "shutdown" or "run"
  Droppable  \* may a caller drop its future?

Components == 1..N

ASSUME KernelAssumption ==
  /\ N \in Nat \ {0} /\ Absent \notin Components
  /\ Graphs \subseteq [requires : [Components -> SUBSET (Components \cup {Absent})],
                       optional : [Components -> SUBSET (Components \cup {Absent})]]
  /\ Kind \in [Callers -> {"start", "shutdown", "run"}]
  /\ Droppable \in BOOLEAN

VARIABLES
  graph,      \* the descriptors
  order,      \* Kernel::components, in the order build() laid them out
  kernel,     \* KernelState, or "rejected" if build() failed
  comp,       \* ComponentState of each component
  task,       \* components with a background task still running
  cancelled,  \* components whose task scope is cancelled
  requested,  \* has request_shutdown() been called?
  at,         \* per caller: [pc, i (component at hand), error (is there a first_error?)]
  stops,      \* history: how often each component's stop() was called
  timedOut    \* history: did a wait for the tasks run into shutdown_timeout?

vars == <<graph, order, kernel, comp, task, cancelled, requested, at, stops, timedOut>>

---------------------------------------------------------------------------
(* graph.rs: resolve_order *)

SetOf(s) == {s[i] : i \in DOMAIN s}
Least(S) == CHOOSE c \in S : \A d \in S : c <= d

\* Mutant: an optional dependency does not order.
NeedsRequired(g, c) == g.requires[c]

\* The registered components that c has to come after.
Needs(g, c) == (g.requires[c] \cup g.optional[c]) \ {Absent}

\* One round takes the least id that waits for none.
Round(g, s) ==
  LET ready == {c \in Components \ SetOf(s) : Needs(g, c) \subseteq SetOf(s)}
  IN  IF ready = {} THEN s ELSE Append(s, Least(ready))

\* The components laid out after N rounds.
Ordered(g) ==
  LET laid[k \in 0..N] == IF k = 0 THEN <<>> ELSE Round(g, laid[k - 1])
  IN  laid[N]

\* A missing required dependency, a self-dependency or a cycle fails the build.
Resolvable(g) ==
  /\ \A c \in Components : Absent \notin g.requires[c] /\ c \notin Needs(g, c)
  /\ Len(Ordered(g)) = N

---------------------------------------------------------------------------
(* kernel.rs: the callers *)

Holding == {"init", "start", "unwind", "unwait", "stop", "wait"}
Ended == {"ok", "err", "dropped"}
MutexFree == \A o \in Callers : at[o].pc \notin Holding
Goto(o, pc) == at' = [at EXCEPT ![o].pc = pc]
Visit(o, pc, i) == at' = [at EXCEPT ![o].pc = pc, ![o].i = i]

Call(o) ==
  /\ at[o].pc = "idle"
  /\ Goto(o, IF Kind[o] = "shutdown" THEN "lock_stop" ELSE "lock_start")
  /\ UNCHANGED <<graph, order, kernel, comp, task, cancelled, requested, stops, timedOut>>

EnterStart(o) ==
  /\ at[o].pc = "lock_start" /\ MutexFree
  /\ IF kernel = "created" THEN kernel' = "starting" /\ Visit(o, "init", 1)
     ELSE Goto(o, "err") /\ UNCHANGED kernel
  /\ UNCHANGED <<graph, order, comp, task, cancelled, requested, stops, timedOut>>

EnterShutdown(o) ==
  /\ at[o].pc = "lock_stop" /\ MutexFree
  /\ \/ kernel = "stopped" /\ Goto(o, "ok") /\ UNCHANGED kernel
     \/ kernel = "created" /\ Goto(o, "ok") /\ kernel' = "stopped"
     \/ kernel \notin {"stopped", "created"} /\ Visit(o, "stop", N) /\ kernel' = "stopping"
  /\ UNCHANGED <<graph, order, comp, task, cancelled, requested, stops, timedOut>>

\* start() and stop() may spawn a task in the component's scope; init() "wires the component
\* up without starting activity" (component.rs), and none of the repository's spawns one.
MaySpawn(c) == task' \in {task, task \cup {c}}

\* rollback(reached): nothing reached, nothing done.
Rollback(o, reached) ==
  IF reached = 0 THEN kernel' = "failed" /\ Goto(o, "err")
  ELSE Visit(o, "unwind", reached) /\ UNCHANGED kernel

InitPhase(o) ==
  LET i == at[o].i
      c == order[i]
  IN  /\ at[o].pc = "init"
      /\ \/ /\ comp' = [comp EXCEPT ![c] = "initialized"]
            /\ IF i < N THEN Visit(o, "init", i + 1) ELSE Visit(o, "start", 1)
            /\ UNCHANGED kernel
         \/ comp' = [comp EXCEPT ![c] = "failed"] /\ Rollback(o, i - 1)
      /\ UNCHANGED <<graph, order, task, cancelled, requested, stops, timedOut>>

\* Mutant: a failed start() unwinds only what was started.
RollbackStarted(o) == Rollback(o, at[o].i - 1)
\* Mutant: the rollback begins past the last component.
RollbackOneMore(o) == Rollback(o, N + 1)
\* A failed start() unwinds everything that was initialised.
RollbackAll(o) == Rollback(o, N)

StartPhase(o) ==
  LET i == at[o].i
      c == order[i]
  IN  /\ at[o].pc = "start"
      /\ MaySpawn(c)
      /\ \/ /\ comp' = [comp EXCEPT ![c] = "running"]
            /\ IF i < N THEN Visit(o, "start", i + 1) /\ UNCHANGED kernel
               ELSE /\ kernel' = "running"
                    /\ Goto(o, IF Kind[o] = "run" THEN "serving" ELSE "ok")
         \/ comp' = [comp EXCEPT ![c] = "failed"] /\ RollbackAll(o)
      /\ UNCHANGED <<graph, order, cancelled, requested, stops, timedOut>>

\* run() shuts down once it is asked to.
Serve(o) ==
  /\ at[o].pc = "serving" /\ requested
  /\ Goto(o, "lock_stop")
  /\ UNCHANGED <<graph, order, kernel, comp, task, cancelled, requested, stops, timedOut>>

\* Mutant: what is already stopped is stopped again.
NothingToUnwindTwice(c) == comp[c] \in {"registered", "failed"}
\* Never started, already stopped, or failed on the way.
NothingToUnwind(c) == comp[c] \in {"registered", "stopped", "failed"}

\* Mutant: a failing stop() ends the walk.
AfterStopEager(o, i, failed) ==
  IF i > 1 /\ ~failed THEN "next" ELSE "tasks"
\* Every component gets its chance to stop.
AfterStop(o, i, failed) == IF i > 1 THEN "next" ELSE "tasks"

\* stop_range, one component, then Tasks::shutdown cancels the root scope and waits.
StopPhase(o) ==
  LET i == at[o].i
      c == order[i]
      Go(failed) ==
        at' = [at EXCEPT ![o] =
                 [error |-> @.error \/ failed, i |-> i - 1,
                  pc |-> IF AfterStop(o, i, failed) = "next" THEN @.pc
                         ELSE IF @.pc = "stop" THEN "wait" ELSE "unwait"]]
  IN  /\ at[o].pc \in {"unwind", "stop"}
      /\ \/ NothingToUnwind(c) /\ Go(FALSE) /\ UNCHANGED <<comp, task, stops>>
         \/ /\ ~NothingToUnwind(c)
            /\ MaySpawn(c)
            /\ stops' = [stops EXCEPT ![c] = @ + 1]
            /\ \/ comp' = [comp EXCEPT ![c] = "stopped"] /\ Go(FALSE)
               \/ comp' = [comp EXCEPT ![c] = "failed"] /\ Go(TRUE)
      /\ cancelled' = IF at'[o].pc \in {"wait", "unwait"} THEN Components
                      ELSE cancelled \cup {c}
      /\ UNCHANGED <<graph, order, kernel, requested, timedOut>>

\* Mutant: the wait has no deadline.
MayTimeOutNever == FALSE
\* shutdown_timeout passes while a task is running.
MayTimeOut == task # {}

Waited(o) ==
  /\ at[o].pc \in {"wait", "unwait"}
  /\ \E late \in BOOLEAN :
       /\ IF late THEN MayTimeOut ELSE task = {}
       /\ timedOut' = (timedOut \/ late)
       /\ \/ /\ at[o].pc = "wait" /\ kernel' = "stopped"
             /\ Goto(o, IF at[o].error \/ late THEN "err" ELSE "ok")
          \/ at[o].pc = "unwait" /\ kernel' = "failed" /\ Goto(o, "err")
  /\ UNCHANGED <<graph, order, comp, task, cancelled, requested, stops>>

---------------------------------------------------------------------------
(* The environment *)

\* A task ends, by itself or because it saw its token.
TaskEnds(c) ==
  /\ c \in task
  /\ task' = task \ {c}
  /\ UNCHANGED <<graph, order, kernel, comp, cancelled, requested, at, stops, timedOut>>

RequestShutdown ==
  /\ ~requested /\ requested' = TRUE
  /\ UNCHANGED <<graph, order, kernel, comp, task, cancelled, at, stops, timedOut>>

\* The caller's future is dropped: the mutex is released and nothing else is undone.  The
\* phase at hand may have been entered.
Drop(o) ==
  /\ Droppable /\ at[o].pc \in Holding \cup {"serving", "lock_start", "lock_stop"}
  /\ Goto(o, "dropped")
  /\ IF at[o].pc = "start" THEN MaySpawn(order[at[o].i]) ELSE UNCHANGED task
  /\ \/ UNCHANGED stops
     \/ /\ at[o].pc \in {"unwind", "stop"} /\ ~NothingToUnwind(order[at[o].i])
        /\ stops' = [stops EXCEPT ![order[at[o].i]] = @ + 1]
  /\ UNCHANGED <<graph, order, kernel, comp, cancelled, requested, timedOut>>

---------------------------------------------------------------------------
Init ==
  /\ graph \in Graphs
  /\ order = IF Resolvable(graph) THEN Ordered(graph) ELSE <<>>
  /\ kernel = IF Resolvable(graph) THEN "created" ELSE "rejected"
  /\ comp = [c \in Components |-> "registered"]
  /\ task = {} /\ cancelled = {} /\ requested = FALSE /\ timedOut = FALSE
  /\ at = [o \in Callers |-> [pc |-> "idle", i |-> 0, error |-> FALSE]]
  /\ stops = [c \in Components |-> 0]

Steps(o) ==
  \/ EnterStart(o) \/ EnterShutdown(o) \/ InitPhase(o) \/ StartPhase(o) \/ Serve(o)
  \/ StopPhase(o) \/ Waited(o)

Next ==
  /\ kernel # "rejected"
  /\ \/ \E o \in Callers : Call(o) \/ Steps(o) \/ Drop(o)
     \/ \E c \in Components : TaskEnds(c)
     \/ RequestShutdown

Spec == Init /\ [][Next]_vars

\* Callers are polled, components' phases return and the shutdown timer fires.  Tasks need
\* not end and nobody need ask for a shutdown.
FairSpec == Spec /\ \A o \in Callers : WF_vars(kernel # "rejected" /\ Steps(o))

---------------------------------------------------------------------------
(* Properties *)

\* Every variable holds values of its kind.
TypeOK ==
  /\ graph \in Graphs
  /\ order \in Seq(Components)
  /\ kernel \in {"rejected", "created", "starting", "running", "stopping", "stopped", "failed"}
  /\ comp \in [Components -> {"registered", "initialized", "running", "stopped", "failed"}]
  /\ task \subseteq Components /\ cancelled \subseteq Components
  /\ requested \in BOOLEAN /\ timedOut \in BOOLEAN
  /\ at \in [Callers -> [pc : Holding \cup Ended \cup {"idle", "lock_start", "lock_stop", "serving"},
                         i : 0..N, error : BOOLEAN]]
  /\ stops \in [Components -> Nat]

Up(c) == comp[c] \in {"initialized", "running"}
Orders == {p \in [Components -> Components] : SetOf(p) = Components}
Before(p, c, d) == \E i, j \in Components : i < j /\ p[i] = c /\ p[j] = d
Respects(p, c, deps) == \A d \in deps \ {Absent} : Before(p, d, c)
Earlier(p, q) == \E i \in Components : p[i] < q[i] /\ \A j \in 1..(i - 1) : p[j] = q[j]

\* build() succeeds exactly when every required dependency is registered and some order
\* respects all dependencies, present optional ones included; it then lays the components
\* out in the first of those orders, so that startup is the same on every run.
OrderIsTheLeast ==
  LET legal == {p \in Orders : \A c \in Components :
                  Respects(p, c, graph.requires[c] \cup graph.optional[c])}
      missing == \E c \in Components : Absent \in graph.requires[c]
  IN  IF kernel = "rejected" THEN missing \/ legal = {}
      ELSE ~missing /\ order \in legal /\ \A p \in legal : ~Earlier(p, order)

\* A component is never running without all it depends on running, and never up after a
\* dependency was stopped: start-up, rollback and shutdown respect the graph, whoever calls
\* them and wherever a caller goes away.
DependenciesOutlive ==
  \A c \in Components : \A d \in Needs(graph, c) :
    /\ comp[c] = "running" => comp[d] = "running"
    /\ Up(c) => comp[d] \notin {"registered", "stopped"}

\* Once the kernel says Stopped or Failed no component is left up, also after a rollback,
\* a failed stop() or a dropped caller; every task left has been told to stop, and none is
\* left unless the wait for them timed out.
NothingLeftUp ==
  /\ kernel \in {"stopped", "failed"} => \A c \in Components : ~Up(c)
  /\ kernel \in {"stopped", "failed"} => task \subseteq cancelled /\ (task = {} \/ timedOut)

\* stop() is called at most once on a component, although a rollback, a shutdown() and
\* a second one may all pass over it.
StoppedOnce ==
  (\A o \in Callers : at[o].pc # "dropped") => \A c \in Components : stops[c] <= 1

\* Components come up after what they need and go down before it, once, and all of them,
\* whichever of start(), a rollback and two shutdowns meet (kernel.rs).
LifecycleInv == TypeOK /\ DependenciesOutlive /\ NothingLeftUp /\ StoppedOnce

\* shutdown() returns, even when background tasks never end and other callers hold the
\* lifecycle mutex first.
ShutdownEnds == \A o \in Callers : (at[o].pc = "lock_stop") ~> (at[o].pc \in Ended)
=============================================================================
