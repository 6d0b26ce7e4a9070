----------------------------- MODULE Scheduler -----------------------------
(***************************************************************************)
(* The job scheduler of aik-scheduler: the in-memory schedule behind an    *)
(* async mutex, its durable mirror in the shared database, the driver task *)
(* that claims due firings, and the exclusion slots of the firings in      *)
(* flight.  What one firing does between its dispatch and its end          *)
(* (attempts, retries, deadlines, events) is module JobRunner.             *)
(*                                                                         *)
(* `op' is the holder of the schedule mutex across a store write: the      *)
(* caller of schedule() or cancel(), or the driver inside claim().  Steps  *)
(* that take and release the mutex without awaiting in between are one     *)
(* action guarded by op = Free.                                            *)
(***************************************************************************)
EXTENDS Integers

CONSTANTS
  Jobs,         \* job ids
  Principals,   \* who may call the scheduler
  Delegates,    \* pairs <<p, o>>: p acts on behalf of o
  Specs,        \* job specifications callers may submit
  Window,       \* catch-up window, in clock ticks
  CronHorizon,  \* how far ahead a cron expression is searched
  HasStore,     \* is a JobStore wired (RedbSchedulerComponent)?
  EarlyCalls,   \* may schedule() and cancel() be called before start() is done?
  Abandonable,  \* may a caller's future be dropped while its store write runs?
  MaxTime, MaxGen, MaxFails, MaxEvents, EvCap,   \* bounds of the model
  MaxWait,      \* bound: longest wait for the mutex after reading the clock
  None

ASSUME SchedulerConstants ==
  /\ Window \in Nat /\ CronHorizon \in Nat /\ EvCap \in Nat /\ MaxWait \in Nat
  /\ MaxTime \in Nat /\ MaxGen \in Nat /\ MaxFails \in Nat /\ MaxEvents \in Nat
  /\ HasStore \in BOOLEAN /\ EarlyCalls \in BOOLEAN /\ Abandonable \in BOOLEAN
  /\ Delegates \subseteq Principals \X Principals
  /\ Specs \subseteq [kind : {"at", "after", "every", "cron", "event"},
                      arg : Nat, persistent : BOOLEAN, handled : BOOLEAN]
  /\ None \notin Nat \cup Jobs
  /\ None \notin [run : Nat, owner : Principals]
  /\ None \notin [gen : Nat, spec : Specs, next : Nat \cup {None}, owner : Principals]

VARIABLES
  now,        \* the kernel clock
  phase,      \* the process: "down", "init", "loading", "running", "stopping"
  schedule,   \* memory: job -> JobState, or None
  disk,       \* table sched.jobs: job -> row, or None
  loaded,     \* what store.load() returned, until recovery has used it
  op,         \* the holder of the schedule mutex, or Free
  orphans,    \* store writes whose caller was dropped, still to be applied
  drv,        \* the driver task
  wake,       \* a stored permit of the Notify
  evq,        \* matching events buffered in the driver's firehose subscription
  slot,       \* Running: job -> [run, owner], or None
  live,       \* firings whose task has not ended
  asked,      \* live runs whose cancellation token is cancelled
  fired,      \* history: every firing ever dispatched
  acked,      \* history: definitions whose cancel() returned Ok(true)
  booted,     \* history: clock and definitions known when recovery ran
  runs, gens, fails, events  \* counters: RunIds, definitions, store errors, events

vars == <<now, phase, schedule, disk, loaded, op, orphans, drv, wake, evq, slot,
          live, asked, fired, acked, booted, runs, gens, fails, events>>

---------------------------------------------------------------------------
(* state.rs: when a job runs *)

\* The first multiple of the period strictly after t, within the search horizon.
CronAfter(period, t) ==
  LET c == (t \div period + 1) * period
  IN  IF c > t + CronHorizon THEN None ELSE c

first_run(spec, t) ==
  CASE spec.kind = "at"    -> spec.arg
    [] spec.kind = "after" -> t + spec.arg
    [] spec.kind = "every" -> t + spec.arg
    [] spec.kind = "cron"  -> CronAfter(spec.arg, t)
    [] OTHER               -> None

\* Mutant: one step from the occurrence that was due, whatever the time is.
NextOccurrenceStepped(anchor, interval, t) == anchor + interval
\* Mutant: the elapsed steps are subtracted.
NextOccurrenceBackwards(anchor, interval, t) ==
  anchor - ((t - anchor) \div interval + 1) * interval

\* Anchored on the occurrence that was due, computed rather than stepped.
next_occurrence(anchor, interval, t) ==
  IF anchor > t THEN anchor
  ELSE anchor + ((t - anchor) \div interval + 1) * interval

next_run(spec, fired_for, t) ==
  CASE spec.kind = "every" -> next_occurrence(fired_for, spec.arg, t)
    [] spec.kind = "cron"  -> CronAfter(spec.arg, t)
    [] OTHER               -> None

validate(spec) ==
  /\ spec.persistent => HasStore
  /\ spec.kind \in {"every", "cron"} => spec.arg > 0

\* Mutant: no catch-up window.
RecoverAlways(e, t) == IF e.next = None \/ e.next > t THEN "pending" ELSE "overdue"

\* recover(): what a persisted job whose time may have passed should do.
recover(e, t) ==
  IF e.next = None \/ e.next > t THEN "pending"
  ELSE IF t - e.next <= Window THEN "overdue" ELSE "expired"

may_act_for(p, owner) == p = owner \/ <<p, owner>> \in Delegates

---------------------------------------------------------------------------
Free == [kind |-> "free", job |-> None, entry |-> None, run |-> None, due |-> None]

Off == [pc |-> "off", ids |-> {}, at |-> 0, copy |-> None, failed |-> FALSE,
        deadline |-> None, subscribed |-> FALSE]

NoJobs == [j \in Jobs |-> None]

IsPersistent(e) == e # None /\ e.spec.persistent
IsEventDriven(e) == e # None /\ e.spec.kind = "event"
Due(e, t) == e # None /\ ~IsEventDriven(e) /\ e.next # None /\ e.next <= t

\* The clock is read before the mutex is asked for, so it may be late when it is held.
ReadBefore == {t \in 0..now : now - t <= MaxWait}

\* schedule() refuses once the task scope is cancelled; cancel() does not.
Serving == phase = "running" \/ (EarlyCalls /\ phase \in {"init", "loading"})

\* Mutant: an id that is freed or made volatile keeps its row.
NeedsWriteNew(o) == HasStore /\ IsPersistent(o.entry)

\* The row a commit of op leaves on disk, and whether it needs a store write.
NeedsWrite(o) ==
  HasStore /\ (IsPersistent(o.entry) \/ IsPersistent(schedule[o.job]))
RowOf(e) == IF IsPersistent(e) THEN e ELSE None

\* Mutant: only the schedule is consulted.
RunSlotUnseen(j) == None
\* Mutant: the exclusion slot is not consulted.
NeverRunning(j) == FALSE
\* Mutant: the driver is not told.
NotifyNobody == UNCHANGED wake

run_slot(j) == IF slot[j] = None THEN None ELSE slot[j].run
is_running(j) == slot[j] # None
NotifyOne == wake' = TRUE

---------------------------------------------------------------------------
(* scheduler.rs: schedule() and cancel() *)

BeginSchedule(p, j, s, t) ==
  /\ Serving /\ op = Free /\ gens < MaxGen
  /\ validate(s)
  /\ schedule[j] # None => may_act_for(p, schedule[j].owner)
  /\ gens' = gens + 1
  /\ op' = [Free EXCEPT !.kind = "schedule", !.job = j,
              !.entry = [gen |-> gens + 1, spec |-> s, next |-> first_run(s, t),
                         owner |-> IF schedule[j] = None THEN p ELSE schedule[j].owner]]
  /\ UNCHANGED <<now, phase, schedule, disk, loaded, orphans, drv, wake, evq, slot,
                 live, asked, fired, acked, booted, runs, fails, events>>

BeginCancel(p, j) ==
  /\ Serving \/ phase = "stopping"
  /\ op = Free
  /\ schedule[j] # None \/ slot[j] # None
  /\ schedule[j] # None => may_act_for(p, schedule[j].owner)
  /\ slot[j] # None => may_act_for(p, slot[j].owner)
  /\ op' = [Free EXCEPT !.kind = "cancel", !.job = j,
              !.run = run_slot(j)]
  /\ UNCHANGED <<now, phase, schedule, disk, loaded, orphans, drv, wake, evq, slot,
                 live, asked, fired, acked, booted, runs, gens, fails, events>>

\* Durable first, then memory, then the wake-up.
CommitSchedule ==
  /\ op.kind = "schedule"
  /\ disk' = IF NeedsWrite(op) THEN [disk EXCEPT ![op.job] = RowOf(op.entry)] ELSE disk
  /\ schedule' = [schedule EXCEPT ![op.job] = op.entry]
  /\ op' = Free
  /\ NotifyOne
  /\ UNCHANGED <<now, phase, loaded, orphans, drv, evq, slot, live, asked, fired,
                 acked, booted, runs, gens, fails, events>>

CommitCancel ==
  /\ op.kind = "cancel"
  /\ disk' = IF NeedsWrite(op) THEN [disk EXCEPT ![op.job] = RowOf(op.entry)] ELSE disk
  /\ schedule' = [schedule EXCEPT ![op.job] = None]
  /\ asked' = asked \cup ({op.run} \cap {f.run : f \in live})
  /\ acked' = acked \cup {e.gen : e \in {schedule[op.job]} \ {None}}
                    \cup {f.gen : f \in {g \in fired : g.run = op.run}}
  /\ op' = Free
  /\ NotifyOne
  /\ UNCHANGED <<now, phase, loaded, orphans, drv, evq, slot, live, fired, booted,
                 runs, gens, fails, events>>

\* The store refused the write: nothing was changed and the caller is told so.
StoreRefuses ==
  /\ op.kind \in {"schedule", "cancel"} /\ NeedsWrite(op)
  /\ fails < MaxFails
  /\ fails' = fails + 1
  /\ op' = Free
  /\ UNCHANGED <<now, phase, schedule, disk, loaded, orphans, drv, wake, evq, slot,
                 live, asked, fired, acked, booted, runs, gens, events>>

\* The caller's future is dropped inside store.put() or store.remove(): before the
\* blocking closure was spawned, or after, and then the write still happens.
Abandon ==
  /\ Abandonable
  /\ op.kind \in {"schedule", "cancel"} /\ NeedsWrite(op)
  /\ op' = Free
  /\ orphans' \in {orphans, orphans \cup {[job |-> op.job, row |-> RowOf(op.entry)]}}
  /\ UNCHANGED <<now, phase, schedule, disk, loaded, drv, wake, evq, slot, live,
                 asked, fired, acked, booted, runs, gens, fails, events>>

OrphanLands ==
  /\ \E w \in orphans : /\ disk' = [disk EXCEPT ![w.job] = w.row]
                        /\ orphans' = orphans \ {w}
  /\ UNCHANGED <<now, phase, schedule, loaded, op, drv, wake, evq, slot, live,
                 asked, fired, acked, booted, runs, gens, fails, events>>

---------------------------------------------------------------------------
(* The process: init publishes the scheduler, start() loads and recovers. *)

Boot ==
  /\ phase = "down"
  /\ phase' = "init"
  /\ UNCHANGED <<now, schedule, disk, loaded, op, orphans, drv, wake, evq, slot,
                 live, asked, fired, acked, booted, runs, gens, fails, events>>

Load ==
  /\ phase = "init"
  /\ phase' = "loading"
  /\ loaded' = IF HasStore THEN disk ELSE NoJobs
  /\ UNCHANGED <<now, schedule, disk, op, orphans, drv, wake, evq, slot, live,
                 asked, fired, acked, booted, runs, gens, fails, events>>

\* A job scheduled since the process started wins over the row that was read.
Recoverable(j) == loaded[j] # None /\ schedule[j] = None
Recovered(j, t) ==
  IF recover(loaded[j], t) = "expired"
  THEN LET next == next_run(loaded[j].spec, loaded[j].next, t)
       IN  IF next = None THEN None ELSE [loaded[j] EXCEPT !.next = next]
  ELSE loaded[j]
Expired(t) == {j \in Jobs : Recoverable(j) /\ recover(loaded[j], t) = "expired"}

RecoverPersisted(t) ==
  /\ phase = "loading" /\ op = Free
  /\ phase' = "running"
  /\ schedule' = [j \in Jobs |-> IF Recoverable(j) THEN Recovered(j, t) ELSE schedule[j]]
  /\ disk' = [j \in Jobs |-> IF j \in Expired(t) THEN Recovered(j, t) ELSE disk[j]]
  /\ loaded' = NoJobs
  /\ drv' = [Off EXCEPT !.pc = "loop"]
  /\ booted' = [at |-> t, gens |-> gens]
  /\ UNCHANGED <<now, op, orphans, wake, evq, slot, live, asked, fired, acked,
                 runs, gens, fails, events>>

\* Everything a process forgets when it ends.
Forget ==
  /\ phase' = "down"
  /\ schedule' = NoJobs /\ loaded' = NoJobs /\ slot' = NoJobs
  /\ op' = Free /\ orphans' = {} /\ drv' = Off /\ wake' = FALSE /\ evq' = 0
  /\ live' = {} /\ asked' = {}
  /\ UNCHANGED <<now, fired, acked, booted, runs, gens, fails, events>>

\* Recovery ends part-way: a refused write fails start(), hence the kernel's start,
\* or the process dies.  The rows rewritten so far stay rewritten.
RecoveryCutShort(t) ==
  /\ phase = "loading" /\ op = Free
  /\ Expired(t) # {}
  /\ \E done \in SUBSET Expired(t) :
       disk' = [j \in Jobs |-> IF j \in done THEN Recovered(j, t) ELSE disk[j]]
  /\ Forget

Crash ==
  /\ phase # "down"
  /\ Forget
  /\ UNCHANGED disk

\* stop(): the scope's token reaches the driver and every firing.
Stop ==
  /\ phase = "running"
  /\ phase' = "stopping"
  /\ asked' = asked \cup {f.run : f \in live}
  /\ UNCHANGED <<now, schedule, disk, loaded, op, orphans, drv, wake, evq, slot,
                 live, fired, acked, booted, runs, gens, fails, events>>

\* The kernel's shutdown has waited for the task scope.
Exit ==
  /\ phase = "stopping" /\ live = {} /\ drv.pc = "off" /\ op = Free /\ orphans = {}
  /\ Forget
  /\ UNCHANGED disk

---------------------------------------------------------------------------
(* The driver: sleep, wake, fire, repeat. *)

\* horizon(): the earliest due time, and whether to be subscribed to the firehose.
Timed == {j \in Jobs : schedule[j] # None /\ ~IsEventDriven(schedule[j])
                       /\ schedule[j].next # None}
Earliest(d) ==
  IF Timed = {} THEN d = None
  ELSE /\ d \in {schedule[j].next : j \in Timed}
       /\ \A j \in Timed : d <= schedule[j].next
WantsEvents == \E j \in Jobs : IsEventDriven(schedule[j])

Horizon(d) ==
  /\ drv.pc = "loop" /\ op = Free
  /\ Earliest(d)
  /\ drv' = [Off EXCEPT !.pc = "select", !.subscribed = WantsEvents, !.deadline = d]
  /\ evq' = IF WantsEvents /\ drv.subscribed THEN evq ELSE 0
  /\ UNCHANGED <<now, phase, schedule, disk, loaded, op, orphans, wake, slot, live,
                 asked, fired, acked, booted, runs, gens, fails, events>>

WokeCancelled ==
  /\ drv.pc \in {"select", "backoff"} /\ phase = "stopping"
  /\ drv' = Off
  /\ evq' = 0
  /\ UNCHANGED <<now, phase, schedule, disk, loaded, op, orphans, wake, slot, live,
                 asked, fired, acked, booted, runs, gens, fails, events>>

WokeRescheduled ==
  /\ drv.pc = "select" /\ wake
  /\ wake' = FALSE
  /\ drv' = [drv EXCEPT !.pc = "loop", !.deadline = None]
  /\ UNCHANGED <<now, phase, schedule, disk, loaded, op, orphans, evq, slot, live,
                 asked, fired, acked, booted, runs, gens, fails, events>>

\* The timer fires; fire_due() collects what is due now.
WokeDue(t) ==
  /\ drv.pc = "select" /\ op = Free
  /\ drv.deadline # None /\ drv.deadline <= t
  /\ drv' = [drv EXCEPT !.pc = "due", !.at = t, !.deadline = None,
               !.ids = {j \in Jobs : Due(schedule[j], t)}]
  /\ UNCHANGED <<now, phase, schedule, disk, loaded, op, orphans, wake, evq, slot, live,
                 asked, fired, acked, booted, runs, gens, fails, events>>

\* An event arrives; fire_for_event() collects the jobs waiting for it.
WokeEvent(t) ==
  /\ drv.pc = "select" /\ op = Free /\ evq > 0
  /\ evq' = evq - 1
  /\ drv' = [drv EXCEPT !.pc = "event", !.at = t, !.deadline = None,
               !.ids = {j \in Jobs : IsEventDriven(schedule[j])}]
  /\ UNCHANGED <<now, phase, schedule, disk, loaded, op, orphans, wake, slot, live,
                 asked, fired, acked, booted, runs, gens, fails, events>>

\* dispatch(): claims the slot and spawns the firing, or reports a missing handler.
Dispatch(e, j, due, by) ==
  LET f == [run |-> runs + 1, job |-> j, gen |-> e.gen, due |-> due, at |-> drv.at,
            by |-> by, kind |-> e.spec.kind]
  IN  IF is_running(j) \/ ~e.spec.handled
      THEN UNCHANGED <<slot, live, asked, fired, runs>>
      ELSE /\ runs' = runs + 1
           /\ slot' = [slot EXCEPT ![j] = [run |-> f.run, owner |-> e.owner]]
           /\ live' = live \cup {f}
           /\ fired' = fired \cup {f}
           /\ asked' = IF phase = "stopping" THEN asked \cup {f.run} ELSE asked

\* Mutant: the handler runs first and the schedule is recorded later.
RecordNothing(e, advanced, j) == UNCHANGED disk

\* The durable half of claim(): the advanced schedule, or no row for a spent job.
RecordClaim(e, advanced, j) ==
  disk' = IF HasStore /\ IsPersistent(e)
          THEN [disk EXCEPT ![j] = IF advanced.next = None THEN None ELSE advanced]
          ELSE disk

\* claim(), under the mutex: gone if it is no longer due, else the advanced
\* schedule is committed to the store before anything is dispatched.
Claim(j) ==
  LET e        == schedule[j]
      advanced == [e EXCEPT !.next = next_run(e.spec, e.next, drv.at)]
      done     == [drv EXCEPT !.ids = @ \ {j}]
  IN  /\ drv.pc = "due" /\ op = Free /\ j \in drv.ids
      /\ \/ /\ ~Due(e, drv.at)
            /\ drv' = done
            /\ UNCHANGED <<op, disk, fails>>
         \/ /\ Due(e, drv.at)
            /\ drv' = done
            /\ op' = [Free EXCEPT !.kind = "claim", !.job = j, !.due = e.next, !.entry = advanced]
            /\ RecordClaim(e, advanced, j)
            /\ UNCHANGED fails
         \/ /\ Due(e, drv.at) /\ HasStore /\ IsPersistent(e) /\ fails < MaxFails
            /\ fails' = fails + 1
            /\ drv' = [done EXCEPT !.failed = TRUE]
            /\ UNCHANGED <<op, disk>>
      /\ UNCHANGED <<now, phase, schedule, loaded, orphans, wake, evq, slot, live, asked,
                     fired, acked, booted, runs, gens, events>>

\* The rest of claim(): memory follows the store, then the firing is dispatched,
\* all before the mutex is released.
FinishClaim ==
  /\ op.kind = "claim"
  /\ schedule' = [schedule EXCEPT ![op.job] =
                    IF op.entry.next = None THEN None ELSE op.entry]
  /\ Dispatch(op.entry, op.job, op.due, "time")
  /\ op' = Free
  /\ UNCHANGED <<now, phase, disk, loaded, orphans, drv, wake, evq, acked, booted,
                 gens, fails, events>>

\* One turn of fire_for_event()'s loop: the mutex is taken to copy the state ...
MarkEvent(j) ==
  /\ drv.pc = "event" /\ op = Free /\ j \in drv.ids
  /\ drv' = IF schedule[j] = None THEN [drv EXCEPT !.ids = @ \ {j}]
            ELSE [drv EXCEPT !.ids = @ \ {j}, !.pc = "marked",
                             !.copy = [job |-> j, entry |-> schedule[j]]]
  /\ UNCHANGED <<now, phase, schedule, disk, loaded, op, orphans, wake, evq, slot, live,
                 asked, fired, acked, booted, runs, gens, fails, events>>

\* ... and released before the copy is dispatched.
DispatchEvent ==
  /\ drv.pc = "marked"
  /\ Dispatch(drv.copy.entry, drv.copy.job, drv.at, "event")
  /\ drv' = [drv EXCEPT !.pc = "event", !.copy = None]
  /\ UNCHANGED <<now, phase, schedule, disk, loaded, op, orphans, wake, evq, acked,
                 booted, gens, fails, events>>

\* The pass is over; a refused claim makes the driver back off first.
PassDone ==
  /\ drv.pc \in {"due", "event"} /\ drv.ids = {} /\ op.kind # "claim"
  /\ drv' = [drv EXCEPT !.pc = IF drv.failed THEN "backoff" ELSE "loop",
                         !.at = 0, !.failed = FALSE]
  /\ UNCHANGED <<now, phase, schedule, disk, loaded, op, orphans, wake, evq, slot, live,
                 asked, fired, acked, booted, runs, gens, fails, events>>

BackoffOver ==
  /\ drv.pc = "backoff"
  /\ drv' = [drv EXCEPT !.pc = "loop"]
  /\ UNCHANGED <<now, phase, schedule, disk, loaded, op, orphans, wake, evq, slot, live,
                 asked, fired, acked, booted, runs, gens, fails, events>>

---------------------------------------------------------------------------
(* The firings, the clock and the bus. *)

\* A firing's task ends, however it ends: RunGuard's drop releases the slot only
\* if it is still this firing's.
RunEnds(f) ==
  /\ f \in live
  /\ live' = live \ {f}
  /\ slot' = IF slot[f.job] # None /\ slot[f.job].run = f.run
             THEN [slot EXCEPT ![f.job] = None] ELSE slot
  /\ asked' = asked \ {f.run}
  /\ UNCHANGED <<now, phase, schedule, disk, loaded, op, orphans, drv, wake, evq, fired,
                 acked, booted, runs, gens, fails, events>>

Tick ==
  /\ now < MaxTime
  /\ now' = now + 1
  /\ UNCHANGED <<phase, schedule, disk, loaded, op, orphans, drv, wake, evq, slot, live,
                 asked, fired, acked, booted, runs, gens, fails, events>>

\* An event is published: buffered if the driver is subscribed, the oldest dropped
\* when the subscription lags.
Publish ==
  /\ events < MaxEvents /\ drv.pc # "off"
  /\ events' = events + 1
  /\ evq' = IF drv.subscribed /\ evq < EvCap THEN evq + 1 ELSE evq
  /\ UNCHANGED <<now, phase, schedule, disk, loaded, op, orphans, drv, wake, slot, live,
                 asked, fired, acked, booted, runs, gens, fails>>

---------------------------------------------------------------------------
Init ==
  /\ now = 0 /\ phase = "down"
  /\ schedule = NoJobs /\ disk = NoJobs /\ loaded = NoJobs /\ slot = NoJobs
  /\ op = Free /\ orphans = {} /\ drv = Off /\ wake = FALSE /\ evq = 0
  /\ live = {} /\ asked = {} /\ fired = {} /\ acked = {}
  /\ booted = [at |-> 0, gens |-> 0]
  /\ runs = 0 /\ gens = 0 /\ fails = 0 /\ events = 0

Callers ==
  \/ \E p \in Principals, j \in Jobs, s \in Specs , t \in ReadBefore : BeginSchedule(p, j, s, t)
  \/ \E p \in Principals, j \in Jobs : BeginCancel(p, j)

Commits == CommitSchedule \/ CommitCancel \/ StoreRefuses \/ Abandon

Process ==
  \/ Boot \/ Load \/ Crash \/ Stop \/ Exit
  \/ \E t \in ReadBefore : RecoverPersisted(t) \/ RecoveryCutShort(t)

Driver ==
  \/ (\E d \in {schedule[j].next : j \in Timed} \cup {None} : Horizon(d))
  \/ WokeCancelled \/ WokeRescheduled
  \/ (\E t \in ReadBefore : WokeDue(t) \/ WokeEvent(t))
  \/ (\E j \in Jobs : Claim(j)) \/ FinishClaim
  \/ (\E j \in Jobs : MarkEvent(j)) \/ DispatchEvent \/ PassDone \/ BackoffOver

Environment == OrphanLands \/ (\E f \in live : RunEnds(f)) \/ Tick \/ Publish

Next == Callers \/ Commits \/ Process \/ Driver \/ Environment

Spec == Init /\ [][Next]_vars

\* tokio runs every ready task, its Mutex is a FIFO queue, and select! without
\* `biased' picks among its ready branches at random, so neither the driver nor its
\* timer branch is passed over for ever.  Callers, crashes, events and the end of a
\* handler are not assumed to happen.
TimerBranch == \E t \in ReadBefore : WokeDue(t)
FairSpec ==
  Spec /\ SF_vars(Driver) /\ SF_vars(TimerBranch) /\ WF_vars(Commits)

---------------------------------------------------------------------------
(* Properties *)

Entry == [gen : Nat, spec : {s \in Specs : validate(s)}, next : Nat \cup {None},
          owner : Principals]
Table == [Jobs -> Entry \cup {None}]
Firing == [run : Nat, job : Jobs, gen : Nat, due : Nat, at : Nat,
           by : {"time", "event"}, kind : {"at", "after", "every", "cron", "event"}]

TablesTyped == schedule \in Table /\ disk \in Table /\ loaded \in Table
MutexTyped ==
  /\ \/ op = Free
     \/ op \in [kind : {"schedule"}, job : Jobs, entry : Entry, run : {None}, due : {None}]
     \/ op \in [kind : {"cancel"}, job : Jobs, entry : {None}, run : Nat \cup {None}, due : {None}]
     \/ op \in [kind : {"claim"}, job : Jobs, entry : Entry, run : {None}, due : Nat]
  /\ orphans \subseteq [job : Jobs, row : Entry \cup {None}]
DriverState ==
  [pc : {"off", "loop", "select", "due", "event", "marked", "backoff"},
   ids : SUBSET Jobs, at : Nat, failed : BOOLEAN, subscribed : BOOLEAN,
   copy : [job : Jobs, entry : Entry] \cup {None}, deadline : Nat \cup {None}]
DriverTyped ==
  /\ drv \in DriverState
  /\ drv.pc = "marked" => drv.copy \in [job : Jobs, entry : Entry]
  /\ wake \in BOOLEAN /\ evq \in Nat
FiringsTyped ==
  /\ slot \in [Jobs -> [run : Nat, owner : Principals] \cup {None}]
  /\ live \subseteq Firing /\ fired \subseteq Firing
  /\ asked \subseteq Nat /\ acked \subseteq Nat
ProcessTyped ==
  /\ now \in Nat
  /\ phase \in {"down", "init", "loading", "running", "stopping"}
  /\ booted \in [at : Nat, gens : Nat]
  /\ runs \in Nat /\ gens \in Nat /\ fails \in Nat /\ events \in Nat

\* Every variable holds values of its kind; the mutex holder carries what its kind
\* of write needs.
TypeOK == TablesTyped /\ MutexTyped /\ DriverTyped /\ FiringsTyped /\ ProcessTyped

\* A job never runs twice at the same time: every live firing holds its job's slot,
\* whoever dispatched it (claim(), fire_for_event()) and however its definition was
\* replaced or cancelled meanwhile.
Exclusion == \A f \in live : slot[f.job] # None /\ slot[f.job].run = f.run

\* claim() commits the advanced schedule before it dispatches, so no occurrence of a
\* definition is dispatched twice, across crashes, restarts, refused store writes and
\* recovery.
AtMostOnce ==
  \A f, g \in fired :
    f.by = "time" /\ g.by = "time" /\ f.gen = g.gen /\ f.due = g.due => f = g

\* A periodic job that fell behind is not handed its backlog: next_run() puts the next
\* occurrence after the moment the previous one was claimed.
NoBacklog ==
  \A f, g \in fired :
    f.by = "time" /\ g.by = "time" /\ f.gen = g.gen /\ f.due < g.due => g.due > f.at

\* recover(): an occurrence that was already older than the catch-up window when the
\* process came back is never run by that process.
StaleNeverRuns ==
  [][\A f \in fired' \ fired :
       f.by = "time" /\ f.gen <= booted.gens => f.due + Window >= booted.at]_vars

\* cancel() returned Ok(true) for a definition: no timed occurrence of it is dispatched
\* any more, by this process or after a restart.
CancelledStaysCancelled ==
  [][\A f \in fired' \ fired : f.by = "time" => f.gen \notin acked]_vars

\* The same for a timed firing already in flight: it has been asked to stop.
CancelReachesFiring ==
  \A f \in live : f.by = "time" /\ f.gen \in acked => f.run \in asked

\* The schedule in memory and the table on disk agree whenever the mutex is free.
Mirror ==
  phase \in {"running", "stopping"} /\ op = Free
    => \A j \in Jobs : disk[j] = RowOf(schedule[j])

\* What was dispatched, what is in memory and what is on disk tell one story: no occurrence
\* twice and no backlog, cancelled firings asked to stop, and the two tables equal, through
\* claims, crashes and refused writes (scheduler.rs claim(), cancel(), schedule()).
TableIsHonest == AtMostOnce /\ NoBacklog /\ CancelReachesFiring /\ Mirror

\* A timed job that is due is claimed (or replaced, or cancelled) while the process
\* runs: no wake-up is lost between horizon() and the select.
DueIsClaimed ==
  \A j \in Jobs :
    (phase = "running" /\ Due(schedule[j], now))
      ~> (phase # "running" \/ ~Due(schedule[j], now))

\* The contract of Scheduler::cancel for every trigger: it "stops future firings".
CancelStopsFutureFirings ==
  [][\A f \in fired' \ fired : f.gen \notin acked]_vars
============================================================================
