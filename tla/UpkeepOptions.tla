---------------------------- MODULE UpkeepOptions ----------------------------
(***************************************************************************)
(* What the builders of the store components can say about each of them    *)
(* (component.rs of crates/context, memory, audit, scheduler and store).   *)
(***************************************************************************)
CONSTANTS
  UpNone,             \* an absent value
  UpDefaultInterval   \* DEFAULT_RETENTION_SWEEP_INTERVAL

\* Every component: its kind, and whether it is the default of what it provides.
Common(kind, default) ==
  [kind |-> kind, default |-> default, database |-> UpNone, embedder |-> UpNone,
   retention |-> UpNone, interval |-> UpDefaultInterval, days |-> UpNone, seconds |-> UpNone]

\* The Redb counterpart of a component, in the database it is told to use.
Durable(options, database) == [options EXCEPT !.database = database]

\* A retention only when the builder gives one.
ContextOptions(default, retention) == [Common("context", default) EXCEPT !.retention = retention]

MemoryOptions(default) == Common("memory", default)

\* with_embedder: records are embedded by the provider it names.
Embedding(options, embedder) == [options EXCEPT !.embedder = embedder]

\* The file's period and interval.
AuditOptions(default, days, seconds) ==
  [Common("audit", default) EXCEPT !.interval = UpNone, !.days = days, !.seconds = seconds]

\* with_retention, with_retention_interval, with_expiry_interval: a period and how often, pinned
\* in code.  No builder looks at the value.
Pinned(options, retention) == [options EXCEPT !.retention = retention]
Every(options, interval) == [options EXCEPT !.interval = interval]

SchedulerOptions(default) == Common("scheduler", default)
==============================================================================
