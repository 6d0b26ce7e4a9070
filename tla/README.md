# A TLA+ verification of AI-kernel

This directory holds TLA+ modules that model the parts of AI-kernel in which order, failure and
concurrency matter, or in which what is computed decides what is allowed; TLC configurations that
check them on small instances; and TLAPS proofs of the central invariants of the scheduler, the
job runner, the approval broker, the tool gate, the kernel, the agent loop, the context store and
of twelve services around them, for instances of every size. `PROJECT.json` is the index:
components, runs, hazards, the map from definitions to source lines, findings and theorems.

- [The system](#the-system)
- [Modules and how they correspond to the code](#modules-and-how-they-correspond-to-the-code)
- [Runs](#runs)
- [Bounds](#bounds)
- [Fairness](#fairness)
- [Findings](#findings)
- [Proofs](#proofs)
- [What is not modelled](#what-is-not-modelled)
- [Plan](#plan)

Model-check a run with `tlc -config MCScheduler_durable.cfg MCScheduler` (any pair of the table
below); check the proofs with `tlapm M.tla` for `Induction` and each module `*Proofs`.

## The system

AI-kernel is a Rust workspace: a small kernel (`aik-core`) that brings components up and down,
contracts (`aik-api`), and one crate per subsystem. Everything runs on tokio tasks in one
process; state shared between tasks is behind short synchronous locks or async mutexes, durable
state is in one redb database. A future may be dropped at any `await`, which is the system's
ordinary form of abandonment; each module says at which awaits of its own it follows that.

| Component | State | Operations | What is hard | What makes it correct |
|---|---|---|---|---|
| Kernel lifecycle (`core`) | kernel state, component states, order, task scopes, lifecycle mutex | `build`, `start`, `shutdown`, `run`, `request_shutdown`, `spawn` | concurrent callers, the n-th phase failing, dropped callers, tasks that never end | dependencies outlive dependents; nothing is left up; each component is stopped once; shutdown returns |
| Event bus, registry, config (`core`) | broadcast channels; a map of services | `publish`, `subscribe`, `resolve` | a slow subscriber loses the oldest events | seen through the scheduler's subscription |
| Job scheduler (`scheduler`) | schedule in memory behind an async mutex, its mirror on disk, exclusion slots, the driver's position, a wake-up permit | `schedule`, `cancel`, recovery, driver loop, claim, event firings | store write between check and memory update, crashes between any two steps, stale id lists, lost wake-ups, late occurrences | no overlap, at most once, no backlog, memory and disk agree, a cancelled job stays cancelled, a due job is claimed |
| Job runner (`scheduler/runner.rs`) | attempt number, run token, published events | attempts, deadline, backoff, cancellation | cancel against deadline against completion; doubling backoff at the integer's width | every retry announced, one last word, no attempt after a cancel, a timed firing ends |
| Approval broker (`approval`) | waiting questions, one-shot channels, attached gates, `closed` | `request_approval`, `approve`, `deny`, attach, detach, `close` | two frontends, expiry against answer, close against enqueue, dropped requests | only a human's yes is a grant; no orphaned question; the bound; one acknowledged answer |
| Tool registry and trust ledger (`tools`) | tools, tainted scopes, audit decisions | `invoke`: policy, approvals, trust, discovered resources, output | a taint arriving while another call waits; a full ledger; a failing service midway | a tool runs only after a yes to every question; taint is never forgotten |
| Agent loop (`agent`) | pending and running calls, counters, transcript | `prepare`, `turn`, `announce`, `call_tool`, `abandon_outstanding_calls` | stopping between an assistant turn and its results; services failing midway | the transcript can always be resumed; limits hold; a stopped run ends |
| Quota guard and ledgers (`quota`) | (principal, window) counters | `check`, `record`, pruning | check and charge separated by a whole turn; charges from a closed window | bounded overshoot; the open window is complete |
| Resilience (`resilience`) | circuit, failure count, slots | `complete` with retries, backoff, queueing | probes, late failures, dropped calls, exhausted slots | breaker and slots reflect what the service did |
| Context store (`context`) | five tables: headers, records, their ids, two indexes; the in-memory store's map | append, window, clear, compact, sweep, reopening | times committed out of order; the sweep releases the writer between batches; files from before the indexes | the tables agree, a sweep misses nothing, the durable store behaves as the in-memory one |
| Summariser (`summary`) | what a round has read so far | list, plan, write, recap, count, reclaim | each is a call of its own: turns arrive in between | no turn is removed that no recap covers (it is, see Findings), and never more than what raced the round |
| Policy engine (`policy`) | none once built | parse, validate, evaluate | patterns that match more than they say, absent fields | a decision follows from what the request says |
| Memory (`memory`) | record table, three indexes | put, get, delete, query, sweep, four tools | the embedding precedes the queue for the writer; batches | every index answers as a scan would; provenance is kept |
| Audit (`audit`) | two event buffers, the sink, records, three indexes | publish, drain, write, query, sweep | overflow, failed writes, a crash with events buffered | what is missing is accounted for |
| Usage ledgers (`quota`) | rows by subject, period, window | `check`, `record`, `status`, prune | one write per subject and period | the latest window is what was charged |
| Tool servers (`mcp`) | session, waiting callers, child process, catalogue | handshake, list, call, read loop, stop | late, repeated and misdirected answers; dropped callers; exits | one's own answer or none; no stray process |
| Host (`daemon`, `ipc`) | socket, token, connections, calls, outbound queue | bind, accept, hello, calls, approvals, drain | stale sockets, two hosts, a client that stops reading | socket and token belong together; an answer is the last word; what is gone is gone |
| Processes, files, network (`exec`, `fs`, `net`) | one call each | run, read, write, list, fetch | trees that change, pipes held by grandchildren, names that change address | nothing left behind; only below the root; only where authorised |
| Model providers (`openai`, `anthropic`, `ollama`) | one stream | request, chunks, last word | lines split anywhere, calls in fragments, connections cut | a call arrives whole or not at all |
| Terminals (`cli`) | mode, question, position in the stream, totals, recorder | prompt, commands, Ctrl-C, approvals | interrupts inside a read; a bus that overflows | the two ends agree on what is under way; a turn is accounted for |
| Runtime, store (`runtime`, `store`) | none: a deployment is a value; the file's version | load, resolve, assemble, migrate | options, files and environment disagree; components in any order | what is wired is what was said; upgrades compose |

How they interact: the runtime wires components into the kernel, which orders them by their
declared dependencies. The scheduler dispatches firings to handlers, some of which start agent
runs. An agent run calls the model through the resilient provider, asks the quota guard before
and tells it after each turn, and calls tools only through the registry; the registry asks the
policy engine and, through the approval broker, a human at a frontend. Frontends are a terminal
with a kernel of its own, or clients of a host process over a socket. Transcripts, memories, jobs,
usage and the audit trail share one database, each in tables of its own.

## Modules and how they correspond to the code

Each action names the handler it models; `PROJECT.json` `map` gives its lines. Operators whose
comment calls them a *mutant* or a *slip* are plausible bugs: replacing the definition that
follows by them makes a property of the module fail, which shows that the property depends on
that definition. `PROJECT.json` lists one for each property of each passing run.

**Scheduler** - `scheduler.rs`, `state.rs`, `persistent.rs`, `component.rs`, `owner.rs`. `schedule`
is the map behind the async mutex, `disk` the table, `op` whoever holds the mutex across a store
write (a caller, or the driver inside `claim`). `BeginSchedule`/`BeginCancel` are the calls up to
the write, `CommitSchedule`/`CommitCancel`/`FinishClaim` the rest, `StoreRefuses` the error path,
`Abandon`/`OrphanLands` a caller dropped while `spawn_blocking` runs. `Woke*`, `Claim`,
`MarkEvent`, `DispatchEvent`, `PassDone` and `BackoffOver` are the driver. `Boot`, `Load`,
`RecoverPersisted`, `Forget`, `RecoveryCutShort`, `Crash`, `Stop` and `Exit` are the process.
Simplifications: `last_run` is left out (the mirror property is about specification, next
occurrence and owner); a cron expression is a period with the search horizon of
`next_after`; `schedule()`'s cancellation check is made when the mutex is taken; ids are chosen by
callers. The claims of one pass are made in any order, as the map's iteration is arbitrary.

**JobRunner** - `runner.rs` and `RetryPolicy::delay_before`. One firing under one policy. `token`
is the run's cancellation token, `context` the attempt's child of it. The shift and the checked
multiplication of the backoff keep their width (`Width`) and the longest duration
(`MaxDuration`). A handler that reports an error it swallowed is a success to the runner, and is
one here.

**ApprovalBroker** - `broker.rs`, `gate.rs`. `waiting` is the map, `chan` each question's one-shot
channel, `hand` what a frontend took out and has yet to send: taking the waiter and sending the
verdict are two steps, as in the code. The stream of notifications is a hint beside the map and
is left out.

**ToolGate** - `registry.rs`, `trust.rs`, extending ApprovalBroker. A call walks through one
question per permission and planned resource, the trust question, the run, and resources discovered
while running (`Tool[c].n` questions before the trust question, `Tool[c].last` in all, any numbers
up to `MaxQuestion`; a file write and a fetch ask for a permission and a resource). `setup` is the
deployment (enforcement, whether an approval sink is wired, the ledger's capacity). Cancelling is
per question, which allows more than the code does.

**Kernel** - `kernel.rs`, `graph.rs`, `task.rs`, `context.rs`. `at` is the position of each caller
of `start`, `shutdown` or `run`. A phase of a component is one step that succeeds or fails.
Tasks are spawned by `start` and `stop` only: `init` "wires the component up without starting
activity", and no component of the repository spawns one there.

**Resilience** - `provider.rs`, `breaker.rs`, `limit.rs`, `backoff.rs`. One call per client through
admission, queue, attempt and sleep. Time is two facts: the cooldown of the open circuit has
elapsed, a client's deadline has passed. The semaphore's first-come order is not kept: any
waiter may get a free slot. `complete()` only: the loop never streams.

**AgentRun** - `run.rs`, `agent.rs`, `guard.rs`, `ledger.rs`, `persistent.rs`, `summariser.rs`,
extending Resilience. `run` is one `Run` per caller, with its transcript reduced to the tool calls
recorded (`asked`) and the results recorded (`answers`). `ledger` has one counter per principal and
window; `check` and `record` read and write one row at a time, because the ledger is awaited between
them (QuotaLedger has the rules, prices and both ledgers). A round of compaction is a model call
whose outcome keeps compaction on, turns it off or stops the run; whether a window drops records is
left open. `Prepare` goes on into the first turn without consulting `guard` again, as `step()` does.

**SessionLog** - `context/src/store.rs`, `session.rs`, the in-memory store: sessions with owner,
totals and records in append order, one atomic step per operation. It is the abstract specification
of a context store.

**ContextStore** - `persistent.rs`, `retention.rs`, `component.rs`. The five tables (`sessions`, `records`,
`record_ids`, `by_owner`, `by_updated`); `call` is an append between
reading its clock and its transaction, `sweep` a sweep between its cutoff and its last batch.
`StoreCrash` loses both and no row; `Open` reconciles the indexes, also of a file that has none.
redb's transactions are atomic (external).

**Window**, **Plan** - `window.rs`, `tokens.rs`, `plan.rs`: pure operators for what a model is shown under a
budget and what a round summarises. A record is one message of one part.

**Summariser** - `summariser.rs`, extending the above: a round is `RoundList`, `RoundPlan` (once
for each record listed, and the plan after the last), `RoundWrite`, `RoundRecap`, `RoundCount`,
`RoundReclaim`, one per call to the store or the model.
`ImplementsSessionLog` maps the five tables back to SessionLog's `log`.

**AuditTrail** - `audit/src/sink.rs`, `persistent.rs`, `store.rs`, `retention.rs`. `au_stream` is
the two bounded buffers, `au_sink` the task, `au_records` and three index variables the tables. A
query is answered through the index its fields choose, a range of which is collected newest first;
`query_scan` is what a scan of the whole trail finds, `query_newest` the part of it a limit leaves:
for an operation or a principal in the order written, which is the in-memory store's, otherwise in
the order of the timestamps. `au_unwritten` and `au_lost` are history: events whose append failed,
and events that were in the memory of a process that crashed.

**MemoryStore** - `memory/src/persistent.rs`, `tools/`. A put embeds first and queues afterwards; a
similarity is a small whole number, in the order the real one would have. What an index finds is a
set of hits, each a position in the scan with the record's id; an answer is the sequence of their
ids, sorted as `rank` does and cut at the limit. `mo_heard` and `mo_washed` are history: the
conversations this process handed an untrusted source's words, and those an earlier one did. The
trust ledger loses the taint with the process (`tools/src/trust.rs`) while the transcript keeps the
words, so a washed conversation writes them as trusted.

**Dialects**, **ProviderStream** - the three providers' `protocol.rs`, `settings.rs`, `stream.rs`. Dialects is
pure: a transcript to a request, an answer to calls, settings to a key. ProviderStream reads one
scripted server: lines are several pieces on the wire, delivered in any grouping. A fragment without an
index, and arguments over the limit (`PsMaxInput`), fail the stream as in the code.

**McpClient** - `session.rs`, `client.rs`, `process.rs`, `catalog.rs`, `protocol.rs`. Callers
register an id, write, and wait for what the read loop routes to that id; the server may answer
anything, to anybody, or exit. A frame is what `classify` makes of it: a response, a request of
the server's own, a notification, or nothing that can be routed.

**HostEndpoint** - `ipc` `listener.rs`, `endpoint.rs`, `credentials.rs` and the order
`daemon/src/lib.rs` uses them in, with hosts that crash and start again. `clear_stale_socket`,
`probe_socket` and `remove_stale` are the look, the connection that `classify()` judges (refused,
not found, anything else) and the removal by path. The database lock (external) keeps hosts apart.

**HostConnection** - `daemon` `server.rs`, `connection.rs`, `host.rs`: reader, call tasks, pump, forwarder of
approvals and writer of a connection, with the bounds of each queue.

**Deployment** - `args.rs`, `settings.rs`, `wiring.rs`, `config.rs`, `registry.rs`,
`schedule_tools.rs`, `jobs.rs` and `crates/store`: pure, from what was typed to what is wired, and
from a file to its upgraded form.

**FileTools**, **ProcessRun**, **WebFetch** - `fs`, `exec`, `net`: one or two calls against an
outside that moves: other processes that rename, link and unlink, a child that forks and closes
pipes as it likes, a name service that changes its answers. What the operating system does is marked
external. In FileTools a byte is told by who wrote it, a write may be partial or fail, and two
writers may share a file; `ftNamed`, `ftRooted` and `ftLone` are history: which names files have
had, which directories were under the root, and which files a writer had open while they had one
name, which is what a verified handle can vouch for. ProcessRun has the drop of `run()`'s future,
where only `kill_on_drop` acts. In WebFetch a literal address is judged by the check before the
request alone, a name again at the connection; a body may be markup, whose text has a limit of its
own.

**PolicyRules**, **QuotaLedger** - `policy`, `quota`. A text is a sequence of segments, the unit a prefix
pattern can cut. Periods have lengths in ticks. The ledger is a sparse table, as in the code: a row that
is absent reads as empty (`usage`), and a write drops the rows of its period before its own window.
`quStarted` and `quCharged` are history: what charges began to write, and what they wrote in full.

**ClientSession**, **LocalSession** - `cli/src/client.rs`, `session.rs`, `recorder.rs`. A frame
travels as prefix and body, so that Ctrl-C can fall between them. A channel of the bus is a count of
events.

**UpkeepOptions**, **Upkeep** - the `component.rs` of the stores: what the builders say, and how the
components come up in any order their requirements allow, register, and leave tasks running.

The `MC*` modules give constants their values. **MCServices** is the composite of the services
around the agent loop. In the program they share nothing below what the other runs compose, so
it explores each alone: `focus` names the service that takes steps. The twelve services theorems are
stated of are extended, so that the run and the proofs speak of the same definitions, and rest in one
initial state while another is in focus; the broker and the provider stream are laid on the slots
`s1` to `s10`. The focus `values` has no steps, each initial state being one input of the pure
operators. An invariant of an extended service is checked in every state; that of a service at rest
says nothing new there.

The theorems about a module are in the module named after it with `Proofs`. ToolGateProofs is about
ToolGate, ApprovalBroker and AuditTrail, AgentRunProofs about AgentRun and Resilience,
ContextStoreProofs about ContextStore and Summariser, and ServiceProofs about HostEndpoint,
WebFetch, ProcessRun, ClientSession, LocalSession, McpClient, HostConnection, FileTools, Upkeep,
QuotaLedger and MemoryStore. **Induction** has what they share: induction over numbers and finite
sets, and the arithmetic of sums over finite sets.

## Runs

Every property is stated and commented in its module.

| Run | Module, configuration | Checks | Shows |
|---|---|---|---|
| `sched_durable` | MCScheduler, `_durable` | `TypeOK` `TableIsHonest` `StaleNeverRuns` `CancelledStaysCancelled` | a periodic job and a reminder, both durable, replaced and cancelled while the driver claims them; one refused write, crashes at any step, restarts |
| `sched_mixed` | MCScheduler, `_mixed` | `Exclusion` `AtMostOnce` `DueIsClaimed` | cron, event and unhandled jobs, calls before recovery is over, callers dropped inside a write; no wake-up is lost |
| `sched_cancel` | MCScheduler, `_cancel` | `CancelStopsFutureFirings` | **violated**, see Findings |
| `runner` | MCJobRunner | `RunnerInv` `NoAttemptAfterCancel` `TimedFiringEnds` | every small retry policy; handlers that return, fail, panic or hang; cancellation and teardown anywhere |
| `toolgate` | MCToolGate | `GateInv` `TaintIsRemembered` `AnswersAreHuman` `QuestionsEnd` | two calls of one conversation composed with the broker, under each enforcement and a full ledger |
| `kernel` | MCKernel | `OrderIsTheLeast` `LifecycleInv` `ShutdownEnds` | every dependency graph of a family with chains, forks, cycles, absent and optional dependencies; `run()` against `shutdown()` |
| `agent` | MCAgentRun | `AgentInv` `BreakerAndSlotsHonest` `OvershootBounded` `StoppedRunEnds` | two runs sharing one provider slot and one principal's budget, with retries, compaction, closing windows, failing services, cancellation, deadlines, dropped streams |
| `context` | MCSummariser | `TablesAgree` `SweepLeavesNothingDue` `LossIsBounded` `ImplementsSessionLog` | a writer, clears, a sweep in batches and two rounds of compaction over the durable store, crashes, reopened files |
| `context_reclaim` | MCSummariser, `_reclaim` | `NothingLostUnsummarised` | **violated**, see Findings |
| `services` | MCServices | one invariant per service, below | each service on its own instance |
| `stream_ids` | MCServices, `_ids` | `CallIdsUnique` | **violated**, see Findings |
| `client_interrupt` | MCServices, `_interrupt` | `FramesReadWhole` | **violated**, see Findings |

`TableIsHonest` is the conjunction of `AtMostOnce`, `NoBacklog`, `CancelReachesFiring` and `Mirror`;
`RunnerInv` of the runner's types, `RetriesAreAnnounced`, `LastWord`, `CancelledOnlyWhenAsked` and
`BackoffGrowsToItsCap`; `GateInv` of types, `RunsOnlyIfAllowed` and `TaintedCallsAreGated`; `LifecycleInv`
of types, `DependenciesOutlive`, `NothingLeftUp` and `StoppedOnce`; `AgentInv` of types,
`TranscriptClosed` and `LiveWindowComplete`. Each conjunct is stated and commented by itself.

| Invariant of `services` | Service | Says |
|---|---|---|
| `AuditIsComplete` | audit | every decision is recorded, on its way, counted in a gap, a failure or a sweep, or went with a process that crashed; each index gives the newest of what a scan finds |
| `MemoryIsHonest` | memory | the indexes answer as a scan does; what a tainted conversation writes is marked for good, and a recall taints, until the process that heard it ends |
| `CallsArriveWhole` | stream, broker | calls reach the agent whole, in order, before one last word; of two frontends answering at once one is told it answered, and the asker gets that answer |
| `CallersAreServed` | mcp | own answer or a reason; no process without an owner; a listing within its bounds |
| `TokenOpensItsHost` | endpoint | a client that got in reached the host whose token it read; a live host is not cut off |
| `ConnectionEndsClean` | connection | nothing follows an answer; a connection that is over has no gate, call or task |
| `FilesStayPut` | files | whatever moves, only files named below the root are read or changed, and none that had two names all along; a lone writer leaves a beginning when it fails, everything when it succeeds |
| `RunLeavesNothing` | process | a command cut short leaves nobody on its pipes, a dropped one no child; every byte is shown or counted |
| `ReachesOnlyWhatWasAsked` | fetch | every connection goes to a permitted address for an authorised URL; what an answer leaves out it says |
| `SpendIsRemembered` | quota | the latest window's row is what was charged, through failures and restarts |
| `TurnsDoNotOverlap` | client | when the person can type again the host is done with what was typed; it works on the one turn that is waited for |
| `TurnIsAccounted` | local | what a turn published is in its totals and its recording |
| `UpInAnyOrder` | upkeep | the same services and defaults whatever the order; the periods given are in force; shutdown waits for no sweep |
| `ConversionsKeepMeaning` | values | truncation, requests, embeddings, flattened results, command lines |
| `DecisionsFollowTheirInputs` | values | windows, plans, keys, deployments, upgrades, jobs, policy, addresses |

`StoppedOnce` is claimed for callers that are not dropped: a `stop()` whose future is dropped
halfway is called again by the next `shutdown()`, which the kernel cannot avoid. `Mirror` is
claimed when no caller is dropped inside a write, and whenever nobody holds the mutex: its holder
is between the two halves of an update. `TranscriptClosed` excepts a run whose store refused a result ("best
effort on purpose", `run.rs`) and one whose stream was dropped.

Two more configurations refute a documented statement each and can be run by hand:
`MCJobRunner_outcomes.cfg` (`OneOutcomePerAttempt`) and `MCAgentRun_budget.cfg` (`ExhaustedCostsNothing`).

Deadlock checking is off except in `context`: all these systems may stop (a process that exits, a run
that ends), and what must not stop is a liveness property instead.

## Bounds

A bound is a constant named in the module. One job id suffices for the scheduler's exclusion,
at-most-once and mirror properties because jobs share only the mutex, the driver and the wake-up
permit, all of which two definitions of one id (`MaxGen = 2`) contend for too; three ticks
(`MaxTime`) with a window of one put an occurrence inside, at and past the catch-up window. One
refused write (`MaxFails`) is enough to refuse each kind of write. `MaxWait` lets the mutex be
taken one tick after the clock was read. `EvCap = 1` fills the event buffer at the first event.

The runner's five attempts reach the backoff's ceiling, the three-bit width and the longest
duration. One question fills the broker and the second meets the limit; two frontends answer at
once. The tool gate needs one call that taints and one that writes, with two questions before the
trust question and one after it (`MaxQuestion = 4`). Three components give every shape of graph up
to a join. Two runs are the fewest that overshoot, race for one slot and open a circuit at two
failures; with replies of two tool calls the first run (two turns, three calls) is stopped by its
calls with one of them outstanding and the second (one turn) by its turns; the second window makes a
charge arrive late. `Settings` holds two deployments: one that compacts, and one with a tight budget
that outlives a quota window.

In `context`, four records fill a session, a batch of one makes every sweep take several, and three
ticks put sessions before, at and after the cutoff. The sessions are symmetric, and so are the two
rounds: they differ in nothing, and all that is checked is safety. `Narrow` keeps rounds and sweeps
apart and lets a round run only while one session is in use, and two rounds only between two ticks,
and lets the delegate write before the first tick only: a round touches the session it reads, a
sweep is already interleaved with the same writes, and everything together is beyond five minutes.
One budget is enough, because what a round plans under each budget is checked in the focus `values`
of `services`.

In `services`, each instance holds the fewest values at which its queue, buffer or limit is met: one
event fills the audit buffer and the second overflows it, one record makes a memory sweep take two
batches, one outbound frame fills a connection's queue, two pieces fill a pipe, one redirect is
followed and the second refused. Three hosts are one that crashes, one that finds its socket and one
that races it. Two moves of the tree are enough to exchange a directory for a link and back between
any two steps of a tool; the eight trees are those in which the file asked for is there, absent,
linked out, a pipe, or reached through a link, with a reader and a writer, a listing and a writer of
nothing, or two writers of different lengths; a second name is one of the moves. The three audit
queries go through one index each and between them use every filter and the limit. A connection's
four requests are one that streams, one that answers at once and the two that concern another call.
Two charges of one hour and one longer period close a window with a write still to come, and reach
the counters' width. The samples of the focus `values` are all inputs up to the lengths written in
`Sampled`: three records, four messages, two rules.

## Fairness

- `Scheduler!FairSpec`: tokio runs every ready task and its mutex is a queue, and the driver's
  `select!` without `biased` picks among ready branches at random, so neither the driver nor its
  timer branch is passed over for ever (strong fairness), and a store write ends (weak fairness).
  Callers, crashes, events and the end of a handler are not assumed to happen.
- `JobRunner!FairSpec`: the runner's own steps, the deadline among them. Handlers may hang.
- `ToolGate!FairSpec`: the registry's own steps and the questions' expiry timers. No human need
  answer, no tool need return.
- `Kernel!FairSpec`: callers are polled, phases return and the shutdown timer fires. Background
  tasks need not end, and nobody need ask for a shutdown.
- `AgentRun!FairSpec`: only once a run is cancelled or expired need anything happen: its task is
  polled, its timers fire, and a service or a tool returns, which the contracts of `ModelProvider`
  and `Tool` ask for. Until then every service may hang for ever.

## Findings

Six statements of the repository's documentation do not hold of its code; each is refuted by TLC,
the first four in runs, with the lines in `PROJECT.json`.

1. `cancel()` "stops future firings" (`sched_cancel`). `fire_for_event()` copies the job under the
   lock and dispatches the copy after releasing it; a `cancel()` in between returns `Ok(true)` and
   the job fires afterwards. Timed firings are dispatched under the lock and are not affected,
   which `CancelledStaysCancelled` shows.
2. Compaction removes "never a turn nobody has summarised" (`context_reclaim`). `reclaim()` counts and
   compacts in two transactions; a turn appended in between makes it remove one record too many.
   `LossIsBounded` shows that the loss is one turn per record that raced the round.
3. A stand-in call id "is unique within a message" (`stream_ids`). Positions start again at each line of
   an Ollama stream, so two calls of one tool on two lines share an id.
4. Ctrl-C in a connected terminal: "Nothing is cancelled at this end" (`client_interrupt`). The `recv()`
   under way is; if half a frame has been read, the rest is taken for the next one.
5. "Exactly one of JobCompleted, JobFailed or JobCancelled - per attempt" (`MCJobRunner_outcomes.cfg`). A
   cancellation during the backoff publishes `JobCancelled` for the attempt already reported as
   `JobFailed`.
6. "An exhausted budget costs nothing at all" (`MCAgentRun_budget.cfg`). `prepare()` may have the compactor
   call the model before `turn()` asks the quota guard.

Differences met while reading, which the modules follow the code in and no run is about:

- The half-open breaker admits every call that arrives, not exactly one (`breaker.rs:99-111`).
- Two runs on a fresh session both append the system prompt (`agent/src/run.rs:252-262`).
- An audit gap is "visible in *every* view" (`api/src/audit.rs`), but a query by principal, correlation
  or kind leaves it out.
- `aikd --no-tools` still registers the schedule tools.
- A policy file given with `--policy` is described as overriding, but a merge keeps the keys it does
  not name; `daemon.max_connections = 0` is refused on the command line and accepted from a file.
- A flattened MCP result exceeds its limit by the separators of empty text blocks; a server spawned
  while `McpComponent::stop` runs outlives it.
- `frame::read` takes an end of file inside the prefix for an orderly close; a connection's writer is
  detached rather than awaited when its reader ends.
- A command that exits normally leaves members of its group that closed the pipes (`runner.rs:1`).
- `address.rs:16-20` says that the IPv6 forms which embed an IPv4 address are refused; an address
  under the translators' prefix 64:ff9b::/96 is classified global whatever it embeds.
  `SpellingNeverHelps` says both: what holds of the four forms `classify_v6()` names, and that this
  one is global.
- Under a limit, a query narrowed by times alone gives the entries stamped last
  (`persistent.rs:419-439`), the in-memory store those written last (`store.rs:100-113`): a late
  entry with an old stamp is in one answer only.
- `exec/src/runner.rs:96-98` says a dropped handle "must not leave the child running"; the rest of
  an unconfined child's group lives on.
- `session.rs`'s `drain()` says lag is ignored, but stops at one.
- `runtime/src/jobs.rs:139-141` says "built in `start` rather than `init`"; the handler is
  registered in `init`.

## Proofs

Each theorem holds for every value of the constants its assumptions allow: any number of jobs,
runs, frontends, components, sessions, any limits and clocks. Each invariant was first checked by
TLC, in the run that lists it.

| Theorem | States | Inductive invariant |
|---|---|---|
| SchedulerProofs `TypeCorrect` | `Spec => []TypeOK` | itself |
| `JobsExclusive` | `Spec => []Exclusion` | `ExclusionInv` |
| `FiredOnce` | `Spec => [](AtMostOnce /\ NoBacklog)` | `OccurrenceInv` |
| `CancelledForGood`, `StaleDropped` | `Spec => CancelledStaysCancelled`, `Spec => StaleNeverRuns`, if calls wait for `start()` | `CancelInv` |
| `TablesHonest` | `Spec => []TableIsHonest`, if moreover no caller is dropped inside a write | `CancelInv` and `MirrorHeld` |
| JobRunnerProofs `RunnerHolds`, `NoneAfterCancel` | `Spec => []RunnerInv`, `Spec => NoAttemptAfterCancel` | `RunnerIInv` |
| ToolGateProofs `AnswersHuman` | `BrokerSpec => []AnswersAreHuman` | `BrokerInv` |
| `GateHolds`, `TaintRemembered` | `Spec => []GateInv`, `Spec => []TaintIsRemembered` | `ToolInv` |
| `GateImplementsBroker`, `GateAnswersHuman` | `Spec => BrokerSpec`, and so `Spec => []AnswersAreHuman` | |
| `AuditHolds` | `AuditSpec => []AuditIsComplete` | `AuditInv` |
| KernelProofs `OrderLeast` | `Spec => []OrderIsTheLeast` | the statement, with the lifecycle's phases |
| `LifecycleHolds` | `Spec => []LifecycleInv` | `KernelInv` |
| AgentRunProofs `AgentHolds`, `BreakerAndSlots`, `Overshoot` | `Spec => []AgentInv`, `[]BreakerAndSlotsHonest`, `[]OvershootBounded` | `AgentIInv` |
| ContextStoreProofs `TablesHold`, `SweepsCompletely` | `Spec => []TablesAgree`, `Spec => SweepLeavesNothingDue` | `StoreInv` |
| `StoreImplementsLog` | `Spec => ImplementsSessionLog` | `StoreInv` |
| ServiceProofs `EndpointHolds` | `HostEndpointSpec => []TokenOpensItsHost` | `EndpointInv` |
| `FetchHolds` | `FetchSpec => []ReachesOnlyWhatWasAsked` | `FetchInv` |
| `SpellingHolds` | `SpellingNeverHelps(hi, lo)` for all `hi`, `lo` | (no state) |
| `ProcessHolds` | `ProcessSpec => []RunLeavesNothing` | `ProcessInv` |
| `ClientHolds` | `ClientSpec => []TurnsDoNotOverlap` | `ClientInv` |
| `LocalHolds` | `LocalSpec => []TurnIsAccounted` | `LocalInv` |
| `McpHolds` | `McpSpec => []CallersAreServed` | `McpInv` |
| `ConnectionHolds` | `HostConnectionSpec => []ConnectionEndsClean` | `HostInv` |
| `FilesHold` | `FileSpec => []FilesStayPut` | `FileInv` |
| `UpkeepHolds` | `UpkeepSpec => []UpInAnyOrder` | `UpkeepInv` |
| `QuotaHolds` | `QuotaSpec => []SpendIsRemembered` | `QuotaInv` |
| `MemoryHolds` | `MemorySpec => []MemoryIsHonest` | `MemoryInv` |

**Scheduler.** `TypeOK` says more than types: the holder of the mutex carries an entry, an advanced
entry or a run according to the kind of its write (`MutexTyped`). The arithmetic is in
`NextOccurrenceLater`: the next occurrence of a periodic or cron job is strictly after the present,
which keeps a claimed job from being due again at once. `Exclusion` alone is not inductive, because
a firing that ends frees the slot if the slot carries its run id; `ExclusionInv` adds that run ids
are distinct. At most once is about four places at once: a definition may be in memory, on disk,
loaded and not yet recovered, or in a write whose caller is gone. `OccurrenceInv` says of each of
them that it is homed in the history of its generation (`Homed`), that a row is a persistent
definition (`RowsPersistent`), that an occurrence being claimed has not been fired (`ClaimHeld`,
`Fresh`), and that everything fired lies before every next occurrence still held anywhere
(`AllAhead`). It needs no hypothesis: orphaned writes and calls before `start()` is done are
covered. `CancelInv` adds that a generation whose cancellation was acknowledged is in none of those
places (`Gone`), that what is on disk is in memory or was never fired (`DiskFollows`), and that what
recovery let through lies within the window (`CatchUp`). The theorems that use it assume `EarlyCalls
= FALSE`: a caller that schedules and cancels while `start()` is between loading the rows and
recovering them has its job brought back by the recovery, and a past `at` job scheduled then runs
late. The repository's own callers, the schedule tools and the host, come after `start()`. `Mirror`
is claimed only when no caller is dropped inside a write (`Abandonable = FALSE`), as in the run that
checks it.

**JobRunner.** `RunnerIInv` puts the events in order (`InOrder`), says that a firing that waits has
announced its retry (`RetryIsDue`), and what was said last. That the backoff grows up to its cap,
through a shift of `Width` bits that saturates and a product that may overflow, is `ShlGrows` and
`DelayGrows`.

**ApprovalBroker, ToolGate.** A question is in one place: the map, one frontend's hand, or nowhere
(`InTheMap`, `InOneHand`, `OutOfHands`); what was sent was told (`SentIsTold`) and `close()` drains. The
gate's `ToolInv` says that a call at its k-th question has a recorded yes to each earlier one
(`YesSoFar`) and that taint seen before a call began was asked about (`TaintSoFar`). That every step of
the gate is a step of the broker or leaves it alone is `GateImplementsBroker`.

**Kernel.** `Ordered` is a recursive function of rounds; that it is well defined, and that what it
yields is the first order that respects every dependency when one exists, is proved from the
rounds: a component is in a round when all it waits for are in earlier ones. `KernelInv` adds to
`LifecycleInv` that the order is sorted (`Sorted`), that one caller holds the lifecycle mutex
(`OneHolder`, `Held`), that what is up is a prefix of the order while starting and shrinks from its
end while stopping (`UpInOrder`), and a count of stops (`StopCount`).

**AgentRun, Resilience.** `AgentIInv` is `ResilienceInv` (every slot is free or held by an attempt, the
failures are counted since the last success), `RunsInv` (what each phase of a run has recorded and
still owes: `CallsOwned`) and `LedgerInv`. The overshoot needs `FlightsCovered`: the row of a
principal, plus one turn for each run that has passed `check()` and not yet charged it, stays below
the ceiling plus one turn for each run that charges it.

**ContextStore, Summariser.** `StoreInv` is `TablesInv` (header and rows of a session agree,
`Counted`; ids name exactly the rows, `IdsNameRows`; an open store's indexes name exactly the headers,
`Indexes`), with what the calls and rounds under way carry (`Served`, `RoundsFit`). Most of the proof is
arithmetic of sums: a total over a finite set is a recursive function that takes elements in an
order `CHOOSE` fixes, so that a header's total minus what a compaction reclaims is the total of the
rows left rests on `SumOfParts`, `SumRenamed` and `RowsLeft` (sums are well defined, do not depend on the
order, and rows kept in order are the rows not removed). `ShortBatchIsAll` is what a sweep's end
means: a batch below the limit holds all that was due. For the refinement, `AppendStep`,
`ClearStep`, `SweepStep` and `CompactStep` show that a transaction is a step of SessionLog on the map
`View`; the rows a compaction dooms by value are those the in-memory store drops by position,
because no two rows of a session are equal (`KeptIs`).

**Host and clients.** `EndpointInv` rests on the database's lock: from opening it to letting go of
it a host is alone (`OneHost`), so nobody else touches the files it installs (`OwnFiles`), and a
client that saw it listen read its token (`SawItsToken`). `HostInv` says of each connection,
whatever the others do, which of reader, calls, pump and writer still own something, and that a
frame about a call is behind its updates and ahead of nothing: an answer is queued after the pump of
the call is done. `ClientInv` says that at most one thing typed is anywhere, at the host or on its
way, and that it is the one waited for (`CallsAreOwn`, `OpenIsOwn`), and that once its answer is on
its way the host is done with it (`AnsweredIsOver`), which is why taking that answer, and no other,
lets the person type. `LocalInv` is a ledger by type of event: what was published is counted, still
in the channel, or lost to an overflow that was noticed.

**Tools.** `FetchInv` keeps the URL under way among those asked (`UrlIsAsked`), one connection per
hop (`OnePerHop`), a literal that is about to be connected to judged (`LiteralIsChecked`), and a cut
reported (`CutIsSaid`); a name is judged where it is connected to, so what the earlier check saw
does not matter. `ProcessInv` counts each stream (bytes kept, in the pipe, dropped) and follows the
group of the child: `KilledIsGone`. `FileInv` says what each thread knows at each point of its call
(`ThreadKnows`): a verified handle is to a file that has had a name under the root and, once its
links were counted, had one name or none while it was open. Nothing another process does undoes that
(`Onward`), because it is history and a handle stays with its file. `SoleKnows` is the text of a
file with one writer: its first `pos` bytes are the writer's, the rest is what was there.
`SpellingHolds` is arithmetic over the octets of an address. `McpInv` says that a request's id is
its caller's (`OwnIds`), that whoever waits is attached to an open session or has been answered
(`Awaiting`), and who holds each process (`Held`).

**Upkeep.** A component's requirements come before it in any layout, so what it looks up while starting is
there (`WiredFirst`, `KnowsHandlers`), a sweep runs with the periods the builders gave (`SweepIs`), and a
sweep that is under way at shutdown has been told to end (`ToldToEnd`).

**AuditTrail.** `TrailShape` numbers the records, `IndexesAgree` says each index has an entry for
exactly the records it should, `Numbered` that issued numbers are those of the records kept plus the
counts of the retention records, and `SinkCounts` is the sum of the events published over where they
can be: in the trail (`TrailCounts`: records, and what gaps and retention records count), in hand,
in a buffer, failed or lost in a crash. A sweep replaces records by a marker of their number and
leaves the sum alone. That a limited query is answered alike by every index needs the newest of a
finite set ordered by time and number (`Collected`): exactly the newest of what a scan finds.

**QuotaLedger.** The statement is about the latest window of a subject and period, but its row is
written by charges that are still under way, and a late write of an earlier window lands in a row
that was dropped. `Balanced` therefore counts, for every row, what the turns under way are still to
write to it (a sum over turns): the row with what is to come is at most what was begun, and in
the latest window the row is at least what was charged in full with what unfinished charges have
landed there, up to the counters' width. A row is written once per charge because the list of what is
due has no subject and period twice (`DueLists`), which is what `periods_for` is for.

**MemoryStore.** `EntriesMatch` says that the three indexes have exactly the entries of what is
stored, and `MemoryShape` that a stored record with words a conversation heard in its process is
marked untrusted, through restarts; `CallsMarked` says it of a record whose embedding is still
awaited, which is stored by a later step, and `HeardIsTainted` that the ledger knows whom this
process handed such words. For the queries, the hits an index gives and those of a scan name the
same ids, once each (`HitsUnder`), though at other positions; two such sets of hits are scored,
ordered and cut alike (`SameHits`), since the order is by score, time and id and never by where a
record was found.

Induction over numbers is by least counterexample (`Induction`: `LeastNumber`, `UpTo`, `MinOf`), because the
library's induction theorems take an operator as a parameter. The recursive functions the models
use (`Ordered`, the shift, recorded calls, sums, the excerpt of a plan) are each shown to be well
defined before anything is said of them.

The assumptions are those named in the modules, which TLC evaluates on each run: sizes are
naturals, markers such as `None` and `NoSession` are none of the values they stand beside. Those that say
more have their ground in the code: `AgentAssumption` has each run's subjects distinct (`guard.rs`
83-95 removes duplicates) and its ceilings above zero (validation refuses a zero);
`ResilienceAssumption` and `ContextAssumption` have finitely many clients and sessions;
`SchedulerConstants` only types. `EarlyCalls = FALSE` and `Abandonable = FALSE` are hypotheses of the
theorems that name them, and the configuration of the run that checks the same properties.

The hypotheses of the services' theorems are definitions of their modules (`HostEndpointConstants`,
`FetchConstants`, `ProcessConstants`, `ClientConstants`, `LocalConstants`, `McpConstants`,
`HostConnectionConstants`, `FileConstants`, `UpkeepConstants`, `AuditConstants`, `QuotaConstants`,
`MemoryConstants`), evaluated by TLC in `ServicesAssumption` of MCServices. They are about types,
but for these: every host opens the database (`HoEphemeral = {}`; two hosts without one have nothing
that keeps them apart); a subscriber's channel holds an event, which tokio asks for; what a person
types is no cancellation or verdict (`ClientConstants`); a charge is of at least one turn
(`UsageCharge::turn`, `api/src/quota.rs`); a tree's files hold no writer's bytes at first, so that
written bytes can be told from old ones. Periods of zero are allowed wherever a builder accepts one.

Only model-checked: the liveness properties (`DueIsClaimed`, `TimedFiringEnds`, `QuestionsEnd`,
`ShutdownEnds`, `StoppedRunEnds`), since fairness and `ENABLED` are beyond the proof system;
`LossIsBounded`, which needs an account of what other writers did to the plan of a round; what
`CallsArriveWhole` says of a stream, `ConversionsKeepMeaning` and `DecisionsFollowTheirInputs` (but
for `SpellingNeverHelps`), which are about recursive definitions over data.

## What is not modelled

- `stream()` of the resilient provider, a disabled breaker and an unlimited provider: the loop uses
  `complete()`, and the rest are the same code with a test removed.
- The calendar fields of cron expressions: a pure search over dates which the scheduler sees as a
  period with a horizon.
- JSON, HTTP and terminal texts: what is encoded is modelled by what it keeps (Dialects,
  HostConnection), not by its characters. Parsing of command-line words, rendering of reports.
- Environment variables and resource limits of child processes; character encodings of files; the
  text of a page. These are I/O with the outside.
- Validation of MCP server settings, and the listing and type erasure of the service registry.
- Taint after a restart is lost, and modelled so: what a conversation heard before a restart and
  writes after it is outside `MemoryIsHonest`.
- What a crash takes from the audit's memory is counted in `au_lost` and by no record of the trail.
- A link made to a file after `check_target()` has counted its links: the write goes through both
  names. What two writers of one file leave is a mixture of their bytes, of old bytes and of zeros;
  the property speaks of a lone writer only.
- The event bus as such: tokio's broadcast channel, seen through its subscribers.
- The facade crate, integration tests and examples.

## Plan

The components are modelled and their central invariants proved. What is left:

1. **Proofs**: `LossIsBounded`.
2. **Refinement**: an abstract scheduler (a set of definitions, an atomic schedule, cancel and fire)
   implemented by Scheduler for timed jobs; an abstract approval (asked, answered once)
   implemented by ApprovalBroker.
3. **Composition**: HostConnection with ApprovalBroker; a sweep during a round of compaction.
