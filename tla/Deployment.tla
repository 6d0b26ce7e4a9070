----------------------------- MODULE Deployment -----------------------------
(***************************************************************************)
(* From a command line to a kernel: the options of the two programs        *)
(* (crates/cli/src/args.rs, crates/daemon/src/args.rs and their            *)
(* settings.rs), the layered configuration (core/src/config.rs), the       *)
(* deployment they resolve to (runtime/src/settings.rs), the components    *)
(* and tools it is assembled from (runtime/src/wiring.rs), the services    *)
(* those find in the registry (core/src/registry.rs), the database they    *)
(* share (crates/store), and the jobs an agent may schedule for itself     *)
(* (runtime/src/schedule_tools.rs, jobs.rs).                               *)
(*                                                                         *)
(* Nothing here keeps state: a deployment is a value, computed from what   *)
(* was typed, what the files say and what the environment holds.           *)
(***************************************************************************)
EXTENDS Naturals, Sequences, FiniteSets

CONSTANT DpNone   \* nothing given

Or(a, b) == IF a # DpNone THEN a ELSE b

-----------------------------------------------------------------------------
(* The command line                                                        *)

(* What both parsers refuse once every flag is read: a switch for some     *)
(* tools beside the one for none, and a file beside no file.               *)
Contradicts(o) ==
  \/ o.no_tools /\ (o.write \/ \E flag \in {o.memory, o.exec, o.mcp, o.net} : flag # DpNone)
  \/ o.ephemeral /\ o.database # DpNone

(* parse() of `aik`: there is nothing to resume without a file, and what   *)
(* a conversation may reach is the host's to say when a socket is named    *)
(* (names_assembly: any of --policy, --root, --model, --agent, --user and  *)
(* --record).                                                              *)
parse_cli(o) ==
  \/ Contradicts(o)
  \/ o.ephemeral /\ o.session
  \/ o.socket # DpNone /\
       \/ o.write \/ o.no_tools \/ o.ephemeral \/ o.names_assembly
       \/ \E flag \in {o.memory, o.exec, o.mcp, o.net, o.database, o.provider, o.embedding_model} :
            flag # DpNone

(* parse() of `aikd`, and parse_count(): at least one client.              *)
parse_daemon(o) == Contradicts(o) \/ o.max_clients = 0

(* Options::tools(), memory(), exec(), mcp() and net(): --no-tools turns   *)
(* all five off; otherwise each is what was given, or its default.         *)
ToolsOf(o) == IF o.no_tools THEN "none" ELSE IF o.write THEN "read_write" ELSE "read_only"

Unless(o, given, default) == IF o.no_tools THEN "off" ELSE Or(given, default)

-----------------------------------------------------------------------------
(* Configuration                                                           *)

(* merge() of one section: the later layer wins key by key, and what it    *)
(* does not name stays.                                                    *)
merge(under, over) ==
  [k \in DOMAIN under \cup DOMAIN over |->
     IF k \in DOMAIN over THEN over[k] ELSE under[k]]

(* load_config(): the file, the policy file over its `policy` section, and *)
(* the environment over both.                                              *)
load_config(file, policy, env) ==
  [section \in DOMAIN file |->
     merge(IF section = "policy" THEN merge(file[section], policy) ELSE file[section],
           env[section])]

Setting(config, section, key) ==
  IF key \in DOMAIN config[section] THEN config[section][key] ELSE DpNone

(* store::default_path(): an absolute XDG_DATA_HOME, else HOME.            *)
default_path(vars) ==
  IF vars.xdg_data_home = "absolute" THEN "xdg/aik.redb"
  ELSE IF vars.home # DpNone THEN "home/aik.redb" ELSE DpNone

(* Storage::resolve(): no file when asked for none; else the flag, the     *)
(* configured path, the default.                                           *)
storage_resolve(o, config, vars) ==
  IF o.ephemeral THEN "ephemeral"
  ELSE Or(o.database, Or(Setting(config, "store", "path"), default_path(vars)))

(* The plausible slip: the component resolves the path a second time.      *)
resolved_twice(config, storage) == config

(* pin_database_path(): what was resolved is what the component will read. *)
pin_database_path(config, storage) ==
  [config EXCEPT !["store"] =
     merge(@, [path |-> IF storage = "ephemeral" THEN DpNone ELSE storage])]

(* StoreSettings::resolve_path(), as the store's component runs it.        *)
resolve_path(config, vars) == Or(Setting(config, "store", "path"), default_path(vars))

(* Endpoint::resolve() of a host, and resolve_socket() of a client, which  *)
(* has no default: without one it assembles a kernel of its own.           *)
endpoint_resolve(explicit, vars) ==
  Or(explicit, Or(vars.aik_socket,
     IF vars.xdg_runtime_dir # DpNone THEN "runtime/aik/aikd.sock" ELSE DpNone))

resolve_socket(o, config, vars) == Or(o.socket, Or(Setting(config, "cli", "socket"), vars.aik_socket))

(* Provider::parse() and embedder_component_id(): one of them embeds       *)
(* nothing.                                                                *)
Providers == {"ollama", "anthropic", "openai"}
embedder_component_id(provider) == IF provider = "anthropic" THEN DpNone ELSE provider

(* Deployment::resolve(): flags before the `agent` section before          *)
(* defaults; a blank name is no name.                                      *)
NonBlank(v) == IF v = "blank" THEN DpNone ELSE v

deployment_resolve(o, config, vars) ==
  LET storage == IF o.program = "aik" /\ resolve_socket(o, config, vars) # DpNone
                   THEN "ephemeral" ELSE storage_resolve(o, config, vars)
      provider == Or(o.provider, Or(Setting(config, "agent", "provider"), "ollama"))
  IN  IF storage = DpNone \/ provider \notin Providers
        THEN [refused |-> TRUE]
        ELSE [refused |-> FALSE,
              storage |-> storage,
              provider |-> provider,
              embedding_model |-> NonBlank(Or(o.embedding_model, Setting(config, "agent", "embedding_model"))),
              tools |-> ToolsOf(o),
              memory |-> Unless(o, o.memory, "remember"),
              exec |-> Unless(o, o.exec, "off"),
              mcp |-> Unless(o, o.mcp, "off"),
              net |-> Unless(o, o.net, "off"),
              jobs |-> IF o.program = "aikd" THEN "agent" ELSE "disabled",
              programs |-> Setting(config, "agent", "programs"),
              servers |-> Setting(config, "agent", "servers"),
              summary |-> Or(Setting(config, "agent", "summary"), TRUE),
              config |-> pin_database_path(config, storage)]

-----------------------------------------------------------------------------
(* The assembly                                                            *)

(* builder() refuses execution of no program, servers of which none is     *)
(* described, and an embedding model its provider does not serve.          *)
builder_refuses(s) ==
  \/ s.exec # "off" /\ s.programs = DpNone
  \/ s.mcp = "on" /\ s.servers = DpNone
  \/ s.embedding_model # DpNone /\ embedder_component_id(s.provider) = DpNone

MemoryTools(s) ==
  CASE s.memory = "off" -> {}
    [] s.memory = "recall" -> {"memory.get", "memory.query"}
    [] s.memory = "remember" -> {"memory.get", "memory.query", "memory.put"}
    [] s.memory = "full" -> {"memory.get", "memory.query", "memory.put", "memory.delete"}

(* The tools a deployment registers.                                       *)
ToolNames(s) ==
  (CASE s.tools = "none" -> {}
     [] s.tools = "read_only" -> {"fs.read", "fs.list"}
     [] s.tools = "read_write" -> {"fs.read", "fs.list", "fs.write"})
  \cup (IF s.exec # "off" THEN {"process.run"} ELSE {})
  \cup (IF s.net = "on" THEN {"web.fetch"} ELSE {})
  \cup (IF s.mcp = "on" THEN {"mcp.*"} ELSE {})
  \cup MemoryTools(s)
  \cup (IF s.jobs = "agent" THEN {"schedule.create", "schedule.list", "schedule.cancel"} ELSE {})

(* The component that binds a tool which is registered before the service  *)
(* it needs exists.                                                        *)
ToolOwner(t) ==
  CASE t \in {"memory.get", "memory.query", "memory.put", "memory.delete"} -> "memory.tools"
    [] t \in {"schedule.create", "schedule.list", "schedule.cancel"} -> "schedule.tools"
    [] t = "mcp.*" -> "mcp"
    [] OTHER -> "tools"

(* builder() and provider_component(): what the kernel is built from.      *)
ComponentSet(s) ==
  {"approval", "resilience", "tools", "context", "memory", "scheduler", "audit", "quota",
   "agent", s.provider}
  \cup (IF s.mcp = "on" THEN {"mcp"} ELSE {})
  \cup (IF s.storage # "ephemeral" THEN {"store"} ELSE {})
  \cup (IF s.memory # "off" THEN {"memory.tools"} ELSE {})
  \cup (IF s.jobs = "agent" THEN {"agent.jobs", "schedule.tools"} ELSE {})
  \cup (IF s.summary THEN {"summary"} ELSE {})

(* The plausible slip: the agent does not wait for the provider's wrapper, *)
(* which the registry would not notice.                                    *)
RequiresNoWrapper(s, c) ==
  LET store == IF s.storage # "ephemeral" THEN {"store"} ELSE {}
  IN  CASE c = "agent" -> {"tools", "context", "quota"}
        [] c = "summary" -> {"context", "resilience"}
        [] c = "resilience" -> {s.provider}
        [] c \in {"context", "memory", "scheduler", "audit", "quota"} -> store
        [] OTHER -> {}

(* What each component declares it requires in this deployment, or would   *)
(* have before it if it is there (the handler of scheduled prompts).       *)
RequiresOf(s, c) ==
  LET store == IF s.storage # "ephemeral" THEN {"store"} ELSE {}
  IN  CASE c = "agent" -> {"tools", "context", "quota", "resilience"}
                            \cup (IF s.summary THEN {"summary"} ELSE {})
        [] c = "summary" -> {"context", "resilience"}
        [] c = "resilience" -> {s.provider}
        [] c \in {"context", "scheduler", "audit", "quota"} -> store
        [] c = "memory" -> store \cup (IF s.embedding_model # DpNone
                                         THEN {embedder_component_id(s.provider)} ELSE {})
        [] c = "memory.tools" -> {"memory"}
        [] c = "schedule.tools" -> {"scheduler"} \cup ({"agent.jobs"} \cap ComponentSet(s))
        [] c = "agent.jobs" -> {"agent"}
        [] OTHER -> {}

(* The services a component publishes, and those it resolves by capability *)
(* when it is initialised.                                                 *)
ProvidesOf(c) ==
  CASE c \in {"ollama", "openai"} -> {"model", "embedder"}
    [] c \in {"anthropic", "resilience"} -> {"model"}
    [] c = "context" -> {"context", "counter"}
    [] c = "summary" -> {"compactor"}
    [] c \in {"tools", "memory", "scheduler", "audit", "quota", "agent"} -> {c}
    [] OTHER -> {}

ResolvesOf(c) ==
  CASE c = "agent" -> {"model", "tools", "context", "counter", "compactor", "quota"}
    [] c = "summary" -> {"model", "context"}
    [] OTHER -> {}

(* The components certain to be initialised before c, in whatever order    *)
(* the kernel takes: those it requires, and those they require.            *)
Earlier(s, c) ==
  LET step[n \in 0 .. Cardinality(ComponentSet(s))] ==
        IF n = 0 THEN RequiresOf(s, c)
        ELSE LET was == step[n - 1] IN was \cup UNION {RequiresOf(s, d) : d \in was}
  IN  step[Cardinality(ComponentSet(s))]

(* Registry::resolve() over what is registered: the default if there is    *)
(* one (only the wrapper registers itself as the default provider), else   *)
(* the only one; several without a default are ambiguous.                  *)
registry_resolve(present, capability) ==
  LET found == {d \in present : capability \in ProvidesOf(d)}
  IN  CASE found = {} -> "not_found"
        [] found # {} /\ capability = "model" /\ "resilience" \in found -> "resilience"
        [] found # {} /\ ~(capability = "model" /\ "resilience" \in found) ->
             IF Cardinality(found) = 1 THEN CHOOSE d \in found : TRUE ELSE "ambiguous"

-----------------------------------------------------------------------------
(* The database                                                            *)

(* A file is [loose, tables, version, applied], a build [target,           *)
(* migrations]: the versions its migrations lead to.  open_file() refuses  *)
(* a file that other accounts can read.                                    *)
open_file(file) == ~file.loose

(* read_version(): tables and no version is not a database of aik's.       *)
read_version(file) == file.version # DpNone \/ ~file.tables

(* check_ordering(): ascending, and the last one reaches the target.       *)
check_ordering(target, ms) ==
  /\ \A i \in 1 .. Len(ms) - 1 : ms[i] < ms[i + 1]
  /\ ms # <<>> => ms[1] > 0 /\ ms[Len(ms)] = target

(* A plausible slip: the migration that led to the recorded version again. *)
steps_from(version, ms) == SelectSeq(ms, LAMBDA to : to >= version)

(* The migrations still ahead of a recorded version.                       *)
steps_after(version, ms) == SelectSeq(ms, LAMBDA to : to > version)

(* Db::open() and migrate(), one transaction: the file as it is left, or   *)
(* DpNone when it is refused and left alone.                               *)
migrate(file, build) ==
  IF ~open_file(file) \/ ~read_version(file) \/ ~check_ordering(build.target, build.migrations)
    THEN DpNone
  ELSE IF file.version = DpNone
    THEN [file EXCEPT !.version = build.target, !.tables = TRUE]
  ELSE IF file.version > build.target THEN DpNone
  ELSE [file EXCEPT !.version = build.target, !.tables = TRUE,
                    !.applied = @ \o steps_after(file.version, build.migrations)]

-----------------------------------------------------------------------------
(* Jobs an agent schedules for itself                                      *)

(* parse_job_id(): not empty, no surrounding space, no control character,  *)
(* not too long.                                                           *)
parse_job_id(id) == id = "plain"

(* TriggerInput::into_trigger(): an instant whose milliseconds overflow is *)
(* refused, every other trigger is the scheduler's to judge.               *)
into_trigger(trigger) == trigger # "overflowing"

(* AgentJobPayload::parse(): what the handler makes of a job that fired.   *)
payload_parse(payload) == payload # DpNone /\ payload.prompt \notin {DpNone, "blank"}

(* The plausible slip: a prompt of spaces is a prompt.                     *)
create_any_prompt(a) ==
  IF parse_job_id(a.id) /\ a.live /\ a.prompt # "oversized" /\ into_trigger(a.trigger)
    THEN [prompt |-> a.prompt, session |-> a.session] ELSE DpNone

(* ScheduleCreateTool::invoke(): the payload it schedules, or none.        *)
schedule_create(a) ==
  IF /\ parse_job_id(a.id)
     /\ a.live
     /\ a.prompt \notin {"blank", "oversized"}
     /\ into_trigger(a.trigger)
    THEN [prompt |-> a.prompt, session |-> a.session]
    ELSE DpNone

-----------------------------------------------------------------------------
(* Every deployment that is not refused starts, and is what it says:       *)
(* nothing it requires is missing or circular; a component that resolves a *)
(* service gets the same one in whatever order the kernel initialises them *)
(* - so no conversation reaches a model around the retries and the         *)
(* breaker, and a guard or a compactor that is registered is used; every   *)
(* tool offered has the component that binds it; the file the store opens  *)
(* is the one the deployment resolved; and a client told of its host by    *)
(* the environment alone looks where a host told by the same environment   *)
(* listens (wiring.rs builder, settings.rs pin_database_path,              *)
(* resolve_socket, Endpoint::resolve).                                     *)
AssemblyIsWired(o, config, vars) ==
  LET s == deployment_resolve(o, config, vars)
      accepted == ~(IF o.program = "aik" THEN parse_cli(o) ELSE parse_daemon(o))
  IN  accepted /\ ~s.refused =>
        /\ ~builder_refuses(s) =>
             \A c \in ComponentSet(s) :
               /\ RequiresOf(s, c) \subseteq ComponentSet(s)
               /\ c \notin Earlier(s, c)
               /\ \A capability \in ResolvesOf(c) :
                    registry_resolve(Earlier(s, c), capability)
                      = registry_resolve(ComponentSet(s), capability)
        /\ \A t \in ToolNames(s) : ToolOwner(t) \in ComponentSet(s)
        /\ s.storage # "ephemeral" => resolve_path(s.config, vars) = s.storage
        /\ (o.socket = DpNone /\ Setting(config, "cli", "socket") = DpNone
              /\ resolve_socket(o, config, vars) # DpNone) =>
             resolve_socket(o, config, vars) = endpoint_resolve(DpNone, vars)

(* An upgrade is one upgrade by whatever releases it went: a file opened   *)
(* by an old build and then by a new one has had every migration it needed *)
(* once, in order, as if the new build alone had opened it; opening it     *)
(* again changes nothing, and the old build will not open it any more      *)
(* (schema.rs migrate).                                                    *)
UpgradesCompose(file, old, new) ==
  LET once == migrate(file, old)
      twice == IF once = DpNone THEN DpNone ELSE migrate(once, new)
  IN  (old.target <= new.target /\ twice # DpNone) =>
        /\ twice.version = new.target
        /\ migrate(twice, new) = twice
        /\ old.target < new.target => migrate(twice, old) = DpNone
        /\ file.version # DpNone => migrate(file, new) = twice

(* What schedule.create accepts, a firing can run: the payload it stores   *)
(* is one the job's handler parses, when it is far too late to ask         *)
(* (schedule_tools.rs invoke, jobs.rs AgentJobPayload::parse).             *)
ScheduledRuns(a) == schedule_create(a) # DpNone => payload_parse(schedule_create(a))
=============================================================================
