----------------------------- MODULE MCServices -----------------------------
(***************************************************************************)
(* The services around the agent loop, for TLC: one run explores each of   *)
(* them on its own small instance.  They share no state in the program     *)
(* below the level the other runs compose, so in a behaviour of this       *)
(* module one service, the one in focus, takes steps.  The services        *)
(* theorems are stated of are extended, and rest in an initial state while *)
(* another is in focus; the variables of the others are laid on the slots  *)
(* s1, s2, ..., and a slot that is not in use is None.  The focus "values" *)
(* has no steps: each of its initial states is one input of the operators  *)
(* without state.                                                          *)
(***************************************************************************)
EXTENDS HostEndpoint, WebFetch, ProcessRun, ClientSession, LocalSession, McpClient, HostConnection,
        FileTools, Upkeep, AuditTrail, QuotaLedger, MemoryStore, Integers, Sequences, FiniteSets, SequencesExt

CONSTANTS
  None,      \* the absent value of every module
  Odd,       \* a page cursor the server repeats
  Foci       \* the services looked at

VARIABLES
  focus,
  s1, s2, s3, s4, s5, s6, s7, s8, s9, s10

-----------------------------------------------------------------------------
(* Inputs of the services *)

Wire == INSTANCE Dialects WITH DiNone <- None
Windows == INSTANCE Plan WITH Nothing <- None, MarkerTokens <- 1, KeepRecent <- 2, MinRetained <- 1,
  MinSummarised <- 1, RetainPercent <- 50, MaxExcerpt <- 3
Deploy == INSTANCE Deployment WITH DpNone <- None

AuditEvents ==
  {[kind |-> "authorization", principal |-> "agent", behalf |-> "alice", corr |-> "op1", tool |-> "read",
    refusal |-> TRUE],
   [kind |-> "invocation", principal |-> "bob", behalf |-> None, corr |-> "op2", tool |-> "exec",
    refusal |-> FALSE]}
AuditAny == [principal |-> None, corr |-> None, tool |-> None, kinds |-> {}, since |-> None, until |-> None,
             refusals |-> FALSE, limit |-> None]
AuditQueries ==
  {[AuditAny EXCEPT !.principal = "alice"], [AuditAny EXCEPT !.tool = "exec"],
   [AuditAny EXCEPT !.principal = "bob", !.limit = 1], [AuditAny EXCEPT !.limit = 2],
   [AuditAny EXCEPT !.corr = "op1", !.refusals = TRUE, !.until = 1],
   [AuditAny EXCEPT !.since = 1, !.kinds = {"invocation", "gap"}, !.limit = 1]}
AuditReaders == {[id |-> "alice", behalf |-> None], [id |-> "aide", behalf |-> "bob"]}

MemoryClients == {[id |-> i, on_behalf_of |-> "alice"] : i \in {"alice", "aide"}}
MemoryReaders == {c \in MemoryClients : c.id = "aide"}
MemoryVectors == {<<1, 0>>}
MemoryAny == [kinds |-> <<>>, text |-> None, embedding |-> None, trust |-> None, limit |-> None, min_score |-> None]
MemoryQueries ==
  {MemoryAny, [MemoryAny EXCEPT !.limit = 1, !.trust = "trusted"], [MemoryAny EXCEPT !.kinds = <<"note", "note">>],
   [MemoryAny EXCEPT !.kinds = <<"fact", "note">>, !.embedding = <<1, 1>>, !.min_score = 40],
   [MemoryAny EXCEPT !.text = "words", !.min_score = 40], [MemoryAny EXCEPT !.text = "blank"],
   [MemoryAny EXCEPT !.min_score = 40]}

\* What a server sends: calls in fragments, in blocks, whole; reasons, errors, nonsense.
Line(type) == [type |-> type, text |-> FALSE, calls |-> <<>>, reason |-> None, usage |-> 0, index |-> 0,
               id |-> None, name |-> None, arguments |-> <<>>]
Data == Line("data")
Fragment(i, id, name, arguments) == [index |-> i, id |-> id, name |-> name, arguments |-> arguments]
ToolCall(id) == [id |-> id, name |-> "f", index |-> None, arguments |-> Wire!Whole]
Script(dialect, status, lines, calls) ==
  [dialect |-> dialect, status |-> status, lines |-> lines, calls |-> calls,
   body |-> [reason |-> "stop", calls |-> [i \in DOMAIN calls |->
              [id |-> calls[i].id, name |-> "f", index |-> None, arguments |-> calls[i].arguments]]]]
TwoCalls == <<Wire!CallChunk("a", Wire!Whole), Wire!CallChunk("b", <<>>)>>
Scripts ==
  {Script("openai", 200, <<[Data EXCEPT !.text = TRUE, !.calls = <<Fragment(0, "a", "f", <<"{">>)>>],
     [Data EXCEPT !.calls = <<Fragment(1, "b", "g", <<>>), Fragment(0, None, None, <<"}">>)>>],
     [Data EXCEPT !.reason = "tool_calls", !.usage = 1], Line("[DONE]")>>, TwoCalls),
   Script("openai", 200, <<Line("comment"), [Data EXCEPT !.text = TRUE], [Data EXCEPT !.reason = "length"]>>, <<>>),
   Script("openai", 200, <<[Data EXCEPT !.calls = <<Fragment(0, "a", "f", <<>>)>>], Line("[DONE]")>>,
     <<Wire!CallChunk("a", <<>>)>>),
   Script("openai", 200, <<Line("long"), Line("error")>>, <<>>),
   Script("openai", 200, <<[Data EXCEPT !.calls = <<Fragment(0, "a", "f", <<"{">>)>>],
     [Data EXCEPT !.calls = <<Fragment(0, None, None, <<"}", "}">>)>>]>>, <<>>),
   Script("openai", 200, <<[Data EXCEPT !.calls = <<Fragment(None, "a", "f", <<>>)>>, !.reason = "tool_calls"]>>, <<>>),
   Script("openai", 503, <<>>, <<>>),
   Script("anthropic", 401, <<>>, <<>>),
   Script("anthropic", 200, <<[Line("block_start") EXCEPT !.id = "a", !.name = "f"],
     [Line("input_json") EXCEPT !.arguments = <<"{">>], [Line("block_start") EXCEPT !.index = 1, !.id = "b", !.name = "g"],
     [Line("input_json") EXCEPT !.arguments = <<"}">>], Line("block_stop"), [Line("block_stop") EXCEPT !.index = 1],
     [Line("message_delta") EXCEPT !.reason = "tool_use", !.usage = 1], Line("message_stop")>>, TwoCalls),
   Script("anthropic", 200, <<[Line("block_start") EXCEPT !.id = "a", !.name = "f"],
     [Line("block_start") EXCEPT !.id = "b", !.name = "g"], [Line("input_json") EXCEPT !.arguments = Wire!Whole],
     Line("block_stop"), Line("message_stop")>>, <<Wire!CallChunk("b", Wire!Whole)>>),
   Script("anthropic", 200, <<[Line("block_start") EXCEPT !.id = "a", !.name = "f"],
     [Line("input_json") EXCEPT !.arguments = <<"{", "{", "}">>]>>, <<>>),
   Script("anthropic", 200, <<[Line("text") EXCEPT !.index = None]>>, <<>>),
   Script("anthropic", 200, <<Line("ping"), Line("text"), [Line("input_json") EXCEPT !.index = 1]>>, <<>>),
   Script("anthropic", 200, <<[Line("message_delta") EXCEPT !.reason = "refusal"], Line("message_stop"),
     Line("garbage")>>, <<>>),
   Script("ollama", 200, <<[Data EXCEPT !.text = TRUE], [Data EXCEPT !.calls = <<ToolCall("a")>>], Line("done")>>,
     <<Wire!CallChunk("a", Wire!Whole)>>),
   Script("ollama", 200, <<[Data EXCEPT !.calls = <<ToolCall(None)>>], [Data EXCEPT !.calls = <<ToolCall(None)>>], Line("done")>>,
     <<Wire!CallChunk(None, Wire!Whole), Wire!CallChunk(None, Wire!Whole)>>),
   Script("ollama", 200, <<Line("garbage")>>, <<>>)}

\* Pages of tools, one with a tool that cannot be used; greetings, one without tools.
RemoteTool(name) == [name |-> name, input |-> "object", output |-> None]
McpPages == {[tools |-> <<RemoteTool("a")>>, next |-> "p"], [tools |-> <<RemoteTool("b")>>, next |-> None],
             [tools |-> <<RemoteTool("bad name")>>, next |-> None]}
McpHellos == {[version |-> "2025-06-18", tools |-> t] : t \in BOOLEAN}
McpTasks == [c \in {"c1", "c2"} |-> IF c = "c1" THEN {"list"} ELSE {"a"}]

\* x is asked for; x and y are under the root, z is not; another process moves them about, or,
\* where no path is free, only names files anew and takes their names away.
Node(kind, to) == [kind |-> kind, to |-> to]
Scene(x, a, b, tasks) ==
  [at |-> [p \in {"x", "y", "z", "o"} |->
      CASE p = "x" -> x [] p = "y" -> Node("dir", "B") [] p = "z" -> Node("dir", "C") [] p = "o" -> Node("none", None)],
   leaf |-> [d \in {"A", "B", "C"} |-> CASE d = "A" -> a [] d = "B" -> b [] d = "C" -> Node("file", "fc")],
   files |-> [f \in {"fa", "fb", "fc"} |->
      [text |-> IF f = "fb" THEN <<"o", "o", "o">> ELSE <<"o", "o">>, links |-> IF f = "fb" THEN 2 ELSE 1]],
   tasks |-> tasks]
ReadWrite == [c \in {"w", "r"} |-> IF c = "w" THEN "write" ELSE "read"]
ListWrite == [c \in {"e", "l"} |-> IF c = "e" THEN "write" ELSE "list"]
TwoWriters == [c \in {"w", "v"} |-> "write"]
HereA == Node("dir", "A")
NoName == Node("none", None)
Scenes ==
  {Scene(HereA, a, Node("file", "fb"), ReadWrite) :
     a \in {Node("file", "fa"), NoName, Node("link", "z"), Node("fifo", None)}}
  \cup {Scene(x, Node("file", "fa"), Node("file", "fb"), ReadWrite) : x \in {Node("link", "y"), Node("link", "z")}}
  \cup {Scene(HereA, Node("file", "fa"), NoName, ListWrite),
        [Scene(HereA, Node("file", "fa"), NoName, TwoWriters) EXCEPT !.at["o"] = Node("link", "z")]}
FileLengths == [c \in {"w", "v", "e"} |-> CASE c = "w" -> 1 [] c = "v" -> 2 [] c = "e" -> 0]

Command(program, stdin) == [program |-> program, arguments |-> 1, bytes |-> 1, nul |-> FALSE, stdin |-> stdin]
ProcessRequests == {Command("git", None), Command("git", 1), Command("rm", None), Command("gone", None)}

Url(scheme, host, credentials, port) ==
  [scheme |-> scheme, host |-> host, credentials |-> credentials, port |-> port]
Urls == {Url("https", "a", FALSE, 443), Url("https", "b", FALSE, 8080), Url("http", "a", FALSE, 80),
         Url("https", "b", FALSE, 22), Url("https", "a", TRUE, 443), Url("https", "lit", FALSE, 443),
         Url("https", "evil", FALSE, 443), Url("https", "c", FALSE, 443)}
Literals == [h \in {"lit"} |-> "local"]
Bodies == {[textual |-> t, html |-> h, declared |-> d, chunks |-> c] :
             <<t, h>> \in {<<TRUE, FALSE>>, <<TRUE, TRUE>>, <<FALSE, FALSE>>}, d \in {None, 3},
             c \in {<<>>, <<1, 1>>, <<1, 2>>}}

Limit(subject, period, ceilings) ==
  [subject |-> parse_pattern(subject), period |-> period, ceilings |-> ceilings, blank |-> FALSE]
Prices == [m \in {<<"m">>, <<"m", "*">>} |->
             IF m = <<"m">> THEN [input |-> 1, output |-> 2] ELSE [input |-> 0, output |-> 0]]
QuotaDocuments ==
  {[limits |-> <<Limit(<<"alice">>, "hour", [turns |-> 1, total |-> 3]), Limit(<<"a", "*">>, "day", [cost |-> 2]),
                 Limit(<<"*">>, "hour", [input |-> 2])>>, prices |-> Prices],
   [limits |-> <<Limit(<<"*">>, "total", [turns |-> 2]), Limit(<<"alice">>, "hour", [output |-> 2])>>, prices |-> <<>>],
   [limits |-> <<Limit(<<"*">>, "total", [turns |-> 0])>>, prices |-> <<>>]}
QuotaPrincipals == {[id |-> <<"alice">>, owner |-> None], [id |-> <<"aide">>, owner |-> <<"alice">>]}
QuotaCharges == {[model |-> <<"m">>, turns |-> 1, input |-> 1, output |-> 2]}
QuotaLengths == [p \in {"hour", "day"} |-> IF p = "hour" THEN 1 ELSE 2]

\* Deployments of the store components, as their builders describe them.
Audited(days, seconds, retention, interval) ==
  Durable(Every(Pinned(AuditOptions(TRUE, days, seconds), retention), interval), "store")
Deployments ==
  {[store |-> Common("db", TRUE)]}
  \cup
  {[store |-> Common("db", TRUE), side |-> Common("db", FALSE), audit |-> Audited(d, s, p[1], p[2]),
    jobs |-> Common("jobs", FALSE), sched |-> Durable(SchedulerOptions(TRUE), "side")] :
     d \in {None, 0, 3}, s \in {None, 0, 1}, p \in {<<None, None>>, <<2, None>>, <<0, 0>>}}
  \cup
  {[store |-> Common("db", TRUE), embed |-> Common("embedder", FALSE),
    context |-> Durable(Every(ContextOptions(TRUE, r), i), "store"),
    memory |-> Embedding(Every(MemoryOptions(FALSE), i), "embed")] : r \in {None, 2}, i \in {0, UpDefaultInterval}}

-----------------------------------------------------------------------------
(* Inputs of the operators without state: one sample each, tagged by what it is of *)

Row(kind, call, pinned, tokens) == [kind |-> kind, call |-> call, pinned |-> pinned, tokens |-> tokens]
TranscriptRows == {Row("text", None, FALSE, 1), Row("text", None, TRUE, 2), Row("blank", None, FALSE, 1),
         Row("call", "k", FALSE, 1), Row("result", "k", FALSE, 3), Row("other", None, FALSE, 2)}
Transcript(rows) == [i \in DOMAIN rows |->
  [id |-> i, kind |-> rows[i].kind, call |-> rows[i].call, pinned |-> rows[i].pinned, tokens |-> rows[i].tokens]]
WindowBudgets ==
  {[max_records |-> r, max_tokens |-> t, max_part_tokens |-> p] : r \in {None, 2}, t \in {None, 0, 4}, p \in {None, 1}}

TextPart(text) == [type |-> "text", text |-> text, mime |-> None, id |-> None, failed |-> FALSE]
BlobPart == [TextPart("") EXCEPT !.type = "blob", !.mime = "application/pdf"]
CallPart(id) == [TextPart("") EXCEPT !.type = "call", !.id = id]
ResultPart(id, failed) == [TextPart("") EXCEPT !.type = "result", !.id = id, !.failed = failed]
Messages ==
  {[role |-> "system", parts |-> <<TextPart("s")>>], [role |-> "user", parts |-> <<TextPart("u"), BlobPart>>],
   [role |-> "user", parts |-> <<TextPart("u")>>], [role |-> "assistant", parts |-> <<TextPart("")>>],
   [role |-> "assistant", parts |-> <<CallPart("a"), CallPart("b")>>],
   [role |-> "tool", parts |-> <<ResultPart("a", TRUE)>>],
   [role |-> "tool", parts |-> <<ResultPart("b", FALSE), ResultPart("a", FALSE)>>]}

KeyFiles == {None} \cup {[regular |-> r, private |-> p, text |-> t] : r, p \in BOOLEAN, t \in {"clean", "malformed"}}
ProviderSettings ==
  {[refused |-> w, scheme |-> c, host |-> h, variable |-> v, required |-> q, file |-> f, max_output_tokens |-> 1] :
     w \in {{}, {"api_key"}}, c \in {"https", "http"}, h \in {"localhost", "api.example"}, v \in {"", "KEY"},
     q \in BOOLEAN, f \in KeyFiles}

\* A command line of either program, with what it gives; Options names only what differs.
NoFlags(program) ==
  [program |-> program, no_tools |-> FALSE, write |-> FALSE, memory |-> None, exec |-> None, mcp |-> None,
   net |-> None, ephemeral |-> FALSE, database |-> None, session |-> FALSE, socket |-> None, provider |-> None,
   embedding_model |-> None, max_clients |-> None, names_assembly |-> FALSE]
Options ==
  {[NoFlags(g) EXCEPT !.no_tools = n, !.write = w, !.memory = m, !.exec = e, !.ephemeral = t, !.database = d,
                      !.provider = p, !.embedding_model = b, !.mcp = x, !.socket = k] :
     g \in {"aik", "aikd"}, n, w, t \in BOOLEAN, m \in {None, "full"}, <<e, x>> \in {<<None, None>>, <<"on", "on">>},
     d \in {None, "flag.redb"}, p \in {None, "anthropic"}, b \in {None, "blank", "e"}, k \in {None, "sock"}}
Configurations ==
  {Deploy!load_config(
     [policy |-> <<>>, agent |-> [provider |-> "openai", programs |-> "git", servers |-> "s"],
      store |-> <<>>, cli |-> <<>>],
     [rules |-> "r"],
     [policy |-> <<>>, agent |-> [summary |-> s], store |-> t, cli |-> <<>>]) :
     s \in BOOLEAN, t \in {<<>>, [path |-> "env.redb"]}}
Environments ==
  {[xdg_data_home |-> x[1], home |-> x[2], aik_socket |-> x[3], xdg_runtime_dir |-> "run"] :
     x \in {<<"absolute", None, None>>, <<"relative", "home", "env.sock">>, <<None, None, None>>}}
\* Files of every release, of another program and of a careless copy; builds of one history.
DatabaseFiles ==
  {[loose |-> l, tables |-> b, version |-> v, applied |-> <<>>] : l, b \in BOOLEAN, v \in {None} \cup 1 .. 4}
Builds == {[target |-> n, migrations |-> SelectSeq(<<2, 3, 4>>, LAMBDA to : to <= n)] : n \in 1 .. 4}
ScheduleCalls ==
  {[id |-> i, live |-> v, prompt |-> p, session |-> None, trigger |-> t] :
     i \in {"plain", "padded"}, v \in BOOLEAN, p \in {"words", "blank", "oversized"}, t \in {"cron", "overflowing"}}

\* Documents of at most two rules, over what the properties tell apart.
Subject(id) == [id |-> <<id>>, kind |-> "user", owner |-> None]
PolicyRule(on_behalf_of, action, resource, context, decision) ==
  [id |-> parse_pattern(<<"*">>), kind |-> None, on_behalf_of |-> on_behalf_of,
   action |-> parse_pattern(action), resource |-> resource, context |-> context,
   effect |-> [decision |-> decision, blank |-> FALSE]]
PolicyRules ==
  {PolicyRule(b, a, r, c, d) :
     b \in {None, parse_pattern(<<"*">>)}, a \in {<<"fs", "*">>, <<>>},
     r \in {None, parse_pattern(<<"*">>), parse_pattern(<<"home", "*">>)},
     c \in {None, [host |-> "up"]}, d \in {"allow", "deny"}}
PolicyRequests ==
  {[principal |-> p, action |-> <<"fs", "read">>, resource |-> r, context |-> c] :
     p \in {Subject("alice"), [Subject("aide") EXCEPT !.owner = <<"alice">>]},
     r \in {None, <<"home", "a">>, <<"etc">>}, c \in {<<>>, [host |-> "down"]}}
Attributes == {<<>>, [host |-> "up"]}

\* One word of at most three characters, or two of at most one.
Words(longest) == UNION {[1 .. n -> {"a", "quote", "space", "backslash"}] : n \in 0 .. longest}
Lines == {<<w>> : w \in Words(3)} \cup {<<v, w>> : v, w \in Words(1)}

Sampled ==
  \/ \E n \in 0 .. 3, b \in WindowBudgets : \E rows \in [1 .. n -> TranscriptRows] :
       s1 = [of |-> "window", rows |-> Transcript(rows), budget |-> b]
  \/ \E n \in 0 .. 4, limit \in 0 .. 3, bpt \in 1 .. 2 : \E widths \in [1 .. n -> 1 .. 3] :
       s1 = [of |-> "text", widths |-> widths, limit |-> limit, bytes_per_token |-> bpt]
  \/ \E n \in 0 .. 4 : \E ms \in [1 .. n -> Messages] : s1 = [of |-> "transcript", messages |-> ms]
  \/ \E n \in 0 .. 2, k \in 0 .. 3 : \E data \in [1 .. k -> [index : 0 .. 2, width : 0 .. 2]] :
       s1 = [of |-> "embeddings", data |-> data, n |-> n]
  \/ \E n \in 0 .. 3, max \in 0 .. 2, w \in {None, 1, 3} : \E blocks \in [1 .. n -> [type : {"text", "image"}, len : 0 .. 2]] :
       s1 = [of |-> "result", result |-> [blocks |-> blocks, structured |-> w, is_error |-> FALSE], max |-> max]
  \/ \E words \in Lines : s1 = [of |-> "command", words |-> words]
  \/ \E s \in ProviderSettings, e \in {None, "clean", "malformed"} : s1 = [of |-> "key", settings |-> s, env |-> e]
  \/ \E o \in Options, c \in Configurations, v \in Environments :
       s1 = [of |-> "deployment", options |-> o, config |-> c, vars |-> v]
  \/ \E file \in DatabaseFiles, old, new \in Builds : s1 = [of |-> "database", file |-> file, old |-> old, new |-> new]
  \/ \E a \in ScheduleCalls : s1 = [of |-> "job", call |-> a]
  \/ \E n \in 0 .. 2, r \in PolicyRequests, t \in Attributes : \E rules \in [1 .. n -> PolicyRules] :
       s1 = [of |-> "policy", document |-> rules, request |-> r, attributes |-> t]
  \/ \E high \in {0, 1, 127 * 256, 10 * 256, 169 * 256 + 254, 172 * 256 + 16, 192 * 256 + 168, 192 * 256, 198 * 256 + 18,
                  224 * 256, 255 * 256 + 255, 100 * 256 + 64, 100 * 256 + 128, 8 * 256 + 8},
        low \in {0, 1, 2 * 256, 65535} :
       s1 = [of |-> "address", high |-> high, low |-> low]

-----------------------------------------------------------------------------
(* The services *)

Broker == INSTANCE ApprovalBroker WITH
  Requests <- {"q1", "q2"}, Responders <- {"tty", "web"}, MaxPending <- 1, NoHand <- None,
  req <- s1, waiting <- s2, chan <- s3, attached <- s4, hand <- s5, closed <- s6, stopped <- s7,
  overdue <- s8, told <- s9

Stream == INSTANCE ProviderStream WITH
  DiNone <- None, PsScripts <- Scripts, PsMaxBuffer <- 4, PsMaxInput <- 2, PsMaxTime <- 2, PsTimeout <- 2,
  PsDeadlines <- {None, 1},
  ps_script <- s1, ps_kind <- s2, ps_phase <- s3, ps_now <- s4, ps_due <- s5,
  ps_cancelled <- s6, ps_sent <- s7, ps_buffer <- s8, ps_state <- s9, ps_out <- s10

\* The hypotheses of the theorems about the services hold of these instances.
ASSUME ServicesAssumption ==
  /\ HostEndpointConstants
  /\ FetchConstants
  /\ ProcessConstants
  /\ ClientConstants
  /\ LocalConstants
  /\ McpConstants
  /\ HostConnectionConstants
  /\ FileConstants
  /\ UpkeepConstants
  /\ AuditConstants
  /\ QuotaConstants
  /\ MemoryConstants

-----------------------------------------------------------------------------
(* Behaviours *)

slots == <<s1, s2, s3, s4, s5, s6, s7, s8, s9, s10>>
services == <<focus, slots, hoVars, wfVars, prVars, clVars, lsVars, mcVars, ipVars, ftVars, upVars, auVars, quVars, moVars>>

Idle1 == s2 = None /\ s3 = None /\ s4 = None /\ s5 = None /\ s6 = None /\ s7 = None /\ s8 = None /\ s9 = None /\ s10 = None

\* The initial state a service rests in, where it has several.
Resting(service, state) == IF focus = service THEN TRUE ELSE state

Init ==
  /\ focus \in Foci
  /\ HostEndpointInit /\ Resting("endpoint", hoDir = "absent")
  /\ FetchInit /\ Resting("fetch", \A n \in WfNames : wfDns[n] = {"global"})
  /\ ProcessInit
  /\ ClientInit /\ Resting("client", ~clOneShot /\ clSession = None)
  /\ LocalInit /\ Resting("local", ~lsOneShot /\ lsSession = 0 /\ lsStore[LsMaxTurns] = 0 /\ lsRecorder = "none")
  /\ McpInit
  /\ HostConnectionInit
  /\ FileInit /\ Resting("files", /\ ftAt["x"].kind = "dir" /\ ftLeaf["A"].kind = "file" /\ ftLeaf["B"].kind = "file"
                                  /\ "r" \in DOMAIN ftCall /\ ftCall["r"].form = "plain")
  /\ Resting("upkeep", upWith = [store |-> Common("db", TRUE)]) /\ UpkeepInit
  /\ AuditInit
  /\ QuotaInit /\ Resting("quota", quDurable /\ quDoc # None /\ Len(quDoc.limits) = 2)
  /\ MemoryInit
  /\ \/ focus = "values" /\ Sampled /\ Idle1
     \/ focus = "broker" /\ Broker!BrokerInit /\ s10 = None
     \/ focus = "stream" /\ Stream!ProviderInit
     \/ /\ focus \notin {"values", "broker", "stream"}
        /\ s1 = None /\ Idle1

\* The steps of the services on slots, and of those that are extended.
OnSlots ==
  /\ \/ focus = "broker" /\ Broker!BrokerNext /\ UNCHANGED s10
     \/ focus = "stream" /\ Stream!ProviderNext
  /\ UNCHANGED <<focus, hoVars, wfVars, prVars, clVars, lsVars, mcVars, ipVars, ftVars, upVars, auVars, quVars, moVars>>

Extended ==
  \/ focus = "endpoint" /\ HostEndpointNext /\ UNCHANGED <<wfVars, prVars, clVars, lsVars, mcVars, ipVars, ftVars, upVars, auVars, quVars, moVars>>
  \/ focus = "fetch" /\ FetchNext /\ UNCHANGED <<hoVars, prVars, clVars, lsVars, mcVars, ipVars, ftVars, upVars, auVars, quVars, moVars>>
  \/ focus = "process" /\ ProcessNext /\ UNCHANGED <<hoVars, wfVars, clVars, lsVars, mcVars, ipVars, ftVars, upVars, auVars, quVars, moVars>>
  \/ focus = "client" /\ ClientNext /\ UNCHANGED <<hoVars, wfVars, prVars, lsVars, mcVars, ipVars, ftVars, upVars, auVars, quVars, moVars>>
  \/ focus = "local" /\ LocalNext /\ UNCHANGED <<hoVars, wfVars, prVars, clVars, mcVars, ipVars, ftVars, upVars, auVars, quVars, moVars>>
  \/ focus = "mcp" /\ McpNext /\ UNCHANGED <<hoVars, wfVars, prVars, clVars, lsVars, ipVars, ftVars, upVars, auVars, quVars, moVars>>
  \/ focus = "connection" /\ HostConnectionNext /\ UNCHANGED <<hoVars, wfVars, prVars, clVars, lsVars, mcVars, ftVars, upVars, auVars, quVars, moVars>>
  \/ focus = "files" /\ FileNext /\ UNCHANGED <<hoVars, wfVars, prVars, clVars, lsVars, mcVars, ipVars, upVars, auVars, quVars, moVars>>
  \/ focus = "upkeep" /\ UpkeepNext /\ UNCHANGED <<hoVars, wfVars, prVars, clVars, lsVars, mcVars, ipVars, ftVars, auVars, quVars, moVars>>
  \/ focus = "audit" /\ AuditNext /\ UNCHANGED <<hoVars, wfVars, prVars, clVars, lsVars, mcVars, ipVars, ftVars, upVars, quVars, moVars>>
  \/ focus = "quota" /\ QuotaNext /\ UNCHANGED <<hoVars, wfVars, prVars, clVars, lsVars, mcVars, ipVars, ftVars, upVars, auVars, moVars>>
  \/ focus = "memory" /\ MemoryNext /\ UNCHANGED <<hoVars, wfVars, prVars, clVars, lsVars, mcVars, ipVars, ftVars, upVars, auVars, quVars>>

Next == OnSlots \/ (Extended /\ UNCHANGED <<focus, slots>>)

Spec == Init /\ [][Next]_services

-----------------------------------------------------------------------------
(* Properties, each of the service in focus; the modules say what they mean in the code *)

Holds(service, property) == focus = service => property

\* What is waited for arrives whole or not at all: a tool call of a model's answer, wherever the
\* stream is cut (openai, anthropic and ollama stream.rs); and, with two frontends answering at once,
\* a human's answer to an approval question, once and to that question (approval broker.rs, gate.rs).
CallsArriveWhole ==
  /\ Holds("stream", Stream!CallsArriveWhole)
  /\ Holds("broker", Broker!AnswersAreHuman)

\* "It is unique within a message, which is as far as the correlation has to hold"
\* (ollama/src/protocol.rs, convert_tool_call): no two calls of one answer share an id.
CallIdsUnique == Holds("stream", Stream!CallIdsUnique)

\* What is converted keeps what was meant: a text cut to a budget is the longest that fits; a
\* transcript on the wire has every call and answer of it in order; vectors belong to their inputs;
\* a flattened result is bounded; no two commands are shown as one line (context window.rs, the
\* providers' protocol.rs, mcp protocol.rs, exec command_line.rs).
ConversionsKeepMeaning == Holds("values",
  CASE s1.of = "text" -> Windows!TruncationIsLongest(s1.widths, s1.limit, s1.bytes_per_token)
    [] s1.of = "transcript" -> Wire!TranscriptSurvives(s1.messages)
    [] s1.of = "embeddings" -> Wire!EmbeddingsMatchInputs(s1.data, s1.n)
    [] s1.of = "result" -> ResultBounded(s1.result, s1.max)
    [] s1.of = "command" -> \A other \in Lines : RenderIsInjective(s1.words, other)
    [] OTHER -> TRUE)

\* What is decided follows from the inputs that may decide it: a window is the newest run that fits
\* and a plan the oldest records; a key goes only where it may; every deployment that is not refused
\* is wired as it says, what it schedules can run and its file is upgraded alike by any releases; a policy answers by what the request says; no
\* IPv6 form the program names makes an IPv4 address easier to reach, and the translators' form, which
\* it does not name, is taken as any other (context window.rs, summary plan.rs, the providers'
\* settings.rs, runtime wiring.rs and settings.rs, policy rule.rs, net address.rs).
DecisionsFollowTheirInputs == Holds("values",
  CASE s1.of = "window" -> /\ Windows!WindowIsNewestThatFits(s1.rows, s1.budget)
                           /\ Windows!PlanCoversOldest(s1.rows, s1.budget)
    [] s1.of = "key" -> Wire!CredentialsStayPrivate(s1.settings, s1.env)
    [] s1.of = "deployment" -> Deploy!AssemblyIsWired(s1.options, s1.config, s1.vars)
    [] s1.of = "database" -> Deploy!UpgradesCompose(s1.file, s1.old, s1.new)
    [] s1.of = "job" -> Deploy!ScheduledRuns(s1.call)
    [] s1.of = "policy" -> DecidedByTheRequest(s1.document, s1.request, s1.attributes)
    [] s1.of = "address" -> SpellingNeverHelps(s1.high, s1.low)
    [] OTHER -> TRUE)

=============================================================================
