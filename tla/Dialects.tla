------------------------------ MODULE Dialects ------------------------------
(***************************************************************************)
(* The three wire dialects a model provider speaks (OpenAI, Anthropic,     *)
(* Ollama): how a transcript becomes a request, and how a whole answer or  *)
(* a batch of embeddings is read.  A part of a message is                  *)
(*   [type: text | blob | call | result, text, mime, id, failed]           *)
(* and a turn on the wire is [role, texts, calls, answers], an answer      *)
(* being <<the id of the call it answers, whether the tool failed>>.       *)
(***************************************************************************)
EXTENDS Integers, Sequences, FiniteSets, SequencesExt

CONSTANT DiNone

Roles == {"system", "user", "assistant", "tool"}
Parts(m, type) == SelectSeq(m.parts, LAMBDA p : p.type = type)
Said(m) == SelectSeq(m.parts, LAMBDA p : p.type = "blob" \/ (p.type = "text" /\ p.text # ""))
Ids(parts) == [i \in DOMAIN parts |-> parts[i].id]
Answers(parts) == [i \in DOMAIN parts |-> <<parts[i].id, parts[i].failed>>]
Turn(role, texts, calls, answers) == [role |-> role, texts |-> texts, calls |-> calls, answers |-> answers]

---------------------------------------------------------------------------
(* Which part may stand on whose message; anything else is Unsupported *)

image_part(mime) == mime = "image/png"
openai_takes(role, p) ==
  \/ p.type = "text" /\ role # "tool"
  \/ p.type = "blob" /\ role = "user" /\ image_part(p.mime)
  \/ p.type = "call" /\ role = "assistant"
  \/ p.type = "result" /\ role = "tool"

blob_block(mime) == mime \in {"image/png", "application/pdf"}
anthropic_takes(role, p) ==
  \/ p.type = "text"
  \/ p.type = "blob" /\ role # "system" /\ blob_block(p.mime)
  \/ p.type = "call" /\ role = "assistant"
  \/ p.type = "result" /\ role = "tool"

ollama_takes(role, p) ==
  \/ p.type = "text"
  \/ p.type = "call" /\ role = "assistant"
  \/ p.type = "result" /\ role = "tool"

Accepts(takes(_, _), ms) == \A k \in DOMAIN ms : \A i \in DOMAIN ms[k].parts : takes(ms[k].role, ms[k].parts[i])

---------------------------------------------------------------------------
(* The transcript on the wire *)

FirstAnswerOnly(m) == <<Turn("tool", <<>>, <<>>, SubSeq(Answers(m.parts), 1, 1))>>   \* a slip
tool_messages(m) == [i \in DOMAIN m.parts |-> Turn("tool", <<>>, <<>>, <<Answers(m.parts)[i]>>)]

\* plain_message and assistant_message: a turn with nothing to say is left out.
openai_message(m) ==
  IF m.role = "tool" THEN tool_messages(m)
  ELSE IF Said(m) = <<>> /\ Parts(m, "call") = <<>> THEN <<>>
  ELSE <<Turn(m.role, Said(m), Ids(Parts(m, "call")), <<>>)>>
openai_messages(ms) == FlattenSeq([k \in DOMAIN ms |-> openai_message(ms[k])])

convert_blocks(m) ==
  Turn(IF m.role = "assistant" THEN "assistant" ELSE "user", Said(m), Ids(Parts(m, "call")), Answers(Parts(m, "result")))
NoBlocks(t) == t.texts = <<>> /\ t.calls = <<>> /\ t.answers = <<>>

\* Adjacent turns of one wire role are one turn; system text travels apart.
anthropic_messages(ms) ==
  LET extend(wire, m) ==
        LET t == convert_blocks(m) IN
        IF NoBlocks(t) THEN wire
        ELSE IF wire = <<>> \/ Last(wire).role # t.role THEN Append(wire, t)
        ELSE Append(Front(wire), Turn(t.role, Last(wire).texts \o t.texts,
                                      Last(wire).calls \o t.calls, Last(wire).answers \o t.answers)) IN
  FoldLeft(extend, <<>>, SelectSeq(ms, LAMBDA m : m.role # "system"))
anthropic_system(ms) == FlattenSeq([k \in DOMAIN ms |-> IF ms[k].role = "system" THEN Said(ms[k]) ELSE <<>>])

\* One message is one wire message, whose tool_call_id is that of the last result it holds.
ollama_message(m) ==
  LET results == Answers(Parts(m, "result")) IN
  Turn(m.role, Said(m), Ids(Parts(m, "call")), IF results = <<>> THEN <<>> ELSE <<Last(results)>>)
ollama_messages(ms) == [k \in DOMAIN ms |-> ollama_message(ms[k])]

openai_parameters(keys) ==
  CASE keys \cap {"model", "messages", "tools", "stream", "stream_options"} # {} -> "invalid"
    [] "n" \in keys -> "unsupported"
    [] OTHER -> "ok"
\* max_tokens is taken out of the parameters, and must be positive.
anthropic_parameters(keys, max_tokens) ==
  CASE keys \cap {"model", "messages", "system", "tools", "stream"} # {} -> "invalid"
    [] "thinking" \in keys -> "unsupported"
    [] "max_tokens" \in keys /\ max_tokens = 0 -> "invalid"
    [] OTHER -> "ok"

openai_request(ms, keys) ==
  IF Accepts(openai_takes, ms) /\ openai_parameters(keys) = "ok" THEN openai_messages(ms) ELSE DiNone
anthropic_request(ms, keys, max_tokens) ==
  IF Accepts(anthropic_takes, ms) /\ anthropic_parameters(keys, max_tokens) = "ok" THEN anthropic_messages(ms) ELSE DiNone
build_chat_request(ms) == IF Accepts(ollama_takes, ms) THEN ollama_messages(ms) ELSE DiNone

---------------------------------------------------------------------------
(* Reading an answer *)

openai_finish(reason) ==
  CASE reason = "length" -> "length"
    [] reason \in {"tool_calls", "function_call"} -> "tool_calls"
    [] reason = "content_filter" -> "filtered"
    [] OTHER -> "stop"
anthropic_finish(reason) ==
  CASE reason = "max_tokens" -> "length" [] reason = "tool_use" -> "tool_calls"
    [] reason = "refusal" -> "filtered" [] OTHER -> "stop"
ollama_finish(reason) == IF reason = "length" THEN "length" ELSE "stop"

\* Arguments arrive as the pieces of a JSON text: none at all, or the whole of an object.
Whole == <<"{", "}">>
Pieces(arguments) == SelectSeq(arguments, LAMBDA piece : piece # "")
arguments_parse(arguments) == Pieces(arguments) \in {<<>>, Whole}
\* What a call carries once parsed: an absent text reads as an empty object.
parse_arguments(arguments) == Pieces(arguments)

\* convert_tool_call: Ollama's stand-in for an id the server did not give.
ollama_call_id(call, position) ==
  IF call.id \notin {DiNone, ""} THEN <<"given", call.id, 0>>
  ELSE <<"made", call.name, IF call.index = DiNone THEN position ELSE call.index>>

CallChunk(id, arguments) == [type |-> "call", id |-> id, arguments |-> arguments]
Called(calls) == [i \in DOMAIN calls |-> CallChunk(calls[i].id, parse_arguments(calls[i].arguments))]
Answer(calls, reason) == [calls |-> calls, reason |-> IF calls # <<>> THEN "tool_calls" ELSE reason]

\* convert_response: a body [calls, reason] read whole; a call that cannot be matched fails it.
convert_tool_call(call) == call.id \notin {DiNone, ""} /\ call.name \notin {DiNone, ""} /\ arguments_parse(call.arguments)
openai_response(body) ==
  IF \E i \in DOMAIN body.calls : ~convert_tool_call(body.calls[i]) THEN DiNone
  ELSE Answer(Called(body.calls), openai_finish(body.reason))
convert_block(call) == call.id # DiNone /\ call.name # DiNone
anthropic_response(body) ==
  IF \E i \in DOMAIN body.calls : ~convert_block(body.calls[i]) THEN DiNone
  ELSE Answer(Called(body.calls), anthropic_finish(body.reason))
ollama_response(body) ==
  Answer([i \in DOMAIN body.calls |-> CallChunk(ollama_call_id(body.calls[i], i - 1), body.calls[i].arguments)],
         ollama_finish(body.reason))

---------------------------------------------------------------------------
(* Embeddings: entries [index, width], for n inputs *)

SameWidth(vectors) ==
  vectors # <<>> => vectors[1].width > 0 /\ \A i \in DOMAIN vectors : vectors[i].width = vectors[1].width

\* convert_embeddings: each entry into the slot it claims, which must exist and be free.
openai_embeddings(data, n) ==
  LET place(slots, entry) ==
        IF slots = DiNone THEN DiNone
        ELSE IF entry.index + 1 \notin DOMAIN slots THEN DiNone
        ELSE IF slots[entry.index + 1] # DiNone THEN DiNone
        ELSE [slots EXCEPT ![entry.index + 1] = entry]
      placed == FoldLeft(place, [i \in 1..n |-> DiNone], data) IN
  IF Len(data) # n \/ placed = DiNone THEN DiNone
  ELSE IF \E i \in 1..n : placed[i] = DiNone THEN DiNone
  ELSE IF SameWidth(placed) THEN placed ELSE DiNone
openai_embed(data, n) == IF n = 0 THEN <<>> ELSE openai_embeddings(data, n)
ollama_embeddings(data, n) == IF Len(data) = n /\ SameWidth(data) THEN data ELSE DiNone
ollama_embed(data, n) == IF n = 0 THEN <<>> ELSE ollama_embeddings(data, n)

---------------------------------------------------------------------------
(* Where a credential comes from, and where it may be sent *)

is_loopback(host) == host \in {"localhost", "127.0.0.1", "[::1]"}
validate_endpoint(s) == s.scheme = "https" \/ (s.scheme = "http" /\ is_loopback(s.host))
openai_settings(s) ==
  /\ s.refused = {}     \* read: no key, and no retry policy, written into the section
  /\ validate_endpoint(s) /\ s.variable # ""
  /\ s.required \/ is_loopback(s.host)
anthropic_settings(s) == s.refused = {} /\ validate_endpoint(s) /\ s.variable # "" /\ s.max_output_tokens > 0

\* Where a key is found and what becomes of it: "key", "none", or "refused".
ApiKey(raw) == IF raw = "clean" THEN "key" ELSE "refused"     \* empty, too long, or not visible ASCII
check_permissions(f) == f.private
from_file(f) == IF f.regular /\ check_permissions(f) THEN ApiKey(f.text) ELSE "refused"
FallsBack(s, env) ==                 \* a slip: a file that cannot be used is passed over
  CASE s.file # DiNone /\ from_file(s.file) = "key" -> "key"
    [] env # DiNone -> ApiKey(env)
    [] OTHER -> IF s.required THEN "refused" ELSE "none"
openai_resolve(s, env) ==
  CASE s.file # DiNone -> from_file(s.file)
    [] s.file = DiNone /\ env # DiNone -> ApiKey(env)
    [] OTHER -> IF s.required THEN "refused" ELSE "none"
anthropic_resolve(s, env) ==
  CASE s.file # DiNone -> from_file(s.file)
    [] s.file = DiNone /\ env # DiNone -> ApiKey(env)
    [] OTHER -> "refused"

\* A component that starts holds the key it will send, or none.
openai_init(s, env) == IF openai_settings(s) THEN openai_resolve(s, env) ELSE "refused"
anthropic_init(s, env) == IF anthropic_settings(s) THEN anthropic_resolve(s, env) ELSE "refused"

transient_status(status) == status \in {408, 409, 429, 500, 502, 503, 504, 529}

---------------------------------------------------------------------------
(* Properties *)

Texts(turns) == FlattenSeq([k \in DOMAIN turns |-> turns[k].texts])
SaidBy(ms, roles) == FlattenSeq([k \in DOMAIN ms |-> IF ms[k].role \in roles THEN Said(ms[k]) ELSE <<>>])
Flat(turns) == [calls |-> FlattenSeq([k \in DOMAIN turns |-> turns[k].calls]),
                answers |-> FlattenSeq([k \in DOMAIN turns |-> turns[k].answers])]
Said2(ms) == [calls |-> FlattenSeq([k \in DOMAIN ms |-> Ids(Parts(ms[k], "call"))]),
              answers |-> FlattenSeq([k \in DOMAIN ms |-> Answers(Parts(ms[k], "result"))])]

\* Every word, call and answer of a transcript is on the wire, in order, an answer still naming its
\* call and still saying whether the tool failed, in each of the three dialects (Ollama's only where
\* a message holds one result, which is all the agent loop writes: run.rs appends one message per
\* result), and the turns the Messages API is sent alternate between user and assistant.
TranscriptSurvives(ms) ==
  /\ openai_request(ms, {}) # DiNone =>
       LET wire == openai_request(ms, {}) IN
       Flat(wire) = Said2(ms) /\ Texts(wire) = SaidBy(ms, Roles)
  /\ anthropic_request(ms, {}, 1) # DiNone =>
       LET wire == anthropic_request(ms, {}, 1) IN
       /\ Flat(wire) = Said2(ms)
       /\ Texts(wire) = SaidBy(ms, Roles \ {"system"}) /\ anthropic_system(ms) = SaidBy(ms, {"system"})
       /\ \A k \in 1..(Len(wire) - 1) : wire[k].role # wire[k + 1].role
  /\ (build_chat_request(ms) # DiNone /\ \A k \in DOMAIN ms : Len(Parts(ms[k], "result")) <= 1) =>
       LET wire == build_chat_request(ms) IN
       Flat(wire) = Said2(ms) /\ Texts(wire) = SaidBy(ms, Roles)

\* A batch of embeddings is accepted exactly when the server claimed every input once with vectors of
\* one positive width, and then vector i is the one claimed for input i, in whatever order they came;
\* Ollama's, whose vectors claim nothing, when there is one vector of one positive width per input.
\* Nothing to embed is no request.
EmbeddingsMatchInputs(data, n) ==
  LET vectors == openai_embed(data, n)
      good == /\ \A i \in 0..(n - 1) : Cardinality({k \in DOMAIN data : data[k].index = i}) = 1
              /\ Len(data) = n
              /\ \A j, k \in DOMAIN data : data[j].width = data[k].width /\ data[j].width > 0 IN
  /\ n > 0 => (vectors # DiNone <=> good)
  /\ n = 0 => vectors = <<>> /\ ollama_embed(data, n) = <<>>
  /\ (n > 0 /\ ollama_embed(data, n) # DiNone) => Len(ollama_embed(data, n)) = n /\ SameWidth(data)
  /\ (n > 0 /\ good) => \A i \in 1..n : vectors[i].index = i - 1

\* A key never crosses a network in the clear and a conversation never leaves the machine without one;
\* a configured file decides alone, so a typo in its name is never answered by another key or by none.
CredentialsStayPrivate(s, env) ==
  /\ openai_init(s, env) = "key" => s.scheme = "https" \/ is_loopback(s.host)
  /\ openai_init(s, env) = "none" => is_loopback(s.host)
  /\ anthropic_init(s, env) \in {"key", "refused"}
  /\ anthropic_init(s, env) = "key" => s.scheme = "https" \/ is_loopback(s.host)
  /\ s.file # DiNone => \A e \in {DiNone, "clean", "malformed"} : openai_init(s, e) = openai_init(s, env)
=============================================================================
