--------------------------- MODULE ProviderStream ---------------------------
(***************************************************************************)
(* One call to a model provider: the request under its deadline, and the   *)
(* stream it answers with, read line by line out of whatever pieces the    *)
(* connection delivers, into chunks: text, whole tool calls, and one last  *)
(* word.  The server is a script of lines; the network may cut it          *)
(* anywhere.  A line is several pieces on the wire, its newline the last.  *)
(***************************************************************************)
EXTENDS Dialects

CONSTANTS
  PsScripts,     \* [dialect, status, lines, calls: what the model meant to call]
  PsMaxBuffer,   \* MAX_EVENT_BYTES, in pieces
  PsMaxInput,    \* MAX_TOOL_INPUT_BYTES, in pieces of arguments
  PsMaxTime, PsTimeout,   \* request_timeout_ms; the bound on time
  PsDeadlines    \* deadlines a caller may bring, DiNone included

VARIABLES
  ps_script, ps_kind,   \* what is asked: "complete" or "stream"
  ps_phase,      \* idle, opening, body, streaming, ended
  ps_now, ps_due,       \* the clock; the instant Deadline::compute gave
  ps_cancelled,
  ps_sent,       \* pieces the server has sent
  ps_buffer,     \* pieces not yet read as a line
  ps_state,      \* StreamState: [pending, reason, usage, saw]
  ps_out         \* what the caller was handed

psVars == <<ps_script, ps_kind, ps_phase, ps_now, ps_due, ps_cancelled, ps_sent, ps_buffer, ps_state, ps_out>>

Delta == [type |-> "delta"]
DoneChunk(reason) == [type |-> "done", reason |-> reason]
Failed(why) == [type |-> "error", why |-> why]
IsLast(chunk) == chunk.type \in {"done", "error"}

\* A step over one line: the chunks it yields, the state it leaves, and whether the stream goes on.
Continue(state, chunks) == [state |-> state, chunks |-> chunks, ended |-> FALSE]
End(state, chunks) == [state |-> state, chunks |-> chunks, ended |-> TRUE]

NewState == [pending |-> <<>>, reason |-> DiNone, usage |-> 0, saw |-> FALSE]
Usage(state, event) == IF event.usage > 0 THEN event.usage ELSE state.usage

---------------------------------------------------------------------------
(* OpenAI: fragments tied together by an index, handed over at a finish reason *)

\* pending is a sequence, the fragments of index i at i + 1: [id, name, arguments].
Fresh == [id |-> DiNone, name |-> DiNone, arguments |-> <<>>]
First(known, given) == IF known # DiNone THEN known ELSE given
Opened(pending, at) == IF at <= Len(pending) THEN pending ELSE pending \o [i \in 1..(at - Len(pending)) |-> Fresh]
Fits(p, fragment) == Len(p.arguments) + Len(fragment) <= PsMaxInput

\* One fragment; DiNone once one had no index or made the arguments too large.
accumulate(pending, f) ==
  IF pending = DiNone \/ f.index = DiNone THEN DiNone
  ELSE LET at == f.index + 1
           grown == Opened(pending, at)
           p == grown[at] IN
       IF ~Fits(p, f.arguments) THEN DiNone
       ELSE [grown EXCEPT ![at] = [id |-> First(p.id, f.id), name |-> First(p.name, f.name),
                                   arguments |-> p.arguments \o f.arguments]]

Matched(p) == p.id # DiNone /\ p.name # DiNone /\ arguments_parse(p.arguments)
complete(p) == CallChunk(p.id, parse_arguments(p.arguments))

\* Every call pending, in the order of their indexes; the first that is unfinished fails the stream.
flush(state) ==
  LET held == SelectSeq(state.pending, LAMBDA p : p # Fresh)
      bad == {i \in DOMAIN held : ~Matched(held[i])} IN
  [ok |-> bad = {}, chunks |-> [i \in DOMAIN held |-> complete(held[i])],
   state |-> [state EXCEPT !.pending = <<>>, !.saw = state.saw \/ held # <<>>]]

openai_done(state) == DoneChunk(IF state.saw THEN "tool_calls" ELSE openai_finish(state.reason))

openai_step(event, state) ==
  LET said == IF event.text THEN <<Delta>> ELSE <<>>
      held == [state EXCEPT !.usage = Usage(state, event), !.pending = FoldLeft(accumulate, state.pending, event.calls)]
      flushed == flush([held EXCEPT !.reason = event.reason]) IN
  CASE event.type = "comment" -> Continue(state, <<>>)
    [] event.type = "garbage" -> End(state, <<Failed("decode")>>)
    [] event.type = "error" -> End(state, <<Failed("server")>>)
    [] event.type = "[DONE]" ->
         IF flush(state).ok THEN End(flush(state).state, Append(flush(state).chunks, openai_done(flush(state).state)))
         ELSE End(state, <<Failed("call")>>)
    [] event.type = "long" -> Continue(state, <<Delta>>)
    [] OTHER -> IF held.pending = DiNone THEN End(state, <<Failed("call")>>)
                ELSE IF event.reason = DiNone THEN Continue(held, said)
                ELSE IF flushed.ok THEN Continue(flushed.state, said \o flushed.chunks)
                ELSE End(held, <<Failed("call")>>)

\* The connection closed: a turn that got as far as a finish reason is complete.
FlushesOnClose(state) == flush(state).chunks     \* a slip: what was pending is handed over
openai_closed(state) == IF state.reason # DiNone THEN <<openai_done(state)>> ELSE <<>>

---------------------------------------------------------------------------
(* Anthropic: a block opened, extended and stopped by its index *)

anthropic_step(event, state) ==
  LET at == event.index + 1
      open == at \in DOMAIN state.pending /\ state.pending[at] # Fresh IN
  IF event.index = DiNone /\ event.type \in {"text", "block_start", "input_json", "block_stop"}
  THEN End(state, <<Failed("call")>>)     \* index_of
  ELSE
  CASE event.type = "garbage" -> End(state, <<Failed("decode")>>)
    [] event.type = "error" -> End(state, <<Failed("server")>>)
    [] event.type = "text" -> Continue(state, <<Delta>>)
    [] event.type = "block_start" ->
         IF event.id = DiNone \/ event.name = DiNone THEN End(state, <<Failed("call")>>)
         ELSE Continue([state EXCEPT !.pending =
                [Opened(@, at) EXCEPT ![at] = [id |-> event.id, name |-> event.name, arguments |-> <<>>]]], <<>>)
    [] event.type = "input_json" ->
         IF open /\ Fits(state.pending[at], event.arguments)
         THEN Continue([state EXCEPT !.pending[at].arguments = @ \o event.arguments], <<>>)
         ELSE End(state, <<Failed("call")>>)
    [] event.type = "block_stop" ->
         IF ~open THEN Continue(state, <<>>)
         ELSE IF Matched(state.pending[at])
         THEN Continue([state EXCEPT !.pending[at] = Fresh, !.saw = TRUE], <<complete(state.pending[at])>>)
         ELSE End(state, <<Failed("call")>>)
    [] event.type = "message_delta" ->
         Continue([state EXCEPT !.usage = Usage(state, event), !.reason = First(event.reason, state.reason)], <<>>)
    [] event.type = "message_stop" ->
         End(state, <<DoneChunk(IF state.saw THEN "tool_calls" ELSE anthropic_finish(state.reason))>>)
    [] OTHER -> Continue(state, <<>>)     \* comments, pings, and what came later

---------------------------------------------------------------------------
(* Ollama: each line whole *)

parse_line(event, state) ==
  CASE event.type = "comment" -> Continue(state, <<>>)     \* blank
    [] event.type = "garbage" -> End(state, <<Failed("decode")>>)
    [] event.type = "error" -> End(state, <<Failed("server")>>)
    [] event.type = "done" -> End(state, <<DoneChunk(ollama_finish(event.reason))>>)
    [] OTHER -> Continue(state, (IF event.text THEN <<Delta>> ELSE <<>>) \o
                  [i \in DOMAIN event.calls |-> CallChunk(ollama_call_id(event.calls[i], i - 1), event.calls[i].arguments)])

\* A last line without its newline is still read, unless it does not parse.
ollama_closed(state) ==
  IF ps_buffer = <<>> \/ ~Last(ps_buffer).full THEN <<>>
  ELSE LET line == parse_line(ps_script.lines[ps_buffer[1].line], state).chunks IN
       IF line # <<>> /\ Last(line).type = "error" THEN <<>> ELSE line

NothingLeft(state) == <<>>

---------------------------------------------------------------------------
(* The call *)

Late == ps_now >= ps_due
Finish(chunks) == ps_phase' = "ended" /\ ps_out' = ps_out \o chunks

compute(deadline) == IF deadline # DiNone /\ deadline < PsTimeout THEN deadline ELSE PsTimeout

OpenCall(dialect, script, kind, deadline) ==
  /\ ps_phase = "idle" /\ script.dialect = dialect
  /\ ps_phase' = "opening"
  /\ ps_script' = script /\ ps_kind' = kind /\ ps_due' = compute(deadline)
  /\ UNCHANGED <<ps_now, ps_cancelled, ps_sent, ps_buffer, ps_state, ps_out>>

openai_complete(script, deadline) == OpenCall("openai", script, "complete", deadline)
anthropic_complete(script, deadline) == OpenCall("anthropic", script, "complete", deadline)
ollama_complete(script, deadline) == OpenCall("ollama", script, "complete", deadline)
openai_stream(script, deadline) == OpenCall("openai", script, "stream", deadline)
anthropic_stream(script, deadline) == OpenCall("anthropic", script, "stream", deadline)
ollama_stream(script, deadline) == OpenCall("ollama", script, "stream", deadline)

\* race: the token first, then the deadline, ahead of any answer.
race_lost ==
  /\ ps_phase = "opening" \/ (ps_phase = "body" /\ ps_kind = "complete")
  /\ ps_cancelled \/ Late
  /\ Finish(<<Failed(IF ps_cancelled THEN "cancelled" ELSE "timeout")>>)
  /\ UNCHANGED <<ps_script, ps_kind, ps_now, ps_due, ps_cancelled, ps_sent, ps_buffer, ps_state>>

InTime == ~ps_cancelled /\ ~Late

SendFails ==
  /\ ps_phase = "opening" /\ InTime
  /\ Finish(<<Failed("transient")>>)
  /\ UNCHANGED <<ps_script, ps_kind, ps_now, ps_due, ps_cancelled, ps_sent, ps_buffer, ps_state>>

\* The status and headers; ensure_success reads the body of a failure, stream() outside the race.
Headers ==
  /\ ps_phase = "opening" /\ InTime
  /\ ps_phase' = IF ps_kind = "stream" /\ ps_script.status = 200 THEN "streaming" ELSE "body"
  /\ UNCHANGED <<ps_script, ps_kind, ps_now, ps_due, ps_cancelled, ps_sent, ps_buffer, ps_state, ps_out>>

ensure_success ==
  /\ ps_phase = "body" /\ ps_script.status # 200
  /\ ps_kind = "complete" => InTime
  /\ Finish(<<Failed(IF transient_status(ps_script.status) THEN "transient" ELSE "refused")>>)
  /\ UNCHANGED <<ps_script, ps_kind, ps_now, ps_due, ps_cancelled, ps_sent, ps_buffer, ps_state>>

\* A whole answer, converted, or a body that does not decode.
CompleteCall ==
  /\ ps_phase = "body" /\ ps_script.status = 200 /\ InTime
  /\ LET answer == CASE ps_script.dialect = "openai" -> openai_response(ps_script.body)
                     [] ps_script.dialect = "anthropic" -> anthropic_response(ps_script.body)
                     [] OTHER -> ollama_response(ps_script.body) IN
     \/ answer # DiNone /\ Finish(answer.calls \o <<DoneChunk(answer.reason)>>)
     \/ Finish(<<Failed(IF answer = DiNone THEN "call" ELSE "decode")>>)
  /\ UNCHANGED <<ps_script, ps_kind, ps_now, ps_due, ps_cancelled, ps_sent, ps_buffer, ps_state>>

---------------------------------------------------------------------------
(* The stream *)

PiecesOf(event) == IF event.type = "long" THEN PsMaxBuffer + 2 ELSE 3
Wire == FlattenSeq([k \in DOMAIN ps_script.lines |->
          LET n == PiecesOf(ps_script.lines[k]) IN
          [i \in 1..n |-> [line |-> k, full |-> i >= n - 1, end |-> i = n]]])
HasLine == \E i \in DOMAIN ps_buffer : ps_buffer[i].end
TooLarge(bounded) == bounded /\ Len(ps_buffer) > PsMaxBuffer
Waiting(bounded) == ps_phase = "streaming" /\ ~HasLine /\ ~TooLarge(bounded)

\* The connection delivers the next few pieces; only a reader with no line in hand asks.
Deliver(bounded, n) ==
  /\ Waiting(bounded) /\ InTime
  /\ ps_sent + n <= Len(Wire)
  /\ ps_sent' = ps_sent + n
  /\ ps_buffer' = ps_buffer \o SubSeq(Wire, ps_sent + 1, ps_sent + n)
  /\ UNCHANGED <<ps_script, ps_kind, ps_phase, ps_now, ps_due, ps_cancelled, ps_state, ps_out>>

\* The line at the front of the buffer, and what the dialect's reader makes of it.
FrontLine == ps_script.lines[ps_buffer[1].line]
TakeLine(done) ==
  /\ ps_phase = "streaming" /\ HasLine
  /\ ps_state' = done.state
  /\ ps_out' = ps_out \o done.chunks
  /\ ps_phase' = IF done.ended THEN "ended" ELSE "streaming"
  /\ ps_buffer' = SubSeq(ps_buffer, PiecesOf(FrontLine) + 1, Len(ps_buffer))
  /\ UNCHANGED <<ps_script, ps_kind, ps_now, ps_due, ps_cancelled, ps_sent>>

Interrupted(bounded) ==
  /\ Waiting(bounded) /\ ~InTime
  /\ Finish(<<Failed(IF ps_cancelled THEN "cancelled" ELSE "timeout")>>)
  /\ UNCHANGED <<ps_script, ps_kind, ps_now, ps_due, ps_cancelled, ps_sent, ps_buffer, ps_state>>

Broken(bounded) ==
  /\ Waiting(bounded) /\ InTime
  /\ Finish(<<Failed("transient")>>)
  /\ UNCHANGED <<ps_script, ps_kind, ps_now, ps_due, ps_cancelled, ps_sent, ps_buffer, ps_state>>

\* The connection closes, after the last line or before it.
Cut(bounded, rest) ==
  /\ Waiting(bounded) /\ InTime
  /\ Finish(rest)
  /\ UNCHANGED <<ps_script, ps_kind, ps_now, ps_due, ps_cancelled, ps_sent, ps_buffer, ps_state>>

Overflow ==
  /\ ps_phase = "streaming" /\ ~HasLine /\ TooLarge(TRUE)
  /\ Finish(<<Failed("too large")>>)
  /\ UNCHANGED <<ps_script, ps_kind, ps_now, ps_due, ps_cancelled, ps_sent, ps_buffer, ps_state>>

Read(bounded, done, rest) ==
  \/ TakeLine(done) \/ Interrupted(bounded) \/ Broken(bounded) \/ Cut(bounded, rest)
  \/ \E n \in {1, 2, 5} : Deliver(bounded, n)

\* Only the two SSE readers bound what they buffer.
openai_sse_chunks == ps_phase = "streaming" /\ ps_script.dialect = "openai" /\ (Read(TRUE, openai_step(FrontLine, ps_state), openai_closed(ps_state)) \/ Overflow)
anthropic_sse_chunks == ps_phase = "streaming" /\ ps_script.dialect = "anthropic" /\ (Read(TRUE, anthropic_step(FrontLine, ps_state), NothingLeft(ps_state)) \/ Overflow)
ndjson_chunks == ps_phase = "streaming" /\ ps_script.dialect = "ollama" /\ Read(FALSE, parse_line(FrontLine, ps_state), ollama_closed(ps_state))

CancelCall ==
  /\ ~ps_cancelled /\ ps_cancelled' = TRUE
  /\ UNCHANGED <<ps_script, ps_kind, ps_phase, ps_now, ps_due, ps_sent, ps_buffer, ps_state, ps_out>>

ProviderTick ==
  /\ ps_now < PsMaxTime
  /\ ps_now' = ps_now + 1
  /\ UNCHANGED <<ps_script, ps_kind, ps_phase, ps_due, ps_cancelled, ps_sent, ps_buffer, ps_state, ps_out>>

ProviderInit ==
  /\ ps_script = DiNone /\ ps_kind = DiNone /\ ps_phase = "idle"
  /\ ps_now = 0 /\ ps_due = 0 /\ ps_cancelled = FALSE
  /\ ps_sent = 0 /\ ps_buffer = <<>> /\ ps_state = NewState /\ ps_out = <<>>

ProviderNext ==
  \/ \E s \in PsScripts, d \in PsDeadlines :
       \/ openai_complete(s, d) \/ anthropic_complete(s, d) \/ ollama_complete(s, d)
       \/ openai_stream(s, d) \/ anthropic_stream(s, d) \/ ollama_stream(s, d)
  \/ race_lost \/ SendFails \/ Headers \/ ensure_success \/ CompleteCall
  \/ openai_sse_chunks \/ anthropic_sse_chunks \/ ndjson_chunks
  \/ CancelCall \/ ProviderTick

---------------------------------------------------------------------------
(* Properties *)

CallsOut == SelectSeq(ps_out, LAMBDA c : c.type = "call")
\* As the server named them: a stand-in id is no id.
AsNamed == [i \in DOMAIN CallsOut |->
  IF ps_script.dialect # "ollama" THEN CallsOut[i]
  ELSE [CallsOut[i] EXCEPT !.id = IF @[1] = "given" THEN @[2] ELSE DiNone]]

\* A tool call that reaches the agent is one the model finished making, with all of its arguments and
\* in order, however the connection split the lines and wherever it was cut; a stream that says it is
\* done has handed over every call of the turn and, where the server's word for the ending cannot be
\* trusted, says so from the calls; and nothing follows the last word.
CallsArriveWhole ==
  /\ ps_phase # "idle" => IsPrefix(AsNamed, ps_script.calls)
  /\ \A i \in DOMAIN ps_out : IsLast(ps_out[i]) => i = Len(ps_out)
  /\ (ps_phase = "ended" /\ ps_out # <<>> /\ Last(ps_out).type = "done") =>
       /\ AsNamed = ps_script.calls
       /\ ps_kind = "complete" \/ ps_script.dialect # "ollama" =>
            (Last(ps_out).reason = "tool_calls" <=> CallsOut # <<>>)

\* A stand-in id "is unique within a message, which is as far as the correlation has to hold"
\* (ollama protocol.rs, convert_tool_call): no two calls of one answer share an id.
CallIdsUnique == \A i, j \in DOMAIN CallsOut : CallsOut[i].id = CallsOut[j].id => i = j
=============================================================================
