----------------------------- MODULE McpClient -----------------------------
(***************************************************************************)
(* An external tool server: the process, the JSON-RPC session over its     *)
(* pipes, the client that starts it on first use, and the catalogue of its *)
(* tools.  Callers register an id before they write a request and wait for *)
(* the answer the read loop routes to that id; a session ends once, and    *)
(* everyone waiting on it is woken with the reason.                        *)
(* A frame is [id, method, result, error]; an id no client could have      *)
(* issued is McOdd.  A page of tools is [tools, next], a tool [name,       *)
(* input, output].                                                         *)
(***************************************************************************)
EXTENDS Integers, Sequences, FiniteSets, SequencesExt

CONSTANTS
  McNone, McOdd,
  McCallers,
  McTasks,       \* caller -> what it may want: "list", or the remote name of a tool
  McAllowed,     \* the deployment's allowlist; empty allows all
  McHellos,      \* what the server may answer the handshake with: [version, tools]
  McPages,       \* the pages the server may answer a listing with
  McNames,       \* the names of legal characters and length
  McMaxTools, McMaxPages,   \* max_tools; DEFAULT_MAX_LIST_PAGES
  McMaxFrames, McMaxSpawns  \* bounds: frames a server sends, processes started

VARIABLES
  mc_slot,       \* McpClient::connection: the process, or McNone
  mc_lock,       \* who holds that mutex across an await
  mc_alive,      \* processes running
  mc_open,       \* sessions whose Pending is Open
  mc_reader,     \* processes whose read loop runs
  mc_waiting,    \* Pending::Open's map: process -> (id -> caller)
  mc_next,       \* next_id of each process
  mc_inbox,      \* process -> frames not yet read
  mc_asked,      \* process -> ids the server has been sent
  mc_torn,       \* processes whose input holds half a line
  mc_call,       \* caller -> [pc, task, proc, id, answer, pages, cursor, seen, offered, result]
  mc_listed,     \* McpCatalog::listed, or McNone
  mc_stopped,    \* McpComponent::stop has been called, and which process it is ending
  mc_frames, mc_spawns

mcVars == <<mc_slot, mc_lock, mc_alive, mc_open, mc_reader, mc_waiting, mc_next, mc_inbox, mc_asked,
            mc_torn, mc_call, mc_listed, mc_stopped, mc_frames, mc_spawns>>

Procs == 1..McMaxSpawns
Got(kind, id, value) == [kind |-> kind, for |-> id, value |-> value]
NoAnswer == Got("none", McNone, McNone)     \* the oneshot of a call before anything is sent into it
IdleCaller == [pc |-> "idle", task |-> McNone, proc |-> McNone, id |-> McNone, answer |-> NoAnswer,
               pages |-> 0, seen |-> {}, offered |-> <<>>, result |-> McNone]
Has(c, pc) == mc_call[c].pc = pc
Goto(c, pc) == mc_call' = [mc_call EXCEPT ![c].pc = pc]
McEnd(c, result) == mc_call' = [mc_call EXCEPT ![c] = [IdleCaller EXCEPT !.pc = "done", !.result = result]]

---------------------------------------------------------------------------
(* Reading what a server wrote *)

\* What a frame is: it is answered, delivered or dropped accordingly.
classify(f) ==
  CASE f.id = McOdd -> "unroutable"
    [] f.id \notin {McNone, McOdd} /\ f.method -> "request"
    [] f.id \notin {McNone, McOdd} /\ ~f.method ->
         IF f.result = McNone /\ ~f.error THEN "unroutable" ELSE "response"
    [] f.id = McNone /\ f.method -> "notification"
    [] OTHER -> "unroutable"

exposes(remote) == McAllowed = {} \/ remote \in McAllowed

validate_remote_name(name) == name \in McNames
\* An object, or a schema that names no type and is made to say object.
validate_schema(schema) == schema \in {"object", "untyped"}
parse_tool_definition(t) ==
  validate_remote_name(t.name) /\ validate_schema(t.input) /\ (t.output = McNone \/ validate_schema(t.output))
\* One tool that cannot be used fails the page.
parse_tool_list(tools) == \A i \in DOMAIN tools : parse_tool_definition(tools[i])
parse_hello(h) == h.version \in {"2025-06-18", "2025-03-26", "2024-11-05"}
handshake_ok(h) == parse_hello(h) /\ h.tools

\* The text kept of a result, as lengths: [text, truncated, others, on].
flatten_content(blocks, max) ==
  LET less(a, b) == IF a < b THEN 0 ELSE a - b
      add(kept, block) ==
        IF ~kept.on THEN kept
        ELSE IF block.type # "text" THEN [kept EXCEPT !.others = @ + 1]
        ELSE LET text == IF kept.text > 0 THEN kept.text + 1 ELSE 0
                 remaining == less(max, text) IN
             IF block.len > remaining THEN [kept EXCEPT !.text = text + remaining, !.truncated = TRUE, !.on = FALSE]
             ELSE [kept EXCEPT !.text = text + block.len] IN
  FoldLeft(add, [text |-> 0, truncated |-> FALSE, others |-> 0, on |-> TRUE], blocks)
bounded_json(len, max) == IF len = McNone THEN McNone ELSE IF len <= max THEN len ELSE McNone
parse_tool_result(r, max) ==
  [text |-> flatten_content(r.blocks, max).text, structured |-> bounded_json(r.structured, max), is_error |-> r.is_error]

---------------------------------------------------------------------------
(* Session::call *)

Unclosed(c) == TRUE                                 \* a slip: a closed session still takes a call
register_open(c) == mc_call[c].proc \in mc_open

Awaited(n, id, c) ==
  [mc_waiting EXCEPT ![n] = [x \in DOMAIN mc_waiting[n] \cup {id} |-> IF x = id THEN c ELSE mc_waiting[n][x]]]

\* register: an id of its own and a place to be answered at, or the reason the session ended.
register(c) ==
  /\ Has(c, "register")
  /\ LET n == mc_call[c].proc  id == mc_next[n] IN
     /\ mc_next' = [mc_next EXCEPT ![n] = @ + 1]
     /\ IF register_open(c)
        THEN /\ mc_waiting' = Awaited(n, id, c)
             /\ mc_call' = [mc_call EXCEPT ![c].pc = "write", ![c].id = id, ![c].answer = NoAnswer]
        ELSE /\ mc_call' = [mc_call EXCEPT ![c].pc = "failed", ![c].id = McNone]
             /\ UNCHANGED mc_waiting
  /\ UNCHANGED <<mc_slot, mc_lock, mc_alive, mc_open, mc_reader, mc_inbox, mc_asked, mc_torn, mc_listed, mc_stopped, mc_frames, mc_spawns>>

Forgotten(n, id) == [mc_waiting EXCEPT ![n] = [x \in DOMAIN mc_waiting[n] \ {id} |-> mc_waiting[n][x]]]

\* The request line; a process that is gone refuses it, one with half a line pending cannot read it.
WriteRequest(c) ==
  /\ Has(c, "write")
  /\ LET n == mc_call[c].proc IN
     IF n \in mc_alive
     THEN /\ Goto(c, "wait")
          /\ mc_asked' = [mc_asked EXCEPT ![n] = IF n \in mc_torn THEN @ ELSE @ \cup {mc_call[c].id}]
          /\ mc_torn' = mc_torn \ {n}
          /\ UNCHANGED mc_waiting
     ELSE /\ Goto(c, "failed")
          /\ mc_waiting' = Forgotten(n, mc_call[c].id)
          /\ UNCHANGED <<mc_asked, mc_torn>>
  /\ UNCHANGED <<mc_slot, mc_lock, mc_alive, mc_open, mc_reader, mc_next, mc_inbox, mc_listed, mc_stopped, mc_frames, mc_spawns>>

\* The select: cancelled or out of time, or the channel answers.
GiveUp(c) ==
  /\ Has(c, "wait")
  /\ Goto(c, "failed")
  /\ mc_waiting' = Forgotten(mc_call[c].proc, mc_call[c].id)
  /\ UNCHANGED <<mc_slot, mc_lock, mc_alive, mc_open, mc_reader, mc_next, mc_inbox, mc_asked, mc_torn, mc_listed, mc_stopped, mc_frames, mc_spawns>>

Answered(c) ==
  /\ Has(c, "wait") /\ mc_call[c].answer.kind # "none"
  /\ Goto(c, IF mc_call[c].answer.kind = "ok" THEN "answered" ELSE "failed")
  /\ UNCHANGED <<mc_slot, mc_lock, mc_alive, mc_open, mc_reader, mc_waiting, mc_next, mc_inbox, mc_asked, mc_torn, mc_listed, mc_stopped, mc_frames, mc_spawns>>

\* The caller's own future is dropped (a job's timeout), its place kept, perhaps in mid-line.
DropCall(c) ==
  /\ \/ Has(c, "write") /\ mc_torn' \in {mc_torn, mc_torn \cup {mc_call[c].proc}}
     \/ Has(c, "wait") /\ UNCHANGED mc_torn
  /\ McEnd(c, McNone)
  /\ mc_lock' = IF mc_lock = c THEN McNone ELSE mc_lock
  /\ IF mc_lock = c /\ mc_call[c].proc # mc_slot     \* kill_on_drop: nobody else holds it yet
     THEN /\ mc_alive' = mc_alive \ {mc_call[c].proc}
          /\ mc_reader' = mc_reader \ {mc_call[c].proc}
     ELSE UNCHANGED <<mc_alive, mc_reader>>
  /\ UNCHANGED <<mc_slot, mc_open, mc_waiting, mc_next, mc_inbox, mc_asked, mc_listed, mc_stopped, mc_frames, mc_spawns>>

---------------------------------------------------------------------------
(* The server, and the loop that reads it *)

Frame(id, method, result, error) == [id |-> id, method |-> method, result |-> result, error |-> error]

\* Anything a server may write: an answer to what it was asked, again, or to what it was not.
MayWrite(n) ==
  {Frame(id, FALSE, Got("ok", id, page), FALSE) : id \in mc_asked[n] \ {1}, page \in McPages}
    \cup {Frame(id, FALSE, Got("ok", id, hello), FALSE) : id \in mc_asked[n] \cap {1}, hello \in McHellos}
    \cup {Frame(id, FALSE, McNone, TRUE) : id \in mc_asked[n]}
    \cup {Frame(9, FALSE, Got("ok", 9, McNone), FALSE), Frame(9, TRUE, McNone, FALSE),
          Frame(McNone, TRUE, McNone, FALSE), Frame(McOdd, FALSE, McNone, TRUE)}

ServerSends(n) ==
  /\ n \in mc_alive /\ mc_frames < McMaxFrames
  /\ \E f \in MayWrite(n) : mc_inbox' = [mc_inbox EXCEPT ![n] = Append(@, f)]
  /\ mc_frames' = mc_frames + 1
  /\ UNCHANGED <<mc_slot, mc_lock, mc_alive, mc_open, mc_reader, mc_waiting, mc_next, mc_asked, mc_torn, mc_call, mc_listed, mc_stopped, mc_spawns>>

ServerExits(n) ==
  /\ n \in mc_alive
  /\ mc_alive' = mc_alive \ {n}
  /\ UNCHANGED <<mc_slot, mc_lock, mc_open, mc_reader, mc_waiting, mc_next, mc_inbox, mc_asked, mc_torn, mc_call, mc_listed, mc_stopped, mc_frames, mc_spawns>>

\* close: the first reason wins, and everyone waiting is woken with it.
Woken(n) == [c \in McCallers |->
  IF n \in mc_open /\ \E id \in DOMAIN mc_waiting[n] : mc_waiting[n][id] = c /\ mc_call[c].id = id
                        /\ mc_call[c].proc = n /\ mc_call[c].pc \in {"write", "wait"}
  THEN [mc_call[c] EXCEPT !.answer = Got("closed", mc_call[c].id, McNone)] ELSE mc_call[c]]
CloseSession(n, calls) ==
  /\ mc_open' = mc_open \ {n}
  /\ mc_waiting' = [mc_waiting EXCEPT ![n] = [x \in {} |-> McNone]]
  /\ mc_inbox' = [mc_inbox EXCEPT ![n] = <<>>]
  /\ mc_call' = calls

\* take: the sender waiting for the id, removed; a caller that left its place hears nothing.
Delivered(n, f) == [c \in McCallers |->
  IF mc_waiting[n][f.id] = c /\ mc_call[c].id = f.id /\ mc_call[c].proc = n /\ mc_call[c].pc \in {"write", "wait"}
  THEN [mc_call[c] EXCEPT !.answer = IF f.error THEN Got("error", f.id, McNone) ELSE f.result] ELSE mc_call[c]]

\* One frame: an answer to its caller, a refusal to a request, nothing to the rest.
read_loop(n) ==
  /\ n \in mc_reader /\ mc_inbox[n] # <<>>
  /\ LET f == Head(mc_inbox[n]) IN
     \/ /\ classify(f) = "response" /\ f.id \in DOMAIN mc_waiting[n]
        /\ mc_call' = Delivered(n, f)
        /\ mc_waiting' = Forgotten(n, f.id) /\ mc_inbox' = [mc_inbox EXCEPT ![n] = Tail(@)]
        /\ UNCHANGED <<mc_open, mc_reader>>
     \/ /\ classify(f) = "request" /\ n \notin mc_alive       \* it cannot be refused either
        /\ CloseSession(n, Woken(n)) /\ mc_reader' = mc_reader \ {n}
     \/ /\ \/ classify(f) \in {"notification", "unroutable"}
           \/ classify(f) = "request" /\ n \in mc_alive
           \/ classify(f) = "response" /\ f.id \notin DOMAIN mc_waiting[n]
        /\ mc_inbox' = [mc_inbox EXCEPT ![n] = Tail(@)]
        /\ UNCHANGED <<mc_call, mc_waiting, mc_open, mc_reader>>
  /\ UNCHANGED <<mc_slot, mc_lock, mc_alive, mc_next, mc_asked, mc_torn, mc_listed, mc_stopped, mc_frames, mc_spawns>>

\* read_frame: the end of the output, or a frame over the limit, ends the session.
ReadEnds(n) ==
  /\ n \in mc_reader
  /\ mc_inbox[n] = <<>> /\ n \notin mc_alive
  /\ CloseSession(n, Woken(n))
  /\ mc_reader' = mc_reader \ {n}
  /\ UNCHANGED <<mc_slot, mc_lock, mc_alive, mc_next, mc_asked, mc_torn, mc_listed, mc_stopped, mc_frames, mc_spawns>>
FrameTooLarge(n) ==
  /\ n \in mc_reader /\ n \in mc_alive /\ mc_inbox[n] = <<>> /\ mc_frames < McMaxFrames
  /\ CloseSession(n, Woken(n))
  /\ mc_reader' = mc_reader \ {n}
  /\ mc_frames' = mc_frames + 1
  /\ UNCHANGED <<mc_slot, mc_lock, mc_alive, mc_next, mc_asked, mc_torn, mc_listed, mc_stopped, mc_spawns>>

---------------------------------------------------------------------------
(* McpClient and McpCatalog *)

\* call_tool checks the allowlist again before it connects; entries answers from an earlier listing.
Ask(c, task) ==
  /\ Has(c, "idle")
  /\ mc_call' = [mc_call EXCEPT ![c] = [IdleCaller EXCEPT !.task = task,
       !.pc = IF (task = "list" /\ mc_listed # McNone) \/ (task # "list" /\ ~exposes(task)) THEN "done" ELSE "connect",
       !.result = IF task = "list" THEN mc_listed ELSE McNone]]
  /\ UNCHANGED <<mc_slot, mc_lock, mc_alive, mc_open, mc_reader, mc_waiting, mc_next, mc_inbox, mc_asked, mc_torn, mc_listed, mc_stopped, mc_frames, mc_spawns>>

\* A new process and its session; or the program is not on the search path, or does not start.
spawn(c) ==
  \/ /\ mc_spawns < McMaxSpawns
     /\ LET n == mc_spawns + 1 IN
        /\ mc_spawns' = n /\ mc_lock' = c
        /\ mc_alive' = mc_alive \cup {n} /\ mc_open' = mc_open \cup {n} /\ mc_reader' = mc_reader \cup {n}
        /\ mc_call' = [mc_call EXCEPT ![c].pc = "register", ![c].proc = n]
  \/ /\ McEnd(c, McNone)
     /\ UNCHANGED <<mc_lock, mc_alive, mc_open, mc_reader, mc_spawns>>

\* connect: the process there is, or a new one, the lock held through its handshake.
connect(c) ==
  /\ Has(c, "connect") /\ mc_lock = McNone
  /\ \/ /\ mc_slot # McNone
        /\ mc_call' = [mc_call EXCEPT ![c].pc = "register", ![c].proc = mc_slot]
        /\ UNCHANGED <<mc_lock, mc_alive, mc_open, mc_reader, mc_spawns>>
     \/ mc_slot = McNone /\ spawn(c)
  /\ UNCHANGED <<mc_slot, mc_waiting, mc_next, mc_inbox, mc_asked, mc_torn, mc_listed, mc_stopped, mc_frames>>

\* handshake: a server that speaks another revision, or serves no tools, is shut down.
handshake(c) ==
  /\ mc_lock = c /\ mc_call[c].pc \in {"answered", "failed"}
  /\ mc_lock' = McNone
  /\ LET n == mc_call[c].proc IN
     \/ /\ Has(c, "answered") /\ n \in mc_alive /\ handshake_ok(mc_call[c].answer.value)
        /\ mc_slot' = n
        /\ mc_call' = [mc_call EXCEPT ![c].pc = "register", ![c].answer = NoAnswer]
        /\ UNCHANGED <<mc_alive, mc_open, mc_reader, mc_waiting, mc_inbox>>
     \/ /\ mc_slot' = mc_slot
        /\ mc_alive' = mc_alive \ {n} /\ mc_reader' = mc_reader \ {n}
        /\ CloseSession(n, [mc_call EXCEPT ![c] = [IdleCaller EXCEPT !.pc = "done"]])
  /\ UNCHANGED <<mc_next, mc_asked, mc_torn, mc_listed, mc_stopped, mc_frames, mc_spawns>>

\* The listing ends with its last page, a cursor seen before, or the last page that is followed.
more_pages(call, page) == /\ page.next # McNone /\ page.next \notin call.seen
                          /\ call.pages + 1 < McMaxPages
Exposed(offered) == {name \in ToSet(offered) : exposes(name)}
\* A name the deployment lists and the server does not offer fails the listing.
Listing(offered) == IF McAllowed \subseteq Exposed(offered) THEN Exposed(offered) ELSE McNone

list_tools(c) ==
  /\ mc_lock # c /\ Has(c, "answered") /\ mc_call[c].task = "list"
  /\ LET call == mc_call[c]
         page == call.answer.value
         offered == call.offered \o [i \in DOMAIN page.tools |-> page.tools[i].name]
         fits == parse_tool_list(page.tools) /\ Len(offered) <= McMaxTools IN
     \/ /\ ~fits
        /\ McEnd(c, McNone) /\ UNCHANGED mc_listed
     \/ /\ fits /\ more_pages(call, page)
        /\ mc_call' = [mc_call EXCEPT ![c].pc = "register", ![c].pages = @ + 1, ![c].seen = @ \cup {page.next}, ![c].offered = offered]
        /\ UNCHANGED mc_listed
     \/ /\ fits /\ ~more_pages(call, page)
        /\ McEnd(c, Listing(offered))
        /\ mc_listed' = IF Listing(offered) = McNone THEN mc_listed ELSE Listing(offered)
  /\ UNCHANGED <<mc_slot, mc_lock, mc_alive, mc_open, mc_reader, mc_waiting, mc_next, mc_inbox, mc_asked, mc_torn, mc_stopped, mc_frames, mc_spawns>>

call_tool(c) ==
  /\ mc_lock # c
  /\ \/ Has(c, "answered") /\ mc_call[c].task # "list" /\ McEnd(c, mc_call[c].answer)
     \/ Has(c, "failed") /\ McEnd(c, McNone)
  /\ UNCHANGED <<mc_slot, mc_lock, mc_alive, mc_open, mc_reader, mc_waiting, mc_next, mc_inbox, mc_asked, mc_torn, mc_listed, mc_stopped, mc_frames, mc_spawns>>

---------------------------------------------------------------------------
(* McpComponent::stop *)

\* The connection is taken out under its lock, and ended after the lock is let go.
ShutdownTake ==
  /\ mc_stopped = McNone /\ mc_lock = McNone
  /\ mc_stopped' = IF mc_slot = McNone THEN 0 ELSE mc_slot
  /\ mc_slot' = McNone
  /\ mc_listed' = IF mc_slot = McNone THEN McNone ELSE mc_listed
  /\ UNCHANGED <<mc_lock, mc_alive, mc_open, mc_reader, mc_waiting, mc_next, mc_inbox, mc_asked, mc_torn, mc_call, mc_frames, mc_spawns>>

ShutdownKill ==
  /\ mc_stopped \in Procs
  /\ mc_alive' = mc_alive \ {mc_stopped} /\ mc_reader' = mc_reader \ {mc_stopped}
  /\ CloseSession(mc_stopped, Woken(mc_stopped))
  /\ mc_stopped' = 0 /\ mc_listed' = McNone
  /\ UNCHANGED <<mc_slot, mc_lock, mc_next, mc_asked, mc_torn, mc_frames, mc_spawns>>

---------------------------------------------------------------------------

McpInit ==
  /\ mc_slot = McNone /\ mc_lock = McNone /\ mc_listed = McNone /\ mc_stopped = McNone
  /\ mc_alive = {} /\ mc_open = {} /\ mc_reader = {} /\ mc_torn = {}
  /\ mc_waiting = [n \in Procs |-> [x \in {} |-> McNone]]
  /\ mc_next = [n \in Procs |-> 1]
  /\ mc_inbox = [n \in Procs |-> <<>>] /\ mc_asked = [n \in Procs |-> {}]
  /\ mc_call = [c \in McCallers |-> IdleCaller]
  /\ mc_frames = 0 /\ mc_spawns = 0

McpNext ==
  \/ \E c \in McCallers :
       \/ \E task \in McTasks[c] : Ask(c, task)
       \/ connect(c) \/ handshake(c) \/ list_tools(c) \/ call_tool(c)
       \/ register(c) \/ WriteRequest(c) \/ GiveUp(c) \/ Answered(c) \/ DropCall(c)
  \/ \E n \in Procs : ServerSends(n) \/ ServerExits(n) \/ read_loop(n) \/ ReadEnds(n) \/ FrameTooLarge(n)
  \/ ShutdownTake \/ ShutdownKill

McpSpec == McpInit /\ [][McpNext]_mcVars

\* The absent value is no process and nobody's name.
McpConstants == McNone \notin McCallers \cup Nat /\ McMaxSpawns \in Nat

---------------------------------------------------------------------------
(* Properties *)

\* A caller is handed only the server's answer to the request it made itself, however late, often or
\* out of order the server answers; once its session has ended no caller is left waiting for an
\* answer that cannot come; and every process that runs is held by something that will end it: the
\* client, a handshake, or the component that is stopping it.
CallersAreServed ==
  /\ \A c \in McCallers : mc_call[c].answer.kind # "none" /\ mc_call[c].pc \in {"write", "wait", "answered"}
       => mc_call[c].answer.for = mc_call[c].id
  /\ \A c \in McCallers : Has(c, "wait") /\ mc_call[c].proc \notin mc_open => mc_call[c].answer.kind # "none"
  /\ \A n \in mc_alive : n = mc_slot \/ n = mc_stopped \/ \E c \in McCallers : mc_lock = c /\ mc_call[c].proc = n
  /\ mc_listed # McNone => \A name \in mc_listed : exposes(name)

\* What an agent is shown of a result is bounded however many blocks a server sends: the text outgrows
\* its bound by no more than a separator per block and the notice of the cut, and a structured result over it is left out whole.
ResultBounded(r, max) ==
  LET shown == parse_tool_result(r, max) IN
  /\ shown.text <= max + Len(r.blocks)
  /\ shown.structured # McNone => shown.structured <= max /\ shown.structured = r.structured
=============================================================================
