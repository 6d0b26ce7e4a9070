--------------------------- MODULE HostConnection ---------------------------
(***************************************************************************)
(* The clients of a host process: the accept loop of crates/daemon/src/    *)
(* server.rs, one connection from its handshake to its last frame          *)
(* (connection.rs), what a request does (host.rs), and the frames and      *)
(* errors of crates/ipc/src/{frame,protocol,client}.rs.                    *)
(*                                                                         *)
(* A connection is several tasks: the reader, which owns its lifetime; the *)
(* writer, the only one at the socket, fed by a bounded channel; a         *)
(* forwarder of approval questions for an interactive client; one task for *)
(* each call, and a pump of updates for each prompt.  They are joined with *)
(* bounds: what does not end in time is aborted, and whatever runs outside *)
(* the task set (the writer, a pump) is only let go of.                    *)
(***************************************************************************)
EXTENDS Naturals, Sequences, FiniteSets, SequencesExt

CONSTANTS IpClients,         \* connections that may be attempted
          IpRequests,        \* the calls a client may send, by kind
          IpMaxConnections,  \* max_connections
          IpMaxCalls,        \* MAX_CALLS_IN_FLIGHT
          IpOutbound,        \* OUTBOUND_CAPACITY
          IpRunsJobs,        \* whether this host runs scheduled jobs
          IpMaxServed,       \* bound: connections served, not refused
          IpMaxIds,          \* bound: calls sent on one connection
          IpMaxUpdates,      \* bound: updates of one turn
          IpNone             \* nothing

VARIABLES ipSt,        \* each connection: its reader's place
          ipHeld,      \* who holds a gate for it: "reader", "forwarder"
          ipIn,        \* frames the client sent and nobody has read
          ipBlocked,   \* the frame the reader waits to send
          ipQuestion,  \* the question the forwarder waits to send
          ipTable,     \* the in-flight table
          ipTask,      \* each call's task, by id
          ipUpdates,   \* updates between a prompt and its pump
          ipCancelled, \* calls whose token is cancelled
          ipEnded,     \* whether the connection's token is cancelled
          ipOut,       \* the outbound channel
          ipWriter,    \* "up", or "dead" after a failed write
          ipWire,      \* what the client received
          ipNext,      \* the client's next id
          ipStopping   \* the host's shutdown token

ipCall == <<ipTable, ipTask, ipUpdates, ipCancelled>>
ipPipe == <<ipOut, ipWriter, ipWire>>
ipMine == <<ipIn, ipBlocked, ipQuestion, ipNext>>
ipVars == <<ipSt, ipHeld, ipCall, ipPipe, ipMine, ipEnded, ipStopping>>

IpIds == 1 .. IpMaxIds

(* The requests of the protocol: a turn, a job to schedule, a prune, the   *)
(* listings and removals ("plain"), and the two answered inline.           *)
Requests == IpRequests \cap {"prompt", "schedule", "prune", "plain", "cancel", "approve"}

-----------------------------------------------------------------------------
(* Frames and errors                                                       *)

Update(id) == [type |-> "update", id |-> id]
Final(id, how) == [type |-> how, id |-> id]
Approval == [type |-> "approval", id |-> 0]
Closing == [type |-> "closing", id |-> 0]

IsFinal(f) == f.type \in {"done", "failed"}

(* frame::read() of what is left of a stream: a prefix that is cut short   *)
(* counts as a close between frames; an empty or an oversized frame, a     *)
(* body that is cut short and one that is no message are errors.           *)
frame_read(prefix, length, body) ==
  CASE prefix = "cut" -> "none"
    [] prefix = "whole" /\ length \in {"zero", "oversized"} -> "error"
    [] prefix = "whole" /\ length = "fits" -> IF body = "message" THEN "message" ELSE "error"

(* The channel has room, or its receiver is gone: then a send fails at     *)
(* once and the frame is lost.                                             *)
CanSend(c) == ipWriter[c] = "dead" \/ Len(ipOut[c]) < IpOutbound

Sent(c, f) ==
  [ipOut EXCEPT ![c] = IF ipWriter[c] = "dead" THEN @ ELSE Append(@, f)]

-----------------------------------------------------------------------------
(* The accept loop                                                         *)

Tasks == {c \in IpClients : ipSt[c] \in {"refusing", "arriving", "open", "closing", "flushing"}}

(* Server::run(): a peer of this account is served, or refused with a      *)
(* reason when the task set is full: tasks that refuse count too.          *)
accept_peer(c) ==
  /\ ipSt[c] = "away" /\ ~ipStopping
  /\ \/ /\ Cardinality(Tasks) >= IpMaxConnections
        /\ ipSt' = [ipSt EXCEPT ![c] = "refusing"]
     \/ /\ Cardinality(Tasks) < IpMaxConnections
        /\ Cardinality({d \in IpClients : ipSt[d] \notin {"away", "refusing", "refused"}})
             < IpMaxServed
        /\ ipSt' = [ipSt EXCEPT ![c] = "arriving"]
  /\ UNCHANGED <<ipHeld, ipCall, ipPipe, ipMine, ipEnded, ipStopping>>

(* refuse(): told, half-closed, drained, within REFUSAL_TIMEOUT.           *)
refuse(c) ==
  /\ ipSt[c] = "refusing"
  /\ ipSt' = [ipSt EXCEPT ![c] = "refused"]
  /\ UNCHANGED <<ipHeld, ipCall, ipPipe, ipMine, ipEnded, ipStopping>>

(* The head of serve(): a handshake that failed, came too late or finds    *)
(* the host stopping ends there; otherwise an interactive client's gate is *)
(* taken before the welcome is written, which may fail, and the tasks      *)
(* start.                                                                  *)
serve_handshake(c) ==
  /\ ipSt[c] = "arriving"
  /\ \/ ipSt' = [ipSt EXCEPT ![c] = "gone"] /\ UNCHANGED ipHeld
     \/ /\ ~ipStopping
        /\ \E interactive \in BOOLEAN :
             ipHeld' = [ipHeld EXCEPT ![c] =
                          IF interactive THEN {"reader", "forwarder"} ELSE {}]
        /\ ipSt' = [ipSt EXCEPT ![c] = "open"]
  /\ UNCHANGED <<ipCall, ipPipe, ipMine, ipEnded, ipStopping>>

-----------------------------------------------------------------------------
(* The client's side                                                       *)

(* Client::send(): the next id, and the frame on its way.                  *)
client_send(c) ==
  /\ ipSt[c] = "open" /\ ipNext[c] <= IpMaxIds
  /\ \E r \in Requests :
       ipIn' = [ipIn EXCEPT ![c] = Append(@, [id |-> ipNext[c], request |-> r])]
  /\ ipNext' = [ipNext EXCEPT ![c] = @ + 1]
  /\ UNCHANGED <<ipSt, ipHeld, ipCall, ipPipe, ipBlocked, ipQuestion, ipEnded, ipStopping>>

-----------------------------------------------------------------------------
(* The reader                                                              *)

(* answer(): a connection that holds no gate cannot answer a question; one *)
(* that does gets the broker's word, which may be that nobody is waiting.  *)
answer_approval(c) == IF "reader" \in ipHeld[c] THEN {"done", "failed"} ELSE {"failed"}

(* dispatch() of a request that is answered inline: a cancellation signals *)
(* a call in the table, and one of an unknown call is no error.  The       *)
(* answer waits for the channel inside the reader.                         *)
dispatch_inline(c, call) ==
  /\ call.request \in {"cancel", "approve"}
  /\ ipCancelled' = IF call.request = "cancel" /\ call.id - 1 \in ipTable[c]
                      THEN [ipCancelled EXCEPT ![c] = @ \cup {call.id - 1}]
                      ELSE ipCancelled
  /\ \E how \in IF call.request = "cancel" THEN {"done"} ELSE answer_approval(c) :
       ipBlocked' = [ipBlocked EXCEPT ![c] = Final(call.id, how)]
  /\ UNCHANGED <<ipTable, ipTask, ipUpdates>>

(* dispatch() of the others: a task of their own while the table has room, *)
(* and an error that names the limit when it has none.                     *)
dispatch_task(c, call) ==
  /\ call.request \notin {"cancel", "approve"}
  /\ IF Cardinality(ipTable[c]) >= IpMaxCalls
       THEN /\ ipBlocked' = [ipBlocked EXCEPT ![c] = Final(call.id, "failed")]
            /\ UNCHANGED <<ipTable, ipTask>>
       ELSE /\ ipTable' = [ipTable EXCEPT ![c] = @ \cup {call.id}]
            /\ ipTask' = [ipTask EXCEPT ![c][call.id] = call.request]
            /\ UNCHANGED ipBlocked
  /\ UNCHANGED <<ipUpdates, ipCancelled>>

(* read_loop(): biased towards shutdown and the connection's own end.      *)
read_call(c) ==
  /\ ipSt[c] = "open" /\ ipBlocked[c] = IpNone
  /\ ~ipStopping /\ ~ipEnded[c]
  /\ ipIn[c] # <<>>
  /\ dispatch_inline(c, Head(ipIn[c])) \/ dispatch_task(c, Head(ipIn[c]))
  /\ ipIn' = [ipIn EXCEPT ![c] = Tail(@)]
  /\ UNCHANGED <<ipSt, ipHeld, ipPipe, ipQuestion, ipNext, ipEnded, ipStopping>>

unblock_reader(c) ==
  /\ ipSt[c] = "open" /\ ipBlocked[c] # IpNone /\ CanSend(c)
  /\ ipOut' = Sent(c, ipBlocked[c])
  /\ ipBlocked' = [ipBlocked EXCEPT ![c] = IpNone]
  /\ UNCHANGED <<ipSt, ipHeld, ipCall, ipWriter, ipWire, ipIn, ipQuestion, ipNext,
                 ipEnded, ipStopping>>

(* The reader returns: the host stops, and says so if the channel has room *)
(* for it; the connection was cancelled; the client is gone or sent a      *)
(* frame that cannot be read.  Then connection.cancel() and drop(gate).    *)
reader_ends(c) ==
  /\ ipSt[c] = "open" /\ ipBlocked[c] = IpNone
  /\ \/ ipStopping \/ ipEnded[c]
     \/ \E prefix \in {"cut", "whole"}, body \in {"cut", "message"} :
          frame_read(prefix, "fits", body) # "message"
  /\ ipOut' = IF ipStopping /\ ipWriter[c] = "up" /\ Len(ipOut[c]) < IpOutbound
                THEN [ipOut EXCEPT ![c] = Append(@, Closing)]
                ELSE ipOut
  /\ ipSt' = [ipSt EXCEPT ![c] = "closing"]
  /\ ipEnded' = [ipEnded EXCEPT ![c] = TRUE]
  /\ ipHeld' = [ipHeld EXCEPT ![c] = @ \ {"reader"}]
  /\ UNCHANGED <<ipCall, ipWriter, ipWire, ipMine, ipStopping>>

-----------------------------------------------------------------------------
(* Calls, pumps, the forwarder and the writer                              *)

(* Host::prompt() reports an update as it goes.                            *)
prompt_update(c, id) ==
  /\ ipTask[c][id] = "prompt"
  /\ Len(SelectSeq(ipWire[c] \o ipOut[c], LAMBDA f : f = Update(id)))
       + ipUpdates[c][id] < IpMaxUpdates
  /\ ipUpdates' = [ipUpdates EXCEPT ![c][id] = @ + 1]
  /\ UNCHANGED <<ipSt, ipHeld, ipTable, ipTask, ipCancelled, ipPipe, ipMine, ipEnded, ipStopping>>

(* The pump forwards it through the bounded channel.                       *)
pump(c, id) ==
  /\ ipUpdates[c][id] > 0 /\ CanSend(c)
  /\ ipOut' = Sent(c, Update(id))
  /\ ipUpdates' = [ipUpdates EXCEPT ![c][id] = @ - 1]
  /\ UNCHANGED <<ipSt, ipHeld, ipTable, ipTask, ipCancelled, ipWriter, ipWire, ipMine,
                 ipEnded, ipStopping>>

(* Host::schedule(): refused where nobody runs jobs and for a blank prompt.*)
schedule_request == IF IpRunsJobs THEN {"done", "failed"} ELSE {"failed"}

(* Host::prune(): a cutoff before the epoch is refused before the sweep.   *)
prune_request == {"done", "failed"}

(* Host::handle() and prompt(): what a request may come to.  A turn whose  *)
(* stream ended without a response is a failure too.                       *)
handle(task) ==
  CASE task = "schedule" -> schedule_request
    [] task = "prune" -> prune_request
    [] task \in {"prompt", "plain"} -> {"done", "failed"}

call_returns(c, id) ==
  /\ ipTask[c][id] \in Requests
  /\ \E how \in handle(ipTask[c][id]) :
       ipTask' = [ipTask EXCEPT ![c][id] = how]
  /\ UNCHANGED <<ipSt, ipHeld, ipTable, ipUpdates, ipCancelled, ipPipe, ipMine, ipEnded, ipStopping>>

(* The plausible slip: the answer does not wait for the pump.              *)
answer_at_once(c, id) ==
  /\ ipTask[c][id] \in {"done", "failed"}
  /\ CanSend(c)
  /\ ipOut' = Sent(c, Final(id, ipTask[c][id]))
  /\ ipTable' = [ipTable EXCEPT ![c] = @ \ {id}]
  /\ ipTask' = [ipTask EXCEPT ![c][id] = "over"]
  /\ UNCHANGED <<ipSt, ipHeld, ipUpdates, ipCancelled, ipWriter, ipWire, ipMine,
                 ipEnded, ipStopping>>

(* The task's end: the pump has been awaited, the entry leaves the table,  *)
(* and the one final answer waits for the channel.                         *)
answer_call(c, id) ==
  /\ ipTask[c][id] \in {"done", "failed"}
  /\ ipUpdates[c][id] = 0
  /\ \/ /\ id \in ipTable[c]
        /\ ipTable' = [ipTable EXCEPT ![c] = @ \ {id}]
        /\ UNCHANGED <<ipOut, ipTask>>
     \/ /\ id \notin ipTable[c] /\ CanSend(c)
        /\ ipOut' = Sent(c, Final(id, ipTask[c][id]))
        /\ ipTask' = [ipTask EXCEPT ![c][id] = "over"]
        /\ UNCHANGED ipTable
  /\ UNCHANGED <<ipSt, ipHeld, ipUpdates, ipCancelled, ipWriter, ipWire, ipMine,
                 ipEnded, ipStopping>>

(* The forwarder takes a question from the broker, sends it when there is  *)
(* room, and ends when it sees the connection cancelled, which it does not *)
(* while it waits to send.                                                 *)
forward_question(c) ==
  /\ "forwarder" \in ipHeld[c]
  /\ \/ /\ ipQuestion[c] = IpNone /\ ~ipEnded[c]
        /\ ~ \E k \in DOMAIN (ipOut[c] \o ipWire[c]) : (ipOut[c] \o ipWire[c])[k] = Approval
        /\ ipQuestion' = [ipQuestion EXCEPT ![c] = Approval]
        /\ UNCHANGED <<ipOut, ipHeld>>
     \/ /\ ipQuestion[c] # IpNone /\ CanSend(c)
        /\ ipOut' = Sent(c, Approval)
        /\ ipQuestion' = [ipQuestion EXCEPT ![c] = IpNone]
        /\ ipHeld' = IF ipWriter[c] = "dead" THEN [ipHeld EXCEPT ![c] = @ \ {"forwarder"}] ELSE ipHeld
     \/ /\ ipQuestion[c] = IpNone /\ ipEnded[c]
        /\ ipHeld' = [ipHeld EXCEPT ![c] = @ \ {"forwarder"}]
        /\ UNCHANGED <<ipOut, ipQuestion>>
  /\ UNCHANGED <<ipSt, ipCall, ipWriter, ipWire, ipIn, ipBlocked, ipNext, ipEnded, ipStopping>>

(* The writer: a frame reaches the client, or the write fails and cancels  *)
(* the connection.                                                         *)
write_frame(c) ==
  /\ ipWriter[c] = "up" /\ ipOut[c] # <<>>
  /\ \/ /\ ipWire' = [ipWire EXCEPT ![c] = Append(@, Head(ipOut[c]))]
        /\ ipOut' = [ipOut EXCEPT ![c] = Tail(@)]
        /\ UNCHANGED <<ipWriter, ipEnded>>
     \/ /\ ipWriter' = [ipWriter EXCEPT ![c] = "dead"]
        /\ ipOut' = [ipOut EXCEPT ![c] = <<>>]
        /\ ipEnded' = [ipEnded EXCEPT ![c] = TRUE]
        /\ UNCHANGED ipWire
  /\ UNCHANGED <<ipSt, ipHeld, ipCall, ipMine, ipStopping>>

-----------------------------------------------------------------------------
(* Teardown                                                                *)

Live(c) == {id \in IpIds : ipTask[c][id] \notin {"none", "over", "aborted"}}

(* The plausible slip: what is still running after the wait is left to it. *)
leave_tasks(c) ==
  /\ ipSt[c] = "closing"
  /\ ipSt' = [ipSt EXCEPT ![c] = "flushing"]
  /\ UNCHANGED <<ipHeld, ipCall, ipPipe, ipMine, ipEnded, ipStopping>>

(* tasks.join_next() until none is left, or CALL_TIMEOUT and an abort: the *)
(* calls and the forwarder stop where they are, and the pumps go on.       *)
join_tasks(c) ==
  /\ ipSt[c] = "closing"
  /\ ipSt' = [ipSt EXCEPT ![c] = "flushing"]
  /\ ipTask' = [ipTask EXCEPT ![c] =
                  [id \in IpIds |-> IF id \in Live(c) THEN "aborted" ELSE ipTask[c][id]]]
  /\ ipHeld' = [ipHeld EXCEPT ![c] = {}]
  /\ ipQuestion' = [ipQuestion EXCEPT ![c] = IpNone]
  /\ UNCHANGED <<ipTable, ipUpdates, ipCancelled, ipPipe, ipIn, ipBlocked, ipNext,
                 ipEnded, ipStopping>>

(* The sender is dropped and the writer waited for, FLUSH_TIMEOUT at most; *)
(* a writer that has not finished is let go of, not aborted.               *)
flush_writer(c) ==
  /\ ipSt[c] = "flushing"
  /\ ipSt' = [ipSt EXCEPT ![c] = "gone"]
  /\ UNCHANGED <<ipHeld, ipCall, ipPipe, ipMine, ipEnded, ipStopping>>

(* A signal: the shutdown token, of which every connection's is a child.   *)
shutdown_host ==
  /\ ~ipStopping
  /\ ipStopping' = TRUE
  /\ ipEnded' = [c \in IpClients |-> TRUE]
  /\ UNCHANGED <<ipSt, ipHeld, ipCall, ipPipe, ipMine>>

(* SHUTDOWN_TIMEOUT passed: the connections left are aborted wherever they *)
(* are, their task sets with them.                                         *)
abort_connections ==
  /\ ipStopping /\ Tasks # {}
  /\ ipSt' = [c \in IpClients |-> IF c \in Tasks THEN "gone" ELSE ipSt[c]]
  /\ ipTask' = [c \in IpClients |-> [id \in IpIds |->
                  IF c \in Tasks /\ id \in Live(c) THEN "aborted" ELSE ipTask[c][id]]]
  /\ ipHeld' = [c \in IpClients |-> IF c \in Tasks THEN {} ELSE ipHeld[c]]
  /\ ipQuestion' = [c \in IpClients |-> IF c \in Tasks THEN IpNone ELSE ipQuestion[c]]
  /\ ipBlocked' = [c \in IpClients |-> IF c \in Tasks THEN IpNone ELSE ipBlocked[c]]
  /\ UNCHANGED <<ipTable, ipUpdates, ipCancelled, ipPipe, ipIn, ipNext, ipEnded, ipStopping>>

-----------------------------------------------------------------------------
HostConnectionInit ==
  /\ ipSt = [c \in IpClients |-> "away"]
  /\ ipHeld = [c \in IpClients |-> {}]
  /\ ipIn = [c \in IpClients |-> <<>>]
  /\ ipBlocked = [c \in IpClients |-> IpNone]
  /\ ipQuestion = [c \in IpClients |-> IpNone]
  /\ ipTable = [c \in IpClients |-> {}]
  /\ ipTask = [c \in IpClients |-> [id \in IpIds |-> "none"]]
  /\ ipUpdates = [c \in IpClients |-> [id \in IpIds |-> 0]]
  /\ ipCancelled = [c \in IpClients |-> {}]
  /\ ipEnded = [c \in IpClients |-> FALSE]
  /\ ipOut = [c \in IpClients |-> <<>>]
  /\ ipWriter = [c \in IpClients |-> "up"]
  /\ ipWire = [c \in IpClients |-> <<>>]
  /\ ipNext = [c \in IpClients |-> 1]
  /\ ipStopping = FALSE

ConnectionSteps(c) ==
  \/ accept_peer(c) \/ refuse(c) \/ serve_handshake(c) \/ client_send(c)
  \/ read_call(c) \/ unblock_reader(c) \/ reader_ends(c)
  \/ forward_question(c) \/ write_frame(c) \/ join_tasks(c) \/ flush_writer(c)
  \/ \E id \in IpIds : \/ prompt_update(c, id) \/ pump(c, id)
                       \/ call_returns(c, id) \/ answer_call(c, id)

HostConnectionNext ==
  \/ \E c \in IpClients : ConnectionSteps(c)
  \/ shutdown_host
  \/ abort_connections

HostConnectionSpec == HostConnectionInit /\ [][HostConnectionNext]_ipVars

(* The limits are numbers.                                                 *)
HostConnectionConstants == IpMaxIds \in Nat /\ IpMaxCalls \in Nat

-----------------------------------------------------------------------------
(* What a client receives for a call is its updates and then at most one   *)
(* answer, with nothing after it, whatever was cancelled, aborted or still *)
(* in a pump when it was sent (connection.rs dispatch: the pump is awaited *)
(* before the answer, and an aborted call answers nothing).                *)
AnswerIsLast ==
  \A c \in IpClients :
    LET seen == ipWire[c] \o ipOut[c] IN
      \A j, k \in DOMAIN seen :
        j < k /\ seen[j].id = seen[k].id /\ seen[j].id # 0 => ~IsFinal(seen[j])

(* A connection that is over asserts nothing and works for nobody: no gate *)
(* is held for it, by its reader or by a forwarder that was waiting to     *)
(* send, and no call of it still runs, so a client that was killed in      *)
(* mid-question cannot make the broker wait for it; and no more calls run  *)
(* than the connection's limit (connection.rs, the teardown).              *)
GoneIsGone ==
  \A c \in IpClients :
    /\ ipSt[c] \in {"flushing", "gone"} => ipHeld[c] = {} /\ Live(c) = {}
    /\ Cardinality({id \in Live(c) : ipTask[c][id] \notin {"done", "failed"}}) <= IpMaxCalls

(* Both: a connection ends clean, for its client and for the host.         *)
ConnectionEndsClean == AnswerIsLast /\ GoneIsGone
=============================================================================
