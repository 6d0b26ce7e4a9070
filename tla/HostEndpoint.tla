---------------------------- MODULE HostEndpoint ----------------------------
(***************************************************************************)
(* Where a host process is found and who is let in: the socket and the     *)
(* token file of crates/ipc (listener.rs, endpoint.rs, credentials.rs,     *)
(* client.rs) and the order in which crates/daemon/src/lib.rs brings them  *)
(* up and takes them down, with processes that crash and start again.      *)
(*                                                                         *)
(* A host is one incarnation of the daemon: a process that is started, and *)
(* never the same one twice, so that its token is its identity.  The       *)
(* database lock (redb, external) is what excludes a second host: a host   *)
(* run with --ephemeral takes none, and HoEphemeral is empty where the     *)
(* property is checked.                                                    *)
(***************************************************************************)
EXTENDS Naturals, FiniteSets

CONSTANTS HoHosts,      \* incarnations of the daemon
          HoEphemeral,  \* those that open no database
          HoClients,    \* client processes
          HoNone        \* no host, no token

VARIABLES hoAt,      \* how far each host has come
          hoDir,     \* the socket's directory: "absent", "private" or "loose"
          hoSocket,  \* what is at the socket's path
          hoToken,   \* whose token the token file holds
          hoLock,    \* the host that holds the database
          hoClient   \* what each client has read and reached

hoVars == <<hoAt, hoDir, hoSocket, hoToken, hoLock, hoClient>>

Absent == [kind |-> "absent", private |-> TRUE, of |-> HoNone]

SocketOf(h) == [kind |-> "socket", private |-> TRUE, of |-> h]

(* A host's listener exists from the bind until the Listener is dropped.   *)
Listens(h) == h # HoNone /\ hoAt[h] \in {"serving", "draining", "removing", "removed"}

(* is_listening(): whether somebody answers at the path.                   *)
is_listening == hoSocket.kind = "socket" /\ Listens(hoSocket.of)

-----------------------------------------------------------------------------
(* Credentials and places                                                  *)

(* verify_private() of a path: not a link, ours, and closed to others; all *)
(* three ways of failing it are one here, "loose".                         *)
verify_private(private) == private

(* Token::matches(): equal in every byte.                                  *)
token_matches(token, presented) == token = presented

-----------------------------------------------------------------------------
(* A host coming up: daemon::serve(), serve_assembled() and Listener::bind *)

Move(h, to) == hoAt' = [hoAt EXCEPT ![h] = to]

(* serve() refuses to start beside a host that answers.                    *)
serve(h) ==
  /\ hoAt[h] = "off"
  /\ Move(h, IF is_listening THEN "dead" ELSE "checked")
  /\ UNCHANGED <<hoDir, hoSocket, hoToken, hoLock, hoClient>>

(* kernel.start() opens the database, which one process can hold.          *)
kernel_start(h) ==
  /\ hoAt[h] = "checked"
  /\ IF h \in HoEphemeral
       THEN Move(h, "started") /\ UNCHANGED hoLock
       ELSE IF hoLock = HoNone
         THEN Move(h, "started") /\ hoLock' = h
         ELSE Move(h, "dead") /\ UNCHANGED hoLock
  /\ UNCHANGED <<hoDir, hoSocket, hoToken, hoClient>>

(* prepare_directory(): created private when missing, then verified.       *)
prepare_directory(h) ==
  /\ hoAt[h] = "started"
  /\ hoDir' = IF hoDir = "absent" THEN "private" ELSE hoDir
  /\ Move(h, IF verify_private(hoDir' = "private") THEN "placed" ELSE "unbound")
  /\ UNCHANGED <<hoSocket, hoToken, hoLock, hoClient>>

(* clear_stale_socket() up to the probe: nothing there; something that is  *)
(* refused rather than removed; or a socket, to be connected to.           *)
clear_stale_socket(h) ==
  /\ hoAt[h] = "placed"
  /\ Move(h, CASE hoSocket.kind = "absent" -> "cleared"
               [] hoSocket.kind = "socket" /\ verify_private(hoSocket.private) -> "probing"
               [] OTHER -> "unbound")
  /\ UNCHANGED <<hoDir, hoSocket, hoToken, hoLock, hoClient>>

(* The probe, classify() of its failure included: somebody answers; the    *)
(* path is Gone; nobody listens, which is Stale; or the failure says       *)
(* neither (no descriptors left, an interrupted call), which is Unknown.   *)
probe_socket(h) ==
  /\ hoAt[h] = "probing"
  /\ \/ Move(h, CASE is_listening -> "unbound"
                  [] hoSocket.kind = "absent" -> "cleared"
                  [] OTHER -> "stale")
     \/ Move(h, "unbound")
  /\ UNCHANGED <<hoDir, hoSocket, hoToken, hoLock, hoClient>>

(* The leftover is removed: by its path, whatever is there by then, unless *)
(* nothing is or the system refuses.                                       *)
remove_stale(h) ==
  /\ hoAt[h] = "stale"
  /\ \/ hoSocket.kind # "absent" /\ hoSocket' = Absent /\ Move(h, "cleared")
     \/ Move(h, "unbound") /\ UNCHANGED hoSocket
  /\ UNCHANGED <<hoDir, hoToken, hoLock, hoClient>>

(* Token::generate() and Token::write_to(): a new token, installed by a    *)
(* rename, and in place before the socket exists.                          *)
write_token(h) ==
  /\ hoAt[h] = "cleared"
  /\ \/ hoToken' = h /\ Move(h, "tokened")
     \/ Move(h, "unbound") /\ UNCHANGED hoToken
  /\ UNCHANGED <<hoDir, hoSocket, hoLock, hoClient>>

(* bind_privately(): bound under a staged name, made private, and renamed  *)
(* over the path; a failure takes the token file with it.                  *)
bind_privately(h) ==
  /\ hoAt[h] = "tokened"
  /\ \/ hoSocket' = SocketOf(h) /\ Move(h, "serving") /\ UNCHANGED hoToken
     \/ hoToken' = HoNone /\ Move(h, "unbound") /\ UNCHANGED hoSocket
  /\ UNCHANGED <<hoDir, hoLock, hoClient>>

(* The plausible slip: the socket is bound first, the token follows.       *)
TokenLast(h) ==
  /\ hoAt[h] = "cleared"
  /\ hoSocket' = SocketOf(h)
  /\ Move(h, "serving")
  /\ UNCHANGED <<hoDir, hoToken, hoLock, hoClient>>

BindWithoutToken(h) ==
  \/ prepare_directory(h) \/ clear_stale_socket(h) \/ probe_socket(h) \/ remove_stale(h)
  \/ TokenLast(h)

(* Listener::bind() as one host runs it, step by step.                     *)
bind(h) ==
  \/ prepare_directory(h) \/ clear_stale_socket(h) \/ probe_socket(h) \/ remove_stale(h)
  \/ write_token(h) \/ bind_privately(h)

(* A signal: the accept loop ends and the connections are waited for.      *)
stop_accepting(h) ==
  /\ hoAt[h] = "serving"
  /\ Move(h, "draining")
  /\ UNCHANGED <<hoDir, hoSocket, hoToken, hoLock, hoClient>>

(* Dropping the Listener: the path is removed, then the token file, then   *)
(* the descriptor is closed, all before the kernel shuts down.             *)
drop_socket(h) ==
  /\ hoAt[h] = "draining"
  /\ hoSocket' = Absent
  /\ Move(h, "removing")
  /\ UNCHANGED <<hoDir, hoToken, hoLock, hoClient>>

drop_token(h) ==
  /\ hoAt[h] = "removing"
  /\ hoToken' = HoNone
  /\ Move(h, "removed")
  /\ UNCHANGED <<hoDir, hoSocket, hoLock, hoClient>>

(* kernel.shutdown() and the drop of what was assembled: the database is   *)
(* let go of last, also after a bind that failed.                          *)
kernel_shutdown(h) ==
  /\ hoAt[h] \in {"removed", "unbound"}
  /\ Move(h, "dead")
  /\ hoLock' = IF hoLock = h THEN HoNone ELSE hoLock
  /\ UNCHANGED <<hoDir, hoSocket, hoToken, hoClient>>

(* The process dies wherever it was: the system closes its descriptors and *)
(* its lock, and its files stay.                                           *)
Crash(h) ==
  /\ hoAt[h] \notin {"off", "dead"}
  /\ Move(h, "dead")
  /\ hoLock' = IF hoLock = h THEN HoNone ELSE hoLock
  /\ UNCHANGED <<hoDir, hoSocket, hoToken, hoClient>>

-----------------------------------------------------------------------------
(* A client: Client::connect() and the handshake                           *)

Reach(c, v) == hoClient' = [hoClient EXCEPT ![c] = v]

(* The directory and the socket are verified and the token is read, before *)
(* anything is connected to.  `saw` is who was listening at that moment.   *)
read_token(c) ==
  /\ hoClient[c].at = "idle"
  /\ IF /\ verify_private(hoDir = "private")
        /\ hoSocket.kind # "absent" /\ verify_private(hoSocket.private)
        /\ hoToken # HoNone
       THEN Reach(c, [at |-> "ready", token |-> hoToken, to |-> HoNone,
                      saw |-> IF is_listening THEN hoSocket.of ELSE HoNone])
       ELSE Reach(c, [hoClient[c] EXCEPT !.at = "failed"])
  /\ UNCHANGED <<hoAt, hoDir, hoSocket, hoToken, hoLock>>

(* UnixStream::connect(): to whoever listens at the path now.              *)
connect_socket(c) ==
  /\ hoClient[c].at = "ready"
  /\ Reach(c, IF is_listening
                THEN [hoClient[c] EXCEPT !.at = "connected", !.to = hoSocket.of]
                ELSE [hoClient[c] EXCEPT !.at = "failed"])
  /\ UNCHANGED <<hoAt, hoDir, hoSocket, hoToken, hoLock>>

(* What a client presents; a newer client may speak another protocol.      *)
Hello(token) == {[token |-> token, protocol |-> p] : p \in {"ours", "newer"}}

(* authenticate() of a handshake that was sent: the token is looked at     *)
(* before the protocol version.  (One that was not is HostConnection's.)   *)
authenticate(h, hello) ==
  CASE ~token_matches(h, hello.token) -> "unauthenticated"
    [] token_matches(h, hello.token) /\ hello.protocol # "ours" -> "unsupported"
    [] token_matches(h, hello.token) /\ hello.protocol = "ours" -> "accepted"

client_handshake(c) ==
  /\ hoClient[c].at = "connected"
  /\ \/ /\ hoAt[hoClient[c].to] = "serving"
        /\ \E hello \in Hello(hoClient[c].token) :
             Reach(c, [hoClient[c] EXCEPT !.at = authenticate(hoClient[c].to, hello)])
     \/ /\ hoAt[hoClient[c].to] # "serving"
        /\ Reach(c, [hoClient[c] EXCEPT !.at = "failed"])
  /\ UNCHANGED <<hoAt, hoDir, hoSocket, hoToken, hoLock>>

(* rejection() and the errors of the transport: the client may try again.  *)
try_again(c) ==
  /\ hoClient[c].at \in {"failed", "unauthenticated", "unsupported"}
  /\ Reach(c, [at |-> "idle", token |-> HoNone, to |-> HoNone, saw |-> HoNone])
  /\ UNCHANGED <<hoAt, hoDir, hoSocket, hoToken, hoLock>>

-----------------------------------------------------------------------------
HostEndpointInit ==
  /\ hoAt = [h \in HoHosts |-> "off"]
  /\ hoDir \in {"absent", "private", "loose"}
  /\ hoSocket \in {Absent, [Absent EXCEPT !.kind = "file"],
                   [Absent EXCEPT !.kind = "socket"],
                   [Absent EXCEPT !.kind = "socket", !.private = FALSE]}
  /\ hoDir = "absent" => hoSocket = Absent
  /\ hoToken = HoNone
  /\ hoLock = HoNone
  /\ hoClient = [c \in HoClients |->
                   [at |-> "idle", token |-> HoNone, to |-> HoNone, saw |-> HoNone]]

HostSteps(h) ==
  \/ serve(h) \/ kernel_start(h) \/ bind(h) \/ stop_accepting(h)
  \/ drop_socket(h) \/ drop_token(h) \/ kernel_shutdown(h) \/ Crash(h)

ClientSteps(c) ==
  read_token(c) \/ connect_socket(c) \/ client_handshake(c) \/ try_again(c)

HostEndpointNext ==
  \/ \E h \in HoHosts : HostSteps(h)
  \/ \E c \in HoClients : ClientSteps(c)

HostEndpointSpec == HostEndpointInit /\ [][HostEndpointNext]_hoVars

(* The absent host is none of them, and every host opens the database.     *)
HostEndpointConstants == HoNone \notin HoHosts /\ HoEphemeral = {}

-----------------------------------------------------------------------------
(* Whatever starts, crashes or is stopped around it, a host that serves is *)
(* the one at the socket's path and its token is the one in the token      *)
(* file; so a client that looked while a host was listening, and reached   *)
(* that host, is never told its token is not the host's.  The listener     *)
(* writes the token before the socket and lets go of the database after    *)
(* both (listener.rs bind and Drop, daemon/src/lib.rs serve_assembled).    *)
TokenOpensItsHost ==
  /\ \A h \in HoHosts :
       hoAt[h] = "serving" =>
         hoSocket = SocketOf(h) /\ hoToken = h /\ (h \notin HoEphemeral => hoLock = h)
  /\ \A c \in HoClients :
       hoClient[c].at = "unauthenticated" => hoClient[c].to # hoClient[c].saw
=============================================================================
