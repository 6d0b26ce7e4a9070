---------------------------- MODULE ServiceProofs ----------------------------
(* Theorems about the services around the agent loop, each for every value of the constants
   that satisfies the service's named hypothesis about them. *)
EXTENDS HostEndpoint, WebFetch, ProcessRun, ClientSession, LocalSession, McpClient, HostConnection,
        FileTools, Upkeep, QuotaLedger, MemoryStore, Induction, FiniteSetTheorems, SequenceTheorems, TLAPS

-----------------------------------------------------------------------------
(* The host's endpoint: HostEndpoint *)

HostStates == {"off", "checked", "started", "placed", "probing", "stale", "cleared", "tokened",
               "serving", "draining", "removing", "removed", "unbound", "dead"}
MaybeHost == HoHosts \cup {HoNone}

EndpointTypes ==
  /\ hoAt \in [HoHosts -> HostStates]
  /\ hoSocket.kind \in {"absent", "file", "socket"} /\ hoSocket.private \in BOOLEAN /\ hoSocket.of \in MaybeHost
  /\ hoToken \in MaybeHost
  /\ hoLock \in MaybeHost
  /\ hoClient \in [HoClients -> [at : {"idle", "ready", "connected", "failed", "unauthenticated",
                                       "unsupported", "accepted"},
                                 token : MaybeHost, to : MaybeHost, saw : MaybeHost]]

\* Between opening the database and letting go of it a host has it to itself, ...
OneHost == \A h \in HoHosts : hoAt[h] \notin {"off", "checked", "dead"} => hoLock = h

\* ... so nobody else touches the token and the socket it installs and removes.
OwnFiles ==
  \A h \in HoHosts :
    /\ hoAt[h] \in {"tokened", "serving", "draining"} => hoToken = h
    /\ hoAt[h] \in {"serving", "draining"} => hoSocket = SocketOf(h)
    /\ hoAt[h] \in {"removing", "removed"} => hoSocket = Absent

\* A client that saw a host listening has read that host's token.
SawItsToken ==
  \A c \in HoClients :
    /\ hoClient[c].at \in {"ready", "connected"} /\ hoClient[c].saw # HoNone =>
         hoClient[c].token = hoClient[c].saw
    /\ hoClient[c].at = "connected" => hoClient[c].to # HoNone
    /\ hoClient[c].at = "unauthenticated" => hoClient[c].to # hoClient[c].saw

EndpointInv == EndpointTypes /\ OneHost /\ OwnFiles /\ SawItsToken

(* The steps of a host keep the files it installs its own. *)
LEMMA HostStepsKeep ==
  ASSUME HostEndpointConstants, EndpointInv, NEW h \in HoHosts, HostSteps(h)
  PROVE  EndpointInv'
<1> USE DEF EndpointInv, EndpointTypes, Move, HostStates, MaybeHost
<1>1. CASE serve(h)
  BY <1>1 DEF serve, OneHost, OwnFiles, SawItsToken, SocketOf, Absent
<1>2. CASE kernel_start(h)
  BY <1>2 DEF kernel_start, OneHost, OwnFiles, SawItsToken, HostEndpointConstants, SocketOf, Absent
<1>3. CASE prepare_directory(h)
  BY <1>3 DEF prepare_directory, OneHost, OwnFiles, SawItsToken, SocketOf, Absent
<1>4. CASE clear_stale_socket(h)
  BY <1>4 DEF clear_stale_socket, OneHost, OwnFiles, SawItsToken, verify_private, SocketOf, Absent
<1>5. CASE remove_stale(h)
  <2>1. \A k \in HoHosts : k # h => hoAt[k] \in {"off", "checked", "dead"}
    BY <1>5 DEF remove_stale, OneHost
  <2>2. CASE hoSocket' = Absent /\ Move(h, "cleared")
    BY <1>5, <2>1, <2>2 DEF remove_stale, OneHost, OwnFiles, SawItsToken, SocketOf, Absent
  <2>3. CASE Move(h, "unbound") /\ UNCHANGED hoSocket
    BY <1>5, <2>1, <2>3 DEF remove_stale, OneHost, OwnFiles, SawItsToken
  <2> QED
    BY <1>5, <2>2, <2>3 DEF remove_stale
<1>6. CASE write_token(h)
  BY <1>6 DEF write_token, OneHost, OwnFiles, SawItsToken, SocketOf, Absent
<1>7. CASE bind_privately(h)
  <2>0. hoSocket' = hoSocket \/ hoSocket' = SocketOf(h)
    BY <1>7 DEF bind_privately
  <2>5. SocketOf(h).kind = "socket" /\ SocketOf(h).private = TRUE /\ SocketOf(h).of = h
    BY DEF SocketOf
  <2>6. hoSocket'.private \in BOOLEAN
    BY <2>0, <2>5
  <2>1. EndpointTypes' /\ OneHost'
    BY <1>7, <2>0, <2>5, <2>6 DEF bind_privately, OneHost
  <2>2. SawItsToken'
    BY <1>7 DEF bind_privately, SawItsToken
  <2>3. \A k \in HoHosts : k # h => hoAt[k] \in {"off", "checked", "dead"}
    BY <1>7 DEF bind_privately, OneHost
  <2>4. OwnFiles'
    BY <1>7, <2>3 DEF bind_privately, OwnFiles
  <2> QED
    BY <2>1, <2>2, <2>4
<1>8. CASE stop_accepting(h)
  BY <1>8 DEF stop_accepting, OneHost, OwnFiles, SawItsToken, SocketOf, Absent
<1>9. CASE drop_socket(h)
  BY <1>9 DEF drop_socket, OneHost, OwnFiles, SawItsToken, SocketOf, Absent
<1>10. CASE drop_token(h)
  BY <1>10 DEF drop_token, OneHost, OwnFiles, SawItsToken, SocketOf, Absent
<1>11. CASE kernel_shutdown(h) \/ Crash(h)
  BY <1>11 DEF kernel_shutdown, Crash, OneHost, OwnFiles, SawItsToken, SocketOf, Absent
<1>12. CASE probe_socket(h)
  <2>1. PICK to \in {"unbound", "cleared", "stale"} : Move(h, to)
    BY <1>12 DEF probe_socket
  <2> QED
    BY <1>12, <2>1 DEF probe_socket, OneHost, OwnFiles, SawItsToken
<1> QED
  BY <1>12, <1>1, <1>2, <1>3, <1>4, <1>5, <1>6, <1>7, <1>8, <1>9, <1>10, <1>11 DEF HostSteps, bind

(* Who listens at the path is serving or draining, and its token is in the file. *)
LEMMA ListenerHasItsToken ==
  ASSUME HostEndpointConstants, EndpointInv, is_listening
  PROVE  hoSocket.of \in HoHosts /\ hoToken = hoSocket.of
<1>1. /\ hoSocket.kind = "socket" /\ hoSocket.of # HoNone /\ hoSocket.of \in HoHosts
      /\ hoAt[hoSocket.of] \in {"serving", "draining", "removing", "removed"}
  BY DEF EndpointInv, EndpointTypes, is_listening, Listens, MaybeHost
<1> QED
  BY <1>1 DEF EndpointInv, OwnFiles, Absent

(* The steps of a client change nothing of the hosts, and what it read is what it saw. *)
LEMMA ClientStepsKeep ==
  ASSUME HostEndpointConstants, EndpointInv, NEW c \in HoClients, ClientSteps(c)
  PROVE  EndpointInv'
<1>0. UNCHANGED <<hoAt, hoDir, hoSocket, hoToken, hoLock>>
  BY DEF ClientSteps, read_token, connect_socket, client_handshake, try_again
<1>1. OneHost' /\ OwnFiles'
  BY <1>0 DEF EndpointInv, OneHost, OwnFiles, SocketOf, Absent
<1> USE DEF EndpointTypes, MaybeHost, Reach
<1>2. CASE read_token(c)
  <2>1. is_listening => hoSocket.of \in HoHosts /\ hoToken = hoSocket.of
    BY ListenerHasItsToken
  <2>2. EndpointTypes'
    BY <1>0, <1>2, <2>1 DEF EndpointInv, read_token
  <2>3. SawItsToken'
    BY <1>0, <1>2, <2>1 DEF EndpointInv, read_token, SawItsToken
  <2> QED
    BY <1>1, <2>2, <2>3 DEF EndpointInv
<1>3. CASE connect_socket(c)
  <2>1. is_listening => hoSocket.of \in HoHosts /\ hoSocket.of # HoNone
    BY ListenerHasItsToken DEF HostEndpointConstants
  <2>2. EndpointTypes'
    BY <1>0, <1>3, <2>1 DEF EndpointInv, connect_socket
  <2>3. SawItsToken'
    BY <1>0, <1>3, <2>1 DEF EndpointInv, connect_socket, SawItsToken
  <2> QED
    BY <1>1, <2>2, <2>3 DEF EndpointInv
<1>4. CASE client_handshake(c)
  <2>1. \A hello \in Hello(hoClient[c].token) :
          /\ authenticate(hoClient[c].to, hello) \in {"unauthenticated", "unsupported", "accepted"}
          /\ authenticate(hoClient[c].to, hello) = "unauthenticated" => hoClient[c].to # hoClient[c].token
    BY DEF Hello, authenticate, token_matches
  <2>2. EndpointTypes'
    BY <1>0, <1>4, <2>1 DEF EndpointInv, client_handshake
  <2>3. SawItsToken'
    BY <1>0, <1>4, <2>1 DEF EndpointInv, client_handshake, SawItsToken
  <2> QED
    BY <1>1, <2>2, <2>3 DEF EndpointInv
<1>5. CASE try_again(c)
  BY <1>0, <1>1, <1>5 DEF EndpointInv, try_again, SawItsToken
<1> QED
  BY <1>2, <1>3, <1>4, <1>5 DEF ClientSteps

(* However hosts start, crash and stop around each other and around a client, a host that
   serves is the one at the socket and in the token file, and a client that saw a host listen
   and reached it is never refused for its token (ipc listener.rs, daemon lib.rs). *)
THEOREM EndpointHolds ==
  ASSUME HostEndpointConstants
  PROVE  HostEndpointSpec => []TokenOpensItsHost
<1>1. HostEndpointInit => EndpointInv
  <2> SUFFICES ASSUME HostEndpointInit PROVE EndpointInv
    OBVIOUS
  <2>1. hoSocket.kind \in {"absent", "file", "socket"} /\ hoSocket.private \in BOOLEAN /\ hoSocket.of \in MaybeHost
    <3>1. \A k \in {"file", "socket"} : /\ [Absent EXCEPT !.kind = k].kind = k
                                      /\ [Absent EXCEPT !.kind = k].private = TRUE
                                      /\ [Absent EXCEPT !.kind = k].of = HoNone
      BY DEF Absent
    <3>2. /\ [Absent EXCEPT !.kind = "socket", !.private = FALSE].kind = "socket"
          /\ [Absent EXCEPT !.kind = "socket", !.private = FALSE].private = FALSE
          /\ [Absent EXCEPT !.kind = "socket", !.private = FALSE].of = HoNone
      BY DEF Absent
    <3>3. Absent.kind = "absent" /\ Absent.private = TRUE /\ Absent.of = HoNone
      BY DEF Absent
    <3> QED
      BY <3>1, <3>2, <3>3 DEF HostEndpointInit, MaybeHost
  <2>2. EndpointTypes
    BY <2>1 DEF HostEndpointInit, EndpointTypes, HostStates, MaybeHost
  <2> QED
    BY <2>2 DEF HostEndpointInit, EndpointInv, OneHost, OwnFiles, SawItsToken
<1>2. EndpointInv /\ [HostEndpointNext]_hoVars => EndpointInv'
  <2>1. CASE UNCHANGED hoVars
    BY <2>1 DEF hoVars, EndpointInv, EndpointTypes, OneHost, OwnFiles, SawItsToken, SocketOf, Absent
  <2> QED
    BY <2>1, HostStepsKeep, ClientStepsKeep DEF HostEndpointNext
<1>3. EndpointInv => TokenOpensItsHost
  BY DEF EndpointInv, TokenOpensItsHost, OneHost, OwnFiles, SawItsToken
<1> QED
  BY <1>1, <1>2, <1>3, PTL DEF HostEndpointSpec

-----------------------------------------------------------------------------
(* The fetch tool: WebFetch *)

FetchFields == {"phase", "url", "hops", "body", "kept", "wanted", "text", "truncated", "answer"}
FetchPhases == {"idle", "check", "connect", "response", "body", "done"}
Document == [textual : BOOLEAN, html : BOOLEAN, declared : Nat \cup {WfNone}, chunks : Seq(Nat)]

FetchTypes ==
  /\ DOMAIN wfFetch = FetchFields
  /\ wfFetch.phase \in FetchPhases
  /\ wfFetch.hops \in 0 .. WfMaxRedirects
  /\ wfFetch.kept \in 0 .. WfMaxBytes
  /\ wfFetch.phase = "body" => wfFetch.body \in Document

\* The URL being fetched was authorised and is valid, from its check to its last byte.
UrlIsAsked ==
  wfFetch.phase \in {"check", "connect", "response", "body"} =>
    wfFetch.url \in wfAsked /\ validate_url(wfFetch.url)

ReachedIsAsked ==
  \A r \in wfReached : is_reachable(r.class) /\ r.url \in wfAsked /\ validate_url(r.url)

\* One connection for each hop, the one of the current hop made once it is answered.
OnePerHop ==
  /\ IsFiniteSet(wfReached)
  /\ wfFetch.phase = "idle" => wfReached = {}
  /\ Cardinality(wfReached) <= wfFetch.hops + 1
  /\ wfFetch.phase \in {"check", "connect"} => Cardinality(wfReached) <= wfFetch.hops

\* A literal is connected to as it stands, so it was checked before.
LiteralIsChecked ==
  wfFetch.phase = "connect" /\ wfFetch.url.host \in DOMAIN WfLiterals =>
    is_reachable(WfLiterals[wfFetch.url.host])

\* No answer before the end, and one that leaves something out says so.
CutIsSaid ==
  /\ wfFetch.phase # "done" => wfFetch.answer # "content"
  /\ wfFetch.answer = "content" =>
       /\ Missing => wfFetch.truncated
       /\ wfFetch.truncated => wfFetch.kept = WfMaxBytes \/ wfFetch.text >= WfMaxBytes

FetchInv == FetchTypes /\ UrlIsAsked /\ ReachedIsAsked /\ OnePerHop /\ LiteralIsChecked /\ CutIsSaid

(* Fetch() changes the fields it names and no other. *)
LEMMA FetchChanges ==
  ASSUME NEW change, Fetch(change), DOMAIN wfFetch = FetchFields
  PROVE  /\ DOMAIN wfFetch' = FetchFields
         /\ \A f \in FetchFields :
              wfFetch'[f] = IF f \in DOMAIN change THEN change[f] ELSE wfFetch[f]
  BY DEF Fetch

(* A call that is over keeps what it reached and what it read. *)
LEMMA FetchOver ==
  ASSUME FetchInv, NEW answer, answer # "content", Fetch([phase |-> "done", answer |-> answer]),
         wfReached' = wfReached, wfAsked \subseteq wfAsked'
  PROVE  FetchInv'
<1>1. /\ DOMAIN wfFetch' = FetchFields
      /\ wfFetch'.phase = "done" /\ wfFetch'.answer = answer
      /\ wfFetch'.url = wfFetch.url /\ wfFetch'.hops = wfFetch.hops /\ wfFetch'.body = wfFetch.body
      /\ wfFetch'.kept = wfFetch.kept
  BY FetchChanges DEF FetchInv, FetchTypes, FetchFields
<1> QED
  BY <1>1 DEF FetchInv, FetchTypes, UrlIsAsked, ReachedIsAsked, OnePerHop, LiteralIsChecked, CutIsSaid, FetchPhases,
              validate_url, is_reachable

(* An answer says what it leaves out: the rest of a body that was cut, or of a text that was full. *)
LEMMA FetchAnswered ==
  ASSUME FetchConstants, FetchInv, wfFetch.phase = "body", NEW kept \in 0 .. WfMaxBytes, NEW cut \in BOOLEAN,
         cut => kept = WfMaxBytes, ~cut => wfFetch.body.chunks = <<>>,
         Answer(kept, cut), UNCHANGED <<wfReached, wfAsked>>
  PROVE  FetchInv'
<1>0. DOMAIN wfFetch = FetchFields /\ wfFetch.body \in Document /\ WfMaxBytes \in Nat
  BY DEF FetchInv, FetchTypes, FetchConstants
<1>1. wfFetch.body.html \in BOOLEAN
  BY <1>0 DEF Document
<1>2. PICK wanted \in (IF wfFetch.body.html THEN WfTexts ELSE {kept}) :
        LET text == IF wfFetch.body.html /\ wanted > WfMaxBytes THEN WfMaxBytes ELSE wanted
        IN  Fetch([phase |-> "done", answer |-> "content", kept |-> kept, wanted |-> wanted, text |-> text,
                   truncated |-> cut \/ (wfFetch.body.html /\ text >= WfMaxBytes)])
  BY DEF Answer
<1> DEFINE text == IF wfFetch.body.html /\ wanted > WfMaxBytes THEN WfMaxBytes ELSE wanted
           full == wfFetch.body.html /\ text >= WfMaxBytes
<1>3. /\ DOMAIN wfFetch' = FetchFields
      /\ wfFetch'.phase = "done" /\ wfFetch'.answer = "content"
      /\ wfFetch'.url = wfFetch.url /\ wfFetch'.hops = wfFetch.hops /\ wfFetch'.body = wfFetch.body
      /\ wfFetch'.kept = kept /\ wfFetch'.wanted = wanted /\ wfFetch'.text = text
      /\ wfFetch'.truncated = (cut \/ full)
  BY <1>0, <1>2, FetchChanges DEF FetchFields
<1>4. (text < wanted => full) /\ (full => text >= WfMaxBytes)
  <2>1. wanted \in Nat
    BY <1>0 DEF FetchConstants
  <2>2. CASE wfFetch.body.html
    BY <1>0, <2>1, <2>2
  <2>3. CASE ~wfFetch.body.html
    BY <2>1, <2>3
  <2> QED
    BY <2>2, <2>3
<1> HIDE DEF text, full
<1>5. wfFetch'.truncated <=> cut \/ full
  BY <1>3
<1>6. CutIsSaid'
  BY <1>3, <1>4, <1>5 DEF CutIsSaid, Missing
<1> QED
  BY <1>3, <1>6 DEF FetchInv, FetchTypes, UrlIsAsked, ReachedIsAsked, OnePerHop, LiteralIsChecked, FetchPhases,
                    validate_url, is_reachable

(* A connection is one more member at most. *)
LEMMA OneMore ==
  ASSUME NEW S, IsFiniteSet(S), NEW x
  PROVE  IsFiniteSet(S \cup {x}) /\ Cardinality(S) \in Nat /\ Cardinality(S \cup {x}) \in Nat
         /\ Cardinality(S \cup {x}) <= Cardinality(S) + 1
  BY FS_AddElement, FS_CardinalityType

LEMMA FetchStepsKeep ==
  ASSUME FetchConstants, FetchInv, FetchNext
  PROVE  FetchInv'
<1> USE DEF FetchInv
<1>0. DOMAIN wfFetch = FetchFields
  BY DEF FetchTypes
<1>a. Cardinality(wfReached) \in Nat
  BY FS_CardinalityType DEF OnePerHop
<1>1. ASSUME NEW u \in WfUrls, plan_fetch(u) PROVE FetchInv'
  <2>1. CASE Refuse /\ UNCHANGED wfReached /\ wfAsked' = wfAsked
    BY <2>1, FetchOver DEF Refuse
  <2>2. CASE validate_url(u) /\ Fetch([phase |-> "check", url |-> u]) /\ wfAsked' = wfAsked \cup {u}
    <3>1. /\ DOMAIN wfFetch' = FetchFields
          /\ wfFetch'.phase = "check" /\ wfFetch'.url = u
          /\ wfFetch'.hops = wfFetch.hops /\ wfFetch'.body = wfFetch.body
          /\ wfFetch'.kept = wfFetch.kept /\ wfFetch'.answer = wfFetch.answer
      BY <2>2, <1>0, FetchChanges DEF FetchFields
    <3>2. wfReached = {} /\ wfReached' = {} /\ Cardinality({}) = 0 /\ wfFetch.answer # "content"
      BY <1>1, FS_EmptySet DEF plan_fetch, OnePerHop, CutIsSaid
    <3> QED
      BY <2>2, <3>1, <3>2, FetchConstants DEF FetchConstants, FetchTypes, UrlIsAsked, ReachedIsAsked, OnePerHop, LiteralIsChecked, CutIsSaid,
                              FetchPhases, validate_url, is_reachable
  <2> QED
    BY <1>1, <2>1, <2>2 DEF plan_fetch
<1>2. ASSUME NEW u \in WfUrls, next_hop(u) PROVE FetchInv'
  <2>0. wfFetch.phase = "response" /\ wfReached' = wfReached
    BY <1>2 DEF next_hop
  <2>1. CASE Refuse /\ wfAsked' = wfAsked
    BY <2>0, <2>1, FetchOver DEF Refuse
  <2>2. CASE Fetch([phase |-> "done", answer |-> "failed"]) /\ wfAsked' = wfAsked
    BY <2>0, <2>2, FetchOver
  <2>3. CASE /\ wfFetch.hops < WfMaxRedirects /\ validate_url(u)
             /\ Fetch([phase |-> "check", url |-> u, hops |-> wfFetch.hops + 1])
             /\ wfAsked' = wfAsked \cup {u}
    <3>1. /\ DOMAIN wfFetch' = FetchFields
          /\ wfFetch'.phase = "check" /\ wfFetch'.url = u
          /\ wfFetch'.hops = wfFetch.hops + 1 /\ wfFetch'.body = wfFetch.body
          /\ wfFetch'.kept = wfFetch.kept /\ wfFetch'.answer = wfFetch.answer
      BY <2>3, <1>0, FetchChanges DEF FetchFields
    <3> QED
      BY <1>a, <2>0, <2>3, <3>1 DEF FetchConstants, FetchTypes, UrlIsAsked, ReachedIsAsked, OnePerHop,
                              LiteralIsChecked, CutIsSaid, FetchPhases, validate_url, is_reachable
  <2>4. CASE wfFetch.hops >= WfMaxRedirects
    <3>1. ~(wfFetch.hops < WfMaxRedirects)
      BY <2>4 DEF FetchConstants, FetchTypes
    <3> QED
      BY <1>2, <2>1, <2>4, <3>1 DEF next_hop
  <2>5. CASE wfFetch.hops < WfMaxRedirects
    <3>1. ~(wfFetch.hops >= WfMaxRedirects)
      BY <2>5 DEF FetchConstants, FetchTypes
    <3>2. \/ Refuse /\ UNCHANGED wfAsked
          \/ /\ validate_url(u)
             /\ \E allowed \in BOOLEAN :
                  /\ IF allowed THEN Fetch([phase |-> "check", url |-> u, hops |-> wfFetch.hops + 1])
                     ELSE Fetch([phase |-> "done", answer |-> "failed"])
                  /\ wfAsked' = IF allowed THEN wfAsked \cup {u} ELSE wfAsked
      BY <1>2, <2>5, <3>1 DEF next_hop
    <3> QED
      BY <2>1, <2>2, <2>3, <2>5, <3>2
  <2> QED
    BY <2>4, <2>5 DEF FetchConstants, FetchTypes
<1>3. CASE allowed_addresses
  <2>0. wfFetch.phase = "check" /\ UNCHANGED <<wfAsked, wfReached>>
    BY <1>3 DEF allowed_addresses
  <2>1. CASE Refuse
    BY <2>0, <2>1, FetchOver DEF Refuse
  <2>2. CASE Fetch([phase |-> "connect"]) /\ partition(wfFetch.url.host) # {}
    <3>1. /\ DOMAIN wfFetch' = FetchFields
          /\ wfFetch'.phase = "connect" /\ wfFetch'.url = wfFetch.url
          /\ wfFetch'.hops = wfFetch.hops /\ wfFetch'.body = wfFetch.body
          /\ wfFetch'.kept = wfFetch.kept /\ wfFetch'.answer = wfFetch.answer
      BY <2>2, <1>0, FetchChanges DEF FetchFields
    <3>2. LiteralIsChecked'
      BY <2>2, <3>1 DEF LiteralIsChecked, partition, Addresses, is_reachable
    <3> QED
      BY <2>0, <3>1, <3>2 DEF FetchTypes, UrlIsAsked, ReachedIsAsked, OnePerHop, CutIsSaid, FetchPhases, validate_url, is_reachable
  <2> QED
    BY <1>3, <2>1, <2>2 DEF allowed_addresses
<1>4. CASE connect_guarded
  <2>0. wfFetch.phase = "connect" /\ wfAsked' = wfAsked
    BY <1>4 DEF connect_guarded
  <2>1. ASSUME NEW class \in lookup(wfFetch.url.host), Fetch([phase |-> "response"]),
               wfReached' = wfReached \cup {[url |-> wfFetch.url, class |-> class]}
        PROVE  FetchInv'
    <3>1. /\ DOMAIN wfFetch' = FetchFields
          /\ wfFetch'.phase = "response" /\ wfFetch'.url = wfFetch.url
          /\ wfFetch'.hops = wfFetch.hops /\ wfFetch'.body = wfFetch.body
          /\ wfFetch'.kept = wfFetch.kept /\ wfFetch'.answer = wfFetch.answer
      BY <2>1, <1>0, FetchChanges DEF FetchFields
    <3>2. is_reachable(class)
      <4>1. CASE wfFetch.url.host \in DOMAIN WfLiterals
        BY <2>0, <4>1 DEF lookup, LiteralIsChecked
      <4>2. CASE wfFetch.url.host \notin DOMAIN WfLiterals
        BY <4>2 DEF lookup, partition
      <4> QED
        BY <4>1, <4>2
    <3>3. ReachedIsAsked'
      BY <2>0, <2>1, <3>2 DEF ReachedIsAsked, UrlIsAsked, is_reachable, validate_url
    <3>4. /\ IsFiniteSet(wfReached') /\ Cardinality(wfReached') \in Nat
          /\ Cardinality(wfReached') <= Cardinality(wfReached) + 1
      BY <2>1, OneMore DEF OnePerHop
    <3>5. Cardinality(wfReached) <= wfFetch.hops /\ wfFetch.hops \in Nat
      BY <2>0 DEF OnePerHop, FetchTypes
    <3>6. Cardinality(wfReached') <= wfFetch.hops + 1
      BY <1>a, <3>4, <3>5
    <3>7. OnePerHop'
      BY <3>1, <3>4, <3>6 DEF OnePerHop
    <3> QED
      BY <2>0, <3>1, <3>3, <3>7 DEF FetchTypes, UrlIsAsked, LiteralIsChecked, CutIsSaid, FetchPhases, validate_url
  <2>2. CASE Fetch([phase |-> "done", answer |-> "failed"]) /\ wfReached' = wfReached
    BY <2>0, <2>2, FetchOver
  <2>3. \/ \E class \in lookup(wfFetch.url.host) :
             /\ wfReached' = wfReached \cup {[url |-> wfFetch.url, class |-> class]}
             /\ Fetch([phase |-> "response"])
        \/ Fetch([phase |-> "done", answer |-> "failed"]) /\ wfReached' = wfReached
    BY <1>4, Zenon DEF connect_guarded
  <2> QED
    BY <2>1, <2>2, <2>3, Zenon
<1>5. ASSUME NEW body \in WfBodies, read_head(body) PROVE FetchInv'
  <2>0. wfFetch.phase = "response" /\ UNCHANGED <<wfAsked, wfReached>>
    BY <1>5 DEF read_head
  <2>1. CASE Refuse
    BY <2>0, <2>1, FetchOver DEF Refuse
  <2>2. CASE Fetch([phase |-> "body", body |-> body])
    <3>1. /\ DOMAIN wfFetch' = FetchFields
          /\ wfFetch'.phase = "body" /\ wfFetch'.url = wfFetch.url
          /\ wfFetch'.hops = wfFetch.hops /\ wfFetch'.body = body
          /\ wfFetch'.kept = wfFetch.kept /\ wfFetch'.answer = wfFetch.answer
      BY <2>2, <1>0, FetchChanges DEF FetchFields
    <3>2. body \in Document
      BY DEF FetchConstants, Document
    <3> QED
      BY <2>0, <3>1, <3>2 DEF FetchTypes, UrlIsAsked, ReachedIsAsked, OnePerHop, LiteralIsChecked, CutIsSaid, FetchPhases,
                              validate_url, is_reachable
  <2> QED
    BY <1>5, <2>1, <2>2 DEF read_head
<1>6. CASE read_chunk
  <2> DEFINE length == Head(wfFetch.body.chunks)
             rest == [wfFetch.body EXCEPT !.chunks = Tail(@)]
  <2>0. /\ wfFetch.phase = "body" /\ UNCHANGED <<wfAsked, wfReached>>
        /\ length \in Nat /\ rest \in Document
    <3>1. /\ wfFetch.phase = "body" /\ UNCHANGED <<wfAsked, wfReached>>
          /\ wfFetch.body \in Document /\ wfFetch.body.chunks # <<>>
      BY <1>6 DEF read_chunk, FetchTypes
    <3>2. wfFetch.body.chunks \in Seq(Nat)
      BY <3>1 DEF Document
    <3>3. length \in Nat /\ Tail(wfFetch.body.chunks) \in Seq(Nat)
      BY <3>1, <3>2
    <3>4. rest \in Document
      BY <3>1, <3>3 DEF Document
    <3> QED
      BY <3>1, <3>3, <3>4
  <2>1. CASE Answer(WfMaxBytes, TRUE)
    <3>1. WfMaxBytes \in 0 .. WfMaxBytes
      BY DEF FetchConstants
    <3> QED
      BY <2>0, <2>1, <3>1, FetchAnswered
  <2>2. CASE ~(length > WfMaxBytes - wfFetch.kept) /\ Fetch([kept |-> wfFetch.kept + length, body |-> rest])
    <3> HIDE DEF length, rest
    <3>1. /\ DOMAIN wfFetch' = FetchFields
          /\ wfFetch'.phase = "body" /\ wfFetch'.url = wfFetch.url
          /\ wfFetch'.hops = wfFetch.hops /\ wfFetch'.body = rest
          /\ wfFetch'.kept = wfFetch.kept + length /\ wfFetch'.answer = wfFetch.answer
      BY <2>0, <2>2, <1>0, FetchChanges DEF FetchFields
    <3>2. wfFetch'.kept \in 0 .. WfMaxBytes
      BY <2>0, <2>2, <3>1 DEF FetchConstants, FetchTypes
    <3> QED
      BY <2>0, <3>1, <3>2 DEF FetchTypes, UrlIsAsked, ReachedIsAsked, OnePerHop, LiteralIsChecked, CutIsSaid, FetchPhases,
                        validate_url, is_reachable
  <2> QED
    BY <1>6, <2>1, <2>2 DEF read_chunk
<1>7. CASE read_end
  BY <1>7, FetchAnswered DEF read_end, FetchTypes
<1>9. CASE abandon_fetch
  BY <1>9, FetchOver DEF abandon_fetch
<1>8. ASSUME NEW name \in WfNames, NEW classes \in SUBSET Classes, rebind(name, classes) PROVE FetchInv'
  BY <1>8 DEF rebind, FetchTypes, UrlIsAsked, ReachedIsAsked, OnePerHop, LiteralIsChecked, CutIsSaid, Missing, validate_url, is_reachable
<1> QED
  BY <1>1, <1>2, <1>3, <1>4, <1>5, <1>6, <1>7, <1>8, <1>9 DEF FetchNext

(* However names move between the check and the connection and wherever redirects lead, a
   fetch reaches only addresses the deployment allows, for URLs that were authorised, over no
   more hops than allowed; and an answer that leaves out bytes of the body or text of the markup says
   so (net resolver.rs, tool.rs, extract.rs). *)
THEOREM FetchHolds ==
  ASSUME FetchConstants
  PROVE  FetchSpec => []ReachesOnlyWhatWasAsked
<1>1. FetchInit => FetchInv
  BY FS_EmptySet DEF FetchConstants, FetchInit, FetchInv, FetchTypes, FetchFields, FetchPhases, UrlIsAsked,
         ReachedIsAsked, OnePerHop, LiteralIsChecked, CutIsSaid
<1>2. FetchInv /\ [FetchNext]_wfVars => FetchInv'
  <2>1. CASE UNCHANGED wfVars
    BY <2>1 DEF wfVars, FetchInv, FetchTypes, UrlIsAsked, ReachedIsAsked, OnePerHop, LiteralIsChecked, CutIsSaid, Missing, validate_url, is_reachable
  <2> QED
    BY <2>1, FetchStepsKeep
<1>3. FetchInv => ReachesOnlyWhatWasAsked
  BY FS_CardinalityType DEF FetchConstants, FetchInv, FetchTypes, ReachedIsAsked, OnePerHop, CutIsSaid, ReachesOnlyWhatWasAsked
<1> QED
  BY <1>1, <1>2, <1>3, PTL DEF FetchSpec


(* The guards of classify_v6(), by name. *)
Loopback6 == [i \in 1 .. 8 |-> IF i = 8 THEN 1 ELSE 0]
IsMapped(s) == (\A i \in 1 .. 5 : s[i] = 0) /\ s[6] = 65535
IsCompatible(s) == (\A i \in 1 .. 6 : s[i] = 0) /\ s # Loopback6
IsFar(s) == s[1] \div 256 = 255 \/ s[1] \div 64 = 1018
IsTunnel(s) == \/ IsFar(s) \/ s[1] = 8194
               \/ s[1] = 8193 /\ s[2] \in {0, 3512}
               \/ s[1] = 256 /\ s[2] = 0 /\ s[3] = 0 /\ s[4] = 0
IsNear(s) == s = Loopback6 \/ s[1] \div 512 = 126

LEMMA ClassesOfV6 ==
  ASSUME NEW s
  PROVE  classify_v6(s) = CASE IsMapped(s) -> classify_v4(Octets(s[7], s[8]))
                            [] IsCompatible(s) -> "refused"
                            [] IsTunnel(s) -> "refused"
                            [] IsNear(s) -> "local"
                            [] OTHER -> "global"
  BY DEF classify_v6, IsMapped, IsCompatible, IsTunnel, IsFar, IsNear, Loopback6

(* The mapped form is the address it carries. *)
LEMMA MappedIsItself ==
  ASSUME NEW s, IsMapped(s)
  PROVE  classify_v6(s) = classify_v4(Octets(s[7], s[8]))
<1>1. s[1] = 0 /\ s[6] = 65535
  BY DEF IsMapped
<1>2. Loopback6[6] = 0
  BY DEF Loopback6
<1>3. ~IsCompatible(s)
  BY <1>1 DEF IsCompatible
<1>4. ~(s[1] \div 512 = 126) /\ ~(s[1] \div 256 = 255) /\ ~(s[1] \div 64 = 1018)
  BY <1>1
<1>5. ~IsNear(s) /\ ~IsTunnel(s)
  BY <1>1, <1>2, <1>4 DEF IsNear, IsTunnel, IsFar
<1> QED
  BY <1>3, <1>5, ClassesOfV6

(* A form that carries one without being the mapped one is refused. *)
LEMMA CompatibleIsRefused ==
  ASSUME NEW s, IsCompatible(s)
  PROVE  classify_v6(s) = "refused"
<1>1. s[6] # 65535 /\ s[1] = 0
  BY DEF IsCompatible
<1>2. ~(s[1] \div 512 = 126)
  BY <1>1
<1>3. ~IsMapped(s) /\ ~IsNear(s)
  BY <1>1, <1>2 DEF IsMapped, IsNear, IsCompatible
<1> QED
  BY <1>3, ClassesOfV6

LEMMA TunnelIsRefused ==
  ASSUME NEW s, s[1] = 8194 \/ (s[1] = 8193 /\ s[2] = 0)
  PROVE  classify_v6(s) = "refused"
<1>1. Loopback6[1] = 0
  BY DEF Loopback6
<1>2. ~IsMapped(s) /\ ~IsCompatible(s)
  BY DEF IsMapped, IsCompatible
<1>3. IsTunnel(s)
  BY DEF IsTunnel
<1>4. ~(s[1] \div 512 = 126)
  OBVIOUS
<1>5. ~IsNear(s)
  BY <1>1, <1>4 DEF IsNear
<1> QED
  BY <1>2, <1>3, <1>5, ClassesOfV6

MappedForm(hi, lo) == <<0, 0, 0, 0, 0, 65535, hi, lo>>
CompatibleForm(hi, lo) == <<0, 0, 0, 0, 0, 0, hi, lo>>
SixToFour(hi, lo) == <<8194, hi, lo, 0, 0, 0, 0, 1>>
Teredo(hi, lo) == <<8193, 0, 1, 2, 3, 4, hi, lo>>

(* The translators' prefix is none of the ranges classify_v6() names. *)
LEMMA TranslatedIsGlobal ==
  ASSUME NEW hi, NEW lo
  PROVE  classify_v6(Translated(hi, lo)) = "global"
<1>1. Translated(hi, lo)[1] = 100
  BY DEF Translated
<1>2. Loopback6[1] = 0
  BY DEF Loopback6
<1>3. ~(100 \div 512 = 126) /\ ~(100 \div 256 = 255) /\ ~(100 \div 64 = 1018)
  OBVIOUS
<1>4. /\ ~IsMapped(Translated(hi, lo)) /\ ~IsCompatible(Translated(hi, lo))
      /\ ~IsTunnel(Translated(hi, lo)) /\ ~IsNear(Translated(hi, lo))
  BY <1>1, <1>2, <1>3 DEF IsMapped, IsCompatible, IsTunnel, IsFar, IsNear
<1> QED
  BY <1>4, ClassesOfV6

(* For every IPv4 address, given by its two halves: written as IPv6 in any of the four forms
   classify_v6() names, it is classified no easier to reach; written under the translators' prefix,
   which it does not name, it is classified global whatever it is (net address.rs classify_v6()). *)
THEOREM SpellingHolds ==
  ASSUME NEW hi \in Nat, NEW lo \in Nat
  PROVE  SpellingNeverHelps(hi, lo)
<1>1. classify_v6(MappedForm(hi, lo)) = classify_v4(Octets(hi, lo))
  <2>1. IsMapped(MappedForm(hi, lo)) /\ MappedForm(hi, lo)[7] = hi /\ MappedForm(hi, lo)[8] = lo
    BY DEF IsMapped, MappedForm
  <2> QED
    BY <2>1, MappedIsItself
<1>2. ASSUME ~(hi = 0 /\ lo <= 1) PROVE classify_v6(CompatibleForm(hi, lo)) = "refused"
  <2>1. /\ \A i \in 1 .. 6 : CompatibleForm(hi, lo)[i] = 0
        /\ CompatibleForm(hi, lo)[7] = hi /\ CompatibleForm(hi, lo)[8] = lo
    BY DEF CompatibleForm
  <2>2. Loopback6[7] = 0 /\ Loopback6[8] = 1
    BY DEF Loopback6
  <2>3. CompatibleForm(hi, lo) # Loopback6
    BY <1>2, <2>1, <2>2
  <2>4. IsCompatible(CompatibleForm(hi, lo))
    BY <2>1, <2>3 DEF IsCompatible
  <2> QED
    BY <2>4, CompatibleIsRefused
<1>3. classify_v6(SixToFour(hi, lo)) = "refused"
  <2>1. SixToFour(hi, lo)[1] = 8194
    BY DEF SixToFour
  <2> QED
    BY <2>1, TunnelIsRefused
<1>4. classify_v6(Teredo(hi, lo)) = "refused"
  <2>1. Teredo(hi, lo)[1] = 8193 /\ Teredo(hi, lo)[2] = 0
    BY DEF Teredo
  <2> QED
    BY <2>1, TunnelIsRefused
<1>5. Spellings(hi, lo) = {MappedForm(hi, lo), SixToFour(hi, lo), Teredo(hi, lo)}
                            \cup (IF hi = 0 /\ lo <= 1 THEN {} ELSE {CompatibleForm(hi, lo)})
  BY DEF Spellings, MappedForm, SixToFour, Teredo, CompatibleForm
<1>6. \A s \in Spellings(hi, lo) : classify_v6(s) \in {classify_v4(Octets(hi, lo)), "refused"}
  BY <1>1, <1>2, <1>3, <1>4, <1>5
<1> QED
  BY <1>6, TranslatedIsGlobal DEF SpellingNeverHelps

-----------------------------------------------------------------------------
(* The process tool: ProcessRun *)

StreamState(st) ==
  /\ DOMAIN st = {"pipe", "produced", "kept", "truncated", "eof"}
  /\ st.pipe \in Nat /\ st.produced \in Nat /\ st.kept \in Nat
  /\ st.truncated \in BOOLEAN /\ st.eof \in BOOLEAN

ProcessTypes ==
  /\ DOMAIN prCall = {"phase", "sandboxed", "deadline", "fed", "kid", "timed_out", "code", "answer"}
  /\ prCall.phase \in {"idle", "running", "killed", "answered"}
  /\ prCall.kid \in {"unborn", "grouped", "detached"}
  /\ prCall.sandboxed \in BOOLEAN /\ prCall.timed_out \in BOOLEAN
  /\ prAlive \subseteq {"child", "kid"}
  /\ DOMAIN prStream = Streams /\ \A s \in Streams : StreamState(prStream[s])

\* Who holds a pipe lives, and nobody lives before the spawn or before being forked.
Tree ==
  /\ prHolders \subseteq prAlive
  /\ prCall.phase = "idle" => prAlive = {}
  /\ prCall.kid = "unborn" => "kid" \notin prAlive

\* No answer before the end; a reported one only once both streams were read to theirs.
Answers ==
  /\ prCall.phase # "answered" => prCall.answer = PrNone
  /\ prCall.answer \in {"ok", "failed", "timeout"} => \A s \in Streams : prStream[s].eof
  /\ prCall.answer \in {PrNone, "refused", "cancelled", "dropped", "timeout", "failed", "ok"}

\* Everything that left a pipe was kept or counted as over the cap, and a stream that ended
\* is empty with nobody left to write to it.
Counted(st) ==
  /\ st.pipe <= st.produced
  /\ st.kept = Least(PrCap, st.produced - st.pipe)
  /\ st.truncated = ~(st.produced - st.pipe <= PrCap)
Drained(s) == prStream[s].eof => prStream[s].pipe = 0 /\ prHolders = {} /\ prCall.phase # "idle"
Accounted == \A s \in Streams : Counted(prStream[s]) /\ Drained(s)

\* What a kill reaches is gone.
KilledIsGone ==
  /\ (prCall.phase = "killed" \/ prCall.answer = "cancelled")
       /\ (prCall.sandboxed \/ prCall.kid # "detached") => prAlive = {}
  /\ prCall.answer = "dropped" => "child" \notin prAlive /\ (prCall.sandboxed => prAlive = {})

ProcessInv == ProcessTypes /\ Tree /\ Answers /\ Accounted /\ KilledIsGone

(* Reading n bytes out of a pipe keeps the count. *)
LEMMA CaptureCounts ==
  ASSUME ProcessConstants, NEW st, StreamState(st), Counted(st), NEW n \in 1 .. st.pipe,
         NEW after, after = [captured(st, n) EXCEPT !.pipe = @ - n]
  PROVE  StreamState(after) /\ Counted(after) /\ after.eof = st.eof
<1>1. /\ st.pipe \in Nat /\ st.produced \in Nat /\ st.kept \in Nat /\ n \in Nat /\ n <= st.pipe
      /\ st.pipe <= st.produced /\ st.kept = Least(PrCap, st.produced - st.pipe)
      /\ PrCap \in Nat
  BY DEF StreamState, Counted, ProcessConstants
<1>2. /\ captured(st, n).kept = Least(PrCap, st.kept + n)
      /\ captured(st, n).truncated = (st.truncated \/ n > PrCap - st.kept)
      /\ captured(st, n).pipe = st.pipe /\ captured(st, n).produced = st.produced
      /\ captured(st, n).eof = st.eof
      /\ DOMAIN captured(st, n) = {"pipe", "produced", "kept", "truncated", "eof"}
  BY DEF captured, StreamState
<1>3. /\ after.kept = Least(PrCap, st.kept + n)
      /\ after.truncated = (st.truncated \/ n > PrCap - st.kept)
      /\ after.pipe = st.pipe - n /\ after.produced = st.produced /\ after.eof = st.eof
      /\ DOMAIN after = {"pipe", "produced", "kept", "truncated", "eof"}
  BY <1>2
<1>4. after.kept \in Nat /\ after.kept = Least(PrCap, after.produced - after.pipe)
  BY <1>1, <1>3 DEF Least
<1>5. after.pipe \in Nat /\ after.produced \in Nat /\ after.pipe <= after.produced
  BY <1>1, <1>3
<1>6. after.truncated = ~(after.produced - after.pipe <= PrCap)
  <2>1. (~(st.produced - st.pipe <= PrCap) \/ n > PrCap - st.kept) <=> ~(after.produced - after.pipe <= PrCap)
    BY <1>1, <1>3, SMT DEF Least
  <2>3. st.truncated = ~(st.produced - st.pipe <= PrCap)
    BY DEF Counted
  <2>4. after.truncated = (~(st.produced - st.pipe <= PrCap) \/ n > PrCap - st.kept)
    BY <1>3, <2>3, Zenon
  <2>5. CASE after.produced - after.pipe <= PrCap
    <3>1. after.truncated = FALSE
      BY <2>1, <2>4, <2>5, Zenon
    <3> QED
      BY <2>5, <3>1, Zenon
  <2>6. CASE ~(after.produced - after.pipe <= PrCap)
    <3>1. after.truncated = TRUE
      BY <2>1, <2>4, <2>6, Zenon
    <3> QED
      BY <2>6, <3>1, Zenon
  <2> QED
    BY <2>5, <2>6
<1>7. after.eof \in BOOLEAN
  BY <1>3 DEF StreamState
<1>8. after.truncated \in BOOLEAN
  BY <1>6, Zenon
<1>9. StreamState(after)
  BY <1>3, <1>4, <1>5, <1>7, <1>8, Zenon DEF StreamState
<1>10. Counted(after)
  BY <1>4, <1>5, <1>6, Zenon DEF Counted
<1> QED
  BY <1>3, <1>9, <1>10, Zenon

LEMMA ProcessStepsKeep ==
  ASSUME ProcessConstants, ProcessInv, ProcessNext
  PROVE  ProcessInv'
<1> USE DEF ProcessInv
<1>1. ASSUME NEW r \in PrRequests, NEW d \in PrDeadlines, NEW sandboxed \in BOOLEAN,
             invoke_process(r, d, sandboxed)
      PROVE  ProcessInv'
  <2>1. /\ prCall.answer = PrNone /\ prAlive = {} /\ prHolders = {} /\ prStream' = prStream
        /\ \A s \in Streams : prStream[s].eof = FALSE
    BY <1>1, Zenon DEF invoke_process, Answers, Tree, Accounted, Drained, ProcessTypes, StreamState
  <2>2. CASE validate(r) /\ r.program \in PrInstalled
    <3>1. /\ prCall' = [prCall EXCEPT !.phase = "running", !.sandboxed = sandboxed,
                                       !.deadline = d, !.fed = (r.stdin = PrNone)]
          /\ prAlive' = {"child"} /\ prHolders' = {"child"}
      BY <1>1, <2>2 DEF invoke_process
    <3>2. /\ prCall'.phase = "running" /\ prCall'.kid = prCall.kid /\ prCall'.answer = prCall.answer
          /\ DOMAIN prCall' = DOMAIN prCall
      BY <3>1 DEF ProcessTypes
    <3>3. prCall'.sandboxed \in BOOLEAN /\ prCall'.timed_out \in BOOLEAN
      BY <3>1 DEF ProcessTypes
    <3>4. ProcessTypes'
      BY <2>1, <3>1, <3>2, <3>3 DEF ProcessTypes, StreamState
    <3>5. Tree' /\ Answers' /\ KilledIsGone'
      BY <2>1, <3>1, <3>2 DEF Tree, Answers, KilledIsGone, ProcessConstants
    <3>6. Accounted'
      BY <2>1, <3>2, Zenon DEF Accounted, Counted, Drained
    <3> QED
      BY <3>4, <3>5, <3>6
  <2>3. CASE ~(validate(r) /\ r.program \in PrInstalled)
    <3>1. /\ prCall' = [prCall EXCEPT !.phase = "answered", !.answer = "refused"]
          /\ prAlive' = prAlive /\ prHolders' = prHolders
      BY <1>1, <2>3 DEF invoke_process
    <3>2. /\ prCall'.phase = "answered" /\ prCall'.kid = prCall.kid /\ prCall'.answer = "refused"
          /\ DOMAIN prCall' = DOMAIN prCall
      BY <3>1 DEF ProcessTypes
    <3>3. prCall'.sandboxed \in BOOLEAN /\ prCall'.timed_out \in BOOLEAN
      BY <3>1 DEF ProcessTypes
    <3>4. ProcessTypes'
      BY <2>1, <3>1, <3>2, <3>3 DEF ProcessTypes, StreamState
    <3>5. Tree' /\ Answers' /\ KilledIsGone'
      BY <2>1, <3>1, <3>2 DEF Tree, Answers, KilledIsGone, ProcessConstants
    <3>6. Accounted'
      BY <2>1, <3>2, Zenon DEF Accounted, Counted, Drained
    <3> QED
      BY <3>4, <3>5, <3>6
  <2> QED
    BY <2>2, <2>3
<1>2. CASE feed
  BY <1>2 DEF feed, ProcessTypes, Tree, Answers, Accounted, Counted, StreamState, Drained, KilledIsGone, ProcessConstants
<1>3. CASE child_forks
  BY <1>3 DEF child_forks, ProcessTypes, Tree, Answers, Accounted, Counted, StreamState, Drained, KilledIsGone, ProcessConstants
<1>4. CASE kid_detaches
  BY <1>4 DEF kid_detaches, ProcessTypes, Tree, Answers, Accounted, Counted, StreamState, Drained, KilledIsGone, ProcessConstants
<1>5. CASE times_out
  BY <1>5 DEF times_out, Kill, kill_group, ProcessTypes, Tree, Answers, Accounted, Counted, StreamState, Drained, KilledIsGone,
     ProcessConstants
<1>6. CASE cancelled
  BY <1>6 DEF cancelled, Kill, kill_group, ProcessTypes, Tree, Answers, Accounted, Counted, StreamState, Drained, KilledIsGone,
     ProcessConstants
<1>12. CASE dropped
  BY <1>12 DEF dropped, Running, ProcessTypes, Tree, Answers, Accounted, Counted, StreamState, Drained, KilledIsGone,
     ProcessConstants
<1>7. CASE finishes
  <2>1. report(prCall) \in {"timeout", "failed", "ok"}
    BY DEF report, ProcessTypes
  <2> QED
    BY <1>7, <2>1 DEF finishes, Running, ProcessTypes, Tree, Answers, Accounted, Counted, StreamState, Drained, KilledIsGone,
       ProcessConstants
<1>8. ASSUME NEW p \in {"child", "kid"}, closes_pipes(p) PROVE ProcessInv'
  BY <1>8 DEF closes_pipes, ProcessTypes, Tree, Answers, Accounted, Counted, StreamState, Drained, KilledIsGone, ProcessConstants
<1>9. ASSUME NEW p \in {"child", "kid"}, exits(p) PROVE ProcessInv'
  <2>1. /\ p \in prAlive /\ prAlive' = prAlive \ {p} /\ prHolders' = prHolders \ {p} /\ prStream' = prStream
        /\ \E code \in {"zero", "nonzero"} : prCall' \in {prCall, [prCall EXCEPT !.code = code]}
    BY <1>9 DEF exits
  <2>2. /\ prCall'.phase = prCall.phase /\ prCall'.kid = prCall.kid /\ prCall'.answer = prCall.answer
        /\ prCall'.sandboxed = prCall.sandboxed /\ prCall'.timed_out = prCall.timed_out
        /\ DOMAIN prCall' = DOMAIN prCall
    BY <2>1 DEF ProcessTypes
  <2>3. ProcessTypes'
    BY <2>1, <2>2 DEF ProcessTypes, StreamState
  <2>4. Tree' /\ Answers' /\ KilledIsGone'
    BY <2>1, <2>2 DEF Tree, Answers, KilledIsGone, ProcessConstants
  <2>5. Accounted'
    BY <2>1, <2>2 DEF Accounted, Counted, Drained
  <2> QED
    BY <2>3, <2>4, <2>5
<1>10. ASSUME NEW p \in {"child", "kid"}, NEW s \in Streams, child_writes(p, s) PROVE ProcessInv'
  <2>1. /\ prStream' = [prStream EXCEPT ![s].pipe = @ + 1, ![s].produced = @ + 1]
        /\ prCall' = prCall /\ prAlive' = prAlive /\ prHolders' = prHolders /\ p \in prHolders
    BY <1>10 DEF child_writes
  <2>2. StreamState(prStream[s]) /\ Counted(prStream[s]) /\ prStream[s].eof = FALSE
    BY <2>1, Zenon DEF ProcessTypes, Accounted, Drained, StreamState
  <2>3. /\ DOMAIN prStream' = Streams
        /\ \A t \in Streams : t # s => prStream'[t] = prStream[t]
        /\ prStream'[s].pipe = prStream[s].pipe + 1 /\ prStream'[s].produced = prStream[s].produced + 1
        /\ prStream'[s].kept = prStream[s].kept /\ prStream'[s].truncated = prStream[s].truncated
        /\ prStream'[s].eof = prStream[s].eof /\ DOMAIN prStream'[s] = DOMAIN prStream[s]
    BY <2>1, <2>2 DEF ProcessTypes, StreamState
  <2>4. StreamState(prStream'[s]) /\ prStream'[s].eof = FALSE
    BY <2>2, <2>3 DEF StreamState
  <2>5. Counted(prStream'[s])
    <3>1. prStream'[s].produced - prStream'[s].pipe = prStream[s].produced - prStream[s].pipe
      BY <2>2, <2>3 DEF StreamState
    <3>2. prStream'[s].pipe <= prStream'[s].produced
      BY <2>2, <2>3 DEF StreamState, Counted
    <3> QED
      BY <2>2, <2>3, <3>1, <3>2, Zenon DEF Counted
  <2>6. ProcessTypes'
    BY <2>1, <2>3, <2>4, Zenon DEF ProcessTypes
  <2>7. prCall.answer \notin {"ok", "failed", "timeout"}
    BY <2>2 DEF Answers
  <2>9. Tree' /\ Answers' /\ KilledIsGone'
    BY <2>1, <2>7, Zenon DEF Tree, Answers, KilledIsGone
  <2>8. Accounted'
    <3> SUFFICES ASSUME NEW t \in Streams PROVE Counted(prStream'[t]) /\ Drained(t)'
      BY Zenon DEF Accounted, Counted
    <3>1. CASE t = s
      BY <2>4, <2>5, <3>1, Zenon DEF Drained
    <3>2. CASE t # s
      BY <2>1, <2>3, <3>2, Zenon DEF Drained, Accounted
    <3> QED
      BY <3>1, <3>2
  <2> QED
    BY <2>6, <2>8, <2>9
<1>11. ASSUME NEW s \in Streams, capture(s) PROVE ProcessInv'
  <2>1. /\ prCall.phase # "idle" /\ prStream[s].eof = FALSE
        /\ prCall' = prCall /\ prAlive' = prAlive /\ prHolders' = prHolders
    BY <1>11, Zenon DEF capture, Running, ProcessTypes, StreamState
  <2>2. StreamState(prStream[s]) /\ Counted(prStream[s]) /\ DOMAIN prStream = Streams
    BY DEF ProcessTypes, Accounted
  <2>3. PICK after : /\ prStream' = [prStream EXCEPT ![s] = after]
                     /\ StreamState(after) /\ Counted(after)
                     /\ after.eof = FALSE \/ (after.pipe = 0 /\ prHolders = {})
    <3>1. ASSUME NEW n \in 1 .. prStream[s].pipe,
                 prStream' = [prStream EXCEPT ![s] = [captured(prStream[s], n) EXCEPT !.pipe = @ - n]]
          PROVE  \E after : /\ prStream' = [prStream EXCEPT ![s] = after]
                            /\ StreamState(after) /\ Counted(after)
                            /\ after.eof = FALSE \/ (after.pipe = 0 /\ prHolders = {})
      <4>0. PICK after : after = [captured(prStream[s], n) EXCEPT !.pipe = @ - n]
        OBVIOUS
      <4>1. StreamState(after) /\ Counted(after) /\ after.eof = prStream[s].eof
        BY <2>2, <4>0, CaptureCounts, Zenon
      <4>2. prStream' = [prStream EXCEPT ![s] = after]
        BY <3>1, <4>0, Zenon
      <4> QED
        BY <2>1, <4>1, <4>2, Zenon
    <3>2. ASSUME prStream[s].pipe = 0, prHolders = {}, prStream' = [prStream EXCEPT ![s].eof = TRUE]
          PROVE  \E after : /\ prStream' = [prStream EXCEPT ![s] = after]
                            /\ StreamState(after) /\ Counted(after)
                            /\ after.eof = FALSE \/ (after.pipe = 0 /\ prHolders = {})
      <4> DEFINE after == [prStream[s] EXCEPT !.eof = TRUE]
      <4>1. prStream' = [prStream EXCEPT ![s] = after]
        BY <2>2, <3>2
      <4>2. /\ after.pipe = prStream[s].pipe /\ after.produced = prStream[s].produced
            /\ after.kept = prStream[s].kept /\ after.truncated = prStream[s].truncated
            /\ DOMAIN after = DOMAIN prStream[s]
        BY <2>2 DEF StreamState
      <4>3. after.eof \in BOOLEAN
        BY <2>2 DEF StreamState
      <4> HIDE DEF after
      <4>4. StreamState(after) /\ Counted(after)
        BY <2>2, <4>2, <4>3, Zenon DEF StreamState, Counted
      <4> QED
        BY <3>2, <4>1, <4>2, <4>4, Zenon
    <3> QED
      BY <1>11, <3>1, <3>2, Zenon DEF capture
  <2>4. /\ DOMAIN prStream' = Streams /\ prStream'[s] = after
        /\ \A t \in Streams : t # s => prStream'[t] = prStream[t]
    BY <2>2, <2>3
  <2>5. ProcessTypes'
    BY <2>1, <2>3, <2>4, Zenon DEF ProcessTypes
  <2>6. Tree' /\ KilledIsGone'
    BY <2>1, Zenon DEF Tree, KilledIsGone
  <2>7. Answers'
    <3>1. prCall.answer \notin {"ok", "failed", "timeout"}
      BY <2>1 DEF Answers
    <3> QED
      BY <2>1, <3>1, Zenon DEF Answers
  <2>8. Accounted'
    <3> SUFFICES ASSUME NEW t \in Streams PROVE Counted(prStream'[t]) /\ Drained(t)'
      BY Zenon DEF Accounted, Counted
    <3>1. CASE t = s
      BY <2>1, <2>3, <2>4, <3>1, Zenon DEF Drained
    <3>2. CASE t # s
      BY <2>1, <2>4, <3>2, Zenon DEF Drained, Accounted
    <3> QED
      BY <3>1, <3>2
  <2> QED
    BY <2>5, <2>6, <2>7, <2>8
<1> QED
  BY <1>1, <1>2, <1>3, <1>4, <1>5, <1>6, <1>7, <1>8, <1>9, <1>10, <1>11, <1>12 DEF ProcessNext

(* Whenever it is cut short, a run leaves nobody holding the pipes the runner reads - but for a
   descendant that left the group of an unconfined child; one whose future was dropped leaves no
   child, and nobody in the sandbox - and what it reports accounts for every byte either stream carried (exec runner.rs). *)
THEOREM ProcessHolds ==
  ASSUME ProcessConstants
  PROVE  ProcessSpec => []RunLeavesNothing
<1>1. ProcessInit => ProcessInv
  <2> SUFFICES ASSUME ProcessInit PROVE ProcessInv
    OBVIOUS
  <2>1. \A s \in Streams : /\ DOMAIN prStream[s] = {"pipe", "produced", "kept", "truncated", "eof"}
                           /\ prStream[s].pipe = 0 /\ prStream[s].produced = 0 /\ prStream[s].kept = 0
                           /\ prStream[s].truncated = FALSE /\ prStream[s].eof = FALSE
    BY DEF ProcessInit
  <2>2. /\ ProcessTypes
        /\ Tree /\ KilledIsGone
    BY <2>1 DEF ProcessInit, ProcessTypes, StreamState, Tree, KilledIsGone, ProcessConstants
  <2>3. Answers
    BY DEF ProcessInit, Answers, ProcessConstants
  <2>4. Accounted
    <3> SUFFICES ASSUME NEW s \in Streams PROVE Counted(prStream[s]) /\ Drained(s)
      BY DEF Accounted
    <3>1. 0 - 0 = 0 /\ 0 <= 0 /\ Least(PrCap, 0) = 0 /\ 0 <= PrCap
      BY DEF Least, ProcessConstants
    <3>2. prStream[s].truncated = ~(0 <= PrCap)
      BY <2>1, <3>1, Zenon
    <3> QED
      BY <2>1, <3>1, <3>2, Zenon DEF Counted, Drained
  <2> QED
    BY <2>2, <2>3, <2>4 DEF ProcessInv
<1>2. ProcessInv /\ [ProcessNext]_prVars => ProcessInv'
  <2>1. CASE UNCHANGED prVars
    BY <2>1 DEF prVars, ProcessInv, ProcessTypes, Tree, Answers, Accounted, Counted, Drained, KilledIsGone
  <2> QED
    BY <2>1, ProcessStepsKeep
<1>3. ProcessInv => RunLeavesNothing
  <2> SUFFICES ASSUME ProcessInv PROVE RunLeavesNothing
    OBVIOUS
  <2>1. (prCall.phase = "killed" \/ prCall.answer = "cancelled")
          /\ (prCall.sandboxed \/ prCall.kid # "detached") => prAlive = {} /\ prHolders = {}
    BY DEF ProcessInv, KilledIsGone, Tree
  <2>3. prCall.answer = "dropped" => "child" \notin prAlive /\ (prCall.sandboxed => prAlive = {})
    BY DEF ProcessInv, KilledIsGone
  <2>2. ASSUME prCall.answer \in {"ok", "failed", "timeout"}, NEW s \in Streams
        PROVE  /\ prStream[s].kept = Least(PrCap, prStream[s].produced)
               /\ prStream[s].truncated <=> prStream[s].produced > PrCap
    <3>1. /\ prStream[s].produced \in Nat /\ prStream[s].pipe = 0 /\ PrCap \in Nat
          /\ prStream[s].kept = Least(PrCap, prStream[s].produced - prStream[s].pipe)
      BY <2>2 DEF ProcessInv, ProcessTypes, StreamState, Answers, Accounted, Drained, Counted, ProcessConstants
    <3>2. prStream[s].truncated = ~(prStream[s].produced - prStream[s].pipe <= PrCap)
      BY <2>2 DEF ProcessInv, Accounted, Counted
    <3>3. prStream[s].produced - prStream[s].pipe = prStream[s].produced
      BY <3>1
    <3>4. prStream[s].truncated = ~(prStream[s].produced <= PrCap)
      BY <3>2, <3>3, Zenon
    <3>5. CASE prStream[s].produced <= PrCap
      <4>1. ~(prStream[s].produced > PrCap)
        BY <3>1, <3>5
      <4>2. prStream[s].truncated = FALSE
        BY <3>4, <3>5, Zenon
      <4> QED
        BY <3>1, <3>3, <4>1, <4>2
    <3>6. CASE ~(prStream[s].produced <= PrCap)
      <4>1. prStream[s].produced > PrCap
        BY <3>1, <3>6
      <4>2. prStream[s].truncated = TRUE
        BY <3>4, <3>6, Zenon
      <4> QED
        BY <3>1, <3>3, <4>1, <4>2
    <3> QED
      BY <3>5, <3>6
  <2> QED
    BY <2>1, <2>2, <2>3, Zenon DEF RunLeavesNothing
<1> QED
  BY <1>1, <1>2, <1>3, PTL DEF ProcessSpec
-----------------------------------------------------------------------------
(* The terminal of a client: ClientSession *)

ClientTypes ==
  /\ clNext \in Nat /\ clWaits \in Nat /\ clWaits < clNext
  /\ clMode \in {"typing", "turn", "call", "asking", "left"}
  /\ clMode = "asking" => clQuestion.from \in {"turn", "call"}
  /\ \E S : clToHost \in Seq(S)
  /\ \E S : clToClient \in Seq(S)

\* A command waits, and the command is a turn: by itself or with a question put on top.
Turning == clMode = "turn" \/ (clMode = "asking" /\ clQuestion.from = "turn")
Waiting == clMode \in {"turn", "call", "asking"}

\* What is on its way to the host: every call once, and of those of a command only the one waited for.
CallsAreOwn ==
  /\ \A i \in DOMAIN clToHost : clToHost[i].id \in Nat /\ clToHost[i].id < clNext
  /\ \A i, j \in DOMAIN clToHost : i # j => clToHost[i].id # clToHost[j].id
  /\ \A i \in DOMAIN clToHost :
       clToHost[i].request \notin OnTheSide =>
         /\ Waiting /\ clToHost[i].id = clWaits
         /\ clToHost[i].request = "prompt" => Turning /\ clToHost[i].about = clSession

\* What the host works on is the turn waited for.
OpenIsOwn ==
  \A p \in clOpen :
    /\ Turning /\ p = [id |-> clWaits, session |-> IF clSession = ClNone THEN clWaits ELSE clSession]
    /\ \A i \in DOMAIN clToHost : clToHost[i].id # p.id

\* What is answered is not pending, and the host has not taken its leave.
AnsweredIsOver ==
  \A k \in DOMAIN clToClient :
    LET frame == clToClient[k].frame
    IN  /\ frame.kind # "closing"
        /\ frame.kind \in {"done", "failed"} =>
             /\ frame.id \in Nat /\ frame.id < clNext
             /\ \A i \in DOMAIN clToHost : clToHost[i].id # frame.id
             /\ \A p \in clOpen : p.id # frame.id

ClientInv ==
  ClientTypes /\ (clHost /\ ~clGarbled => CallsAreOwn /\ OpenIsOwn /\ AnsweredIsOver)

(* A list with one more at its end. *)
LEMMA AddedLast ==
  ASSUME NEW S, NEW s \in Seq(S), NEW x
  PROVE  /\ Append(s, x) \in Seq(S \cup {x})
         /\ DOMAIN Append(s, x) = DOMAIN s \cup {Len(s) + 1} /\ Len(s) + 1 \notin DOMAIN s
         /\ \A i \in DOMAIN s : Append(s, x)[i] = s[i]
         /\ Append(s, x)[Len(s) + 1] = x
<1>1. s \in Seq(S \cup {x}) /\ x \in S \cup {x}
  OBVIOUS
<1> QED
  BY <1>1

(* A list without its first. *)
LEMMA FirstTaken ==
  ASSUME NEW S, NEW s \in Seq(S), s # <<>>
  PROVE  /\ Tail(s) \in Seq(S) /\ 1 \in DOMAIN s /\ Head(s) = s[1]
         /\ \A i \in DOMAIN Tail(s) : i + 1 \in DOMAIN s /\ i + 1 # 1 /\ Tail(s)[i] = s[i + 1]
         /\ \A i, j \in DOMAIN Tail(s) : i # j => i + 1 # j + 1
  OBVIOUS

(* A frame's halves at the end of what is on its way. *)
LEMMA HalvesAdded ==
  ASSUME NEW S, NEW s \in Seq(S), NEW frame
  PROVE  /\ \E T : s \o Halves(frame) \in Seq(T)
         /\ \A k \in DOMAIN (s \o Halves(frame)) :
              \/ k \in DOMAIN s /\ (s \o Halves(frame))[k] = s[k]
              \/ (s \o Halves(frame))[k].frame = frame
<1> DEFINE x == [half |-> "prefix", frame |-> frame]
           y == [half |-> "body", frame |-> frame]
           T == S \cup {x, y}
<1>1. s \in Seq(T) /\ <<x, y>> \in Seq(T) /\ Len(<<x, y>>) = 2 /\ <<x, y>>[1] = x /\ <<x, y>>[2] = y
  OBVIOUS
<1>2. Halves(frame) = <<x, y>> /\ x.frame = frame /\ y.frame = frame
  BY DEF Halves
<1> HIDE DEF x, y, T
<1>3. s \o <<x, y>> \in Seq(T)
  BY <1>1
<1>4. ASSUME NEW k \in DOMAIN (s \o <<x, y>>)
      PROVE  \/ k \in DOMAIN s /\ (s \o <<x, y>>)[k] = s[k]
             \/ (s \o <<x, y>>)[k].frame = frame
  <2>1. Len(s \o <<x, y>>) = Len(s) + 2 /\ k \in 1 .. Len(s) + 2 /\ Len(s) \in Nat
    BY <1>1, <1>3, <1>4
  <2>2. CASE k <= Len(s)
    BY <1>1, <2>1, <2>2
  <2>3. CASE k > Len(s)
    <3>1. (s \o <<x, y>>)[k] = <<x, y>>[k - Len(s)] /\ k - Len(s) \in {1, 2}
      BY <1>1, <2>1, <2>3
    <3> QED
      BY <1>1, <1>2, <3>1
  <2> QED
    BY <2>1, <2>2, <2>3
<1> QED
  BY <1>2, <1>3, <1>4

(* A call of the client joins those on their way. *)
LEMMA SendsAdds ==
  ASSUME ClientInv, NEW request, NEW about, sends(request, about)
  PROVE  /\ clNext' = clNext + 1 /\ \E S : clToHost' \in Seq(S)
         /\ clHost /\ ~clGarbled /\ CallsAreOwn =>
              /\ \A i \in DOMAIN clToHost' : clToHost'[i].id \in Nat /\ clToHost'[i].id < clNext'
              /\ \A i, j \in DOMAIN clToHost' : i # j => clToHost'[i].id # clToHost'[j].id
              /\ \A i \in DOMAIN clToHost' :
                   \/ i \in DOMAIN clToHost /\ clToHost'[i] = clToHost[i]
                   \/ clToHost'[i] = Call(clNext, request, about)
<1>0. clNext' = clNext + 1 /\ clNext \in Nat
  BY DEF sends, ClientInv, ClientTypes
<1>1. PICK S : clToHost \in Seq(S)
  BY DEF ClientInv, ClientTypes
<1>2. CASE ~clHost
  BY <1>0, <1>1, <1>2 DEF sends
<1>3. CASE clHost
  <2> DEFINE x == Call(clNext, request, about)
  <2>1. clToHost' = Append(clToHost, x)
    BY <1>3 DEF sends
  <2>2. x.id = clNext
    BY DEF Call
  <2> HIDE DEF x
  <2>3. /\ clToHost' \in Seq(S \cup {x})
        /\ DOMAIN clToHost' = DOMAIN clToHost \cup {Len(clToHost) + 1} /\ Len(clToHost) + 1 \notin DOMAIN clToHost
        /\ \A i \in DOMAIN clToHost : clToHost'[i] = clToHost[i]
        /\ clToHost'[Len(clToHost) + 1] = x
    BY <1>1, <2>1, AddedLast
  <2>4. ASSUME CallsAreOwn
        PROVE  /\ \A i \in DOMAIN clToHost' : clToHost'[i].id \in Nat /\ clToHost'[i].id < clNext'
               /\ \A i, j \in DOMAIN clToHost' : i # j => clToHost'[i].id # clToHost'[j].id
               /\ \A i \in DOMAIN clToHost' :
                    \/ i \in DOMAIN clToHost /\ clToHost'[i] = clToHost[i]
                    \/ clToHost'[i] = x
    BY <1>0, <2>2, <2>3, <2>4 DEF CallsAreOwn
  <2> QED
    BY <1>0, <2>3, <2>4 DEF x
<1> QED
  BY <1>2, <1>3

(* The host pushes a frame. *)
LEMMA PushesAdds ==
  ASSUME ClientInv, NEW frame, Pushes(frame)
  PROVE  /\ \E S : clToClient' \in Seq(S)
         /\ \A k \in DOMAIN clToClient' :
              \/ k \in DOMAIN clToClient /\ clToClient'[k] = clToClient[k]
              \/ clToClient'[k].frame = frame
  BY HalvesAdded DEF Pushes, ClientInv, ClientTypes

(* What the person starts at the prompt, once the host has nothing left to do. *)
LEMMA StartsKeep ==
  ASSUME ClientConstants, ClientInv, prompts \/ (\E name \in ClCommands : commands(name))
  PROVE  ClientInv'
<1>1. PICK request : /\ sends(request, clSession) /\ request \notin OnTheSide
                     /\ \/ request = "prompt" /\ clMode' = "turn"
                        \/ request # "prompt" /\ clMode' = "call"
  BY DEF prompts, commands, ClientConstants, OnTheSide
<1>2. /\ clMode = "typing" /\ clWaits' = clNext
      /\ UNCHANGED <<clSession, clToClient, clGarbled, clOpen, clHost>>
  BY DEF prompts, commands, HostUnchanged
<1>3. clNext \in Nat /\ clNext' = clNext + 1
  BY <1>1, SendsAdds DEF ClientInv, ClientTypes
<1>4. ClientTypes'
  BY <1>1, <1>2, <1>3, SendsAdds DEF ClientInv, ClientTypes
<1>5. ASSUME clHost', ~clGarbled' PROVE CallsAreOwn' /\ OpenIsOwn' /\ AnsweredIsOver'
  <2>0. clHost /\ ~clGarbled /\ CallsAreOwn /\ OpenIsOwn /\ AnsweredIsOver
    BY <1>2, <1>5 DEF ClientInv
  <2>1. clOpen = {} /\ \A i \in DOMAIN clToHost : clToHost[i].request \in OnTheSide
    BY <1>2, <2>0 DEF OpenIsOwn, CallsAreOwn, Turning, Waiting
  <2>2. /\ \A i \in DOMAIN clToHost' : clToHost'[i].id \in Nat /\ clToHost'[i].id < clNext'
        /\ \A i, j \in DOMAIN clToHost' : i # j => clToHost'[i].id # clToHost'[j].id
        /\ \A i \in DOMAIN clToHost' :
             \/ i \in DOMAIN clToHost /\ clToHost'[i] = clToHost[i]
             \/ clToHost'[i] = Call(clNext, request, clSession)
    BY <1>1, <2>0, SendsAdds
  <2>3. CallsAreOwn'
    <3>1. ASSUME NEW i \in DOMAIN clToHost', clToHost'[i].request \notin OnTheSide
          PROVE  /\ Waiting' /\ clToHost'[i].id = clWaits'
                 /\ clToHost'[i].request = "prompt" => Turning' /\ clToHost'[i].about = clSession'
      <4>1. clToHost'[i] = Call(clNext, request, clSession)
        BY <2>1, <2>2, <3>1
      <4> QED
        BY <1>1, <1>2, <4>1 DEF Call, Waiting, Turning
    <3> QED
      BY <2>2, <3>1 DEF CallsAreOwn
  <2>4. AnsweredIsOver'
    <3> SUFFICES ASSUME NEW k \in DOMAIN clToClient', NEW frame, frame = clToClient'[k].frame
                 PROVE  /\ frame.kind # "closing"
                        /\ frame.kind \in {"done", "failed"} =>
                             /\ frame.id \in Nat /\ frame.id < clNext'
                             /\ \A i \in DOMAIN clToHost' : clToHost'[i].id # frame.id
                             /\ \A p \in clOpen' : p.id # frame.id
      BY DEF AnsweredIsOver
    <3>1. /\ frame.kind # "closing"
          /\ frame.kind \in {"done", "failed"} =>
               frame.id \in Nat /\ frame.id < clNext /\ \A i \in DOMAIN clToHost : clToHost[i].id # frame.id
      BY <1>2, <2>0 DEF AnsweredIsOver
    <3> QED
      BY <1>2, <1>3, <2>1, <2>2, <3>1 DEF Call
  <2> QED
    BY <1>2, <2>1, <2>3, <2>4 DEF OpenIsOwn
<1> QED
  BY <1>4, <1>5 DEF ClientInv

(* What is sent on the side of a command changes nothing about the command. *)
LEMMA AsidesKeep ==
  ASSUME ClientInv, answers \/ interrupts
  PROVE  ClientInv'
<1>1. PICK request \in OnTheSide : \E about : sends(request, about)
  BY DEF answers, interrupts, OnTheSide
<1>2. PICK about : sends(request, about)
  BY <1>1
<1>3. /\ UNCHANGED <<clWaits, clSession, clToClient, clGarbled, clOpen, clHost>>
      /\ clMode' \in {"turn", "call"} /\ Turning' = Turning /\ Waiting /\ Waiting'
  BY DEF answers, interrupts, HostUnchanged, Turning, Waiting, ClientInv, ClientTypes
<1>4. clNext \in Nat /\ clNext' = clNext + 1
  BY <1>2, SendsAdds DEF ClientInv, ClientTypes
<1>5. ClientTypes'
  BY <1>2, <1>3, <1>4, SendsAdds DEF ClientInv, ClientTypes
<1>6. ASSUME clHost', ~clGarbled' PROVE CallsAreOwn' /\ OpenIsOwn' /\ AnsweredIsOver'
  <2>0. clHost /\ ~clGarbled /\ CallsAreOwn /\ OpenIsOwn /\ AnsweredIsOver
    BY <1>3, <1>6 DEF ClientInv
  <2>2. /\ \A i \in DOMAIN clToHost' : clToHost'[i].id \in Nat /\ clToHost'[i].id < clNext'
        /\ \A i, j \in DOMAIN clToHost' : i # j => clToHost'[i].id # clToHost'[j].id
        /\ \A i \in DOMAIN clToHost' :
             \/ i \in DOMAIN clToHost /\ clToHost'[i] = clToHost[i]
             \/ clToHost'[i] = Call(clNext, request, about)
    BY <1>2, <2>0, SendsAdds
  <2>5. Call(clNext, request, about).id = clNext /\ Call(clNext, request, about).request = request
    BY DEF Call
  <2>3. CallsAreOwn'
    <3>1. ASSUME NEW i \in DOMAIN clToHost', clToHost'[i].request \notin OnTheSide
          PROVE  i \in DOMAIN clToHost /\ clToHost'[i] = clToHost[i]
      BY <2>2, <2>5, <3>1
    <3>2. ASSUME NEW i \in DOMAIN clToHost', clToHost'[i].request \notin OnTheSide
          PROVE  /\ Waiting' /\ clToHost'[i].id = clWaits'
                 /\ clToHost'[i].request = "prompt" => Turning' /\ clToHost'[i].about = clSession'
      BY <1>3, <2>0, <3>1, <3>2 DEF CallsAreOwn
    <3> QED
      BY <2>2, <3>2 DEF CallsAreOwn
  <2>4. AnsweredIsOver'
    <3> SUFFICES ASSUME NEW k \in DOMAIN clToClient', NEW frame, frame = clToClient'[k].frame
                 PROVE  /\ frame.kind # "closing"
                        /\ frame.kind \in {"done", "failed"} =>
                             /\ frame.id \in Nat /\ frame.id < clNext'
                             /\ \A i \in DOMAIN clToHost' : clToHost'[i].id # frame.id
                             /\ \A p \in clOpen' : p.id # frame.id
      BY DEF AnsweredIsOver
    <3>1. /\ frame.kind # "closing"
          /\ frame.kind \in {"done", "failed"} =>
               /\ frame.id \in Nat /\ frame.id < clNext /\ \A i \in DOMAIN clToHost : clToHost[i].id # frame.id
               /\ \A p \in clOpen : p.id # frame.id
      BY <1>3, <2>0 DEF AnsweredIsOver
    <3> QED
      BY <1>3, <1>4, <2>2, <2>5, <3>1
  <2>6. OpenIsOwn'
    <3> SUFFICES ASSUME NEW p \in clOpen
                 PROVE  /\ Turning'
                        /\ p = [id |-> clWaits', session |-> IF clSession' = ClNone THEN clWaits' ELSE clSession']
                        /\ \A i \in DOMAIN clToHost' : clToHost'[i].id # p.id
      BY <1>3 DEF OpenIsOwn
    <3>1. p.id < clNext /\ p.id \in Nat
      BY <2>0 DEF OpenIsOwn, ClientInv, ClientTypes
    <3> QED
      BY <1>3, <1>4, <2>0, <2>2, <2>5, <3>1 DEF OpenIsOwn
  <2> QED
    BY <2>3, <2>4, <2>6
<1> QED
  BY <1>5, <1>6 DEF ClientInv

(* A frame read ends the command only with the command's own answer. *)
LEMMA ReadsKeep ==
  ASSUME ClientInv, reads_prefix \/ reads_body
  PROVE  ClientInv'
<1>0. clToClient # <<>> /\ Receiving /\ UNCHANGED <<clWaits, clNext, clToHost, clOpen, clHost>>
  BY DEF reads_prefix, reads_body, HostUnchanged
<1>1. clToClient' = Tail(clToClient) \/ clToClient' = clToClient
  BY DEF reads_prefix, reads_body
<1>2. PICK S : clToClient \in Seq(S)
  BY DEF ClientInv, ClientTypes
<1>3. /\ 1 \in DOMAIN clToClient /\ Head(clToClient) = clToClient[1] /\ clToClient' \in Seq(S)
      /\ \A k \in DOMAIN clToClient' : \E l \in DOMAIN clToClient : clToClient'[k] = clToClient[l]
  BY <1>0, <1>1, <1>2, FirstTaken
<1>4. ClientTypes'
  <2>1. clMode' \in {"typing", "turn", "call", "asking", "left"}
    BY DEF reads_prefix, reads_body, ends, Receiving, ClientInv, ClientTypes
  <2>2. clMode' = "asking" => clQuestion'.from \in {"turn", "call"}
    BY DEF reads_prefix, reads_body, ends, Receiving
  <2> QED
    BY <1>0, <1>3, <2>1, <2>2 DEF ClientInv, ClientTypes
<1>5. ASSUME clHost', ~clGarbled' PROVE CallsAreOwn' /\ OpenIsOwn' /\ AnsweredIsOver'
  <2>0. clHost /\ ~clGarbled /\ CallsAreOwn /\ OpenIsOwn /\ AnsweredIsOver
    BY <1>0, <1>5 DEF ClientInv, reads_prefix, reads_body
  <2>1. AnsweredIsOver'
    BY <1>0, <1>3, <2>0 DEF AnsweredIsOver
  <2>2. ASSUME Waiting' = Waiting, Turning' = Turning, clSession' = clSession
        PROVE  CallsAreOwn' /\ OpenIsOwn'
    BY <1>0, <2>0, <2>2 DEF CallsAreOwn, OpenIsOwn
  <2>3. CASE reads_prefix
    BY <1>5, <2>1, <2>2, <2>3 DEF reads_prefix, Waiting, Turning
  <2>4. CASE reads_body
    <3> DEFINE frame == clToClient[1].frame
    <3>1. CASE answers_this(frame)
      <4>1. /\ \A i \in DOMAIN clToHost : clToHost[i].id # clWaits
            /\ \A p \in clOpen : p.id # clWaits
        BY <1>3, <2>0, <3>1 DEF AnsweredIsOver, answers_this
      <4>2. clOpen = {} /\ \A i \in DOMAIN clToHost : clToHost[i].request \in OnTheSide
        BY <2>0, <4>1 DEF CallsAreOwn, OpenIsOwn
      <4> QED
        BY <1>0, <2>0, <2>1, <4>2 DEF CallsAreOwn, OpenIsOwn
    <3>2. CASE ~answers_this(frame)
      <4>1. frame.kind # "closing"
        BY <1>3, <2>0 DEF AnsweredIsOver
      <4>2. clSession' = clSession /\ \/ clMode' = clMode
                                      \/ clMode' = "asking" /\ clQuestion'.from = clMode
        BY <1>3, <2>4, <3>2, <4>1 DEF reads_body
      <4> QED
        BY <1>0, <2>1, <2>2, <4>2 DEF Waiting, Turning, Receiving
    <3> QED
      BY <3>1, <3>2
  <2> QED
    BY <2>1, <2>3, <2>4
<1> QED
  BY <1>4, <1>5 DEF ClientInv

(* The host takes a call up or answers it, and what it answers is over. *)
LEMMA HostTakesKeeps ==
  ASSUME ClientInv, host_takes
  PROVE  ClientInv'
<1> DEFINE call == Head(clToHost)
<1>0. /\ clHost /\ clToHost # <<>> /\ clToHost' = Tail(clToHost)
      /\ UNCHANGED <<clMode, clQuestion, clWaits, clSession, clNext, clHost, clGarbled>>
      /\ Turning' = Turning /\ Waiting' = Waiting
  BY DEF host_takes, ClientUnchanged, Turning, Waiting
<1>1. PICK S : clToHost \in Seq(S)
  BY DEF ClientInv, ClientTypes
<1>2. /\ clToHost' \in Seq(S) /\ 1 \in DOMAIN clToHost /\ call = clToHost[1]
      /\ \A i \in DOMAIN clToHost' : i + 1 \in DOMAIN clToHost /\ i + 1 # 1 /\ clToHost'[i] = clToHost[i + 1]
      /\ \A i, j \in DOMAIN clToHost' : i # j => i + 1 # j + 1
  BY <1>0, <1>1, FirstTaken
<1> HIDE DEF call
<1>3. ASSUME CallsAreOwn
      PROVE  /\ CallsAreOwn' /\ call.id \in Nat /\ call.id < clNext
             /\ \A i \in DOMAIN clToHost' : clToHost'[i].id # call.id
  BY <1>0, <1>2, <1>3 DEF CallsAreOwn
<1>4. CASE call.request = "prompt"
  <2>1. clToClient' = clToClient /\ clOpen' = clOpen \cup
          {[id |-> call.id, session |-> IF call.about = ClNone THEN call.id ELSE call.about]}
    BY <1>4 DEF host_takes, call
  <2>2. ClientTypes'
    BY <1>0, <1>2, <2>1 DEF ClientInv, ClientTypes
  <2>3. ASSUME ~clGarbled PROVE CallsAreOwn' /\ OpenIsOwn' /\ AnsweredIsOver'
    <3>0. CallsAreOwn /\ OpenIsOwn /\ AnsweredIsOver
      BY <1>0, <2>3 DEF ClientInv
    <3>1. Turning /\ call.id = clWaits /\ call.about = clSession
      BY <1>2, <1>4, <3>0 DEF CallsAreOwn, OnTheSide
    <3>2. OpenIsOwn'
      BY <1>0, <1>2, <1>3, <2>1, <3>0, <3>1 DEF OpenIsOwn
    <3>3. AnsweredIsOver'
      BY <1>0, <1>2, <2>1, <3>0 DEF AnsweredIsOver
    <3> QED
      BY <1>3, <3>0, <3>2, <3>3
  <2> QED
    BY <1>0, <2>2, <2>3 DEF ClientInv
<1>5. CASE call.request # "prompt"
  <2>1. PICK how \in {"done", "failed"} : Pushes(Response_(how, call.id, call.about))
    BY <1>5 DEF host_takes, call
  <2>2. clOpen' = clOpen
    BY <1>5 DEF host_takes, call
  <2> DEFINE frame == Response_(how, call.id, call.about)
  <2>3. frame.kind = how /\ frame.id = call.id
    BY DEF Response_
  <2> HIDE DEF frame
  <2>4. /\ \E T : clToClient' \in Seq(T)
        /\ \A k \in DOMAIN clToClient' :
             \/ k \in DOMAIN clToClient /\ clToClient'[k] = clToClient[k]
             \/ clToClient'[k].frame = frame
    BY <2>1, PushesAdds DEF frame
  <2>5. ClientTypes'
    BY <1>0, <1>2, <2>4 DEF ClientInv, ClientTypes
  <2>6. ASSUME ~clGarbled PROVE CallsAreOwn' /\ OpenIsOwn' /\ AnsweredIsOver'
    <3>0. CallsAreOwn /\ OpenIsOwn /\ AnsweredIsOver
      BY <1>0, <2>6 DEF ClientInv
    <3>1. OpenIsOwn'
      BY <1>0, <1>2, <2>2, <3>0 DEF OpenIsOwn
    <3>2. \A p \in clOpen : p.id # call.id
      BY <1>2, <3>0 DEF OpenIsOwn
    <3>3. AnsweredIsOver'
      BY <1>0, <1>2, <1>3, <2>2, <2>3, <2>4, <3>0, <3>2 DEF AnsweredIsOver
    <3> QED
      BY <1>3, <3>0, <3>1, <3>3
  <2> QED
    BY <1>0, <2>5, <2>6 DEF ClientInv
<1> QED
  BY <1>4, <1>5

(* The host's other frames: of a turn it works on, and of questions. *)
LEMMA HostSaysKeeps ==
  ASSUME ClientInv, host_works \/ host_asks
  PROVE  ClientInv'
<1>0. /\ clHost /\ UNCHANGED <<clMode, clQuestion, clWaits, clSession, clNext, clToHost, clHost, clGarbled>>
      /\ Turning' = Turning /\ Waiting' = Waiting
  BY DEF host_works, host_asks, ClientUnchanged, Turning, Waiting, Pushes
<1>1. PICK frame : /\ Pushes(frame)
                   /\ \/ frame.kind \in {"update", "approval"} /\ clOpen' = clOpen
                      \/ \E p \in clOpen : frame.kind \in {"done", "failed"} /\ frame.id = p.id /\ clOpen' = clOpen \ {p}
  <2>1. CASE host_asks
    BY <2>1 DEF host_asks, Response_
  <2>2. ASSUME NEW p \in clOpen, Pushes(Response_("update", p.id, ClNone)), clOpen' = clOpen
        PROVE  \E frame : /\ Pushes(frame)
                          /\ frame.kind \in {"update", "approval"} /\ clOpen' = clOpen
    BY <2>2 DEF Response_
  <2>3. ASSUME NEW p \in clOpen, NEW how \in {"done", "failed"}, Pushes(Response_(how, p.id, p.session)),
               clOpen' = clOpen \ {p}
        PROVE  \E frame : /\ Pushes(frame)
                          /\ frame.kind \in {"done", "failed"} /\ frame.id = p.id
    BY <2>3 DEF Response_
  <2> QED
    BY <2>1, <2>2, <2>3 DEF host_works
<1>2. /\ \E T : clToClient' \in Seq(T)
      /\ \A k \in DOMAIN clToClient' :
           \/ k \in DOMAIN clToClient /\ clToClient'[k] = clToClient[k]
           \/ clToClient'[k].frame = frame
  BY <1>1, PushesAdds
<1>3. ClientTypes'
  BY <1>0, <1>2 DEF ClientInv, ClientTypes
<1>4. ASSUME ~clGarbled PROVE CallsAreOwn' /\ OpenIsOwn' /\ AnsweredIsOver'
  <2>0. CallsAreOwn /\ OpenIsOwn /\ AnsweredIsOver
    BY <1>0, <1>4 DEF ClientInv
  <2>1. CallsAreOwn' /\ OpenIsOwn'
    BY <1>0, <1>1, <2>0 DEF CallsAreOwn, OpenIsOwn
  <2>2. CASE frame.kind \in {"update", "approval"} /\ clOpen' = clOpen
    BY <1>0, <1>2, <2>0, <2>1, <2>2 DEF AnsweredIsOver
  <2>3. ASSUME NEW p \in clOpen, frame.kind \in {"done", "failed"}, frame.id = p.id, clOpen' = clOpen \ {p}
        PROVE  AnsweredIsOver'
    <3>1. p.id = clWaits /\ clWaits \in Nat /\ clWaits < clNext /\ \A i \in DOMAIN clToHost : clToHost[i].id # p.id
      BY <2>0 DEF OpenIsOwn, ClientInv, ClientTypes
    <3>2. clOpen' = {}
      <4> SUFFICES ASSUME NEW q \in clOpen PROVE q = p
        BY <2>3
      <4> QED
        BY <2>0 DEF OpenIsOwn
    <3> QED
      BY <1>0, <1>2, <2>0, <2>3, <3>1, <3>2 DEF AnsweredIsOver
  <2> QED
    BY <1>1, <2>1, <2>2, <2>3
<1> QED
  BY <1>0, <1>3, <1>4 DEF ClientInv

(* The host leaves, the person does, or the next turn is to be of another conversation. *)
LEMMA LeavesKeep ==
  ASSUME ClientInv, quits \/ starts_over \/ reads_end \/ write_fails \/ host_goes
  PROVE  ClientInv'
<1>1. CASE quits \/ starts_over
  <2>1. /\ clMode = "typing" /\ clMode' \in {"typing", "left"}
        /\ UNCHANGED <<clWaits, clQuestion, clNext, clToHost, clToClient, clOpen, clHost, clGarbled>>
    BY <1>1 DEF quits, starts_over, HostUnchanged
  <2>2. ClientTypes'
    BY <2>1 DEF ClientInv, ClientTypes
  <2>3. ASSUME clHost, ~clGarbled PROVE CallsAreOwn' /\ OpenIsOwn' /\ AnsweredIsOver'
    <3>1. CallsAreOwn /\ OpenIsOwn /\ AnsweredIsOver
      BY <2>3 DEF ClientInv
    <3>2. clOpen = {} /\ \A i \in DOMAIN clToHost : clToHost[i].request \in OnTheSide
      BY <2>1, <3>1 DEF CallsAreOwn, OpenIsOwn, Turning, Waiting
    <3> QED
      BY <2>1, <3>1, <3>2 DEF CallsAreOwn, OpenIsOwn, AnsweredIsOver
  <2> QED
    BY <2>1, <2>2, <2>3 DEF ClientInv
<1>2. CASE reads_end \/ write_fails
  <2>1. /\ ~clHost /\ clMode' \in {"typing", "left"}
        /\ UNCHANGED <<clWaits, clNext, clToHost, clToClient, clHost>>
    BY <1>2 DEF reads_end, write_fails, ends, HostUnchanged
  <2> QED
    BY <2>1 DEF ClientInv, ClientTypes
<1>3. CASE host_goes
  <2>1. /\ ~clHost' /\ clToHost' = <<>>
        /\ UNCHANGED <<clMode, clQuestion, clWaits, clNext>>
    BY <1>3 DEF host_goes, ClientUnchanged
  <2>2. \E S : clToClient' \in Seq(S)
    <3>1. \E S : clToClient \in Seq(S)
      BY DEF ClientInv, ClientTypes
    <3>2. \E S : clToClient \o Halves(Response_("closing", 0, ClNone)) \in Seq(S)
      BY <3>1, HalvesAdded
    <3> QED
      BY <1>3, <3>1, <3>2 DEF host_goes
  <2>3. \E S : clToHost' \in Seq(S)
    <3>1. <<>> \in Seq({})
      OBVIOUS
    <3> QED
      BY <2>1, <3>1
  <2> QED
    BY <2>1, <2>2, <2>3 DEF ClientInv, ClientTypes
<1> QED
  BY <1>1, <1>2, <1>3

(* Whatever answers cross a command on the wire - those of its cancellation, of approvals, of
   earlier commands - the host never works on a turn the client does not wait for, and on none when
   the person can type again (cli client.rs turn(), call()). *)
THEOREM ClientHolds ==
  ASSUME ClientConstants
  PROVE  ClientSpec => []TurnsDoNotOverlap
<1>1. ClientInit => ClientInv
  <2> SUFFICES ASSUME ClientInit PROVE ClientInv
    OBVIOUS
  <2>1. <<>> \in Seq({}) /\ DOMAIN <<>> = {}
    OBVIOUS
  <2> QED
    BY <2>1 DEF ClientInit, ClientInv, ClientTypes, CallsAreOwn, OpenIsOwn, AnsweredIsOver
<1>2. ClientInv /\ [ClientNext]_clVars => ClientInv'
  <2> SUFFICES ASSUME ClientInv, [ClientNext]_clVars PROVE ClientInv'
    OBVIOUS
  <2>1. CASE UNCHANGED clVars
    BY <2>1 DEF clVars, ClientInv, ClientTypes, CallsAreOwn, OpenIsOwn, AnsweredIsOver, Turning, Waiting
  <2> QED
    BY <2>1, StartsKeep, AsidesKeep, ReadsKeep, HostTakesKeeps, HostSaysKeeps, LeavesKeep DEF ClientNext
<1>3. ClientInv => TurnsDoNotOverlap
  BY DEF ClientInv, CallsAreOwn, OpenIsOwn, Turning, Waiting, TurnsDoNotOverlap
<1> QED
  BY <1>1, <1>2, <1>3, PTL DEF ClientSpec

-----------------------------------------------------------------------------
(* The terminal with its own kernel: LocalSession *)

\* Events in the order they were published, none newer than top.
Ascending(file, top) ==
  /\ \A i \in DOMAIN file : file[i] <= top
  /\ \A i, j \in DOMAIN file : i < j => file[i] < file[j]

LocalTypes ==
  /\ lsTail \in [LsTypes -> Nat] /\ lsNext \in [LsTypes -> Nat] /\ lsTotals \in [LsTypes -> Nat]
  /\ lsFile \in [LsTypes -> Seq(Nat)]
  /\ lsUpdates \in Seq({"update", "error", "end"})
  /\ lsMode \in {"starting", "typing", "turn", "asking", "left"}

\* What one subscription took, counted and wrote.
Ledger(type) ==
  /\ lsTotals[type] <= lsNext[type] /\ lsNext[type] <= lsTail[type]
  /\ Ascending(lsFile[type], lsNext[type])
  /\ type \notin lsLagged => /\ lsTotals[type] = lsNext[type]
                             /\ lsRecorder = "on" => Len(lsFile[type]) = lsNext[type]

\* Outside a turn nobody publishes and nothing is left to take; the stream's last word is
\* its last.
AtRest ==
  /\ lsMode \notin {"turn", "asking"} =>
       lsAgent = FALSE /\ \A type \in LsTypes : type \notin lsLagged => lsNext[type] = lsTail[type]
  /\ (\E i \in DOMAIN lsUpdates : lsUpdates[i] # "update") => lsAgent = FALSE

LocalInv == LocalTypes /\ (\A type \in LsTypes : Ledger(type)) /\ AtRest

LEMMA RecordingGrows ==
  ASSUME NEW file \in Seq(Nat), NEW n \in Nat, NEW k \in Nat, Ascending(file, n),
         NEW more, more = [i \in 1 .. k |-> n + i]
  PROVE  /\ file \o more \in Seq(Nat)
         /\ Len(file \o more) = Len(file) + k
         /\ Ascending(file \o more, n + k)
<1>1. more \in Seq(Nat) /\ Len(more) = k /\ DOMAIN more = 1 .. k
  OBVIOUS
<1>2. /\ file \o more \in Seq(Nat) /\ Len(file \o more) = Len(file) + k
      /\ DOMAIN (file \o more) = 1 .. Len(file) + k
  BY <1>1
<1>3. \A i \in 1 .. Len(file) + k :
        (file \o more)[i] = IF i <= Len(file) THEN file[i] ELSE n + (i - Len(file))
  BY <1>1
<1>4. \A i \in DOMAIN file : file[i] \in Nat /\ file[i] <= n
  BY DEF Ascending
<1>5. \A i \in 1 .. Len(file) + k : (file \o more)[i] <= n + k
  BY <1>3, <1>4
<1>6. ASSUME NEW i \in 1 .. Len(file) + k, NEW j \in 1 .. Len(file) + k, i < j
      PROVE  (file \o more)[i] < (file \o more)[j]
  <2>1. CASE j <= Len(file)
    BY <1>3, <1>6, <2>1 DEF Ascending
  <2>2. CASE i <= Len(file) /\ j > Len(file)
    BY <1>3, <1>4, <1>6, <2>2
  <2>3. CASE i > Len(file)
    BY <1>3, <1>6, <2>3
  <2> QED
    BY <1>6, <2>1, <2>2, <2>3
<1> QED
  BY <1>2, <1>5, <1>6 DEF Ascending

\* A channel that overflowed since the subscription last looked.
Overflowed(type) == lsTail[type] - lsNext[type] > LsCapacity

LEMMA TakenIs ==
  ASSUME LocalConstants, LocalTypes, NEW type \in LsTypes, Ledger(type)
  PROVE  /\ try_recv(type) = "lagged" <=> Overflowed(type)
         /\ Overflowed(type) => Taken(type) = <<>>
         /\ ~Overflowed(type) => Taken(type) = [i \in 1 .. (lsTail[type] - lsNext[type]) |-> lsNext[type] + i]
<1>1. lsTail[type] \in Nat /\ lsNext[type] \in Nat /\ lsTail[type] - lsNext[type] \in Nat /\ LsCapacity \in Nat
  BY DEF LocalTypes, Ledger, LocalConstants
<1>2. CASE lsTail[type] - lsNext[type] = 0
  <2>1. try_recv(type) = "empty" /\ ~Overflowed(type)
    BY <1>1, <1>2 DEF try_recv, Overflowed
  <2>2. Taken(type) = <<>>
    BY <2>1 DEF Taken
  <2>3. [i \in 1 .. (lsTail[type] - lsNext[type]) |-> lsNext[type] + i] = <<>>
    BY <1>1, <1>2
  <2> QED
    BY <2>1, <2>2, <2>3
<1>3. CASE lsTail[type] - lsNext[type] > LsCapacity
  <2>1. try_recv(type) = "lagged" /\ Overflowed(type)
    BY <1>1, <1>3 DEF try_recv, Overflowed
  <2> QED
    BY <2>1 DEF Taken
<1>4. CASE lsTail[type] - lsNext[type] # 0 /\ ~(lsTail[type] - lsNext[type] > LsCapacity)
  <2>1. try_recv(type) = "event" /\ ~Overflowed(type)
    BY <1>1, <1>4 DEF try_recv, Overflowed
  <2> QED
    BY <2>1 DEF Taken
<1> QED
  BY <1>2, <1>3, <1>4

(* A drain of one channel: all of it counted and written, or the news that it overflowed. *)
LEMMA DrainOfOne ==
  ASSUME LocalConstants, LocalTypes, NEW type \in LsTypes, Ledger(type), drain, lsTail' = lsTail
  PROVE  /\ Ledger(type)'
         /\ lsNext'[type] \in Nat /\ lsTotals'[type] \in Nat /\ lsFile'[type] \in Seq(Nat)
         /\ type \notin lsLagged' => lsNext'[type] = lsTail'[type]
<1>1. /\ lsTail[type] \in Nat /\ lsNext[type] \in Nat /\ lsTotals[type] \in Nat /\ LsCapacity \in Nat
      /\ lsFile[type] \in Seq(Nat)
  BY DEF LocalTypes, LocalConstants
<1>2. /\ lsTotals[type] <= lsNext[type] /\ lsNext[type] <= lsTail[type] /\ Ascending(lsFile[type], lsNext[type])
      /\ type \notin lsLagged => /\ lsTotals[type] = lsNext[type]
                                 /\ lsRecorder = "on" => Len(lsFile[type]) = lsNext[type]
  BY DEF Ledger
<1>3. lsNext'[type] = IF Overflowed(type) THEN lsTail[type] - LsCapacity ELSE lsTail[type]
  BY TakenIs DEF drain
<1>4. lsTotals'[type] = lsTotals[type] + Len(Taken(type))
  BY DEF drain, counts
<1>5. type \in lsLagged' <=> type \in lsLagged \/ Overflowed(type)
  BY TakenIs DEF drain
<1>6. \/ lsRecorder = "on" /\ lsRecorder' = "on" /\ lsFile'[type] = lsFile[type] \o Taken(type)
      \/ lsRecorder' # "on" /\ lsFile'[type] = lsFile[type]
  BY DEF drain, records
<1>7. CASE Overflowed(type)
  <2>1. Taken(type) = <<>> /\ lsTail[type] - LsCapacity > lsNext[type]
    BY <1>1, <1>2, <1>7, TakenIs DEF Overflowed
  <2>2. lsFile'[type] = lsFile[type]
    BY <1>1, <1>6, <2>1
  <2>3. lsTotals'[type] = lsTotals[type]
    BY <1>1, <1>4, <2>1
  <2>4. lsNext'[type] \in Nat /\ lsNext[type] <= lsNext'[type] /\ lsNext'[type] <= lsTail'[type]
    BY <1>1, <1>3, <1>7, <2>1
  <2>5. Ascending(lsFile'[type], lsNext'[type])
    <3>1. \A i \in DOMAIN lsFile[type] : lsFile[type][i] \in Nat
      BY <1>1
    <3> QED
      BY <1>1, <1>2, <2>2, <2>4, <3>1 DEF Ascending
  <2> QED
    BY <1>1, <1>2, <1>5, <1>7, <2>2, <2>3, <2>4, <2>5 DEF Ledger, Ascending
<1>8. CASE ~Overflowed(type)
  <2> DEFINE k == lsTail[type] - lsNext[type]
  <2>1. k \in Nat /\ lsNext[type] + k = lsTail[type] /\ lsNext'[type] = lsTail[type]
    BY <1>1, <1>2, <1>3, <1>8
  <2>2. Taken(type) = [i \in 1 .. k |-> lsNext[type] + i]
    BY <1>8, TakenIs
  <2> HIDE DEF k
  <2>3. Len(Taken(type)) = k
    BY <2>1, <2>2
  <2>4. /\ lsFile[type] \o Taken(type) \in Seq(Nat)
        /\ Len(lsFile[type] \o Taken(type)) = Len(lsFile[type]) + k
        /\ Ascending(lsFile[type] \o Taken(type), lsTail[type])
    <3>1. Ascending(lsFile[type] \o Taken(type), lsNext[type] + k)
      BY <1>1, <1>2, <2>1, <2>2, RecordingGrows
    <3> QED
      BY <1>1, <1>2, <2>1, <2>2, <3>1, RecordingGrows
  <2>5. Ascending(lsFile[type], lsTail[type])
    <3>1. \A i \in DOMAIN lsFile[type] : lsFile[type][i] \in Nat
      BY <1>1
    <3> QED
      BY <1>1, <1>2, <3>1 DEF Ascending
  <2>6. /\ lsFile'[type] \in Seq(Nat) /\ Ascending(lsFile'[type], lsNext'[type])
        /\ lsRecorder' = "on" => lsRecorder = "on" /\ Len(lsFile'[type]) = Len(lsFile[type]) + k
    BY <1>1, <1>6, <2>1, <2>4, <2>5
  <2>7. /\ lsTotals'[type] \in Nat /\ lsTotals'[type] <= lsNext'[type]
        /\ lsTotals[type] = lsNext[type] => lsTotals'[type] = lsNext'[type]
    BY <1>1, <1>2, <1>4, <2>1, <2>3
  <2>8. type \notin lsLagged' => /\ lsTotals'[type] = lsNext'[type]
                                 /\ lsRecorder' = "on" => Len(lsFile'[type]) = lsNext'[type]
    BY <1>2, <1>5, <2>1, <2>6, <2>7
  <2> QED
    BY <1>1, <2>1, <2>6, <2>7, <2>8 DEF Ledger, Ascending
<1> QED
  BY <1>7, <1>8

LEMMA DrainKeeps ==
  ASSUME LocalConstants, LocalInv, drain, lsTail' = lsTail
  PROVE  /\ lsNext' \in [LsTypes -> Nat] /\ lsTotals' \in [LsTypes -> Nat] /\ lsFile' \in [LsTypes -> Seq(Nat)]
         /\ \A type \in LsTypes : Ledger(type)' /\ (type \notin lsLagged' => lsNext'[type] = lsTail'[type])
<1>1. \A type \in LsTypes : /\ Ledger(type)'
                            /\ lsNext'[type] \in Nat /\ lsTotals'[type] \in Nat /\ lsFile'[type] \in Seq(Nat)
                            /\ type \notin lsLagged' => lsNext'[type] = lsTail'[type]
  BY DrainOfOne DEF LocalInv
<1>3. lsNext' \in [LsTypes -> Nat] /\ lsTotals' \in [LsTypes -> Nat]
  BY <1>1 DEF drain, counts
<1>4. lsFile' \in [LsTypes -> Seq(Nat)]
  <2>1. lsFile' = [type \in LsTypes |-> lsFile'[type]]
    BY DEF drain, records, LocalInv, LocalTypes
  <2> QED
    BY <1>1, <2>1
<1> QED
  BY <1>1, <1>3, <1>4

LEMMA LocalStepsKeep ==
  ASSUME LocalConstants, LocalInv, LocalNext
  PROVE  LocalInv'
<1>0. /\ LocalTypes /\ AtRest
      /\ \A type \in LsTypes : Ledger(type)
  BY DEF LocalInv
<1>1. ASSUME UNCHANGED Books, UNCHANGED lsTail PROVE \A type \in LsTypes : Ledger(type)'
  BY <1>0, <1>1 DEF Ledger, Ascending, Books
<1>2. CASE resume \/ quit \/ lifecycle
  <2>1. UNCHANGED Books /\ UNCHANGED lsTail /\ UNCHANGED <<lsUpdates, lsAgent>>
        /\ lsMode' \in {"typing", "left"} /\ lsMode \in {"starting", "typing"}
    BY <1>2 DEF resume, quit, lifecycle
  <2> QED
    BY <1>0, <1>1, <2>1 DEF LocalInv, LocalTypes, AtRest, Books
<1>3. CASE prompt
  <2>1. /\ UNCHANGED Books /\ UNCHANGED lsTail /\ lsMode = "typing"
        /\ \/ lsMode' = "turn" /\ lsAgent' = TRUE /\ lsUpdates' = <<>>
           \/ lsMode' \in {"typing", "left"} /\ lsAgent' = lsAgent /\ lsUpdates' = lsUpdates
    BY <1>3 DEF prompt
  <2>2. LocalTypes'
    <3>1. lsUpdates' = <<>> => lsUpdates' \in Seq({"update", "error", "end"})
      OBVIOUS
    <3>2. lsUpdates' \in Seq({"update", "error", "end"}) /\ lsMode' \in {"typing", "turn", "left"}
      BY <1>0, <2>1, <3>1, Zenon DEF LocalTypes
    <3> QED
      BY <1>0, <2>1, <3>2 DEF LocalTypes, Books
  <2>3. AtRest'
    BY <1>0, <2>1 DEF AtRest, Books
  <2> QED
    BY <1>1, <2>1, <2>2, <2>3 DEF LocalInv
<1>4. CASE takes_question \/ answers_question \/ loses_broker \/ interrupt \/ broker_asks \/ broker_closes
  <2>1. UNCHANGED Books /\ UNCHANGED lsTail /\ UNCHANGED <<lsUpdates, lsAgent>>
        /\ (lsMode' = lsMode \/ lsMode' \in {"turn", "asking"})
    BY <1>4 DEF takes_question, answers_question, loses_broker, interrupt, broker_asks, broker_closes, AgentOnly
  <2> QED
    BY <1>0, <1>1, <2>1 DEF LocalInv, LocalTypes, AtRest, Books
<1>5. CASE takes_update
  <2>1. /\ lsUpdates # <<>> /\ drain /\ lsTail' = lsTail /\ lsUpdates' = Tail(lsUpdates) /\ lsMode = "turn"
        /\ \/ lsMode' \in {"left", "typing"} /\ lsAgent' = FALSE
           \/ lsMode' = lsMode /\ lsAgent' = lsAgent
    BY <1>5 DEF takes_update
  <2>2. /\ lsNext' \in [LsTypes -> Nat] /\ lsTotals' \in [LsTypes -> Nat] /\ lsFile' \in [LsTypes -> Seq(Nat)]
        /\ \A type \in LsTypes : Ledger(type)' /\ (type \notin lsLagged' => lsNext'[type] = lsTail'[type])
    BY <2>1, DrainKeeps
  <2>3. /\ lsUpdates' \in Seq({"update", "error", "end"})
        /\ \A i \in DOMAIN lsUpdates' : i + 1 \in DOMAIN lsUpdates /\ lsUpdates'[i] = lsUpdates[i + 1]
    BY <1>0, <2>1 DEF LocalTypes
  <2>4. LocalTypes'
    BY <1>0, <2>1, <2>2, <2>3 DEF LocalTypes
  <2>5. AtRest'
    BY <1>0, <2>1, <2>2, <2>3 DEF AtRest
  <2> QED
    BY <2>2, <2>4, <2>5 DEF LocalInv
<1>6. CASE ends_turn
  <2>1. /\ lsUpdates = <<"end">> /\ drain /\ lsTail' = lsTail /\ lsUpdates' = <<>>
        /\ lsMode' \in {"left", "typing"} /\ lsAgent' = lsAgent
    BY <1>6 DEF ends_turn
  <2>2. /\ lsNext' \in [LsTypes -> Nat] /\ lsTotals' \in [LsTypes -> Nat] /\ lsFile' \in [LsTypes -> Seq(Nat)]
        /\ \A type \in LsTypes : Ledger(type)' /\ (type \notin lsLagged' => lsNext'[type] = lsTail'[type])
    BY <2>1, DrainKeeps
  <2>3. lsAgent = FALSE
    BY <1>0, <2>1 DEF AtRest
  <2>4. LocalTypes'
    BY <1>0, <2>1, <2>2 DEF LocalTypes
  <2>5. AtRest'
    BY <2>1, <2>2, <2>3 DEF AtRest
  <2> QED
    BY <2>2, <2>4, <2>5 DEF LocalInv
<1>7. CASE agent_publishes
  <2>1. PICK t \in LsTypes : lsTail' = [lsTail EXCEPT ![t] = @ + 1]
    BY <1>7 DEF agent_publishes, publish
  <2>2. UNCHANGED <<lsNext, lsFile, lsRecorder, lsTotals, lsLagged, lsUpdates, lsAgent, lsMode>> /\ lsAgent
    BY <1>7 DEF agent_publishes, AgentOnly, Books
  <2>3. LocalTypes'
    BY <1>0, <2>1, <2>2 DEF LocalTypes
  <2>4. \A type \in LsTypes : lsTail[type] <= lsTail'[type]
    BY <1>0, <2>1 DEF LocalTypes
  <2>5. \A type \in LsTypes : Ledger(type)'
    BY <1>0, <2>2, <2>3, <2>4 DEF Ledger, Ascending, LocalTypes
  <2>6. AtRest'
    BY <1>0, <2>2 DEF AtRest
  <2> QED
    BY <2>3, <2>5, <2>6 DEF LocalInv
<1>8. CASE agent_updates
  <2>1. UNCHANGED Books /\ UNCHANGED lsTail /\ UNCHANGED lsMode /\ lsAgent
    BY <1>8 DEF agent_updates, AgentOnly
  <2>2. \E word \in {"update", "error", "end"} :
           lsUpdates' = Append(lsUpdates, word) /\ (word # "update" => lsAgent' = FALSE)
           /\ (word = "update" => lsAgent' = lsAgent)
    BY <1>8 DEF agent_updates
  <2>3. \A i \in DOMAIN lsUpdates : lsUpdates[i] = "update"
    BY <1>0, <2>1 DEF AtRest
  <2>4. LocalTypes'
    BY <1>0, <2>1, <2>2 DEF LocalTypes, Books
  <2>5. lsMode \in {"turn", "asking"}
    BY <1>0, <2>1 DEF AtRest
  <2>6. AtRest'
    <3>1. PICK word \in {"update", "error", "end"} :
             lsUpdates' = Append(lsUpdates, word) /\ (word # "update" => lsAgent' = FALSE)
             /\ (word = "update" => lsAgent' = lsAgent)
      BY <2>2
    <3>2. word = "update" => \A i \in DOMAIN lsUpdates' : lsUpdates'[i] = "update"
      BY <1>0, <2>3, <3>1 DEF LocalTypes
    <3> QED
      BY <2>1, <2>5, <3>1, <3>2 DEF AtRest
  <2> QED
    BY <1>1, <2>1, <2>4, <2>6 DEF LocalInv
<1> QED
  BY <1>2, <1>3, <1>4, <1>5, <1>6, <1>7, <1>8 DEF LocalNext

(* However a turn ended, everything it published is counted and on file, once and in order,
   unless a channel overflowed or the file could not be written; and never is anything counted
   that was not published (cli session.rs turn(), stats.rs, record.rs). *)
THEOREM LocalHolds ==
  ASSUME LocalConstants
  PROVE  LocalSpec => []TurnIsAccounted
<1>1. LocalInit => LocalInv
  BY DEF LocalInit, LocalInv, LocalTypes, Ledger, Ascending, AtRest
<1>2. LocalInv /\ [LocalNext]_lsVars => LocalInv'
  <2>1. CASE UNCHANGED lsVars
    BY <2>1 DEF lsVars, LocalInv, LocalTypes, Ledger, Ascending, AtRest
  <2> QED
    BY <2>1, LocalStepsKeep
<1>3. LocalInv => TurnIsAccounted
  BY DEF LocalInv, LocalTypes, Ledger, Ascending, AtRest, TurnIsAccounted
<1> QED
  BY <1>1, <1>2, <1>3, PTL DEF LocalSpec

-----------------------------------------------------------------------------
(* The client of a tool server: McpClient *)

CallFields == {"pc", "task", "proc", "id", "answer", "pages", "seen", "offered", "result"}

\* Everything a server can write.
McFrames ==
  {Frame(id, FALSE, Got("ok", id, value), FALSE) : id \in Nat, value \in McPages \cup McHellos \cup {McNone}}
    \cup {Frame(id, FALSE, McNone, TRUE) : id \in Nat}
    \cup {Frame(9, TRUE, McNone, FALSE), Frame(McNone, TRUE, McNone, FALSE), Frame(McOdd, FALSE, McNone, TRUE)}

McpTypes ==
  /\ mc_slot \in Procs \cup {McNone} /\ mc_lock \in McCallers \cup {McNone}
  /\ mc_alive \subseteq Procs /\ mc_reader \subseteq Procs /\ mc_spawns \in 0 .. McMaxSpawns
  /\ mc_next \in [Procs -> Nat] /\ mc_asked \in [Procs -> SUBSET Nat]
  /\ mc_inbox \in [Procs -> Seq(McFrames)]
  /\ DOMAIN mc_waiting = Procs
  /\ DOMAIN mc_call = McCallers /\ \A c \in McCallers : DOMAIN mc_call[c] = CallFields

\* A caller in a call has a process, one that was started, and so has the one in a handshake.
InCall(c) == mc_call[c].pc \in {"register", "write", "wait", "answered", "failed"}
Attached ==
  /\ mc_slot # McNone => mc_slot <= mc_spawns
  /\ \A c \in McCallers : /\ mc_call[c].proc # McNone => mc_call[c].proc \in 1 .. mc_spawns
                          /\ InCall(c) => mc_call[c].proc # McNone
                          /\ mc_lock = c => InCall(c)

\* A request that is out has an id of its own, and a place to be answered at unless it has
\* been answered, with what was sent for that id.
Waits(c) == mc_call[c].pc \in {"write", "wait"}
Unanswered(c) == mc_call[c].answer.kind = "none"
Placed(c) ==
  /\ mc_call[c].proc \in mc_open
  /\ mc_call[c].id \in DOMAIN mc_waiting[mc_call[c].proc]
  /\ mc_waiting[mc_call[c].proc][mc_call[c].id] = c
Awaiting ==
  \A c \in McCallers :
    /\ Waits(c) => mc_call[c].id \in Nat /\ mc_call[c].id < mc_next[mc_call[c].proc]
    /\ Waits(c) /\ Unanswered(c) => Placed(c)
    /\ (Waits(c) \/ mc_call[c].pc = "answered") /\ ~Unanswered(c) => mc_call[c].answer.for = mc_call[c].id
OwnIds ==
  \A c, d \in McCallers : c # d /\ Waits(c) /\ Waits(d) /\ mc_call[c].proc = mc_call[d].proc
                            => mc_call[c].id # mc_call[d].id

\* A process in its handshake is nobody else's and not yet the client's, ...
Handshaking ==
  \A c \in McCallers : mc_lock = c => /\ mc_slot = McNone
                                      /\ \A d \in McCallers : d # c => mc_call[d].proc # mc_call[c].proc

\* ... and every process that runs is held by somebody.
Held == \A n \in mc_alive : n = mc_slot \/ n = mc_stopped \/ \E c \in McCallers : mc_lock = c /\ mc_call[c].proc = n

ListedIsExposed == mc_listed # McNone => \A name \in mc_listed : exposes(name)

McpInv == McpTypes /\ Attached /\ Awaiting /\ OwnIds /\ Handshaking /\ Held /\ ListedIsExposed

(* An answer is for the request whose id it quotes. *)
LEMMA ResponsesAreFor ==
  ASSUME NEW f \in McFrames, classify(f) = "response"
  PROVE  f.error \/ (f.result.for = f.id /\ f.result.kind = "ok")
<1>1. CASE \E id \in Nat, value \in McPages \cup McHellos \cup {McNone} : f = Frame(id, FALSE, Got("ok", id, value), FALSE)
  BY <1>1 DEF Frame, Got
<1>2. CASE \E id \in Nat : f = Frame(id, FALSE, McNone, TRUE)
  BY <1>2 DEF Frame
<1>3. CASE f = Frame(McOdd, FALSE, McNone, TRUE)
  BY <1>3 DEF Frame
<1>4. CASE f.method = TRUE
  <2>1. classify(f) # "response"
    BY <1>4 DEF classify
  <2> QED
    BY <2>1
<1>5. Frame(9, TRUE, McNone, FALSE).method = TRUE /\ Frame(McNone, TRUE, McNone, FALSE).method = TRUE
  BY DEF Frame
<1>6. \/ \E id \in Nat, value \in McPages \cup McHellos \cup {McNone} : f = Frame(id, FALSE, Got("ok", id, value), FALSE)
      \/ \E id \in Nat : f = Frame(id, FALSE, McNone, TRUE)
      \/ f \in {Frame(9, TRUE, McNone, FALSE), Frame(McNone, TRUE, McNone, FALSE), Frame(McOdd, FALSE, McNone, TRUE)}
  BY SMT DEF McFrames, Frame
<1> QED
  BY <1>1, <1>2, <1>3, <1>4, <1>5, <1>6, Zenon

\* What a step of caller c leaves alone: the other callers.
OthersStay(c) ==
  /\ DOMAIN mc_call' = McCallers /\ \A d \in McCallers : DOMAIN mc_call'[d] = CallFields
  /\ \A d \in McCallers : d # c => mc_call'[d] = mc_call[d]

LEMMA GotoIs ==
  ASSUME McpTypes, NEW c \in McCallers, NEW pc, Goto(c, pc)
  PROVE  /\ OthersStay(c) /\ mc_call'[c].pc = pc /\ mc_call'[c].proc = mc_call[c].proc
         /\ mc_call'[c].id = mc_call[c].id /\ mc_call'[c].answer = mc_call[c].answer
BY DEF McpTypes, Goto, OthersStay, CallFields

LEMMA EndIs ==
  ASSUME McpTypes, NEW c \in McCallers, NEW result, McEnd(c, result)
  PROVE  OthersStay(c) /\ mc_call'[c].pc = "done" /\ mc_call'[c].proc = McNone
BY DEF McpTypes, McEnd, OthersStay, CallFields, IdleCaller

(* A caller that leaves its call takes nothing from the others, and if it was in the
   handshake its process goes. *)
LEMMA LeavingKeeps ==
  ASSUME McpConstants, McpInv, NEW c \in McCallers, OthersStay(c), mc_call'[c].pc \in {"done", "connect"}, mc_call'[c].proc = McNone,
         UNCHANGED <<mc_open, mc_waiting, mc_next, mc_spawns, mc_slot, mc_stopped>>,
         mc_lock' = IF mc_lock = c THEN McNone ELSE mc_lock,
         mc_alive' = IF mc_lock = c THEN mc_alive \ {mc_call[c].proc} ELSE mc_alive
  PROVE  Attached' /\ Awaiting' /\ OwnIds' /\ Handshaking' /\ Held'
<1> USE DEF McpInv, OthersStay
<1>1. Attached'
  BY DEF Attached, InCall, McpConstants
<1>2. Awaiting'
  BY DEF Awaiting, Waits, Unanswered, Placed
<1>3. OwnIds'
  BY DEF OwnIds, Waits
<1>4. Handshaking'
  <2> SUFFICES ASSUME NEW d \in McCallers, mc_lock' = d
               PROVE  mc_slot' = McNone /\ \A e \in McCallers : e # d => mc_call'[e].proc # mc_call'[d].proc
    BY DEF Handshaking
  <2>1. d # c /\ mc_lock = d
    BY DEF McpConstants
  <2>2. mc_call[d].proc # McNone
    BY <2>1 DEF Attached
  <2> QED
    BY <2>1, <2>2 DEF Handshaking
<1>5. Held'
  <2> SUFFICES ASSUME NEW n \in mc_alive'
               PROVE  n = mc_slot' \/ n = mc_stopped' \/ \E d \in McCallers : mc_lock' = d /\ mc_call'[d].proc = n
    BY DEF Held
  <2>1. n \in mc_alive /\ (mc_lock = c => n # mc_call[c].proc)
    OBVIOUS
  <2>2. CASE n = mc_slot \/ n = mc_stopped
    BY <2>2
  <2>3. ASSUME NEW d \in McCallers, mc_lock = d, mc_call[d].proc = n
        PROVE  mc_lock' = d /\ mc_call'[d].proc = n
    BY <2>1, <2>3
  <2> QED
    BY <2>1, <2>2, <2>3 DEF Held
<1> QED
  BY <1>1, <1>2, <1>3, <1>4, <1>5

(* A caller that goes on in its call, its request no longer out, takes nothing from others. *)
LEMMA MovingKeeps ==
  ASSUME McpConstants, McpInv, NEW c \in McCallers, OthersStay(c), InCall(c),
         mc_call'[c].pc \in {"register", "answered", "failed"}, mc_call'[c].proc = mc_call[c].proc,
         mc_call'[c].pc = "answered" =>
           Waits(c) /\ mc_call'[c].id = mc_call[c].id /\ mc_call'[c].answer = mc_call[c].answer,
         UNCHANGED <<mc_open, mc_next, mc_spawns, mc_slot, mc_stopped, mc_lock, mc_alive>>,
         mc_waiting' = mc_waiting \/ (Waits(c) /\ mc_waiting' = Forgotten(mc_call[c].proc, mc_call[c].id))
  PROVE  DOMAIN mc_waiting' = Procs /\ Attached' /\ Awaiting' /\ OwnIds' /\ Handshaking' /\ Held'
<1> USE DEF McpInv, OthersStay
<1>1. Attached'
  BY DEF Attached, InCall, McpConstants
<1>2. ASSUME NEW d \in McCallers, d # c, Waits(d), Placed(d) PROVE Placed(d)'
  <2>1. mc_call'[d] = mc_call[d] /\ mc_call[d].proc \in Procs
    BY <1>2 DEF Attached, InCall, Waits, McpTypes, Procs, McpConstants
  <2>2. Waits(c) /\ mc_call[d].proc = mc_call[c].proc => mc_call[d].id # mc_call[c].id
    BY <1>2 DEF OwnIds
  <2>3. CASE mc_waiting' = mc_waiting
    BY <1>2, <2>1, <2>3 DEF Placed
  <2>4. CASE Waits(c) /\ mc_waiting' = Forgotten(mc_call[c].proc, mc_call[c].id)
    BY <1>2, <2>1, <2>2, <2>4 DEF Placed, Forgotten, McpTypes
  <2> QED
    BY <2>3, <2>4
<1>3. Awaiting'
  <2> SUFFICES ASSUME NEW d \in McCallers
               PROVE  /\ Waits(d)' => mc_call'[d].id \in Nat /\ mc_call'[d].id < mc_next'[mc_call'[d].proc]
                      /\ Waits(d)' /\ Unanswered(d)' => Placed(d)'
                      /\ (Waits(d)' \/ mc_call'[d].pc = "answered") /\ ~Unanswered(d)'
                            => mc_call'[d].answer.for = mc_call'[d].id
    BY DEF Awaiting
  <2>1. CASE d = c
    BY <2>1 DEF Awaiting, Waits, Unanswered
  <2>2. CASE d # c
    BY <1>2, <2>2 DEF Awaiting, Waits, Unanswered
  <2> QED
    BY <2>1, <2>2
<1>4. OwnIds'
  BY DEF OwnIds, Waits
<1>5. Handshaking' /\ Held'
  BY DEF Handshaking, Held
<1>6. DOMAIN mc_waiting' = Procs
  BY DEF McpTypes, Forgotten
<1> QED
  BY <1>1, <1>3, <1>4, <1>5, <1>6

(* A session that ends wakes everyone who waits for it. *)
LEMMA ClosingKeeps ==
  ASSUME McpConstants, McpInv, NEW n \in Procs, CloseSession(n, Woken(n)),
         UNCHANGED <<mc_next, mc_spawns, mc_slot, mc_lock, mc_asked>>,
         \/ UNCHANGED <<mc_stopped, mc_alive>>
         \/ mc_stopped = n /\ mc_stopped' = 0 /\ mc_alive' = mc_alive \ {n},
         mc_reader' = mc_reader \ {n},
         mc_listed' \in {mc_listed, McNone}
  PROVE  McpInv'
<1> USE DEF McpInv
<1>1. \A c \in McCallers : /\ DOMAIN mc_call'[c] = CallFields
                           /\ mc_call'[c].pc = mc_call[c].pc /\ mc_call'[c].proc = mc_call[c].proc
                           /\ mc_call'[c].id = mc_call[c].id
  BY DEF CloseSession, Woken, McpTypes, CallFields
<1>2. \A c \in McCallers : \/ mc_call'[c].answer = mc_call[c].answer
                           \/ mc_call'[c].answer = Got("closed", mc_call[c].id, McNone)
  BY DEF CloseSession, Woken, McpTypes, CallFields
<1>3. \A c \in McCallers : Waits(c) /\ Unanswered(c) /\ mc_call[c].proc = n
                             => mc_call'[c].answer = Got("closed", mc_call[c].id, McNone)
  <2> SUFFICES ASSUME NEW c \in McCallers, Waits(c), Unanswered(c), mc_call[c].proc = n
               PROVE  mc_call'[c].answer = Got("closed", mc_call[c].id, McNone)
    OBVIOUS
  <2>1. Placed(c)
    BY DEF Awaiting
  <2>2. mc_call' = Woken(n)
    BY DEF CloseSession
  <2>3. n \in mc_open /\ mc_call[c].id \in DOMAIN mc_waiting[n] /\ mc_waiting[n][mc_call[c].id] = c
    BY <2>1 DEF Placed
  <2>4. mc_call'[c] = [mc_call[c] EXCEPT !.answer = Got("closed", mc_call[c].id, McNone)]
    BY <2>2, <2>3 DEF Woken, Waits
  <2> QED
    BY <2>4 DEF McpTypes, CallFields
<1>4. \A c \in McCallers : Got("closed", mc_call[c].id, McNone).for = mc_call[c].id
                             /\ Got("closed", mc_call[c].id, McNone).kind = "closed"
  BY DEF Got
<1>5. McpTypes'
  <2>1. DOMAIN mc_call' = McCallers
    BY DEF CloseSession, Woken
  <2>2. mc_inbox' \in [Procs -> Seq(McFrames)] /\ DOMAIN mc_waiting' = Procs
    BY DEF CloseSession, McpTypes
  <2> QED
    BY <1>1, <2>1, <2>2 DEF McpTypes
<1>6. Attached'
  BY <1>1 DEF Attached, InCall
<1>7. Awaiting'
  <2> SUFFICES ASSUME NEW d \in McCallers
               PROVE  /\ Waits(d)' => mc_call'[d].id \in Nat /\ mc_call'[d].id < mc_next'[mc_call'[d].proc]
                      /\ Waits(d)' /\ Unanswered(d)' => Placed(d)'
                      /\ (Waits(d)' \/ mc_call'[d].pc = "answered") /\ ~Unanswered(d)'
                            => mc_call'[d].answer.for = mc_call'[d].id
    BY DEF Awaiting
  <2>1. Waits(d)' => mc_call'[d].id \in Nat /\ mc_call'[d].id < mc_next'[mc_call'[d].proc]
    BY <1>1 DEF Awaiting, Waits
  <2>2. ASSUME Waits(d)', Unanswered(d)' PROVE Placed(d)'
    <3>1. Waits(d) /\ mc_call'[d].answer = mc_call[d].answer /\ Unanswered(d)
      BY <1>1, <1>2, <1>4, <2>2 DEF Waits, Unanswered
    <3>2. mc_call[d].proc # n
      BY <1>3, <1>4, <2>2, <3>1 DEF Unanswered
    <3>3. Placed(d) /\ mc_call[d].proc \in Procs
      BY <3>1 DEF Awaiting, Attached, InCall, Waits, McpTypes, Procs, McpConstants
    <3>4. mc_waiting'[mc_call[d].proc] = mc_waiting[mc_call[d].proc] /\ mc_open' = mc_open \ {n}
      BY <3>2, <3>3 DEF CloseSession, McpTypes
    <3> QED
      BY <1>1, <3>2, <3>3, <3>4 DEF Placed
  <2>3. ASSUME Waits(d)' \/ mc_call'[d].pc = "answered", ~Unanswered(d)'
        PROVE  mc_call'[d].answer.for = mc_call'[d].id
    BY <1>1, <1>2, <1>4, <2>3 DEF Awaiting, Waits, Unanswered
  <2> QED
    BY <2>1, <2>2, <2>3
<1>8. OwnIds'
  BY <1>1 DEF OwnIds, Waits
<1>9. Handshaking'
  BY <1>1 DEF Handshaking
<1>10. Held'
  BY <1>1 DEF Held
<1>11. ListedIsExposed'
  BY DEF ListedIsExposed
<1> QED
  BY <1>5, <1>6, <1>7, <1>8, <1>9, <1>10, <1>11

(* The steps of one caller. *)
LEMMA LeavingStepsKeep ==
  ASSUME McpConstants, McpInv, NEW c \in McCallers,
         (\E task \in McTasks[c] : Ask(c, task)) \/ call_tool(c) \/ DropCall(c)
  PROVE  McpInv'
<1> USE DEF McpInv
<1>1. /\ OthersStay(c) /\ mc_call'[c].pc \in {"done", "connect"} /\ mc_call'[c].proc = McNone
      /\ UNCHANGED <<mc_open, mc_waiting, mc_next, mc_spawns, mc_slot, mc_stopped, mc_asked, mc_inbox, mc_listed>>
      /\ mc_reader' \subseteq mc_reader
      /\ mc_lock' = IF mc_lock = c THEN McNone ELSE mc_lock
      /\ mc_alive' = IF mc_lock = c THEN mc_alive \ {mc_call[c].proc} ELSE mc_alive
  <2>1. ASSUME NEW task \in McTasks[c], Ask(c, task) PROVE <1>1!:
    <3>1. OthersStay(c) /\ mc_call'[c].pc \in {"done", "connect"} /\ mc_call'[c].proc = McNone
      BY <2>1 DEF Ask, OthersStay, IdleCaller, McpTypes, CallFields
    <3>2. mc_lock # c
      BY <2>1 DEF Ask, Has, Attached, InCall
    <3> QED
      BY <2>1, <3>1, <3>2 DEF Ask
  <2>2. CASE call_tool(c)
    <3>1. OthersStay(c) /\ mc_call'[c].pc = "done" /\ mc_call'[c].proc = McNone
      BY <2>2, EndIs DEF call_tool
    <3> QED
      BY <2>2, <3>1 DEF call_tool
  <2>3. CASE DropCall(c)
    <3>1. OthersStay(c) /\ mc_call'[c].pc = "done" /\ mc_call'[c].proc = McNone
      BY <2>3, EndIs DEF DropCall
    <3>2. mc_lock = c => mc_call[c].proc # mc_slot
      BY DEF Handshaking, Attached
    <3> QED
      BY <2>3, <3>1, <3>2 DEF DropCall
  <2> QED
    BY <2>1, <2>2, <2>3
<1>2. Attached' /\ Awaiting' /\ OwnIds' /\ Handshaking' /\ Held'
  BY <1>1, LeavingKeeps
<1>3. McpTypes'
  BY <1>1 DEF McpTypes, OthersStay
<1> QED
  BY <1>1, <1>2, <1>3 DEF ListedIsExposed

LEMMA MovingStepsKeep ==
  ASSUME McpConstants, McpInv, NEW c \in McCallers, GiveUp(c) \/ Answered(c)
  PROVE  McpInv'
<1> USE DEF McpInv
<1>1. /\ OthersStay(c) /\ InCall(c) /\ Waits(c)
      /\ mc_call'[c].pc \in {"answered", "failed"} /\ mc_call'[c].proc = mc_call[c].proc
      /\ mc_call'[c].id = mc_call[c].id /\ mc_call'[c].answer = mc_call[c].answer
  BY GotoIs DEF GiveUp, Answered, Has, InCall, Waits
<1>2. /\ UNCHANGED <<mc_open, mc_next, mc_spawns, mc_slot, mc_stopped, mc_lock, mc_alive, mc_reader, mc_asked, mc_inbox, mc_listed>>
      /\ mc_waiting' = mc_waiting \/ mc_waiting' = Forgotten(mc_call[c].proc, mc_call[c].id)
  BY DEF GiveUp, Answered
<1>3. DOMAIN mc_waiting' = Procs /\ Attached' /\ Awaiting' /\ OwnIds' /\ Handshaking' /\ Held'
  BY <1>1, <1>2, MovingKeeps
<1>4. McpTypes'
  BY <1>1, <1>2, <1>3 DEF McpTypes, OthersStay
<1> QED
  BY <1>2, <1>3, <1>4 DEF ListedIsExposed

LEMMA WriteRequestKeeps ==
  ASSUME McpConstants, McpInv, NEW c \in McCallers, WriteRequest(c)
  PROVE  McpInv'
<1> USE DEF McpInv
<1>1. CASE mc_call[c].proc \notin mc_alive
  <2>1. /\ OthersStay(c) /\ InCall(c) /\ Waits(c)
        /\ mc_call'[c].pc = "failed" /\ mc_call'[c].proc = mc_call[c].proc
    BY <1>1, GotoIs DEF WriteRequest, Has, InCall, Waits
  <2>2. /\ UNCHANGED <<mc_open, mc_next, mc_spawns, mc_slot, mc_stopped, mc_lock, mc_alive, mc_reader, mc_asked, mc_inbox, mc_listed>>
        /\ mc_waiting' = Forgotten(mc_call[c].proc, mc_call[c].id)
    BY <1>1 DEF WriteRequest
  <2>3. DOMAIN mc_waiting' = Procs /\ Attached' /\ Awaiting' /\ OwnIds' /\ Handshaking' /\ Held'
    BY <2>1, <2>2, MovingKeeps
  <2>4. McpTypes'
    BY <2>1, <2>2, <2>3 DEF McpTypes, OthersStay
  <2> QED
    BY <2>2, <2>3, <2>4 DEF ListedIsExposed
<1>2. CASE mc_call[c].proc \in mc_alive
  <2>1. /\ OthersStay(c) /\ mc_call[c].pc = "write" /\ mc_call'[c].pc = "wait"
        /\ mc_call'[c].proc = mc_call[c].proc
        /\ mc_call'[c].id = mc_call[c].id /\ mc_call'[c].answer = mc_call[c].answer
    BY <1>2, GotoIs DEF WriteRequest, Has
  <2>2. /\ UNCHANGED <<mc_open, mc_next, mc_spawns, mc_slot, mc_stopped, mc_lock, mc_alive, mc_reader, mc_inbox, mc_waiting, mc_listed>>
        /\ \/ mc_asked' = mc_asked
           \/ mc_asked' = [mc_asked EXCEPT ![mc_call[c].proc] = @ \cup {mc_call[c].id}]
    <3>1. mc_call[c].proc \in mc_torn => mc_asked' = mc_asked
      BY <1>2 DEF WriteRequest, McpTypes
    <3> QED
      BY <1>2, <3>1 DEF WriteRequest
  <2>3. mc_call[c].id \in Nat
    BY <2>1 DEF Awaiting, Waits
  <2>4. McpTypes'
    <3>1. mc_asked' \in [Procs -> SUBSET Nat]
      <4>1. CASE mc_asked' = mc_asked
        BY <4>1 DEF McpTypes
      <4>2. CASE mc_asked' = [mc_asked EXCEPT ![mc_call[c].proc] = @ \cup {mc_call[c].id}]
        <5>1. mc_asked \in [Procs -> SUBSET Nat]
          BY DEF McpTypes
        <5>2. \A m \in Procs : mc_asked[m] \cup {mc_call[c].id} \in SUBSET Nat
          BY <2>3, <5>1
        <5> QED
          BY <4>2, <5>1, <5>2
      <4> QED
        BY <2>2, <4>1, <4>2
    <3> QED
      BY <2>1, <2>2, <3>1 DEF McpTypes, OthersStay
  <2>5. \A d \in McCallers : /\ mc_call'[d].proc = mc_call[d].proc /\ mc_call'[d].id = mc_call[d].id
                             /\ mc_call'[d].answer = mc_call[d].answer
                             /\ Waits(d)' <=> Waits(d)
                             /\ InCall(d)' <=> InCall(d)
                             /\ mc_call'[d].pc = "answered" <=> mc_call[d].pc = "answered"
    BY <2>1 DEF OthersStay, Waits, InCall
  <2>6. Attached' /\ Handshaking' /\ Held'
    BY <2>2, <2>5 DEF Attached, Handshaking, Held
  <2>7. Awaiting' /\ OwnIds'
    BY <2>2, <2>5 DEF Awaiting, OwnIds, Placed, Unanswered
  <2> QED
    BY <2>2, <2>4, <2>6, <2>7 DEF ListedIsExposed
<1> QED
  BY <1>1, <1>2

LEMMA RegisterKeeps ==
  ASSUME McpConstants, McpInv, NEW c \in McCallers, register(c)
  PROVE  McpInv'
<1> USE DEF McpInv
<1> DEFINE n == mc_call[c].proc  id == mc_next[n]
<1>0. mc_call[c].pc = "register" /\ n \in Procs /\ n # McNone /\ id \in Nat
  BY DEF register, Has, Attached, InCall, McpTypes, Procs, McpConstants
<1>1. /\ UNCHANGED <<mc_open, mc_spawns, mc_slot, mc_stopped, mc_lock, mc_alive, mc_reader, mc_inbox, mc_asked, mc_listed>>
      /\ mc_next' = [mc_next EXCEPT ![n] = @ + 1]
  BY DEF register
<1>2. mc_next' \in [Procs -> Nat] /\ mc_next'[n] = id + 1 /\ \A m \in Procs : mc_next[m] <= mc_next'[m]
  BY <1>0, <1>1 DEF McpTypes
<1>3. CASE ~register_open(c)
  <2>1. /\ OthersStay(c) /\ mc_call'[c].pc = "failed" /\ mc_call'[c].proc = n /\ mc_waiting' = mc_waiting
    BY <1>3 DEF register, McpTypes, OthersStay, CallFields
  <2>2. McpTypes'
    BY <1>1, <1>2, <2>1 DEF McpTypes, OthersStay
  <2>3. Attached' /\ Handshaking' /\ Held' /\ OwnIds'
    BY <1>0, <1>1, <2>1 DEF Attached, Handshaking, Held, OthersStay, InCall, OwnIds, Waits
  <2>4. Awaiting'
    <3> SUFFICES ASSUME NEW d \in McCallers
                 PROVE  /\ Waits(d)' => mc_call'[d].id \in Nat /\ mc_call'[d].id < mc_next'[mc_call'[d].proc]
                        /\ Waits(d)' /\ Unanswered(d)' => Placed(d)'
                        /\ (Waits(d)' \/ mc_call'[d].pc = "answered") /\ ~Unanswered(d)'
                              => mc_call'[d].answer.for = mc_call'[d].id
      BY DEF Awaiting
    <3>1. CASE d = c
      BY <2>1, <3>1 DEF Waits
    <3>2. CASE d # c
      <4>1. mc_call'[d] = mc_call[d] /\ (Waits(d) => mc_call[d].proc \in Procs)
        BY <2>1, <3>2 DEF OthersStay, Attached, InCall, Waits, McpTypes, Procs, McpConstants
      <4>2. Waits(d)' => mc_call'[d].id \in Nat /\ mc_call'[d].id < mc_next'[mc_call'[d].proc]
        BY <1>2, <4>1 DEF Awaiting, Waits, McpTypes
      <4> QED
        BY <1>1, <2>1, <4>1, <4>2 DEF Awaiting, Waits, Unanswered, Placed
    <3> QED
      BY <3>1, <3>2
  <2> QED
    BY <1>1, <2>2, <2>3, <2>4 DEF ListedIsExposed
<1>4. CASE register_open(c)
  <2>1. /\ OthersStay(c) /\ mc_call'[c].pc = "write" /\ mc_call'[c].proc = n /\ mc_call'[c].id = id
        /\ mc_call'[c].answer = NoAnswer /\ mc_waiting' = Awaited(n, id, c)
    <3>1. /\ mc_call' = [mc_call EXCEPT ![c].pc = "write", ![c].id = id, ![c].answer = NoAnswer]
          /\ mc_waiting' = Awaited(n, id, c)
      BY <1>4 DEF register
    <3> HIDE DEF id
    <3> QED
      BY <3>1 DEF McpTypes, OthersStay, CallFields
  <2>2. /\ DOMAIN mc_waiting' = Procs /\ id \in DOMAIN mc_waiting'[n] /\ mc_waiting'[n][id] = c
        /\ \A m \in Procs : \A x \in DOMAIN mc_waiting[m] :
             ~(m = n /\ x = id) => x \in DOMAIN mc_waiting'[m] /\ mc_waiting'[m][x] = mc_waiting[m][x]
    BY <1>0, <2>1 DEF Awaited, McpTypes
  <2>3. \A d \in McCallers : d # c /\ Waits(d) =>
           mc_call[d].proc \in Procs /\ mc_call[d].id \in Nat /\ mc_call[d].id < mc_next[mc_call[d].proc]
    BY DEF Attached, InCall, Waits, McpTypes, Procs, McpConstants, Awaiting
  <2>4. McpTypes'
    BY <1>1, <1>2, <2>1, <2>2 DEF McpTypes, OthersStay
  <2>5. Attached' /\ Handshaking' /\ Held'
    BY <1>0, <1>1, <2>1 DEF Attached, Handshaking, Held, OthersStay, InCall
  <2>6. OwnIds'
    BY <1>0, <2>1, <2>3 DEF OwnIds, Waits, OthersStay
  <2>7. Awaiting'
    <3> SUFFICES ASSUME NEW d \in McCallers
                 PROVE  /\ Waits(d)' => mc_call'[d].id \in Nat /\ mc_call'[d].id < mc_next'[mc_call'[d].proc]
                        /\ Waits(d)' /\ Unanswered(d)' => Placed(d)'
                        /\ (Waits(d)' \/ mc_call'[d].pc = "answered") /\ ~Unanswered(d)'
                              => mc_call'[d].answer.for = mc_call'[d].id
      BY DEF Awaiting
    <3>1. CASE d = c
      <4>1. mc_call'[c].answer.kind = "none" /\ n \in mc_open
        BY <1>4, <2>1 DEF NoAnswer, Got, register_open
      <4> QED
        BY <1>0, <1>1, <1>2, <2>1, <2>2, <3>1, <4>1 DEF Placed, Unanswered, Waits
    <3>2. CASE d # c
      <4>1. mc_call'[d] = mc_call[d]
        BY <2>1, <3>2 DEF OthersStay
      <4>2. Waits(d)' => mc_call'[d].id \in Nat /\ mc_call'[d].id < mc_next'[mc_call'[d].proc]
        BY <1>2, <2>3, <3>2, <4>1 DEF Waits, McpTypes
      <4>3. Waits(d)' /\ Unanswered(d)' => Placed(d)'
        <5> SUFFICES ASSUME Waits(d), Unanswered(d) PROVE Placed(d)'
          BY <4>1 DEF Waits, Unanswered
        <5>1. Placed(d)
          BY DEF Awaiting
        <5>2. ~(mc_call[d].proc = n /\ mc_call[d].id = id)
          BY <1>0, <2>3, <3>2
        <5> QED
          BY <1>1, <2>2, <2>3, <3>2, <4>1, <5>1, <5>2 DEF Placed
      <4> QED
        BY <4>1, <4>2, <4>3 DEF Awaiting, Waits, Unanswered
    <3> QED
      BY <3>1, <3>2
  <2> QED
    BY <1>1, <2>4, <2>5, <2>6, <2>7 DEF ListedIsExposed
<1> QED
  BY <1>3, <1>4

LEMMA ConnectKeeps ==
  ASSUME McpConstants, McpInv, NEW c \in McCallers, connect(c)
  PROVE  McpInv'
<1> USE DEF McpInv
<1>0. /\ mc_call[c].pc = "connect" /\ mc_lock = McNone /\ mc_lock # c
      /\ UNCHANGED <<mc_slot, mc_waiting, mc_next, mc_inbox, mc_asked, mc_listed, mc_stopped>>
  BY DEF connect, Has, McpConstants
<1>1. CASE /\ mc_slot # McNone /\ mc_call' = [mc_call EXCEPT ![c].pc = "register", ![c].proc = mc_slot]
           /\ UNCHANGED <<mc_lock, mc_alive, mc_open, mc_reader, mc_spawns>>
  <2>1. OthersStay(c) /\ mc_call'[c].pc = "register" /\ mc_call'[c].proc = mc_slot
    BY <1>1 DEF McpTypes, OthersStay, CallFields
  <2>2. mc_slot \in 1 .. mc_spawns
    BY <1>1 DEF Attached, McpTypes, Procs
  <2>3. McpTypes'
    BY <1>0, <1>1, <2>1 DEF McpTypes, OthersStay
  <2>4. Attached'
    BY <1>0, <1>1, <2>1, <2>2 DEF Attached, OthersStay, InCall
  <2>5. Handshaking' /\ Held'
    BY <1>0, <1>1, <2>1 DEF Handshaking, Held, OthersStay, McpConstants
  <2>6. Awaiting' /\ OwnIds'
    BY <1>0, <1>1, <2>1 DEF Awaiting, OwnIds, OthersStay, Waits, Unanswered, Placed
  <2> QED
    BY <1>0, <2>3, <2>4, <2>5, <2>6 DEF ListedIsExposed
<1>2. CASE /\ mc_slot = McNone /\ McEnd(c, McNone)
           /\ UNCHANGED <<mc_lock, mc_alive, mc_open, mc_reader, mc_spawns>>
  <2>1. OthersStay(c) /\ mc_call'[c].pc = "done" /\ mc_call'[c].proc = McNone
    BY <1>2, EndIs
  <2>2. Attached' /\ Awaiting' /\ OwnIds' /\ Handshaking' /\ Held'
    BY <1>0, <1>2, <2>1, LeavingKeeps
  <2>3. McpTypes'
    BY <1>0, <1>2, <2>1 DEF McpTypes, OthersStay
  <2> QED
    BY <1>0, <2>2, <2>3 DEF ListedIsExposed
<1>3. ASSUME mc_slot = McNone, mc_spawns < McMaxSpawns,
             mc_spawns' = mc_spawns + 1, mc_lock' = c,
             mc_alive' = mc_alive \cup {mc_spawns + 1}, mc_open' = mc_open \cup {mc_spawns + 1},
             mc_reader' = mc_reader \cup {mc_spawns + 1},
             mc_call' = [mc_call EXCEPT ![c].pc = "register", ![c].proc = mc_spawns + 1]
      PROVE  McpInv'
  <2>0. mc_spawns \in Nat /\ mc_spawns + 1 \in Procs /\ mc_spawns' \in 0 .. McMaxSpawns
    BY <1>3 DEF McpTypes, McpConstants, Procs
  <2>1. OthersStay(c) /\ mc_call'[c].pc = "register" /\ mc_call'[c].proc = mc_spawns + 1
    BY <1>3 DEF McpTypes, OthersStay, CallFields
  <2>2. McpTypes'
    BY <1>0, <1>3, <2>0, <2>1 DEF McpTypes, OthersStay
  <2>3. \A d \in McCallers : mc_call[d].proc # mc_spawns + 1
    BY <2>0 DEF Attached, McpConstants
  <2>4. Attached'
    BY <1>0, <1>3, <2>0, <2>1 DEF Attached, OthersStay, InCall, McpConstants
  <2>5. Handshaking'
    BY <1>0, <1>3, <2>1, <2>3 DEF Handshaking, OthersStay
  <2>6. Held'
    BY <1>0, <1>3, <2>1 DEF Held, McpConstants
  <2>7. Awaiting' /\ OwnIds'
    BY <1>0, <1>3, <2>1 DEF Awaiting, OwnIds, OthersStay, Waits, Unanswered, Placed
  <2> QED
    BY <1>0, <2>2, <2>4, <2>5, <2>6, <2>7 DEF ListedIsExposed
<1> QED
  BY <1>1, <1>2, <1>3 DEF connect, spawn

LEMMA HandshakeKeeps ==
  ASSUME McpConstants, McpInv, NEW c \in McCallers, handshake(c)
  PROVE  McpInv'
<1> USE DEF McpInv
<1> DEFINE n == mc_call[c].proc
<1>0. /\ mc_lock = c /\ mc_lock' = McNone /\ mc_slot = McNone /\ n \in 1 .. mc_spawns /\ n \in Procs /\ n # McNone
      /\ ~Waits(c) /\ \A d \in McCallers : d # c => mc_call[d].proc # n
      /\ UNCHANGED <<mc_next, mc_asked, mc_listed, mc_stopped, mc_spawns>>
  BY DEF handshake, Handshaking, Attached, InCall, Waits, McpTypes, Procs, McpConstants
<1>1. CASE /\ mc_slot' = n
           /\ mc_call' = [mc_call EXCEPT ![c].pc = "register", ![c].answer = NoAnswer]
           /\ UNCHANGED <<mc_alive, mc_open, mc_reader, mc_waiting, mc_inbox>>
  <2>1. OthersStay(c) /\ mc_call'[c].pc = "register" /\ mc_call'[c].proc = n
    BY <1>1 DEF McpTypes, OthersStay, CallFields
  <2>2. McpTypes'
    BY <1>0, <1>1, <2>1 DEF McpTypes, OthersStay
  <2>3. Attached'
    BY <1>0, <1>1, <2>1 DEF Attached, OthersStay, InCall, McpConstants
  <2>4. Handshaking' /\ Held'
    BY <1>0, <1>1, <2>1 DEF Handshaking, Held, OthersStay, McpConstants, McpTypes, Procs
  <2>5. Awaiting' /\ OwnIds'
    BY <1>0, <1>1, <2>1 DEF Awaiting, OwnIds, OthersStay, Waits, Unanswered, Placed
  <2> QED
    BY <1>0, <2>2, <2>3, <2>4, <2>5 DEF ListedIsExposed
<1>2. CASE /\ mc_slot' = mc_slot /\ mc_alive' = mc_alive \ {n} /\ mc_reader' = mc_reader \ {n}
           /\ CloseSession(n, [mc_call EXCEPT ![c] = [IdleCaller EXCEPT !.pc = "done"]])
  <2>1. OthersStay(c) /\ mc_call'[c].pc = "done" /\ mc_call'[c].proc = McNone
    BY <1>2 DEF McpTypes, OthersStay, CallFields, CloseSession, IdleCaller
  <2>2. /\ mc_open' = mc_open \ {n} /\ DOMAIN mc_waiting' = Procs
        /\ \A m \in Procs : m # n => mc_waiting'[m] = mc_waiting[m]
        /\ mc_inbox' \in [Procs -> Seq(McFrames)]
    BY <1>0, <1>2 DEF CloseSession, McpTypes
  <2>3. McpTypes'
    BY <1>0, <1>2, <2>1, <2>2 DEF McpTypes, OthersStay
  <2>4. Attached'
    BY <1>0, <1>2, <2>1 DEF Attached, OthersStay, InCall, McpConstants
  <2>5. Handshaking' /\ Held'
    BY <1>0, <1>2, <2>1 DEF Handshaking, Held, OthersStay, McpConstants
  <2>6. OwnIds'
    BY <2>1 DEF OwnIds, OthersStay, Waits
  <2>7. \A d \in McCallers : d # c /\ Waits(d) => mc_call[d].proc \in Procs /\ mc_call[d].proc # n
    BY <1>0 DEF Attached, InCall, Waits, McpTypes, Procs, McpConstants
  <2>8. Awaiting'
    BY <1>0, <2>1, <2>2, <2>7 DEF Awaiting, OthersStay, Waits, Unanswered, Placed
  <2> QED
    BY <1>0, <2>3, <2>4, <2>5, <2>6, <2>8 DEF ListedIsExposed
<1> QED
  BY <1>1, <1>2 DEF handshake

LEMMA ListToolsKeeps ==
  ASSUME McpConstants, McpInv, NEW c \in McCallers, list_tools(c)
  PROVE  McpInv'
<1> USE DEF McpInv
<1>0. /\ mc_lock # c /\ mc_call[c].pc = "answered"
      /\ UNCHANGED <<mc_slot, mc_lock, mc_alive, mc_open, mc_reader, mc_waiting, mc_next, mc_inbox, mc_asked, mc_stopped, mc_spawns>>
  BY DEF list_tools, Has
<1>1. PICK offered :
        \/ McEnd(c, McNone) /\ mc_listed' = mc_listed
        \/ /\ \E seen : mc_call' = [mc_call EXCEPT ![c].pc = "register", ![c].pages = @ + 1, ![c].seen = @ \cup seen,
                                                   ![c].offered = offered]
           /\ mc_listed' = mc_listed
        \/ /\ McEnd(c, Listing(offered))
           /\ mc_listed' = IF Listing(offered) = McNone THEN mc_listed ELSE Listing(offered)
  BY Zenon DEF list_tools
<1>2. ListedIsExposed'
  <2>1. Listing(offered) # McNone => \A name \in Listing(offered) : exposes(name)
    BY DEF Listing, Exposed
  <2>2. mc_listed' = mc_listed \/ (Listing(offered) # McNone /\ mc_listed' = Listing(offered))
    BY <1>1, Zenon
  <2> QED
    BY <2>1, <2>2 DEF ListedIsExposed
<1>3. \/ OthersStay(c) /\ mc_call'[c].pc = "done" /\ mc_call'[c].proc = McNone
      \/ OthersStay(c) /\ mc_call'[c].pc = "register" /\ mc_call'[c].proc = mc_call[c].proc
  <2>1. CASE McEnd(c, McNone) \/ McEnd(c, Listing(offered))
    BY <2>1, EndIs
  <2>2. ASSUME NEW seen, mc_call' = [mc_call EXCEPT ![c].pc = "register", ![c].pages = @ + 1, ![c].seen = @ \cup seen,
                                                   ![c].offered = offered]
        PROVE  OthersStay(c) /\ mc_call'[c].pc = "register" /\ mc_call'[c].proc = mc_call[c].proc
    BY <2>2 DEF McpTypes, OthersStay, CallFields
  <2> QED
    BY <1>1, <2>1, <2>2
<1>4. McpTypes'
  BY <1>0, <1>3 DEF McpTypes, OthersStay
<1>5. Attached' /\ Awaiting' /\ OwnIds' /\ Handshaking' /\ Held'
  <2>1. InCall(c)
    BY <1>0 DEF InCall
  <2> QED
    BY <1>0, <1>3, <2>1, LeavingKeeps, MovingKeeps
<1> QED
  BY <1>2, <1>4, <1>5

(* The steps of a server and of the loop that reads it. *)
LEMMA DeliveryKeeps ==
  ASSUME McpConstants, McpInv, NEW n \in Procs, NEW f \in McFrames,
         classify(f) = "response", f.id \in DOMAIN mc_waiting[n],
         mc_call' = Delivered(n, f), mc_waiting' = Forgotten(n, f.id), mc_inbox' = [mc_inbox EXCEPT ![n] = Tail(@)],
         mc_inbox[n] # <<>>,
         UNCHANGED <<mc_open, mc_reader, mc_slot, mc_lock, mc_alive, mc_next, mc_asked, mc_listed, mc_stopped, mc_spawns>>
  PROVE  McpInv'
<1> USE DEF McpInv
<1> DEFINE answer == IF f.error THEN Got("error", f.id, McNone) ELSE f.result
<1>0. answer.for = f.id /\ answer.kind # "none"
  BY ResponsesAreFor DEF Got
<1>1. \A c \in McCallers : /\ DOMAIN mc_call'[c] = CallFields
                           /\ mc_call'[c].pc = mc_call[c].pc /\ mc_call'[c].proc = mc_call[c].proc
                           /\ mc_call'[c].id = mc_call[c].id
  BY DEF Delivered, McpTypes, CallFields
<1>2. \A c \in McCallers : \/ mc_call'[c].answer = mc_call[c].answer
                           \/ mc_call'[c].answer = answer /\ mc_call[c].id = f.id
  BY DEF Delivered, McpTypes, CallFields
<1>3. \A c \in McCallers : Waits(c) /\ mc_call[c].proc = n /\ mc_call[c].id = f.id /\ mc_waiting[n][f.id] = c
                             => mc_call'[c].answer = answer
  BY DEF Delivered, McpTypes, CallFields, Waits
<1> HIDE DEF answer
<1>4. McpTypes'
  <2>1. DOMAIN mc_call' = McCallers
    BY DEF Delivered
  <2>2. mc_inbox' \in [Procs -> Seq(McFrames)] /\ DOMAIN mc_waiting' = Procs
    BY DEF McpTypes, Forgotten
  <2> QED
    BY <1>1, <2>1, <2>2 DEF McpTypes
<1>5. Attached' /\ OwnIds' /\ Handshaking' /\ Held'
  BY <1>1 DEF Attached, InCall, OwnIds, Waits, Handshaking, Held
<1>6. Awaiting'
  <2> SUFFICES ASSUME NEW d \in McCallers
               PROVE  /\ Waits(d)' => mc_call'[d].id \in Nat /\ mc_call'[d].id < mc_next'[mc_call'[d].proc]
                      /\ Waits(d)' /\ Unanswered(d)' => Placed(d)'
                      /\ (Waits(d)' \/ mc_call'[d].pc = "answered") /\ ~Unanswered(d)'
                            => mc_call'[d].answer.for = mc_call'[d].id
    BY DEF Awaiting
  <2>1. Waits(d)' => mc_call'[d].id \in Nat /\ mc_call'[d].id < mc_next'[mc_call'[d].proc]
    BY <1>1 DEF Awaiting, Waits
  <2>2. ASSUME Waits(d)', Unanswered(d)' PROVE Placed(d)'
    <3>1. Waits(d) /\ mc_call'[d].answer = mc_call[d].answer /\ Unanswered(d)
      BY <1>0, <1>1, <1>2, <2>2 DEF Waits, Unanswered
    <3>2. Placed(d) /\ mc_call[d].proc \in Procs
      BY <3>1 DEF Awaiting, Attached, InCall, Waits, McpTypes, Procs, McpConstants
    <3>3. ~(mc_call[d].proc = n /\ mc_call[d].id = f.id)
      BY <1>0, <1>3, <2>2, <3>1, <3>2 DEF Placed, Unanswered
    <3> QED
      BY <1>1, <3>2, <3>3 DEF Placed, Forgotten, McpTypes
  <2>3. ASSUME Waits(d)' \/ mc_call'[d].pc = "answered", ~Unanswered(d)'
        PROVE  mc_call'[d].answer.for = mc_call'[d].id
    BY <1>0, <1>1, <1>2, <2>3 DEF Awaiting, Waits, Unanswered
  <2> QED
    BY <2>1, <2>2, <2>3
<1> QED
  BY <1>4, <1>5, <1>6 DEF ListedIsExposed

LEMMA CallersKeep ==
  ASSUME McpInv, McpTypes',
         UNCHANGED <<mc_call, mc_waiting, mc_open, mc_next, mc_spawns, mc_slot, mc_lock, mc_stopped, mc_listed>>,
         mc_alive' \subseteq mc_alive
  PROVE  McpInv'
BY DEF McpInv, Attached, InCall, Awaiting, Waits, Unanswered, Placed, OwnIds, Handshaking, Held, ListedIsExposed

LEMMA ServerStepsKeep ==
  ASSUME McpConstants, McpInv, NEW n \in Procs,
         ServerSends(n) \/ ServerExits(n) \/ read_loop(n) \/ ReadEnds(n) \/ FrameTooLarge(n)
  PROVE  McpInv'
<1>0. McpTypes
  BY DEF McpInv
<1>1. CASE ServerSends(n)
  <2>1. PICK f \in McFrames : mc_inbox' = [mc_inbox EXCEPT ![n] = Append(@, f)]
    <3>1. PICK f \in MayWrite(n) : mc_inbox' = [mc_inbox EXCEPT ![n] = Append(@, f)]
      BY <1>1 DEF ServerSends
    <3>2. mc_asked[n] \subseteq Nat /\ 9 \in Nat
      BY <1>0 DEF McpTypes
    <3>3. f \in McFrames
      BY <3>1, <3>2 DEF MayWrite, McFrames, Frame
    <3> QED
      BY <3>1, <3>3
  <2>2. UNCHANGED <<mc_slot, mc_lock, mc_alive, mc_open, mc_reader, mc_waiting, mc_next, mc_asked, mc_call, mc_listed,
                    mc_stopped, mc_spawns>>
    BY <1>1 DEF ServerSends
  <2>3. McpTypes'
    BY <1>0, <2>1, <2>2 DEF McpTypes
  <2> QED
    BY <2>2, <2>3, CallersKeep
<1>2. CASE ServerExits(n)
  <2>1. McpTypes'
    BY <1>0, <1>2 DEF ServerExits, McpTypes
  <2> QED
    BY <1>2, <2>1, CallersKeep DEF ServerExits
<1>3. CASE read_loop(n)
  <2> DEFINE f == Head(mc_inbox[n])
  <2>1. /\ UNCHANGED <<mc_slot, mc_lock, mc_alive, mc_next, mc_asked, mc_listed, mc_stopped, mc_spawns>>
        /\ mc_inbox[n] # <<>> /\ f \in McFrames
    BY <1>0, <1>3 DEF read_loop, McpTypes
  <2>2. CASE /\ classify(f) = "response" /\ f.id \in DOMAIN mc_waiting[n] /\ mc_call' = Delivered(n, f)
             /\ mc_waiting' = Forgotten(n, f.id) /\ mc_inbox' = [mc_inbox EXCEPT ![n] = Tail(@)]
             /\ UNCHANGED <<mc_open, mc_reader>>
    <3> HIDE DEF f
    <3> QED
      BY <2>1, <2>2, DeliveryKeeps
  <2>3. CASE CloseSession(n, Woken(n)) /\ mc_reader' = mc_reader \ {n}
    BY <2>1, <2>3, ClosingKeeps
  <2>4. CASE mc_inbox' = [mc_inbox EXCEPT ![n] = Tail(@)] /\ UNCHANGED <<mc_call, mc_waiting, mc_open, mc_reader>>
    <3>1. McpTypes'
      BY <1>0, <2>1, <2>4 DEF McpTypes
    <3> QED
      BY <2>1, <2>4, <3>1, CallersKeep
  <2> QED
    BY <1>3, <2>2, <2>3, <2>4 DEF read_loop
<1>4. CASE ReadEnds(n) \/ FrameTooLarge(n)
  BY <1>4, ClosingKeeps DEF ReadEnds, FrameTooLarge
<1> QED
  BY <1>1, <1>2, <1>3, <1>4

LEMMA ShutdownStepsKeep ==
  ASSUME McpConstants, McpInv, ShutdownTake \/ ShutdownKill
  PROVE  McpInv'
<1>1. CASE ShutdownKill
  BY <1>1, ClosingKeeps DEF ShutdownKill
<1>2. CASE ShutdownTake
  <2>1. /\ UNCHANGED <<mc_lock, mc_alive, mc_open, mc_reader, mc_waiting, mc_next, mc_inbox, mc_asked, mc_call, mc_spawns>>
        /\ mc_stopped = McNone /\ mc_lock = McNone /\ mc_slot' = McNone /\ mc_listed' \in {mc_listed, McNone}
        /\ mc_slot # McNone => mc_stopped' = mc_slot
    BY <1>2 DEF ShutdownTake
  <2>2. McpTypes' /\ Attached' /\ ListedIsExposed'
    BY <2>1 DEF McpInv, McpTypes, Attached, InCall, ListedIsExposed
  <2>3. Awaiting' /\ OwnIds'
    BY <2>1 DEF McpInv, Awaiting, Waits, Unanswered, Placed, OwnIds
  <2>4. Handshaking' /\ Held'
    BY <2>1 DEF McpInv, McpTypes, Procs, McpConstants, Handshaking, Held
  <2> QED
    BY <2>2, <2>3, <2>4 DEF McpInv
<1> QED
  BY <1>1, <1>2

(* A caller is handed only the answer to its own request, none is left waiting on a session
   that has ended, and every server process that runs is held by something that will end it
   (mcp session.rs, client.rs, component.rs). *)
THEOREM McpHolds ==
  ASSUME McpConstants
  PROVE  McpSpec => []CallersAreServed
<1>1. McpInit => McpInv
  <2> SUFFICES ASSUME McpInit PROVE McpInv
    OBVIOUS
  <2>1. \A c \in McCallers : /\ DOMAIN mc_call[c] = CallFields /\ mc_call[c].pc = "idle" /\ mc_call[c].proc = McNone
    BY DEF McpInit, IdleCaller, CallFields
  <2>2. McpTypes
    BY <2>1 DEF McpInit, McpTypes, McpConstants
  <2>3. Attached /\ Awaiting /\ OwnIds /\ Handshaking /\ Held /\ ListedIsExposed
    BY <2>1 DEF McpInit, Attached, InCall, Awaiting, Waits, OwnIds, Handshaking, Held, ListedIsExposed, McpConstants
  <2> QED
    BY <2>2, <2>3 DEF McpInv
<1>2. McpInv /\ [McpNext]_mcVars => McpInv'
  <2>1. CASE UNCHANGED mcVars
    BY <2>1 DEF mcVars, McpInv, McpTypes, Attached, InCall, Awaiting, Waits, Unanswered, Placed, OwnIds, Handshaking, Held,
                ListedIsExposed
  <2>2. ASSUME McpInv, McpNext PROVE McpInv'
    BY <2>2, LeavingStepsKeep, MovingStepsKeep, WriteRequestKeeps, RegisterKeeps, ConnectKeeps, HandshakeKeeps, ListToolsKeeps,
       ServerStepsKeep, ShutdownStepsKeep DEF McpNext
  <2> QED
    BY <2>1, <2>2
<1>3. McpInv => CallersAreServed
  BY DEF McpInv, Awaiting, Waits, Unanswered, Placed, Held, ListedIsExposed, CallersAreServed, Has
<1> QED
  BY <1>1, <1>2, <1>3, PTL DEF McpSpec

-----------------------------------------------------------------------------
(* A host's connections: HostConnection *)

TaskStates == {"none", "prompt", "schedule", "prune", "plain", "done", "failed", "over", "aborted"}
OutFrames == [type : {"update", "done", "failed", "approval", "closing"}, id : IpIds \cup {0}]

\* All that a client was or will be sent, and whether a call's answer is in it.
Sighted(c) == ipWire[c] \o ipOut[c]
FinalIn(frames, id) == \E k \in DOMAIN frames : frames[k].id = id /\ IsFinal(frames[k])
LastIsLast(frames) ==
  \A j, k \in DOMAIN frames :
    j < k /\ frames[j].id = frames[k].id /\ frames[j].id # 0 => ~IsFinal(frames[j])

ConnectionShape ==
  /\ DOMAIN ipSt = IpClients /\ DOMAIN ipHeld = IpClients /\ DOMAIN ipIn = IpClients /\ DOMAIN ipBlocked = IpClients
  /\ DOMAIN ipTable = IpClients /\ DOMAIN ipTask = IpClients /\ DOMAIN ipUpdates = IpClients /\ DOMAIN ipOut = IpClients
  /\ DOMAIN ipWire = IpClients /\ DOMAIN ipNext = IpClients

ConnectionTypes(c) ==
  /\ ipTask[c] \in [IpIds -> TaskStates] /\ ipUpdates[c] \in [IpIds -> Nat]
  /\ ipNext[c] \in Nat \ {0} /\ ipTable[c] \in SUBSET IpIds
  /\ ipIn[c] \in Seq([id : IpIds, request : Requests])
  /\ ipOut[c] \in Seq(OutFrames) /\ ipWire[c] \in Seq(OutFrames)

\* Nothing has been done for a call.
Untouched(c, id) ==
  /\ ipTask[c][id] = "none" /\ ipUpdates[c][id] = 0 /\ ~FinalIn(Sighted(c), id)
  /\ ipBlocked[c] # IpNone => ipBlocked[c].id # id

\* Calls are read in the order of their ids, once.
Pending(c) ==
  /\ \A j \in DOMAIN ipIn[c] : ipIn[c][j].id < ipNext[c] /\ Untouched(c, ipIn[c][j].id)
  /\ \A j, k \in DOMAIN ipIn[c] : j < k => ipIn[c][j].id < ipIn[c][k].id
  /\ \A id \in IpIds : id >= ipNext[c] => Untouched(c, id)

\* The reader's own answer is the first word about its call, ...
Inline(c) ==
  ipBlocked[c] # IpNone =>
    /\ ipBlocked[c] \in OutFrames /\ ipBlocked[c].id \in IpIds
    /\ ipTask[c][ipBlocked[c].id] = "none" /\ ipUpdates[c][ipBlocked[c].id] = 0
    /\ ~FinalIn(Sighted(c), ipBlocked[c].id)

\* ... and after any answer nothing is left that could send for the call.
Concluded(c) ==
  \A id \in IpIds : FinalIn(Sighted(c), id) => ipTask[c][id] \in {"none", "over"} /\ ipUpdates[c][id] = 0

Working(c) == {id \in IpIds : ipTask[c][id] \in {"prompt", "schedule", "prune", "plain"}}
Bounded(c) ==
  /\ Working(c) \subseteq ipTable[c] /\ IsFiniteSet(ipTable[c]) /\ Cardinality(ipTable[c]) <= IpMaxCalls
  /\ ipSt[c] \notin {"open", "closing"} => ipHeld[c] = {} /\ Live(c) = {}

ConnectionInv(c) ==
  ConnectionTypes(c) /\ Pending(c) /\ Inline(c) /\ Concluded(c) /\ LastIsLast(Sighted(c)) /\ Bounded(c)
HostInv == ConnectionShape /\ \A c \in IpClients : ConnectionInv(c)

\* A step that is none of d's.
Stays(d) ==
  /\ ipSt'[d] = ipSt[d] /\ ipHeld'[d] = ipHeld[d] /\ ipIn'[d] = ipIn[d] /\ ipBlocked'[d] = ipBlocked[d]
  /\ ipTable'[d] = ipTable[d] /\ ipTask'[d] = ipTask[d] /\ ipUpdates'[d] = ipUpdates[d] /\ ipOut'[d] = ipOut[d]
  /\ ipWire'[d] = ipWire[d] /\ ipNext'[d] = ipNext[d]

\* A step of c alone.
StepOf(c) == ConnectionShape' /\ \A d \in IpClients : d # c => Stays(d)

LEMMA StaysKeeps ==
  ASSUME NEW d \in IpClients, ConnectionInv(d), Stays(d)
  PROVE  ConnectionInv(d)'
<1>1. Sighted(d)' = Sighted(d)
  BY DEF Stays, Sighted
<1>2. ConnectionTypes(d)' /\ Pending(d)'
  BY <1>1 DEF ConnectionInv, Stays, ConnectionTypes, Pending, Untouched
<1>3. Inline(d)' /\ Concluded(d)' /\ LastIsLast(Sighted(d))'
  <2>1. LastIsLast(Sighted(d)')
    BY <1>1 DEF ConnectionInv
  <2> QED
    BY <1>1, <2>1 DEF ConnectionInv, Stays, Inline, Concluded, LastIsLast
<1>4. Bounded(d)'
  BY DEF ConnectionInv, Stays, Bounded, Working, Live
<1> QED
  BY <1>2, <1>3, <1>4 DEF ConnectionInv

LEMMA OneAtATime ==
  ASSUME HostInv, NEW c \in IpClients, StepOf(c), ConnectionInv(c)'
  PROVE  HostInv'
<1>1. \A d \in IpClients : ConnectionInv(d)'
  BY StaysKeeps DEF HostInv, StepOf
<1> QED
  BY <1>1 DEF HostInv, StepOf

(* The frames a client sees, one more, one moved on, or the unsent ones lost. *)
LEMMA OneMoreFrame ==
  ASSUME NEW s \in Seq(OutFrames), NEW f \in OutFrames, LastIsLast(s), f.id = 0 \/ ~FinalIn(s, f.id)
  PROVE  /\ LastIsLast(Append(s, f))
         /\ \A id : FinalIn(Append(s, f), id) <=> FinalIn(s, id) \/ (f.id = id /\ IsFinal(f))
<1>1. /\ DOMAIN s = 1 .. Len(s) /\ Len(s) \in Nat /\ DOMAIN Append(s, f) = 1 .. Len(s) + 1
      /\ \A k \in 1 .. Len(s) : Append(s, f)[k] = s[k]
      /\ Append(s, f)[Len(s) + 1] = f
  OBVIOUS
<1>2. LastIsLast(Append(s, f))
  <2> SUFFICES ASSUME NEW j \in 1 .. Len(s) + 1, NEW k \in 1 .. Len(s) + 1, j < k,
                      Append(s, f)[j].id = Append(s, f)[k].id, Append(s, f)[j].id # 0
               PROVE  ~IsFinal(Append(s, f)[j])
    BY <1>1 DEF LastIsLast
  <2>1. j \in 1 .. Len(s) /\ Append(s, f)[j] = s[j]
    BY <1>1
  <2>2. CASE k \in 1 .. Len(s)
    BY <1>1, <2>1, <2>2 DEF LastIsLast
  <2>3. CASE k = Len(s) + 1
    BY <1>1, <2>1, <2>3 DEF FinalIn
  <2> QED
    BY <1>1, <2>2, <2>3
<1>3. ASSUME NEW id PROVE FinalIn(Append(s, f), id) <=> FinalIn(s, id) \/ (f.id = id /\ IsFinal(f))
  BY <1>1 DEF FinalIn
<1> QED
  BY <1>2, <1>3

LEMMA SentIsSeen ==
  ASSUME NEW w \in Seq(OutFrames), NEW o \in Seq(OutFrames), NEW f \in OutFrames
  PROVE  w \o Append(o, f) = Append(w \o o, f) /\ w \o o \in Seq(OutFrames)
OBVIOUS

LEMMA WrittenIsSeen ==
  ASSUME NEW w \in Seq(OutFrames), NEW o \in Seq(OutFrames), o # <<>>
  PROVE  Append(w, Head(o)) \o Tail(o) = w \o o /\ Tail(o) \in Seq(OutFrames) /\ Append(w, Head(o)) \in Seq(OutFrames)
OBVIOUS

LEMMA LostIsUnseen ==
  ASSUME NEW w \in Seq(OutFrames), NEW o \in Seq(OutFrames), LastIsLast(w \o o)
  PROVE  LastIsLast(w \o <<>>) /\ \A id : FinalIn(w \o <<>>, id) => FinalIn(w \o o, id)
<1>1. w \o <<>> = w
  OBVIOUS
<1>2. DOMAIN w \subseteq DOMAIN (w \o o) /\ \A k \in DOMAIN w : (w \o o)[k] = w[k]
  OBVIOUS
<1> QED
  BY <1>1, <1>2 DEF LastIsLast, FinalIn

\* The talk of c does not move.
Quiet(c) ==
  /\ ipIn'[c] = ipIn[c] /\ ipBlocked'[c] = ipBlocked[c] /\ ipTable'[c] = ipTable[c] /\ ipTask'[c] = ipTask[c]
  /\ ipUpdates'[c] = ipUpdates[c] /\ ipOut'[c] = ipOut[c] /\ ipWire'[c] = ipWire[c] /\ ipNext'[c] = ipNext[c]

LEMMA QuietKeeps ==
  ASSUME NEW c \in IpClients, ConnectionInv(c), Quiet(c), Bounded(c)'
  PROVE  ConnectionInv(c)'
<1>1. Sighted(c)' = Sighted(c)
  BY DEF Quiet, Sighted
<1>2. ConnectionTypes(c)' /\ Pending(c)'
  BY <1>1 DEF ConnectionInv, Quiet, ConnectionTypes, Pending, Untouched
<1>3. LastIsLast(Sighted(c)')
  BY <1>1 DEF ConnectionInv
<1>4. Inline(c)' /\ Concluded(c)'
  BY <1>1 DEF ConnectionInv, Quiet, Inline, Concluded
<1> QED
  BY <1>2, <1>3, <1>4 DEF ConnectionInv

LEMMA CallsHaveIds ==
  ASSUME NEW calls \in Seq([id : IpIds, request : Requests]), NEW j \in DOMAIN calls
  PROVE  calls[j].id \in IpIds /\ calls[j].request \in Requests
<1> DEFINE Calls == [id : IpIds, request : Requests]
<1>1. calls \in Seq(Calls)
  OBVIOUS
<1>2. calls[j] \in Calls
  <2> HIDE DEF Calls
  <2> QED
    BY <1>1
<1> QED
  BY <1>2

\* Frames that are no answers were added to what c sees, or unsent ones were lost.
NoNewAnswer(c) ==
  /\ ipOut'[c] \in Seq(OutFrames) /\ ipWire'[c] \in Seq(OutFrames)
  /\ LastIsLast(Sighted(c)')
  /\ \A id \in IpIds : FinalIn(Sighted(c)', id) => FinalIn(Sighted(c), id)

LEMMA NoNewAnswerKeeps ==
  ASSUME NEW c \in IpClients, ConnectionInv(c), NoNewAnswer(c), Bounded(c)',
         ipIn'[c] = ipIn[c], ipBlocked'[c] = ipBlocked[c], ipTable'[c] = ipTable[c], ipTask'[c] = ipTask[c],
         ipNext'[c] = ipNext[c], ipUpdates'[c] \in [IpIds -> Nat],
         \A id \in IpIds : ipUpdates'[c][id] <= ipUpdates[c][id]
  PROVE  ConnectionInv(c)'
<1>0. \A id \in IpIds : ipUpdates[c][id] = 0 => ipUpdates'[c][id] = 0
  BY DEF ConnectionInv, ConnectionTypes
<1>1. \A id \in IpIds : Untouched(c, id) => Untouched(c, id)'
  BY <1>0 DEF Untouched, NoNewAnswer
<1>2. ConnectionTypes(c)'
  BY DEF ConnectionInv, ConnectionTypes, NoNewAnswer
<1>3. Pending(c)'
  <2>1. \A j \in DOMAIN ipIn[c] : ipIn[c][j].id \in IpIds
    BY CallsHaveIds DEF ConnectionInv, ConnectionTypes
  <2> QED
    BY <1>1, <2>1 DEF ConnectionInv, Pending
<1>4. Inline(c)' /\ Concluded(c)'
  BY <1>0 DEF ConnectionInv, Inline, Concluded, NoNewAnswer
<1> QED
  BY <1>2, <1>3, <1>4 DEF ConnectionInv, NoNewAnswer

(* What sending a frame does to what the client sees. *)
LEMMA SendingIs ==
  ASSUME ConnectionShape, NEW c \in IpClients, ConnectionTypes(c), NEW f \in OutFrames, ipOut' = Sent(c, f), ipWire' = ipWire
  PROVE  /\ ipOut'[c] \in Seq(OutFrames) /\ ipWire'[c] \in Seq(OutFrames)
         /\ DOMAIN ipOut' = IpClients /\ DOMAIN ipWire' = IpClients
         /\ \A d \in IpClients : d # c => ipOut'[d] = ipOut[d] /\ ipWire'[d] = ipWire[d]
         /\ Sighted(c)' = Sighted(c) \/ Sighted(c)' = Append(Sighted(c), f)
         /\ Sighted(c) \in Seq(OutFrames)
<1>1. /\ ipOut'[c] = ipOut[c] \/ ipOut'[c] = Append(ipOut[c], f)
      /\ DOMAIN ipOut' = IpClients /\ \A d \in IpClients : d # c => ipOut'[d] = ipOut[d]
  BY DEF Sent, ConnectionShape
<1>2. ipOut[c] \in Seq(OutFrames) /\ ipWire[c] \in Seq(OutFrames)
  BY DEF ConnectionTypes
<1>3. ipWire[c] \o Append(ipOut[c], f) = Append(ipWire[c] \o ipOut[c], f) /\ ipWire[c] \o ipOut[c] \in Seq(OutFrames)
  BY <1>2, SentIsSeen
<1>4. ipOut'[c] \in Seq(OutFrames)
  BY <1>1, <1>2
<1>5. Sighted(c)' = Sighted(c) \/ Sighted(c)' = Append(Sighted(c), f)
  BY <1>1, <1>3 DEF Sighted
<1> QED
  BY <1>1, <1>2, <1>3, <1>4, <1>5 DEF ConnectionShape, Sighted

LEMMA SendingNoAnswer ==
  ASSUME ConnectionShape, NEW c \in IpClients, ConnectionInv(c), NEW f \in OutFrames, ~IsFinal(f), ipOut' = Sent(c, f),
         ipWire' = ipWire, f.id = 0 \/ ~FinalIn(Sighted(c), f.id)
  PROVE  NoNewAnswer(c)
<1>1. /\ ipOut'[c] \in Seq(OutFrames) /\ ipWire'[c] \in Seq(OutFrames)
      /\ Sighted(c)' = Sighted(c) \/ Sighted(c)' = Append(Sighted(c), f)
      /\ Sighted(c) \in Seq(OutFrames)
  BY SendingIs DEF ConnectionInv
<1>2. LastIsLast(Sighted(c))
  BY DEF ConnectionInv
<1>3. /\ LastIsLast(Append(Sighted(c), f))
      /\ \A id : FinalIn(Append(Sighted(c), f), id) <=> FinalIn(Sighted(c), id)
  BY <1>1, <1>2, OneMoreFrame
<1> QED
  BY <1>1, <1>2, <1>3 DEF NoNewAnswer


(* Coming, going and the end of the writer. *)
LEMMA LifecycleKeeps ==
  ASSUME HostInv, NEW c \in IpClients, accept_peer(c) \/ refuse(c) \/ serve_handshake(c) \/ flush_writer(c)
  PROVE  HostInv'
<1>1. /\ DOMAIN ipSt' = IpClients /\ \A d \in IpClients : d # c => ipSt'[d] = ipSt[d]
      /\ DOMAIN ipHeld' = IpClients /\ \A d \in IpClients : d # c => ipHeld'[d] = ipHeld[d]
      /\ UNCHANGED <<ipIn, ipBlocked, ipTable, ipTask, ipUpdates, ipOut, ipWire, ipNext>>
  BY DEF accept_peer, refuse, serve_handshake, flush_writer, HostInv, ConnectionShape, ipCall, ipPipe, ipMine
<1>2. StepOf(c) /\ Quiet(c)
  BY <1>1 DEF StepOf, Stays, Quiet, HostInv, ConnectionShape
<1>3. ipSt'[c] \notin {"open", "closing"} => ipSt[c] \notin {"open", "closing"} /\ ipHeld'[c] = ipHeld[c]
  BY DEF accept_peer, refuse, serve_handshake, flush_writer, HostInv, ConnectionShape
<1>4. Bounded(c)'
  BY <1>1, <1>3 DEF HostInv, ConnectionInv, Bounded, Working, Live
<1> QED
  BY <1>2, <1>4, QuietKeeps, OneAtATime DEF HostInv

LEMMA WriteFrameKeeps ==
  ASSUME HostInv, NEW c \in IpClients, write_frame(c)
  PROVE  HostInv'
<1>0. ConnectionShape /\ ConnectionInv(c) /\ ipOut[c] \in Seq(OutFrames) /\ ipWire[c] \in Seq(OutFrames) /\ LastIsLast(Sighted(c))
  BY DEF HostInv, ConnectionInv, ConnectionTypes
<1>1. UNCHANGED <<ipSt, ipHeld, ipIn, ipBlocked, ipTable, ipTask, ipUpdates, ipNext>> /\ ipOut[c] # <<>>
  BY DEF write_frame, ipCall, ipMine
<1>2. /\ DOMAIN ipOut' = IpClients /\ DOMAIN ipWire' = IpClients
      /\ \A d \in IpClients : d # c => ipOut'[d] = ipOut[d] /\ ipWire'[d] = ipWire[d]
      /\ \/ ipWire'[c] = Append(ipWire[c], Head(ipOut[c])) /\ ipOut'[c] = Tail(ipOut[c])
         \/ ipWire'[c] = ipWire[c] /\ ipOut'[c] = <<>>
  BY <1>0 DEF write_frame, ConnectionShape
<1>3. NoNewAnswer(c)
  <2>1. CASE ipWire'[c] = Append(ipWire[c], Head(ipOut[c])) /\ ipOut'[c] = Tail(ipOut[c])
    <3>1. Sighted(c)' = Sighted(c) /\ ipOut'[c] \in Seq(OutFrames) /\ ipWire'[c] \in Seq(OutFrames)
      BY <1>0, <1>1, <2>1, WrittenIsSeen DEF Sighted
    <3> QED
      BY <1>0, <3>1 DEF NoNewAnswer
  <2>2. CASE ipWire'[c] = ipWire[c] /\ ipOut'[c] = <<>>
    <3>1. LastIsLast(ipWire[c] \o <<>>) /\ \A id : FinalIn(ipWire[c] \o <<>>, id) => FinalIn(Sighted(c), id)
      BY <1>0, LostIsUnseen DEF Sighted
    <3>2. Sighted(c)' = ipWire[c] \o <<>> /\ ipOut'[c] \in Seq(OutFrames) /\ ipWire'[c] \in Seq(OutFrames)
      BY <1>0, <2>2 DEF Sighted
    <3> QED
      BY <3>1, <3>2 DEF NoNewAnswer
  <2> QED
    BY <1>2, <2>1, <2>2
<1>4. Bounded(c)'
  BY <1>0, <1>1 DEF ConnectionInv, Bounded, Working, Live
<1>5. ipUpdates'[c] \in [IpIds -> Nat] /\ \A id \in IpIds : ipUpdates'[c][id] <= ipUpdates[c][id]
  BY <1>0, <1>1 DEF ConnectionInv, ConnectionTypes
<1>6. ConnectionInv(c)'
  BY <1>0, <1>1, <1>3, <1>4, <1>5, NoNewAnswerKeeps
<1>7. StepOf(c)
  BY <1>0, <1>1, <1>2 DEF StepOf, Stays, ConnectionShape
<1> QED
  BY <1>6, <1>7, OneAtATime

LEMMA ForwardKeeps ==
  ASSUME HostInv, NEW c \in IpClients, forward_question(c) \/ reader_ends(c)
  PROVE  HostInv'
<1>0. ConnectionShape /\ ConnectionInv(c)
  BY DEF HostInv
<1>1. UNCHANGED <<ipIn, ipBlocked, ipTable, ipTask, ipUpdates, ipNext, ipWire>>
  BY DEF forward_question, reader_ends, ipCall, ipMine
<1>2. Approval \in OutFrames /\ Closing \in OutFrames /\ Approval.id = 0 /\ Closing.id = 0 /\ ~IsFinal(Approval) /\ ~IsFinal(Closing)
  BY DEF Approval, Closing, OutFrames, IsFinal
<1>3. ipOut' = ipOut \/ ipOut' = Sent(c, Approval) \/ ipOut' = Sent(c, Closing)
  BY DEF forward_question, reader_ends, Sent
<1>4. NoNewAnswer(c) /\ DOMAIN ipOut' = IpClients /\ \A d \in IpClients : d # c => ipOut'[d] = ipOut[d]
  <2>1. CASE ipOut' = ipOut
    BY <1>0, <1>1, <2>1 DEF NoNewAnswer, Sighted, ConnectionInv, ConnectionTypes, ConnectionShape
  <2>2. ASSUME NEW f \in {Approval, Closing}, ipOut' = Sent(c, f)
        PROVE  NoNewAnswer(c) /\ DOMAIN ipOut' = IpClients /\ \A d \in IpClients : d # c => ipOut'[d] = ipOut[d]
    <3>1. f \in OutFrames /\ f.id = 0 /\ ~IsFinal(f)
      BY <1>2
    <3> HIDE DEF Approval, Closing
    <3> QED
      BY <1>0, <1>1, <2>2, <3>1, SendingNoAnswer, SendingIs DEF ConnectionInv
  <2> QED
    BY <1>3, <2>1, <2>2
<1>5. /\ DOMAIN ipSt' = IpClients /\ \A d \in IpClients : d # c => ipSt'[d] = ipSt[d]
      /\ DOMAIN ipHeld' = IpClients /\ \A d \in IpClients : d # c => ipHeld'[d] = ipHeld[d]
      /\ ipHeld'[c] \subseteq ipHeld[c]
      /\ ipSt'[c] \in {ipSt[c], "closing"}
  BY <1>0 DEF forward_question, reader_ends, ConnectionShape
<1>6. Bounded(c)'
  BY <1>0, <1>1, <1>5 DEF ConnectionInv, Bounded, Working, Live
<1>7. ipUpdates'[c] \in [IpIds -> Nat] /\ \A id \in IpIds : ipUpdates'[c][id] <= ipUpdates[c][id]
  BY <1>0, <1>1 DEF ConnectionInv, ConnectionTypes
<1>8. ConnectionInv(c)'
  BY <1>0, <1>1, <1>4, <1>6, <1>7, NoNewAnswerKeeps
<1>9. StepOf(c)
  BY <1>0, <1>1, <1>4, <1>5 DEF StepOf, Stays, ConnectionShape
<1> QED
  BY <1>8, <1>9, OneAtATime


(* The client sends the next call. *)
LEMMA ClientSendKeeps ==
  ASSUME HostConnectionConstants, HostInv, NEW c \in IpClients, client_send(c)
  PROVE  HostInv'
<1>0. ConnectionShape /\ ConnectionInv(c)
  BY DEF HostInv
<1>1. /\ UNCHANGED <<ipSt, ipHeld, ipBlocked, ipTable, ipTask, ipUpdates, ipOut, ipWire>>
      /\ ipNext' = [ipNext EXCEPT ![c] = @ + 1] /\ ipNext[c] <= IpMaxIds
  BY DEF client_send, ipCall, ipPipe
<1>2. PICK r \in Requests : ipIn' = [ipIn EXCEPT ![c] = Append(@, [id |-> ipNext[c], request |-> r])]
  BY DEF client_send
<1>3. StepOf(c)
  BY <1>0, <1>1, <1>2 DEF StepOf, Stays, ConnectionShape
<1> DEFINE call == [id |-> ipNext[c], request |-> r]
<1>4. ipIn'[c] = Append(ipIn[c], call) /\ ipNext'[c] = ipNext[c] + 1 /\ ipNext[c] \in Nat
  BY <1>0, <1>1, <1>2 DEF ConnectionShape, ConnectionInv, ConnectionTypes
<1>5. Sighted(c)' = Sighted(c) /\ \A id : Untouched(c, id)' <=> Untouched(c, id)
  BY <1>1 DEF Sighted, Untouched
<1>6. ipNext[c] # 0
  BY <1>0 DEF ConnectionInv, ConnectionTypes
<1>7. ipNext[c] \in IpIds
  BY <1>1, <1>4, <1>6 DEF IpIds, HostConnectionConstants
<1>8. ipIn'[c] \in Seq([id : IpIds, request : Requests])
  <2>1. call \in [id : IpIds, request : Requests]
    BY <1>7
  <2> HIDE DEF call
  <2> QED
    BY <1>0, <1>4, <2>1 DEF ConnectionInv, ConnectionTypes
<1>9. ConnectionTypes(c)'
  BY <1>0, <1>1, <1>4, <1>8 DEF ConnectionInv, ConnectionTypes
<1>10. Pending(c)'
  <2>1. /\ ipIn[c] \in Seq([id : IpIds, request : Requests])
        /\ \A j \in DOMAIN ipIn[c] : ipIn[c][j].id < ipNext[c] /\ Untouched(c, ipIn[c][j].id)
        /\ \A j, k \in DOMAIN ipIn[c] : j < k => ipIn[c][j].id < ipIn[c][k].id
        /\ \A id \in IpIds : id >= ipNext[c] => Untouched(c, id)
    BY <1>0 DEF ConnectionInv, ConnectionTypes, Pending
  <2>2. \A j \in DOMAIN ipIn[c] : ipIn[c][j].id \in IpIds
    BY <2>1, CallsHaveIds
  <2>3. /\ DOMAIN ipIn[c] = 1 .. Len(ipIn[c]) /\ Len(ipIn[c]) \in Nat /\ DOMAIN ipIn'[c] = 1 .. Len(ipIn[c]) + 1
        /\ \A j \in DOMAIN ipIn[c] : ipIn'[c][j] = ipIn[c][j]
        /\ ipIn'[c][Len(ipIn[c]) + 1] = call
    <3> HIDE DEF call
    <3> QED
      BY <1>4, <2>1
  <2>4. call.id = ipNext[c]
    OBVIOUS
  <2> HIDE DEF call
  <2>5. \A j \in DOMAIN ipIn'[c] : ipIn'[c][j].id < ipNext'[c] /\ Untouched(c, ipIn[c][j].id)'
    BY <1>4, <1>5, <1>7, <2>1, <2>2, <2>3, <2>4 DEF IpIds
  <2>6. \A j, k \in DOMAIN ipIn'[c] : j < k => ipIn'[c][j].id < ipIn'[c][k].id
    BY <1>4, <2>1, <2>3, <2>4
  <2>7. \A id \in IpIds : id >= ipNext'[c] => Untouched(c, id)'
    BY <1>4, <1>5, <2>1 DEF IpIds
  <2> QED
    BY <2>5, <2>6, <2>7 DEF Pending
<1>11. Inline(c)' /\ Concluded(c)' /\ Bounded(c)'
  BY <1>0, <1>1, <1>5 DEF ConnectionInv, Inline, Concluded, Bounded, Working, Live
<1>12. LastIsLast(Sighted(c)')
  BY <1>0, <1>5 DEF ConnectionInv
<1>13. ConnectionInv(c)'
  BY <1>9, <1>10, <1>11, <1>12 DEF ConnectionInv
<1> QED
  BY <1>3, <1>13, OneAtATime

(* The reader takes the oldest call off the line. *)
LEMMA TailPending ==
  ASSUME NEW calls \in Seq([id : IpIds, request : Requests]), calls # <<>>,
         \A j, k \in DOMAIN calls : j < k => calls[j].id < calls[k].id
  PROVE  /\ Head(calls).id \in IpIds /\ Head(calls).request \in Requests /\ Head(calls) = calls[1] /\ 1 \in DOMAIN calls
         /\ Tail(calls) \in Seq([id : IpIds, request : Requests])
         /\ \A j \in DOMAIN Tail(calls) :
              /\ j \in Nat /\ j + 1 \in DOMAIN calls /\ Tail(calls)[j] = calls[j + 1]
              /\ calls[j + 1].id # Head(calls).id /\ calls[j + 1].id \in IpIds
<1> DEFINE Calls == [id : IpIds, request : Requests]
<1>1. calls \in Seq(Calls)
  OBVIOUS
<1>2. /\ 1 \in DOMAIN calls /\ Head(calls) = calls[1] /\ Tail(calls) \in Seq(Calls)
      /\ DOMAIN calls = 1 .. Len(calls) /\ Len(calls) \in Nat /\ DOMAIN Tail(calls) = 1 .. Len(calls) - 1
      /\ \A j \in 1 .. Len(calls) - 1 : Tail(calls)[j] = calls[j + 1]
  <2> HIDE DEF Calls
  <2> QED
    BY <1>1
<1>3. \A j \in DOMAIN calls : calls[j].id \in IpIds /\ calls[j].request \in Requests
  BY CallsHaveIds
<1>4. ASSUME NEW j \in DOMAIN Tail(calls)
      PROVE  /\ j \in Nat /\ j + 1 \in DOMAIN calls /\ Tail(calls)[j] = calls[j + 1]
             /\ calls[j + 1].id # Head(calls).id /\ calls[j + 1].id \in IpIds
  <2>1. j \in Nat /\ j + 1 \in DOMAIN calls /\ Tail(calls)[j] = calls[j + 1] /\ 1 < j + 1
    BY <1>2
  <2>2. calls[1].id < calls[j + 1].id /\ calls[1].id \in IpIds /\ calls[j + 1].id \in IpIds
    BY <1>2, <1>3, <2>1
  <2> QED
    BY <1>2, <2>1, <2>2 DEF IpIds
<1> QED
  BY <1>2, <1>3, <1>4

LEMMA AddedOne ==
  ASSUME NEW S, IsFiniteSet(S), NEW x
  PROVE  IsFiniteSet(S \cup {x}) /\ Cardinality(S \cup {x}) <= Cardinality(S) + 1
<1>1. IsFiniteSet(S \cup {x}) /\ Cardinality(S) \in Nat
  BY FS_AddElement, FS_CardinalityType
<1>2. Cardinality(S \cup {x}) = IF x \in S THEN Cardinality(S) ELSE Cardinality(S) + 1
  BY FS_AddElement
<1> QED
  BY <1>1, <1>2

LEMMA ReadPending ==
  ASSUME NEW c \in IpClients, ConnectionInv(c), ipIn[c] # <<>>, ipIn'[c] = Tail(ipIn[c]), ipNext'[c] = ipNext[c],
         \A id \in IpIds : id # Head(ipIn[c]).id /\ Untouched(c, id) => Untouched(c, id)'
  PROVE  /\ ipIn'[c] \in Seq([id : IpIds, request : Requests]) /\ Pending(c)'
         /\ Head(ipIn[c]).id \in IpIds /\ Head(ipIn[c]).request \in Requests /\ Untouched(c, Head(ipIn[c]).id)
<1>1. /\ ipIn[c] \in Seq([id : IpIds, request : Requests]) /\ ipNext[c] \in Nat
      /\ \A j \in DOMAIN ipIn[c] : ipIn[c][j].id < ipNext[c] /\ Untouched(c, ipIn[c][j].id)
      /\ \A j, k \in DOMAIN ipIn[c] : j < k => ipIn[c][j].id < ipIn[c][k].id
      /\ \A id \in IpIds : id >= ipNext[c] => Untouched(c, id)
  BY DEF ConnectionInv, ConnectionTypes, Pending
<1>2. /\ Head(ipIn[c]).id \in IpIds /\ Head(ipIn[c]).request \in Requests /\ Head(ipIn[c]) = ipIn[c][1] /\ 1 \in DOMAIN ipIn[c]
      /\ Tail(ipIn[c]) \in Seq([id : IpIds, request : Requests])
      /\ \A j \in DOMAIN Tail(ipIn[c]) :
           /\ j \in Nat /\ j + 1 \in DOMAIN ipIn[c] /\ Tail(ipIn[c])[j] = ipIn[c][j + 1]
           /\ ipIn[c][j + 1].id # Head(ipIn[c]).id /\ ipIn[c][j + 1].id \in IpIds
  BY <1>1, TailPending
<1>3. Head(ipIn[c]).id < ipNext[c] /\ Untouched(c, Head(ipIn[c]).id)
  BY <1>1, <1>2
<1>4. ASSUME NEW j \in DOMAIN ipIn'[c]
      PROVE  ipIn'[c][j].id < ipNext'[c] /\ Untouched(c, ipIn[c][j].id)'
  BY <1>1, <1>2
<1>5. ASSUME NEW j \in DOMAIN ipIn'[c], NEW k \in DOMAIN ipIn'[c], j < k
      PROVE  ipIn'[c][j].id < ipIn'[c][k].id
  <2>1. j \in Nat /\ k \in Nat /\ j + 1 < k + 1
    BY <1>2, <1>5
  <2> QED
    BY <1>1, <1>2, <2>1
<1>6. ASSUME NEW id \in IpIds, id >= ipNext'[c]
      PROVE  Untouched(c, id)'
  <2>1. id # Head(ipIn[c]).id
    BY <1>1, <1>2, <1>3, <1>6 DEF IpIds
  <2> QED
    BY <1>1, <1>6, <2>1
<1>7. Pending(c)'
  BY <1>4, <1>5, <1>6 DEF Pending
<1> QED
  BY <1>2, <1>3, <1>7

\* The reader answers, or refuses, the call itself ...
LEMMA ReadInlineKeeps ==
  ASSUME HostInv, NEW c \in IpClients, ipIn[c] # <<>>, ipBlocked[c] = IpNone, ipIn' = [ipIn EXCEPT ![c] = Tail(@)],
         NEW how \in {"done", "failed"}, ipBlocked' = [ipBlocked EXCEPT ![c] = Final(Head(ipIn[c]).id, how)],
         UNCHANGED <<ipSt, ipHeld, ipTable, ipTask, ipUpdates, ipOut, ipWire, ipNext>>
  PROVE  HostInv'
<1> DEFINE h == Head(ipIn[c]).id
<1>0. ConnectionShape /\ ConnectionInv(c)
  BY DEF HostInv
<1>1. StepOf(c) /\ ipIn'[c] = Tail(ipIn[c]) /\ ipNext'[c] = ipNext[c] /\ ipBlocked'[c] = Final(h, how) /\ Sighted(c)' = Sighted(c)
  BY <1>0 DEF StepOf, Stays, ConnectionShape, Sighted
<1>2. ipBlocked'[c].id = h
  BY <1>1 DEF Final
<1> HIDE DEF h
<1>3. \A id \in IpIds : id # h /\ Untouched(c, id) => Untouched(c, id)'
  BY <1>1, <1>2 DEF Untouched
<1>4. ipIn'[c] \in Seq([id : IpIds, request : Requests]) /\ Pending(c)' /\ h \in IpIds /\ Untouched(c, h)
  BY <1>0, <1>1, <1>3, ReadPending DEF h
<1>5. ConnectionTypes(c)'
  BY <1>0, <1>4 DEF ConnectionInv, ConnectionTypes
<1>6. Final(h, how) \in OutFrames
  BY <1>4 DEF Final, OutFrames
<1>7. Inline(c)'
  <2>1. /\ ipBlocked'[c] \in OutFrames /\ ipBlocked'[c].id \in IpIds
        /\ ipTask'[c][ipBlocked'[c].id] = "none" /\ ipUpdates'[c][ipBlocked'[c].id] = 0
        /\ ~FinalIn(Sighted(c)', ipBlocked'[c].id)
    BY <1>1, <1>2, <1>4, <1>6 DEF Untouched
  <2> QED
    BY <2>1 DEF Inline
<1>8. Concluded(c)' /\ Bounded(c)' /\ LastIsLast(Sighted(c)')
  BY <1>0, <1>1 DEF ConnectionInv, Concluded, Bounded, Working, Live
<1>9. ConnectionInv(c)'
  BY <1>4, <1>5, <1>7, <1>8 DEF ConnectionInv
<1> QED
  BY <1>1, <1>9, OneAtATime

\* ... or starts a task for it.
LEMMA ReadTaskKeeps ==
  ASSUME HostConnectionConstants, HostInv, NEW c \in IpClients, ipIn[c] # <<>>, ipBlocked[c] = IpNone, ipIn' = [ipIn EXCEPT ![c] = Tail(@)],
         ipSt[c] = "open", Head(ipIn[c]).request \notin {"cancel", "approve"}, ~(Cardinality(ipTable[c]) >= IpMaxCalls),
         ipTable' = [ipTable EXCEPT ![c] = @ \cup {Head(ipIn[c]).id}],
         ipTask' = [ipTask EXCEPT ![c][Head(ipIn[c]).id] = Head(ipIn[c]).request],
         UNCHANGED <<ipSt, ipHeld, ipBlocked, ipUpdates, ipOut, ipWire, ipNext>>
  PROVE  HostInv'
<1> DEFINE h == Head(ipIn[c]).id
           r == Head(ipIn[c]).request
<1>0. ConnectionShape /\ ConnectionInv(c)
  BY DEF HostInv
<1>1. /\ StepOf(c) /\ ipIn'[c] = Tail(ipIn[c]) /\ ipNext'[c] = ipNext[c] /\ Sighted(c)' = Sighted(c)
      /\ ipTable'[c] = ipTable[c] \cup {h} /\ ipTask'[c] = [ipTask[c] EXCEPT ![h] = r]
  BY <1>0 DEF StepOf, Stays, ConnectionShape, Sighted
<1>2. r \notin {"cancel", "approve"}
  OBVIOUS
<1> HIDE DEF h, r
<1>3. /\ ipTask[c] \in [IpIds -> TaskStates]
      /\ \A id \in IpIds : id # h => ipTask'[c][id] = ipTask[c][id]
  BY <1>0, <1>1 DEF ConnectionInv, ConnectionTypes
<1>4. \A id \in IpIds : id # h /\ Untouched(c, id) => Untouched(c, id)'
  BY <1>1, <1>3 DEF Untouched
<1>5. ipIn'[c] \in Seq([id : IpIds, request : Requests]) /\ Pending(c)' /\ h \in IpIds /\ r \in Requests /\ Untouched(c, h)
  BY <1>0, <1>1, <1>4, ReadPending DEF h, r
<1>6. r \in {"prompt", "schedule", "prune", "plain"}
  BY <1>2, <1>5 DEF Requests
<1>7. ipTask'[c] \in [IpIds -> TaskStates] /\ ipTask'[c][h] = r
  BY <1>1, <1>3, <1>5, <1>6 DEF TaskStates
<1>8. ipTable'[c] \in SUBSET IpIds
  BY <1>0, <1>1, <1>5 DEF ConnectionInv, ConnectionTypes
<1>9. ConnectionTypes(c)'
  BY <1>0, <1>5, <1>7, <1>8 DEF ConnectionInv, ConnectionTypes
<1>10. Inline(c)' /\ LastIsLast(Sighted(c)')
  BY <1>0, <1>1 DEF ConnectionInv, Inline
<1>11. Concluded(c)'
  <2> SUFFICES ASSUME NEW id \in IpIds, FinalIn(Sighted(c)', id)
               PROVE  ipTask'[c][id] \in {"none", "over"} /\ ipUpdates'[c][id] = 0
    BY DEF Concluded
  <2>1. id # h
    BY <1>1, <1>5 DEF Untouched
  <2> QED
    BY <1>0, <1>1, <1>3, <2>1 DEF ConnectionInv, Concluded
<1>12. Bounded(c)'
  <2>1. Working(c)' \subseteq ipTable'[c]
    BY <1>0, <1>1, <1>3 DEF ConnectionInv, Bounded, Working
  <2>2. IsFiniteSet(ipTable[c]) /\ Cardinality(ipTable[c]) \in Nat
    BY <1>0, FS_CardinalityType DEF ConnectionInv, Bounded
  <2>3. IsFiniteSet(ipTable'[c]) /\ Cardinality(ipTable'[c]) <= Cardinality(ipTable[c]) + 1
    <3>1. IsFiniteSet(ipTable[c] \cup {h}) /\ Cardinality(ipTable[c] \cup {h}) <= Cardinality(ipTable[c]) + 1
      BY <2>2, AddedOne
    <3> QED
      BY <1>1, <3>1
  <2>4. Cardinality(ipTable'[c]) \in Nat
    BY <2>3, FS_CardinalityType
  <2>5. Cardinality(ipTable'[c]) <= IpMaxCalls
    BY <2>2, <2>3, <2>4 DEF HostConnectionConstants
  <2> QED
    BY <2>1, <2>3, <2>5 DEF Bounded
<1>13. ConnectionInv(c)'
  BY <1>5, <1>9, <1>10, <1>11, <1>12 DEF ConnectionInv
<1> QED
  BY <1>1, <1>13, OneAtATime

LEMMA ReadCallKeeps ==
  ASSUME HostConnectionConstants, HostInv, NEW c \in IpClients, read_call(c)
  PROVE  HostInv'
<1>1. /\ ipSt[c] = "open" /\ ipBlocked[c] = IpNone /\ ipIn[c] # <<>> /\ ipIn' = [ipIn EXCEPT ![c] = Tail(@)]
      /\ UNCHANGED <<ipSt, ipHeld, ipOut, ipWire, ipNext>>
  BY DEF read_call, ipPipe
<1>2. CASE dispatch_inline(c, Head(ipIn[c]))
  <2>1. PICK how \in {"done", "failed"} : ipBlocked' = [ipBlocked EXCEPT ![c] = Final(Head(ipIn[c]).id, how)]
    BY <1>2 DEF dispatch_inline, answer_approval
  <2>2. UNCHANGED <<ipTable, ipTask, ipUpdates>>
    BY <1>2 DEF dispatch_inline
  <2> QED
    BY <1>1, <2>1, <2>2, ReadInlineKeeps
<1>3. CASE dispatch_task(c, Head(ipIn[c])) /\ Cardinality(ipTable[c]) >= IpMaxCalls
  BY <1>1, <1>3, ReadInlineKeeps DEF dispatch_task
<1>4. CASE dispatch_task(c, Head(ipIn[c])) /\ ~(Cardinality(ipTable[c]) >= IpMaxCalls)
  BY <1>1, <1>4, ReadTaskKeeps DEF dispatch_task
<1> QED
  BY <1>2, <1>3, <1>4 DEF read_call

(* The reader's answer goes out. *)
LEMMA UnblockKeeps ==
  ASSUME HostInv, NEW c \in IpClients, unblock_reader(c)
  PROVE  HostInv'
<1>0. ConnectionShape /\ ConnectionInv(c)
  BY DEF HostInv
<1>1. /\ ipOut' = Sent(c, ipBlocked[c]) /\ ipBlocked[c] # IpNone /\ ipBlocked' = [ipBlocked EXCEPT ![c] = IpNone]
      /\ UNCHANGED <<ipSt, ipHeld, ipIn, ipTable, ipTask, ipUpdates, ipWire, ipNext>>
  BY DEF unblock_reader, ipCall
<1> DEFINE f == ipBlocked[c]
<1>2. /\ f \in OutFrames /\ f.id \in IpIds /\ ipTask[c][f.id] = "none" /\ ipUpdates[c][f.id] = 0 /\ ~FinalIn(Sighted(c), f.id)
      /\ LastIsLast(Sighted(c))
  BY <1>0, <1>1 DEF ConnectionInv, Inline
<1>3. ipBlocked'[c] = IpNone /\ ipOut' = Sent(c, f)
  BY <1>0, <1>1 DEF ConnectionShape
<1>4. \A id : Untouched(c, id) => id # f.id
  BY <1>1 DEF Untouched
<1> HIDE DEF f
<1>5. /\ ipOut'[c] \in Seq(OutFrames) /\ ipWire'[c] \in Seq(OutFrames)
      /\ DOMAIN ipOut' = IpClients /\ DOMAIN ipWire' = IpClients
      /\ \A d \in IpClients : d # c => ipOut'[d] = ipOut[d] /\ ipWire'[d] = ipWire[d]
      /\ Sighted(c)' = Sighted(c) \/ Sighted(c)' = Append(Sighted(c), f)
      /\ Sighted(c) \in Seq(OutFrames)
  BY <1>0, <1>1, <1>2, <1>3, SendingIs DEF ConnectionInv
<1>6. /\ LastIsLast(Append(Sighted(c), f))
      /\ \A id : FinalIn(Append(Sighted(c), f), id) <=> FinalIn(Sighted(c), id) \/ (f.id = id /\ IsFinal(f))
  BY <1>2, <1>5, OneMoreFrame
<1>7. LastIsLast(Sighted(c)') /\ \A id : FinalIn(Sighted(c)', id) => FinalIn(Sighted(c), id) \/ f.id = id
  BY <1>2, <1>5, <1>6
<1>8. \A id : Untouched(c, id) => Untouched(c, id)'
  BY <1>1, <1>3, <1>4, <1>7 DEF Untouched
<1>9. ConnectionTypes(c)' /\ Pending(c)'
  BY <1>0, <1>1, <1>5, <1>8 DEF ConnectionInv, ConnectionTypes, Pending
<1>10. Inline(c)' /\ Bounded(c)'
  BY <1>0, <1>1, <1>3 DEF ConnectionInv, Inline, Bounded, Working, Live
<1>11. Concluded(c)'
  BY <1>0, <1>1, <1>2, <1>7 DEF ConnectionInv, Concluded
<1>12. ConnectionInv(c)'
  BY <1>7, <1>9, <1>10, <1>11 DEF ConnectionInv
<1>13. StepOf(c)
  BY <1>0, <1>1, <1>5 DEF StepOf, Stays, ConnectionShape
<1> QED
  BY <1>12, <1>13, OneAtATime

(* The calls' tasks move, and what the client sees does not. *)
MovesOn(c) ==
  /\ ipIn'[c] = ipIn[c] /\ ipNext'[c] = ipNext[c] /\ ipOut'[c] = ipOut[c] /\ ipWire'[c] = ipWire[c]
  /\ ipBlocked'[c] = ipBlocked[c] \/ ipBlocked'[c] = IpNone
  /\ ipTask'[c] \in [IpIds -> TaskStates] /\ ipUpdates'[c] \in [IpIds -> Nat] /\ ipTable'[c] \in SUBSET IpIds
  /\ \A id \in IpIds : \/ ipTask'[c][id] = ipTask[c][id] /\ ipUpdates'[c][id] = ipUpdates[c][id]
                       \/ ipTask[c][id] \notin {"none", "over"}

LEMMA MovesKeep ==
  ASSUME NEW c \in IpClients, ConnectionInv(c), MovesOn(c), Bounded(c)'
  PROVE  ConnectionInv(c)'
<1>1. Sighted(c)' = Sighted(c)
  BY DEF MovesOn, Sighted
<1>2. \A id \in IpIds : Untouched(c, id) => Untouched(c, id)'
  BY <1>1 DEF Untouched, MovesOn
<1>3. ConnectionTypes(c)'
  BY DEF ConnectionInv, ConnectionTypes, MovesOn
<1>4. Pending(c)'
  <2>1. \A j \in DOMAIN ipIn[c] : ipIn[c][j].id \in IpIds
    BY CallsHaveIds DEF ConnectionInv, ConnectionTypes
  <2> QED
    BY <1>2, <2>1 DEF ConnectionInv, Pending, MovesOn
<1>5. Inline(c)' /\ Concluded(c)'
  BY <1>1 DEF ConnectionInv, Inline, Concluded, MovesOn
<1>6. LastIsLast(Sighted(c)')
  BY <1>1 DEF ConnectionInv
<1> QED
  BY <1>3, <1>4, <1>5, <1>6 DEF ConnectionInv

LEMMA PromptUpdateKeeps ==
  ASSUME HostInv, NEW c \in IpClients, NEW id \in IpIds, prompt_update(c, id)
  PROVE  HostInv'
<1>0. ConnectionShape /\ ConnectionInv(c)
  BY DEF HostInv
<1>1. /\ ipTask[c][id] = "prompt" /\ ipUpdates' = [ipUpdates EXCEPT ![c][id] = @ + 1]
      /\ UNCHANGED <<ipSt, ipHeld, ipIn, ipBlocked, ipTable, ipTask, ipOut, ipWire, ipNext>>
  BY DEF prompt_update, ipPipe, ipMine
<1>2. ipTask[c] \in [IpIds -> TaskStates] /\ ipUpdates[c] \in [IpIds -> Nat] /\ ipTable[c] \in SUBSET IpIds
  BY <1>0 DEF ConnectionInv, ConnectionTypes
<1>3. ipUpdates'[c] = [ipUpdates[c] EXCEPT ![id] = @ + 1]
  BY <1>0, <1>1 DEF ConnectionShape
<1>4. MovesOn(c)
  BY <1>1, <1>2, <1>3 DEF MovesOn
<1>5. Bounded(c)'
  BY <1>0, <1>1 DEF ConnectionInv, Bounded, Working, Live
<1>6. StepOf(c)
  BY <1>0, <1>1 DEF StepOf, Stays, ConnectionShape
<1> QED
  BY <1>0, <1>4, <1>5, <1>6, MovesKeep, OneAtATime

LEMMA PumpKeeps ==
  ASSUME HostInv, NEW c \in IpClients, NEW id \in IpIds, pump(c, id)
  PROVE  HostInv'
<1>0. ConnectionShape /\ ConnectionInv(c)
  BY DEF HostInv
<1>1. /\ ipUpdates[c][id] > 0 /\ ipUpdates' = [ipUpdates EXCEPT ![c][id] = @ - 1] /\ ipOut' = Sent(c, Update(id))
      /\ UNCHANGED <<ipSt, ipHeld, ipIn, ipBlocked, ipTable, ipTask, ipWire, ipNext>>
  BY DEF pump, ipMine
<1>2. ipUpdates[c] \in [IpIds -> Nat]
  BY <1>0 DEF ConnectionInv, ConnectionTypes
<1>3. ipUpdates'[c] = [ipUpdates[c] EXCEPT ![id] = @ - 1]
  BY <1>0, <1>1 DEF ConnectionShape
<1>4. ipUpdates'[c] \in [IpIds -> Nat] /\ \A i \in IpIds : ipUpdates'[c][i] <= ipUpdates[c][i]
  BY <1>1, <1>2, <1>3
<1>5. Update(id) \in OutFrames /\ Update(id).id = id /\ ~IsFinal(Update(id))
  BY DEF Update, OutFrames, IsFinal
<1>6. ~FinalIn(Sighted(c), id)
  BY <1>0, <1>1 DEF ConnectionInv, Concluded
<1>7. NoNewAnswer(c) /\ DOMAIN ipOut' = IpClients /\ \A d \in IpClients : d # c => ipOut'[d] = ipOut[d]
  BY <1>0, <1>1, <1>5, <1>6, SendingNoAnswer, SendingIs DEF ConnectionInv
<1>8. Bounded(c)'
  BY <1>0, <1>1 DEF ConnectionInv, Bounded, Working, Live
<1>9. StepOf(c)
  BY <1>0, <1>1, <1>7 DEF StepOf, Stays, ConnectionShape
<1>10. ConnectionInv(c)'
  BY <1>0, <1>1, <1>4, <1>7, <1>8, NoNewAnswerKeeps
<1> QED
  BY <1>9, <1>10, OneAtATime

LEMMA CallReturnsKeeps ==
  ASSUME HostInv, NEW c \in IpClients, NEW id \in IpIds, call_returns(c, id)
  PROVE  HostInv'
<1>0. ConnectionShape /\ ConnectionInv(c)
  BY DEF HostInv
<1>1. /\ ipTask[c][id] \in Requests
      /\ UNCHANGED <<ipSt, ipHeld, ipIn, ipBlocked, ipTable, ipUpdates, ipOut, ipWire, ipNext>>
  BY DEF call_returns, ipPipe, ipMine
<1>2. ipTask[c] \in [IpIds -> TaskStates] /\ ipUpdates[c] \in [IpIds -> Nat] /\ ipTable[c] \in SUBSET IpIds
  BY <1>0 DEF ConnectionInv, ConnectionTypes
<1>3. ipTask[c][id] \in {"prompt", "schedule", "prune", "plain"}
  BY <1>1, <1>2 DEF TaskStates, Requests
<1>4. PICK how \in {"done", "failed"} : ipTask' = [ipTask EXCEPT ![c][id] = how]
  BY <1>3 DEF call_returns, handle, schedule_request, prune_request
<1>5. /\ ipTask'[c] \in [IpIds -> TaskStates] /\ ipTask'[c][id] = how
      /\ \A i \in IpIds : i # id => ipTask'[c][i] = ipTask[c][i]
  BY <1>0, <1>2, <1>4 DEF ConnectionShape, TaskStates
<1>6. MovesOn(c)
  BY <1>1, <1>2, <1>3, <1>5 DEF MovesOn
<1>7. Bounded(c)'
  <2>1. Working(c)' \subseteq Working(c)
    BY <1>5 DEF Working
  <2>2. id \in Live(c)
    BY <1>3 DEF Live
  <2> QED
    BY <1>0, <1>1, <2>1, <2>2 DEF ConnectionInv, Bounded
<1>8. StepOf(c)
  BY <1>0, <1>1, <1>4 DEF StepOf, Stays, ConnectionShape
<1> QED
  BY <1>0, <1>6, <1>7, <1>8, MovesKeep, OneAtATime

(* A call's task answers: its entry leaves the table, and the answer goes out. *)
LEMMA AnswerCallKeeps ==
  ASSUME HostConnectionConstants, HostInv, NEW c \in IpClients, NEW id \in IpIds, answer_call(c, id)
  PROVE  HostInv'
<1>0. ConnectionShape /\ ConnectionInv(c)
  BY DEF HostInv
<1>1. /\ ipTask[c][id] \in {"done", "failed"} /\ ipUpdates[c][id] = 0
      /\ UNCHANGED <<ipSt, ipHeld, ipIn, ipBlocked, ipUpdates, ipWire, ipNext>>
  BY DEF answer_call, ipMine
<1>2. /\ ipTask[c] \in [IpIds -> TaskStates] /\ ipUpdates[c] \in [IpIds -> Nat] /\ ipTable[c] \in SUBSET IpIds
      /\ Working(c) \subseteq ipTable[c] /\ IsFiniteSet(ipTable[c]) /\ Cardinality(ipTable[c]) <= IpMaxCalls
      /\ ~(ipSt[c] \notin {"open", "closing"})
  <2>1. id \in Live(c)
    BY <1>1 DEF Live
  <2> QED
    BY <1>0, <2>1 DEF ConnectionInv, ConnectionTypes, Bounded
<1>3. CASE ipTable' = [ipTable EXCEPT ![c] = @ \ {id}] /\ UNCHANGED <<ipOut, ipTask>>
  <2>1. ipTable'[c] = ipTable[c] \ {id}
    BY <1>0, <1>3 DEF ConnectionShape
  <2>2. MovesOn(c)
    BY <1>1, <1>2, <1>3, <2>1 DEF MovesOn
  <2>3. IsFiniteSet(ipTable'[c]) /\ Cardinality(ipTable'[c]) <= IpMaxCalls
    <3>1. IsFiniteSet(ipTable[c] \ {id})
      BY <1>2, FS_RemoveElement
    <3>2. Cardinality(ipTable[c] \ {id}) <= Cardinality(ipTable[c])
      BY <1>2, FS_Subset
    <3>3. Cardinality(ipTable[c] \ {id}) \in Nat /\ Cardinality(ipTable[c]) \in Nat
      BY <1>2, <3>1, FS_CardinalityType
    <3> QED
      BY <1>2, <2>1, <3>1, <3>2, <3>3 DEF HostConnectionConstants
  <2>4. Working(c)' \subseteq ipTable'[c]
    BY <1>1, <1>2, <1>3, <2>1 DEF Working
  <2>5. Bounded(c)'
    BY <1>1, <1>2, <2>3, <2>4 DEF Bounded
  <2>6. StepOf(c)
    BY <1>0, <1>1, <1>3 DEF StepOf, Stays, ConnectionShape
  <2> QED
    BY <1>0, <2>2, <2>5, <2>6, MovesKeep, OneAtATime
<1>4. CASE /\ ipOut' = Sent(c, Final(id, ipTask[c][id])) /\ ipTask' = [ipTask EXCEPT ![c][id] = "over"]
           /\ UNCHANGED ipTable
  <2> DEFINE f == Final(id, ipTask[c][id])
  <2>1. f \in OutFrames /\ f.id = id
    BY <1>1 DEF Final, OutFrames
  <2>2. ipOut' = Sent(c, f)
    BY <1>4
  <2> HIDE DEF f
  <2>3. ~FinalIn(Sighted(c), id) /\ LastIsLast(Sighted(c))
    BY <1>0, <1>1 DEF ConnectionInv, Concluded
  <2>4. /\ ipOut'[c] \in Seq(OutFrames) /\ ipWire'[c] \in Seq(OutFrames)
        /\ DOMAIN ipOut' = IpClients /\ DOMAIN ipWire' = IpClients
        /\ \A d \in IpClients : d # c => ipOut'[d] = ipOut[d] /\ ipWire'[d] = ipWire[d]
        /\ Sighted(c)' = Sighted(c) \/ Sighted(c)' = Append(Sighted(c), f)
        /\ Sighted(c) \in Seq(OutFrames)
    BY <1>0, <1>1, <2>1, <2>2, SendingIs DEF ConnectionInv
  <2>5. /\ LastIsLast(Append(Sighted(c), f))
        /\ \A i : FinalIn(Append(Sighted(c), f), i) <=> FinalIn(Sighted(c), i) \/ (f.id = i /\ IsFinal(f))
    BY <2>1, <2>3, <2>4, OneMoreFrame
  <2>6. LastIsLast(Sighted(c)') /\ \A i : FinalIn(Sighted(c)', i) => FinalIn(Sighted(c), i) \/ i = id
    BY <2>1, <2>3, <2>4, <2>5
  <2>7. /\ ipTask'[c] \in [IpIds -> TaskStates] /\ ipTask'[c][id] = "over"
        /\ \A i \in IpIds : i # id => ipTask'[c][i] = ipTask[c][i]
    BY <1>0, <1>2, <1>4 DEF ConnectionShape, TaskStates
  <2>8. \A i \in IpIds : Untouched(c, i) => Untouched(c, i)'
    BY <1>1, <2>6, <2>7 DEF Untouched
  <2>9. ConnectionTypes(c)'
    BY <1>0, <1>1, <1>4, <2>4, <2>7 DEF ConnectionInv, ConnectionTypes
  <2>10. Pending(c)'
    <3>1. \A j \in DOMAIN ipIn[c] : ipIn[c][j].id \in IpIds
      BY <1>0, CallsHaveIds DEF ConnectionInv, ConnectionTypes
    <3> QED
      BY <1>0, <1>1, <2>8, <3>1 DEF ConnectionInv, Pending
  <2>11. Inline(c)'
    BY <1>0, <1>1, <2>6, <2>7 DEF ConnectionInv, Inline
  <2>12. Concluded(c)'
    BY <1>0, <1>1, <2>6, <2>7 DEF ConnectionInv, Concluded
  <2>13. Bounded(c)'
    <3>1. Working(c)' \subseteq Working(c)
      BY <2>7 DEF Working
    <3> QED
      BY <1>1, <1>2, <1>4, <3>1 DEF Bounded
  <2>14. ConnectionInv(c)'
    BY <2>6, <2>9, <2>10, <2>11, <2>12, <2>13 DEF ConnectionInv
  <2>15. StepOf(c)
    BY <1>0, <1>1, <1>4, <2>4 DEF StepOf, Stays, ConnectionShape
  <2> QED
    BY <2>14, <2>15, OneAtATime
<1> QED
  BY <1>3, <1>4 DEF answer_call

\* Every task of c that is left is aborted.
Aborted(c) ==
  /\ ipTask'[c] = [id \in IpIds |-> IF id \in Live(c) THEN "aborted" ELSE ipTask[c][id]]
  /\ ipHeld'[c] = {}
  /\ ipBlocked'[c] = ipBlocked[c] \/ ipBlocked'[c] = IpNone
  /\ ipIn'[c] = ipIn[c] /\ ipNext'[c] = ipNext[c] /\ ipOut'[c] = ipOut[c] /\ ipWire'[c] = ipWire[c]
  /\ ipTable'[c] = ipTable[c] /\ ipUpdates'[c] = ipUpdates[c]

LEMMA AbortedKeeps ==
  ASSUME NEW c \in IpClients, ConnectionInv(c), Aborted(c)
  PROVE  ConnectionInv(c)'
<1>1. ipTask[c] \in [IpIds -> TaskStates] /\ ipUpdates[c] \in [IpIds -> Nat] /\ ipTable[c] \in SUBSET IpIds
  BY DEF ConnectionInv, ConnectionTypes
<1>2. /\ ipTask'[c] \in [IpIds -> TaskStates]
      /\ \A id \in IpIds : ipTask'[c][id] = IF id \in Live(c) THEN "aborted" ELSE ipTask[c][id]
  BY <1>1 DEF Aborted, TaskStates
<1>3. \A id \in IpIds : id \in Live(c) <=> ipTask[c][id] \notin {"none", "over", "aborted"}
  BY DEF Live
<1>4. MovesOn(c)
  BY <1>1, <1>2, <1>3 DEF Aborted, MovesOn
<1>5. Live(c)' = {} /\ Working(c)' \subseteq Working(c)
  BY <1>2, <1>3 DEF Live, Working
<1>6. Bounded(c)'
  BY <1>5 DEF ConnectionInv, Bounded, Aborted
<1> QED
  BY <1>4, <1>6, MovesKeep

LEMMA JoinTasksKeeps ==
  ASSUME HostInv, NEW c \in IpClients, join_tasks(c)
  PROVE  HostInv'
<1>0. ConnectionShape /\ ConnectionInv(c)
  BY DEF HostInv
<1>1. UNCHANGED <<ipIn, ipBlocked, ipTable, ipUpdates, ipOut, ipWire, ipNext>>
  BY DEF join_tasks, ipPipe
<1>2. StepOf(c)
  BY <1>0, <1>1 DEF StepOf, Stays, ConnectionShape, join_tasks
<1>3. Aborted(c)
  BY <1>0, <1>1 DEF Aborted, ConnectionShape, join_tasks
<1> QED
  BY <1>0, <1>2, <1>3, AbortedKeeps, OneAtATime

(* The host stops, and what has not ended by then is aborted. *)
LEMMA ShutdownKeeps ==
  ASSUME HostInv, shutdown_host \/ abort_connections
  PROVE  HostInv'
<1>1. CASE shutdown_host
  <2>1. \A d \in IpClients : Stays(d)
    BY <1>1 DEF shutdown_host, Stays, ipCall, ipPipe, ipMine
  <2>2. ConnectionShape'
    BY <1>1 DEF shutdown_host, HostInv, ConnectionShape, ipCall, ipPipe, ipMine
  <2> QED
    BY <2>1, <2>2, StaysKeeps DEF HostInv
<1>2. CASE abort_connections
  <2>1. UNCHANGED <<ipIn, ipTable, ipUpdates, ipOut, ipWire, ipNext>>
    BY <1>2 DEF abort_connections, ipPipe
  <2>2. ConnectionShape'
    BY <1>2, <2>1 DEF abort_connections, HostInv, ConnectionShape
  <2>3. ASSUME NEW c \in IpClients, c \in Tasks PROVE ConnectionInv(c)'
    <3>1. Aborted(c)
      BY <1>2, <2>1, <2>3 DEF abort_connections, Aborted
    <3> QED
      BY <3>1, AbortedKeeps DEF HostInv
  <2>4. ASSUME NEW c \in IpClients, c \notin Tasks PROVE ConnectionInv(c)'
    <3>1. ipTask[c] \in [IpIds -> TaskStates]
      BY DEF HostInv, ConnectionInv, ConnectionTypes
    <3>2. ipTask'[c] = ipTask[c]
      BY <1>2, <2>4, <3>1 DEF abort_connections
    <3>3. Stays(c)
      BY <1>2, <2>1, <2>4, <3>2 DEF abort_connections, Stays
    <3> QED
      BY <3>3, StaysKeeps DEF HostInv
  <2> QED
    BY <2>2, <2>3, <2>4 DEF HostInv
<1> QED
  BY <1>1, <1>2

LEMMA HostStarts ==
  ASSUME HostConnectionConstants, HostConnectionInit
  PROVE  HostInv
<1>1. ConnectionShape
  BY DEF HostConnectionInit, ConnectionShape
<1>2. ASSUME NEW c \in IpClients PROVE ConnectionInv(c)
  <2>1. /\ ipIn[c] = <<>> /\ ipOut[c] = <<>> /\ ipWire[c] = <<>> /\ ipBlocked[c] = IpNone /\ ipTable[c] = {} /\ ipNext[c] = 1
        /\ ipTask[c] = [id \in IpIds |-> "none"] /\ ipUpdates[c] = [id \in IpIds |-> 0] /\ ipHeld[c] = {}
    BY DEF HostConnectionInit
  <2>2. Sighted(c) = <<>>
    BY <2>1 DEF Sighted
  <2>3. ConnectionTypes(c)
    BY <2>1 DEF ConnectionTypes, TaskStates
  <2>4. (\A id : ~FinalIn(Sighted(c), id)) /\ LastIsLast(Sighted(c))
    BY <2>2 DEF FinalIn, LastIsLast
  <2>5. \A id \in IpIds : Untouched(c, id)
    BY <2>1, <2>4 DEF Untouched
  <2>6. Pending(c)
    BY <2>1, <2>5 DEF Pending
  <2>7. Inline(c) /\ Concluded(c)
    BY <2>1, <2>4 DEF Inline, Concluded
  <2>8. Bounded(c)
    BY <2>1, FS_EmptySet DEF Bounded, Working, Live, HostConnectionConstants
  <2> QED
    BY <2>3, <2>4, <2>6, <2>7, <2>8 DEF ConnectionInv
<1> QED
  BY <1>1, <1>2 DEF HostInv

LEMMA HostKeeps ==
  ASSUME HostConnectionConstants, HostInv, [HostConnectionNext]_ipVars
  PROVE  HostInv'
<1>1. CASE UNCHANGED ipVars
  <2>1. \A d \in IpClients : Stays(d)
    BY <1>1 DEF Stays, ipVars, ipCall, ipPipe, ipMine
  <2>2. ConnectionShape'
    BY <1>1 DEF HostInv, ConnectionShape, ipVars, ipCall, ipPipe, ipMine
  <2> QED
    BY <2>1, <2>2, StaysKeeps DEF HostInv
<1>2. ASSUME NEW c \in IpClients, ConnectionSteps(c) PROVE HostInv'
  <2>1. CASE accept_peer(c) \/ refuse(c) \/ serve_handshake(c) \/ flush_writer(c)
    BY <2>1, LifecycleKeeps
  <2>2. CASE client_send(c)
    BY <2>2, ClientSendKeeps
  <2>3. CASE read_call(c)
    BY <2>3, ReadCallKeeps
  <2>4. CASE unblock_reader(c)
    BY <2>4, UnblockKeeps
  <2>5. CASE forward_question(c) \/ reader_ends(c)
    BY <2>5, ForwardKeeps
  <2>6. CASE write_frame(c)
    BY <2>6, WriteFrameKeeps
  <2>7. CASE join_tasks(c)
    BY <2>7, JoinTasksKeeps
  <2>8. ASSUME NEW id \in IpIds, prompt_update(c, id) \/ pump(c, id) \/ call_returns(c, id) \/ answer_call(c, id) PROVE HostInv'
    BY <2>8, PromptUpdateKeeps, PumpKeeps, CallReturnsKeeps, AnswerCallKeeps
  <2> QED
    BY <1>2, <2>1, <2>2, <2>3, <2>4, <2>5, <2>6, <2>7, <2>8 DEF ConnectionSteps
<1> QED
  BY <1>1, <1>2, ShutdownKeeps DEF HostConnectionNext

(* A client's answer is the last it hears of a call, and a connection that
   is over holds no gate and runs no call; the calls at work are among
   those in the table, whose size is bounded. *)
LEMMA HostImplies ==
  ASSUME HostConnectionConstants, HostInv
  PROVE  AnswerIsLast /\ GoneIsGone
<1>1. AnswerIsLast
  BY DEF HostInv, ConnectionInv, AnswerIsLast, LastIsLast, Sighted
<1>2. ASSUME NEW c \in IpClients
      PROVE  Cardinality({id \in Live(c) : ipTask[c][id] \notin {"done", "failed"}}) <= IpMaxCalls
  <2> DEFINE S == {id \in Live(c) : ipTask[c][id] \notin {"done", "failed"}}
  <2>1. /\ ipTask[c] \in [IpIds -> TaskStates] /\ Working(c) \subseteq ipTable[c]
        /\ IsFiniteSet(ipTable[c]) /\ Cardinality(ipTable[c]) <= IpMaxCalls
    BY DEF HostInv, ConnectionInv, ConnectionTypes, Bounded
  <2>2. S \subseteq ipTable[c]
    BY <2>1 DEF Live, Working, TaskStates
  <2> HIDE DEF S
  <2>3. IsFiniteSet(S) /\ Cardinality(S) <= Cardinality(ipTable[c])
    BY <2>1, <2>2, FS_Subset
  <2>4. Cardinality(S) \in Nat /\ Cardinality(ipTable[c]) \in Nat
    BY <2>1, <2>3, FS_CardinalityType
  <2>5. Cardinality(S) <= IpMaxCalls
    BY <2>1, <2>3, <2>4 DEF HostConnectionConstants
  <2> QED
    BY <2>5 DEF S
<1>3. GoneIsGone
  BY <1>2 DEF HostInv, ConnectionInv, Bounded, GoneIsGone
<1> QED
  BY <1>1, <1>3

(* Whatever the client sends, whenever it stops reading, hangs up or is drained, and whatever its
   calls do: a call's answer is the last frame its client is sent about it, and a connection that
   is being torn down or has ended holds no gate and runs no call, and no more calls of it are at
   work than its limit (daemon connection.rs, host.rs, server.rs). *)
THEOREM ConnectionHolds ==
  ASSUME HostConnectionConstants
  PROVE  HostConnectionSpec => []ConnectionEndsClean
<1>1. HostConnectionInit => HostInv
  BY HostStarts
<1>2. HostInv /\ [HostConnectionNext]_ipVars => HostInv'
  BY HostKeeps
<1>3. HostInv => ConnectionEndsClean
  BY HostImplies DEF ConnectionEndsClean
<1> QED
  BY <1>1, <1>2, <1>3, PTL DEF HostConnectionSpec
-----------------------------------------------------------------------------
(* The file tools: FileTools *)

FileFields == {"tool", "form", "thread", "path", "dir", "file", "pos", "result", "answer", "got"}

\* What a directory path is.
LeadsOn(x) ==
  /\ x.kind \in {"dir", "link", "none"}
  /\ x.kind = "dir" => x.to \in DOMAIN ftLeaf
  /\ x.kind = "link" => x.to \in FtPaths

\* The tree hangs together.
TreeShape ==
  /\ DOMAIN ftAt = FtPaths
  /\ \A p \in FtPaths : LeadsOn(ftAt[p])
  /\ \A d \in DOMAIN ftLeaf : ftLeaf[d].kind = "file" => ftLeaf[d].to \in DOMAIN ftFiles
  /\ FtNone \notin DOMAIN ftFiles
  /\ \A f \in DOMAIN ftFiles : /\ DOMAIN ftFiles[f] = {"text", "links"}
                               /\ ftFiles[f].text \in Seq(Letters) /\ ftFiles[f].links \in Int
  /\ \A c \in DOMAIN ftCall : /\ DOMAIN ftCall[c] = FileFields /\ c \notin {"o", "nul", FtNone}
                              /\ ftCall[c].tool = "write" => FtLength[c] \in Nat

\* The histories have seen what is there: names, directories under the root, and what a writer has
\* open that has no second name.
HistorySees ==
  /\ \A d \in DOMAIN ftLeaf : ftLeaf[d].kind = "file" => <<d, ftLeaf[d].to>> \in ftNamed
  /\ \A d \in DOMAIN ftLeaf : UnderRoot(d) => d \in ftRooted
  /\ OpenAlone(ftCall, ftFiles) \subseteq ftLone

RootedName(f) == \E d \in ftRooted : <<d, f>> \in ftNamed
EmptiesFiles == \E d \in DOMAIN ftCall : ftCall[d].tool = "write" /\ FtLength[d] = 0

\* What a call's thread may rely on at each of its places.
ThreadKnows(c) ==
  /\ ftCall[c].thread = "open" => ftCall[c].path \in FtPaths
  /\ ftCall[c].thread = "openat" => ftCall[c].dir \in DOMAIN ftLeaf /\ ftCall[c].tool = "write"
  /\ ftCall[c].thread = "verify_file" =>
       /\ ftCall[c].dir \in DOMAIN ftLeaf /\ <<ftCall[c].dir, ftCall[c].file>> \in ftNamed
       /\ ftCall[c].file \in DOMAIN ftFiles /\ ftCall[c].tool \in {"read", "write"}
  /\ ftCall[c].thread \in {"check", "read", "write", "truncate"} =>
       ftCall[c].file \in DOMAIN ftFiles /\ RootedName(ftCall[c].file)
  /\ ftCall[c].thread = "check" => ftCall[c].tool = "write"
  /\ ftCall[c].thread = "read" => ftCall[c].tool = "read"
  /\ ftCall[c].thread \in {"write", "truncate"} => ftCall[c].pos # FtNone
  /\ ftCall[c].pos # FtNone =>
       /\ ftCall[c].thread \in {"write", "truncate", "done"} /\ ftCall[c].tool = "write"
       /\ ftCall[c].file \in DOMAIN ftFiles /\ RootedName(ftCall[c].file) /\ <<c, ftCall[c].file>> \in ftLone
       /\ ftCall[c].pos \in 0 .. FtLength[c]
  /\ ftCall[c].thread = "truncate" => ftCall[c].pos = FtLength[c]
  /\ ftCall[c].result = "text" =>
       /\ ftCall[c].thread = "done" /\ RootedName(ftCall[c].file)
       /\ ftCall[c].got = {<<>>} => ftCall[c].file \in DOMAIN ftCall \/ EmptiesFiles
  /\ ftCall[c].result = "written" => ftCall[c].thread = "done" /\ ftCall[c].pos # FtNone /\ ftCall[c].pos = FtLength[c]

\* A byte is of a writer that has come to write to the file, and what had text has some.
TextsKnow ==
  \A f \in DOMAIN ftFiles :
    /\ \A c \in DOMAIN ftCall : c \in BytesOf(f) => ftCall[c].pos # FtNone /\ ftCall[c].file = f
    /\ f \notin DOMAIN ftCall /\ ~EmptiesFiles => ftFiles[f].text # <<>>

\* Up to where a writer is, a file no other writes is its own.
BeginsWith(c, text, pos) == Len(text) >= pos /\ \A i \in DOMAIN text : text[i] = c <=> i <= pos

SoleKnows(c) ==
  SoleWriter(c) =>
    /\ BeginsWith(c, ftFiles[ftCall[c].file].text, ftCall[c].pos)
    /\ ftCall[c].result = "written" => Len(ftFiles[ftCall[c].file].text) = FtLength[c]

FileInv ==
  /\ TreeShape /\ HistorySees /\ TextsKnow
  /\ \A c \in DOMAIN ftCall : ThreadKnows(c) /\ SoleKnows(c)

\* Nothing a thread relies on is undone.
Onward ==
  /\ ftNamed \subseteq ftNamed' /\ ftRooted \subseteq ftRooted' /\ ftLone \subseteq ftLone'
  /\ DOMAIN ftCall' = DOMAIN ftCall /\ DOMAIN ftLeaf \subseteq DOMAIN ftLeaf'
  /\ DOMAIN ftFiles \subseteq DOMAIN ftFiles' /\ (EmptiesFiles' <=> EmptiesFiles)

LEMMA OthersKnow ==
  ASSUME Onward, NEW d \in DOMAIN ftCall, ThreadKnows(d), ftCall'[d] = ftCall[d]
  PROVE  ThreadKnows(d)'
<1>1. \A f : RootedName(f) => RootedName(f)'
  BY DEF Onward, RootedName
<1> QED
  BY <1>1 DEF Onward, ThreadKnows

\* c's thread changes some of what is known of its call.
Changes(c) ==
  /\ DOMAIN ftCall' = DOMAIN ftCall /\ DOMAIN ftCall'[c] = FileFields
  /\ ftCall'[c].tool = ftCall[c].tool
  /\ \A d \in DOMAIN ftCall : d # c => ftCall'[d] = ftCall[d]

LEMMA StepIs ==
  ASSUME TreeShape, NEW c \in DOMAIN ftCall, NEW change, DOMAIN change \subseteq FileFields \ {"tool"},
         Step(c, change)
  PROVE  /\ Changes(c)
         /\ \A x \in FileFields : ftCall'[c][x] = IF x \in DOMAIN change THEN change[x] ELSE ftCall[c][x]
<1>1. /\ ftCall'[c] = Changed(ftCall[c], change) /\ DOMAIN ftCall' = DOMAIN ftCall
      /\ \A d \in DOMAIN ftCall : d # c => ftCall'[d] = ftCall[d]
  BY DEF Step
<1>2. DOMAIN ftCall[c] = FileFields
  BY DEF TreeShape
<1>3. \A x \in FileFields : ftCall'[c][x] = IF x \in DOMAIN change THEN change[x] ELSE ftCall[c][x]
  BY <1>1, <1>2 DEF Changed
<1>4. "tool" \in FileFields /\ "tool" \notin DOMAIN change
  BY DEF FileFields
<1>5. ftCall'[c]["tool"] = ftCall[c]["tool"]
  BY <1>3, <1>4
<1> QED
  BY <1>1, <1>2, <1>3, <1>5 DEF Changes, Changed

\* Who writes what is not changed by it.
LEMMA EmptiesSame ==
  ASSUME NEW c \in DOMAIN ftCall, Changes(c)
  PROVE  EmptiesFiles' <=> EmptiesFiles
BY DEF Changes, EmptiesFiles

\* Where no text changes, what is known of the texts stays.
LEMMA TextsStay ==
  ASSUME FileInv, DOMAIN ftCall' = DOMAIN ftCall, DOMAIN ftFiles \subseteq DOMAIN ftFiles',
         EmptiesFiles' <=> EmptiesFiles,
         \A f \in DOMAIN ftFiles : ftFiles'[f].text = ftFiles[f].text,
         \A f \in DOMAIN ftFiles' : f \notin DOMAIN ftFiles => f \in DOMAIN ftCall /\ ftFiles'[f].text = <<>>,
         \A d \in DOMAIN ftCall : /\ ftCall'[d].pos = ftCall[d].pos
                                  /\ ftCall[d].pos # FtNone => ftCall'[d].file = ftCall[d].file
                                  /\ ftCall'[d].result = "written" => ftCall[d].result = "written"
  PROVE  TextsKnow' /\ \A d \in DOMAIN ftCall : SoleKnows(d)'
<1>1. TextsKnow
  BY DEF FileInv
<1>2. ASSUME NEW f \in DOMAIN ftFiles'
      PROVE  /\ \A c \in DOMAIN ftCall' : c \in BytesOf(f)' => ftCall'[c].pos # FtNone /\ ftCall'[c].file = f
             /\ f \notin DOMAIN ftCall' /\ ~EmptiesFiles' => ftFiles'[f].text # <<>>
  <2>1. CASE f \in DOMAIN ftFiles
    <3>1. BytesOf(f)' = BytesOf(f)
      BY <2>1 DEF BytesOf
    <3> QED
      BY <1>1, <2>1, <3>1 DEF TextsKnow
  <2>2. CASE f \notin DOMAIN ftFiles
    <3>1. BytesOf(f)' = {}
      BY <2>2 DEF BytesOf
    <3> QED
      BY <2>2, <3>1
  <2> QED
    BY <2>1, <2>2
<1>3. TextsKnow'
  BY <1>2 DEF TextsKnow
<1>4. ASSUME NEW d \in DOMAIN ftCall PROVE SoleKnows(d)'
  <2> SUFFICES ASSUME SoleWriter(d)'
               PROVE  /\ BeginsWith(d, ftFiles'[ftCall'[d].file].text, ftCall'[d].pos)
                      /\ ftCall'[d].result = "written" => Len(ftFiles'[ftCall'[d].file].text) = FtLength[d]
    BY DEF SoleKnows, BeginsWith
  <2>1. ftCall[d].pos # FtNone
    BY DEF SoleWriter
  <2>2. SoleWriter(d)
    BY <2>1 DEF SoleWriter
  <2>3. SoleKnows(d) /\ ftCall[d].file \in DOMAIN ftFiles
    BY <2>1 DEF FileInv, ThreadKnows
  <2> QED
    BY <2>1, <2>2, <2>3 DEF SoleKnows
<1> QED
  BY <1>3, <1>4

LEMMA LookKeeps ==
  ASSUME FileInv, NEW c \in DOMAIN ftCall, Changes(c), UNCHANGED ftTree, ThreadKnows(c)',
         ftCall'[c].pos = ftCall[c].pos, ftCall'[c].result = "written" => ftCall[c].result = "written",
         ftCall'[c].file = ftCall[c].file \/ (ftCall[c].tool # "write" /\ ftCall[c].pos = FtNone)
  PROVE  FileInv'
<1>0. /\ TreeShape /\ HistorySees /\ UNCHANGED <<ftAt, ftLeaf, ftFiles, ftNamed, ftRooted, ftLone>>
      /\ EmptiesFiles' <=> EmptiesFiles
  BY EmptiesSame DEF FileInv, ftTree
<1>1. TreeShape'
  BY <1>0 DEF TreeShape, Changes, Letters, LeadsOn
<1>2. HistorySees'
  <2>1. OpenAlone(ftCall', ftFiles') \subseteq ftLone'
    BY <1>0 DEF HistorySees, OpenAlone, Changes
  <2> QED
    BY <1>0, <2>1 DEF HistorySees, UnderRoot, OpenAlone
<1>3. TextsKnow' /\ \A d \in DOMAIN ftCall : SoleKnows(d)'
  BY <1>0, TextsStay DEF Changes
<1>4. \A d \in DOMAIN ftCall : d # c => ThreadKnows(d)'
  BY <1>0, OthersKnow DEF FileInv, Onward, Changes
<1> QED
  BY <1>1, <1>2, <1>3, <1>4 DEF FileInv, Changes

\* A thread stops with nothing to show.
Stops(c) ==
  /\ Changes(c) /\ ftCall'[c].thread = "done" /\ ftCall'[c].result \notin {"text", "written"}
  /\ ftCall'[c].pos = ftCall[c].pos /\ ftCall'[c].file = ftCall[c].file

LEMMA FileStopKeeps ==
  ASSUME FileInv, NEW c \in DOMAIN ftCall, Stops(c), UNCHANGED ftTree
  PROVE  FileInv'
<1>1. ThreadKnows(c)'
  <2>1. ThreadKnows(c) /\ UNCHANGED <<ftLeaf, ftFiles, ftNamed, ftRooted, ftLone>>
    BY DEF FileInv, ftTree
  <2>2. \A f : RootedName(f)' <=> RootedName(f)
    BY <2>1 DEF RootedName
  <2> QED
    BY <2>1, <2>2 DEF Stops, Changes, ThreadKnows
<1> QED
  BY <1>1, LookKeeps DEF Stops

\* A thread goes on to a place at which it knows no more than where it began.
Places == {"planned", "resolve", "open", "verify_dir", "blocked", "scan"}

LEMMA WalkKeeps ==
  ASSUME FileInv, NEW c \in DOMAIN ftCall, Changes(c), UNCHANGED ftTree,
         ftCall[c].thread \in Places \cup {"unasked"}, ftCall'[c].thread \in Places,
         ftCall'[c].thread = "open" => ftCall'[c].path \in FtPaths,
         ftCall'[c].result = ftCall[c].result, ftCall'[c].pos = ftCall[c].pos,
         ftCall'[c].file = ftCall[c].file
  PROVE  FileInv'
<1>1. ThreadKnows(c) /\ ftCall[c].result \notin {"text", "written"} /\ ftCall[c].pos = FtNone
  BY DEF FileInv, ThreadKnows, Places
<1>2. ThreadKnows(c)'
  BY <1>1 DEF ThreadKnows, Places
<1> QED
  BY <1>2, LookKeeps

LEMMA PlannedKeeps ==
  ASSUME FileInv, NEW c \in DOMAIN ftCall, planned_resources(c)
  PROVE  FileInv'
<1>0. TreeShape /\ ThreadKnows(c) /\ ftCall[c].thread = "unasked" /\ UNCHANGED ftTree
  BY DEF FileInv, planned_resources
<1>1. CASE Step(c, [thread |-> "planned"])
  <2>1. /\ Changes(c) /\ ftCall'[c].thread = "planned" /\ ftCall'[c].result = ftCall[c].result
        /\ ftCall'[c].pos = ftCall[c].pos /\ ftCall'[c].file = ftCall[c].file
    BY <1>0, <1>1, StepIs DEF FileFields
  <2> QED
    BY <1>0, <2>1, WalkKeeps DEF Places
<1>2. CASE Step(c, [thread |-> "done", answer |-> "refused"])
  <2>1. /\ Changes(c) /\ ftCall'[c].thread = "done" /\ ftCall'[c].result = ftCall[c].result
        /\ ftCall'[c].pos = ftCall[c].pos /\ ftCall'[c].file = ftCall[c].file
    BY <1>0, <1>2, StepIs DEF FileFields
  <2> QED
    BY <1>0, <2>1, FileStopKeeps DEF ThreadKnows, Stops
<1> QED
  BY <1>1, <1>2 DEF planned_resources

LEMMA FileInvokeKeeps ==
  ASSUME FileInv, NEW c \in DOMAIN ftCall, invoke(c)
  PROVE  FileInv'
<1>0. TreeShape /\ ThreadKnows(c) /\ ftCall[c].thread = "planned" /\ UNCHANGED ftTree
  BY DEF FileInv, invoke
<1>1. CASE Step(c, [thread |-> "done", answer |-> "gave_up"])
  <2>1. /\ Changes(c) /\ ftCall'[c].thread = "done" /\ ftCall'[c].result = ftCall[c].result
        /\ ftCall'[c].pos = ftCall[c].pos /\ ftCall'[c].file = ftCall[c].file
    BY <1>0, <1>1, StepIs DEF FileFields
  <2> QED
    BY <1>0, <2>1, FileStopKeeps DEF ThreadKnows, Stops
<1>2. ASSUME NEW answer, Step(c, [thread |-> "resolve", answer |-> answer])
      PROVE  FileInv'
  <2>1. /\ Changes(c) /\ ftCall'[c].thread = "resolve" /\ ftCall'[c].result = ftCall[c].result
        /\ ftCall'[c].pos = ftCall[c].pos /\ ftCall'[c].file = ftCall[c].file
    BY <1>0, <1>2, StepIs DEF FileFields
  <2> QED
    BY <1>0, <2>1, WalkKeeps DEF Places
<1> QED
  BY <1>1, <1>2 DEF invoke

\* The caller stops waiting, or takes what its thread has done.
LEMMA FileAnswerKeeps ==
  ASSUME FileInv, NEW c \in DOMAIN ftCall, give_up(c) \/ join(c)
  PROVE  FileInv'
<1>0. TreeShape /\ ThreadKnows(c) /\ UNCHANGED ftTree
  BY DEF FileInv, give_up, join
<1>1. PICK answer : Step(c, [answer |-> answer])
  BY DEF give_up, join
<1>2. /\ Changes(c) /\ \A x \in FileFields : x # "answer" => ftCall'[c][x] = ftCall[c][x]
  BY <1>0, <1>1, StepIs DEF FileFields
<1>3. /\ ftCall'[c].thread = ftCall[c].thread /\ ftCall'[c].result = ftCall[c].result /\ ftCall'[c].file = ftCall[c].file
      /\ ftCall'[c].dir = ftCall[c].dir /\ ftCall'[c].got = ftCall[c].got /\ ftCall'[c].pos = ftCall[c].pos
      /\ ftCall'[c].tool = ftCall[c].tool /\ ftCall'[c].path = ftCall[c].path
  BY <1>2 DEF FileFields
<1>4. ThreadKnows(c)'
  <2>1. UNCHANGED <<ftLeaf, ftFiles, ftNamed, ftRooted, ftLone>> /\ DOMAIN ftCall' = DOMAIN ftCall
    BY <1>0, <1>2 DEF ftTree, Changes
  <2>2. \A f : RootedName(f)' <=> RootedName(f)
    BY <2>1 DEF RootedName
  <2>3. EmptiesFiles' <=> EmptiesFiles
    BY <1>2, EmptiesSame
  <2> QED
    BY <1>0, <1>3, <2>1, <2>2, <2>3 DEF ThreadKnows
<1> QED
  BY <1>0, <1>2, <1>3, <1>4, LookKeeps

\* Every refusal, and every failure.
LEMMA FailsKeeps ==
  ASSUME FileInv, NEW c \in DOMAIN ftCall, NEW result, result \notin {"text", "written"},
         Step(c, [thread |-> "done", result |-> result]), UNCHANGED ftTree
  PROVE  FileInv'
<1>1. TreeShape
  BY DEF FileInv
<1>2. /\ Changes(c) /\ ftCall'[c].thread = "done" /\ ftCall'[c].result = result
      /\ ftCall'[c].pos = ftCall[c].pos /\ ftCall'[c].file = ftCall[c].file
  BY <1>1, StepIs DEF FileFields
<1> QED
  BY <1>2, FileStopKeeps DEF Stops

LEMMA ListedKeeps ==
  ASSUME FileInv, NEW c \in DOMAIN ftCall, NEW got,
         Step(c, [thread |-> "done", result |-> "listed", got |-> got]), UNCHANGED ftTree
  PROVE  FileInv'
<1>1. TreeShape
  BY DEF FileInv
<1>2. /\ Changes(c) /\ ftCall'[c].thread = "done" /\ ftCall'[c].result = "listed"
      /\ ftCall'[c].pos = ftCall[c].pos /\ ftCall'[c].file = ftCall[c].file
  BY <1>1, StepIs DEF FileFields
<1> QED
  BY <1>2, FileStopKeeps DEF Stops

\* What a path resolves to lies under the root.
LEMMA ResolvedIsInside ==
  ASSUME NEW tool, resolve(tool) # FtNone
  PROVE  resolve(tool) \in FtInside
BY DEF resolve, confine

LEMMA ResolveAgainKeeps ==
  ASSUME FileConstants, FileInv, NEW c \in DOMAIN ftCall, resolve_again(c)
  PROVE  FileInv'
<1>0. TreeShape /\ ThreadKnows(c) /\ ftCall[c].thread = "resolve" /\ UNCHANGED ftTree
  BY DEF FileInv, resolve_again
<1>1. CASE Step(c, [thread |-> "done", result |-> "too_large"])
  BY <1>0, <1>1, FailsKeeps
<1>2. ASSUME NEW got, Step(c, [thread |-> "done", result |-> "listed", got |-> got]) PROVE FileInv'
  BY <1>0, <1>2, ListedKeeps
<1>3. CASE Fails(c)
  BY <1>0, <1>3, FailsKeeps DEF Fails
<1>4. ASSUME NEW path \in FtPaths, Step(c, [thread |-> "open", path |-> path]) PROVE FileInv'
  <2>1. /\ Changes(c) /\ ftCall'[c].thread = "open" /\ ftCall'[c].result = ftCall[c].result
        /\ ftCall'[c].pos = ftCall[c].pos /\ ftCall'[c].file = ftCall[c].file /\ ftCall'[c].path = path
    BY <1>0, <1>4, StepIs DEF FileFields
  <2> QED
    BY <1>0, <2>1, WalkKeeps DEF Places
<1>5. resolve(ftCall[c].tool) # FtNone => resolve(ftCall[c].tool) \in FtPaths
  BY ResolvedIsInside DEF FileConstants
<1> QED
  BY <1>1, <1>2, <1>3, <1>4, <1>5 DEF resolve_again

\* A directory that is under the root, or that a path leads to, is in the tree.
LEMMA DirectoriesAre ==
  ASSUME FileConstants, TreeShape
  PROVE  /\ \A d : UnderRoot(d) => d \in DOMAIN ftLeaf
         /\ \A p \in FtPaths : Followed(p) # FtNone => Followed(p) \in DOMAIN ftLeaf
<1>1. ASSUME NEW d, UnderRoot(d) PROVE d \in DOMAIN ftLeaf
  <2>1. PICK p \in FtInside : ftAt[p] = [kind |-> "dir", to |-> d]
    BY <1>1 DEF UnderRoot
  <2>2. p \in FtPaths /\ ftAt[p].kind = "dir" /\ ftAt[p].to = d
    BY <2>1 DEF FileConstants
  <2> QED
    BY <2>2 DEF TreeShape, LeadsOn
<1>2. ASSUME NEW p \in FtPaths, Followed(p) # FtNone PROVE Followed(p) \in DOMAIN ftLeaf
  <2>1. Canonical(p) # FtNone /\ Followed(p) = ftAt[Canonical(p)].to
    BY <1>2 DEF Followed
  <2>2. ftAt[p].kind \in {"dir", "link", "none"}
    BY DEF TreeShape, LeadsOn
  <2>3. Canonical(p) \in FtPaths /\ ftAt[Canonical(p)].kind = "dir"
    BY <2>1, <2>2 DEF Canonical, TreeShape, LeadsOn
  <2> QED
    BY <2>1, <2>3 DEF TreeShape, LeadsOn
<1> QED
  BY <1>1, <1>2

LEMMA OpenPathKeeps ==
  ASSUME FileConstants, FileInv, NEW c \in DOMAIN ftCall, open_path(c)
  PROVE  FileInv'
<1>0. TreeShape /\ HistorySees /\ ThreadKnows(c) /\ ftCall[c].thread = "open" /\ UNCHANGED ftTree
  BY DEF FileInv, open_path
<1>1. CASE Fails(c)
  BY <1>0, <1>1, FailsKeeps DEF Fails
<1>2. ASSUME NEW dir, Step(c, [thread |-> "verify_dir", dir |-> dir]) PROVE FileInv'
  <2>1. /\ Changes(c) /\ ftCall'[c].thread = "verify_dir" /\ ftCall'[c].result = ftCall[c].result
        /\ ftCall'[c].pos = ftCall[c].pos /\ ftCall'[c].file = ftCall[c].file
    BY <1>0, <1>2, StepIs DEF FileFields
  <2> QED
    BY <1>0, <2>1, WalkKeeps DEF Places
<1>3. ASSUME NEW d \in DOMAIN ftLeaf, ftLeaf[d].kind = "file", ftCall[c].tool = "read",
             Step(c, [thread |-> "verify_file", dir |-> d, file |-> ftLeaf[d].to])
      PROVE  FileInv'
  <2>1. /\ Changes(c) /\ ftCall'[c].thread = "verify_file" /\ ftCall'[c].result = ftCall[c].result
        /\ ftCall'[c].pos = ftCall[c].pos /\ ftCall'[c].dir = d /\ ftCall'[c].file = ftLeaf[d].to
    BY <1>0, <1>3, StepIs DEF FileFields
  <2>2. ftCall[c].pos = FtNone /\ ftCall[c].result \notin {"text", "written"}
    BY <1>0 DEF ThreadKnows
  <2>3. UNCHANGED <<ftLeaf, ftFiles, ftNamed>> /\ <<d, ftLeaf[d].to>> \in ftNamed /\ ftLeaf[d].to \in DOMAIN ftFiles
    BY <1>0, <1>3 DEF ftTree, HistorySees, TreeShape
  <2>4. ThreadKnows(c)'
    BY <1>3, <2>1, <2>2, <2>3 DEF ThreadKnows, Changes
  <2> QED
    BY <1>0, <1>3, <2>1, <2>2, <2>4, LookKeeps
<1>4. CASE Step(c, [thread |-> "blocked"])
  <2>1. /\ Changes(c) /\ ftCall'[c].thread = "blocked" /\ ftCall'[c].result = ftCall[c].result
        /\ ftCall'[c].pos = ftCall[c].pos /\ ftCall'[c].file = ftCall[c].file
    BY <1>0, <1>4, StepIs DEF FileFields
  <2> QED
    BY <1>0, <2>1, WalkKeeps DEF Places
<1>5. CASE ftCall[c].tool # "read"
  BY <1>1, <1>2, <1>5 DEF open_path
<1>6. CASE ftCall[c].tool = "read"
  <2> DEFINE d == Followed(ftCall[c].path)
  <2>1. \/ Fails(c) \/ Step(c, [thread |-> "blocked"])
        \/ /\ d # FtNone /\ ftLeaf[d].kind = "file"
           /\ Step(c, [thread |-> "verify_file", dir |-> d, file |-> ftLeaf[d].to])
    BY <1>6 DEF open_path
  <2>2. d # FtNone => d \in DOMAIN ftLeaf
    BY <1>0, DirectoriesAre DEF ThreadKnows
  <2> HIDE DEF d
  <2> QED
    BY <1>1, <1>3, <1>4, <1>6, <2>1, <2>2
<1> QED
  BY <1>5, <1>6

LEMMA VerifyDirectoryKeeps ==
  ASSUME FileConstants, FileInv, NEW c \in DOMAIN ftCall, verify_directory(c)
  PROVE  FileInv'
<1>0. TreeShape /\ ThreadKnows(c) /\ ftCall[c].thread = "verify_dir" /\ UNCHANGED ftTree
  BY DEF FileInv, verify_directory
<1>1. CASE Fails(c)
  BY <1>0, <1>1, FailsKeeps DEF Fails
<1>2. CASE ftCall[c].tool = "write" /\ UnderRoot(ftCall[c].dir) /\ Step(c, [thread |-> "openat"])
  <2>1. /\ Changes(c) /\ ftCall'[c].thread = "openat" /\ ftCall'[c].result = ftCall[c].result
        /\ ftCall'[c].pos = ftCall[c].pos /\ ftCall'[c].file = ftCall[c].file /\ ftCall'[c].dir = ftCall[c].dir
    BY <1>0, <1>2, StepIs DEF FileFields
  <2>2. ftCall[c].pos = FtNone /\ ftCall[c].result \notin {"text", "written"}
    BY <1>0 DEF ThreadKnows
  <2>3. ftCall[c].dir \in DOMAIN ftLeaf /\ ftLeaf' = ftLeaf
    BY <1>0, <1>2, DirectoriesAre DEF ftTree
  <2>4. ThreadKnows(c)'
    BY <1>2, <2>1, <2>2, <2>3 DEF ThreadKnows, Changes
  <2> QED
    BY <1>0, <2>1, <2>4, LookKeeps
<1>3. CASE Step(c, [thread |-> "scan"])
  <2>1. /\ Changes(c) /\ ftCall'[c].thread = "scan" /\ ftCall'[c].result = ftCall[c].result
        /\ ftCall'[c].pos = ftCall[c].pos /\ ftCall'[c].file = ftCall[c].file
    BY <1>0, <1>3, StepIs DEF FileFields
  <2> QED
    BY <1>0, <2>1, WalkKeeps DEF Places
<1> QED
  BY <1>1, <1>2, <1>3 DEF verify_directory

LEMMA ScanKeeps ==
  ASSUME FileInv, NEW c \in DOMAIN ftCall, scan(c)
  PROVE  FileInv'
<1>1. PICK got : Step(c, [thread |-> "done", result |-> "listed", got |-> got])
  BY DEF scan
<1> QED
  BY <1>1, ListedKeeps DEF scan

\* A writer opens a file, which it may have to create.
LEMMA OpenedKeeps ==
  ASSUME FileInv, NEW c \in DOMAIN ftCall, Changes(c), ThreadKnows(c)', ftCall[c].pos = FtNone,
         ftCall'[c].pos = FtNone, ftCall'[c].result # "written", DOMAIN ftLeaf' = DOMAIN ftLeaf,
         UNCHANGED <<ftAt, ftRooted>>, ftNamed \subseteq ftNamed',
         ftLone' = ftLone \cup OpenAlone(ftCall', ftFiles'),
         DOMAIN ftFiles \subseteq DOMAIN ftFiles', FtNone \notin DOMAIN ftFiles',
         \A f \in DOMAIN ftFiles : ftFiles'[f] = ftFiles[f],
         \A f \in DOMAIN ftFiles' : f \notin DOMAIN ftFiles =>
           f \in DOMAIN ftCall /\ ftFiles'[f] = [text |-> <<>>, links |-> 1],
         \A d \in DOMAIN ftLeaf : ftLeaf'[d].kind = "file" =>
           ftLeaf'[d].to \in DOMAIN ftFiles' /\ <<d, ftLeaf'[d].to>> \in ftNamed'
  PROVE  FileInv'
<1>0. TreeShape /\ HistorySees /\ (EmptiesFiles' <=> EmptiesFiles)
  BY EmptiesSame DEF FileInv
<1>1. TreeShape'
  <2>1. ASSUME NEW f \in DOMAIN ftFiles'
        PROVE  /\ DOMAIN ftFiles'[f] = {"text", "links"}
               /\ ftFiles'[f].text \in Seq(Letters) /\ ftFiles'[f].links \in Int
    <3>1. CASE f \in DOMAIN ftFiles
      BY <1>0, <3>1 DEF TreeShape
    <3>2. CASE f \notin DOMAIN ftFiles
      <4>1. ftFiles'[f] = [text |-> <<>>, links |-> 1]
        BY <3>2
      <4> QED
        BY <4>1
    <3> QED
      BY <3>1, <3>2
  <2>2. \A d \in DOMAIN ftCall : /\ DOMAIN ftCall'[d] = FileFields /\ d \notin {"o", "nul", FtNone}
                                 /\ ftCall'[d].tool = "write" => FtLength[d] \in Nat
    BY <1>0 DEF TreeShape, Changes
  <2>3. \A p \in FtPaths : LeadsOn(ftAt[p])'
    BY <1>0 DEF TreeShape, LeadsOn
  <2>4. Letters' = Letters /\ DOMAIN ftAt' = FtPaths
    BY <1>0 DEF Letters, Changes, TreeShape
  <2> QED
    BY <2>1, <2>2, <2>3, <2>4 DEF TreeShape, Changes
<1>2. HistorySees'
  <2>1. OpenAlone(ftCall, ftFiles)' \subseteq ftLone'
    BY DEF OpenAlone
  <2> QED
    BY <1>0, <2>1 DEF HistorySees, UnderRoot
<1>3. TextsKnow' /\ \A d \in DOMAIN ftCall : SoleKnows(d)'
  <2>1. \A f \in DOMAIN ftFiles : ftFiles'[f].text = ftFiles[f].text
    OBVIOUS
  <2>2. \A f \in DOMAIN ftFiles' : f \notin DOMAIN ftFiles => f \in DOMAIN ftCall /\ ftFiles'[f].text = <<>>
    OBVIOUS
  <2>3. \A d \in DOMAIN ftCall : /\ ftCall'[d].pos = ftCall[d].pos
                                 /\ ftCall[d].pos # FtNone => ftCall'[d].file = ftCall[d].file
                                 /\ ftCall'[d].result = "written" => ftCall[d].result = "written"
    BY DEF Changes
  <2> QED
    BY <1>0, <2>1, <2>2, <2>3, TextsStay DEF Changes
<1>4. \A d \in DOMAIN ftCall : d # c => ThreadKnows(d)'
  BY <1>0, OthersKnow DEF FileInv, Onward, Changes
<1> QED
  BY <1>1, <1>2, <1>3, <1>4 DEF FileInv, Changes

LEMMA OpenAtKeeps ==
  ASSUME FileConstants, FileInv, NEW c \in DOMAIN ftCall, open_at(c)
  PROVE  FileInv'
<1> DEFINE d == ftCall[c].dir
<1>0. /\ TreeShape /\ HistorySees /\ ThreadKnows(c) /\ ftCall[c].thread = "openat"
      /\ UNCHANGED <<ftAt, ftRooted>> /\ ftLone' = ftLone \cup OpenAlone(ftCall', ftFiles')
  BY DEF FileInv, open_at
<1>1. /\ d \in DOMAIN ftLeaf /\ ftCall[c].pos = FtNone /\ ftCall[c].result \notin {"text", "written"}
      /\ ftCall[c].tool = "write"
  BY <1>0 DEF ThreadKnows
<1>2. CASE ftLeaf[d].kind = "none"
  <2>1. /\ ftLeaf' = [ftLeaf EXCEPT ![d] = [kind |-> "file", to |-> c]]
        /\ ftFiles' = [f \in DOMAIN ftFiles \cup {c} |->
                        IF f \in DOMAIN ftFiles THEN ftFiles[f] ELSE [text |-> <<>>, links |-> 1]]
        /\ ftNamed' = ftNamed \cup {<<d, c>>}
        /\ Step(c, [thread |-> "verify_file", file |-> c])
    BY <1>2 DEF open_at
  <2>2. /\ Changes(c) /\ ftCall'[c].thread = "verify_file" /\ ftCall'[c].result = ftCall[c].result
        /\ ftCall'[c].pos = ftCall[c].pos /\ ftCall'[c].file = c /\ ftCall'[c].dir = ftCall[c].dir
    BY <1>0, <2>1, StepIs DEF FileFields
  <2> HIDE DEF d
  <2>3. /\ DOMAIN ftLeaf' = DOMAIN ftLeaf /\ DOMAIN ftFiles' = DOMAIN ftFiles \cup {c}
        /\ \A f \in DOMAIN ftFiles : ftFiles'[f] = ftFiles[f]
        /\ c \notin DOMAIN ftFiles => ftFiles'[c] = [text |-> <<>>, links |-> 1]
    BY <2>1
  <2>4. ThreadKnows(c)'
    BY <1>1, <2>1, <2>2, <2>3 DEF ThreadKnows, Changes, d
  <2>5. \A e \in DOMAIN ftLeaf : ftLeaf'[e].kind = "file" =>
          ftLeaf'[e].to \in DOMAIN ftFiles' /\ <<e, ftLeaf'[e].to>> \in ftNamed'
    <3>1. \A e \in DOMAIN ftLeaf : ftLeaf'[e] = IF e = d THEN [kind |-> "file", to |-> c] ELSE ftLeaf[e]
      BY <2>1
    <3> QED
      BY <1>0, <2>1, <2>3, <3>1 DEF TreeShape, HistorySees
  <2>6. FtNone \notin DOMAIN ftFiles'
    BY <1>0, <2>3 DEF TreeShape
  <2>7. \A f \in DOMAIN ftFiles' : f \notin DOMAIN ftFiles =>
          f \in DOMAIN ftCall /\ ftFiles'[f] = [text |-> <<>>, links |-> 1]
    BY <2>3
  <2>8. ftNamed \subseteq ftNamed'
    BY <2>1
  <2> QED
    BY <1>0, <1>1, <2>2, <2>3, <2>4, <2>5, <2>6, <2>7, <2>8, OpenedKeeps
<1>3. CASE ftLeaf[d].kind = "file"
  <2>1. UNCHANGED <<ftLeaf, ftFiles, ftNamed>> /\ Step(c, [thread |-> "verify_file", file |-> ftLeaf[d].to])
    BY <1>3 DEF open_at
  <2>2. /\ Changes(c) /\ ftCall'[c].thread = "verify_file" /\ ftCall'[c].result = ftCall[c].result
        /\ ftCall'[c].pos = ftCall[c].pos /\ ftCall'[c].file = ftLeaf[d].to /\ ftCall'[c].dir = ftCall[c].dir
    BY <1>0, <2>1, StepIs DEF FileFields
  <2>3. ThreadKnows(c)'
    BY <1>0, <1>1, <1>3, <2>1, <2>2 DEF ThreadKnows, Changes, HistorySees, TreeShape
  <2>4. FtNone \notin DOMAIN ftFiles /\ \A e \in DOMAIN ftLeaf : ftLeaf[e].kind = "file" =>
          ftLeaf[e].to \in DOMAIN ftFiles /\ <<e, ftLeaf[e].to>> \in ftNamed
    BY <1>0 DEF HistorySees, TreeShape
  <2> HIDE DEF d
  <2> QED
    BY <1>0, <1>1, <2>1, <2>2, <2>3, <2>4, OpenedKeeps
<1>4. CASE ftLeaf[d].kind \notin {"none", "file"}
  <2>1. UNCHANGED <<ftLeaf, ftFiles, ftNamed>> /\ Fails(c)
    BY <1>4 DEF open_at
  <2>2. /\ Changes(c) /\ ftCall'[c].thread = "done" /\ ftCall'[c].result = "refused"
        /\ ftCall'[c].pos = ftCall[c].pos
    BY <1>0, <2>1, StepIs DEF FileFields, Fails
  <2>3. ThreadKnows(c)'
    BY <1>1, <2>2 DEF ThreadKnows
  <2>4. FtNone \notin DOMAIN ftFiles /\ \A e \in DOMAIN ftLeaf : ftLeaf[e].kind = "file" =>
          ftLeaf[e].to \in DOMAIN ftFiles /\ <<e, ftLeaf[e].to>> \in ftNamed
    BY <1>0 DEF HistorySees, TreeShape
  <2> HIDE DEF d
  <2> QED
    BY <1>0, <1>1, <2>1, <2>2, <2>3, <2>4, OpenedKeeps
<1> QED
  BY <1>2, <1>3, <1>4

LEMMA VerifyFileKeeps ==
  ASSUME FileConstants, FileInv, NEW c \in DOMAIN ftCall, verify_file(c)
  PROVE  FileInv'
<1>0. TreeShape /\ HistorySees /\ ThreadKnows(c) /\ ftCall[c].thread = "verify_file" /\ UNCHANGED ftTree
  BY DEF FileInv, verify_file
<1>1. CASE Fails(c)
  BY <1>0, <1>1, FailsKeeps DEF Fails
<1>2. ASSUME NEW place, UnderRoot(ftCall[c].dir), Step(c, [thread |-> place]),
             \/ place = "check" /\ ftCall[c].tool = "write"
             \/ place = "read" /\ ftCall[c].tool # "write"
      PROVE  FileInv'
  <2>1. /\ Changes(c) /\ ftCall'[c].thread = place /\ ftCall'[c].result = ftCall[c].result
        /\ ftCall'[c].pos = ftCall[c].pos /\ ftCall'[c].file = ftCall[c].file
    BY <1>0, <1>2, StepIs DEF FileFields
  <2>2. ftCall[c].pos = FtNone /\ ftCall[c].result \notin {"text", "written"} /\ ftCall[c].tool \in {"read", "write"}
    BY <1>0 DEF ThreadKnows
  <2>3. ftCall[c].dir \in ftRooted /\ <<ftCall[c].dir, ftCall[c].file>> \in ftNamed /\ ftCall[c].file \in DOMAIN ftFiles
    BY <1>0, <1>2 DEF ThreadKnows, HistorySees
  <2>4. RootedName(ftCall[c].file) /\ UNCHANGED <<ftFiles, ftNamed, ftRooted>>
    BY <1>0, <2>3 DEF RootedName, ftTree
  <2>5. RootedName(ftCall[c].file)'
    BY <2>1, <2>3, <2>4 DEF RootedName
  <2>6. ThreadKnows(c)'
    BY <1>2, <2>1, <2>2, <2>3, <2>4, <2>5 DEF ThreadKnows, Changes
  <2> QED
    BY <1>0, <2>1, <2>2, <2>6, LookKeeps
<1> QED
  BY <1>1, <1>2 DEF verify_file

LEMMA ReadFileKeeps ==
  ASSUME FileInv, NEW c \in DOMAIN ftCall, read_file(c)
  PROVE  FileInv'
<1> DEFINE f == ftCall[c].file
           text == ftFiles[f].text
<1>0. TreeShape /\ TextsKnow /\ ThreadKnows(c) /\ ftCall[c].thread = "read" /\ UNCHANGED ftTree
  BY DEF FileInv, read_file
<1>1. CASE Step(c, [thread |-> "done", result |-> "too_large"])
  BY <1>0, <1>1, FailsKeeps
<1>2. CASE Step(c, [thread |-> "done", result |-> "text", got |-> {text}])
  <2>1. /\ Changes(c) /\ ftCall'[c].thread = "done" /\ ftCall'[c].result = "text"
        /\ ftCall'[c].pos = ftCall[c].pos /\ ftCall'[c].file = ftCall[c].file /\ ftCall'[c].got = {text}
    BY <1>0, <1>2, StepIs DEF FileFields
  <2>2. ftCall[c].pos = FtNone /\ f \in DOMAIN ftFiles /\ RootedName(f)
    BY <1>0 DEF ThreadKnows
  <2>3. text = <<>> => f \in DOMAIN ftCall \/ EmptiesFiles
    BY <1>0, <2>2 DEF TextsKnow
  <2>4. RootedName(f)' /\ (EmptiesFiles' <=> EmptiesFiles)
    BY <1>0, <2>1, <2>2, EmptiesSame DEF RootedName, ftTree
  <2>5. {text} = {<<>>} => text = <<>>
    OBVIOUS
  <2> HIDE DEF text, f
  <2>6. ThreadKnows(c)'
    <3>1. ftCall'[c].file = f
      BY <2>1 DEF f
    <3>2. RootedName(ftCall[c].file)'
      BY <2>4 DEF f
    <3> QED
      BY <2>1, <2>2, <2>3, <2>4, <2>5, <3>1, <3>2 DEF ThreadKnows, Changes
  <2> QED
    BY <1>0, <2>1, <2>6, LookKeeps
<1> QED
  BY <1>1, <1>2 DEF read_file

\* Sharing a file with another writer.
LEMMA CheckTargetKeeps ==
  ASSUME FileConstants, FileInv, NEW c \in DOMAIN ftCall, check_target(c)
  PROVE  FileInv'
<1> DEFINE f == ftCall[c].file
<1>0. /\ TreeShape /\ HistorySees /\ TextsKnow /\ ThreadKnows(c) /\ ftCall[c].thread = "check" /\ UNCHANGED ftTree
      /\ UNCHANGED <<ftAt, ftLeaf, ftFiles, ftNamed, ftRooted, ftLone>>
  BY DEF FileInv, check_target, ftTree
<1>1. CASE Fails(c)
  BY <1>0, <1>1, FailsKeeps DEF Fails
<1>2. CASE ~(ftFiles[f].links > 1) /\ Step(c, [thread |-> Place(c, 0), pos |-> 0])
  <2>1. /\ Changes(c) /\ ftCall'[c].thread = Place(c, 0) /\ ftCall'[c].result = ftCall[c].result
        /\ ftCall'[c].pos = 0 /\ ftCall'[c].file = ftCall[c].file
    BY <1>0, <1>2, StepIs DEF FileFields
  <2>2. /\ ftCall[c].pos = FtNone /\ ftCall[c].result \notin {"text", "written"} /\ ftCall[c].tool = "write"
        /\ f \in DOMAIN ftFiles /\ RootedName(f) /\ FtLength[c] \in Nat /\ 0 # FtNone
    BY <1>0 DEF ThreadKnows, TreeShape, FileConstants
  <2>3. <<c, f>> \in ftLone
    <3>1. ftFiles[f].links <= 1 /\ f # FtNone
      BY <1>0, <1>2, <2>2 DEF TreeShape
    <3> QED
      BY <1>0, <2>2, <3>1 DEF HistorySees, OpenAlone
  <2>4. ThreadKnows(c)'
    <3>1. RootedName(ftCall[c].file)'
      BY <1>0, <2>1, <2>2 DEF RootedName
    <3>2. Place(c, 0) \in {"write", "truncate"} /\ (Place(c, 0) = "truncate" => FtLength[c] = 0)
      BY DEF Place
    <3> QED
      BY <1>0, <2>1, <2>2, <2>3, <3>1, <3>2 DEF ThreadKnows, Changes
  <2>5. EmptiesFiles' <=> EmptiesFiles
    BY <2>1, EmptiesSame
  <2>6. TreeShape'
    BY <1>0, <2>1 DEF TreeShape, Changes, Letters, LeadsOn
  <2>7. HistorySees'
    <3>1. OpenAlone(ftCall, ftFiles)' \subseteq ftLone'
      BY <1>0, <2>1 DEF HistorySees, OpenAlone, Changes
    <3> QED
      BY <1>0, <3>1 DEF HistorySees, UnderRoot
  <2>8. TextsKnow'
    <3>1. \A g : BytesOf(g)' = BytesOf(g)
      BY <1>0 DEF BytesOf
    <3> QED
      BY <1>0, <2>1, <2>2, <2>5, <3>1 DEF TextsKnow, Changes
  <2>9. \A d \in DOMAIN ftCall : d # c => ThreadKnows(d)'
    BY <1>0, <2>1, <2>5, OthersKnow DEF FileInv, Onward, Changes
  <2>10. SoleKnows(c)'
    <3>1. \A i \in DOMAIN ftFiles[f].text : ftFiles[f].text[i] # c
      BY <1>0, <2>2 DEF TextsKnow, BytesOf
    <3>2. ftFiles[f].text \in Seq(Letters)
      BY <1>0, <2>2 DEF TreeShape
    <3>3. BeginsWith(c, ftFiles[f].text, 0)
      <4> DEFINE text == ftFiles[f].text
      <4>1. Len(text) \in Nat /\ DOMAIN text = 1 .. Len(text)
        BY <3>2
      <4> HIDE DEF text
      <4>2. Len(text) >= 0 /\ \A i \in DOMAIN text : ~(i <= 0)
        BY <4>1
      <4> QED
        BY <3>1, <4>2 DEF BeginsWith, text
    <3>4. BeginsWith(c, ftFiles[ftCall[c].file].text, ftCall[c].pos)'
      BY <1>0, <2>1, <3>3 DEF BeginsWith
    <3> QED
      BY <2>1, <2>2, <3>4 DEF SoleKnows
  <2>11. ASSUME NEW d \in DOMAIN ftCall, d # c PROVE SoleKnows(d)'
    <3> SUFFICES ASSUME SoleWriter(d)'
                 PROVE  /\ BeginsWith(d, ftFiles'[ftCall'[d].file].text, ftCall'[d].pos)
                        /\ ftCall'[d].result = "written" => Len(ftFiles'[ftCall'[d].file].text) = FtLength[d]
      BY DEF SoleKnows, BeginsWith
    <3>1. SoleWriter(d) /\ SoleKnows(d)
      BY <2>1, <2>2, <2>11 DEF SoleWriter, Changes, FileInv
    <3> QED
      BY <1>0, <2>1, <2>11, <3>1 DEF SoleKnows, Changes
  <2> QED
    BY <2>1, <2>4, <2>6, <2>7, <2>8, <2>9, <2>10, <2>11 DEF FileInv, Changes
<1> QED
  BY <1>1, <1>2 DEF check_target

\* A writer's file gets another text, of its bytes, zeros and what was there.
LEMMA RewrittenKeeps ==
  ASSUME FileInv, NEW c \in DOMAIN ftCall, Changes(c), ThreadKnows(c)', ftCall[c].pos # FtNone,
         ftCall'[c].pos # FtNone, ftCall'[c].file = ftCall[c].file, NEW new \in Seq(Letters),
         ftFiles' = [ftFiles EXCEPT ![ftCall[c].file].text = new],
         UNCHANGED <<ftAt, ftLeaf, ftNamed, ftRooted, ftLone>>,
         \A i \in DOMAIN new : new[i] \in {c, "nul"} \cup BytesOf(ftCall[c].file),
         new = <<>> => EmptiesFiles,
         SoleWriter(c) => /\ BeginsWith(c, new, ftCall'[c].pos)
                          /\ ftCall'[c].result = "written" => Len(new) = FtLength[c]
  PROVE  FileInv'
<1> DEFINE f == ftCall[c].file
<1>0. /\ TreeShape /\ HistorySees /\ TextsKnow /\ ThreadKnows(c) /\ (EmptiesFiles' <=> EmptiesFiles)
      /\ f \in DOMAIN ftFiles
  BY EmptiesSame DEF FileInv, ThreadKnows
<1>1. /\ DOMAIN ftFiles' = DOMAIN ftFiles
      /\ \A g \in DOMAIN ftFiles : g # f => ftFiles'[g] = ftFiles[g]
      /\ DOMAIN ftFiles[f] = {"text", "links"}
  BY <1>0 DEF TreeShape
<1>2. /\ ftFiles'[f].text = new /\ ftFiles'[f].links = ftFiles[f].links
      /\ DOMAIN ftFiles'[f] = {"text", "links"}
  BY <1>0, <1>1
<1>3. TreeShape'
  <2>1. \A g \in DOMAIN ftFiles' : /\ DOMAIN ftFiles'[g] = {"text", "links"}
                                   /\ ftFiles'[g].text \in Seq(Letters) /\ ftFiles'[g].links \in Int
    BY <1>0, <1>1, <1>2 DEF TreeShape
  <2>2. \A d \in DOMAIN ftCall : /\ DOMAIN ftCall'[d] = FileFields /\ d \notin {"o", "nul", FtNone}
                                 /\ ftCall'[d].tool = "write" => FtLength[d] \in Nat
    BY <1>0 DEF TreeShape, Changes
  <2>3. \A p \in FtPaths : LeadsOn(ftAt[p])'
    BY <1>0 DEF TreeShape, LeadsOn
  <2>4. Letters' = Letters /\ DOMAIN ftAt' = FtPaths
    BY <1>0 DEF Letters, Changes, TreeShape
  <2> QED
    BY <1>0, <1>1, <2>1, <2>2, <2>3, <2>4 DEF TreeShape, Changes
<1>4. HistorySees'
  <2>1. ASSUME NEW d \in DOMAIN ftCall', ftCall'[d].tool = "write", ftCall'[d].file # FtNone,
               ftFiles'[ftCall'[d].file].links <= 1
        PROVE  <<d, ftCall'[d].file>> \in ftLone
    <3>1. ftCall'[d].tool = ftCall[d].tool /\ ftCall'[d].file = ftCall[d].file /\ d \in DOMAIN ftCall
      BY <2>1 DEF Changes
    <3>2. CASE ftCall[d].file = f
      BY <1>0, <1>2, <2>1, <3>1, <3>2 DEF HistorySees, OpenAlone
    <3>3. CASE ftCall[d].file # f
      <4>1. ftFiles'[ftCall[d].file] = ftFiles[ftCall[d].file]
        BY <3>3
      <4> QED
        BY <1>0, <2>1, <3>1, <4>1 DEF HistorySees, OpenAlone
    <3> QED
      BY <3>2, <3>3
  <2>2. OpenAlone(ftCall, ftFiles)' \subseteq ftLone'
    BY <2>1 DEF OpenAlone
  <2> QED
    BY <1>0, <1>1, <2>2 DEF HistorySees, UnderRoot
<1>5. TextsKnow'
  <2>1. ASSUME NEW g \in DOMAIN ftFiles, NEW d \in DOMAIN ftCall, d \in BytesOf(g)'
        PROVE  ftCall'[d].pos # FtNone /\ ftCall'[d].file = g
    <3>1. CASE g = f
      <4>1. d \in {c, "nul"} \cup BytesOf(f)
        BY <1>2, <2>1, <3>1 DEF BytesOf
      <4>2. d # "nul"
        BY <1>0 DEF TreeShape
      <4> QED
        BY <1>0, <3>1, <4>1, <4>2 DEF TextsKnow, Changes
    <3>2. CASE g # f
      <4>1. d \in BytesOf(g)
        BY <1>1, <2>1, <3>2 DEF BytesOf
      <4> QED
        BY <1>0, <4>1 DEF TextsKnow, Changes
    <3> QED
      BY <3>1, <3>2
  <2>2. ASSUME NEW g \in DOMAIN ftFiles, g \notin DOMAIN ftCall, ~EmptiesFiles
        PROVE  ftFiles'[g].text # <<>>
    BY <1>0, <1>1, <1>2, <2>2 DEF TextsKnow
  <2> QED
    BY <1>0, <1>1, <2>1, <2>2 DEF TextsKnow, Changes
<1>6. \A d \in DOMAIN ftCall : d # c => ThreadKnows(d)'
  BY <1>0, <1>1, OthersKnow DEF FileInv, Onward, Changes
<1>7. SoleKnows(c)'
  <2> SUFFICES ASSUME SoleWriter(c)'
               PROVE  /\ BeginsWith(c, ftFiles'[ftCall'[c].file].text, ftCall'[c].pos)
                      /\ ftCall'[c].result = "written" => Len(ftFiles'[ftCall'[c].file].text) = FtLength[c]
    BY DEF SoleKnows, BeginsWith
  <2>1. SoleWriter(c)
    BY DEF SoleWriter, Changes
  <2> QED
    BY <1>2, <2>1
<1>8. ASSUME NEW d \in DOMAIN ftCall, d # c PROVE SoleKnows(d)'
  <2> SUFFICES ASSUME SoleWriter(d)'
               PROVE  /\ BeginsWith(d, ftFiles'[ftCall'[d].file].text, ftCall'[d].pos)
                      /\ ftCall'[d].result = "written" => Len(ftFiles'[ftCall'[d].file].text) = FtLength[d]
    BY DEF SoleKnows, BeginsWith
  <2>1. SoleWriter(d) /\ SoleKnows(d) /\ ftCall[d].file # f
    BY <1>8 DEF SoleWriter, Changes, FileInv
  <2>2. ftCall[d].file \in DOMAIN ftFiles /\ ftCall'[d] = ftCall[d]
    BY <1>8, <2>1 DEF FileInv, ThreadKnows, SoleWriter, Changes
  <2> QED
    BY <1>1, <2>1, <2>2 DEF SoleKnows
<1> QED
  BY <1>3, <1>4, <1>5, <1>6, <1>7, <1>8 DEF FileInv, Changes

\* write(2): the bytes are there, all else is as it was.
LEMMA WrittenIs ==
  ASSUME NEW c \in DOMAIN ftCall, c # "nul", NEW text \in Seq(Letters), NEW from \in Nat,
         NEW bytes \in Nat \ {0}, NEW new, new = Written(text, from, bytes, c)
  PROVE  /\ new \in Seq(Letters) /\ new # <<>>
         /\ \A i \in DOMAIN new : new[i] \in {c, "nul"} \cup {text[j] : j \in DOMAIN text}
         /\ BeginsWith(c, text, from) => BeginsWith(c, new, from + bytes)
<1> DEFINE n == IF Len(text) > from + bytes THEN Len(text) ELSE from + bytes
<1>1. /\ Len(text) \in Nat /\ DOMAIN text = 1 .. Len(text)
      /\ n \in Nat /\ n >= from + bytes /\ n >= Len(text) /\ n > 0
  OBVIOUS
<1>2. new = [i \in 1 .. n |-> IF i \in from + 1 .. from + bytes THEN c
                              ELSE IF i <= Len(text) THEN text[i] ELSE "nul"]
  BY Zenon DEF Written
<1>3. \A i \in 1 .. Len(text) : text[i] \in Letters
  OBVIOUS
<1>4. c \in Letters /\ "nul" \in Letters
  BY DEF Letters
<1> HIDE DEF n
<1>5. \A i \in 1 .. n : new[i] = IF i \in from + 1 .. from + bytes THEN c
                                 ELSE IF i <= Len(text) THEN text[i] ELSE "nul"
  BY <1>2
<1>6. new \in [1 .. n -> Letters]
  BY <1>1, <1>2, <1>3, <1>4
<1>7. new \in Seq(Letters) /\ Len(new) = n /\ DOMAIN new = 1 .. n
  BY <1>1, <1>6
<1>8. new # <<>>
  BY <1>1, <1>7
<1>9. \A i \in DOMAIN new : new[i] \in {c, "nul"} \cup {text[j] : j \in DOMAIN text}
  BY <1>1, <1>5, <1>7
<1>10. ASSUME BeginsWith(c, text, from) PROVE BeginsWith(c, new, from + bytes)
  <2>1. Len(text) >= from /\ \A i \in 1 .. Len(text) : text[i] = c <=> i <= from
    BY <1>1, <1>10 DEF BeginsWith
  <2>2. ASSUME NEW i \in 1 .. n PROVE new[i] = c <=> i <= from + bytes
    BY <1>1, <1>5, <2>1
  <2> QED
    BY <1>1, <1>7, <2>2 DEF BeginsWith
<1> QED
  BY <1>7, <1>8, <1>9, <1>10

\* ftruncate(2).
LEMMA SizedIs ==
  ASSUME NEW c \in DOMAIN ftCall, NEW text \in Seq(Letters), NEW length \in Nat,
         NEW new, new = Sized(text, length)
  PROVE  /\ new \in Seq(Letters) /\ Len(new) = length /\ (new = <<>> => length = 0)
         /\ \A i \in DOMAIN new : new[i] \in {c, "nul"} \cup {text[j] : j \in DOMAIN text}
         /\ BeginsWith(c, text, length) => BeginsWith(c, new, length)
<1>1. Len(text) \in Nat /\ DOMAIN text = 1 .. Len(text)
  OBVIOUS
<1>2. new = [i \in 1 .. length |-> IF i <= Len(text) THEN text[i] ELSE "nul"]
  BY Zenon DEF Sized
<1>3. \A i \in 1 .. Len(text) : text[i] \in Letters
  OBVIOUS
<1>4. "nul" \in Letters
  BY DEF Letters
<1>5. \A i \in 1 .. length : new[i] = IF i <= Len(text) THEN text[i] ELSE "nul"
  BY <1>2
<1>6. new \in [1 .. length -> Letters]
  BY <1>1, <1>2, <1>3, <1>4
<1>7. new \in Seq(Letters) /\ Len(new) = length /\ DOMAIN new = 1 .. length
  BY <1>6
<1>8. new = <<>> => length = 0
  BY <1>7
<1>9. \A i \in DOMAIN new : new[i] \in {c, "nul"} \cup {text[j] : j \in DOMAIN text}
  BY <1>1, <1>5, <1>7
<1>10. ASSUME BeginsWith(c, text, length) PROVE BeginsWith(c, new, length)
  <2>1. Len(text) >= length /\ \A i \in 1 .. Len(text) : text[i] = c <=> i <= length
    BY <1>1, <1>10 DEF BeginsWith
  <2>2. ASSUME NEW i \in 1 .. length PROVE new[i] = c <=> i <= length
    BY <1>1, <1>5, <2>1
  <2> QED
    BY <1>1, <1>7, <2>2 DEF BeginsWith
<1> QED
  BY <1>7, <1>8, <1>9, <1>10

\* What a writer knows of its file.
LEMMA WriterIs ==
  ASSUME FileInv, NEW c \in DOMAIN ftCall, ftCall[c].thread \in {"write", "truncate"}
  PROVE  /\ ftCall[c].pos # FtNone /\ ftCall[c].pos \in 0 .. FtLength[c] /\ FtLength[c] \in Nat
         /\ ftCall[c].pos \in Nat /\ ftCall[c].tool = "write" /\ c # "nul"
         /\ ftCall[c].file \in DOMAIN ftFiles /\ RootedName(ftCall[c].file) /\ <<c, ftCall[c].file>> \in ftLone
         /\ ftFiles[ftCall[c].file].text \in Seq(Letters)
         /\ ftCall[c].result \notin {"text", "written"}
         /\ SoleWriter(c) => BeginsWith(c, ftFiles[ftCall[c].file].text, ftCall[c].pos)
<1>1. TreeShape /\ ThreadKnows(c) /\ SoleKnows(c)
  BY DEF FileInv
<1>2. /\ ftCall[c].pos # FtNone /\ ftCall[c].pos \in 0 .. FtLength[c] /\ ftCall[c].tool = "write"
      /\ ftCall[c].file \in DOMAIN ftFiles /\ RootedName(ftCall[c].file) /\ <<c, ftCall[c].file>> \in ftLone
      /\ ftCall[c].result \notin {"text", "written"}
  BY <1>1 DEF ThreadKnows
<1>3. FtLength[c] \in Nat /\ c # "nul" /\ ftFiles[ftCall[c].file].text \in Seq(Letters)
  BY <1>1, <1>2 DEF TreeShape
<1>4. ftCall[c].pos \in Nat
  BY <1>2, <1>3
<1>5. SoleWriter(c) => BeginsWith(c, ftFiles[ftCall[c].file].text, ftCall[c].pos)
  BY <1>1 DEF SoleKnows
<1> QED
  BY <1>2, <1>3, <1>4, <1>5

LEMMA WriteFileKeeps ==
  ASSUME FileConstants, FileInv, NEW c \in DOMAIN ftCall, write_file(c)
  PROVE  FileInv'
<1> DEFINE f == ftCall[c].file
           pos == ftCall[c].pos
<1>0. TreeShape /\ ftCall[c].thread = "write" /\ UNCHANGED <<ftAt, ftLeaf, ftNamed, ftRooted, ftLone, ftMoves>>
  BY DEF FileInv, write_file
<1>1. /\ pos # FtNone /\ pos \in 0 .. FtLength[c] /\ FtLength[c] \in Nat
      /\ pos \in Nat /\ ftCall[c].tool = "write" /\ c # "nul"
      /\ f \in DOMAIN ftFiles /\ RootedName(f) /\ <<c, f>> \in ftLone
      /\ ftFiles[f].text \in Seq(Letters) /\ ftCall[c].result \notin {"text", "written"}
      /\ SoleWriter(c) => BeginsWith(c, ftFiles[f].text, pos)
  BY <1>0, WriterIs
<1>2. CASE IoError(c)
  <2>1. UNCHANGED ftTree /\ Step(c, [thread |-> "done", result |-> "failed"])
    BY <1>0, <1>2 DEF ftTree, IoError
  <2> QED
    BY <2>1, FailsKeeps
<1>3. ASSUME NEW bytes \in 1 .. FtLength[c] - pos,
             Rewrite(c, Written(ftFiles[f].text, pos, bytes, c)),
             Step(c, [thread |-> Place(c, pos + bytes), pos |-> pos + bytes])
      PROVE  FileInv'
  <2> DEFINE new == Written(ftFiles[f].text, pos, bytes, c)
             end == pos + bytes
  <2>1. bytes \in Nat \ {0} /\ end \in 0 .. FtLength[c] /\ end \in Nat /\ end # FtNone
    BY <1>1, <1>3 DEF FileConstants
  <2>2. /\ new \in Seq(Letters) /\ new # <<>>
        /\ \A i \in DOMAIN new : new[i] \in {c, "nul"} \cup BytesOf(f)
        /\ SoleWriter(c) => BeginsWith(c, new, end)
    <3> DEFINE text == ftFiles[f].text
    <3>1. new = Written(text, pos, bytes, c) /\ text \in Seq(Letters) /\ BytesOf(f) = {text[j] : j \in DOMAIN text}
      BY <1>1 DEF BytesOf
    <3>2. SoleWriter(c) => BeginsWith(c, text, pos)
      BY <1>1
    <3> HIDE DEF new, text, pos, f
    <3> QED
      BY <1>1, <2>1, <3>1, <3>2, WrittenIs
  <2>3. /\ Changes(c) /\ ftCall'[c].thread = Place(c, end) /\ ftCall'[c].result = ftCall[c].result
        /\ ftCall'[c].pos = end /\ ftCall'[c].file = ftCall[c].file
    BY <1>0, <1>3, StepIs DEF FileFields
  <2>4. ftFiles' = [ftFiles EXCEPT ![f].text = new] /\ DOMAIN ftFiles' = DOMAIN ftFiles
    BY <1>3 DEF Rewrite
  <2> HIDE DEF new, end
  <2>5. ThreadKnows(c)'
    <3>1. RootedName(ftCall[c].file)'
      BY <1>0, <1>1, <2>3 DEF RootedName
    <3>2. Place(c, end) \in {"write", "truncate"} /\ (Place(c, end) = "truncate" => end = FtLength[c])
      BY DEF Place
    <3> QED
      BY <1>0, <1>1, <2>1, <2>3, <2>4, <3>1, <3>2 DEF ThreadKnows, Changes
  <2> QED
    BY <1>0, <1>1, <2>1, <2>2, <2>3, <2>4, <2>5, RewrittenKeeps
<1> QED
  BY <1>2, <1>3 DEF write_file

LEMMA TruncateKeeps ==
  ASSUME FileConstants, FileInv, NEW c \in DOMAIN ftCall, truncate(c)
  PROVE  FileInv'
<1> DEFINE f == ftCall[c].file
           pos == ftCall[c].pos
<1>0. TreeShape /\ ftCall[c].thread = "truncate" /\ UNCHANGED <<ftAt, ftLeaf, ftNamed, ftRooted, ftLone, ftMoves>>
  BY DEF FileInv, truncate
<1>1. /\ pos # FtNone /\ pos \in 0 .. FtLength[c] /\ FtLength[c] \in Nat
      /\ pos \in Nat /\ ftCall[c].tool = "write" /\ c # "nul"
      /\ f \in DOMAIN ftFiles /\ RootedName(f) /\ <<c, f>> \in ftLone
      /\ ftFiles[f].text \in Seq(Letters) /\ ftCall[c].result \notin {"text", "written"}
      /\ SoleWriter(c) => BeginsWith(c, ftFiles[f].text, pos)
  BY <1>0, WriterIs
<1>2. CASE IoError(c)
  <2>1. UNCHANGED ftTree /\ Step(c, [thread |-> "done", result |-> "failed"])
    BY <1>0, <1>2 DEF ftTree, IoError
  <2> QED
    BY <2>1, FailsKeeps
<1>3. ASSUME NEW result \in {"written", "failed"},
             Rewrite(c, Sized(ftFiles[f].text, FtLength[c])),
             Step(c, [thread |-> "done", result |-> result])
      PROVE  FileInv'
  <2> DEFINE new == Sized(ftFiles[f].text, FtLength[c])
  <2>1. pos = FtLength[c]
    BY <1>0 DEF FileInv, ThreadKnows
  <2>2. /\ new \in Seq(Letters) /\ Len(new) = FtLength[c] /\ (new = <<>> => FtLength[c] = 0)
        /\ \A i \in DOMAIN new : new[i] \in {c, "nul"} \cup BytesOf(f)
        /\ SoleWriter(c) => BeginsWith(c, new, FtLength[c])
    <3> DEFINE text == ftFiles[f].text
    <3>1. new = Sized(text, FtLength[c]) /\ text \in Seq(Letters) /\ BytesOf(f) = {text[j] : j \in DOMAIN text}
      BY <1>1 DEF BytesOf
    <3>2. SoleWriter(c) => BeginsWith(c, text, FtLength[c])
      BY <1>1, <2>1
    <3> HIDE DEF new, text, pos, f
    <3> QED
      BY <1>1, <3>1, <3>2, SizedIs
  <2>3. /\ Changes(c) /\ ftCall'[c].thread = "done" /\ ftCall'[c].result = result
        /\ ftCall'[c].pos = ftCall[c].pos /\ ftCall'[c].file = ftCall[c].file
    BY <1>0, <1>3, StepIs DEF FileFields
  <2>4. ftFiles' = [ftFiles EXCEPT ![f].text = new] /\ DOMAIN ftFiles' = DOMAIN ftFiles
    BY <1>3 DEF Rewrite
  <2>5. new = <<>> => EmptiesFiles
    BY <1>1, <2>2 DEF EmptiesFiles
  <2> HIDE DEF new
  <2>6. ThreadKnows(c)'
    <3>1. RootedName(ftCall[c].file)'
      BY <1>0, <1>1, <2>3 DEF RootedName
    <3> QED
      BY <1>0, <1>1, <1>3, <2>1, <2>3, <2>4, <3>1 DEF ThreadKnows, Changes
  <2> QED
    BY <1>0, <1>1, <2>1, <2>2, <2>3, <2>4, <2>5, <2>6, RewrittenKeeps
<1> QED
  BY <1>2, <1>3 DEF truncate

\* Other processes move directories and links.
LEMMA MovesKeepFiles ==
  ASSUME FileConstants, FileInv, NEW at, Moves(at), DOMAIN at = FtPaths, \A p \in FtPaths : LeadsOn(at[p])
  PROVE  FileInv'
<1>0. TreeShape /\ HistorySees
  BY DEF FileInv
<1>1. ftAt' = at /\ UNCHANGED <<ftLeaf, ftFiles, ftCall, ftNamed, ftLone>>
  BY DEF Moves
<1>2. /\ ftRooted \subseteq ftRooted'
      /\ \A d \in DOMAIN ftLeaf : (\E p \in FtInside : at[p] = [kind |-> "dir", to |-> d]) => d \in ftRooted'
  BY DEF Moves, Dirs
<1>3. TreeShape'
  <2>1. \A p \in FtPaths : LeadsOn(ftAt[p])'
    BY <1>1 DEF LeadsOn
  <2> QED
    BY <1>0, <1>1, <2>1 DEF TreeShape, Letters
<1>4. HistorySees'
  BY <1>0, <1>1, <1>2 DEF HistorySees, UnderRoot, OpenAlone
<1>5. EmptiesFiles' <=> EmptiesFiles
  BY <1>1 DEF EmptiesFiles
<1>6. TextsKnow' /\ \A d \in DOMAIN ftCall : SoleKnows(d)'
  BY <1>1, <1>5, TextsStay
<1>7. \A d \in DOMAIN ftCall : ThreadKnows(d)'
  BY <1>1, <1>2, <1>5, OthersKnow DEF FileInv, Onward
<1> QED
  BY <1>1, <1>3, <1>4, <1>6, <1>7 DEF FileInv

LEMMA OthersMoveKeeps ==
  ASSUME FileConstants, FileInv, NEW p \in FtPaths, NEW q \in FtPaths, rename_path(p, q) \/ link_path(p, q)
  PROVE  FileInv'
<1>0. DOMAIN ftAt = FtPaths /\ \A x \in FtPaths : LeadsOn(ftAt[x])
  BY DEF FileInv, TreeShape
<1>1. CASE rename_path(p, q)
  <2> DEFINE at == [ftAt EXCEPT ![q] = ftAt[p], ![p] = Absent_]
  <2>1. LeadsOn(Absent_)
    BY DEF LeadsOn, Absent_
  <2>2. \A x \in FtPaths : at[x] = IF x = p THEN Absent_ ELSE IF x = q THEN ftAt[p] ELSE ftAt[x]
    BY <1>0
  <2>3. Moves(at) /\ DOMAIN at = FtPaths
    BY <1>0, <1>1 DEF rename_path
  <2> HIDE DEF at
  <2>4. \A x \in FtPaths : LeadsOn(at[x])
    BY <1>0, <2>1, <2>2
  <2> QED
    BY <2>3, <2>4, MovesKeepFiles
<1>2. CASE link_path(p, q)
  <2> DEFINE at == [ftAt EXCEPT ![p] = [kind |-> "link", to |-> q]]
  <2>1. LeadsOn([kind |-> "link", to |-> q])
    BY DEF LeadsOn
  <2>2. \A x \in FtPaths : at[x] = IF x = p THEN [kind |-> "link", to |-> q] ELSE ftAt[x]
    BY <1>0
  <2>3. Moves(at) /\ DOMAIN at = FtPaths
    BY <1>0, <1>2 DEF link_path
  <2> HIDE DEF at
  <2>4. \A x \in FtPaths : LeadsOn(at[x])
    BY <1>0, <2>1, <2>2
  <2> QED
    BY <2>3, <2>4, MovesKeepFiles
<1> QED
  BY <1>1, <1>2

\* Other processes give a file a name, or take one.
LEMMA RelinksKeep ==
  ASSUME FileInv, NEW leaf, NEW files, Relinks(leaf, files), DOMAIN leaf = DOMAIN ftLeaf,
         ftNamed \subseteq ftNamed', DOMAIN files = DOMAIN ftFiles,
         \A f \in DOMAIN ftFiles : /\ DOMAIN files[f] = {"text", "links"}
                                   /\ files[f].text = ftFiles[f].text /\ files[f].links \in Int,
         \A d \in DOMAIN ftLeaf : leaf[d].kind = "file" => leaf[d].to \in DOMAIN ftFiles /\ <<d, leaf[d].to>> \in ftNamed'
  PROVE  FileInv'
<1>0. TreeShape /\ HistorySees
  BY DEF FileInv
<1>1. /\ ftLeaf' = leaf /\ ftFiles' = files /\ UNCHANGED <<ftAt, ftCall, ftRooted>>
      /\ ftLone' = ftLone \cup OpenAlone(ftCall, files)
  BY DEF Relinks
<1>2. TreeShape'
  <2>1. \A p \in FtPaths : LeadsOn(ftAt[p])'
    BY <1>0, <1>1 DEF TreeShape, LeadsOn
  <2>2. \A f \in DOMAIN ftFiles' : /\ DOMAIN ftFiles'[f] = {"text", "links"}
                                   /\ ftFiles'[f].text \in Seq(Letters) /\ ftFiles'[f].links \in Int
    BY <1>0, <1>1 DEF TreeShape
  <2>3. Letters' = Letters
    BY <1>1 DEF Letters
  <2> QED
    BY <1>0, <1>1, <2>1, <2>2, <2>3 DEF TreeShape
<1>3. HistorySees'
  <2>1. OpenAlone(ftCall, ftFiles)' \subseteq ftLone'
    BY <1>1 DEF OpenAlone
  <2> QED
    BY <1>0, <1>1, <2>1 DEF HistorySees, UnderRoot
<1>4. EmptiesFiles' <=> EmptiesFiles
  BY <1>1 DEF EmptiesFiles
<1>5. TextsKnow' /\ \A d \in DOMAIN ftCall : SoleKnows(d)'
  BY <1>1, <1>4, TextsStay
<1>6. \A d \in DOMAIN ftCall : ThreadKnows(d)'
  BY <1>1, <1>4, OthersKnow DEF FileInv, Onward
<1> QED
  BY <1>1, <1>2, <1>3, <1>5, <1>6 DEF FileInv

LEMMA OthersLinkKeeps ==
  ASSUME FileInv, NEW d \in DOMAIN ftLeaf, NEW e \in DOMAIN ftLeaf, add_name(d, e) \/ drop_name(d)
  PROVE  FileInv'
<1> DEFINE g == ftLeaf[d].to
<1>0. TreeShape /\ HistorySees /\ ftLeaf[d].kind = "file"
  BY DEF FileInv, add_name, drop_name
<1>1. g \in DOMAIN ftFiles /\ <<d, g>> \in ftNamed
  BY <1>0 DEF TreeShape, HistorySees
<1>2. ASSUME NEW n \in Int, NEW files, files = [ftFiles EXCEPT ![g].links = n]
      PROVE  /\ DOMAIN files = DOMAIN ftFiles
             /\ \A f \in DOMAIN ftFiles : /\ DOMAIN files[f] = {"text", "links"}
                                          /\ files[f].text = ftFiles[f].text /\ files[f].links \in Int
  BY <1>0, <1>1, <1>2 DEF TreeShape
<1>3. ftFiles[g].links + 1 \in Int /\ ftFiles[g].links - 1 \in Int
  BY <1>0, <1>1 DEF TreeShape
<1>4. CASE add_name(d, e)
  <2> DEFINE leaf == [ftLeaf EXCEPT ![e] = ftLeaf[d]]
             n == ftFiles[g].links + 1
             files == [ftFiles EXCEPT ![g].links = n]
  <2>1. Relinks(leaf, files) /\ ftNamed' = ftNamed \cup {<<e, g>>}
    BY <1>4 DEF add_name
  <2>2. DOMAIN leaf = DOMAIN ftLeaf /\ \A x \in DOMAIN ftLeaf : leaf[x] = IF x = e THEN ftLeaf[d] ELSE ftLeaf[x]
    OBVIOUS
  <2>3. \A x \in DOMAIN ftLeaf : leaf[x].kind = "file" => leaf[x].to \in DOMAIN ftFiles /\ <<x, leaf[x].to>> \in ftNamed'
    <3> HIDE DEF leaf
    <3> QED
      BY <1>0, <1>1, <2>1, <2>2 DEF TreeShape, HistorySees
  <2>4. /\ DOMAIN files = DOMAIN ftFiles
        /\ \A f \in DOMAIN ftFiles : /\ DOMAIN files[f] = {"text", "links"}
                                     /\ files[f].text = ftFiles[f].text /\ files[f].links \in Int
    BY <1>2, <1>3
  <2> HIDE DEF leaf, files
  <2> QED
    BY <2>1, <2>2, <2>3, <2>4, RelinksKeep
<1>5. CASE drop_name(d)
  <2> DEFINE leaf == [ftLeaf EXCEPT ![d] = Absent_]
             n == ftFiles[g].links - 1
             files == [ftFiles EXCEPT ![g].links = n]
  <2>1. Relinks(leaf, files) /\ ftNamed' = ftNamed
    BY <1>5 DEF drop_name
  <2>2. /\ DOMAIN leaf = DOMAIN ftLeaf /\ Absent_.kind # "file"
        /\ \A x \in DOMAIN ftLeaf : leaf[x] = IF x = d THEN Absent_ ELSE ftLeaf[x]
    BY DEF Absent_
  <2>3. \A x \in DOMAIN ftLeaf : leaf[x].kind = "file" => leaf[x].to \in DOMAIN ftFiles /\ <<x, leaf[x].to>> \in ftNamed'
    <3> HIDE DEF leaf
    <3> QED
      BY <1>0, <1>1, <2>1, <2>2 DEF TreeShape, HistorySees
  <2>4. /\ DOMAIN files = DOMAIN ftFiles
        /\ \A f \in DOMAIN ftFiles : /\ DOMAIN files[f] = {"text", "links"}
                                     /\ files[f].text = ftFiles[f].text /\ files[f].links \in Int
    BY <1>2, <1>3
  <2> HIDE DEF leaf, files
  <2> QED
    BY <2>1, <2>2, <2>3, <2>4, RelinksKeep
<1> QED
  BY <1>4, <1>5

LEMMA FilesStart ==
  ASSUME FileConstants, FileInit
  PROVE  FileInv
<1>1. PICK scene \in FtScenes : \E form \in FtForms :
        /\ ftAt = scene.at /\ ftLeaf = scene.leaf /\ ftFiles = scene.files
        /\ ftCall = [c \in DOMAIN scene.tasks |->
             [tool |-> scene.tasks[c], form |-> form, thread |-> "unasked", path |-> FtNone, dir |-> FtNone,
              file |-> FtNone, pos |-> FtNone, result |-> FtNone, answer |-> FtNone, got |-> {}]]
  BY DEF FileInit
<1>2. /\ DOMAIN scene.at = FtPaths
      /\ \A p \in FtPaths : scene.at[p] \in [kind : {"none"}, to : {FtNone}] \cup [kind : {"link"}, to : FtPaths]
                                             \cup [kind : {"dir"}, to : DOMAIN scene.leaf]
      /\ \A d \in DOMAIN scene.leaf : scene.leaf[d].kind = "file" => scene.leaf[d].to \in DOMAIN scene.files
      /\ FtNone \notin DOMAIN scene.files
      /\ \A c \in DOMAIN scene.tasks :
           c \notin {"o", "nul", FtNone} /\ (scene.tasks[c] = "write" => FtLength[c] \in Nat)
  BY DEF FileConstants
<1>3. DOMAIN ftCall = DOMAIN scene.tasks /\ \A c \in DOMAIN ftCall :
        /\ DOMAIN ftCall[c] = FileFields /\ ftCall[c].thread = "unasked" /\ ftCall[c].result = FtNone
        /\ ftCall[c].pos = FtNone /\ ftCall[c].file = FtNone /\ ftCall[c].tool = scene.tasks[c]
  BY <1>1 DEF FileFields
<1>4. \A c \in DOMAIN ftCall : ThreadKnows(c) /\ SoleKnows(c)
  BY <1>3 DEF ThreadKnows, SoleKnows, SoleWriter, FileConstants
<1>5. ASSUME NEW f \in DOMAIN ftFiles
      PROVE  /\ DOMAIN ftFiles[f] = {"text", "links"} /\ ftFiles[f].text \in Seq(Letters)
             /\ ftFiles[f].text # <<>> /\ ftFiles[f].links \in Int
             /\ \A i \in DOMAIN ftFiles[f].text : ftFiles[f].text[i] = "o"
  <2> DEFINE Texts == Seq({"o"}) \ {<<>>}
  <2>1. ftFiles[f] \in [text : Texts, links : Nat]
    BY <1>1 DEF FileConstants
  <2>2. ftFiles[f].text \in Texts /\ ftFiles[f].links \in Nat /\ DOMAIN ftFiles[f] = {"text", "links"}
    <3> HIDE DEF Texts
    <3> QED
      BY <2>1
  <2>3. ftFiles[f].text \in Seq({"o"}) /\ ftFiles[f].text # <<>>
    BY <2>2
  <2>4. "o" \in Letters
    BY DEF Letters
  <2>5. \A text \in Seq({"o"}) : text \in Seq(Letters) /\ \A i \in DOMAIN text : text[i] = "o"
    BY <2>4
  <2> QED
    BY <2>2, <2>3, <2>5
<1>6. TreeShape
  <2>1. \A p \in FtPaths : LeadsOn(ftAt[p])
    BY <1>1, <1>2 DEF LeadsOn
  <2> QED
    BY <1>1, <1>2, <1>3, <1>5, <2>1 DEF TreeShape
<1>7. HistorySees
  <2>1. OpenAlone(ftCall, ftFiles) = {}
    BY <1>3 DEF OpenAlone
  <2>2. ftNamed = {<<d, ftLeaf[d].to>> : d \in {e \in Dirs : ftLeaf[e].kind = "file"}} /\ ftRooted = {d \in Dirs : UnderRoot(d)}
    BY DEF FileInit
  <2> QED
    BY <2>1, <2>2 DEF HistorySees, Dirs
<1>8. TextsKnow
  BY <1>2, <1>3, <1>5 DEF TextsKnow, BytesOf
<1> QED
  BY <1>4, <1>6, <1>7, <1>8 DEF FileInv

LEMMA FilesKeep ==
  ASSUME FileConstants, FileInv, [FileNext]_ftVars
  PROVE  FileInv'
<1>1. CASE UNCHANGED ftVars
  <2>1. UNCHANGED <<ftAt, ftLeaf, ftFiles, ftCall, ftNamed, ftRooted, ftLone>>
    BY <1>1 DEF ftVars, ftTree
  <2>2. EmptiesFiles' <=> EmptiesFiles
    BY <2>1 DEF EmptiesFiles
  <2>3. \A d \in DOMAIN ftCall : ThreadKnows(d)'
    BY <2>1, <2>2, OthersKnow DEF FileInv, Onward
  <2>4. TextsKnow' /\ \A d \in DOMAIN ftCall : SoleKnows(d)'
    BY <2>1, <2>2, TextsStay DEF FileInv, TextsKnow
  <2>5. TreeShape' /\ HistorySees'
    BY <2>1 DEF FileInv, TreeShape, HistorySees, UnderRoot, OpenAlone, Letters, LeadsOn
  <2> QED
    BY <2>1, <2>3, <2>4, <2>5 DEF FileInv
<1>2. ASSUME NEW c \in DOMAIN ftCall, planned_resources(c) \/ invoke(c) \/ give_up(c) \/ Thread(c) \/ join(c)
      PROVE  FileInv'
  <2>1. CASE planned_resources(c)
    BY <2>1, PlannedKeeps
  <2>2. CASE invoke(c)
    BY <2>2, FileInvokeKeeps
  <2>3. CASE give_up(c) \/ join(c)
    BY <2>3, FileAnswerKeeps
  <2>4. CASE resolve_again(c)
    BY <2>4, ResolveAgainKeeps
  <2>5. CASE open_path(c)
    BY <2>5, OpenPathKeeps
  <2>6. CASE verify_directory(c)
    BY <2>6, VerifyDirectoryKeeps
  <2>7. CASE scan(c)
    BY <2>7, ScanKeeps
  <2>8. CASE open_at(c)
    BY <2>8, OpenAtKeeps
  <2>9. CASE verify_file(c)
    BY <2>9, VerifyFileKeeps
  <2>10. CASE read_file(c)
    BY <2>10, ReadFileKeeps
  <2>11. CASE check_target(c)
    BY <2>11, CheckTargetKeeps
  <2>12. CASE write_file(c)
    BY <2>12, WriteFileKeeps
  <2>13. CASE truncate(c)
    BY <2>13, TruncateKeeps
  <2> QED
    BY <1>2, <2>1, <2>2, <2>3, <2>4, <2>5, <2>6, <2>7, <2>8, <2>9, <2>10, <2>11, <2>12, <2>13 DEF Thread
<1>3. ASSUME NEW d \in Dirs, NEW e \in Dirs, add_name(d, e) \/ drop_name(d) PROVE FileInv'
  BY <1>3, OthersLinkKeeps DEF Dirs
<1> QED
  BY <1>1, <1>2, <1>3, OthersMoveKeeps DEF FileNext

LEMMA FilesImply ==
  ASSUME FileInv
  PROVE  FilesStayPut
<1>1. \A c \in DOMAIN ftCall : ThreadKnows(c) /\ SoleKnows(c)
  BY DEF FileInv
<1>2. TextsKnow
  BY DEF FileInv
<1>3. StaysUnderRoot
  <2>1. ASSUME NEW c \in DOMAIN ftCall
        PROVE  /\ ftCall[c].result \in {"text", "written"} => RootedName(ftCall[c].file)
               /\ ftCall[c].result = "written" => <<c, ftCall[c].file>> \in ftLone
    BY <1>1 DEF ThreadKnows
  <2>2. ASSUME NEW f \in DOMAIN ftFiles, NEW c \in DOMAIN ftCall, c \in BytesOf(f)
        PROVE  RootedName(f) /\ <<c, f>> \in ftLone
    BY <1>1, <1>2, <2>2 DEF ThreadKnows, TextsKnow
  <2> QED
    BY <2>1, <2>2 DEF StaysUnderRoot, RootedName
<1>4. ReplacementIsWhole
  <2> SUFFICES ASSUME NEW c \in DOMAIN ftCall
               PROVE  LET text == ftFiles[ftCall[c].file].text IN
                      /\ SoleWriter(c) =>
                           /\ Len(text) >= ftCall[c].pos
                           /\ \A i \in DOMAIN text : text[i] = c <=> i <= ftCall[c].pos
                           /\ ftCall[c].result = "written" => Len(text) = FtLength[c] /\ ftCall[c].pos = FtLength[c]
                      /\ ftCall[c].result = "text" /\ ftCall[c].got = {<<>>} =>
                           \/ ftCall[c].file \in DOMAIN ftCall
                           \/ \E d \in DOMAIN ftCall : ftCall[d].tool = "write" /\ FtLength[d] = 0
    BY DEF ReplacementIsWhole
  <2>1. ThreadKnows(c) /\ SoleKnows(c)
    BY <1>1
  <2> QED
    BY <2>1 DEF ThreadKnows, SoleKnows, BeginsWith, EmptiesFiles
<1> QED
  BY <1>3, <1>4 DEF FilesStayPut

(* However directories, links and names of files change under the calls, and however many of them
   run at once, the tools of fs common.rs and write.rs read and write only files that had their name
   in a directory that was under the root, and write none that had a second name for as long as they
   had it open.  A file that one writer alone has come to write begins with what it has written so
   far, the rest being as it was; when the writer is told that it is done, that is all of it; and no
   reader finds a file that had text empty, unless some call writes nothing: the thread verifies
   where its handle is after it has opened it, and cuts after writing. *)
THEOREM FilesHold ==
  ASSUME FileConstants
  PROVE  FileSpec => []FilesStayPut
<1>1. FileInit => FileInv
  BY FilesStart
<1>2. FileInv /\ [FileNext]_ftVars => FileInv'
  BY FilesKeep
<1>3. FileInv => FilesStayPut
  BY FilesImply
<1> QED
  BY <1>1, <1>2, <1>3, PTL DEF FileSpec

-----------------------------------------------------------------------------
(* The stores coming up: Upkeep *)

UpkeepShape ==
  /\ upWith \in UpDeployments
  /\ upOrder \in Seq(Ids) /\ Ids = {upOrder[i] : i \in 1 .. Len(upOrder)}
  /\ upAt \in 0 .. Len(upOrder)
  /\ upPhase \in {"init", "start", "up", "stop", "wait", "ok"}
  /\ DOMAIN upState = Ids /\ DOMAIN upUses = Ids /\ DOMAIN upTasks = Ids

\* init() of c has found what it needs and has said what it is.
Wired(c) ==
  /\ Kind(c) = "jobs" => c \in upServices["JobHandler"]
  /\ upWith[c].database # UpNone => upWith[c].database \in upUses[c]

\* Everything is wired before anything starts.
WiredFirst ==
  /\ upPhase = "init" => \A c \in Ids : (\E i \in 1 .. upAt : upOrder[i] = c) => Wired(c)
  /\ upPhase \in {"start", "up"} \/ (\E c \in Ids : upState[c] = "started") => \A c \in Ids : Wired(c)
  /\ upPhase = "init" => /\ \A c \in Ids : upState[c] # "started" /\ upTasks[c] = UpNone
                         /\ upPublished = 0
  /\ upFrom \in {UpNone, 0}

KnowsHandlers ==
  \A c \in Ids : Kind(c) = "scheduler" /\ upState[c] = "started" => {d \in Ids : Kind(d) = "jobs"} \subseteq upUses[c]

\* What is known of a sweep.
SweepIs(c) ==
  upTasks[c] # UpNone =>
    /\ DOMAIN upTasks[c] = {"state", "interval", "retention"}
    /\ upTasks[c].state \in {"asleep", "sweeping", "ended"}
    /\ Kind(c) = "memory" \/ upTasks[c].retention # UpNone
    /\ upWith[c].retention # UpNone => upTasks[c].retention = upWith[c].retention
    /\ upTasks[c].retention = 0 => upWith[c].retention = 0
    /\ upTasks[c].interval # UpNone
    /\ upTasks[c].interval = 0 => upWith[c].interval = 0

\* Whoever has a sweep is told to end, or is still to be.
ToldToEnd ==
  /\ upPhase = "stop" =>
       \A c \in Ids : upTasks[c] # UpNone => c \in upCancelled \/ \E i \in 1 .. Len(upOrder) - upAt : upOrder[i] = c
  /\ upPhase = "wait" => \A c \in Ids : upTasks[c] # UpNone => c \in upCancelled

UpkeepInv == UpkeepShape /\ WiredFirst /\ KnowsHandlers /\ (\A c \in Ids : SweepIs(c)) /\ ToldToEnd

LEMMA UpkeepStarts ==
  ASSUME UpkeepConstants, UpkeepInit
  PROVE  UpkeepInv
<1>1. upWith \in UpDeployments /\ IsFiniteSet(Ids) /\ Cardinality(Ids) \in Nat
  BY FS_CardinalityType DEF UpkeepInit, UpkeepConstants, Ids
<1>2. upOrder \in [1 .. Cardinality(Ids) -> Ids] /\ Ids = {upOrder[i] : i \in 1 .. Cardinality(Ids)}
  BY DEF UpkeepInit, Layouts
<1>3. upOrder \in Seq(Ids) /\ Len(upOrder) = Cardinality(Ids)
  BY <1>1, <1>2
<1>4. UpkeepShape
  BY <1>1, <1>2, <1>3 DEF UpkeepInit, UpkeepShape
<1>5. WiredFirst /\ KnowsHandlers /\ ToldToEnd /\ \A c \in Ids : SweepIs(c)
  BY <1>3 DEF UpkeepInit, WiredFirst, KnowsHandlers, ToldToEnd, SweepIs
<1> QED
  BY <1>4, <1>5 DEF UpkeepInv

\* The next component's turn, or the next phase.
LEMMA AdvanceIs ==
  ASSUME UpkeepShape, NEW c, Turn(c), NEW next, next \in {"start", "up"}, Advance(next), UNCHANGED <<upOrder, upWith>>
  PROVE  /\ upAt' \in 0 .. Len(upOrder') /\ upPhase' \in {upPhase, next}
         /\ c \in Ids /\ c = upOrder[upAt + 1] /\ upAt + 1 \in 1 .. Len(upOrder) /\ upAt \in Nat
         /\ \/ upAt' = upAt + 1 /\ upPhase' = upPhase
            \/ upAt + 1 = Len(upOrder) /\ upPhase' = next
<1>1. upAt \in Nat /\ Len(upOrder) \in Nat /\ upAt + 1 \in 1 .. Len(upOrder) /\ c = upOrder[upAt + 1]
  BY DEF UpkeepShape, Turn
<1> QED
  BY <1>1 DEF Advance, UpkeepShape

LEMMA InitKeepsUpkeep ==
  ASSUME UpkeepInv, NEW c \in Ids, init(c)
  PROVE  UpkeepInv'
<1>0. /\ UpkeepShape /\ WiredFirst /\ Turn(c) /\ upPhase = "init"
      /\ UNCHANGED <<upWith, upOrder, upTasks, upSink, upCancelled, upPublished>> /\ Ids' = Ids
      /\ \A d : Kind(d)' = Kind(d)
  BY DEF UpkeepInv, init, Ids, Kind
<1>1. \A d \in Ids : upState[d] # "started" /\ upTasks[d] = UpNone
  BY <1>0 DEF WiredFirst
<1>2. \A d \in Ids : SweepIs(d)'
  BY <1>0, <1>1 DEF SweepIs
<1>3. CASE /\ Finds(c) /\ upState' = [upState EXCEPT ![c] = "initialised"]
           /\ upUses' = [upUses EXCEPT ![c] = {service_named(upWith[c].database)} \ {UpNone}]
           /\ provides(c, Provided(Kind(c))) /\ subscribes(c) /\ Advance("start")
  <2>1. /\ upAt' \in 0 .. Len(upOrder') /\ upPhase' \in {"init", "start"}
        /\ c = upOrder[upAt + 1] /\ upAt + 1 \in 1 .. Len(upOrder) /\ upAt \in Nat
        /\ \/ upAt' = upAt + 1 /\ upPhase' = "init"
           \/ upAt + 1 = Len(upOrder) /\ upPhase' = "start"
    BY <1>0, <1>3, AdvanceIs
  <2>2. /\ DOMAIN upState' = Ids /\ DOMAIN upUses' = Ids /\ \A d \in Ids : upState'[d] # "started"
        /\ \A d \in Ids : d # c => upUses'[d] = upUses[d]
        /\ upUses'[c] = {service_named(upWith[c].database)} \ {UpNone}
    BY <1>0, <1>1, <1>3 DEF UpkeepShape
  <2>3. upServices["JobHandler"] \subseteq upServices'["JobHandler"] /\ (Kind(c) = "jobs" => c \in upServices'["JobHandler"])
    BY <1>3 DEF provides, Provided, Capabilities
  <2>4. upWith[c].database # UpNone => upWith[c].database \in upUses'[c]
    BY <1>3, <2>2 DEF Finds, service_named
  <2>5. Wired(c)' /\ \A d \in Ids : Wired(d) => Wired(d)'
    BY <1>0, <2>2, <2>3, <2>4 DEF Wired
  <2>6. \A d \in Ids : (\E i \in 1 .. upAt : upOrder[i] = d) => Wired(d)'
    BY <1>0, <2>5 DEF WiredFirst
  <2>7. \A d \in Ids : (\E i \in 1 .. upAt + 1 : upOrder[i] = d) => Wired(d)'
    BY <2>1, <2>5, <2>6
  <2>8. upPhase' = "start" => \A d \in Ids : Wired(d)'
    BY <1>0, <2>1, <2>7 DEF UpkeepShape
  <2>9. upFrom' \in {UpNone, 0}
    BY <1>0, <1>3 DEF subscribes, WiredFirst
  <2>10. UpkeepShape'
    BY <1>0, <2>1, <2>2 DEF UpkeepShape
  <2>11. WiredFirst'
    BY <1>0, <1>1, <2>1, <2>2, <2>7, <2>8, <2>9 DEF WiredFirst
  <2>12. KnowsHandlers' /\ ToldToEnd'
    BY <1>0, <2>1, <2>2 DEF KnowsHandlers, ToldToEnd
  <2> QED
    BY <1>0, <1>2, <2>10, <2>11, <2>12 DEF UpkeepInv
<1>4. CASE /\ upState' = [upState EXCEPT ![c] = "failed"] /\ RollBack(upAt)
           /\ UNCHANGED <<upServices, upDefaults, upUses, upFrom>>
  <2>1. upPhase' = "stop" /\ upAt' \in 0 .. Len(upOrder)
    BY <1>0, <1>4 DEF RollBack, UpkeepShape
  <2>2. DOMAIN upState' = Ids /\ \A d \in Ids : upState'[d] # "started"
    BY <1>0, <1>1, <1>4 DEF UpkeepShape
  <2>3. UpkeepShape'
    BY <1>0, <1>4, <2>1, <2>2 DEF UpkeepShape
  <2>4. WiredFirst' /\ KnowsHandlers' /\ ToldToEnd'
    BY <1>0, <1>1, <1>4, <2>1, <2>2 DEF WiredFirst, KnowsHandlers, ToldToEnd
  <2> QED
    BY <1>0, <1>2, <2>3, <2>4 DEF UpkeepInv
<1> QED
  BY <1>3, <1>4 DEF init

\* A component starts, or fails to, with what it uses and the sweep it leaves running.
LEMMA StartKeepsUpkeep ==
  ASSUME UpkeepConstants, UpkeepInv, NEW c \in Ids, start(c)
  PROVE  UpkeepInv'
<1>0. /\ UpkeepShape /\ WiredFirst /\ KnowsHandlers /\ Turn(c) /\ upPhase = "start" /\ (\A d \in Ids : SweepIs(d))
      /\ UNCHANGED <<upWith, upOrder, upServices, upDefaults, upCancelled, upPublished, upFrom>> /\ Ids' = Ids
      /\ \A d : Kind(d)' = Kind(d)
  BY DEF UpkeepInv, start, Ids, Kind
<1>1. \A d \in Ids : Wired(d)
  BY <1>0 DEF WiredFirst
<1>2. /\ UpDefaultInterval \notin {UpNone, 0}
      /\ Kind(c) # "audit" => upWith[c].interval # UpNone
  BY <1>0 DEF UpkeepConstants, UpkeepShape, Ids, Kind
<1>3. upPhase' \in {"start", "up", "stop"} /\ upAt' \in 0 .. Len(upOrder) /\ (upPhase' = "stop" => upAt' = 0)
  <2>1. CASE Advance("up")
    BY <1>0, <2>1, AdvanceIs
  <2>2. CASE RollBack(Len(upOrder))
    BY <1>0, <2>2 DEF RollBack, UpkeepShape
  <2>3. Advance("up") \/ RollBack(Len(upOrder))
    BY DEF start, start_plain, start_audit, start_scheduler, start_other
  <2> QED
    BY <2>1, <2>2, <2>3
<1>4. /\ DOMAIN upState' = Ids /\ \A d \in Ids : d # c => upState'[d] = upState[d]
      /\ DOMAIN upUses' = Ids /\ \A d \in Ids : d # c => upUses'[d] = upUses[d]
      /\ upUses[c] \subseteq upUses'[c]
      /\ DOMAIN upTasks' = Ids /\ \A d \in Ids : d # c => upTasks'[d] = upTasks[d]
  BY <1>0 DEF start, start_plain, start_audit, start_scheduler, start_other, UpkeepShape
<1>5. UpkeepShape'
  BY <1>0, <1>3, <1>4 DEF UpkeepShape
<1>6. \A d \in Ids : Wired(d)'
  BY <1>0, <1>1, <1>4 DEF Wired
<1>7. WiredFirst'
  BY <1>0, <1>3, <1>6 DEF WiredFirst
<1>8. KnowsHandlers'
  <2>1. {d \in Ids : Kind(d) = "jobs"} \subseteq handlers
    BY <1>1 DEF Wired, handlers
  <2>2. Kind(c) = "scheduler" /\ upState'[c] = "started" => handlers \subseteq upUses'[c]
    BY <1>0 DEF start, start_plain, start_audit, start_scheduler, start_other, UpkeepShape
  <2> QED
    BY <1>0, <1>4, <2>1, <2>2 DEF KnowsHandlers
<1>9. SweepIs(c)'
  <2>1. CASE start_plain(c)
    <3>1. CASE Kind(c) = "context" /\ upWith[c].retention = UpNone
      <4>1. upTasks'[c] = UpNone
        BY <1>0, <2>1, <3>1 DEF start_plain, UpkeepShape
      <4> QED
        BY <4>1 DEF SweepIs
    <3>2. CASE ~(Kind(c) = "context" /\ upWith[c].retention = UpNone)
      <4>1. upTasks'[c] = Sweep(upWith[c].interval, upWith[c].retention) /\ Kind(c) \in {"context", "memory"}
        BY <1>0, <2>1, <3>2 DEF start_plain, UpkeepShape
      <4>2. /\ DOMAIN upTasks'[c] = {"state", "interval", "retention"} /\ upTasks'[c].state = "asleep"
            /\ upTasks'[c].interval = upWith[c].interval /\ upTasks'[c].retention = upWith[c].retention
        BY <4>1 DEF Sweep
      <4> QED
        BY <1>0, <1>2, <3>2, <4>1, <4>2 DEF SweepIs
    <3> QED
      BY <3>1, <3>2
  <2>2. CASE start_audit(c) /\ upTasks' = upTasks
    BY <1>0, <2>2 DEF SweepIs
  <2>3. CASE start_audit(c) /\ upTasks' # upTasks
    <3> DEFINE period == settled(upWith[c].retention, upWith[c].days)
               every == settled(settled(upWith[c].interval, upWith[c].seconds), UpDefaultInterval)
    <3>1. /\ ~(upWith[c].retention = UpNone /\ refused(upWith[c].days))
          /\ ~(upWith[c].interval = UpNone /\ refused(upWith[c].seconds))
          /\ upTasks'[c] = IF period = UpNone THEN UpNone ELSE Sweep(every, period)
      BY <1>0, <2>3 DEF start_audit, UpkeepShape
    <3>2. every # UpNone /\ (every = 0 => upWith[c].interval = 0)
      BY <1>2, <3>1 DEF settled, refused
    <3>3. (period = 0 => upWith[c].retention = 0) /\ (upWith[c].retention # UpNone => period = upWith[c].retention)
      BY <1>2, <3>1 DEF settled, refused
    <3> HIDE DEF period, every
    <3>4. CASE period = UpNone
      BY <3>1, <3>4 DEF SweepIs
    <3>5. CASE period # UpNone
      <4>1. /\ DOMAIN upTasks'[c] = {"state", "interval", "retention"} /\ upTasks'[c].state = "asleep"
            /\ upTasks'[c].interval = every /\ upTasks'[c].retention = period
        BY <3>1, <3>5 DEF Sweep
      <4> QED
        BY <1>0, <3>2, <3>3, <3>5, <4>1 DEF SweepIs
    <3> QED
      BY <3>4, <3>5
  <2>4. CASE start_scheduler(c) \/ start_other(c)
    BY <1>0, <2>4 DEF SweepIs, start_scheduler, start_other
  <2> QED
    BY <2>1, <2>2, <2>3, <2>4 DEF start
<1>10. \A d \in Ids : SweepIs(d)'
  BY <1>0, <1>4, <1>9 DEF SweepIs
<1>11. ToldToEnd'
  BY <1>0, <1>3 DEF ToldToEnd, UpkeepShape
<1> QED
  BY <1>0, <1>5, <1>7, <1>8, <1>10, <1>11 DEF UpkeepInv

\* A sweep moves or ends.
LEMMA TasksKeepUpkeep ==
  ASSUME UpkeepInv, NEW c \in Ids, sweeps(c) \/ task_ends(c)
  PROVE  UpkeepInv'
<1>0. /\ UpkeepShape /\ WiredFirst /\ KnowsHandlers /\ ToldToEnd /\ (\A d \in Ids : SweepIs(d))
      /\ UNCHANGED <<upWith, upOrder, upPhase, upAt, upState, upServices, upDefaults, upUses, upCancelled, upPublished, upFrom>>
      /\ Ids' = Ids /\ \A d : Kind(d)' = Kind(d)
  BY DEF UpkeepInv, sweeps, task_ends, TaskOnly, Ids, Kind
<1>1. \/ upTasks' = upTasks
      \/ upTasks[c] # UpNone /\ \E state \in {"asleep", "sweeping", "ended"} : upTasks' = [upTasks EXCEPT ![c].state = state]
  BY DEF sweeps, task_ends, CanEnd
<1>2. ASSUME upTasks[c] # UpNone, NEW state \in {"asleep", "sweeping", "ended"}, upTasks' = [upTasks EXCEPT ![c].state = state]
      PROVE  /\ DOMAIN upTasks' = Ids /\ \A d \in Ids : d # c => upTasks'[d] = upTasks[d]
             /\ DOMAIN upTasks'[c] = {"state", "interval", "retention"} /\ upTasks'[c].state = state
             /\ upTasks'[c].interval = upTasks[c].interval /\ upTasks'[c].retention = upTasks[c].retention
  BY <1>0, <1>2 DEF UpkeepShape, SweepIs
<1>3. /\ DOMAIN upTasks' = Ids /\ (\A d \in Ids : upTasks'[d] # UpNone => upTasks[d] # UpNone)
      /\ \A d \in Ids : SweepIs(d)'
  <2>1. CASE upTasks' = upTasks
    BY <1>0, <2>1 DEF UpkeepShape, SweepIs
  <2>2. CASE upTasks' # upTasks
    BY <1>0, <1>1, <1>2, <2>2 DEF SweepIs
  <2> QED
    BY <2>1, <2>2
<1>4. \A d \in Ids : Wired(d) => Wired(d)'
  BY <1>0 DEF Wired
<1>5. upPhase = "init" => \A d \in Ids : upTasks'[d] = UpNone
  BY <1>0, <1>3 DEF WiredFirst
<1>6. UpkeepShape' /\ ToldToEnd' /\ KnowsHandlers'
  BY <1>0, <1>3 DEF UpkeepShape, ToldToEnd, KnowsHandlers
<1>7. WiredFirst'
  BY <1>0, <1>4, <1>5 DEF WiredFirst
<1> QED
  BY <1>0, <1>3, <1>6, <1>7 DEF UpkeepInv

\* Decisions are published, and the kernel is told to stop.
LEMMA EventsKeepUpkeep ==
  ASSUME UpkeepInv, publishes \/ shutdown
  PROVE  UpkeepInv'
<1>0. /\ UpkeepShape /\ WiredFirst /\ KnowsHandlers /\ ToldToEnd /\ (\A d \in Ids : SweepIs(d))
      /\ UNCHANGED <<upWith, upOrder, upState, upServices, upUses, upTasks, upCancelled, upFrom>>
      /\ Ids' = Ids /\ \A d : Kind(d)' = Kind(d)
  BY DEF UpkeepInv, publishes, shutdown, Ids, Kind
<1>1. /\ \A d \in Ids : SweepIs(d)'
      /\ \A d \in Ids : Wired(d) => Wired(d)'
      /\ KnowsHandlers'
  BY <1>0 DEF SweepIs, Wired, KnowsHandlers
<1>2. CASE publishes
  <2>1. upPhase' = upPhase /\ upAt' = upAt /\ upPhase # "init"
    BY <1>0, <1>2 DEF publishes, WiredFirst
  <2> QED
    BY <1>0, <1>1, <2>1 DEF UpkeepInv, UpkeepShape, WiredFirst, ToldToEnd
<1>3. CASE shutdown
  <2>1. upPhase = "up" /\ upPhase' = "stop" /\ upAt' = 0
    BY <1>3 DEF shutdown
  <2>2. UpkeepShape' /\ ToldToEnd'
    BY <1>0, <2>1 DEF UpkeepShape, ToldToEnd
  <2>3. WiredFirst'
    BY <1>0, <1>1, <2>1 DEF WiredFirst
  <2> QED
    BY <1>0, <1>1, <2>2, <2>3 DEF UpkeepInv
<1> QED
  BY <1>2, <1>3

\* Components are stopped in reverse order, and the tasks waited for.
LEMMA StopKeepsUpkeep ==
  ASSUME UpkeepInv, NEW c \in Ids, stop(c)
  PROVE  UpkeepInv'
<1>0. /\ UpkeepShape /\ WiredFirst /\ KnowsHandlers /\ ToldToEnd /\ (\A d \in Ids : SweepIs(d)) /\ upPhase = "stop"
      /\ UNCHANGED <<upWith, upOrder, upServices, upUses, upTasks, upPublished, upFrom>>
      /\ Ids' = Ids /\ \A d : Kind(d)' = Kind(d)
  BY DEF UpkeepInv, stop, Ids, Kind
<1>1. /\ DOMAIN upState' = Ids /\ \A d \in Ids : upState'[d] = "started" => upState[d] = "started"
      /\ upCancelled \subseteq upCancelled'
  BY <1>0 DEF stop, UpkeepShape
<1>2. /\ \A d \in Ids : SweepIs(d)'
      /\ \A d \in Ids : Wired(d) => Wired(d)'
      /\ KnowsHandlers'
  BY <1>0, <1>1 DEF SweepIs, Wired, KnowsHandlers
<1>3. CASE upAt = Len(upOrder)
  <2>1. upPhase' = "wait" /\ upAt' = upAt
    BY <1>3 DEF stop
  <2>2. UpkeepShape' /\ WiredFirst'
    BY <1>0, <1>1, <1>2, <2>1 DEF UpkeepShape, WiredFirst
  <2>3. ToldToEnd'
    BY <1>0, <1>1, <1>3, <2>1 DEF UpkeepShape, ToldToEnd
  <2> QED
    BY <1>0, <1>2, <2>2, <2>3 DEF UpkeepInv
<1>4. CASE upAt # Len(upOrder)
  <2>1. upPhase' = "stop" /\ upAt' = upAt + 1 /\ c = upOrder[Len(upOrder) - upAt] /\ upCancelled' = upCancelled \cup {c}
    BY <1>0, <1>4 DEF stop
  <2>2. upAt \in Nat /\ Len(upOrder) \in Nat /\ upAt + 1 \in 0 .. Len(upOrder)
    BY <1>0, <1>4 DEF UpkeepShape
  <2>3. upAt' \in 0 .. Len(upOrder')
    BY <1>0, <2>1, <2>2
  <2>4. UpkeepShape'
    BY <1>0, <1>1, <2>1, <2>3 DEF UpkeepShape
  <2>5. WiredFirst'
    BY <1>0, <1>1, <1>2, <2>1 DEF WiredFirst
  <2>6. ASSUME NEW d \in Ids, upTasks[d] # UpNone, d \notin upCancelled'
        PROVE  \E i \in 1 .. Len(upOrder) - upAt' : upOrder[i] = d
    <3>1. d \notin upCancelled /\ d # c
      BY <2>1, <2>6
    <3>2. PICK i \in 1 .. Len(upOrder) - upAt : upOrder[i] = d
      BY <1>0, <2>6, <3>1 DEF ToldToEnd
    <3>3. i # Len(upOrder) - upAt
      BY <2>1, <3>1, <3>2
    <3>4. i \in 1 .. Len(upOrder) - upAt'
      BY <2>1, <2>2, <3>2, <3>3
    <3> QED
      BY <3>2, <3>4
  <2>7. ToldToEnd'
    BY <1>0, <2>1, <2>6 DEF ToldToEnd
  <2> QED
    BY <1>0, <1>2, <2>4, <2>5, <2>7 DEF UpkeepInv
<1> QED
  BY <1>3, <1>4

LEMMA WaitsKeepsUpkeep ==
  ASSUME UpkeepInv, waits
  PROVE  UpkeepInv'
<1>0. /\ UpkeepShape /\ WiredFirst /\ KnowsHandlers /\ ToldToEnd /\ (\A d \in Ids : SweepIs(d)) /\ upPhase = "wait"
      /\ UNCHANGED <<upWith, upOrder, upAt, upState, upServices, upUses, upTasks, upCancelled, upPublished, upFrom>>
      /\ Ids' = Ids /\ \A d : Kind(d)' = Kind(d)
  BY DEF UpkeepInv, waits, Ids, Kind
<1>1. \A d \in Ids : Busy(d) => CanEnd(d)
  BY <1>0 DEF ToldToEnd, Busy, CanEnd, SweepIs, watches
<1>2. upPhase' = "ok"
  BY <1>1 DEF waits
<1>3. /\ \A d \in Ids : SweepIs(d)'
      /\ \A d \in Ids : Wired(d) => Wired(d)'
      /\ KnowsHandlers'
  BY <1>0 DEF SweepIs, Wired, KnowsHandlers
<1>4. UpkeepShape' /\ WiredFirst' /\ ToldToEnd'
  BY <1>0, <1>2, <1>3 DEF UpkeepShape, WiredFirst, ToldToEnd
<1> QED
  BY <1>0, <1>3, <1>4 DEF UpkeepInv

LEMMA UpkeepKeeps ==
  ASSUME UpkeepConstants, UpkeepInv, [UpkeepNext]_upVars
  PROVE  UpkeepInv'
<1>1. CASE UNCHANGED upVars
  <2>0. Ids' = Ids /\ \A d : Kind(d)' = Kind(d)
    BY <1>1 DEF Ids, Kind, upVars
  <2>1. /\ \A d \in Ids : SweepIs(d)'
        /\ \A d \in Ids : Wired(d)' <=> Wired(d)
    BY <1>1, <2>0 DEF SweepIs, Wired, upVars, UpkeepInv
  <2>2. UpkeepShape' /\ KnowsHandlers' /\ ToldToEnd' /\ WiredFirst'
    BY <1>1, <2>0, <2>1 DEF UpkeepInv, UpkeepShape, KnowsHandlers, ToldToEnd, WiredFirst, upVars
  <2> QED
    BY <2>0, <2>1, <2>2 DEF UpkeepInv
<1>2. CASE UpkeepNext
  BY <1>2, InitKeepsUpkeep, StartKeepsUpkeep, TasksKeepUpkeep, EventsKeepUpkeep, StopKeepsUpkeep, WaitsKeepsUpkeep DEF UpkeepNext
<1> QED
  BY <1>1, <1>2

LEMMA UpkeepImplies ==
  ASSUME UpkeepInv
  PROVE  UpInAnyOrder
<1>1. \A c \in Ids : /\ (Kind(c) = "audit" /\ upFrom # UpNone) => upFrom = 0
                     /\ (Kind(c) = "scheduler" /\ upState[c] = "started") => {d \in Ids : Kind(d) = "jobs"} \subseteq upUses[c]
                     /\ (upState[c] = "started" /\ upWith[c].database # UpNone) => upWith[c].database \in upUses[c]
  BY DEF UpkeepInv, WiredFirst, KnowsHandlers, Wired
<1>2. upPhase # "timeout"
  BY DEF UpkeepInv, UpkeepShape
<1> QED
  BY <1>1, <1>2 DEF UpkeepInv, SweepIs, UpInAnyOrder

(* For any components in any order their requirements allow: nothing starts before everything has
   been initialised, so the audit hears the first decision, the scheduler finds every handler and
   a durable store its database; the periods in force are the ones given, and zero only where a
   builder was given zero, which it accepts; and whoever has a sweep is told to end before the kernel waits for it, which therefore never times out
   (component.rs of audit, context, memory, scheduler and store). *)
THEOREM UpkeepHolds ==
  ASSUME UpkeepConstants
  PROVE  UpkeepSpec => []UpInAnyOrder
<1>1. UpkeepInit => UpkeepInv
  BY UpkeepStarts
<1>2. UpkeepInv /\ [UpkeepNext]_upVars => UpkeepInv'
  BY UpkeepKeeps
<1>3. UpkeepInv => UpInAnyOrder
  BY UpkeepImplies
<1> QED
  BY <1>1, <1>2, <1>3, PTL DEF UpkeepSpec

-----------------------------------------------------------------------------

(* Sums that change in one place, and sums of nothing. *)
LEMMA SumChange ==
  ASSUME NEW S, IsFiniteSet(S), NEW f \in [S -> Nat], NEW g \in [S -> Nat], NEW c \in S,
         \A d \in S : d # c => f[d] = g[d]
  PROVE  /\ Totals(f)[S] \in Nat /\ Totals(g)[S] \in Nat
         /\ Totals(f)[S] + g[c] = Totals(g)[S] + f[c]
<1> DEFINE T == S \ {c}
           h == [x \in T |-> x]
           e == [x \in T |-> f[x]]
<1>1. Adding(Totals(f), f, S) /\ Adding(Totals(g), g, S)
  BY TotalsAdd
<1>2. /\ Totals(f)[S] = f[c] + Totals(f)[T] /\ Totals(g)[S] = g[c] + Totals(g)[T]
      /\ Totals(f)[T] \in Nat /\ Totals(g)[T] \in Nat
  <2>1. S \in SUBSET S /\ T \in SUBSET S
    OBVIOUS
  <2> HIDE DEF T
  <2>2. \A s \in SUBSET S : Totals(f)[s] \in Nat /\ Totals(g)[s] \in Nat
    BY <1>1, Zenon DEF Adding
  <2>3. \A s \in SUBSET S : \A x \in s : Totals(f)[s] = f[x] + Totals(f)[s \ {x}]
    BY <1>1, Zenon DEF Adding
  <2>4. \A s \in SUBSET S : \A x \in s : Totals(g)[s] = g[x] + Totals(g)[s \ {x}]
    BY <1>1, Zenon DEF Adding
  <2> QED
    BY <2>1, <2>2, <2>3, <2>4, Zenon DEF T
<1>3. IsFiniteSet(T) /\ e \in [T -> Nat]
  BY FS_RemoveElement
<1>4. Renames(h, e, T, f, T, S) /\ Renames(h, e, T, g, T, S)
  BY <1>3 DEF Renames
<1>5. Totals(e)[T] = Totals(f)[T] /\ Totals(e)[T] = Totals(g)[T]
  <2> HIDE DEF h, e, T
  <2> QED
    BY <1>4, SumRenamed
<1> DEFINE x == Totals(f)[T]
           y == Totals(f)[S]
           z == Totals(g)[S]
           i == f[c]
           j == g[c]
<1>6. y = i + x /\ z = j + x /\ x \in Nat /\ i \in Nat /\ j \in Nat
  BY <1>2, <1>5
<1>7. y \in Nat /\ z \in Nat /\ y + j = z + i
  <2> HIDE DEF x, y, z, i, j
  <2> QED
    BY <1>6
<1> QED
  BY <1>7

(* The sum of nothing. *)
LEMMA SumOfZeros ==
  ASSUME NEW S, IsFiniteSet(S), NEW f \in [S -> Nat], \A c \in S : f[c] = 0
  PROVE  Totals(f)[S] = 0
<1> DEFINE P == {s \in SUBSET S : Totals(f)[s] = 0}
<1>1. Adding(Totals(f), f, S)
  BY TotalsAdd
<1>2. {} \in P
  BY <1>1 DEF Adding
<1>3. ASSUME NEW s \in SUBSET S, NEW x \in S \ s, s \in P PROVE s \cup {x} \in P
  <2>1. Totals(f)[s \cup {x}] = f[x] + Totals(f)[(s \cup {x}) \ {x}]
    BY <1>1, Zenon DEF Adding
  <2>2. (s \cup {x}) \ {x} = s
    OBVIOUS
  <2>3. Totals(f)[s] = 0 /\ f[x] = 0
    BY <1>3
  <2> QED
    BY <2>1, <2>2, <2>3
<1> HIDE DEF P
<1>4. S \in P
  BY <1>2, <1>3, OneByOne
<1> QED
  BY <1>4 DEF P

(* A finite set has an element on which a function into the numbers is largest. *)
LEMMA LargestOf ==
  ASSUME NEW S, IsFiniteSet(S), S # {}, NEW f \in [S -> Nat]
  PROVE  \E x \in S : \A y \in S : f[y] <= f[x]
<1> DEFINE P == {s \in SUBSET S : s = {} \/ \E x \in s : \A y \in s : f[y] <= f[x]}
<1>1. {} \in P
  OBVIOUS
<1>2. ASSUME NEW s \in SUBSET S, NEW z \in S \ s, s \in P PROVE s \cup {z} \in P
  <2>1. CASE s = {}
    BY <2>1
  <2>2. CASE s # {}
    <3>1. PICK x \in s : \A y \in s : f[y] <= f[x]
      BY <1>2, <2>2
    <3>2. f[x] \in Nat /\ f[z] \in Nat /\ \A y \in s : f[y] \in Nat
      OBVIOUS
    <3>3. CASE f[z] <= f[x]
      BY <3>1, <3>2, <3>3
    <3>4. CASE f[x] <= f[z]
      BY <3>1, <3>2, <3>4
    <3> QED
      BY <3>2, <3>3, <3>4
  <2> QED
    BY <2>1, <2>2
<1> HIDE DEF P
<1>3. S \in P
  BY <1>1, <1>2, OneByOne
<1> QED
  BY <1>3 DEF P

-----------------------------------------------------------------------------
(* Quotas: QuotaLedger *)

Fields == {"turns", "input", "output", "cost"}

(* Counters that count nothing. *)
LEMMA EmptyIs ==
  /\ DOMAIN Empty = Fields /\ Empty \in [Fields -> Nat] /\ \A f \in Fields : Empty[f] = 0
BY DEF Empty, Fields

(* A window is numbered by a time, where an instant has one. *)
LEMMA WindowIs ==
  ASSUME QuotaConstants, NEW q \in Periods, NEW at \in Nat
  PROVE  window(q, at) \in (0 .. QuMaxTime) \cup {PlNone}
<1>1. CASE q = "total"
  <2>1. window(q, at) = 0
    BY <1>1 DEF window
  <2> QED
    BY <2>1 DEF QuotaConstants
<1>2. CASE q # "total" /\ ~representable(at)
  BY <1>2 DEF window
<1>3. CASE q # "total" /\ representable(at)
  <2> DEFINE l == QuLength[q]
  <2>1. window(q, at) = at \div l /\ at <= QuMaxTime
    BY <1>3 DEF window, representable
  <2>2. l \in Nat \ {0} /\ QuMaxTime \in Nat
    BY <1>3 DEF QuotaConstants
  <2> HIDE DEF l
  <2>3. at \div l \in Nat /\ at \div l <= at
    BY <2>2
  <2>4. \A x \in Nat : x <= at => x \in 0 .. QuMaxTime
    BY <2>1, <2>2
  <2>5. at \div l \in 0 .. QuMaxTime
    BY <2>3, <2>4
  <2> QED
    BY <2>1, <2>5
<1> QED
  BY <1>1, <1>2, <1>3

(* A set laid out as a sequence. *)
LEMMA LaidOut ==
  ASSUME NEW S, IsFiniteSet(S)
  PROVE  /\ SetToSeq(S) \in Seq(S)
         /\ \A i, j \in DOMAIN SetToSeq(S) : SetToSeq(S)[i] = SetToSeq(S)[j] => i = j
         /\ \A x \in S : \E i \in DOMAIN SetToSeq(S) : SetToSeq(S)[i] = x
<1> DEFINE n == Cardinality(S)
           f == SetToSeq(S)
<1>1. n \in Nat
  BY FS_CardinalityType
<1>2. \E g \in [1 .. n -> S] : IsInjective(g)
  <2>1. ExistsBijection(1 .. n, S)
    BY FS_CardinalityType
  <2> QED
    BY <2>1 DEF ExistsBijection, Bijection, Injection
<1>3. f \in [1 .. n -> S] /\ IsInjective(f)
  BY <1>2, Zenon DEF SetToSeq
<1> HIDE DEF f, n
<1>4. f \in Injection(1 .. n, S)
  BY <1>3 DEF Injection
<1>5. Cardinality(1 .. n) = Cardinality(S) /\ IsFiniteSet(1 .. n)
  <2>1. 1 \in Int /\ n \in Int
    BY <1>1
  <2>2. Cardinality(1 .. n) = (IF 1 > n THEN 0 ELSE n - 1 + 1) /\ IsFiniteSet(1 .. n)
    BY <2>1, FS_Interval
  <2>3. (IF 1 > n THEN 0 ELSE n - 1 + 1) = n
    BY <1>1
  <2> QED
    BY <2>2, <2>3 DEF n
<1>6. f \in Surjection(1 .. n, S)
  BY <1>4, <1>5, FS_Injection
<1>7. DOMAIN f = 1 .. n /\ f \in Seq(S)
  BY <1>1, <1>3
<1> QED
  BY <1>3, <1>6, <1>7 DEF IsInjective, Surjection, f

\* The periods a subject is capped on, and whom a principal's turns are charged to.
PeriodsOf(s) == {r.period : r \in {x \in Range(quDoc.limits) : matches_pattern(x.subject, s)}}
ChargedTo(p) == {p.id, p.owner} \ {PlNone}

LEMMA PeriodsFinite ==
  ASSUME QuotaConstants, quDoc \in QuDocuments, NEW s
  PROVE  IsFiniteSet(PeriodsOf(s)) /\ PeriodsOf(s) \in SUBSET Periods
<1>1. IsFiniteSet(Periods)
  BY FS_AddElement DEF Periods, QuotaConstants
<1>2. PeriodsOf(s) \in SUBSET Periods
  BY DEF PeriodsOf, QuotaConstants
<1> QED
  BY <1>1, <1>2, FS_Subset

\* A sequence without repetition, of just these elements.
Lists(q, S) ==
  /\ q \in Seq(S)
  /\ \A i, j \in DOMAIN q : q[i] = q[j] => i = j
  /\ \A x \in S : \E i \in DOMAIN q : q[i] = x

LEMMA Joined ==
  ASSUME NEW S, NEW T, S \cap T = {}, NEW a, NEW b, Lists(a, S), Lists(b, T)
  PROVE  Lists(a \o b, S \cup T)
<1> DEFINE q == a \o b
           m == Len(a)
           n == Len(b)
<1>1. a \in Seq(S) /\ b \in Seq(T) /\ m \in Nat /\ n \in Nat /\ DOMAIN a = 1 .. m /\ DOMAIN b = 1 .. n
  BY DEF Lists
<1>2. a \in Seq(S \cup T) /\ b \in Seq(S \cup T)
  BY <1>1
<1>3. q \in Seq(S \cup T) /\ DOMAIN q = 1 .. m + n
  BY <1>1, <1>2
<1>4. /\ \A i \in 1 .. m : q[i] = a[i] /\ q[i] \in S
      /\ \A i \in 1 .. n : q[m + i] = b[i] /\ q[m + i] \in T
  BY <1>1
<1>5. \A i \in 1 .. m + n : i \in 1 .. m \/ \E j \in 1 .. n : i = m + j
  <2> SUFFICES ASSUME NEW i \in 1 .. m + n, i \notin 1 .. m PROVE \E j \in 1 .. n : i = m + j
    OBVIOUS
  <2> HIDE DEF m, n
  <2>1. i - m \in 1 .. n /\ i = m + (i - m)
    BY <1>1
  <2> QED
    BY <2>1
<1>6. /\ \A i \in 1 .. m : i \in 1 .. m + n
      /\ \A j \in 1 .. n : m + j \in 1 .. m + n
  <2> HIDE DEF m, n
  <2> QED
    BY <1>1
<1>7. /\ \A i, j \in 1 .. m : a[i] = a[j] => i = j
      /\ \A i, j \in 1 .. n : b[i] = b[j] => i = j
      /\ \A x \in S : \E i \in 1 .. m : a[i] = x
      /\ \A x \in T : \E i \in 1 .. n : b[i] = x
  <2> HIDE DEF m, n
  <2> QED
    BY <1>1 DEF Lists
<1> HIDE DEF q, m, n
<1>8. ASSUME NEW i \in 1 .. m + n, NEW j \in 1 .. m + n, q[i] = q[j] PROVE i = j
  <2>1. CASE i \in 1 .. m /\ j \in 1 .. m
    BY <1>4, <1>7, <1>8, <2>1
  <2>2. CASE i \in 1 .. m /\ j \notin 1 .. m
    <3>1. PICK y \in 1 .. n : j = m + y
      BY <1>5, <2>2
    <3> QED
      BY <1>4, <1>8, <2>2, <3>1
  <2>3. CASE i \notin 1 .. m /\ j \in 1 .. m
    <3>1. PICK x \in 1 .. n : i = m + x
      BY <1>5, <2>3
    <3> QED
      BY <1>4, <1>8, <2>3, <3>1
  <2>4. CASE i \notin 1 .. m /\ j \notin 1 .. m
    <3>1. PICK x \in 1 .. n : i = m + x
      BY <1>5, <2>4
    <3>2. PICK y \in 1 .. n : j = m + y
      BY <1>5, <2>4
    <3>3. x = y
      BY <1>4, <1>7, <1>8, <3>1, <3>2
    <3> QED
      BY <3>1, <3>2, <3>3
  <2> QED
    BY <2>1, <2>2, <2>3, <2>4
<1>9. ASSUME NEW x \in S \cup T PROVE \E i \in 1 .. m + n : q[i] = x
  <2>1. CASE x \in S
    <3>1. PICK i \in 1 .. m : a[i] = x
      BY <1>7, <2>1
    <3> QED
      BY <1>4, <1>6, <3>1
  <2>2. CASE x \in T
    <3>1. PICK i \in 1 .. n : b[i] = x
      BY <1>7, <2>2
    <3> QED
      BY <1>4, <1>6, <3>1
  <2> QED
    BY <2>1, <2>2
<1> QED
  BY <1>3, <1>8, <1>9 DEF Lists, q

\* The writes of a charge: a subject and a period it is capped on.
DuePairs(p) == UNION {{s} \X PeriodsOf(s) : s \in ChargedTo(p)}

(* A charge writes once for each subject and each period it is capped on. *)
LEMMA DueLists ==
  ASSUME QuotaConstants, quDoc \in QuDocuments, NEW p \in QuPrincipals
  PROVE  Lists(due_of(p), DuePairs(p)) /\ DuePairs(p) \in SUBSET (Subjects_ \X Periods)
<1>1. ASSUME NEW s PROVE Lists(due_from(s), {s} \X PeriodsOf(s))
  <2> DEFINE P == periods_for(s)
  <2>1. P = SetToSeq(PeriodsOf(s))
    BY DEF periods_for, PeriodsOf
  <2>2. Lists(P, PeriodsOf(s))
    <3> HIDE DEF P
    <3> QED
      BY <2>1, PeriodsFinite, LaidOut DEF Lists
  <2>3. due_from(s) = [j \in DOMAIN P |-> <<s, P[j]>>]
    BY DEF due_from
  <2>4. P \in Seq(PeriodsOf(s)) /\ DOMAIN P = 1 .. Len(P) /\ Len(P) \in Nat
    <3> HIDE DEF P
    <3> QED
      BY <2>2 DEF Lists
  <2>5. \A i, j \in DOMAIN P : P[i] = P[j] => i = j
    BY <2>2 DEF Lists
  <2>6. \A x \in PeriodsOf(s) : \E i \in DOMAIN P : P[i] = x
    BY <2>2 DEF Lists
  <2> DEFINE D == due_from(s)
  <2> HIDE DEF P
  <2>7. D \in Seq({s} \X PeriodsOf(s)) /\ DOMAIN D = DOMAIN P /\ \A j \in DOMAIN P : D[j] = <<s, P[j]>>
    BY <2>3, <2>4
  <2> HIDE DEF D
  <2>8. \A i, j \in DOMAIN D : D[i] = D[j] => i = j
    BY <2>5, <2>7
  <2>9. ASSUME NEW x \in {s} \X PeriodsOf(s) PROVE \E i \in DOMAIN D : D[i] = x
    <3>1. PICK y \in PeriodsOf(s) : x = <<s, y>>
      OBVIOUS
    <3>2. PICK i \in DOMAIN P : P[i] = y
      BY <2>6
    <3> QED
      BY <2>7, <3>1, <3>2
  <2> QED
    BY <2>7, <2>8, <2>9 DEF Lists, D
<1>2. p.id # PlNone
  BY DEF QuotaConstants
<1>3. DuePairs(p) \in SUBSET (Subjects_ \X Periods)
  <2> SUFFICES ASSUME NEW s \in ChargedTo(p), NEW x \in {s} \X PeriodsOf(s)
               PROVE  x \in Subjects_ \X Periods
    BY DEF DuePairs
  <2>1. s \in Subjects_
    BY DEF ChargedTo, Subjects_
  <2>2. PeriodsOf(s) \in SUBSET Periods
    BY PeriodsFinite
  <2> QED
    BY <2>1, <2>2
<1>4. CASE p.owner \in {PlNone, p.id}
  <2>1. due_of(p) = due_from(p.id) \o <<>>
    BY <1>4 DEF due_of
  <2>2. due_from(p.id) \in Seq({p.id} \X PeriodsOf(p.id))
    BY <1>1 DEF Lists
  <2>3. due_of(p) = due_from(p.id)
    <3> HIDE DEF due_from
    <3> QED
      BY <2>1, <2>2
  <2>4. ChargedTo(p) = {p.id}
    BY <1>2, <1>4 DEF ChargedTo
  <2>5. DuePairs(p) = {p.id} \X PeriodsOf(p.id)
    BY <2>4 DEF DuePairs
  <2> QED
    BY <1>1, <1>3, <2>3, <2>5
<1>5. CASE p.owner \notin {PlNone, p.id}
  <2> DEFINE S == {p.id} \X PeriodsOf(p.id)
             T == {p.owner} \X PeriodsOf(p.owner)
  <2>1. due_of(p) = due_from(p.id) \o due_from(p.owner)
    BY <1>5 DEF due_of
  <2>2. S \cap T = {}
    BY <1>5
  <2>3. ChargedTo(p) = {p.id, p.owner}
    BY <1>2, <1>5 DEF ChargedTo
  <2>4. DuePairs(p) = S \cup T
    BY <2>3 DEF DuePairs
  <2>5. Lists(due_from(p.id), S) /\ Lists(due_from(p.owner), T)
    BY <1>1
  <2> HIDE DEF S, T
  <2> QED
    BY <1>3, <2>1, <2>2, <2>4, <2>5, Joined
<1> QED
  BY <1>4, <1>5
-----------------------------------------------------------------------------
\* The row a write goes to, by when the charge was made.
RowAt(at, x) == <<x[1], x[2], window(x[2], at)>>

(* What is owed, by row, is what the writes of the charge go to. *)
LEMMA OwedIs ==
  ASSUME QuotaConstants, quDoc \in QuDocuments, NEW p \in QuPrincipals, NEW at
  PROVE  Owed(quDoc, p, at) = {RowAt(at, x) : x \in DuePairs(p)}
<1> DEFINE R == Range(quDoc.limits)
           W == {x \in (ChargedTo(p) \X R) : matches_pattern(x[2].subject, x[1])}
<1>1. Owed(quDoc, p, at) = {<<x[1], x[2].period, window(x[2].period, at)>> : x \in W}
  BY DEF Owed, ChargedTo
<1>2. ASSUME NEW x \in W
      PROVE  \E y \in DuePairs(p) : <<x[1], x[2].period, window(x[2].period, at)>> = RowAt(at, y)
  <2> DEFINE y == <<x[1], x[2].period>>
  <2>1. x[1] \in ChargedTo(p) /\ x[2].period \in PeriodsOf(x[1])
    BY DEF PeriodsOf
  <2>2. y \in {x[1]} \X PeriodsOf(x[1])
    BY <2>1
  <2>3. y \in DuePairs(p)
    BY <2>1, <2>2 DEF DuePairs
  <2> QED
    BY <2>3 DEF RowAt
<1>3. ASSUME NEW y \in DuePairs(p)
      PROVE  \E x \in W : RowAt(at, y) = <<x[1], x[2].period, window(x[2].period, at)>>
  <2>1. PICK s \in ChargedTo(p) : y \in {s} \X PeriodsOf(s)
    BY DEF DuePairs
  <2>2. y = <<s, y[2]>> /\ y[2] \in PeriodsOf(s)
    BY <2>1
  <2>3. PICK r \in R : matches_pattern(r.subject, s) /\ r.period = y[2]
    BY <2>2 DEF PeriodsOf
  <2> DEFINE x == <<s, r>>
  <2>4. x \in W
    BY <2>3
  <2> QED
    BY <2>2, <2>3, <2>4 DEF RowAt
<1> HIDE DEF W
<1> QED
  BY <1>1, <1>2, <1>3

-----------------------------------------------------------------------------
(* What a turn charges is a number of each. *)
LEMMA ClosenessIs ==
  ASSUME NEW key, key \in Seq(Range(key)), NEW model
  PROVE  Closeness(key, model) \in Nat
<1> DEFINE P == parse_pattern(key)
<1>1. CASE P.kind = "prefix" /\ IsPrefix(P.text, model)
  <2>1. P = Pattern("prefix", Front(key)) /\ Len(key) > 0
    BY <1>1 DEF parse_pattern, Pattern
  <2>2. P.text = Front(key)
    BY <2>1 DEF Pattern
  <2>3. Front(key) \in Seq(Range(key)) /\ Len(Front(key)) \in Nat
    BY <2>1 DEF Front
  <2>4. Closeness(key, model) = Len(P.text) + 2
    BY <1>1 DEF Closeness
  <2> HIDE DEF P
  <2> QED
    BY <2>2, <2>3, <2>4
<1>2. CASE P.kind = "any"
  BY <1>2 DEF Closeness
<1>3. CASE ~(P.kind = "prefix" /\ IsPrefix(P.text, model)) /\ P.kind # "any"
  <2>1. Closeness(key, model) = 0
    <3> HIDE DEF P
    <3> QED
      BY <1>3 DEF Closeness, P
  <2> QED
    BY <2>1
<1> QED
  BY <1>1, <1>2, <1>3

(* A price that is found is a price of the document. *)
LEMMA PriceIs ==
  ASSUME QuotaConstants, NEW doc \in QuDocuments, NEW model
  PROVE  \/ price(doc, model) = PlNone
         \/ price(doc, model).input \in Nat /\ price(doc, model).output \in Nat
<1> DEFINE near == {k \in DOMAIN doc.prices : Closeness(k, model) > 0}
           best == CHOOSE k \in near : \A j \in near : Closeness(j, model) <= Closeness(k, model)
<1>0. /\ IsFiniteSet(DOMAIN doc.prices)
      /\ \A m \in DOMAIN doc.prices :
           /\ m \in Seq(Range(m))
           /\ doc.prices[m].input \in Nat /\ doc.prices[m].output \in Nat
  BY DEF QuotaConstants
<1>1. CASE model \in DOMAIN doc.prices
  <2>1. price(doc, model) = doc.prices[model]
    BY <1>1 DEF price
  <2> QED
    BY <1>0, <1>1, <2>1
<1>2. CASE model \notin DOMAIN doc.prices /\ near = {}
  BY <1>2 DEF price
<1>3. CASE model \notin DOMAIN doc.prices /\ near # {}
  <2>1. price(doc, model) = doc.prices[best]
    BY <1>3 DEF price
  <2>2. IsFiniteSet(near)
    BY <1>0, FS_Subset
  <2> DEFINE f == [k \in near |-> Closeness(k, model)]
  <2>3. f \in [near -> Nat]
    BY <1>0, ClosenessIs
  <2>4. \E k \in near : \A j \in near : f[j] <= f[k]
    <3> HIDE DEF f, near
    <3> QED
      BY <1>3, <2>2, <2>3, LargestOf
  <2>5. \E k \in near : \A j \in near : Closeness(j, model) <= Closeness(k, model)
    BY <2>4
  <2>6. best \in near
    <3> HIDE DEF near
    <3> QED
      BY <2>5, Zenon
  <2>7. best \in DOMAIN doc.prices
    <3> HIDE DEF best
    <3> QED
      BY <2>6
  <2> HIDE DEF best
  <2> QED
    BY <1>0, <2>1, <2>7
<1> QED
  BY <1>1, <1>2, <1>3

(* What record() adds to each row: a number of each kind, one turn at least. *)
LEMMA DeltaIs ==
  ASSUME QuotaConstants, quDoc \in QuDocuments, NEW charge \in QuCharges
  PROVE  charge_delta(charge) \in [Fields -> Nat] /\ charge_delta(charge)["turns"] > 0
<1> DEFINE p == price(quDoc, charge.model)
           i == charge.input
           o == charge.output
           a == p.input
           b == p.output
           d == charge_delta(charge)
<1>1. i \in Nat /\ o \in Nat /\ charge.turns \in Nat /\ charge.turns > 0 /\ QuPerPrice \in Nat \ {0} /\ QuMaxCount \in Nat
  BY DEF QuotaConstants
<1>2. p = PlNone \/ (a \in Nat /\ b \in Nat)
  BY PriceIs
<1>3. d = [turns |-> charge.turns, input |-> i, output |-> o,
           cost |-> IF p = PlNone THEN 0 ELSE Saturated((i * a + o * b) \div QuPerPrice)]
  BY DEF charge_delta, cost_micros
<1> HIDE DEF d, p, i, o, a, b
<1>4. p # PlNone => Saturated((i * a + o * b) \div QuPerPrice) \in Nat
  <2> SUFFICES ASSUME a \in Nat, b \in Nat PROVE Saturated((i * a + o * b) \div QuPerPrice) \in Nat
    BY <1>2
  <2>1. i * a + o * b \in Nat
    BY <1>1
  <2>2. (i * a + o * b) \div QuPerPrice \in Nat
    BY <1>1, <2>1
  <2> QED
    BY <1>1, <2>2 DEF Saturated
<1>5. d \in [Fields -> Nat] /\ d["turns"] = charge.turns
  BY <1>1, <1>3, <1>4 DEF Fields
<1> QED
  BY <1>1, <1>5 DEF d

-----------------------------------------------------------------------------
(* Where a turn is: a charge has writes left, each to a row it owes. *)

Spends == [Fields -> Nat]

ChargingShape(doc, t) ==
  /\ t.pc = "charging" /\ {"pc", "as", "now", "left", "delta"} \subseteq DOMAIN t
  /\ t.as \in QuPrincipals /\ t.now \in Nat
  /\ t.left \in Seq(Subjects_ \X Periods) /\ t.left # <<>>
  /\ \A i, j \in DOMAIN t.left : t.left[i] = t.left[j] => i = j
  /\ \A i \in DOMAIN t.left : RowAt(t.now, t.left[i]) \in Owed(doc, t.as, t.now)
  /\ t.delta \in Spends /\ t.delta["turns"] > 0

TurnShape(doc, t) ==
  \/ t.pc = "idle"
  \/ /\ t.pc \in {"admitted", "reading"} /\ {"pc", "as"} \subseteq DOMAIN t
     /\ t.as \in QuPrincipals /\ doc \in QuDocuments
  \/ ChargingShape(doc, t) /\ doc \in QuDocuments

StillDue(t) == {RowAt(t.now, t.left[i]) : i \in DOMAIN t.left}

\* What a turn is yet to write in a row, and what it has written of a charge not complete.
Come(t, k, f) == IF t.pc = "charging" /\ k \in StillDue(t) THEN t.delta[f] ELSE 0
Part(doc, t, k, f) ==
  IF t.pc = "charging" /\ k \in Owed(doc, t.as, t.now) /\ k \notin StillDue(t) THEN t.delta[f] ELSE 0

\* The same of all turns.
Coming(turns, k, f) == Totals([c \in QuCallers |-> Come(turns[c], k, f)])[QuCallers]
Landed(doc, turns, k, f) == Totals([c \in QuCallers |-> Part(doc, turns[c], k, f)])[QuCallers]

Shaped(doc, turns) == DOMAIN turns = QuCallers /\ \A c \in QuCallers : TurnShape(doc, turns[c])

(* Both are amounts. *)
LEMMA AmountsAre ==
  ASSUME NEW doc, NEW t, TurnShape(doc, t), NEW k, NEW f \in Fields
  PROVE  Come(t, k, f) \in Nat /\ Part(doc, t, k, f) \in Nat
<1>1. CASE t.pc = "charging"
  <2>1. t.delta[f] \in Nat
    BY <1>1 DEF TurnShape, ChargingShape, Spends
  <2> QED
    BY <2>1 DEF Come, Part
<1>2. CASE t.pc # "charging"
  BY <1>2 DEF Come, Part
<1> QED
  BY <1>1, <1>2

\* turns becomes turned in one place.
OneTurn(doc, turns, turned, c) ==
  /\ Shaped(doc, turns) /\ Shaped(doc, turned) /\ c \in QuCallers
  /\ \A d \in QuCallers : d # c => turned[d] = turns[d]

(* Then the sums change by what that turn's amounts change by. *)
LEMMA TurnChanges ==
  ASSUME QuotaConstants, NEW doc, NEW turns, NEW turned, NEW c, OneTurn(doc, turns, turned, c),
         NEW k, NEW f \in Fields
  PROVE  /\ Coming(turns, k, f) \in Nat /\ Coming(turned, k, f) \in Nat
         /\ Landed(doc, turns, k, f) \in Nat /\ Landed(doc, turned, k, f) \in Nat
         /\ Coming(turns, k, f) + Come(turned[c], k, f) = Coming(turned, k, f) + Come(turns[c], k, f)
         /\ Landed(doc, turns, k, f) + Part(doc, turned[c], k, f)
              = Landed(doc, turned, k, f) + Part(doc, turns[c], k, f)
<1> DEFINE a == [d \in QuCallers |-> Come(turns[d], k, f)]
           b == [d \in QuCallers |-> Come(turned[d], k, f)]
           g == [d \in QuCallers |-> Part(doc, turns[d], k, f)]
           h == [d \in QuCallers |-> Part(doc, turned[d], k, f)]
<1>1. IsFiniteSet(QuCallers) /\ c \in QuCallers
  BY DEF QuotaConstants, OneTurn
<1>2. a \in [QuCallers -> Nat] /\ b \in [QuCallers -> Nat]
  BY AmountsAre DEF OneTurn, Shaped
<1>3. g \in [QuCallers -> Nat] /\ h \in [QuCallers -> Nat]
  BY AmountsAre DEF OneTurn, Shaped
<1>4. \A d \in QuCallers : d # c => a[d] = b[d] /\ g[d] = h[d]
  BY DEF OneTurn
<1>5. /\ Totals(a)[QuCallers] \in Nat /\ Totals(b)[QuCallers] \in Nat
      /\ Totals(a)[QuCallers] + b[c] = Totals(b)[QuCallers] + a[c]
  <2> HIDE DEF a, b, g, h
  <2> QED
    BY <1>1, <1>2, <1>4, SumChange
<1>6. /\ Totals(g)[QuCallers] \in Nat /\ Totals(h)[QuCallers] \in Nat
      /\ Totals(g)[QuCallers] + h[c] = Totals(h)[QuCallers] + g[c]
  <2> HIDE DEF a, b, g, h
  <2> QED
    BY <1>1, <1>3, <1>4, SumChange
<1>7. /\ a[c] = Come(turns[c], k, f) /\ b[c] = Come(turned[c], k, f)
      /\ g[c] = Part(doc, turns[c], k, f) /\ h[c] = Part(doc, turned[c], k, f)
  BY <1>1
<1>8. /\ Coming(turns, k, f) = Totals(a)[QuCallers] /\ Coming(turned, k, f) = Totals(b)[QuCallers]
      /\ Landed(doc, turns, k, f) = Totals(g)[QuCallers] /\ Landed(doc, turned, k, f) = Totals(h)[QuCallers]
  BY DEF Coming, Landed
<1> HIDE DEF a, b, g, h
<1> QED
  BY <1>5, <1>6, <1>7, <1>8

(* One turn's part of what is to come is no more than all of it. *)
LEMMA ComesOfOne ==
  ASSUME QuotaConstants, NEW doc, NEW turns, Shaped(doc, turns), NEW c \in QuCallers,
         NEW k, NEW f \in Fields
  PROVE  Come(turns[c], k, f) \in Nat /\ Coming(turns, k, f) \in Nat
         /\ Come(turns[c], k, f) <= Coming(turns, k, f)
<1> DEFINE a == [d \in QuCallers |-> Come(turns[d], k, f)]
           x == Totals(a)[QuCallers]
           y == Totals(a)[QuCallers \ {c}]
<1>1. IsFiniteSet(QuCallers)
  BY DEF QuotaConstants
<1>2. a \in [QuCallers -> Nat]
  BY AmountsAre DEF Shaped
<1>3. Adding(Totals(a), a, QuCallers)
  <2> HIDE DEF a
  <2> QED
    BY <1>1, <1>2, TotalsAdd
<1>4. /\ \A s \in SUBSET QuCallers : Totals(a)[s] \in Nat
      /\ \A s \in SUBSET QuCallers : \A z \in s : Totals(a)[s] = a[z] + Totals(a)[s \ {z}]
  <2> HIDE DEF a
  <2> QED
    BY <1>3, Zenon DEF Adding
<1>5. QuCallers \in SUBSET QuCallers /\ QuCallers \ {c} \in SUBSET QuCallers
  OBVIOUS
<1>6. x \in Nat /\ y \in Nat /\ x = a[c] + y
  <2> HIDE DEF a
  <2> QED
    BY <1>4, <1>5, Zenon
<1>7. a[c] = Come(turns[c], k, f) /\ x = Coming(turns, k, f)
  BY DEF Coming
<1>8. a[c] \in Nat
  BY <1>2
<1> HIDE DEF a, x, y
<1> QED
  BY <1>6, <1>7, <1>8

(* Nothing is on its way while every turn is idle. *)
LEMMA NoneComes ==
  ASSUME QuotaConstants, NEW doc, NEW k, NEW f
  PROVE  /\ Coming([c \in QuCallers |-> Idle], k, f) = 0
         /\ Landed(doc, [c \in QuCallers |-> Idle], k, f) = 0
<1> DEFINE I == [c \in QuCallers |-> Idle]
           a == [c \in QuCallers |-> Come(I[c], k, f)]
           g == [c \in QuCallers |-> Part(doc, I[c], k, f)]
<1>1. \A c \in QuCallers : a[c] = 0 /\ g[c] = 0
  BY DEF Come, Part, Idle
<1>2. a \in [QuCallers -> Nat] /\ g \in [QuCallers -> Nat] /\ IsFiniteSet(QuCallers)
  BY <1>1 DEF QuotaConstants
<1>3. Totals(a)[QuCallers] = 0 /\ Totals(g)[QuCallers] = 0
  <2> HIDE DEF a, g
  <2> QED
    BY <1>1, <1>2, SumOfZeros
<1> QED
  BY <1>3 DEF Coming, Landed

-----------------------------------------------------------------------------
(* The tables, row by row: a table as a function of every row there may be. *)

Whole(table) == [k \in Rows |-> usage(table, k)]

\* What a charge and a write do to such a function.
Raised(h, S, delta) ==
  [k \in Rows |-> IF k \in S THEN [f \in DOMAIN delta |-> h[k][f] + delta[f]] ELSE h[k]]
Raise(rows, s, p, w, delta) ==
  [k \in Rows |->
     CASE k = <<s, p, w>> -> saturating_add(rows[k], delta)
       [] k[1] = s /\ k[2] = p /\ k[3] < w -> Empty
       [] OTHER -> rows[k]]

(* A charge raises exactly the rows it owes. *)
LEMMA GrownIs ==
  ASSUME NEW h \in [Rows -> Spends], NEW S, NEW delta \in Spends
  PROVE  /\ Raised(h, S, delta) \in [Rows -> Spends]
         /\ \A k \in Rows : k \notin S => Raised(h, S, delta)[k] = h[k]
         /\ \A k \in Rows, f \in Fields : k \in S => Raised(h, S, delta)[k][f] = h[k][f] + delta[f]
<1>1. DOMAIN delta = Fields
  BY DEF Spends
<1>2. Raised(h, S, delta) = [k \in Rows |-> IF k \in S THEN [f \in Fields |-> h[k][f] + delta[f]] ELSE h[k]]
  BY <1>1 DEF Raised
<1>3. \A k \in Rows, f \in Fields : h[k][f] \in Nat /\ delta[f] \in Nat /\ h[k][f] + delta[f] \in Nat
  BY DEF Spends
<1>4. \A k \in Rows : [f \in Fields |-> h[k][f] + delta[f]] \in Spends
  BY <1>3 DEF Spends
<1> QED
  BY <1>2, <1>4

\* A write adds to its row, as far as the width goes, and drops only the windows before it.
Added(next, rows, s, p, w, delta) ==
  /\ next \in [Rows -> Spends]
  /\ \A k \in Rows, f \in Fields : next[k][f] <= QuMaxCount
  /\ \A k \in Rows, f \in Fields : k = <<s, p, w>> =>
       next[k][f] <= rows[k][f] + delta[f]
       /\ (next[k][f] = rows[k][f] + delta[f] \/ next[k][f] = QuMaxCount)
  /\ \A k \in Rows : k # <<s, p, w>> =>
       next[k] = rows[k] \/ (next[k] = Empty /\ k[1] = s /\ k[2] = p /\ w > k[3])

(* UsageLedger::add is such a write. *)
LEMMA AddIs ==
  ASSUME QuotaConstants, NEW rows \in [Rows -> Spends], NEW s, NEW p, NEW w \in 0 .. QuMaxTime,
         NEW delta \in Spends, \A k \in Rows, f \in Fields : rows[k][f] <= QuMaxCount
  PROVE  Added(Raise(rows, s, p, w, delta), rows, s, p, w, delta)
<1> DEFINE k0 == <<s, p, w>>
           next == Raise(rows, s, p, w, delta)
<1>0. QuMaxCount \in Nat /\ w \in Nat /\ QuMaxTime \in Nat
  BY DEF QuotaConstants
<1>1. \A k \in Rows : k = k0 => next[k] = [f \in Fields |-> Saturated(rows[k][f] + delta[f])]
  <2> SUFFICES ASSUME NEW k \in Rows, k = k0 PROVE next[k] = [f \in Fields |-> Saturated(rows[k][f] + delta[f])]
    OBVIOUS
  <2>1. ~(k[3] < w)
    BY <1>0
  <2>2. next[k] = saturating_add(rows[k], delta)
    BY <2>1 DEF Raise
  <2>3. DOMAIN rows[k] = Fields
    BY DEF Spends
  <2> QED
    BY <2>2, <2>3 DEF saturating_add
<1>2. \A k \in Rows : k # k0 =>
        next[k] = rows[k] \/ (next[k] = Empty /\ k[1] = s /\ k[2] = p /\ w > k[3])
  <2> SUFFICES ASSUME NEW k \in Rows, k # k0
               PROVE  next[k] = rows[k] \/ (next[k] = Empty /\ k[1] = s /\ k[2] = p /\ w > k[3])
    OBVIOUS
  <2>1. CASE k[1] = s /\ k[2] = p /\ k[3] < w
    <3>1. k[3] \in Nat
      BY <1>0 DEF Rows
    <3> QED
      BY <1>0, <2>1, <3>1 DEF Raise
  <2>2. CASE ~(k[1] = s /\ k[2] = p /\ k[3] < w)
    BY <2>2 DEF Raise
  <2> QED
    BY <2>1, <2>2
<1>3. \A k \in Rows, f \in Fields :
        LET x == Saturated(rows[k][f] + delta[f])
        IN  /\ x \in Nat /\ x <= QuMaxCount /\ x <= rows[k][f] + delta[f]
            /\ x = rows[k][f] + delta[f] \/ x = QuMaxCount
  <2> SUFFICES ASSUME NEW k \in Rows, NEW f \in Fields
               PROVE  LET x == Saturated(rows[k][f] + delta[f])
                      IN  /\ x \in Nat /\ x <= QuMaxCount /\ x <= rows[k][f] + delta[f]
                          /\ x = rows[k][f] + delta[f] \/ x = QuMaxCount
    OBVIOUS
  <2> DEFINE y == rows[k][f]
             z == delta[f]
  <2>1. y \in Nat /\ z \in Nat
    BY DEF Spends
  <2> HIDE DEF y, z
  <2>2. LET x == Saturated(y + z)
        IN  x \in Nat /\ x <= QuMaxCount /\ x <= y + z /\ (x = y + z \/ x = QuMaxCount)
    BY <1>0, <2>1 DEF Saturated
  <2> QED
    BY <2>2 DEF y, z
<1>4. \A k \in Rows : k = k0 => next[k] \in Spends
  <2> SUFFICES ASSUME NEW k \in Rows, k = k0 PROVE next[k] \in Spends
    OBVIOUS
  <2>1. next[k] = [f \in Fields |-> Saturated(rows[k][f] + delta[f])]
    BY <1>1
  <2>2. \A f \in Fields : Saturated(rows[k][f] + delta[f]) \in Nat
    BY <1>3
  <2> HIDE DEF next
  <2> QED
    BY <2>1, <2>2 DEF Spends
<1>5. \A k \in Rows : next[k] \in Spends
  BY <1>2, <1>4, EmptyIs DEF Spends
<1>6. next \in [Rows -> Spends]
  <2>1. DOMAIN next = Rows /\ next = [k \in Rows |-> next[k]]
    BY DEF Raise
  <2> HIDE DEF next
  <2> QED
    BY <1>5, <2>1
<1>7. \A k \in Rows, f \in Fields : next[k][f] <= QuMaxCount
  <2> SUFFICES ASSUME NEW k \in Rows, NEW f \in Fields PROVE next[k][f] <= QuMaxCount
    OBVIOUS
  <2>1. CASE k = k0
    BY <1>1, <1>3, <2>1
  <2>2. CASE k # k0
    <3>1. CASE next[k] = rows[k]
      BY <3>1
    <3>2. CASE next[k] = Empty
      <4>1. next[k][f] = 0
        BY <3>2, EmptyIs
      <4> QED
        BY <1>0, <4>1
    <3> QED
      BY <1>2, <2>2, <3>1, <3>2
  <2> QED
    BY <2>1, <2>2
<1>8. \A k \in Rows, f \in Fields : k = k0 =>
        next[k][f] <= rows[k][f] + delta[f]
        /\ (next[k][f] = rows[k][f] + delta[f] \/ next[k][f] = QuMaxCount)
  <2> SUFFICES ASSUME NEW k \in Rows, NEW f \in Fields, k = k0
               PROVE  next[k][f] <= rows[k][f] + delta[f]
                      /\ (next[k][f] = rows[k][f] + delta[f] \/ next[k][f] = QuMaxCount)
    OBVIOUS
  <2> DEFINE x == Saturated(rows[k][f] + delta[f])
  <2>1. next[k][f] = x
    BY <1>1
  <2>2. x <= rows[k][f] + delta[f] /\ (x = rows[k][f] + delta[f] \/ x = QuMaxCount)
    BY <1>3
  <2> HIDE DEF next, x
  <2> QED
    BY <2>1, <2>2
<1> HIDE DEF next
<1> QED
  BY <1>2, <1>6, <1>7, <1>8 DEF next, Added

-----------------------------------------------------------------------------
(* The books: what is in a row and what is on its way was begun; the latest window's row holds
   what was charged and what landed of the charges under way. *)

NewestIn(started, k) == \A j \in Rows :
  (j[1] = k[1] /\ j[2] = k[2] /\ j[3] > k[3]) => started[j] = Empty

BoundedAt(rows, turns, started, k, f) ==
  rows[k][f] + Coming(turns, k, f) <= started[k][f] /\ rows[k][f] <= QuMaxCount

HeldAt(doc, rows, turns, charged, k, f) ==
  rows[k][f] >= QuMaxCount \/ rows[k][f] >= charged[k][f] + Landed(doc, turns, k, f)

Balanced(doc, rows, turns, started, charged) ==
  /\ rows \in [Rows -> Spends] /\ started \in [Rows -> Spends] /\ charged \in [Rows -> Spends]
  /\ Shaped(doc, turns)
  /\ \A k \in Rows, f \in Fields : BoundedAt(rows, turns, started, k, f)
  /\ \A k \in Rows, f \in Fields : NewestIn(started, k) => HeldAt(doc, rows, turns, charged, k, f)

(* A turn that comes to rest, or moves on without a charge. *)
LEMMA RestKeeps ==
  ASSUME QuotaConstants, NEW doc, NEW rows, NEW turns, NEW started, NEW charged, NEW turned, NEW c,
         Balanced(doc, rows, turns, started, charged), OneTurn(doc, turns, turned, c),
         turned[c].pc # "charging"
  PROVE  Balanced(doc, rows, turned, started, charged)
<1>1. ASSUME NEW k \in Rows, NEW f \in Fields
      PROVE  /\ BoundedAt(rows, turned, started, k, f)
             /\ HeldAt(doc, rows, turns, charged, k, f) => HeldAt(doc, rows, turned, charged, k, f)
  <2> DEFINE r == rows[k][f]
             s == started[k][f]
             h == charged[k][f]
             a == Coming(turns, k, f)
             b == Coming(turned, k, f)
             x == Come(turns[c], k, f)
             l == Landed(doc, turns, k, f)
             m == Landed(doc, turned, k, f)
             y == Part(doc, turns[c], k, f)
  <2>1. r \in Nat /\ s \in Nat /\ h \in Nat
    BY DEF Balanced, Spends
  <2>2. Come(turned[c], k, f) = 0 /\ Part(doc, turned[c], k, f) = 0
    BY DEF Come, Part
  <2>3. x \in Nat /\ y \in Nat
    BY AmountsAre DEF OneTurn, Shaped
  <2>4. /\ a \in Nat /\ b \in Nat /\ l \in Nat /\ m \in Nat
        /\ a + 0 = b + x /\ l + 0 = m + y
    <3>1. /\ a \in Nat /\ b \in Nat /\ l \in Nat /\ m \in Nat
          /\ a + Come(turned[c], k, f) = b + x /\ l + Part(doc, turned[c], k, f) = m + y
      BY TurnChanges
    <3> HIDE DEF a, b, l, m, x, y
    <3> QED
      BY <2>2, <3>1
  <2>5. r + a <= s /\ r <= QuMaxCount
    BY DEF Balanced, BoundedAt
  <2>6. QuMaxCount \in Nat
    BY DEF QuotaConstants
  <2> HIDE DEF r, s, h, a, b, x, l, m, y
  <2>7. r + b <= s /\ r <= QuMaxCount /\ (r >= h + l => r >= h + m)
    BY <2>1, <2>3, <2>4, <2>5, <2>6
  <2> QED
    BY <2>7 DEF BoundedAt, HeldAt, r, s, h, b, l, m
<1>2. Shaped(doc, turned)
  BY DEF OneTurn
<1> QED
  BY <1>1, <1>2 DEF Balanced

(* What begins only grows, so a latest window was the latest before. *)
LEMMA NewestWas ==
  ASSUME NEW started \in [Rows -> Spends], NEW S, NEW delta \in Spends, NEW k \in Rows,
         NewestIn(Raised(started, S, delta), k)
  PROVE  NewestIn(started, k)
<1> DEFINE g == Raised(started, S, delta)
<1> SUFFICES ASSUME NEW j \in Rows, j[1] = k[1], j[2] = k[2], j[3] > k[3] PROVE started[j] = Empty
  BY DEF NewestIn
<1>1. g[j] = Empty
  BY DEF NewestIn
<1>2. CASE j \notin S
  <2>1. g[j] = started[j]
    BY <1>2, GrownIs
  <2> QED
    BY <1>1, <2>1
<1>3. CASE j \in S
  <2>1. \A f \in Fields : g[j][f] = started[j][f] + delta[f] /\ g[j][f] = 0
    BY <1>1, <1>3, GrownIs, EmptyIs
  <2> HIDE DEF g
  <2>2. ASSUME NEW f \in Fields PROVE started[j][f] = 0
    <3> DEFINE x == started[j][f]
               y == delta[f]
               z == g[j][f]
    <3>1. x \in Nat /\ y \in Nat /\ z = x + y /\ z = 0
      BY <2>1 DEF Spends
    <3> HIDE DEF x, y, z
    <3>2. x = 0
      BY <3>1
    <3> QED
      BY <3>2 DEF x
  <2>3. started[j] \in [Fields -> Nat]
    BY DEF Spends
  <2>4. started[j] = [f \in Fields |-> 0] /\ Empty = [f \in Fields |-> 0]
    BY <2>2, <2>3, EmptyIs
  <2> QED
    BY <2>4
<1> QED
  BY <1>2, <1>3

(* A charge begins: what it owes is begun in every row it is to write. *)
LEMMA StartKeeps ==
  ASSUME QuotaConstants, NEW doc, NEW rows, NEW turns, NEW started, NEW charged, NEW turned, NEW c,
         Balanced(doc, rows, turns, started, charged), OneTurn(doc, turns, turned, c),
         turns[c].pc # "charging", turned[c].pc = "charging", NEW S, NEW delta \in Spends,
         StillDue(turned[c]) = S, Owed(doc, turned[c].as, turned[c].now) = S, turned[c].delta = delta
  PROVE  Balanced(doc, rows, turned, Raised(started, S, delta), charged)
<1> DEFINE g == Raised(started, S, delta)
<1>0. rows \in [Rows -> Spends] /\ started \in [Rows -> Spends] /\ charged \in [Rows -> Spends]
  BY DEF Balanced
<1>1. ASSUME NEW k \in Rows, NEW f \in Fields
      PROVE  /\ BoundedAt(rows, turned, g, k, f)
             /\ HeldAt(doc, rows, turns, charged, k, f) => HeldAt(doc, rows, turned, charged, k, f)
  <2> DEFINE r == rows[k][f]
             s == started[k][f]
             n == g[k][f]
             h == charged[k][f]
             a == Coming(turns, k, f)
             b == Coming(turned, k, f)
             x == Come(turned[c], k, f)
             l == Landed(doc, turns, k, f)
             m == Landed(doc, turned, k, f)
  <2>1. r \in Nat /\ s \in Nat /\ h \in Nat
    BY <1>0 DEF Spends
  <2>2. /\ Come(turns[c], k, f) = 0 /\ Part(doc, turns[c], k, f) = 0
        /\ Part(doc, turned[c], k, f) = 0
    BY DEF Come, Part
  <2>3. /\ a \in Nat /\ b \in Nat /\ l \in Nat /\ m \in Nat
        /\ a + x = b + 0 /\ l + 0 = m + 0
    <3>1. /\ a \in Nat /\ b \in Nat /\ l \in Nat /\ m \in Nat
          /\ a + x = b + Come(turns[c], k, f)
          /\ l + Part(doc, turned[c], k, f) = m + Part(doc, turns[c], k, f)
      BY TurnChanges
    <3> HIDE DEF a, b, l, m, x
    <3> QED
      BY <2>2, <3>1
  <2>4. r + a <= s /\ r <= QuMaxCount
    BY DEF Balanced, BoundedAt
  <2>5. x \in Nat /\ n = s + x
    <3>1. CASE k \in S
      <4>1. x = delta[f] /\ delta[f] \in Nat
        BY <3>1 DEF Come, Spends
      <4>2. n = s + delta[f]
        BY <1>0, <3>1, GrownIs
      <4> QED
        BY <4>1, <4>2
    <3>2. CASE k \notin S
      <4>1. x = 0
        BY <3>2 DEF Come
      <4>2. n = s
        <5>1. g[k] = started[k]
          BY <1>0, <3>2, GrownIs
        <5> QED
          BY <5>1
      <4> HIDE DEF n, s, x
      <4> QED
        BY <2>1, <4>1, <4>2
    <3> QED
      BY <3>1, <3>2
  <2> HIDE DEF r, s, n, h, a, b, x, l, m
  <2>7. r + b <= n /\ r <= QuMaxCount /\ (r >= h + l => r >= h + m)
    BY <2>1, <2>3, <2>4, <2>5
  <2> QED
    BY <2>7 DEF BoundedAt, HeldAt, r, n, h, b, l, m
<1>2. Shaped(doc, turned)
  BY DEF OneTurn
<1>3. g \in [Rows -> Spends]
  BY <1>0, GrownIs
<1>4. ASSUME NEW k \in Rows, NEW f \in Fields, NewestIn(g, k)
      PROVE  HeldAt(doc, rows, turned, charged, k, f)
  <2>1. NewestIn(started, k)
    BY <1>0, <1>4, NewestWas
  <2>2. HeldAt(doc, rows, turns, charged, k, f)
    BY <2>1 DEF Balanced
  <2> QED
    BY <1>1, <2>2
<1> HIDE DEF g
<1>5. Balanced(doc, rows, turned, g, charged)
  BY <1>0, <1>1, <1>2, <1>3, <1>4 DEF Balanced
<1> QED
  BY <1>5 DEF g

(* A service that starts again, with the rows it kept or with none. *)
LEMMA IdleKeeps ==
  ASSUME QuotaConstants, NEW doc, NEW rows, NEW turns, NEW started, NEW charged,
         Balanced(doc, rows, turns, started, charged)
  PROVE  Balanced(doc, rows, [c \in QuCallers |-> Idle], started, charged)
<1> DEFINE I == [c \in QuCallers |-> Idle]
<1>0. /\ rows \in [Rows -> Spends] /\ started \in [Rows -> Spends] /\ charged \in [Rows -> Spends]
      /\ Shaped(doc, turns)
  BY DEF Balanced
<1>1. ASSUME NEW k \in Rows, NEW f \in Fields
      PROVE  /\ BoundedAt(rows, I, started, k, f)
             /\ HeldAt(doc, rows, turns, charged, k, f) => HeldAt(doc, rows, I, charged, k, f)
  <2> DEFINE r == rows[k][f]
             s == started[k][f]
             h == charged[k][f]
             a == Coming(turns, k, f)
             l == Landed(doc, turns, k, f)
  <2>1. r \in Nat /\ s \in Nat /\ h \in Nat
    BY <1>0 DEF Spends
  <2>2. Coming(I, k, f) = 0 /\ Landed(doc, I, k, f) = 0
    BY NoneComes
  <2>3. a \in Nat /\ l \in Nat
    <3>1. /\ IsFiniteSet(QuCallers)
          /\ [c \in QuCallers |-> Come(turns[c], k, f)] \in [QuCallers -> Nat]
          /\ [c \in QuCallers |-> Part(doc, turns[c], k, f)] \in [QuCallers -> Nat]
      BY <1>0, AmountsAre DEF Shaped, QuotaConstants
    <3>2. Adding(Totals([c \in QuCallers |-> Come(turns[c], k, f)]),
                 [c \in QuCallers |-> Come(turns[c], k, f)], QuCallers)
      BY <3>1, TotalsAdd, Zenon
    <3>3. Adding(Totals([c \in QuCallers |-> Part(doc, turns[c], k, f)]),
                 [c \in QuCallers |-> Part(doc, turns[c], k, f)], QuCallers)
      BY <3>1, TotalsAdd, Zenon
    <3>4. QuCallers \in SUBSET QuCallers
      OBVIOUS
    <3> QED
      BY <3>2, <3>3, <3>4, Zenon DEF Adding, Coming, Landed
  <2>4. r + a <= s /\ r <= QuMaxCount
    BY DEF Balanced, BoundedAt
  <2> HIDE DEF r, s, h, a, l
  <2>7. r + 0 <= s /\ r <= QuMaxCount /\ (r >= h + l => r >= h + 0)
    BY <2>1, <2>3, <2>4
  <2> HIDE DEF I
  <2> QED
    BY <2>2, <2>7 DEF BoundedAt, HeldAt, r, s, h, l
<1>2. Shaped(doc, I)
  BY DEF Shaped, TurnShape, Idle
<1> HIDE DEF I
<1>3. Balanced(doc, rows, I, started, charged)
  BY <1>0, <1>1, <1>2 DEF Balanced
<1> QED
  BY <1>3 DEF I

(* A ledger without rows. *)
LEMMA NoBooks ==
  ASSUME QuotaConstants, NEW doc
  PROVE  Balanced(doc, [k \in Rows |-> Empty], [c \in QuCallers |-> Idle], [k \in Rows |-> Empty],
               [k \in Rows |-> Empty])
<1> DEFINE E == [k \in Rows |-> Empty]
           I == [c \in QuCallers |-> Idle]
<1>1. E \in [Rows -> Spends]
  BY EmptyIs DEF Spends
<1>2. ASSUME NEW k \in Rows, NEW f \in Fields
      PROVE  BoundedAt(E, I, E, k, f) /\ HeldAt(doc, E, I, E, k, f)
  <2>1. E[k][f] = 0
    BY EmptyIs
  <2>2. Coming(I, k, f) = 0 /\ Landed(doc, I, k, f) = 0
    BY NoneComes
  <2>3. QuMaxCount \in Nat
    BY DEF QuotaConstants
  <2> HIDE DEF E, I
  <2> QED
    BY <2>1, <2>2, <2>3 DEF BoundedAt, HeldAt
<1>3. Shaped(doc, I)
  BY DEF Shaped, TurnShape, Idle
<1> HIDE DEF E, I
<1>4. Balanced(doc, E, I, E, E)
  BY <1>1, <1>2, <1>3 DEF Balanced
<1> QED
  BY <1>4 DEF E, I

-----------------------------------------------------------------------------
(* A write of a charge lands. *)

Share(k, k0, delta, f) == IF k = k0 THEN delta[f] ELSE 0

\* From t to u a charge lands its share in the row k0, and the history moves from before to after.
Shifts(doc, t, u, before, after, k0, delta) ==
  \A k \in Rows, f \in Fields :
    /\ Come(t, k, f) = Come(u, k, f) + Share(k, k0, delta, f)
    /\ after[k][f] + Part(doc, u, k, f) = before[k][f] + Part(doc, t, k, f) + Share(k, k0, delta, f)

(* Where a write is the last, and where it is not. *)
LEMMA WriteShifts ==
  ASSUME QuotaConstants, NEW doc, NEW t, ChargingShape(doc, t), doc \in QuDocuments,
         NEW charged \in [Rows -> Spends], NEW k0, k0 = RowAt(t.now, Head(t.left)), NEW u, NEW after,
         \/ Len(t.left) = 1 /\ u = Idle /\ after = Raised(charged, Owed(doc, t.as, t.now), t.delta)
         \/ Len(t.left) # 1 /\ u = [t EXCEPT !.left = Tail(@)] /\ after = charged
  PROVE  /\ Shifts(doc, t, u, charged, after, k0, t.delta)
         /\ TurnShape(doc, u) /\ after \in [Rows -> Spends]
<1> DEFINE q == t.left
           n == Len(q)
           S == Owed(doc, t.as, t.now)
<1>0. q \in Seq(Subjects_ \X Periods) /\ n \in Nat /\ n > 0 /\ DOMAIN q = 1 .. n
  BY DEF ChargingShape
<1>1. \A i, j \in 1 .. n : q[i] = q[j] => i = j
  BY <1>0 DEF ChargingShape
<1>2. \A i \in 1 .. n : RowAt(t.now, q[i]) \in S
  BY <1>0 DEF ChargingShape
<1>3. 1 \in 1 .. n /\ Head(q) = q[1]
  BY <1>0
<1>4. k0 \in S
  BY <1>2, <1>3
<1>5. t.pc = "charging" /\ t.delta \in Spends
  BY DEF ChargingShape
<1>6. ASSUME n = 1, u = Idle, after = Raised(charged, S, t.delta)
      PROVE  /\ Shifts(doc, t, u, charged, after, k0, t.delta)
             /\ TurnShape(doc, u) /\ after \in [Rows -> Spends]
  <2>1. StillDue(t) = {k0}
    BY <1>0, <1>3, <1>6 DEF StillDue
  <2>2. TurnShape(doc, u) /\ after \in [Rows -> Spends]
    BY <1>5, <1>6, GrownIs DEF TurnShape, Idle
  <2>3. ASSUME NEW k \in Rows, NEW f \in Fields
        PROVE  /\ Come(t, k, f) = Come(u, k, f) + Share(k, k0, t.delta, f)
               /\ after[k][f] + Part(doc, u, k, f)
                    = charged[k][f] + Part(doc, t, k, f) + Share(k, k0, t.delta, f)
    <3> DEFINE d == t.delta[f]
               b == charged[k][f]
               a == after[k][f]
    <3>1. d \in Nat /\ b \in Nat
      BY <1>5 DEF Spends
    <3>2. Come(u, k, f) = 0 /\ Part(doc, u, k, f) = 0
      BY <1>6 DEF Come, Part, Idle
    <3>3. CASE k = k0
      <4>1. Come(t, k, f) = d /\ Share(k, k0, t.delta, f) = d /\ Part(doc, t, k, f) = 0
        BY <1>5, <2>1, <3>3 DEF Come, Part, Share
      <4>2. a = b + d
        BY <1>4, <1>5, <1>6, <3>3, GrownIs
      <4> HIDE DEF a, b, d
      <4>3. d = 0 + d /\ a + 0 = b + 0 + d
        BY <3>1, <4>2
      <4> QED
        BY <3>2, <4>1, <4>3 DEF a, b
    <3>4. CASE k # k0 /\ k \in S
      <4>1. Come(t, k, f) = 0 /\ Share(k, k0, t.delta, f) = 0 /\ Part(doc, t, k, f) = d
        BY <1>5, <2>1, <3>4 DEF Come, Part, Share
      <4>2. a = b + d
        BY <1>4, <1>5, <1>6, <3>4, GrownIs
      <4> HIDE DEF a, b, d
      <4>3. a + 0 = b + d + 0
        BY <3>1, <4>2
      <4> QED
        BY <3>2, <4>1, <4>3 DEF a, b
    <3>5. CASE k # k0 /\ k \notin S
      <4>1. Come(t, k, f) = 0 /\ Share(k, k0, t.delta, f) = 0 /\ Part(doc, t, k, f) = 0
        BY <1>5, <2>1, <3>5 DEF Come, Part, Share
      <4>2. a = b
        <5>1. after[k] = charged[k]
          BY <1>5, <1>6, <3>5, GrownIs
        <5> QED
          BY <5>1
      <4> HIDE DEF a, b, d
      <4>3. a + 0 = b + 0 + 0
        BY <3>1, <4>2
      <4> QED
        BY <3>2, <4>1, <4>3 DEF a, b
    <3> QED
      BY <3>3, <3>4, <3>5
  <2> QED
    BY <2>2, <2>3 DEF Shifts
<1>7. ASSUME n # 1, u = [t EXCEPT !.left = Tail(@)], after = charged
      PROVE  /\ Shifts(doc, t, u, charged, after, k0, t.delta)
             /\ TurnShape(doc, u) /\ after \in [Rows -> Spends]
  <2>1. /\ u.pc = "charging" /\ u.as = t.as /\ u.now = t.now /\ u.left = Tail(q) /\ u.delta = t.delta
        /\ DOMAIN u = DOMAIN t
    BY <1>7 DEF ChargingShape
  <2> DEFINE v == Tail(q)
  <2>2. /\ v \in Seq(Subjects_ \X Periods) /\ DOMAIN v = 1 .. n - 1 /\ v # <<>>
        /\ \A i \in 1 .. n - 1 : i + 1 \in 1 .. n /\ v[i] = q[i + 1]
    <3>1. Len(v) = n - 1 /\ v \in Seq(Subjects_ \X Periods)
      BY <1>0
    <3>2. DOMAIN v = 1 .. n - 1 /\ v # <<>>
      <4>1. n - 1 # 0
        BY <1>0, <1>7
      <4> HIDE DEF v
      <4>2. v \in Seq(Subjects_ \X Periods)
        BY <3>1
      <4>3. DOMAIN v = 1 .. Len(v)
        BY <4>2
      <4>4. v = <<>> => Len(v) = 0
        OBVIOUS
      <4> QED
        BY <3>1, <4>1, <4>3, <4>4
    <3>3. \A i \in 1 .. n - 1 : i + 1 \in 1 .. n /\ v[i] = q[i + 1]
      BY <1>0
    <3> QED
      BY <3>1, <3>2, <3>3
  <2> HIDE DEF v, q
  <2>3. \A i \in 1 .. n - 1 : i \in Nat /\ i + 1 # 1
    BY <1>0
  <2>4. \A i, j \in 1 .. n - 1 : v[i] = v[j] => i = j
    <3> SUFFICES ASSUME NEW i \in 1 .. n - 1, NEW j \in 1 .. n - 1, v[i] = v[j] PROVE i = j
      OBVIOUS
    <3>1. i + 1 = j + 1
      BY <1>1, <2>2
    <3> QED
      BY <2>3, <3>1
  <2>5. ChargingShape(doc, u)
    <3>1. \A i \in DOMAIN v : RowAt(u.now, v[i]) \in Owed(doc, u.as, u.now)
      BY <1>2, <2>1, <2>2
    <3>2. u.left = v
      BY <2>1 DEF v
    <3>3. {"pc", "as", "now", "left", "delta"} \subseteq DOMAIN u /\ u.as \in QuPrincipals /\ u.now \in Nat
      BY <2>1 DEF ChargingShape
    <3>4. u.delta \in Spends /\ u.delta["turns"] > 0
      BY <2>1 DEF ChargingShape
    <3>5. \A i, j \in DOMAIN v : v[i] = v[j] => i = j
      BY <2>2, <2>4
    <3> QED
      BY <2>1, <2>2, <3>1, <3>2, <3>3, <3>4, <3>5 DEF ChargingShape
  <2>6. TurnShape(doc, u) /\ after \in [Rows -> Spends]
    BY <1>7, <2>5 DEF TurnShape
  <2>7. /\ StillDue(t) = {RowAt(t.now, q[i]) : i \in 1 .. n}
        /\ StillDue(u) = {RowAt(t.now, v[i]) : i \in 1 .. n - 1}
    <3>1. u.left = v /\ t.left = q
      BY <2>1 DEF v, q
    <3> QED
      BY <1>0, <2>1, <2>2, <3>1 DEF StillDue
  <2>8. k0 \notin StillDue(u)
    <3> SUFFICES ASSUME NEW i \in 1 .. n - 1, RowAt(t.now, v[i]) = k0 PROVE FALSE
      BY <2>7
    <3>1. RowAt(t.now, q[i + 1]) = RowAt(t.now, q[1]) /\ i + 1 \in 1 .. n
      BY <1>3, <2>2 DEF q
    <3>2. q[i + 1] \in Subjects_ \X Periods /\ q[1] \in Subjects_ \X Periods
      BY <1>0, <1>3, <3>1
    <3>3. q[i + 1] = q[1]
      BY <3>1, <3>2 DEF RowAt
    <3>4. i + 1 = 1
      BY <1>1, <1>3, <3>1, <3>3
    <3> QED
      BY <2>3, <3>4
  <2>9. StillDue(t) = {k0} \cup StillDue(u)
    <3>1. ASSUME NEW i \in 1 .. n PROVE RowAt(t.now, q[i]) \in {k0} \cup StillDue(u)
      <4>1. CASE i = 1
        BY <1>3, <4>1 DEF q
      <4>2. CASE i # 1
        <5>1. i - 1 \in 1 .. n - 1 /\ (i - 1) + 1 = i
          BY <1>0, <4>2
        <5>2. v[i - 1] = q[i]
          BY <2>2, <5>1
        <5> QED
          BY <2>7, <5>1, <5>2
      <4> QED
        BY <4>1, <4>2
    <3>2. ASSUME NEW i \in 1 .. n - 1 PROVE RowAt(t.now, v[i]) \in StillDue(t)
      BY <2>2, <2>7
    <3>3. k0 \in StillDue(t)
      BY <1>3, <2>7 DEF q
    <3> QED
      BY <2>7, <3>1, <3>2, <3>3
  <2>10. ASSUME NEW k \in Rows, NEW f \in Fields
         PROVE  /\ Come(t, k, f) = Come(u, k, f) + Share(k, k0, t.delta, f)
                /\ after[k][f] + Part(doc, u, k, f)
                     = charged[k][f] + Part(doc, t, k, f) + Share(k, k0, t.delta, f)
    <3> DEFINE d == t.delta[f]
               b == charged[k][f]
    <3>1. d \in Nat /\ b \in Nat
      BY <1>5 DEF Spends
    <3>2. CASE k = k0
      <4>1. /\ Come(t, k, f) = d /\ Share(k, k0, t.delta, f) = d /\ Part(doc, t, k, f) = 0
            /\ Come(u, k, f) = 0
        BY <1>5, <2>8, <2>9, <3>2 DEF Come, Part, Share
      <4>2. Part(doc, u, k, f) = d
        BY <1>4, <1>5, <2>1, <2>8, <3>2 DEF Part
      <4> HIDE DEF b, d
      <4>3. d = 0 + d /\ b + d = b + 0 + d
        BY <3>1
      <4> QED
        BY <1>7, <4>1, <4>2, <4>3 DEF b
    <3>3. CASE k # k0
      <4>1. (k \in StillDue(t)) <=> (k \in StillDue(u))
        BY <2>9, <3>3
      <4>2. Come(t, k, f) = Come(u, k, f) /\ Share(k, k0, t.delta, f) = 0
        BY <2>1, <1>5, <3>3, <4>1 DEF Come, Share
      <4>3. Part(doc, t, k, f) = Part(doc, u, k, f)
        BY <2>1, <1>5, <4>1 DEF Part
      <4> DEFINE x == Come(u, k, f)
                 y == Part(doc, u, k, f)
      <4>4. x \in Nat /\ y \in Nat
        BY <2>6, AmountsAre
      <4> HIDE DEF b, x, y
      <4>5. x = x + 0 /\ b + y = b + y + 0
        BY <3>1, <4>4
      <4> QED
        BY <1>7, <4>2, <4>3, <4>5 DEF b, x, y
    <3> QED
      BY <3>2, <3>3
  <2> QED
    BY <2>6, <2>10 DEF Shifts
<1> HIDE DEF S
<1>8. \/ n = 1 /\ u = Idle /\ after = Raised(charged, S, t.delta)
      \/ n # 1 /\ u = [t EXCEPT !.left = Tail(@)] /\ after = charged
  BY DEF S
<1> QED
  BY <1>6, <1>7, <1>8

(* The books balance when a write lands, whatever windows it drops: what it drops is not the
   latest, for the window it writes was begun. *)
LEMMA WriteKeeps ==
  ASSUME QuotaConstants, NEW doc, NEW rows, NEW turns, NEW started, NEW charged, NEW turned, NEW c,
         NEW after, NEW s, NEW p, NEW w \in 0 .. QuMaxTime,
         Balanced(doc, rows, turns, started, charged), OneTurn(doc, turns, turned, c),
         ChargingShape(doc, turns[c]), <<s, p, w>> \in StillDue(turns[c]), <<s, p, w>> \in Rows,
         after \in [Rows -> Spends],
         Shifts(doc, turns[c], turned[c], charged, after, <<s, p, w>>, turns[c].delta)
  PROVE  Balanced(doc, Raise(rows, s, p, w, turns[c].delta), turned, started, after)
<1> DEFINE k0 == <<s, p, w>>
           t == turns[c]
           next == Raise(rows, s, p, w, t.delta)
<1>0. /\ rows \in [Rows -> Spends] /\ started \in [Rows -> Spends] /\ charged \in [Rows -> Spends]
      /\ Shaped(doc, turns) /\ c \in QuCallers /\ QuMaxCount \in Nat /\ t.delta \in Spends
      /\ t.delta["turns"] > 0
  BY DEF Balanced, OneTurn, QuotaConstants, ChargingShape
<1>1. \A k \in Rows, f \in Fields : rows[k][f] <= QuMaxCount
  BY DEF Balanced, BoundedAt
<1>2. /\ next \in [Rows -> Spends]
      /\ \A k \in Rows, f \in Fields : next[k][f] <= QuMaxCount
      /\ \A k \in Rows, f \in Fields : k = k0 =>
           next[k][f] <= rows[k][f] + t.delta[f]
           /\ (next[k][f] = rows[k][f] + t.delta[f] \/ next[k][f] = QuMaxCount)
      /\ \A k \in Rows : k # k0 =>
           next[k] = rows[k] \/ (next[k] = Empty /\ k[1] = s /\ k[2] = p /\ w > k[3])
  <2> DEFINE e == t.delta
  <2>1. e \in Spends
    BY <1>0
  <2> HIDE DEF e
  <2>2. Added(Raise(rows, s, p, w, e), rows, s, p, w, e)
    BY <1>0, <1>1, <2>1, AddIs
  <2>3. Added(next, rows, s, p, w, t.delta)
    BY <2>2 DEF e
  <2> HIDE DEF next, t
  <2> QED
    BY <2>3 DEF Added
<1>3. started[k0] # Empty
  <2> DEFINE r == rows[k0]["turns"]
             a == Coming(turns, k0, "turns")
             x == Come(t, k0, "turns")
             g == started[k0]["turns"]
  <2>1. "turns" \in Fields
    BY DEF Fields
  <2>2. x = t.delta["turns"]
    BY DEF Come, ChargingShape
  <2>3. x \in Nat /\ a \in Nat /\ x <= a
    BY <1>0, <2>1, ComesOfOne
  <2>4. r \in Nat /\ g \in Nat /\ r + a <= g
    BY <1>0, <2>1 DEF Balanced, BoundedAt, Spends
  <2>5. x > 0
    BY <1>0, <2>2
  <2> HIDE DEF r, a, x, g
  <2>6. g # 0
    BY <2>3, <2>4, <2>5
  <2> QED
    BY <2>1, <2>6, EmptyIs DEF g
<1> HIDE DEF next
<1>4. ASSUME NEW k \in Rows, NEW f \in Fields
      PROVE  /\ BoundedAt(next, turned, started, k, f)
             /\ NewestIn(started, k) => HeldAt(doc, next, turned, after, k, f)
  <2> DEFINE r == rows[k][f]
             n == next[k][f]
             g == started[k][f]
             h == charged[k][f]
             i == after[k][f]
             a == Coming(turns, k, f)
             b == Coming(turned, k, f)
             x == Come(t, k, f)
             y == Come(turned[c], k, f)
             l == Landed(doc, turns, k, f)
             m == Landed(doc, turned, k, f)
             u == Part(doc, t, k, f)
             v == Part(doc, turned[c], k, f)
             d == Share(k, k0, t.delta, f)
  <2>1. r \in Nat /\ n \in Nat /\ g \in Nat /\ h \in Nat /\ i \in Nat
    BY <1>0, <1>2 DEF Spends
  <2>2. x \in Nat /\ y \in Nat /\ u \in Nat /\ v \in Nat
    BY AmountsAre DEF OneTurn, Shaped
  <2>3. /\ a \in Nat /\ b \in Nat /\ l \in Nat /\ m \in Nat
        /\ a + y = b + x /\ l + v = m + u
    BY TurnChanges
  <2>4. x = y + d /\ i + v = h + u + d
    BY DEF Shifts
  <2>5. r + a <= g /\ r <= QuMaxCount /\ n <= QuMaxCount
    BY <1>2 DEF Balanced, BoundedAt
  <2>6. d \in Nat /\ QuMaxCount \in Nat
    BY <1>0 DEF Share, Spends
  <2>7. n <= r + d
    <3>1. CASE k = k0
      BY <1>2, <3>1 DEF Share
    <3>2. CASE k # k0
      <4>1. next[k] = rows[k] \/ next[k] = Empty
        BY <1>2, <3>2
      <4>2. n = r \/ n = 0
        BY <4>1, EmptyIs
      <4> HIDE DEF n, r, d
      <4> QED
        BY <2>1, <2>6, <4>2
    <3> QED
      BY <3>1, <3>2
  <2>8. ASSUME NewestIn(started, k) PROVE n = QuMaxCount \/ n = r + d
    <3>1. CASE k = k0
      BY <1>2, <3>1 DEF Share
    <3>2. CASE k # k0
      <4>1. ~(k[1] = s /\ k[2] = p /\ w > k[3])
        BY <1>3, <2>8 DEF NewestIn
      <4>2. n = r
        BY <1>2, <3>2, <4>1
      <4>3. d = 0
        BY <3>2 DEF Share
      <4> HIDE DEF n, r, d
      <4> QED
        BY <2>1, <4>2, <4>3
    <3> QED
      BY <3>1, <3>2
  <2>9. ASSUME NewestIn(started, k) PROVE r >= QuMaxCount \/ r >= h + l
    BY <2>9 DEF Balanced, HeldAt
  <2> HIDE DEF r, n, g, h, i, a, b, x, y, l, m, u, v, d
  <2>10. n + b <= g
    BY <2>1, <2>2, <2>3, <2>4, <2>5, <2>6, <2>7
  <2>11. ASSUME NewestIn(started, k) PROVE n >= QuMaxCount \/ n >= i + m
    <3>1. i + m = h + l + d
      BY <2>1, <2>2, <2>3, <2>4, <2>6
    <3>2. CASE n = QuMaxCount
      BY <2>6, <3>2
    <3>3. CASE n = r + d
      BY <2>1, <2>3, <2>6, <2>9, <2>11, <3>1, <3>3
    <3> QED
      BY <2>8, <2>11, <3>2, <3>3
  <2> QED
    BY <2>5, <2>10, <2>11 DEF BoundedAt, HeldAt, n, g, b, i, m
<1>5. Shaped(doc, turned)
  BY DEF OneTurn
<1>6. Balanced(doc, next, turned, started, after)
  BY <1>0, <1>2, <1>4, <1>5 DEF Balanced
<1> QED
  BY <1>6 DEF next

-----------------------------------------------------------------------------
(* The ledger's tables are such functions, with the empty rows left out. *)
LEMMA WholeGrown ==
  ASSUME NEW t, DOMAIN t \subseteq Rows, NEW S, NEW delta
  PROVE  Whole(Grown(t, S, delta)) = Raised(Whole(t), S, delta) /\ DOMAIN Grown(t, S, delta) \subseteq Rows
<1> DEFINE g == Grown(t, S, delta)
<1>1. DOMAIN g = DOMAIN t \cup (S \cap Rows)
  BY DEF Grown
<1>2. ASSUME NEW k \in Rows
      PROVE  usage(g, k) = IF k \in S THEN [f \in DOMAIN delta |-> Whole(t)[k][f] + delta[f]] ELSE Whole(t)[k]
  <2>0. Whole(t)[k] = usage(t, k)
    BY DEF Whole
  <2>1. CASE k \in S
    <3>1. g[k] = [f \in DOMAIN delta |-> usage(t, k)[f] + delta[f]]
      BY <2>1 DEF Grown
    <3>2. usage(g, k) = g[k]
      BY <1>1, <2>1 DEF usage
    <3> HIDE DEF g
    <3> QED
      BY <2>0, <2>1, <3>1, <3>2
  <2>2. CASE k \notin S /\ k \in DOMAIN t
    <3>1. g[k] = t[k]
      BY <2>2 DEF Grown
    <3> QED
      BY <1>1, <2>0, <2>2, <3>1 DEF usage
  <2>3. CASE k \notin S /\ k \notin DOMAIN t
    BY <1>1, <2>0, <2>3 DEF usage
  <2> QED
    BY <2>1, <2>2, <2>3
<1> HIDE DEF g
<1>3. Whole(g) = Raised(Whole(t), S, delta)
  BY <1>2 DEF Whole, Raised
<1> QED
  BY <1>1, <1>3 DEF g

(* A write to the table raises its own row and closes the windows before it. *)
LEMMA WholeAdded ==
  ASSUME NEW t, DOMAIN t \subseteq Rows, NEW s, NEW p, NEW w \in Nat, NEW delta, <<s, p, w>> \in Rows
  PROVE  /\ Whole(add_usage(t, s, p, w, delta)) = Raise(Whole(t), s, p, w, delta)
         /\ DOMAIN add_usage(t, s, p, w, delta) \subseteq Rows
<1> DEFINE key == <<s, p, w>>
           kept == {k \in DOMAIN t : ~(k[1] = s /\ k[2] = p /\ k[3] < w)}
           g == add_usage(t, s, p, w, delta)
<1>1. DOMAIN g = kept \cup {key}
  BY DEF add_usage
<1>2. ASSUME NEW k \in Rows PROVE usage(g, k) = Raise(Whole(t), s, p, w, delta)[k]
  <2>0. Whole(t)[k] = usage(t, k)
    BY DEF Whole
  <2>1. CASE k = key
    <3>1. ~(k[3] < w)
      BY <2>1
    <3>2. Raise(Whole(t), s, p, w, delta)[k] = saturating_add(usage(t, k), delta)
      BY <2>0, <2>1, <3>1 DEF Raise
    <3>3. g[k] = saturating_add(usage(t, k), delta)
      BY <2>1 DEF add_usage
    <3>4. usage(g, k) = g[k]
      BY <1>1, <2>1 DEF usage
    <3> HIDE DEF g, key
    <3> QED
      BY <3>2, <3>3, <3>4
  <2>2. CASE k # key /\ k[1] = s /\ k[2] = p /\ k[3] < w
    <3>1. Raise(Whole(t), s, p, w, delta)[k] = Empty
      BY <2>2 DEF Raise
    <3>2. k \notin DOMAIN g
      BY <1>1, <2>2
    <3> QED
      BY <3>1, <3>2 DEF usage
  <2>3. CASE k # key /\ ~(k[1] = s /\ k[2] = p /\ k[3] < w)
    <3>1. Raise(Whole(t), s, p, w, delta)[k] = usage(t, k)
      BY <2>0, <2>3 DEF Raise
    <3>2. CASE k \in DOMAIN t
      <4>1. g[k] = t[k] /\ k \in DOMAIN g
        BY <2>3, <3>2 DEF add_usage
      <4> QED
        BY <3>1, <3>2, <4>1 DEF usage
    <3>3. CASE k \notin DOMAIN t
      <4>1. k \notin DOMAIN g
        BY <1>1, <2>3, <3>3
      <4> QED
        BY <3>1, <3>3, <4>1 DEF usage
    <3> QED
      BY <3>2, <3>3
  <2> QED
    BY <2>1, <2>2, <2>3
<1> HIDE DEF g
<1>3. Whole(g) = Raise(Whole(t), s, p, w, delta)
  <2>1. Raise(Whole(t), s, p, w, delta) = [k \in Rows |-> Raise(Whole(t), s, p, w, delta)[k]]
    BY DEF Raise
  <2> HIDE DEF Raise
  <2> QED
    BY <1>2, <2>1 DEF Whole
<1> QED
  BY <1>1, <1>3 DEF g

(* An empty table leaves every row at nothing. *)
LEMMA WholeNone == Whole(NoRows) = [k \in Rows |-> Empty] /\ DOMAIN NoRows = {}
BY DEF Whole, NoRows, usage

-----------------------------------------------------------------------------
(* The guard and its ledger: what each step does to the books. *)

InRows == DOMAIN quRows \subseteq Rows /\ DOMAIN quStarted \subseteq Rows /\ DOMAIN quCharged \subseteq Rows

QuotaInv ==
  /\ InRows
  /\ quDoc \in QuDocuments \cup {PlNone}
  /\ quNow \in Nat
  /\ Balanced(quDoc, Whole(quRows), quTurn, Whole(quStarted), Whole(quCharged))

(* The invariant holds at the start. *)
LEMMA QuotaStarts ==
  ASSUME QuotaConstants, QuotaInit
  PROVE  QuotaInv
<1>1. quDoc \in QuDocuments \cup {PlNone} /\ quNow \in Nat
  BY DEF QuotaInit
<1>2. /\ quRows = NoRows /\ quTurn = [c \in QuCallers |-> Idle]
      /\ quStarted = NoRows /\ quCharged = NoRows
  BY DEF QuotaInit
<1>3. InRows
  BY <1>2, WholeNone DEF InRows
<1>4. Balanced(quDoc, Whole(quRows), quTurn, Whole(quStarted), Whole(quCharged))
  BY <1>2, WholeNone, NoBooks
<1> QED
  BY <1>1, <1>3, <1>4 DEF QuotaInv

(* A caller's turn becomes another. *)
LEMMA TurnBecomes ==
  ASSUME NEW c \in QuCallers, NEW u, Shaped(quDoc, quTurn), TurnShape(quDoc, u), Then(c, u)
  PROVE  OneTurn(quDoc, quTurn, quTurn', c) /\ quTurn'[c] = u
<1>1. quTurn' = [quTurn EXCEPT ![c] = u] /\ DOMAIN quTurn = QuCallers
  BY DEF Then, Shaped
<1>2. quTurn'[c] = u /\ DOMAIN quTurn' = QuCallers /\ \A d \in QuCallers : d # c => quTurn'[d] = quTurn[d]
  BY <1>1
<1> DEFINE n == quTurn'
<1> HIDE DEF n
<1>3. \A d \in QuCallers : TurnShape(quDoc, n[d])
  BY <1>2 DEF Shaped, n
<1> QED
  BY <1>2, <1>3 DEF OneTurn, Shaped, n

(* A step of one turn that adds to no row's history. *)
LEMMA RowsKept ==
  ASSUME QuotaConstants, QuotaInv, NEW c \in QuCallers, NEW u, TurnShape(quDoc, u),
         u.pc # "charging", Then(c, u), UNCHANGED <<quDoc, quNow, quRows, quCharged>>,
         Whole(quStarted') = Whole(quStarted), DOMAIN quStarted' \subseteq Rows
  PROVE  QuotaInv'
<1>1. Shaped(quDoc, quTurn)
  BY DEF QuotaInv, Balanced
<1>2. OneTurn(quDoc, quTurn, quTurn', c) /\ quTurn'[c] = u
  BY <1>1, TurnBecomes
<1>3. Balanced(quDoc, Whole(quRows), quTurn, Whole(quStarted), Whole(quCharged))
  BY DEF QuotaInv
<1> DEFINE n == quTurn'
<1>4. Balanced(quDoc, Whole(quRows), n, Whole(quStarted), Whole(quCharged))
  <2>1. OneTurn(quDoc, quTurn, n, c) /\ n[c].pc # "charging"
    BY <1>2
  <2> HIDE DEF n
  <2> QED
    BY <1>3, <2>1, RestKeeps
<1> QED
  BY <1>4 DEF QuotaInv, InRows

(* A step of one turn that charges nothing. *)
LEMMA QuietStep ==
  ASSUME QuotaConstants, QuotaInv, NEW c \in QuCallers, NEW u, TurnShape(quDoc, u),
         u.pc # "charging", Then(c, u), UNCHANGED <<quDoc, quNow, quRows, quStarted, quCharged>>
  PROVE  QuotaInv'
<1>1. Whole(quStarted') = Whole(quStarted) /\ DOMAIN quStarted' \subseteq Rows
  BY DEF QuotaInv, InRows
<1> QED
  BY <1>1, RowsKept

(* Such as coming to rest. *)
LEMMA IdleIs ==
  ASSUME NEW doc
  PROVE  TurnShape(doc, Idle) /\ Idle.pc # "charging"
BY DEF TurnShape, Idle

(* check() and status() begin. *)
LEMMA BeginKeeps ==
  ASSUME QuotaConstants, QuotaInv, NEW c \in QuCallers, NEW p \in QuPrincipals, NEW model, NEW purpose,
         begin(c, p, model, purpose)
  PROVE  QuotaInv'
<1> DEFINE asked == FlattenSeq([i \in DOMAIN subjects(p) |->
                     LET s == subjects(p)[i]
                     IN  [j \in DOMAIN rules_for(s) |-> <<s, rules_for(s)[j]>>]])
           a == [pc |-> "reading", as |-> p, model |-> model, purpose |-> purpose, now |-> quNow,
                 left |-> asked, seen |-> <<>>]
           b == [pc |-> "admitted", as |-> p]
           u == CASE asked # <<>> -> a
                  [] asked = <<>> /\ purpose = "check" -> b
                  [] OTHER -> Idle
<1>1. Then(c, u)
  BY DEF begin
<1>2. UNCHANGED <<quDoc, quNow, quRows, quStarted, quCharged>> /\ quDoc \in QuDocuments
  BY DEF begin, QuotaInv
<1> HIDE DEF asked
<1>3. TurnShape(quDoc, a) /\ a.pc # "charging"
  BY <1>2 DEF TurnShape
<1>4. TurnShape(quDoc, b) /\ b.pc # "charging"
  BY <1>2 DEF TurnShape
<1> HIDE DEF a, b
<1>5. u = a \/ u = b \/ u = Idle
  OBVIOUS
<1> HIDE DEF u
<1>6. TurnShape(quDoc, u) /\ u.pc # "charging"
  BY <1>3, <1>4, <1>5, IdleIs
<1> QED
  BY <1>1, <1>2, <1>6, QuietStep

(* One rule is consulted. *)
LEMMA ConsultKeeps ==
  ASSUME QuotaConstants, QuotaInv, NEW c \in QuCallers, consult(c)
  PROVE  QuotaInv'
<1> DEFINE t == quTurn[c]
           key == <<Head(t.left)[1], Head(t.left)[2].period, window(Head(t.left)[2].period, t.now)>>
           a == [t EXCEPT !.left = Tail(@), !.seen = Append(@, <<key, row_of(t, key)>>)]
           b == [pc |-> "admitted", as |-> t.as]
           u == CASE Len(t.left) > 1 -> a
                  [] Len(t.left) = 1 /\ t.purpose = "check" -> b
                  [] OTHER -> Idle
<1>1. Then(c, Idle) \/ Then(c, u)
  BY DEF consult
<1>2. UNCHANGED <<quDoc, quNow, quRows, quStarted, quCharged>> /\ t.pc = "reading"
  BY DEF consult
<1>3. t.as \in QuPrincipals /\ quDoc \in QuDocuments /\ {"pc", "as"} \subseteq DOMAIN t
  <2>1. TurnShape(quDoc, t)
    BY DEF QuotaInv, Balanced, Shaped
  <2> HIDE DEF t
  <2> QED
    BY <1>2, <2>1 DEF TurnShape, ChargingShape
<1>4. TurnShape(quDoc, a) /\ a.pc # "charging"
  <2> DEFINE y == Append(t.seen, <<key, row_of(t, key)>>)
             z == Tail(t.left)
  <2>1. a = [[t EXCEPT !.left = z] EXCEPT !.seen = y]
    OBVIOUS
  <2> HIDE DEF t, key, y, z, a
  <2>2. a.pc = t.pc /\ a.as = t.as /\ DOMAIN a = DOMAIN t
    BY <1>3, <2>1
  <2> QED
    BY <1>2, <1>3, <2>2 DEF TurnShape
<1>5. TurnShape(quDoc, b) /\ b.pc # "charging"
  BY <1>3 DEF TurnShape
<1> HIDE DEF a, b
<1>6. u = a \/ u = b \/ u = Idle
  OBVIOUS
<1> HIDE DEF u
<1>7. TurnShape(quDoc, u) /\ u.pc # "charging"
  BY <1>4, <1>5, <1>6, IdleIs
<1> QED
  BY <1>1, <1>2, <1>7, IdleIs, QuietStep

(* record() begins a charge. *)
LEMMA SpendKeeps ==
  ASSUME QuotaConstants, QuotaInv, NEW c \in QuCallers, NEW charge \in QuCharges, record(c, charge)
  PROVE  QuotaInv'
<1> DEFINE t == quTurn[c]
           due == due_of(t.as)
           delta == charge_delta(charge)
           a == [pc |-> "charging", as |-> t.as, now |-> quNow, left |-> due, delta |-> delta]
           S == Owed(quDoc, t.as, quNow)
<1>1. /\ t.pc = "admitted" /\ Then(c, IF due = <<>> THEN Idle ELSE a)
      /\ quStarted' = Grown(quStarted, S, delta)
      /\ UNCHANGED <<quDoc, quNow, quRows, quCharged>>
  BY DEF record
<1>2. t.as \in QuPrincipals /\ quDoc \in QuDocuments
  <2>1. TurnShape(quDoc, t)
    BY DEF QuotaInv, Balanced, Shaped
  <2> HIDE DEF t
  <2> QED
    BY <1>1, <2>1 DEF TurnShape, ChargingShape
<1>3. delta \in Spends /\ delta["turns"] > 0
  BY <1>2, DeltaIs DEF Spends
<1>4. Lists(due, DuePairs(t.as)) /\ DuePairs(t.as) \in SUBSET (Subjects_ \X Periods)
  BY <1>2, DueLists
<1>5. S = {RowAt(quNow, x) : x \in DuePairs(t.as)}
  BY <1>2, OwedIs
<1>6. Balanced(quDoc, Whole(quRows), quTurn, Whole(quStarted), Whole(quCharged)) /\ Shaped(quDoc, quTurn)
      /\ quNow \in Nat /\ Whole(quStarted) \in [Rows -> Spends] /\ InRows
  BY DEF QuotaInv, Balanced
<1> HIDE DEF t, due, delta
<1>7. CASE due = <<>>
  <2>1. DuePairs(t.as) = {}
    BY <1>4, <1>7 DEF Lists
  <2>2. S = {}
    BY <1>5, <2>1
  <2>3. Whole(quStarted') = Raised(Whole(quStarted), S, delta) /\ DOMAIN quStarted' \subseteq Rows
    BY <1>1, <1>6, WholeGrown DEF InRows
  <2>4. Raised(Whole(quStarted), S, delta) = Whole(quStarted)
    <3> DEFINE h == Whole(quStarted)
    <3>1. h \in [Rows -> Spends]
      BY <1>6
    <3> HIDE DEF h, S
    <3> QED
      BY <2>2, <3>1 DEF Raised, h
  <2>5. Then(c, Idle)
    BY <1>1, <1>7
  <2> QED
    BY <1>1, <2>3, <2>4, <2>5, IdleIs, RowsKept
<1>8. CASE due # <<>>
  <2>1. /\ a.pc = "charging" /\ a.as = t.as /\ a.now = quNow /\ a.left = due /\ a.delta = delta
        /\ DOMAIN a = {"pc", "as", "now", "left", "delta"}
    OBVIOUS
  <2> HIDE DEF a, S
  <2>2. due \in Seq(Subjects_ \X Periods)
    BY <1>4 DEF Lists
  <2>3. \A i, j \in DOMAIN due : due[i] = due[j] => i = j
    BY <1>4 DEF Lists
  <2>4. /\ \A i \in DOMAIN due : due[i] \in DuePairs(t.as)
        /\ \A x \in DuePairs(t.as) : \E i \in DOMAIN due : due[i] = x
    BY <1>4 DEF Lists
  <2>5. \A i \in DOMAIN due : RowAt(quNow, due[i]) \in S
    BY <1>5, <2>4
  <2>6. ChargingShape(quDoc, a)
    BY <1>2, <1>3, <1>6, <1>8, <2>1, <2>2, <2>3, <2>5 DEF ChargingShape, S
  <2>7. TurnShape(quDoc, a)
    BY <1>2, <2>6 DEF TurnShape
  <2>8. StillDue(a) = S
    BY <1>5, <2>1, <2>4 DEF StillDue
  <2>9. OneTurn(quDoc, quTurn, quTurn', c) /\ quTurn'[c] = a
    <3>1. Then(c, a)
      BY <1>1, <1>8
    <3> QED
      BY <1>6, <2>7, <3>1, TurnBecomes
  <2> DEFINE n == quTurn'
  <2>10. Balanced(quDoc, Whole(quRows), n, Raised(Whole(quStarted), S, delta), Whole(quCharged))
    <3>1. OneTurn(quDoc, quTurn, n, c) /\ n[c] = a
      BY <2>9
    <3>2. quTurn[c].pc # "charging"
      BY <1>1 DEF t
    <3>3. Owed(quDoc, n[c].as, n[c].now) = S /\ n[c].delta = delta /\ n[c].pc = "charging" /\ StillDue(n[c]) = S
      BY <2>1, <2>8, <3>1 DEF S
    <3> HIDE DEF n
    <3> QED
      BY <1>3, <1>6, <3>1, <3>2, <3>3, StartKeeps
  <2>11. Whole(quStarted') = Raised(Whole(quStarted), S, delta) /\ DOMAIN quStarted' \subseteq Rows
    BY <1>1, <1>6, WholeGrown DEF InRows
  <2>12. Whole(quRows)' = Whole(quRows) /\ Whole(quCharged)' = Whole(quCharged)
    BY <1>1
  <2> QED
    BY <1>1, <1>2, <1>6, <2>10, <2>11, <2>12 DEF QuotaInv, InRows
<1> QED
  BY <1>7, <1>8

(* One write of a charge. *)
LEMMA ChargeKeeps ==
  ASSUME QuotaConstants, QuotaInv, NEW c \in QuCallers, charge_row(c)
  PROVE  QuotaInv'
<1> DEFINE t == quTurn[c]
           s == Head(t.left)[1]
           p == Head(t.left)[2]
           w == window(p, t.now)
           k0 == <<s, p, w>>
           u == IF Len(t.left) = 1 THEN Idle ELSE [t EXCEPT !.left = Tail(@)]
           charged == Whole(quCharged)
           after == IF Len(t.left) = 1 THEN Raised(charged, Owed(quDoc, t.as, t.now), t.delta) ELSE charged
<1>1. /\ t.pc = "charging" /\ w # PlNone
      /\ quRows' = add_usage(quRows, s, p, w, t.delta)
      /\ Then(c, u)
      /\ quCharged' = IF Len(t.left) > 1 THEN quCharged
                      ELSE Grown(quCharged, Owed(quDoc, t.as, t.now), t.delta)
      /\ UNCHANGED <<quDoc, quNow, quStarted>>
  BY DEF charge_row
<1>2. Balanced(quDoc, Whole(quRows), quTurn, Whole(quStarted), Whole(quCharged)) /\ Shaped(quDoc, quTurn)
      /\ Whole(quCharged) \in [Rows -> Spends] /\ InRows
  BY DEF QuotaInv, Balanced
<1>3. ChargingShape(quDoc, t) /\ quDoc \in QuDocuments
  <2>1. TurnShape(quDoc, t)
    BY <1>2 DEF Shaped
  <2> HIDE DEF t
  <2> QED
    BY <1>1, <2>1 DEF TurnShape
<1>4. /\ t.left \in Seq(Subjects_ \X Periods) /\ t.left # <<>> /\ t.now \in Nat
      /\ Len(t.left) \in Nat /\ Len(t.left) > 0 /\ Head(t.left) = t.left[1] /\ 1 \in DOMAIN t.left
      /\ Head(t.left) \in Subjects_ \X Periods
  <2>1. t.left \in Seq(Subjects_ \X Periods) /\ t.left # <<>> /\ t.now \in Nat
    BY <1>3 DEF ChargingShape
  <2> HIDE DEF t
  <2> QED
    BY <2>1
<1>5. Whole(quCharged') = after /\ DOMAIN quCharged' \subseteq Rows
  <2>1. Len(t.left) > 1 <=> Len(t.left) # 1
    <3> DEFINE m == Len(t.left)
    <3>1. m \in Nat /\ m > 0
      BY <1>4
    <3> HIDE DEF m
    <3>2. m > 1 <=> m # 1
      BY <3>1
    <3> QED
      BY <3>2 DEF m
  <2>2. CASE Len(t.left) = 1
    <3>1. quCharged' = Grown(quCharged, Owed(quDoc, t.as, t.now), t.delta)
      BY <1>1, <2>1, <2>2
    <3> QED
      BY <1>2, <2>2, <3>1, WholeGrown DEF InRows
  <2>3. CASE Len(t.left) # 1
    <3>1. quCharged' = quCharged
      BY <1>1, <2>1, <2>3
    <3> QED
      BY <1>2, <2>3, <3>1 DEF InRows
  <2> QED
    BY <2>2, <2>3
<1>6. k0 = RowAt(t.now, Head(t.left))
  BY DEF RowAt
<1>7. s \in Subjects_ /\ p \in Periods /\ w \in 0 .. QuMaxTime
  <2>1. s \in Subjects_ /\ p \in Periods
    BY <1>4
  <2>2. window(p, t.now) \in (0 .. QuMaxTime) \cup {PlNone}
    <3> HIDE DEF p, t
    <3> QED
      BY <1>4, <2>1, WindowIs
  <2> QED
    BY <1>1, <2>1, <2>2
<1>8. k0 \in Rows
  <2> HIDE DEF s, p, w
  <2> QED
    BY <1>7 DEF Rows
<1>9. k0 \in StillDue(t)
  <2> HIDE DEF t, k0
  <2> QED
    BY <1>4, <1>6 DEF StillDue
<1>10. \/ Len(t.left) = 1 /\ u = Idle /\ after = Raised(charged, Owed(quDoc, t.as, t.now), t.delta)
       \/ Len(t.left) # 1 /\ u = [t EXCEPT !.left = Tail(@)] /\ after = charged
  OBVIOUS
<1>15. charged \in [Rows -> Spends] /\ Balanced(quDoc, Whole(quRows), quTurn, Whole(quStarted), charged)
  BY <1>2
<1> HIDE DEF u, after, k0, charged
<1>11. /\ Shifts(quDoc, t, u, charged, after, k0, t.delta)
       /\ TurnShape(quDoc, u) /\ after \in [Rows -> Spends]
  <2> HIDE DEF t
  <2> QED
    BY <1>3, <1>6, <1>10, <1>15, WriteShifts
<1>12. OneTurn(quDoc, quTurn, quTurn', c) /\ quTurn'[c] = u
  BY <1>1, <1>2, <1>11, TurnBecomes
<1> DEFINE n == quTurn'
<1>13. OneTurn(quDoc, quTurn, n, c) /\ Shifts(quDoc, quTurn[c], n[c], charged, after, k0, quTurn[c].delta)
  BY <1>11, <1>12
<1>14. Balanced(quDoc, Raise(Whole(quRows), s, p, w, t.delta), n, Whole(quStarted), after)
  <2>1. k0 = <<s, p, w>>
    BY DEF k0
  <2> HIDE DEF n, s, p, w
  <2> QED
    BY <1>3, <1>7, <1>8, <1>9, <1>11, <1>13, <1>15, <2>1, WriteKeeps
<1>16. /\ Whole(quRows') = Raise(Whole(quRows), s, p, w, t.delta) /\ DOMAIN quRows' \subseteq Rows
  <2>1. w \in Nat
    BY <1>7 DEF QuotaConstants
  <2>2. <<s, p, w>> \in Rows
    BY <1>8 DEF k0
  <2> HIDE DEF s, p, w
  <2> QED
    BY <1>1, <1>2, <2>1, <2>2, WholeAdded DEF InRows
<1>17. Whole(quStarted)' = Whole(quStarted) /\ DOMAIN quStarted' \subseteq Rows
  BY <1>1, <1>2 DEF InRows
<1> QED
  BY <1>1, <1>5, <1>14, <1>16, <1>17 DEF QuotaInv, InRows

(* A restart, with a ledger on disk or in memory. *)
LEMMA RestartKeeps ==
  ASSUME QuotaConstants, QuotaInv, restart
  PROVE  QuotaInv'
<1>1. Balanced(quDoc, Whole(quRows), quTurn, Whole(quStarted), Whole(quCharged))
  BY DEF QuotaInv
<1>2. /\ quRows' = reopened(quRows) /\ quTurn' = [c \in QuCallers |-> Idle]
      /\ quStarted' = reopened(quStarted) /\ quCharged' = reopened(quCharged)
      /\ UNCHANGED <<quDoc, quNow>>
  BY DEF restart
<1>3. CASE quDurable
  <2>1. quRows' = quRows /\ quStarted' = quStarted /\ quCharged' = quCharged
    BY <1>2, <1>3 DEF reopened
  <2>2. Balanced(quDoc, Whole(quRows), [c \in QuCallers |-> Idle], Whole(quStarted), Whole(quCharged))
    BY <1>1, IdleKeeps
  <2> QED
    BY <1>2, <2>1, <2>2 DEF QuotaInv, InRows
<1>4. CASE ~quDurable
  <2>1. /\ quRows' = NoRows /\ quStarted' = NoRows /\ quCharged' = NoRows
    BY <1>2, <1>4 DEF reopened
  <2>2. Balanced(quDoc, [k \in Rows |-> Empty], [c \in QuCallers |-> Idle], [k \in Rows |-> Empty],
              [k \in Rows |-> Empty])
    BY NoBooks
  <2>3. Balanced(quDoc, Whole(quRows'), quTurn', Whole(quStarted'), Whole(quCharged'))
    BY <1>2, <2>1, <2>2, WholeNone
  <2>4. InRows'
    BY <2>1, WholeNone DEF InRows
  <2> QED
    BY <1>2, <2>3, <2>4 DEF QuotaInv
<1> QED
  BY <1>3, <1>4

(* Every step keeps the books. *)
LEMMA QuotaStep ==
  ASSUME QuotaConstants, QuotaInv, [QuotaNext]_quVars
  PROVE  QuotaInv'
<1>1. ASSUME NEW c \in QuCallers, NEW p \in QuPrincipals, NEW charge \in QuCharges,
             NEW why \in {"check", "status"}, begin(c, p, charge.model, why)
      PROVE  QuotaInv'
  BY <1>1, BeginKeeps
<1>2. ASSUME NEW c \in QuCallers, consult(c) PROVE QuotaInv'
  BY <1>2, ConsultKeeps
<1>3. ASSUME NEW c \in QuCallers, abandon(c) PROVE QuotaInv'
  <2>1. Then(c, Idle) /\ UNCHANGED <<quDoc, quNow, quRows, quStarted, quCharged>>
    BY <1>3 DEF abandon
  <2> QED
    BY <2>1, IdleIs, QuietStep
<1>4. ASSUME NEW c \in QuCallers, charge_row(c) PROVE QuotaInv'
  BY <1>4, ChargeKeeps
<1>5. ASSUME NEW c \in QuCallers, charge_fails(c) PROVE QuotaInv'
  <2>1. Then(c, Idle) /\ UNCHANGED <<quDoc, quNow, quRows, quStarted, quCharged>>
    BY <1>5 DEF charge_fails
  <2> QED
    BY <2>1, IdleIs, QuietStep
<1>6. ASSUME NEW c \in QuCallers, NEW charge \in QuCharges, record(c, charge) PROVE QuotaInv'
  BY <1>6, SpendKeeps
<1>7. CASE tick
  <2>1. quNow' = quNow + 1 /\ UNCHANGED <<quDoc, quRows, quTurn, quStarted, quCharged>>
    BY <1>7 DEF tick
  <2> QED
    BY <2>1 DEF QuotaInv, InRows
<1>8. CASE restart
  BY <1>8, RestartKeeps
<1>9. CASE UNCHANGED quVars
  BY <1>9 DEF QuotaInv, InRows, quVars
<1> QED
  BY <1>1, <1>2, <1>3, <1>4, <1>5, <1>6, <1>7, <1>8, <1>9 DEF QuotaNext

(* Balanced that balance remember what was spent. *)
LEMMA QuotaRemembers ==
  ASSUME QuotaConstants, QuotaInv
  PROVE  SpendIsRemembered
<1>0. InRows
  BY DEF QuotaInv
<1> SUFFICES ASSUME NEW k \in Rows, Newest(k), NEW f \in Fields
             PROVE  /\ usage(quRows, k)[f] >= Saturated(usage(quCharged, k)[f])
                    /\ usage(quRows, k)[f] <= Saturated(usage(quStarted, k)[f])
  BY <1>0, EmptyIs DEF SpendIsRemembered, Remembered, InRows
<1> DEFINE r == Whole(quRows)[k][f]
           s == Whole(quStarted)[k][f]
           h == Whole(quCharged)[k][f]
           a == Coming(quTurn, k, f)
           l == Landed(quDoc, quTurn, k, f)
<1>1. Balanced(quDoc, Whole(quRows), quTurn, Whole(quStarted), Whole(quCharged))
  BY DEF QuotaInv
<1>2. r \in Nat /\ s \in Nat /\ h \in Nat /\ QuMaxCount \in Nat
  BY <1>1 DEF Balanced, Spends, QuotaConstants
<1>3. r + a <= s /\ r <= QuMaxCount
  BY <1>1 DEF Balanced, BoundedAt
<1>4. r >= QuMaxCount \/ r >= h + l
  <2>1. NewestIn(Whole(quStarted), k)
    BY <1>0 DEF NewestIn, Newest, Whole, usage, InRows
  <2> QED
    BY <1>1, <2>1 DEF Balanced, HeldAt
<1>5. a \in Nat /\ l \in Nat
  <2>1. CASE QuCallers = {}
    <3>1. quTurn = [c \in QuCallers |-> Idle]
      BY <1>1, <2>1 DEF Balanced, Shaped
    <3> QED
      BY <3>1, NoneComes
  <2>2. CASE QuCallers # {}
    <3>1. PICK c \in QuCallers : TRUE
      BY <2>2
    <3>2. OneTurn(quDoc, quTurn, quTurn, c)
      BY <1>1 DEF Balanced, OneTurn
    <3> QED
      BY <3>2, TurnChanges
  <2> QED
    BY <2>1, <2>2
<1> HIDE DEF r, s, h, a, l
<1>6. r >= Saturated(h) /\ r <= Saturated(s)
  BY <1>2, <1>3, <1>4, <1>5 DEF Saturated
<1> QED
  BY <1>6 DEF r, s, h, Whole

(* The row of a subject's latest window holds all that charges completed and no more than
   charges began, up to the width of the counters, through any interleaving of turns, late
   writes, failed writes and restarts (LimitedQuotaGuard::record, RedbUsageLedger::add,
   InMemoryUsageLedger::add). *)
THEOREM QuotaHolds ==
  ASSUME QuotaConstants
  PROVE  QuotaSpec => []SpendIsRemembered
<1>1. QuotaInit => QuotaInv
  BY QuotaStarts
<1>2. QuotaInv /\ [QuotaNext]_quVars => QuotaInv'
  BY QuotaStep
<1>3. QuotaInv => SpendIsRemembered
  BY QuotaRemembers
<1> QED
  BY <1>1, <1>2, <1>3, PTL DEF QuotaSpec

-----------------------------------------------------------------------------
(* Long-term memory: MemoryStore *)

MoOwners == {c.id : c \in MoClients}

\* Words of an untrusted source are known to be.
Marked(rec) == rec \in MoRecords /\ (rec.words = "theirs" => rec.trust = "untrusted")

MemoryShape ==
  /\ mo_now \in Nat
  /\ DOMAIN mo_records = MoIds
  /\ \A id \in Stored : Marked(mo_records[id]) /\ mo_records[id].owner \in MoOwners

\* Each index has an entry for exactly the records it should.
EntriesMatch ==
  /\ mo_kind = {<<mo_records[id].kind, id>> : id \in Stored}
  /\ mo_owner = {<<mo_records[id].owner, id>> : id \in Stored}
  /\ mo_expiry = {<<mo_records[id].expires_at, id>> : id \in {i \in Stored : mo_records[i].expires_at # MoNone}}

\* What a put awaiting its embedding will store.
CallsMarked ==
  \A call \in mo_calls :
    call.client \in MoClients /\ (call.op = "put" => call.id \in MoIds /\ Marked(call.record))

\* Whom this process handed untrusted words, it knows of.
HeardIsTainted == mo_heard \subseteq mo_tainted

MemoryInv == MemoryShape /\ EntriesMatch /\ CallsMarked /\ HeardIsTainted

(* Nothing is stored at first. *)
LEMMA MemoryStarts ==
  ASSUME MemoryConstants, MemoryInit
  PROVE  MemoryInv
<1>1. Stored = {}
  BY DEF MemoryInit, Stored
<1> QED
  BY <1>1 DEF MemoryInit, MemoryInv, MemoryShape, EntriesMatch, CallsMarked, HeardIsTainted

(* A record made for a conversation is marked as the conversation is. *)
LEMMA MadeMarked ==
  ASSUME MemoryConstants, MemoryShape, HeardIsTainted,
         NEW c \in MoClients, NEW kind \in MoKinds, NEW ttl \in MoTtls
  PROVE  Marked(MemoryRecord(c, kind, ttl))
<1> DEFINE due == IF ttl = MoNone THEN MoNone ELSE mo_now + ttl
           trust == stamp_trust(c)
           words == IF c \in mo_heard THEN "theirs" ELSE IF c \in mo_washed THEN "washed" ELSE "ours"
           r == [owner |-> "system", kind |-> kind, created_at |-> mo_now, expires_at |-> due,
                 embedding |-> MoNone, trust |-> trust, words |-> words]
<1>1. due \in Nat \cup {MoNone} /\ mo_now \in Nat
  BY DEF MemoryConstants, MemoryShape
<1>2. trust \in {"trusted", "untrusted"} /\ words \in {"ours", "washed", "theirs"}
      /\ (words = "theirs" => trust = "untrusted")
  BY DEF stamp_trust, HeardIsTainted
<1> HIDE DEF due, trust, words
<1>3. r \in MoRecords /\ r.trust = trust /\ r.words = words
  BY <1>1, <1>2 DEF MoRecords
<1>4. MemoryRecord(c, kind, ttl) = r
  BY DEF MemoryRecord, due, trust, words
<1> QED
  BY <1>2, <1>3, <1>4 DEF Marked

(* A put leaves the tables agreeing: the entries of what it replaces go, its own come. *)
LEMMA PutAgrees ==
  ASSUME MemoryConstants, MemoryShape, EntriesMatch, UNCHANGED mo_now,
         NEW c \in MoClients, NEW id \in MoIds, NEW rec, Marked(rec), put_blocking(c, id, rec)
  PROVE  MemoryShape' /\ EntriesMatch'
<1> DEFINE previous == mo_records[id]
           owner == IF previous = MoNone THEN c.id ELSE previous.owner
           stored == [rec EXCEPT !.owner = owner]
<1>1. owner \in MoOwners
  BY DEF MemoryShape, MoOwners, Stored
<1>2. /\ stored \in MoRecords /\ stored.owner = owner /\ stored.words = rec.words
      /\ stored.trust = rec.trust
  <2> HIDE DEF owner
  <2> QED
    BY <1>1 DEF Marked, MoRecords, MoOwners
<1>3. Marked(stored) /\ stored # MoNone /\ stored.owner \in MoOwners
  BY <1>1, <1>2 DEF Marked, MemoryConstants
<1>4. /\ mo_records' = [mo_records EXCEPT ![id] = stored]
      /\ mo_owner' = IF previous = MoNone THEN mo_owner \cup {<<stored.owner, id>>} ELSE mo_owner
      /\ mo_kind' = (IF previous = MoNone THEN mo_kind ELSE mo_kind \ {<<previous.kind, id>>})
                      \cup {<<stored.kind, id>>}
      /\ mo_expiry' = (IF previous = MoNone THEN mo_expiry ELSE mo_expiry \ {<<previous.expires_at, id>>})
                      \cup (IF stored.expires_at = MoNone THEN {} ELSE {<<stored.expires_at, id>>})
  BY DEF put_blocking
<1>5. previous # MoNone => stored.owner = previous.owner
  BY <1>2
<1> HIDE DEF owner, stored
<1>6. DOMAIN mo_records = MoIds
  BY DEF MemoryShape
<1> DEFINE n == mo_records'
<1>7. DOMAIN n = MoIds /\ n[id] = stored /\ \A i \in MoIds : i # id => n[i] = mo_records[i]
  BY <1>4, <1>6
<1>8. Stored' = Stored \cup {id} /\ (id \in Stored <=> previous # MoNone)
  BY <1>3, <1>7 DEF Stored
<1>9. MemoryShape'
  <2>1. \A i \in Stored' : Marked(n[i]) /\ n[i].owner \in MoOwners
    BY <1>3, <1>7, <1>8 DEF MemoryShape, Stored
  <2> QED
    BY <1>7, <2>1 DEF MemoryShape
<1> HIDE DEF n
<1>10. mo_kind' = {<<n[i].kind, i>> : i \in Stored'}
  BY <1>4, <1>7, <1>8 DEF EntriesMatch, Stored
<1>11. mo_owner' = {<<n[i].owner, i>> : i \in Stored'}
  BY <1>4, <1>5, <1>7, <1>8 DEF EntriesMatch, Stored
<1>12. mo_expiry' = {<<n[i].expires_at, i>> : i \in {j \in Stored' : n[j].expires_at # MoNone}}
  BY <1>4, <1>7, <1>8 DEF EntriesMatch, Stored
<1> QED
  BY <1>9, <1>10, <1>11, <1>12 DEF EntriesMatch, n

(* Records that go, by a delete or a batch of a sweep, take their entries along. *)
LEMMA RemovalAgrees ==
  ASSUME MemoryShape, EntriesMatch, UNCHANGED mo_now, NEW gone \in SUBSET Stored,
         mo_records' = [id \in MoIds |-> IF id \in gone THEN MoNone ELSE mo_records[id]],
         mo_kind' = mo_kind \ {<<mo_records[id].kind, id>> : id \in gone},
         mo_owner' = mo_owner \ {<<mo_records[id].owner, id>> : id \in gone},
         mo_expiry' = mo_expiry \ {<<mo_records[id].expires_at, id>> : id \in gone}
  PROVE  MemoryShape' /\ EntriesMatch'
<1> DEFINE n == mo_records'
<1>1. DOMAIN n = MoIds /\ \A id \in MoIds : n[id] = IF id \in gone THEN MoNone ELSE mo_records[id]
  OBVIOUS
<1>2. Stored' = Stored \ gone
  BY <1>1 DEF Stored
<1>3. \A id \in Stored' : n[id] = mo_records[id]
  BY <1>1, <1>2 DEF Stored
<1>4. MemoryShape'
  BY <1>1, <1>2, <1>3 DEF MemoryShape
<1> HIDE DEF n
<1>5. mo_kind' = {<<n[i].kind, i>> : i \in Stored'}
  BY <1>2, <1>3 DEF EntriesMatch
<1>6. mo_owner' = {<<n[i].owner, i>> : i \in Stored'}
  BY <1>2, <1>3 DEF EntriesMatch
<1>7. mo_expiry' = {<<n[i].expires_at, i>> : i \in {j \in Stored' : n[j].expires_at # MoNone}}
  BY <1>2, <1>3 DEF EntriesMatch
<1> QED
  BY <1>4, <1>5, <1>6, <1>7 DEF EntriesMatch, n

(* Whoever is handed an untrusted source's words is tainted by them. *)
LEMMA RecalledKeeps ==
  ASSUME MemoryShape, HeardIsTainted, NEW c, NEW ids \in SUBSET Stored, Recalled(c, ids)
  PROVE  HeardIsTainted'
<1>1. \A id \in ids : mo_records[id].words = "theirs" => record_trust(mo_records[id]) = "untrusted"
  BY DEF MemoryShape, Marked, record_trust
<1> QED
  BY <1>1 DEF Recalled, HeardIsTainted

(* Every step of the store, its tools and its sweep. *)
LEMMA MemorySteps ==
  ASSUME MemoryConstants, MemoryInv, [MemoryNext]_moVars
  PROVE  MemoryInv'
<1> USE DEF MemoryInv
<1>1. ASSUME NEW c \in MoClients, NEW id \in MoIds, NEW kind \in MoKinds, NEW ttl \in MoTtls,
             MemoryPut(c, id, kind, ttl)
      PROVE  MemoryInv'
  <2> DEFINE r == MemoryRecord(c, kind, ttl)
             new == [client |-> c, op |-> "put", id |-> id, record |-> r]
  <2>1. Marked(r)
    BY MadeMarked
  <2>2. UNCHANGED <<mo_now, mo_tainted, mo_heard>>
    BY <1>1 DEF MemoryPut
  <2>3. HeardIsTainted'
    BY <2>2 DEF HeardIsTainted
  <2>4. CASE mo_semantic
    <3>1. mo_calls' = mo_calls \cup {new} /\ UNCHANGED moTables
      BY <1>1, <2>4 DEF MemoryPut, Await
    <3>2. new.client = c /\ new.id = id /\ new.record = r
      OBVIOUS
    <3> HIDE DEF new, r
    <3>3. CallsMarked'
      BY <2>1, <3>1, <3>2 DEF CallsMarked
    <3> QED
      BY <2>2, <2>3, <3>1, <3>3 DEF moTables, MemoryShape, EntriesMatch, Stored
  <2>5. CASE ~mo_semantic
    <3>1. put_blocking(c, id, r) /\ mo_calls' = mo_calls
      BY <1>1, <2>5 DEF MemoryPut
    <3> HIDE DEF r
    <3>2. MemoryShape' /\ EntriesMatch'
      BY <2>1, <2>2, <3>1, PutAgrees
    <3> QED
      BY <2>3, <3>1, <3>2 DEF CallsMarked
  <2> QED
    BY <2>4, <2>5
<1>2. ASSUME NEW call \in mo_calls, NEW vector \in MoVectors, PutEmbedded(call, vector)
      PROVE  MemoryInv'
  <2> DEFINE r == [call.record EXCEPT !.embedding = vector]
  <2>1. call.client \in MoClients /\ call.id \in MoIds /\ Marked(call.record)
    BY <1>2 DEF PutEmbedded, CallsMarked
  <2>2. Marked(r)
    BY <2>1 DEF Marked, MoRecords
  <2>3. /\ put_blocking(call.client, call.id, r) /\ mo_calls' \subseteq mo_calls
        /\ UNCHANGED <<mo_now, mo_tainted, mo_heard>>
    BY <1>2 DEF PutEmbedded
  <2> HIDE DEF r
  <2>4. MemoryShape' /\ EntriesMatch'
    BY <2>1, <2>2, <2>3, PutAgrees
  <2> QED
    BY <2>3, <2>4 DEF CallsMarked, HeardIsTainted
<1>3. ASSUME NEW call \in mo_calls, NEW vector \in MoVectors, QueryEmbedded(call, vector)
      PROVE  MemoryInv'
  <2> DEFINE ids == Shown(query_indexes(call.query, vector, call.client))
  <2>1. Recalled(call.client, ids) /\ mo_calls' \subseteq mo_calls /\ UNCHANGED <<mo_now, moTables>>
    BY <1>3 DEF QueryEmbedded
  <2>2. ids \in SUBSET Stored
    BY DEF Shown
  <2> HIDE DEF ids
  <2>3. HeardIsTainted'
    BY <2>1, <2>2, RecalledKeeps
  <2> QED
    BY <2>1, <2>3 DEF moTables, MemoryShape, EntriesMatch, Stored, CallsMarked
<1>4. ASSUME NEW call \in mo_calls, EmbedFailed(call)
      PROVE  MemoryInv'
  BY <1>4 DEF EmbedFailed, moTables, MemoryShape, EntriesMatch, Stored, CallsMarked, HeardIsTainted
<1>5. ASSUME NEW c \in MoClients, NEW id \in MoIds, MemoryGet(c, id)
      PROVE  MemoryInv'
  <2>1. Recalled(c, {id}) /\ {id} \in SUBSET Stored /\ UNCHANGED <<mo_now, moTables, mo_calls>>
    BY <1>5 DEF MemoryGet, Stored
  <2>2. HeardIsTainted'
    BY <2>1, RecalledKeeps
  <2> QED
    BY <2>1, <2>2 DEF moTables, MemoryShape, EntriesMatch, Stored, CallsMarked
<1>6. ASSUME NEW c \in MoClients, NEW id \in MoIds, MemoryDelete(c, id)
      PROVE  MemoryInv'
  <2> DEFINE gone == {id}
  <2>1. /\ gone \in SUBSET Stored
        /\ mo_records' = [mo_records EXCEPT ![id] = MoNone]
        /\ mo_kind' = mo_kind \ {<<mo_records[id].kind, id>>}
        /\ mo_owner' = mo_owner \ {<<mo_records[id].owner, id>>}
        /\ mo_expiry' = mo_expiry \ {<<mo_records[id].expires_at, id>>}
        /\ UNCHANGED <<mo_now, mo_calls, mo_tainted, mo_heard>>
    BY <1>6 DEF MemoryDelete, delete_blocking, Unindexed, OwnerEntryRemoved, Stored
  <2>2. mo_records' = [i \in MoIds |-> IF i \in gone THEN MoNone ELSE mo_records[i]]
    BY <2>1 DEF MemoryShape
  <2>3. /\ mo_kind' = mo_kind \ {<<mo_records[i].kind, i>> : i \in gone}
        /\ mo_owner' = mo_owner \ {<<mo_records[i].owner, i>> : i \in gone}
        /\ mo_expiry' = mo_expiry \ {<<mo_records[i].expires_at, i>> : i \in gone}
    BY <2>1
  <2> HIDE DEF gone
  <2>4. MemoryShape' /\ EntriesMatch'
    BY <2>1, <2>2, <2>3, RemovalAgrees
  <2> QED
    BY <2>1, <2>4 DEF CallsMarked, HeardIsTainted
<1>7. ASSUME NEW c \in MoClients, NEW q \in MoQueries, MemoryQuery(c, q)
      PROVE  MemoryInv'
  <2> DEFINE ids == Shown(query_indexes(ToolQuery(q), MoNone, c))
  <2>1. Recalled(c, ids) /\ UNCHANGED <<mo_now, moTables, mo_calls>>
    BY <1>7 DEF MemoryQuery
  <2>2. ids \in SUBSET Stored
    BY DEF Shown
  <2> HIDE DEF ids
  <2>3. HeardIsTainted'
    BY <2>1, <2>2, RecalledKeeps
  <2> QED
    BY <2>1, <2>3 DEF moTables, MemoryShape, EntriesMatch, Stored, CallsMarked
<1>8. ASSUME NEW c \in MoClients, NEW q \in MoQueries, MemoryQueryText(c, q)
      PROVE  MemoryInv'
  <2> DEFINE new == [client |-> c, op |-> "query", query |-> ToolQuery(q)]
  <2>1. mo_calls' = mo_calls \cup {new} /\ UNCHANGED <<mo_now, moTables, mo_tainted, mo_heard>>
    BY <1>8 DEF MemoryQueryText, Await
  <2>2. new.client = c /\ new.op # "put"
    OBVIOUS
  <2> HIDE DEF new
  <2>3. CallsMarked'
    BY <2>1, <2>2 DEF CallsMarked
  <2> QED
    BY <2>1, <2>3 DEF moTables, MemoryShape, EntriesMatch, Stored, HeardIsTainted
<1>9. ASSUME NEW c \in MoReaders, ReadElsewhere(c)
      PROVE  MemoryInv'
  BY <1>9 DEF ReadElsewhere, moTables, MemoryShape, EntriesMatch, Stored, CallsMarked, HeardIsTainted
<1>10. CASE sweep_batch_blocking
  <2> DEFINE due == DueFirst(mo_sweep)
             gone == {e[2] : e \in due}
  <2>1. /\ mo_records' = [id \in MoIds |-> IF id \in gone THEN MoNone ELSE mo_records[id]]
        /\ mo_kind' = mo_kind \ {<<mo_records[id].kind, id>> : id \in gone}
        /\ mo_owner' = mo_owner \ {<<mo_records[id].owner, id>> : id \in gone}
        /\ mo_expiry' = mo_expiry \ due
        /\ UNCHANGED <<mo_now, mo_calls, mo_tainted, mo_heard>>
    BY <1>10 DEF sweep_batch_blocking
  <2>2. due \in SUBSET mo_expiry
    BY DEF DueFirst, Due
  <2> HIDE DEF due
  <2>3. gone \in SUBSET Stored /\ due = {<<mo_records[id].expires_at, id>> : id \in gone}
    BY <2>2 DEF EntriesMatch
  <2> HIDE DEF gone
  <2>4. mo_expiry' = mo_expiry \ {<<mo_records[id].expires_at, id>> : id \in gone}
    BY <2>1, <2>3
  <2>5. MemoryShape' /\ EntriesMatch'
    BY <2>1, <2>3, <2>4, RemovalAgrees
  <2> QED
    BY <2>1, <2>5 DEF CallsMarked, HeardIsTainted
<1>11. CASE MemorySweep \/ AbandonSweep
  BY <1>11 DEF MemorySweep, AbandonSweep, moTables, MemoryShape, EntriesMatch, Stored, CallsMarked,
               HeardIsTainted
<1>12. CASE MemoryTick
  BY <1>12 DEF MemoryTick, moTables, MemoryShape, EntriesMatch, Stored, CallsMarked, HeardIsTainted
<1>13. ASSUME NEW semantic \in BOOLEAN, MemoryRestart(semantic)
       PROVE  MemoryInv'
  BY <1>13 DEF MemoryRestart, moTables, MemoryShape, EntriesMatch, Stored, CallsMarked, HeardIsTainted
<1>14. CASE UNCHANGED moVars
  BY <1>14 DEF moVars, moTables, MemoryShape, EntriesMatch, Stored, CallsMarked, HeardIsTainted
<1> QED
  BY <1>1, <1>2, <1>3, <1>4, <1>5, <1>6, <1>7, <1>8, <1>9, <1>10, <1>11, <1>12, <1>13, <1>14
     DEF MemoryNext

-----------------------------------------------------------------------------
(* Answers *)

\* Hits that name the same ids, each once.
Single(hits) == \A g, h \in hits : g[2] = h[2] => g = h
SameHits(g, h) ==
  IsFiniteSet(g) /\ IsFiniteSet(h) /\ IdsOf(g) = IdsOf(h) /\ Single(g) /\ Single(h)

(* There are as many. *)
LEMMA AlikeCounts ==
  ASSUME NEW g, NEW h, SameHits(g, h)
  PROVE  Cardinality(g) <= Cardinality(h) /\ Cardinality(g) \in Nat /\ Cardinality(h) \in Nat
<1> DEFINE f == [x \in g |-> CHOOSE y \in h : y[2] = x[2]]
<1>1. \A x \in g : \E y \in h : y[2] = x[2]
  BY DEF SameHits, IdsOf
<1>2. \A x \in g : f[x] \in h /\ f[x][2] = x[2]
  BY <1>1
<1>3. f \in Injection(g, h)
  <2>1. f \in [g -> h]
    BY <1>2
  <2>2. \A x, y \in g : f[x] = f[y] => x = y
    BY <1>2 DEF SameHits, Single
  <2> HIDE DEF f
  <2> QED
    BY <2>1, <2>2 DEF Injection, IsInjective
<1>4. IsFiniteSet(g) /\ IsFiniteSet(h)
  BY DEF SameHits
<1>5. Cardinality(g) \in Nat /\ Cardinality(h) \in Nat
  BY <1>4, FS_CardinalityType
<1>6. Cardinality(g) <= Cardinality(h)
  BY <1>3, <1>4, FS_Injection
<1> QED
  BY <1>5, <1>6

(* Each id is hit once. *)
LEMMA HitOnce ==
  ASSUME NEW hits, Single(hits), NEW id \in IdsOf(hits)
  PROVE  Cardinality({h \in hits : h[2] = id}) = 1
<1>1. PICK g \in hits : g[2] = id
  BY DEF IdsOf
<1>2. {h \in hits : h[2] = id} = {g}
  BY <1>1 DEF Single
<1> QED
  BY <1>2, FS_Singleton

(* So they are put in the same order. *)
LEMMA AlikeOrdered ==
  ASSUME NEW g, NEW h, SameHits(g, h), NEW before
  PROVE  Ordered(g, before) = Ordered(h, before)
<1>1. SameHits(h, g)
  BY DEF SameHits
<1>2. Cardinality(g) = Cardinality(h)
  <2>1. /\ Cardinality(g) <= Cardinality(h) /\ Cardinality(g) \in Nat /\ Cardinality(h) \in Nat
        /\ Cardinality(h) <= Cardinality(g)
    BY <1>1, AlikeCounts
  <2> QED
    BY <2>1
<1>3. IdsOf(g) = IdsOf(h)
  BY DEF SameHits
<1>4. \A id \in IdsOf(g) : Cardinality({x \in g : x[2] = id}) = Cardinality({x \in h : x[2] = id})
  <2> SUFFICES ASSUME NEW id \in IdsOf(g)
               PROVE  Cardinality({x \in g : x[2] = id}) = Cardinality({x \in h : x[2] = id})
    OBVIOUS
  <2>1. Cardinality({x \in g : x[2] = id}) = 1
    BY HitOnce DEF SameHits
  <2>2. Cardinality({x \in h : x[2] = id}) = 1
    BY <1>3, HitOnce DEF SameHits
  <2> QED
    BY <2>1, <2>2
<1>5. \A answer : InOrderOf(answer, g, before) <=> InOrderOf(answer, h, before)
  BY <1>3, <1>4 DEF InOrderOf
<1> QED
  BY <1>2, <1>3, <1>5 DEF Ordered

(* Whatever the order is by, and however much of it was asked for. *)
LEMMA AlikeRanked ==
  ASSUME NEW g, NEW h, SameHits(g, h), NEW q, NEW vector
  PROVE  rank_for(q, vector, g) = rank_for(q, vector, h)
<1>1. rank(g) = rank(h)
  <2>1. IdsOf(g) = IdsOf(h)
    BY DEF SameHits
  <2>2. {p \in IdsOf(g) \X IdsOf(g) : NewerFirst(p[1], p[2])} = {p \in IdsOf(h) \X IdsOf(h) : NewerFirst(p[1], p[2])}
    BY <2>1
  <2> QED
    BY <2>2, AlikeOrdered DEF rank
<1>2. rank_by_similarity(g, vector, q.min_score) = rank_by_similarity(h, vector, q.min_score)
  <2> DEFINE Scores(x) == /\ score_of(vector, x[2]) # MoNone
                          /\ q.min_score = MoNone \/ score_of(vector, x[2]) >= q.min_score
             a == {x \in g : Scores(x)}
             b == {x \in h : Scores(x)}
             before == {p \in IdsOf(a) \X IdsOf(a) : Closer(vector, p[1], p[2])}
  <2>1. IsFiniteSet(a) /\ IsFiniteSet(b)
    <3>1. IsFiniteSet(g) /\ IsFiniteSet(h) /\ a \in SUBSET g /\ b \in SUBSET h
      BY DEF SameHits
    <3> HIDE DEF a, b
    <3> QED
      BY <3>1, FS_Subset
  <2>2. Single(a) /\ Single(b)
    BY DEF SameHits, Single
  <2>3. \A x, y : x[2] = y[2] => (Scores(x) <=> Scores(y))
    OBVIOUS
  <2> HIDE DEF Scores
  <2>4. IdsOf(a) = IdsOf(b)
    <3>1. IdsOf(a) \subseteq IdsOf(b)
      <4> SUFFICES ASSUME NEW x \in a PROVE x[2] \in IdsOf(b)
        BY DEF IdsOf
      <4>1. PICK y \in h : y[2] = x[2]
        BY DEF SameHits, IdsOf
      <4> QED
        BY <2>3, <4>1 DEF IdsOf
    <3>2. IdsOf(b) \subseteq IdsOf(a)
      <4> SUFFICES ASSUME NEW x \in b PROVE x[2] \in IdsOf(a)
        BY DEF IdsOf
      <4>1. PICK y \in g : y[2] = x[2]
        BY DEF SameHits, IdsOf
      <4> QED
        BY <2>3, <4>1 DEF IdsOf
    <3> QED
      BY <3>1, <3>2
  <2>5. before = {p \in IdsOf(b) \X IdsOf(b) : Closer(vector, p[1], p[2])}
    BY <2>4
  <2>6. /\ rank_by_similarity(g, vector, q.min_score) = Ordered(a, before)
        /\ rank_by_similarity(h, vector, q.min_score) = Ordered(b, before)
    BY <2>5 DEF rank_by_similarity, Scores
  <2> HIDE DEF a, b, before
  <2>7. SameHits(a, b)
    BY <2>1, <2>2, <2>4 DEF SameHits
  <2> QED
    BY <2>6, <2>7, AlikeOrdered
<1> QED
  BY <1>1, <1>2 DEF rank_for

\* An index by a key, and the ids under the keys that are looked up.
Keyed(index, key) == index = {<<key[id], id>> : id \in Stored}
Under(key, keys) == {id \in Stored : \E n \in DOMAIN keys : keys[n] = key[id]}
HitsUnder(hits, key, keys) == IsFiniteSet(hits) /\ Single(hits) /\ IdsOf(hits) = Under(key, keys)

(* An index hits exactly the records whose key is looked up, each once, because a record has one
   key and no key is looked up twice. *)
LEMMA ScanHits ==
  ASSUME MemoryConstants, NEW key, NEW index, Keyed(index, key),
         NEW keys, IsFiniteSet(DOMAIN keys), \A m, n \in DOMAIN keys : keys[m] = keys[n] => m = n,
         NEW hits, hits = scan_index(index, keys)
  PROVE  HitsUnder(hits, key, keys)
<1>1. hits = {h \in (DOMAIN keys) \X MoIds : h[2] \in Stored /\ keys[h[1]] = key[h[2]]}
  BY DEF scan_index, Keyed
<1>2. IsFiniteSet(hits)
  <2>1. IsFiniteSet((DOMAIN keys) \X MoIds)
    BY FS_Product DEF MemoryConstants
  <2> QED
    BY <1>1, <2>1, FS_Subset
<1>3. Single(hits)
  BY <1>1 DEF Single
<1>4. IdsOf(hits) = {id \in Stored : \E n \in DOMAIN keys : keys[n] = key[id]}
  <2>1. ASSUME NEW id \in Stored, NEW n \in DOMAIN keys, keys[n] = key[id]
        PROVE  id \in IdsOf(hits)
    <3>1. <<n, id>> \in hits
      BY <1>1, <2>1 DEF Stored
    <3>2. id = <<n, id>>[2]
      OBVIOUS
    <3> QED
      BY <3>1, <3>2, Zenon DEF IdsOf
  <2>2. ASSUME NEW h \in hits
        PROVE  h[2] \in Stored /\ \E n \in DOMAIN keys : keys[n] = key[h[2]]
    BY <1>1
  <2> QED
    BY <2>1, <2>2 DEF IdsOf
<1> QED
  BY <1>2, <1>3, <1>4 DEF HitsUnder, Under

(* Both stores find the same records. *)
LEMMA FoundAlike ==
  ASSUME MemoryConstants, MemoryInv, NEW q \in MoQueries, NEW c \in MoClients
  PROVE  query_indexes(q, q.embedding, c) = query_all(q, q.embedding, c)
<1> DEFINE found == candidates(q, c)
           g == {h \in found : Eligible(q, c, h[2])}
           ids == {id \in Stored : /\ Eligible(q, c, id)
                                   /\ q.kinds = <<>> \/ mo_records[id].kind \in ToSet(q.kinds)}
           h == {1} \X ids
           owner == [id \in Stored |-> mo_records[id].owner]
           kind == [id \in Stored |-> mo_records[id].kind]
<1>1. Keyed(mo_kind, kind) /\ Keyed(mo_owner, owner)
  BY DEF MemoryInv, EntriesMatch, Keyed
<1>2. IsFiniteSet(found) /\ Single(found) /\ IdsOf(g) = ids
  <2>1. CASE q.kinds = <<>>
    <3> DEFINE keys == accessible_owners(c)
    <3>1. found = scan_index(mo_owner, keys)
      BY <2>1 DEF candidates
    <3>2. /\ IsFiniteSet(DOMAIN keys) /\ \A m, n \in DOMAIN keys : keys[m] = keys[n] => m = n
          /\ \A id \in Stored : (\E n \in DOMAIN keys : keys[n] = owner[id]) <=> acts_for(c, owner[id])
      <4>1. \A id \in Stored : owner[id] # MoNone
        BY DEF MemoryInv, MemoryShape, MoOwners, MemoryConstants
      <4>2. CASE c.on_behalf_of \in {MoNone, c.id}
        <5>1. keys = <<c.id>> /\ DOMAIN keys = {1}
          BY <4>2 DEF accessible_owners
        <5>2. IsFiniteSet({1})
          BY FS_Singleton
        <5> HIDE DEF keys, owner
        <5> QED
          BY <4>1, <4>2, <5>1, <5>2 DEF acts_for
      <4>3. CASE c.on_behalf_of \notin {MoNone, c.id}
        <5>1. keys = <<c.id, c.on_behalf_of>> /\ DOMAIN keys = {1, 2}
          BY <4>3 DEF accessible_owners
        <5>2. IsFiniteSet({1, 2})
          <6>1. {1, 2} = 1 .. 2
            OBVIOUS
          <6>2. 1 \in Int /\ 2 \in Int
            OBVIOUS
          <6>3. IsFiniteSet(1 .. 2)
            BY <6>2, FS_Interval
          <6> QED
            BY <6>1, <6>3
        <5>3. keys[1] = c.id /\ keys[2] = c.on_behalf_of
          BY <5>1
        <5> HIDE DEF keys, owner
        <5>4. \A m, n \in DOMAIN keys : keys[m] = keys[n] => m = n
          BY <4>3, <5>1, <5>3
        <5>5. \A id \in Stored : (\E n \in DOMAIN keys : keys[n] = owner[id]) <=> acts_for(c, owner[id])
          BY <5>1, <5>3 DEF acts_for
        <5> QED
          BY <5>1, <5>2, <5>4, <5>5
      <4> QED
        BY <4>2, <4>3
    <3> HIDE DEF keys, found, owner
    <3>3. HitsUnder(found, owner, keys)
      BY <1>1, <3>1, <3>2, ScanHits
    <3>4. IdsOf(found) = {id \in Stored : acts_for(c, owner[id])}
      BY <3>2, <3>3 DEF HitsUnder, Under
    <3>5. IdsOf(g) = {id \in IdsOf(found) : Eligible(q, c, id)}
      BY DEF IdsOf
    <3>6. \A id \in Stored : Eligible(q, c, id) => acts_for(c, owner[id])
      BY DEF Eligible, owner
    <3> QED
      BY <2>1, <3>3, <3>4, <3>5, <3>6 DEF HitsUnder
  <2>2. CASE q.kinds # <<>>
    <3> DEFINE keys == requested_kinds(q)
    <3>1. found = scan_index(mo_kind, keys)
      BY <2>2 DEF candidates
    <3>2. /\ IsFiniteSet(DOMAIN keys) /\ \A m, n \in DOMAIN keys : keys[m] = keys[n] => m = n
          /\ \A k : (\E n \in DOMAIN keys : keys[n] = k) <=> k \in ToSet(q.kinds)
      <4>1. ToSet(q.kinds) = {q.kinds[i] : i \in DOMAIN q.kinds} /\ q.kinds \in Seq(Range(q.kinds))
        BY DEF ToSet, MemoryConstants
      <4>2. IsFiniteSet(ToSet(q.kinds))
        <5> DEFINE s == q.kinds
        <5>1. s \in Seq(Range(s)) /\ Len(s) \in Nat /\ DOMAIN s = 1 .. Len(s)
          BY <4>1
        <5>2. IsFiniteSet(1 .. Len(s))
          <6>1. \A n \in Nat : IsFiniteSet(1 .. n)
            BY FS_Interval
          <6> QED
            BY <5>1, <6>1
        <5>3. ToSet(s) = {s[i] : i \in 1 .. Len(s)}
          BY <4>1, <5>1
        <5> DEFINE f == [i \in 1 .. Len(s) |-> s[i]]
        <5>4. f \in Surjection(1 .. Len(s), ToSet(s))
          BY <5>3 DEF Surjection
        <5> HIDE DEF s, f
        <5> QED
          BY <5>2, <5>4, FS_Surjection DEF s
      <4>3. /\ keys \in Seq(ToSet(q.kinds))
            /\ \A m, n \in DOMAIN keys : keys[m] = keys[n] => m = n
            /\ \A x \in ToSet(q.kinds) : \E n \in DOMAIN keys : keys[n] = x
        BY <4>2, LaidOut DEF requested_kinds
      <4> HIDE DEF keys
      <4>4. Len(keys) \in Nat /\ DOMAIN keys = 1 .. Len(keys) /\ \A n \in DOMAIN keys : keys[n] \in ToSet(q.kinds)
        BY <4>3
      <4>5. IsFiniteSet(DOMAIN keys)
        BY <4>4, FS_Interval
      <4> QED
        BY <4>3, <4>4, <4>5
    <3> HIDE DEF keys, found, kind
    <3>3. HitsUnder(found, kind, keys)
      BY <1>1, <3>1, <3>2, ScanHits
    <3>4. IdsOf(found) = {id \in Stored : kind[id] \in ToSet(q.kinds)}
      BY <3>2, <3>3 DEF HitsUnder, Under
    <3>5. IdsOf(g) = {id \in IdsOf(found) : Eligible(q, c, id)}
      BY DEF IdsOf
    <3>6. \A id \in Stored : kind[id] = mo_records[id].kind
      BY DEF kind
    <3> QED
      BY <2>2, <3>3, <3>4, <3>5, <3>6 DEF HitsUnder
  <2> QED
    BY <2>1, <2>2
<1> HIDE DEF found
<1>3. IsFiniteSet(g) /\ Single(g)
  BY <1>2, FS_Subset DEF Single
<1>4. IsFiniteSet(h) /\ Single(h) /\ IdsOf(h) = ids
  <2>1. ids \in SUBSET MoIds /\ IsFiniteSet(MoIds)
    BY DEF Stored, MemoryConstants
  <2> HIDE DEF ids
  <2>2. IsFiniteSet(ids) /\ IsFiniteSet({1})
    BY <2>1, FS_Subset, FS_Singleton
  <2>3. IsFiniteSet(h)
    BY <2>2, FS_Product
  <2>4. Single(h)
    BY DEF Single
  <2>5. IdsOf(h) = ids
    <3>1. \A id \in ids : <<1, id>> \in h /\ <<1, id>>[2] = id
      OBVIOUS
    <3>2. \A x \in h : x[2] \in ids
      OBVIOUS
    <3> HIDE DEF h
    <3> QED
      BY <3>1, <3>2 DEF IdsOf
  <2> QED
    BY <2>3, <2>4, <2>5
<1>5. /\ query_indexes(q, q.embedding, c) = rank_for(q, q.embedding, g)
      /\ query_all(q, q.embedding, c) = rank_for(q, q.embedding, h)
  BY DEF query_indexes, query_all, found
<1> HIDE DEF g, h, ids
<1>6. SameHits(g, h)
  BY <1>2, <1>3, <1>4 DEF SameHits
<1> QED
  BY <1>5, <1>6, AlikeRanked

(* Whatever conversations store, replace, delete and recall, while embeddings are awaited and
   batches swept, every index answers as a scan does; and what a conversation writes after this
   process handed it an untrusted source's words is marked for good, and taints whoever recalls it,
   restarts or not.  What it heard before a restart and writes after it is not claimed: the ledger
   forgets (put_blocking, query_blocking, sweep_batch_blocking, stamp_trust). *)
THEOREM MemoryHolds ==
  ASSUME MemoryConstants
  PROVE  MemorySpec => []MemoryIsHonest
<1>1. MemoryInit => MemoryInv
  BY MemoryStarts
<1>2. MemoryInv /\ [MemoryNext]_moVars => MemoryInv'
  BY MemorySteps
<1>3. MemoryInv => MemoryIsHonest
  <2> SUFFICES ASSUME MemoryInv PROVE MemoryIsHonest
    OBVIOUS
  <2>1. {e[2] : e \in mo_kind} \subseteq Stored /\ {e[2] : e \in mo_owner} \subseteq Stored
        /\ {e[2] : e \in mo_expiry} \subseteq Stored
    BY DEF MemoryInv, EntriesMatch
  <2>2. \A q \in MoQueries, c \in MoClients : query_indexes(q, q.embedding, c) = query_all(q, q.embedding, c)
    BY FoundAlike
  <2>3. RecallKeepsProvenance
    BY DEF MemoryInv, MemoryShape, Marked, HeardIsTainted, RecallKeepsProvenance, record_trust
  <2> QED
    BY <2>1, <2>2, <2>3 DEF MemoryIsHonest, MemoryAnswersAlike
<1> QED
  BY <1>1, <1>2, <1>3, PTL DEF MemorySpec
=============================================================================
