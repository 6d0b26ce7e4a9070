------------------------------ MODULE WebFetch ------------------------------
(***************************************************************************)
(* The fetch tool (crates/net): one document retrieved over a chain of     *)
(* redirects, while the names it resolves may change their addresses at    *)
(* any moment.                                                             *)
(*                                                                         *)
(* A URL is a record [scheme, host, credentials, port]; an address is one  *)
(* of the classes address.rs sorts addresses into.  A host that is an      *)
(* address literal never reaches the resolver.                             *)
(***************************************************************************)
EXTENDS Naturals, Sequences, FiniteSets

CONSTANTS WfNone,
          WfUrls,          \* what a call or a redirect may name
          WfLiterals,      \* hosts that are addresses -> their class
          WfNames,         \* hosts that are names
          WfDenied,        \* hosts the deployment denies
          WfAllowed,       \* hosts it allows; none named allows every other
          WfAllowHttp, WfAllowLocal,
          WfMaxRedirects, WfMaxBytes,
          WfBodies,        \* bodies: records [textual, html, declared, chunks]
          WfTexts,         \* lengths of the text a markup may hold
          WfMaxTurns       \* bound: answers of the name service that change

VARIABLES wfDns,       \* name -> the classes of its addresses now
          wfFetch,     \* the call
          wfAsked,     \* URLs that were authorised
          wfReached,   \* [url, class] of every connection made
          wfTurns

wfVars == <<wfDns, wfFetch, wfAsked, wfReached, wfTurns>>

Classes == {"global", "local", "refused"}

(* is_reachable().                                                         *)
is_reachable(class) == class = "global" \/ (class = "local" /\ WfAllowLocal)

(* validate_url(): the scheme, no credentials, a host, a port that is one  *)
(* of the two or not privileged, and the deployment's hosts.               *)
validate_url(u) ==
  /\ u.scheme = "https" \/ (u.scheme = "http" /\ WfAllowHttp)
  /\ ~u.credentials
  /\ u.port \in {80, 443} \/ u.port >= 1024
  /\ u.host \notin WfDenied
  /\ WfAllowed = {} \/ u.host \in WfAllowed

(* resolve_host() and partition(): the addresses of a host that may be     *)
(* reached.                                                                *)
Addresses(host) == IF host \in DOMAIN WfLiterals THEN {WfLiterals[host]} ELSE wfDns[host]
partition(host) == {class \in Addresses(host) : is_reachable(class)}

-----------------------------------------------------------------------------
Fetch(change) == wfFetch' = [f \in DOMAIN wfFetch |-> IF f \in DOMAIN change THEN change[f] ELSE wfFetch[f]]
Refuse == Fetch([phase |-> "done", answer |-> "refused"])

(* planned_resources() of the URL a call names, and the decision on its    *)
(* claims; invoke() then validates it again from nothing.                  *)
plan_fetch(u) ==
  /\ wfFetch.phase = "idle"
  /\ IF validate_url(u)
       THEN \E allowed \in BOOLEAN :
              /\ IF allowed THEN Fetch([phase |-> "check", url |-> u]) ELSE Refuse
              /\ wfAsked' = IF allowed THEN wfAsked \cup {u} ELSE wfAsked
       ELSE Refuse /\ UNCHANGED wfAsked
  /\ UNCHANGED <<wfDns, wfReached, wfTurns>>

(* allowed_addresses(): a host with no address to go to is refused with a  *)
(* message.                                                                *)
allowed_addresses ==
  /\ wfFetch.phase = "check"
  /\ IF partition(wfFetch.url.host) = {} THEN Refuse ELSE Fetch([phase |-> "connect"])
  /\ UNCHANGED <<wfDns, wfAsked, wfReached, wfTurns>>

(* The plausible slip: the connection trusts the check that was made.      *)
connect_unguarded ==
  /\ wfFetch.phase = "connect"
  /\ \E class \in Addresses(wfFetch.url.host) :
       /\ wfReached' = wfReached \cup {[url |-> wfFetch.url, class |-> class]}
       /\ Fetch([phase |-> "response"])
  /\ UNCHANGED <<wfDns, wfAsked, wfTurns>>

(* GuardedResolver::resolve(): the client resolves a name again, and only  *)
(* what may be reached comes out; it connects to a literal as it stands.   *)
lookup(host) == IF host \in DOMAIN WfLiterals THEN {WfLiterals[host]} ELSE partition(host)

connect_guarded ==
  /\ wfFetch.phase = "connect"
  /\ \/ \E class \in lookup(wfFetch.url.host) :
          /\ wfReached' = wfReached \cup {[url |-> wfFetch.url, class |-> class]}
          /\ Fetch([phase |-> "response"])
     \/ /\ lookup(wfFetch.url.host) = {}
        /\ Fetch([phase |-> "done", answer |-> "failed"])
        /\ UNCHANGED wfReached
  /\ UNCHANGED <<wfDns, wfAsked, wfTurns>>

(* next_hop(): no downgrade, the same validation, and the same decisions   *)
(* as a URL the caller named; a refused claim fails the call.              *)
next_hop(u) ==
  /\ wfFetch.phase = "response"
  /\ CASE wfFetch.hops >= WfMaxRedirects -> Refuse /\ UNCHANGED wfAsked
       [] wfFetch.hops < WfMaxRedirects ->
            IF (wfFetch.url.scheme = "https" => u.scheme = "https") /\ validate_url(u)
              THEN \E allowed \in BOOLEAN :
                     /\ IF allowed
                          THEN Fetch([phase |-> "check", url |-> u, hops |-> wfFetch.hops + 1])
                          ELSE Fetch([phase |-> "done", answer |-> "failed"])
                     /\ wfAsked' = IF allowed THEN wfAsked \cup {u} ELSE wfAsked
              ELSE Refuse /\ UNCHANGED wfAsked
  /\ UNCHANGED <<wfDns, wfReached, wfTurns>>

(* read(): readable() of the type, the declared length, and then the       *)
(* chunks.                                                                 *)
read_head(body) ==
  /\ wfFetch.phase = "response"
  /\ IF ~body.textual \/ (body.declared # WfNone /\ body.declared > WfMaxBytes)
       THEN Refuse
       ELSE Fetch([phase |-> "body", body |-> body])
  /\ UNCHANGED <<wfDns, wfAsked, wfReached, wfTurns>>

(* html_to_text(): the text of a document is written until it is full,    *)
(* and one that is full is reported as cut.  What is no markup is kept.    *)
Answer(kept, cut) ==
  \E wanted \in IF wfFetch.body.html THEN WfTexts ELSE {kept} :
    LET text == IF wfFetch.body.html /\ wanted > WfMaxBytes THEN WfMaxBytes ELSE wanted
    IN  Fetch([phase |-> "done", answer |-> "content", kept |-> kept, wanted |-> wanted, text |-> text,
               truncated |-> cut \/ (wfFetch.body.html /\ text >= WfMaxBytes)])

read_chunk ==
  /\ wfFetch.phase = "body" /\ wfFetch.body.chunks # <<>>
  /\ LET length == Head(wfFetch.body.chunks)
         remaining == WfMaxBytes - wfFetch.kept
     IN  IF length > remaining
           THEN Answer(WfMaxBytes, TRUE)
           ELSE Fetch([kept |-> wfFetch.kept + length,
                       body |-> [wfFetch.body EXCEPT !.chunks = Tail(@)]])
  /\ UNCHANGED <<wfDns, wfAsked, wfReached, wfTurns>>

read_end ==
  /\ wfFetch.phase = "body" /\ wfFetch.body.chunks = <<>>
  /\ Answer(wfFetch.kept, FALSE)
  /\ UNCHANGED <<wfDns, wfAsked, wfReached, wfTurns>>

(* Cancelled, or a request past its budget, or a broken connection.        *)
abandon_fetch ==
  /\ wfFetch.phase \notin {"idle", "done"}
  /\ Fetch([phase |-> "done", answer |-> "failed"])
  /\ UNCHANGED <<wfDns, wfAsked, wfReached, wfTurns>>

(* The name service answers differently from now on.                       *)
rebind(name, classes) ==
  /\ wfTurns < WfMaxTurns /\ wfFetch.phase # "done"
  /\ wfTurns' = wfTurns + 1
  /\ wfDns' = [wfDns EXCEPT ![name] = classes]
  /\ UNCHANGED <<wfFetch, wfAsked, wfReached>>

FetchInit ==
  /\ wfDns \in [WfNames -> {{"global"}, {"refused"}}]
  /\ wfFetch = [phase |-> "idle", url |-> WfNone, hops |-> 0, body |-> WfNone,
                kept |-> 0, wanted |-> 0, text |-> 0, truncated |-> FALSE, answer |-> WfNone]
  /\ wfAsked = {} /\ wfReached = {} /\ wfTurns = 0

FetchNext ==
  \/ \E u \in WfUrls : plan_fetch(u) \/ next_hop(u)
  \/ allowed_addresses \/ connect_guarded \/ read_chunk \/ read_end \/ abandon_fetch
  \/ \E body \in WfBodies : read_head(body)
  \/ \E name \in WfNames, classes \in SUBSET Classes : rebind(name, classes)

FetchSpec == FetchInit /\ [][FetchNext]_wfVars

(* The limits are numbers, and a body is a list of chunks' lengths.        *)
FetchConstants ==
  /\ WfMaxRedirects \in Nat /\ WfMaxBytes \in Nat /\ WfTexts \subseteq Nat /\ WfNone # "content"
  /\ WfBodies \subseteq
       [textual : BOOLEAN, html : BOOLEAN, declared : Nat \cup {WfNone}, chunks : Seq(Nat)]

(* What an answer leaves out: chunks that were not read to their end, or   *)
(* text of the markup that was read.                                       *)
Missing == wfFetch.body.chunks # <<>> \/ wfFetch.text < wfFetch.wanted

(* However names move and wherever redirects lead: every connection went   *)
(* to an address the deployment may reach, for a URL that was authorised   *)
(* and valid, over no more hops than allowed.  An answer that leaves       *)
(* something out says so, and one that says so stopped at the limit, by    *)
(* the bytes it read or by the text it wrote (resolver.rs, tool.rs fetch() *)
(* and read(), extract.rs Sink).                                           *)
ReachesOnlyWhatWasAsked ==
  /\ \A r \in wfReached :
       is_reachable(r.class) /\ r.url \in wfAsked /\ validate_url(r.url)
  /\ Cardinality(wfReached) <= WfMaxRedirects + 1
  /\ wfFetch.kept <= WfMaxBytes
  /\ wfFetch.answer = "content" =>
       /\ Missing => wfFetch.truncated
       /\ wfFetch.truncated => wfFetch.kept = WfMaxBytes \/ wfFetch.text >= WfMaxBytes

-----------------------------------------------------------------------------
(* Addresses                                                               *)

(* classify_v4() of four octets.                                           *)
classify_v4(o) ==
  CASE \/ o[1] = 0 \/ o[1] >= 224
       \/ o[1] = 169 /\ o[2] = 254
       \/ o[1] = 192 /\ o[2] = 0 /\ o[3] \in {0, 2}
       \/ o[1] = 198 /\ (o[2] \in {18, 19} \/ (o[2] = 51 /\ o[3] = 100))
       \/ o[1] = 203 /\ o[2] = 0 /\ o[3] = 113 -> "refused"
    [] \/ o[1] \in {127, 10}
       \/ o[1] = 172 /\ o[2] \in 16 .. 31
       \/ o[1] = 192 /\ o[2] = 168
       \/ o[1] = 100 /\ o[2] \in 64 .. 127 -> "local"
    [] OTHER -> "global"

Octets(hi, lo) == <<hi \div 256, hi % 256, lo \div 256, lo % 256>>

(* The plausible slip: an embedded address is taken at face value.         *)
classify_v6_plainly(s) ==
  CASE s = [i \in 1 .. 8 |-> 0] -> "refused"
    [] s[1] \div 256 = 255 \/ s[1] \div 64 = 1018 -> "refused"
    [] s = [i \in 1 .. 8 |-> IF i = 8 THEN 1 ELSE 0] -> "local"
    [] s[1] \div 512 = 126 -> "local"
    [] OTHER -> "global"

(* classify_v6() of eight segments: the mapped form is the address it      *)
(* carries, every other form that carries one is refused.                  *)
classify_v6(s) ==
  LET low == [i \in 1 .. 8 |-> IF i = 8 THEN 1 ELSE 0]
      carries == \A i \in 1 .. 6 : s[i] = 0
  IN  CASE (\A i \in 1 .. 5 : s[i] = 0) /\ s[6] = 65535 -> classify_v4(Octets(s[7], s[8]))
        [] carries /\ s # low -> "refused"
        [] \/ s[1] \div 256 = 255 \/ s[1] \div 64 = 1018 \/ s[1] = 8194
           \/ s[1] = 8193 /\ s[2] \in {0, 3512}
           \/ s[1] = 256 /\ s[2] = 0 /\ s[3] = 0 /\ s[4] = 0 -> "refused"
        [] s = low \/ s[1] \div 512 = 126 -> "local"
        [] OTHER -> "global"

(* The IPv6 spellings that carry an IPv4 address: mapped, compatible, 6to4 *)
(* and Teredo; and the prefix of translators (64:ff9b::/96).               *)
Spellings(hi, lo) ==
  {<<0, 0, 0, 0, 0, 65535, hi, lo>>, <<8194, hi, lo, 0, 0, 0, 0, 1>>, <<8193, 0, 1, 2, 3, 4, hi, lo>>}
  \cup (IF hi = 0 /\ lo <= 1 THEN {} ELSE {<<0, 0, 0, 0, 0, 0, hi, lo>>})
Translated(hi, lo) == <<100, 65435, 0, 0, 0, 0, hi, lo>>

(* Spelled as IPv6 in one of the four forms classify_v6() names, no IPv4   *)
(* address is easier to reach than as itself.  The translators' prefix is  *)
(* none of them: an address in it is global whatever it carries, although  *)
(* the module says that forms that embed an IPv4 address are refused       *)
(* (address.rs classify_v6() and its lines 16 to 20).                      *)
SpellingNeverHelps(hi, lo) ==
  /\ \A s \in Spellings(hi, lo) :
       CASE classify_v4(Octets(hi, lo)) = "refused" -> classify_v6(s) = "refused"
         [] classify_v4(Octets(hi, lo)) = "local" -> classify_v6(s) # "global"
         [] OTHER -> TRUE
  /\ classify_v6(Translated(hi, lo)) = "global"
=============================================================================
