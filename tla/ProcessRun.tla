---------------------------- MODULE ProcessRun ----------------------------
(***************************************************************************)
(* The process tool (crates/exec): one child started, fed, read and        *)
(* reaped by runner.rs run(), while the child's tree forks, detaches,      *)
(* closes its pipes and exits as it likes.                                 *)
(*                                                                         *)
(* A pipe holds a bounded number of bytes.  Under the sandbox a process    *)
(* namespace goes with its first process; unconfined, only the process     *)
(* group does (the host's part: external).                                 *)
(***************************************************************************)
EXTENDS Naturals, Sequences, FiniteSets

CONSTANTS PrNone,
          PrRequests,      \* what a call may ask: records [program, arguments, bytes, nul, stdin]
          PrPrograms,      \* the allowlist
          PrInstalled,     \* the programs found on the search path
          PrMaxArguments, PrMaxArgumentBytes, PrMaxStdin,
          PrCap,           \* max_output_bytes
          PrPipe,          \* what a pipe holds
          PrMaxOutput,     \* bound: bytes written to a stream
          PrTimeout,       \* the tool's own timeout
          PrDeadlines      \* remaining times of callers' deadlines, PrNone for none

VARIABLES prCall,      \* the call: phase, sandboxed, deadline, fed, kid, timed_out, code, answer
          prAlive,     \* processes of the child's tree that live
          prHolders,   \* those that hold its pipes open
          prStream     \* stream -> [pipe, produced, kept, truncated, eof]

prVars == <<prCall, prAlive, prHolders, prStream>>

Streams == {"stdout", "stderr"}
Least(a, b) == IF a < b THEN a ELSE b

-----------------------------------------------------------------------------
(* The request                                                             *)

(* validate_name() and validate(): an allowlisted name, and no more        *)
(* arguments, bytes or input than the tool takes.                          *)
validate(r) ==
  /\ r.program \in PrPrograms
  /\ r.arguments <= PrMaxArguments
  /\ r.bytes <= PrMaxArgumentBytes
  /\ ~r.nul
  /\ r.stdin # PrNone => r.stdin <= PrMaxStdin

(* budget(): how long, and whether the caller's deadline said so.          *)
budget(deadline) ==
  IF deadline # PrNone /\ deadline < PrTimeout
    THEN [time |-> deadline, from_deadline |-> TRUE]
    ELSE [time |-> PrTimeout, from_deadline |-> FALSE]

(* is_bare(), quote() and render(): a command line as characters.  A word  *)
(* of plain characters stands for itself; any other is quoted, its quotes  *)
(* closed, escaped and reopened.                                           *)
is_bare(ch) == ch \notin {"quote", "space", "backslash"}

Escaped(word) ==
  LET escape[n \in 0 .. Len(word)] ==
        IF n = 0 THEN <<>>
        ELSE escape[n - 1] \o (IF word[n] = "quote" THEN <<"quote", "backslash", "quote", "quote">>
                               ELSE <<word[n]>>)
  IN  escape[Len(word)]

(* The plausible slip: a quote inside a quoted word is left as it is.      *)
quote_plainly(word) ==
  IF word # <<>> /\ \A i \in DOMAIN word : is_bare(word[i]) THEN word
  ELSE <<"quote">> \o word \o <<"quote">>

quote(word) ==
  IF word # <<>> /\ \A i \in DOMAIN word : is_bare(word[i]) THEN word
  ELSE <<"quote">> \o Escaped(word) \o <<"quote">>

render(words) ==
  LET line[n \in 0 .. Len(words)] ==
        IF n = 0 THEN <<>>
        ELSE line[n - 1] \o (IF n = 1 THEN <<>> ELSE <<"space">>) \o quote(words[n])
  IN  line[Len(words)]

-----------------------------------------------------------------------------
(* The run                                                                 *)

Running == prCall.phase \in {"running", "killed"}

(* invoke(): parse(), resolve() on the search path, and run() up to the    *)
(* spawn, which applies the limits and makes the child a group of its own. *)
invoke_process(r, deadline, sandboxed) ==
  /\ prCall.phase = "idle"
  /\ IF validate(r) /\ r.program \in PrInstalled
       THEN /\ prCall' = [prCall EXCEPT !.phase = "running", !.sandboxed = sandboxed,
                                        !.deadline = deadline, !.fed = (r.stdin = PrNone)]
            /\ prAlive' = {"child"} /\ prHolders' = {"child"}
       ELSE /\ prCall' = [prCall EXCEPT !.phase = "answered", !.answer = "refused"]
            /\ UNCHANGED <<prAlive, prHolders>>
  /\ UNCHANGED prStream

(* The child's input: written and shut down, whether or not it is read.    *)
feed ==
  /\ Running /\ ~prCall.fed
  /\ prCall' = [prCall EXCEPT !.fed = TRUE]
  /\ UNCHANGED <<prAlive, prHolders, prStream>>

(* The tree: output while the pipe has room, a fork, a new session, the    *)
(* pipes closed, an exit.                                                  *)
child_writes(p, s) ==
  /\ p \in prAlive \cap prHolders
  /\ prStream[s].pipe < PrPipe /\ prStream[s].produced < PrMaxOutput
  /\ prStream' = [prStream EXCEPT ![s].pipe = @ + 1, ![s].produced = @ + 1]
  /\ UNCHANGED <<prCall, prAlive, prHolders>>

child_forks ==
  /\ "child" \in prAlive /\ prCall.kid = "unborn"
  /\ prAlive' = prAlive \cup {"kid"}
  /\ prCall' = [prCall EXCEPT !.kid = "grouped"]
  /\ prHolders' = IF "child" \in prHolders THEN prHolders \cup {"kid"} ELSE prHolders
  /\ UNCHANGED prStream

kid_detaches ==
  /\ "kid" \in prAlive /\ prCall.kid = "grouped"
  /\ prCall' = [prCall EXCEPT !.kid = "detached"]
  /\ UNCHANGED <<prAlive, prHolders, prStream>>

closes_pipes(p) ==
  /\ p \in prAlive \cap prHolders
  /\ prHolders' = prHolders \ {p}
  /\ UNCHANGED <<prCall, prAlive, prStream>>

exits(p) ==
  /\ p \in prAlive
  /\ prAlive' = prAlive \ {p} /\ prHolders' = prHolders \ {p}
  /\ \E code \in {"zero", "nonzero"} :
       prCall' = IF p = "child" THEN [prCall EXCEPT !.code = code] ELSE prCall
  /\ UNCHANGED prStream

(* The plausible slip: what did not fit is forgotten, not reported.        *)
forget_rest(st, n) == [st EXCEPT !.kept = Least(PrCap, st.kept + n)]

(* capture() of one read: what is over the cap is thrown away as it comes. *)
captured(st, n) ==
  [st EXCEPT !.kept = Least(PrCap, st.kept + n), !.truncated = @ \/ n > PrCap - st.kept]

(* capture(): both streams are read at once, each to its end.              *)
capture(s) ==
  /\ Running /\ ~prStream[s].eof
  /\ \/ \E n \in 1 .. prStream[s].pipe :
          prStream' = [prStream EXCEPT ![s] = [captured(prStream[s], n) EXCEPT !.pipe = @ - n]]
     \/ /\ prStream[s].pipe = 0 /\ prHolders = {}
        /\ prStream' = [prStream EXCEPT ![s].eof = TRUE]
  /\ UNCHANGED <<prCall, prAlive, prHolders>>

(* The plausible slip: only the process the handle names is killed.        *)
kill_child == {"child"}

(* kill_group(): whoever is still in the group, and in the sandbox         *)
(* whatever runs under it.                                                 *)
kill_group == IF prCall.sandboxed THEN prAlive
              ELSE {p \in prAlive : p = "child" \/ prCall.kid # "detached"}

Kill == prAlive' = prAlive \ kill_group /\ prHolders' = prHolders \ kill_group

(* The budget is spent: the tree is killed, and the run waits for what the *)
(* pipes still hold.                                                       *)
times_out ==
  /\ prCall.phase = "running"
  /\ Kill
  /\ prCall' = [prCall EXCEPT !.phase = "killed", !.timed_out = TRUE,
                              !.code = IF "child" \in prAlive THEN "signal" ELSE @]
  /\ UNCHANGED prStream

(* The caller cancelled: the tree is killed and nothing is waited for.     *)
cancelled ==
  /\ prCall.phase = "running"
  /\ Kill
  /\ prCall' = [prCall EXCEPT !.phase = "answered", !.answer = "cancelled"]
  /\ UNCHANGED prStream

(* The future of run() is dropped: kill_on_drop reaches the process of the *)
(* handle, and in the sandbox what dies with it, but not the group.        *)
dropped ==
  /\ Running
  /\ LET reached == IF prCall.sandboxed THEN prAlive ELSE {"child"}
     IN  prAlive' = prAlive \ reached /\ prHolders' = prHolders \ reached
  /\ prCall' = [prCall EXCEPT !.phase = "answered", !.answer = "dropped"]
  /\ UNCHANGED prStream

(* succeeded(), report() and the end of invoke(): running past the         *)
(* caller's deadline ends the operation, running past the tool's own       *)
(* timeout is something the model is told.                                 *)
report(call) ==
  CASE call.timed_out /\ budget(call.deadline).from_deadline -> "timeout"
    [] call.timed_out /\ ~budget(call.deadline).from_deadline -> "failed"
    [] ~call.timed_out -> IF call.code = "zero" THEN "ok" ELSE "failed"

finishes ==
  /\ Running /\ prCall.fed
  /\ \A s \in Streams : prStream[s].eof
  /\ "child" \notin prAlive
  /\ prCall' = [prCall EXCEPT !.phase = "answered", !.answer = report(prCall)]
  /\ UNCHANGED <<prAlive, prHolders, prStream>>

-----------------------------------------------------------------------------
ProcessInit ==
  /\ prCall = [phase |-> "idle", sandboxed |-> FALSE, deadline |-> PrNone, fed |-> FALSE,
               kid |-> "unborn", timed_out |-> FALSE, code |-> PrNone, answer |-> PrNone]
  /\ prAlive = {} /\ prHolders = {}
  /\ prStream = [s \in Streams |->
                   [pipe |-> 0, produced |-> 0, kept |-> 0, truncated |-> FALSE, eof |-> FALSE]]

ProcessNext ==
  \/ \E r \in PrRequests, d \in PrDeadlines, sandboxed \in BOOLEAN : invoke_process(r, d, sandboxed)
  \/ feed \/ child_forks \/ kid_detaches \/ times_out \/ cancelled \/ dropped \/ finishes
  \/ \E p \in {"child", "kid"} : closes_pipes(p) \/ exits(p) \/ \E s \in Streams : child_writes(p, s)
  \/ \E s \in Streams : capture(s)

ProcessSpec == ProcessInit /\ [][ProcessNext]_prVars

(* The cap is a number, and no answer is the absent one.                   *)
ProcessConstants ==
  PrCap \in Nat /\ PrNone \notin {"refused", "cancelled", "dropped", "timeout", "failed", "ok"}

-----------------------------------------------------------------------------
(* A run that was cut short leaves nothing behind it: once the tree was    *)
(* killed nobody holds the pipes the runner still reads, so the wait after *)
(* a timeout ends (runner.rs: "a wait for a tree that is already dead") -  *)
(* except for a descendant that left the group of an unconfined child.  A  *)
(* run whose future was dropped leaves no child, and in the sandbox nobody *)
(* else; the rest of an unconfined child's group may live on.              *)
(* And what is reported accounts for every byte: the first PrCap of each   *)
(* stream are kept, and the report says whether there were more.           *)
RunLeavesNothing ==
  /\ (prCall.phase = "killed" \/ prCall.answer = "cancelled")
       /\ (prCall.sandboxed \/ prCall.kid # "detached") => prAlive = {} /\ prHolders = {}
  /\ prCall.answer = "dropped" => "child" \notin prAlive /\ (prCall.sandboxed => prAlive = {})
  /\ prCall.answer \in {"ok", "failed", "timeout"} =>
       \A s \in Streams :
         /\ prStream[s].kept = Least(PrCap, prStream[s].produced)
         /\ prStream[s].truncated <=> prStream[s].produced > PrCap

(* No two commands are shown to a policy or a person as the same line      *)
(* (command_line.rs: "distinct argument vectors always produce distinct    *)
(* lines").                                                                *)
RenderIsInjective(a, b) == render(a) = render(b) => a = b
=============================================================================
