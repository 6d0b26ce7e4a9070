---------------------------- MODULE ClientSession ----------------------------
(***************************************************************************)
(* `aik --socket`: the terminal of crates/cli/src/client.rs talking to a   *)
(* host over one connection, with the client side of crates/ipc.           *)
(*                                                                         *)
(* A frame travels as its length prefix and its body, and Client::recv()   *)
(* reads the one and then the other, so that the person's Ctrl-C can fall  *)
(* between them: turn() then drops the read under way and starts another.  *)
(* The host is what the client can see of it (HostConnection models it):   *)
(* it takes calls in order, answers each once, streams updates of a prompt *)
(* before its answer, asks an interactive client questions at any time,    *)
(* and may say it is closing or vanish.                                    *)
(***************************************************************************)
EXTENDS Naturals, Sequences

CONSTANTS
  ClNone,           \* an absent value
  ClCommands,       \* what the person types besides prompts
  ClMaxCalls,       \* bound: calls sent
  ClMaxUpdates,     \* bound: updates of one prompt
  ClMaxQuestions,   \* bound: questions asked
  ClMaxWire         \* bound: frames on their way to the client

VARIABLES
  clMode,           \* "typing", "turn", "call", "asking" or "left"
  clOneShot,        \* whether the prompt came from the command line
  clWaits,          \* the call the client waits for
  clHalf,           \* whether the read under way has the prefix already
  clInterrupted,    \* whether this turn was interrupted
  clQuestion,       \* the question before the person, and what it interrupted
  clSession,        \* the conversation, ClNone before the host named one
  clNext,           \* next_id
  clToHost,         \* calls on their way
  clToClient,       \* halves of frames on their way
  clOpen,           \* prompts the host is working on
  clUpdates,        \* updates sent, for the bound
  clAsked,          \* questions asked, for the bound
  clHost,           \* whether the host still holds the connection
  clGarbled         \* history: whether part of a body was read as a length

clVars == <<clMode, clOneShot, clWaits, clHalf, clInterrupted, clQuestion, clSession, clNext,
            clToHost, clToClient, clOpen, clUpdates, clAsked, clHost, clGarbled>>

interactive == ~clOneShot
-----------------------------------------------------------------------------
(***************************************************************************)
(* Calls and frames.                                                       *)
(***************************************************************************)
Call(id, request, about) == [id |-> id, request |-> request, about |-> about]

Response_(kind, id, about) == [kind |-> kind, id |-> id, about |-> about]

Halves(frame) == <<[half |-> "prefix", frame |-> frame], [half |-> "body", frame |-> frame]>>

\* Client::send: the next id, quoted by every answer to the call.
sends(request, about) ==
  /\ clNext <= ClMaxCalls
  /\ clToHost' = IF clHost THEN Append(clToHost, Call(clNext, request, about)) ELSE clToHost
  /\ clNext' = clNext + 1

\* A command returns: to the next line, or out of a one-shot run.
ends ==
  /\ clMode' = IF clOneShot THEN "left" ELSE "typing"
  /\ clHalf' = FALSE

HostUnchanged == UNCHANGED <<clOpen, clUpdates, clAsked, clHost>>
-----------------------------------------------------------------------------
(***************************************************************************)
(* The person at the prompt.                                               *)
(***************************************************************************)
\* turn() begins.
prompts ==
  /\ clMode = "typing"
  /\ sends("prompt", clSession)
  /\ clMode' = "turn" /\ clWaits' = clNext /\ clInterrupted' = FALSE
  /\ HostUnchanged
  /\ UNCHANGED <<clOneShot, clHalf, clQuestion, clSession, clToClient, clGarbled>>

\* /quit, Ctrl-C at the prompt, or the end of the input.
quits ==
  /\ clMode = "typing" /\ interactive
  /\ clMode' = "left"
  /\ HostUnchanged
  /\ UNCHANGED <<clOneShot, clWaits, clHalf, clInterrupted, clQuestion, clSession, clNext,
                 clToHost, clToClient, clGarbled>>

\* /new: the next prompt names no session.
starts_over ==
  /\ clMode = "typing" /\ interactive /\ "new" \in ClCommands
  /\ clSession' = ClNone
  /\ HostUnchanged
  /\ UNCHANGED <<clMode, clOneShot, clWaits, clHalf, clInterrupted, clQuestion, clNext,
                 clToHost, clToClient, clGarbled>>

\* /clear and /compact act on the current conversation and fail here without one; /sessions,
\* /status and /jobs need none.
needs_session == {"clear", "compact"}

commands(name) ==
  /\ clMode = "typing" /\ interactive /\ name # "new"
  /\ name \in needs_session => clSession # ClNone
  /\ sends(name, clSession)
  /\ clMode' = "call" /\ clWaits' = clNext
  /\ HostUnchanged
  /\ UNCHANGED <<clOneShot, clHalf, clInterrupted, clQuestion, clSession, clToClient, clGarbled>>
-----------------------------------------------------------------------------
(***************************************************************************)
(* Reading.                                                                *)
(***************************************************************************)
Receiving == clMode \in {"turn", "call"}

\* frame::read, its length; where a body is next its bytes are taken for a length, which is
\* far over the limit (text) and ends the command.
reads_prefix ==
  /\ Receiving /\ ~clHalf /\ clToClient # <<>>
  /\ \/ /\ Head(clToClient).half = "prefix"
        /\ clHalf' = TRUE
        /\ clToClient' = Tail(clToClient)
        /\ UNCHANGED <<clMode, clGarbled>>
     \/ /\ Head(clToClient).half = "body"
        /\ clGarbled' = TRUE
        /\ ends
        /\ UNCHANGED clToClient
  /\ HostUnchanged
  /\ UNCHANGED <<clOneShot, clWaits, clInterrupted, clQuestion, clSession, clNext, clToHost>>

\* The connection ended: between frames, or within one.
reads_end ==
  /\ Receiving /\ clToClient = <<>> /\ ~clHost
  /\ ends
  /\ HostUnchanged
  /\ UNCHANGED <<clOneShot, clWaits, clInterrupted, clQuestion, clSession, clNext, clToHost,
                 clToClient, clGarbled>>

\* A plausible slip: any call's answer taken for this one's.
answers_something(frame) == frame.kind \in {"done", "failed"}

answers_this(frame) == frame.kind \in {"done", "failed"} /\ frame.id = clWaits

\* frame::read, its body, and what turn() and call() do with the frame: an own answer ends
\* the command and, when a prompt finished, names the conversation; a question goes to the
\* person; a notice of closing ends the command; anything else is passed over.
reads_body ==
  LET frame == Head(clToClient).frame
  IN  /\ Receiving /\ clHalf /\ clToClient # <<>>
      /\ clToClient' = Tail(clToClient)
      /\ clHalf' = FALSE
      /\ \/ /\ answers_this(frame)
            /\ ends
            /\ clSession' = IF frame.kind = "done" /\ clMode = "turn" THEN frame.about
                            ELSE clSession
            /\ UNCHANGED clQuestion
         \/ /\ frame.kind = "closing"
            /\ ends
            /\ UNCHANGED <<clQuestion, clSession>>
         \/ /\ frame.kind = "approval"
            /\ clQuestion' = [about |-> frame.about, from |-> clMode]
            /\ clMode' = "asking"
            /\ UNCHANGED clSession
         \/ /\ ~answers_this(frame) /\ frame.kind \notin {"closing", "approval"}
            /\ UNCHANGED <<clMode, clQuestion, clSession>>
      /\ HostUnchanged
      /\ UNCHANGED <<clOneShot, clWaits, clInterrupted, clNext, clToHost, clGarbled>>

\* answer(): the person's yes, or anything else, a broken console included.  No Ctrl-C is
\* listened for meanwhile.  (The host asks only who said somebody is there, so the refusal
\* answer() has for the others never runs.)
answers ==
  /\ clMode = "asking"
  /\ \E verdict \in {"approve", "deny"} : sends(verdict, clQuestion.about)
  /\ clMode' = clQuestion.from
  /\ clQuestion' = ClNone
  /\ HostUnchanged
  /\ UNCHANGED <<clOneShot, clWaits, clHalf, clInterrupted, clSession, clToClient, clGarbled>>

\* A call of this command cannot be written any more.
write_fails ==
  /\ ~clHost /\ clMode \in {"turn", "call", "asking"}
  /\ ends
  /\ clQuestion' = ClNone
  /\ HostUnchanged
  /\ UNCHANGED <<clOneShot, clWaits, clInterrupted, clSession, clNext, clToHost, clToClient,
                 clGarbled>>

\* Ctrl-C during a turn, once: the read under way is dropped with what it had read, and the
\* host is asked to cancel.
interrupts ==
  /\ clMode = "turn" /\ ~clInterrupted
  /\ clInterrupted' = TRUE
  /\ clHalf' = FALSE
  /\ sends("cancel", clWaits)
  /\ HostUnchanged
  /\ UNCHANGED <<clMode, clOneShot, clWaits, clQuestion, clSession, clToClient, clGarbled>>
-----------------------------------------------------------------------------
(***************************************************************************)
(* The host, as the client sees it.                                        *)
(***************************************************************************)
ClientUnchanged == UNCHANGED <<clMode, clOneShot, clWaits, clHalf, clInterrupted, clQuestion,
                               clSession, clNext, clGarbled>>

Pushes(frame) ==
  /\ clHost /\ Len(clToClient) + 2 <= 2 * ClMaxWire
  /\ clToClient' = clToClient \o Halves(frame)

\* A prompt is taken up; anything else is answered at once.
host_takes ==
  /\ clHost /\ clToHost # <<>>
  /\ clToHost' = Tail(clToHost)
  /\ LET call == Head(clToHost)
     IN  IF call.request = "prompt"
         THEN /\ clOpen' = clOpen \cup {[id |-> call.id, session |->
                             IF call.about = ClNone THEN call.id ELSE call.about]}
              /\ clUpdates' = 0
              /\ UNCHANGED clToClient
         ELSE /\ \E how \in IF call.request = "cancel" THEN {"done"} ELSE {"done", "failed"} :
                    Pushes(Response_(how, call.id, call.about))
              /\ UNCHANGED <<clOpen, clUpdates>>
  /\ UNCHANGED <<clAsked, clHost>>
  /\ ClientUnchanged

host_works ==
  /\ \E p \in clOpen :
       \/ /\ clUpdates < ClMaxUpdates
          /\ clUpdates' = clUpdates + 1
          /\ Pushes(Response_("update", p.id, ClNone))
          /\ UNCHANGED <<clOpen, clAsked>>
       \/ /\ \E how \in {"done", "failed"} : Pushes(Response_(how, p.id, p.session))
          /\ clOpen' = clOpen \ {p}
          /\ UNCHANGED <<clUpdates, clAsked>>
  /\ UNCHANGED <<clToHost, clHost>>
  /\ ClientUnchanged

\* A question, of this client's turn or of anybody's.
host_asks ==
  /\ interactive /\ clAsked < ClMaxQuestions
  /\ clAsked' = clAsked + 1
  /\ Pushes(Response_("approval", 0, clAsked + 1))
  /\ UNCHANGED <<clToHost, clOpen, clUpdates, clHost>>
  /\ ClientUnchanged

\* Shutting down says so first, when it can; a host that dies does not.
host_goes ==
  /\ clHost
  /\ clHost' = FALSE
  /\ clToHost' = <<>>
  /\ clOpen' = {}
  /\ \/ clToClient' = clToClient
     \/ clToClient' = clToClient \o Halves(Response_("closing", 0, ClNone))
  /\ UNCHANGED <<clUpdates, clAsked>>
  /\ ClientUnchanged
-----------------------------------------------------------------------------
\* run(): connected, with the session the command line named or none.
ClientInit ==
  /\ clMode = "typing" /\ clOneShot \in BOOLEAN
  /\ clWaits = 0 /\ clHalf = FALSE /\ clInterrupted = FALSE
  /\ clQuestion = ClNone
  /\ clSession \in {ClNone, 0}
  /\ clNext = 1 /\ clToHost = <<>> /\ clToClient = <<>>
  /\ clOpen = {} /\ clUpdates = 0 /\ clAsked = 0 /\ clHost = TRUE
  /\ clGarbled = FALSE

ClientNext ==
  \/ prompts \/ quits \/ starts_over \/ (\E name \in ClCommands : commands(name))
  \/ reads_prefix \/ reads_body \/ reads_end \/ answers \/ interrupts
  \/ write_fails
  \/ host_takes \/ host_works \/ host_asks \/ host_goes

ClientSpec == ClientInit /\ [][ClientNext]_clVars

(* What is sent on the side, whatever is under way; what the person types  *)
(* is none of it.                                                          *)
OnTheSide == {"cancel", "approve", "deny"}
ClientConstants == ClCommands \cap (OnTheSide \cup {"prompt"}) = {}

-----------------------------------------------------------------------------
(***************************************************************************)
(* Properties.                                                             *)
(***************************************************************************)
(***************************************************************************)
(* The two ends agree on what is under way.  When the person can type      *)
(* again, the host has nothing left to do of what was typed before, only   *)
(* cancellations and verdicts that were sent on the side; so it never      *)
(* works on two turns of this client, and the one it works on is the one   *)
(* waited for, in the conversation the client believes it is in.  This is  *)
(* so although answers to what was sent on the side arrive before the      *)
(* turn's own, after it or during a later command (client.rs turn(),       *)
(* call()), as long as no frame was misread.                               *)
(***************************************************************************)
TurnsDoNotOverlap ==
  clHost /\ ~clGarbled =>
    /\ clMode \in {"typing", "left"} =>
         clOpen = {} /\ \A i \in DOMAIN clToHost : clToHost[i].request \in OnTheSide
    /\ \A p \in clOpen :
         p.id = clWaits /\ p.session = IF clSession = ClNone THEN p.id ELSE clSession

(***************************************************************************)
(* Interrupting a turn cancels nothing at this end, so the two sides never *)
(* disagree about where a frame starts.                                    *)
(***************************************************************************)
FramesReadWhole == ~clGarbled
=============================================================================
