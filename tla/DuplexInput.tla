----------------------------- MODULE DuplexInput -----------------------------
(***************************************************************************)
(* The input of a Forcola.Duplex session (lib/forcola/duplex.ex): callers  *)
(* of send_line and send_eof, the server's queue of frames the port did    *)
(* not take, its retry and expiry timers, and the end of the session, whose *)
(* KILL shares the port with the input.  The child may stop reading, so    *)
(* the port may stay busy for ever.                                        *)
(*                                                                         *)
(* The server takes the port's messages in order and any others in any     *)
(* order.  No name here is one of PullSession's, which models the output   *)
(* of the same session: DuplexProofs extends both.                         *)
(***************************************************************************)
EXTENDS Naturals, Sequences, FiniteSets, SequencesExt

CONSTANTS
  Sends,        \* calls of send_line and send_eof, each made at most once
  Kinds,        \* what the calls may be: SUBSET [Sends -> {"line", "eof"}]
  PatientSends, \* the calls made with :infinity
  HighWater     \* frames the port holds for the shim before it is busy

ASSUME KindAssumption == Kinds \subseteq [Sends -> {"line", "eof"}]
ASSUME PatientAssumption == PatientSends \subseteq Sends
ASSUME HighWaterAssumption == HighWater \in Nat \ {0}

VARIABLES
  kind,        \* {:send_line, ...} or {:send_eof, ...}
  sendCall,    \* "idle", "asked" (in the mailbox), "held" (in pending), or the answer
  sendTimer,   \* of a held call: "off", "armed" or "fired" (in the mailbox)
  pending,     \* state.pending
  flushTimer,  \* state.flush_timer: "off", "armed" or "fired"
  stdinOpen,   \* state.stdin_open
  over,        \* state.exit is set
  inputServer, \* "up", in terminate "killing" or "awaiting", "down"
  deadline,    \* of the clean-up: "ahead" or "past"
  sent,        \* input frames the port took
  unread,      \* frames in the port that the shim has not read, earlier ones too
  kill,        \* the KILL frame: "none", "sent" or "read"
  inputPort,   \* "open" or "closed"
  fromShim,    \* messages from the port: "exit", "exit_status"
  inputShim    \* "run", "ending" (EXIT is written) or "gone"

sendVars == <<kind, sendCall, sendTimer>>
queueVars == <<pending, flushTimer, stdinOpen>>
endVars == <<over, inputServer, deadline>>
frameVars == <<sent, unread, kill, inputPort>>
reportVars == <<fromShim, inputShim>>
inputVars == <<sendVars, queueVars, endVars, frameVars, reportVars>>

SendAnswers == {"ok", "busy", "closed"}

InputInit ==
  /\ kind \in Kinds /\ sendCall = [c \in Sends |-> "idle"]
  /\ sendTimer = [c \in Sends |-> "off"]
  /\ pending = <<>> /\ flushTimer = "off" /\ stdinOpen = TRUE
  /\ over = FALSE /\ inputServer = "up" /\ deadline = "ahead"
  /\ sent = <<>> /\ unread \in 0..HighWater /\ kill = "none" /\ inputPort = "open"
  /\ fromShim = <<>> /\ inputShim = "run"

-----------------------------------------------------------------------------
(* The callers, the timers and the shim.                                   *)

Ask(c) ==
  /\ sendCall[c] = "idle" /\ sendCall' = [sendCall EXCEPT ![c] = "asked"]
  /\ UNCHANGED <<kind, sendTimer, queueVars, endVars, frameVars, reportVars>>

\* The server is gone: the call exits, and that reads as closed.
AskNobody(c) ==
  /\ sendCall[c] = "asked" /\ inputServer = "down"
  /\ sendCall' = [sendCall EXCEPT ![c] = "closed"]
  /\ UNCHANGED <<kind, sendTimer, queueVars, endVars, frameVars, reportVars>>

SendTimerFires(c) ==
  /\ sendTimer[c] = "armed" /\ sendTimer' = [sendTimer EXCEPT ![c] = "fired"]
  /\ UNCHANGED <<kind, sendCall, queueVars, endVars, frameVars, reportVars>>

FlushTimerFires ==
  /\ flushTimer = "armed" /\ flushTimer' = "fired"
  /\ UNCHANGED <<sendVars, pending, stdinOpen, endVars, frameVars, reportVars>>

DeadlinePasses ==
  /\ inputServer \in {"killing", "awaiting"} /\ deadline = "ahead" /\ deadline' = "past"
  /\ UNCHANGED <<sendVars, queueVars, over, inputServer, frameVars, reportVars>>

\* The reader takes a frame, unless the child's stdin and its queue are full.
ShimReads ==
  /\ inputShim = "run" /\ inputPort = "open" /\ unread > 0 /\ unread' = unread - 1
  /\ UNCHANGED <<sendVars, queueVars, endVars, sent, kill, inputPort, reportVars>>

Ends ==
  /\ inputShim' = "ending" /\ fromShim' = Append(fromShim, "exit")

ShimKills ==
  /\ inputShim = "run" /\ inputPort = "open" /\ kill = "sent" /\ unread = 0
  /\ kill' = "read" /\ Ends
  /\ UNCHANGED <<sendVars, queueVars, endVars, sent, unread, inputPort>>

ChildExits ==
  /\ inputShim = "run" /\ inputPort = "open" /\ Ends
  /\ UNCHANGED <<sendVars, queueVars, endVars, frameVars>>

\* After EXIT, by a crash, or because the port was closed on it.
ShimLeaves ==
  /\ inputShim # "gone" /\ inputShim' = "gone"
  /\ IF inputPort = "open"
     THEN inputPort' = "closed" /\ fromShim' = Append(fromShim, "exit_status")
     ELSE UNCHANGED <<inputPort, fromShim>>
  /\ UNCHANGED <<sendVars, queueVars, endVars, sent, unread, kill>>

-----------------------------------------------------------------------------
(* The server: taking calls.                                               *)

\* Shim.try_send_frame.
HasRoom == inputPort = "open" /\ unread < HighWater
PortBusy == inputPort = "open" /\ ~HasRoom

Answer(c, result) == sendCall' = [sendCall EXCEPT ![c] = result]

Enqueue(c) ==
  /\ sendCall' = [sendCall EXCEPT ![c] = "held"]
  /\ sendTimer' = [sendTimer EXCEPT ![c] = IF c \in PatientSends THEN "off" ELSE "armed"]
  /\ pending' = Append(pending, c)
  /\ flushTimer' = IF flushTimer = "off" THEN "armed" ELSE flushTimer
  /\ UNCHANGED <<sent, unread>>

\* The port takes the frame.
Accept(c) == sent' = Append(sent, c) /\ unread' = unread + 1 /\ Answer(c, "ok")

Submit(c) ==
  \/ pending = <<>> /\ HasRoom /\ Accept(c)
       /\ UNCHANGED <<sendTimer, pending, flushTimer>>
  \/ pending = <<>> /\ inputPort = "closed" /\ Answer(c, "closed")
       /\ UNCHANGED <<sent, unread, sendTimer, pending, flushTimer>>
  \/ (pending # <<>> \/ PortBusy) /\ Enqueue(c)

TakeSend(c) ==
  /\ inputServer = "up" /\ sendCall[c] = "asked" /\ ~over /\ stdinOpen
  /\ stdinOpen' = (kind[c] = "line")
  /\ Submit(c)
  /\ UNCHANGED <<kind, endVars, kill, inputPort, reportVars>>

RefuseSend(c) ==
  /\ inputServer = "up" /\ sendCall[c] = "asked" /\ (over \/ ~stdinOpen)
  /\ Answer(c, "closed")
  /\ UNCHANGED <<kind, sendTimer, queueVars, endVars, frameVars, reportVars>>

-----------------------------------------------------------------------------
(* The server: the queue.                                                  *)

\* cancel_timer; a message it already sent stays.
Cancelled(c) == IF sendTimer[c] = "armed" THEN "off" ELSE sendTimer[c]

Minimum(m, n) == IF m < n THEN m ELSE n

\* Mutant: a flush that finds the port busy is the last.
NextFlush_GivesUp(rest) == "off"

NextFlush(rest) == IF rest = <<>> THEN "off" ELSE "armed"

FailPending ==
  /\ sendCall' = [c \in Sends |-> IF Contains(pending, c) THEN "closed" ELSE sendCall[c]]
  /\ sendTimer' = [c \in Sends |-> IF Contains(pending, c) THEN Cancelled(c) ELSE sendTimer[c]]
  /\ pending' = <<>>

\* flush_input: the port takes what it has room for.  What the shim reads
\* meanwhile makes room at the next tick.
Fit == Minimum(Len(pending), HighWater - unread)

FlushSends ==
  /\ inputServer = "up" /\ flushTimer = "fired" /\ inputPort = "open"
  /\ sent' = sent \o SubSeq(pending, 1, Fit) /\ unread' = unread + Fit
  /\ pending' = SubSeq(pending, Fit + 1, Len(pending))
  /\ sendCall' = [c \in Sends |-> IF Contains(SubSeq(pending, 1, Fit), c) THEN "ok"
                                  ELSE sendCall[c]]
  /\ sendTimer' = [c \in Sends |-> IF Contains(SubSeq(pending, 1, Fit), c) THEN Cancelled(c)
                                   ELSE sendTimer[c]]
  /\ flushTimer' = NextFlush(pending')
  /\ UNCHANGED <<kind, stdinOpen, endVars, kill, inputPort, reportVars>>

FlushClosed ==
  /\ inputServer = "up" /\ flushTimer = "fired" /\ inputPort = "closed"
  /\ FailPending /\ flushTimer' = "off"
  /\ UNCHANGED <<kind, stdinOpen, endVars, frameVars, reportVars>>

\* Mutant: any expiry reopens stdin.
Reopens_Any(c) == TRUE

\* An unsent EOF leaves stdin open.
Reopens(c) == kind[c] = "eof"

\* expire_input; a message for a call no longer held changes nothing.
Expire(c) ==
  /\ inputServer = "up" /\ sendTimer[c] = "fired"
  /\ sendTimer' = [sendTimer EXCEPT ![c] = "off"]
  /\ IF Contains(pending, c)
     THEN /\ \E i \in DOMAIN pending : pending[i] = c /\ pending' = RemoveAt(pending, i)
          /\ Answer(c, "busy")
          /\ stdinOpen' = (stdinOpen \/ Reopens(c))
     ELSE UNCHANGED <<sendCall, pending, stdinOpen>>
  /\ UNCHANGED <<kind, flushTimer, endVars, frameVars, reportVars>>

-----------------------------------------------------------------------------
(* The server: the end.                                                    *)

ClosePort == inputPort' = "closed" /\ inputServer' = "down"

\* child_exited and the exit_status handler.  A pull session with lines left
\* stays up; any other stops, and terminate closes the port.
ShimEnded ==
  /\ inputServer = "up" /\ fromShim # <<>>
  /\ fromShim' = Tail(fromShim) /\ over' = TRUE /\ FailPending
  /\ (UNCHANGED <<inputServer, inputPort>>) \/ ClosePort
  /\ UNCHANGED <<kind, flushTimer, stdinOpen, deadline, sent, unread, kill, inputShim>>

\* close/1, shutdown/1, the owner's death, a recv that took the last line.
EndInput ==
  /\ inputServer = "up" /\ FailPending
  /\ IF over THEN ClosePort ELSE inputServer' = "killing" /\ UNCHANGED inputPort
  /\ UNCHANGED <<kind, flushTimer, stdinOpen, over, deadline, sent, unread, kill, reportVars>>

SendKill ==
  /\ inputServer = "killing"
  /\ \/ HasRoom /\ kill' = "sent" /\ inputServer' = "awaiting" /\ UNCHANGED inputPort
     \/ inputPort = "closed" /\ inputServer' = "awaiting" /\ UNCHANGED <<kill, inputPort>>
     \/ PortBusy /\ deadline = "past" /\ ClosePort /\ UNCHANGED kill
  /\ UNCHANGED <<sendVars, queueVars, over, deadline, sent, unread, reportVars>>

\* The report, the loss of the shim, or the deadline.
AwaitExit ==
  /\ inputServer = "awaiting"
  /\ \/ fromShim # <<>> /\ fromShim' = Tail(fromShim)
     \/ deadline = "past" /\ UNCHANGED fromShim
  /\ ClosePort
  /\ UNCHANGED <<sendVars, queueVars, over, deadline, sent, unread, kill, inputShim>>

Finished ==
  /\ inputServer = "down" /\ inputShim = "gone"
  /\ \A c \in Sends : sendCall[c] \in {"idle"} \cup SendAnswers
  /\ UNCHANGED inputVars

-----------------------------------------------------------------------------
FlushStep == FlushClosed \/ FlushSends
InputShim == ShimReads \/ ShimKills \/ ChildExits \/ ShimLeaves

InputNext ==
  \/ \E c \in Sends : \/ Ask(c) \/ AskNobody(c) \/ TakeSend(c) \/ RefuseSend(c)
                      \/ SendTimerFires(c) \/ Expire(c)
  \/ FlushTimerFires \/ DeadlinePasses \/ InputShim \/ FlushStep
  \/ ShimEnded \/ EndInput \/ SendKill \/ AwaitExit \/ Finished

InputSpec == InputInit /\ [][InputNext]_inputVars

\* The server takes every message in its turn, timers fire, and the shim reads
\* a KILL it has reached and leaves a closed port.  The child need not read.
InputFairness ==
  /\ \A c \in Sends : /\ WF_inputVars(TakeSend(c) \/ RefuseSend(c) \/ AskNobody(c))
                      /\ WF_inputVars(SendTimerFires(c)) /\ WF_inputVars(Expire(c))
  /\ WF_inputVars(FlushTimerFires) /\ WF_inputVars(DeadlinePasses)
  /\ WF_inputVars(FlushStep) /\ WF_inputVars(ShimEnded) /\ WF_inputVars(SendKill \/ AwaitExit)
  /\ WF_inputVars(ShimKills) /\ WF_inputVars(inputPort = "closed" /\ ShimLeaves)

FairInputSpec == InputSpec /\ InputFairness

-----------------------------------------------------------------------------
(* Properties.                                                             *)

\* Every variable keeps the type the code gives it; a held call is in the
\* queue once, and only a finite timeout has a timer.
InputTypeOK ==
  /\ kind \in [Sends -> {"line", "eof"}]
  /\ sendCall \in [Sends -> {"idle", "asked", "held"} \cup SendAnswers]
  /\ sendTimer \in [Sends -> {"off", "armed", "fired"}]
  /\ pending \in Seq(Sends) /\ flushTimer \in {"off", "armed", "fired"}
  /\ stdinOpen \in BOOLEAN /\ over \in BOOLEAN
  /\ inputServer \in {"up", "killing", "awaiting", "down"}
  /\ deadline \in {"ahead", "past"}
  /\ sent \in Seq(Sends) /\ unread \in 0..HighWater
  /\ kill \in {"none", "sent", "read"} /\ inputPort \in {"open", "closed"}
  /\ fromShim \in Seq({"exit", "exit_status"}) /\ inputShim \in {"run", "ending", "gone"}

\* The session keeps the promises of OrderedInput: the order of the calls, a
\* refused line that is never sent, a sent one that is never refused, and an
\* EOF that nothing follows, though stdin is reopened when an EOF expires.
Promise == INSTANCE OrderedInput WITH
  waiting <- pending,
  answer <- [c \in Sends |-> IF sendCall[c] \in SendAnswers THEN sendCall[c] ELSE "none"]
ImplementsOrderedInput == Promise!Spec

\* Every call is answered: within its bound while the child does not read, and
\* without one as soon as the port has room again or the session is over.
CallsAnswered ==
  \A c \in Sends :
    (c \in PatientSends => []<>(HasRoom \/ inputPort = "closed"))
      => (sendCall[c] \in {"asked", "held"} ~> sendCall[c] \in SendAnswers)

\* A session being closed ends, and the shim after it, though input the child
\* does not read may keep the KILL out of the port.
CloseEnds == inputServer = "killing" ~> inputServer = "down" /\ inputShim = "gone"

\* A child that stops reading blocks neither the callers nor the end of the
\* session: no message and no timer of the input queue is ever lost.
InputNeverBlocks == CallsAnswered /\ CloseEnds
=============================================================================
