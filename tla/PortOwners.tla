---------------------------- MODULE PortOwners -----------------------------
(***************************************************************************)
(* The three modes that own their port directly: Forcola.run               *)
(* (lib/forcola/run.ex), Forcola.Stream and Forcola.Daemon.  Each sends    *)
(* frames through the port and receives what the guard relays.  A run      *)
(* collects until a report or a deadline; a stream receives only when its  *)
(* consumer pulls, and its demand is the shim's read budget; a daemon      *)
(* polls for readiness and then serves.                                    *)
(***************************************************************************)
EXTENDS PortGuard

VARIABLES
  exit,        \* state.exit of a stream or daemon: "none", "ok" or "error"
  reason,      \* acc.reason: why a run was cancelled
  lossy,       \* acc.truncated
  got,         \* bytes collected, yielded or emitted, in order
  rest,        \* a stream's unfinished line
  outstanding, \* a stream's credit granted and not received
  after,       \* what follows a confirmed kill
  result,      \* what the call says of its output, with its outcome
  closed       \* put_guard_close: what Shim.close returned

ownerVars == <<exit, reason, lossy, got, rest, outstanding, after, result, closed>>
vars == <<req, shimVars, inbox, portVars, guardVars, own, ownerVars>>

NoResult == [outcome |-> "none", output |-> "none"]
Window(c) ==
  IF c = "err" /\ req.mode = "stream" THEN req.maxErr + 1 ELSE req.window
Credit(c, n) == [kind |-> "credit", channel |-> c, bytes |-> n]
Kill == [kind |-> "kill"]
Eof == [kind |-> "eof"]

\* Mutant: stderr gets its limit and not one byte more.
FirstCredit_Exact ==
  CASE ~Gated -> <<>>
    [] Gated /\ req.mode = "run" -> <<Credit("out", req.window), Credit("err", req.window)>>
    [] OTHER -> <<Credit("err", req.maxErr)>>

\* The budget granted at the start.  A stream's stderr gets one byte more than
\* its limit, so that reaching the limit and passing it differ.
FirstCredit ==
  CASE ~Gated -> <<>>
    [] Gated /\ req.mode = "run" -> <<Credit("out", req.window), Credit("err", req.window)>>
    [] OTHER -> <<Credit("err", req.maxErr + 1)>>

Init ==
  /\ req \in Requests
  /\ child = "none" /\ doomed = FALSE /\ said = Zero /\ read = Zero /\ eof = {}
  /\ avail = Zero /\ shim = "new" /\ discard = FALSE /\ timedOut = FALSE
  /\ crashed = FALSE
  /\ inbox = (IF req.mode = "daemon" THEN <<>> ELSE <<Eof>> \o FirstCredit)
  /\ port = "open" /\ wire = <<>>
  /\ guard = "relay" /\ reported = FALSE /\ mailbox = <<>>
  /\ own = (CASE req.mode = "run" -> "collecting" [] req.mode = "stream" -> "idle"
            [] OTHER -> "polling")
  /\ exit = "none" /\ reason = "none" /\ lossy = FALSE
  /\ got = [c \in Channels |-> <<>>] /\ rest = <<>> /\ outstanding = 0
  /\ after = "none" /\ result = NoResult /\ closed = "none"

\* Shim.send_frame: false on a closed port.
SendFrames(frames) == inbox' = IF port = "open" THEN inbox \o frames ELSE inbox

Arrived(kind) == mailbox # <<>> /\ Head(mailbox).kind = kind
Consume == mailbox' = Tail(mailbox)

\* Shim.close: close the port, then drain what the guard still relays.
StartClosing == own' = "closing" /\ CloseGuardedPort

\* Mutant: the drain ends with the transport's end.
Drain_Early ==
  /\ own = "closing" /\ mailbox # <<>> /\ Consume
  /\ IF Head(mailbox).kind \in {"guard_closed", "exit_status"}
     THEN own' = "returned" /\ closed' = "ok"
     ELSE UNCHANGED <<own, closed>>
  /\ UNCHANGED <<req, shimVars, inbox, portVars, guard, reported, exit, reason, lossy,
                 got, rest, outstanding, after, result>>

\* drain_guard.
Drain ==
  /\ own = "closing" /\ mailbox # <<>> /\ Consume
  /\ IF Head(mailbox).kind = "guard_closed"
     THEN own' = "returned" /\ closed' = "ok"
     ELSE UNCHANGED <<own, closed>>
  /\ UNCHANGED <<req, shimVars, inbox, portVars, guard, reported, exit, reason, lossy,
                 got, rest, outstanding, after, result>>

DrainTimeout ==
  /\ own = "closing" /\ req.timers
  /\ own' = "returned" /\ closed' = "timeout"
  /\ UNCHANGED <<req, shimVars, inbox, portVars, guardVars, exit, reason, lossy, got,
                 rest, outstanding, after, result>>

\* The process dies, and its mailbox with it.
OwnerDies ==
  /\ own \notin {"returned", "dead"} /\ req.faults > 0
  /\ own' = "dead" /\ mailbox' = <<>>
  /\ UNCHANGED <<req, shimVars, inbox, portVars, guard, reported, ownerVars>>

-----------------------------------------------------------------------------
(* Forcola.run.                                                            *)

Collecting == own = "collecting"
Collected == Len(got["out"]) + Len(got["err"])

RunReturns(outcome, output) ==
  /\ StartClosing
  /\ result' = [outcome |-> outcome, output |-> output]
  /\ UNCHANGED <<req, shimVars, inbox, guard, reported, exit, reason, lossy, got, rest,
                 outstanding, after, closed>>

Evidence == IF lossy THEN "truncated" ELSE "unknown"
Outcome(otherwise) == IF reason = "none" THEN otherwise ELSE reason

\* cancel, of a bounded run.
RunDeadline ==
  /\ Collecting /\ req.timers /\ Gated /\ reason = "none"
  /\ reason' = "timeout"
  /\ SendFrames(<<Kill>>)
  /\ UNCHANGED <<req, shimVars, portVars, guardVars, own, exit, lossy, got, rest,
                 outstanding, after, result, closed>>

\* The backstop: the call no longer waits for the shim's report.
RunBackstop ==
  /\ Collecting /\ req.timers
  /\ RunReturns(Outcome("timeout"), Evidence)
  /\ UNCHANGED mailbox

\* Bytes of a frame within max_output_bytes.
Kept(frame) ==
  IF Gated /\ Len(frame.bytes) > req.max - Collected THEN req.max - Collected
  ELSE Len(frame.bytes)

\* output: the part within the bound is kept, and the frame's size granted
\* again unless the run is over.
RunOutput(overflow) ==
  /\ Collecting /\ Arrived("data") /\ reason = "none" /\ Consume
  /\ LET frame == Head(mailbox)
         kept == Kept(frame)
         cut == kept < Len(frame.bytes)
     IN  /\ overflow => Gated /\ req.observed /\ kept > 0
         /\ got' = [got EXCEPT ![frame.channel] = @ \o SubSeq(frame.bytes, 1, kept)]
         /\ lossy' = (cut \/ overflow)
         /\ reason' = (CASE cut -> "max_output_bytes"
                         [] ~cut /\ overflow -> "observer_overflow"
                         [] OTHER -> "none")
         /\ IF Gated THEN SendFrames(IF cut \/ overflow THEN <<Kill>>
                                     ELSE <<Credit(frame.channel, Len(frame.bytes))>>)
            ELSE UNCHANGED inbox
  /\ UNCHANGED <<req, shimVars, portVars, guard, reported, own, exit, rest, outstanding,
                 after, result, closed>>

\* Mutant: output after the cancellation goes unnoticed.
RunDiscards_Silently ==
  /\ Collecting /\ Arrived("data") /\ reason # "none" /\ Consume
  /\ UNCHANGED <<req, shimVars, inbox, portVars, guard, reported, own, exit, reason, got,
                 rest, outstanding, after, result, closed, lossy>>

RunDiscards ==
  /\ Collecting /\ Arrived("data") /\ reason # "none" /\ Consume
  /\ lossy' = TRUE
  /\ UNCHANGED <<req, shimVars, inbox, portVars, guard, reported, own, exit, reason, got,
                 rest, outstanding, after, result, closed>>

\* EXIT: either side may have cut the output.
RunExit ==
  /\ Collecting /\ Arrived("exit") /\ Consume
  /\ LET report == Head(mailbox)
     IN  RunReturns(Outcome(IF report.timedOut THEN "timeout" ELSE "ok"),
                    IF lossy \/ report.truncated THEN "truncated" ELSE "complete")

\* ERROR, or the shim ended without a report.
RunLost ==
  /\ Collecting /\ (Arrived("error") \/ Arrived("exit_status")) /\ Consume
  /\ RunReturns(Outcome("spawn"), Evidence)

RunSteps ==
  /\ req.mode = "run"
  /\ RunDeadline \/ RunBackstop \/ RunDiscards \/ RunExit \/ RunLost
     \/ \E overflow \in BOOLEAN : RunOutput(overflow)

-----------------------------------------------------------------------------
(* Kill and confirm, of a stream and a daemon.                             *)

\* KILL, then await_exit.
StartConfirming(next) ==
  /\ own' = "confirming" /\ after' = next
  /\ SendFrames(<<Kill>>)

\* cleanup_evidence: a halt and a daemon's stop close the port; a stream's
\* error is raised at the next pull.
Confirmed ==
  IF after = "close" THEN StartClosing
  ELSE own' = after /\ UNCHANGED portVars

ConfirmFrame ==
  /\ own = "confirming" /\ mailbox # <<>> /\ Consume
  /\ IF Head(mailbox).kind \in {"exit", "error", "exit_status"}
     THEN Confirmed
     ELSE UNCHANGED <<own, portVars>>
  /\ UNCHANGED <<req, shimVars, inbox, guard, reported, ownerVars>>

ConfirmTimeout ==
  /\ own = "confirming" /\ req.timers
  /\ Confirmed
  /\ UNCHANGED <<req, shimVars, inbox, guardVars, ownerVars>>

-----------------------------------------------------------------------------
(* Forcola.Stream.  "idle": the consumer has what it asked for; "next":    *)
(* Stream.resource calls next/1; "pulling": receive_next.                  *)

StreamHas(kind) == own = "pulling" /\ Arrived(kind) /\ Consume

Demand ==
  /\ own = "idle" /\ own' = "next"
  /\ UNCHANGED <<req, shimVars, inbox, portVars, guardVars, ownerVars>>

\* Mutant: every pull adds a window.
Next_Accumulates ==
  /\ own = "next" /\ exit = "none"
  /\ own' = "pulling"
  /\ IF Gated THEN SendFrames(<<Credit("out", req.window)>>) /\ outstanding' = req.window
     ELSE UNCHANGED <<inbox, outstanding>>
  /\ UNCHANGED <<req, shimVars, portVars, guardVars, exit, reason, lossy, got, rest,
                 after, result, closed>>

\* next/1: grant_credit tops the budget up to one window.
StreamNext ==
  /\ own = "next" /\ exit = "none"
  /\ own' = "pulling"
  /\ IF Gated /\ outstanding < req.window
     THEN SendFrames(<<Credit("out", req.window - outstanding)>>)
     ELSE UNCHANGED inbox
  /\ outstanding' = (IF Gated THEN req.window ELSE outstanding)
  /\ UNCHANGED <<req, shimVars, portVars, guardVars, exit, reason, lossy, got, rest,
                 after, result, closed>>

\* {:halt, state} or raise; either way cleanup/1 closes the port.
StreamEnds ==
  /\ own = "next" /\ exit # "none"
  /\ StartClosing
  /\ result' = (IF exit = "ok" THEN [outcome |-> "ok", output |-> "complete"]
                ELSE [outcome |-> "error", output |-> "unknown"])
  /\ UNCHANGED <<req, shimVars, inbox, guardVars, exit, reason, lossy, got, rest,
                 outstanding, after, closed>>

\* The consumer halts early.
StreamHalt ==
  /\ own = "idle"
  /\ IF exit = "none" THEN StartConfirming("close") /\ UNCHANGED portVars
     ELSE StartClosing /\ UNCHANGED <<after, inbox>>
  /\ UNCHANGED <<req, shimVars, guardVars, exit, reason, lossy, got, rest, outstanding,
                 result, closed>>

\* Whole lines at the front of the buffer, whose bytes are at positions b.
LineEnds(b) == {i \in DOMAIN b : req.out[b[i]] = "n"}
LastEnd(b) == IF LineEnds(b) = {} THEN 0 ELSE CHOOSE i \in LineEnds(b) :
                                                \A j \in LineEnds(b) : j <= i
LineStart(b, i) == LastEnd(SubSeq(b, 1, i - 1))

\* Bytes of b to yield before the first line over the limit, if there is one.
Overlong(b) == {i \in LineEnds(b) : i - LineStart(b, i) - 1 > req.max}
BeforeOverlong(b) ==
  LET first == CHOOSE i \in Overlong(b) : \A j \in Overlong(b) : i <= j
  IN  LineStart(b, first)

\* Lines for the consumer, or another turn of Stream.resource.
Yield(bytes) == IF bytes = <<>> THEN "next" ELSE "idle"

\* account_stdout.
Charged(bytes) == IF outstanding > bytes THEN outstanding - bytes ELSE 0

\* consume_lines.
StreamOutput ==
  /\ StreamHas("data") /\ Head(mailbox).channel = "out"
  /\ LET b == rest \o Head(mailbox).bytes
         over == Gated /\ (Overlong(b) # {} \/ Len(b) - LastEnd(b) > req.max)
         n == IF Gated /\ Overlong(b) # {} THEN BeforeOverlong(b) ELSE LastEnd(b)
     IN  /\ got' = [got EXCEPT !["out"] = @ \o SubSeq(b, 1, n)]
         /\ rest' = (IF over THEN <<>> ELSE SubSeq(b, n + 1, Len(b)))
         /\ outstanding' = Charged(Len(Head(mailbox).bytes))
         /\ IF over THEN StartConfirming(Yield(SubSeq(b, 1, n))) /\ exit' = "error"
            ELSE own' = Yield(SubSeq(b, 1, n)) /\ UNCHANGED <<after, inbox, exit>>
  /\ UNCHANGED <<req, shimVars, portVars, guard, reported, reason, lossy, result, closed>>

\* consume_stderr.
StreamStderr ==
  /\ StreamHas("data") /\ Head(mailbox).channel = "err"
  /\ LET size == Len(Head(mailbox).bytes)
         room == req.maxErr - Len(got["err"])
         over == Gated /\ size > room
     IN  /\ got' = [got EXCEPT !["err"] =
                      @ \o SubSeq(Head(mailbox).bytes, 1, IF over THEN room ELSE size)]
         /\ IF over THEN StartConfirming("next") /\ exit' = "error" /\ rest' = <<>>
            ELSE own' = "next" /\ UNCHANGED <<after, inbox, exit, rest>>
  /\ UNCHANGED <<req, shimVars, portVars, guard, reported, reason, lossy, outstanding,
                 result, closed>>

\* handle_exit: the unfinished line is the last one.
StreamExit ==
  /\ StreamHas("exit")
  /\ LET report == Head(mailbox)
     IN  exit' = IF report.clean /\ ~report.timedOut /\ ~report.truncated
                 THEN "ok" ELSE "error"
  /\ got' = [got EXCEPT !["out"] = @ \o rest]
  /\ rest' = <<>> /\ own' = Yield(rest)
  /\ UNCHANGED <<req, shimVars, inbox, portVars, guard, reported, reason, lossy,
                 outstanding, after, result, closed>>

StreamLost ==
  /\ StreamHas("error") \/ StreamHas("exit_status")
  /\ exit' = "error" /\ own' = "next"
  /\ UNCHANGED <<req, shimVars, inbox, portVars, guard, reported, reason, lossy, got, rest,
                 outstanding, after, result, closed>>

\* timeout_error: KILL for an idle timeout; past the deadline the port's
\* closing is what is left.
StreamTimeout ==
  /\ own = "pulling" /\ req.timers
  /\ exit' = "error"
  /\ StartConfirming("next") \/ (own' = "next" /\ UNCHANGED <<after, inbox>>)
  /\ UNCHANGED <<req, shimVars, portVars, guardVars, reason, lossy, got, rest,
                 outstanding, result, closed>>

StreamSteps ==
  /\ req.mode = "stream"
  /\ Demand \/ StreamNext \/ StreamEnds \/ StreamHalt \/ StreamOutput \/ StreamStderr
     \/ StreamExit \/ StreamLost \/ StreamTimeout

-----------------------------------------------------------------------------
(* Forcola.Daemon.  "polling": poll_ready in init; "serving": the server.  *)

DaemonReady ==
  /\ own = "polling" /\ own' = "serving"
  /\ UNCHANGED <<req, shimVars, inbox, portVars, guardVars, ownerVars>>

\* handle_info, and await_ready in its stead.
DaemonHears == own \in {"polling", "serving"} /\ mailbox # <<>> /\ Consume

\* absorb_frames or handle_info.  An end that is known needs no KILL.
DaemonFrame ==
  /\ DaemonHears
  /\ IF Head(mailbox).kind = "data"
     THEN /\ got' = [got EXCEPT ![Head(mailbox).channel] = @ \o Head(mailbox).bytes]
          /\ UNCHANGED <<own, portVars, exit, result>>
     ELSE /\ exit' = (IF Head(mailbox).kind = "exit" /\ Head(mailbox).clean
                      THEN "ok" ELSE "error")
          /\ result' = [outcome |-> IF own = "polling" THEN "exited_before_ready" ELSE exit',
                        output |-> IF Head(mailbox).kind = "exit" /\ ~Head(mailbox).truncated
                                   THEN "complete" ELSE "unknown"]
          /\ StartClosing /\ UNCHANGED got
  /\ UNCHANGED <<req, shimVars, inbox, guard, reported, reason, lossy, rest, outstanding,
                 after, closed>>

\* The supervisor stops it, or it never became ready: shutdown.
DaemonStop ==
  /\ own = "serving" \/ (own = "polling" /\ req.timers)
  /\ StartConfirming("close")
  /\ UNCHANGED <<req, shimVars, portVars, guardVars, exit, reason, lossy, got, rest,
                 outstanding, result, closed>>

DaemonSteps == req.mode = "daemon" /\ (DaemonReady \/ DaemonFrame \/ DaemonStop)

-----------------------------------------------------------------------------

Finished ==
  /\ own \in {"returned", "dead"} /\ ~Alive /\ guard = "gone" /\ port = "closed"
  /\ UNCHANGED vars

OwnerSteps ==
  \/ Drain \/ DrainTimeout \/ OwnerDies \/ ConfirmFrame \/ ConfirmTimeout
  \/ RunSteps \/ StreamSteps \/ DaemonSteps

Next ==
  \/ (ShimSteps \/ GuardSteps) /\ UNCHANGED ownerVars
  \/ OwnerSteps
  \/ Finished

Commands == (ShimEof \/ ShimCredit \/ ShimKill) /\ UNCHANGED ownerVars
Pump(c) == (PumpForward(c, 1) \/ PumpForward(c, 2) \/ PumpEof(c)) /\ UNCHANGED ownerVars
Supervise ==
  (SpawnChild \/ SpawnFails \/ ShimReap \/ ShimReport \/ ShimTimeout \/ ShimLeft
   \/ ShimHearsClose \/ (doomed /\ ChildExit)) /\ UNCHANGED ownerVars
Guard == (GuardEnds \/ GuardRelay \/ GuardDown) /\ UNCHANGED ownerVars

\* The shim and the guard are scheduled, a process handles its messages, and
\* deadlines pass.  Nothing is assumed of the child, the consumer or faults.
Fairness ==
  /\ WF_vars(Commands) /\ WF_vars(Supervise) /\ \A c \in Channels : WF_vars(Pump(c))
  /\ WF_vars(PortEnds /\ UNCHANGED ownerVars) /\ WF_vars(Guard)
  /\ WF_vars(Drain \/ ConfirmFrame) /\ WF_vars(DrainTimeout) /\ WF_vars(ConfirmTimeout)
  /\ WF_vars(RunSteps /\ mailbox' # mailbox) /\ WF_vars(req.mode = "run" /\ RunBackstop)
  /\ WF_vars(StreamSteps /\ own \in {"next", "pulling"})
  /\ WF_vars(DaemonSteps /\ mailbox' # mailbox)
  /\ WF_vars(DaemonSteps /\ own = "polling" /\ DaemonStop)

Spec == Init /\ [][Next]_vars
FairSpec == Spec /\ Fairness

-----------------------------------------------------------------------------
(* Properties.                                                             *)

\* Every variable has its type; a bounded run keeps no more than its bound and
\* a bounded stream no more stderr than its limit, whatever was in flight
\* (run.ex output, stream.ex consume_stderr).
TypeOK ==
  /\ req \in Requests
  /\ child \in {"none", "run", "exited"} /\ doomed \in BOOLEAN
  /\ \A c \in Channels : said[c] \in 0..Len(Script(c)) /\ read[c] \in 0..said[c]
  /\ eof \subseteq Channels /\ avail \in [Channels -> Nat]
  /\ shim \in {"new", "loop", "drain", "cut", "linger", "gone"}
  /\ {discard, timedOut, crashed, reported, lossy} \subseteq BOOLEAN
  /\ port \in {"open", "closed"} /\ guard \in {"relay", "gone"}
  /\ own \in {"collecting", "idle", "next", "pulling", "polling", "serving",
             "confirming", "closing", "returned", "dead"}
  /\ exit \in {"none", "ok", "error"} /\ after \in {"none", "close", "next", "idle"}
  /\ reason \in {"none", "timeout", "max_output_bytes", "observer_overflow"}
  /\ closed \in {"none", "ok", "timeout"}
  /\ outstanding \in 0..req.window
  /\ Gated /\ req.mode = "run" => Collected <= req.max
  /\ Gated /\ req.mode = "stream" => Len(got["err"]) <= req.maxErr

\* A result that calls its output complete, and a stream that ends without an
\* exception, hold every byte the child wrote, in order: no cancellation,
\* limit, timer or transport failure leaves complete evidence behind
\* (run.ex report_evidence, stream.ex handle_exit).
CompleteMeansWhole ==
  result.output = "complete" =>
    \A c \in Channels : got[c] = [i \in 1..said[c] |-> i]

\* After a close that did not time out, no message of the port is in the
\* owner's mailbox or will ever come (shim.ex close, guard_open).
NothingLeftBehind ==
  own = "returned" /\ closed = "ok" => mailbox = <<>> /\ guard = "gone"

\* The sum of some sizes, counted unit by unit.
Total(sizes) == Cardinality(UNION {{i} \X (1..sizes[i]) : i \in DOMAIN sizes})

CreditSizes(frames, c) ==
  [i \in DOMAIN frames |->
     IF frames[i].kind = "credit" /\ frames[i].channel = c THEN frames[i].bytes ELSE 0]
DataSizes(frames, c) ==
  [i \in DOMAIN frames |->
     IF frames[i].kind = "data" /\ frames[i].channel = c THEN Len(frames[i].bytes) ELSE 0]

\* With backpressure, budget and bytes between the pipe and the owner never
\* exceed one window per channel: a consumer that stops bounds what the BEAM
\* buffers (stream.ex grant_credit, run.ex grant).
WindowKept ==
  Gated => \A c \in Channels :
    avail[c] + Total(CreditSizes(inbox, c))
             + Total(DataSizes(wire, c)) + Total(DataSizes(mailbox, c)) <= Window(c)

\* No counter, buffer or window of an owner ever outgrows its bound.
BoundsKept == TypeOK /\ WindowKept

\* When the owner is done or dead, the child ends, unless the shim was killed
\* first (shim.ex guard_port, close).
OwnerEndsAll == own \in {"returned", "dead"} ~> child # "run" \/ crashed

\* Once the child has ended or the shim is gone, whoever waits is answered,
\* even with no deadline to save it; a deadline answers a run or a stream
\* whatever the child does.  A credit that is never granted, or a frame nobody
\* relays, would show here.
CallAnswered ==
  /\ own \notin {"idle", "returned", "dead"} /\
       (child = "exited" \/ ~Alive \/ (req.timers /\ own \notin {"polling", "serving"}))
  ~> own \in {"idle", "returned", "dead"}
=============================================================================
