---------------------------- MODULE PullSession ----------------------------
(***************************************************************************)
(* A pull session end to end: recv callers, the Forcola.Duplex server with *)
(* `delivery: :pull` (lib/forcola/duplex.ex), the port's two directions,   *)
(* and the native shim serving it with strict output and a read budget per *)
(* stream (native/forcola_shim/src/supervisor.rs, credit.rs).              *)
(*                                                                         *)
(* Output is bytes with an address: stream s carries the bytes 1, 2, ...,  *)
(* Len(script[s]) of its script, "n" for a newline and "x" for any other.  *)
(* A frame or a line is the range from+1..to it covers, so a lost,         *)
(* repeated or torn line is visible.  The server takes messages of one     *)
(* sender in order, and of different senders in any order.                 *)
(***************************************************************************)
EXTENDS Naturals, Sequences, FiniteSets, SequencesExt, Functions, DeliveryOptions

CONSTANTS
  StreamOrder, \* the order flush_buffers takes them in
  Scripts,     \* what the child may mean to write: [Streams -> Seq({"x", "n"})]
  Callers,     \* processes that may call recv
  Patient,     \* those that call it with :infinity
  MaxCalls,    \* bound: recv calls in a run
  MaxOutput,   \* max_output_bytes
  FrameMax     \* bytes the pump forwards per frame

ASSUME LimitAssumption ==
  MaxLine > 0 /\ MaxOutput \in Nat \ {0} /\ FrameMax \in Nat \ {0}
ASSUME CallAssumption == MaxCalls \in Nat /\ Callers # {} /\ Patient \subseteq Callers
ASSUME ScriptAssumption ==
  /\ Scripts \subseteq [Streams -> Seq({"x", "n"})]
  /\ StreamOrder \in Seq(Streams) /\ Range(StreamOrder) = Streams
  /\ IsInjective(StreamOrder)

VARIABLES
  script,      \* what this child writes unless it ends early
  child,       \* "run" or "exited"
  written,     \* bytes the child wrote to each pipe
  read,        \* bytes each pump forwarded
  eof,         \* pumps that saw end of file
  avail,       \* Credit.available
  shim,        \* where the supervisor is
  toBeam,      \* messages from the port, in order
  toShim,      \* frames to the shim, in order
  port,        \* "open" or "closed"
  server,      \* GenServer: "up", "settling" in terminate, "down"
  exit,        \* state.exit: "none", "exited" (EXIT came) or "lost"
  reported,    \* state.terminal: the evidence recorded with exit
  got,         \* bytes received of each stream
  start,       \* where the unfinished line of each stream starts
  queue,       \* complete lines not yet taken
  outstanding, \* credit granted and not received
  waiter,      \* the recv being held, or NoWaiter
  late,        \* recv_timeout messages in the mailbox
  limit,       \* state.output_limit is set
  terminal,    \* the published Terminal, or NoTerminal
  call,        \* each caller's recv: "idle", "sent", "held"
  ticket,      \* make_ref of the caller's recv, numbered by call
  calls,       \* recv calls made so far
  answer,      \* kind of each caller's latest answer
  delivered    \* lines handed to callers

childVars  == <<script, child, written>>
shimVars   == <<read, eof, avail, shim>>
wireVars   == <<toBeam, toShim, port>>
serverVars == <<server, exit, reported, limit, terminal>>
lineVars   == <<got, start, queue, outstanding>>
recvVars   == <<waiter, late>>
callVars   == <<call, ticket, calls, answer, delivered>>
vars == <<childVars, shimVars, wireVars, serverVars, lineVars, recvVars, callVars>>

NoWaiter == [caller |-> "none"]
NoTerminal == [status |-> "none", output |-> "none"]
Evidence(status, output) == [status |-> status, output |-> output]

\* The answers of recv.  Done(t) is {:done, t}, or {:error, {:output_limit, t}}.
Line == [kind |-> "line"]
Timeout == [kind |-> "timeout"]
Busy == [kind |-> "busy"]
Done(t) == [kind |-> "done", terminal |-> t]

Zero == [s \in Streams |-> 0]

Init ==
  /\ script \in Scripts /\ child = "run" /\ written = Zero
  /\ read = Zero /\ eof = {} /\ avail = Zero /\ shim = "loop"
  /\ toBeam = <<>> /\ toShim = <<>> /\ port = "open"
  /\ server = "up" /\ exit = "none" /\ reported = NoTerminal
  /\ limit = FALSE /\ terminal = NoTerminal
  /\ got = Zero /\ start = Zero /\ queue = <<>> /\ outstanding = Zero
  /\ waiter = NoWaiter /\ late = {}
  /\ call = [c \in Callers |-> "idle"]
  /\ ticket = [c \in Callers |-> 0] /\ calls = 0
  /\ answer = [c \in Callers |-> [kind |-> "none"]] /\ delivered = <<>>

-----------------------------------------------------------------------------
(* The child.                                                              *)

Alive == shim # "gone"

ChildWrite(s) ==
  /\ Alive /\ child = "run" /\ written[s] < Len(script[s])
  /\ written' = [written EXCEPT ![s] = @ + 1]
  /\ UNCHANGED <<script, child, shimVars, wireVars, serverVars, lineVars,
                 recvVars, callVars>>

\* By itself, early or late, or by the shim's signals.
ChildExit ==
  /\ child = "run" /\ child' = "exited"
  /\ UNCHANGED <<script, written, shimVars, wireVars, serverVars, lineVars,
                 recvVars, callVars>>

-----------------------------------------------------------------------------
(* The shim.  "loop": supervising; "kill": the same after KILL; "drain":   *)
(* the strict drain after the child's exit; "cut": the bounded wait for    *)
(* cancelled pumps; "linger": EXIT is written; "gone".                     *)

\* pump_gated with a permit: a read within the budget and the frame for it.
\* A cancelled pump gets no further permit.
PumpForward(s, k) ==
  /\ Alive /\ s \notin eof /\ port = "open"
  /\ k <= avail[s] /\ k <= FrameMax /\ read[s] + k <= written[s]
  /\ read' = [read EXCEPT ![s] = @ + k]
  /\ avail' = [avail EXCEPT ![s] = IF shim \in {"cut", "linger"} THEN 0 ELSE @ - k]
  /\ toBeam' = Append(toBeam, [kind |-> "data", stream |-> s,
                               from |-> read[s], to |-> read[s] + k])
  /\ UNCHANGED <<childVars, eof, shim, toShim, port, serverVars, lineVars,
                 recvVars, callVars>>

\* End of file is found by reading, and reading takes a permit.
PumpEof(s) ==
  /\ Alive /\ s \notin eof /\ avail[s] > 0
  /\ child = "exited" /\ read[s] = written[s]
  /\ eof' = eof \cup {s}
  /\ UNCHANGED <<childVars, read, avail, shim, wireVars, serverVars, lineVars,
                 recvVars, callVars>>

\* CREDIT counts while the supervisor still reads events for it.
ShimCredit ==
  /\ Alive /\ toShim # <<>> /\ Head(toShim).kind = "credit"
  /\ toShim' = Tail(toShim)
  /\ avail' = IF shim \in {"loop", "kill", "drain"}
              THEN [avail EXCEPT ![Head(toShim).stream] = @ + Head(toShim).bytes]
              ELSE avail
  /\ UNCHANGED <<childVars, read, eof, shim, toBeam, port, serverVars,
                 lineVars, recvVars, callVars>>

\* Credit::cancel: a pump that already holds a permit may still use it.
Cancel ==
  \E holding \in SUBSET {s \in Streams : avail[s] > 0} :
    avail' = [s \in Streams |-> IF s \in holding THEN avail[s] ELSE 0]

\* KILL: kill the group while the child runs, give up the output once it has
\* exited, and mean nothing after EXIT.
ShimKill ==
  /\ Alive /\ toShim # <<>> /\ Head(toShim).kind = "kill"
  /\ toShim' = Tail(toShim)
  /\ shim' = CASE shim = "loop" -> "kill" [] shim = "drain" -> "cut" [] OTHER -> shim
  /\ IF shim = "drain" THEN Cancel ELSE UNCHANGED avail
  /\ UNCHANGED <<childVars, read, eof, toBeam, port, serverVars,
                 lineVars, recvVars, callVars>>

ShimReap ==
  /\ shim \in {"loop", "kill"} /\ child = "exited"
  /\ shim' = IF shim = "kill" THEN "cut" ELSE "drain"
  /\ IF shim = "kill" THEN Cancel ELSE UNCHANGED avail
  /\ UNCHANGED <<childVars, read, eof, wireVars, serverVars, lineVars,
                 recvVars, callVars>>

WriteExit(truncated) ==
  /\ shim' = "linger"
  /\ toBeam' = Append(toBeam, [kind |-> "exit", truncated |-> truncated])
  /\ UNCHANGED <<childVars, read, eof, avail, toShim, port, serverVars,
                 lineVars, recvVars, callVars>>

ShimDrained == shim = "drain" /\ port = "open" /\ eof = Streams /\ WriteExit(FALSE)
ShimCut == shim = "cut" /\ port = "open" /\ WriteExit(TRUE)

\* The port was closed: the shim kills what is left and ends.
ShimLeft ==
  /\ Alive /\ port = "closed"
  /\ shim' = "gone" /\ child' = "exited"
  /\ UNCHANGED <<script, written, read, eof, avail, wireVars, serverVars,
                 lineVars, recvVars, callVars>>

\* The shim is killed or crashes, possibly while it lingers.  The child may
\* survive that.
ShimCrash ==
  /\ Alive /\ port = "open"
  /\ shim' = "gone"
  /\ toBeam' = Append(toBeam, [kind |-> "exit_status"])
  /\ UNCHANGED <<childVars, read, eof, avail, toShim, port, serverVars,
                 lineVars, recvVars, callVars>>

-----------------------------------------------------------------------------
(* The server: GenServer callbacks.                                        *)

Up == server = "up"
Unfinished == {s \in Streams : got[s] > start[s]}

\* finish_output_evidence: a limit, or output still held, qualifies it.
FinishOutput(t, held) ==
  CASE limit' -> [t EXCEPT !.output = "limit"]
    [] ~limit' /\ held -> [t EXCEPT !.output = "truncated"]
    [] OTHER -> t

\* The rest of terminate: the evidence is published, the port closed, and
\* the mailbox dies with the process.
Publish(t, held) ==
  /\ server' = "down" /\ port' = "closed"
  /\ terminal' = FinishOutput(t, held)
  /\ toBeam' = <<>> /\ late' = {}

\* terminate: before the child's exit is known, KILL and wait for EXIT.
StartSettling ==
  /\ server' = "settling"
  /\ toShim' = Append(toShim, [kind |-> "kill"])
  /\ UNCHANGED <<terminal, port, late>>

Reply(c, a) ==
  /\ call' = [call EXCEPT ![c] = "idle"]
  /\ answer' = [answer EXCEPT ![c] = a]

\* A line for a caller: the head of q.
Deliver(c, q) ==
  /\ Reply(c, Line)
  /\ delivered' = Append(delivered, Head(q))
  /\ queue' = Tail(q)

RecvBusy(c) ==
  /\ Up /\ call[c] = "sent" /\ waiter # NoWaiter
  /\ Reply(c, Busy)
  /\ UNCHANGED <<childVars, shimVars, wireVars, serverVars, lineVars, recvVars,
                 ticket, calls, delivered>>

\* A queued line.  The server stops when it hands out the last line after
\* the child's exit.
RecvLine(c) ==
  /\ Up /\ call[c] = "sent" /\ waiter = NoWaiter /\ queue # <<>>
  /\ Deliver(c, queue)
  /\ UNCHANGED limit
  /\ IF exit # "none" /\ Len(queue) = 1 THEN Publish(reported, FALSE)
     ELSE UNCHANGED <<server, port, terminal, toBeam, late>>
  /\ UNCHANGED <<childVars, shimVars, toShim, exit, reported, got, start,
                 outstanding, waiter, ticket, calls>>

\* A finite set of numbers, the smallest first.
Ascending(S) ==
  CHOOSE e \in [1..Cardinality(S) -> S] :
    \A i, j \in 1..Cardinality(S) : i < j => e[i] < e[j]

\* The streams of S, in the order the server takes streams in.
InOrder(S) ==
  LET places == {i \in 1..Len(StreamOrder) : StreamOrder[i] \in S}
  IN  [i \in 1..Cardinality(places) |-> StreamOrder[Ascending(places)[i]]]

\* Mutants: a full window whatever is outstanding, or none until it is spent.
Grants_Full ==
  [i \in 1..Len(StreamOrder) |->
     [kind |-> "credit", stream |-> StreamOrder[i], bytes |-> MaxPending]]
Grants_WhenSpent ==
  LET spent == InOrder({s \in Streams : outstanding[s] = 0})
  IN  [i \in 1..Len(spent) |->
         [kind |-> "credit", stream |-> spent[i], bytes |-> MaxPending]]

\* grant_pull_credit: top each stream's window up to MaxPending.
Grants ==
  LET Grant(s) == [kind |-> "credit", stream |-> s, bytes |-> MaxPending - outstanding[s]]
      needy == InOrder({s \in Streams : outstanding[s] < MaxPending})
  IN  [i \in 1..Len(needy) |-> Grant(needy[i])]

\* No line is queued: hold the call and demand output.  The clause for an
\* exit already known never runs (StopsWhenDrained).
RecvHold(c) ==
  /\ Up /\ call[c] = "sent" /\ waiter = NoWaiter /\ queue = <<>>
  /\ waiter' = [caller |-> c, ref |-> ticket[c],
                timer |-> IF c \in Patient THEN "off" ELSE "armed"]
  /\ call' = [call EXCEPT ![c] = "held"]
  /\ toShim' = toShim \o Grants
  /\ outstanding' = [s \in Streams |-> MaxPending]
  /\ UNCHANGED <<childVars, shimVars, toBeam, port, serverVars, got, start,
                 queue, late, ticket, calls, answer, delivered>>

\* The timer's message enters the mailbox; cancel_timer is too late for it.
TimerFire ==
  /\ Up /\ waiter # NoWaiter /\ waiter.timer = "armed"
  /\ waiter' = [waiter EXCEPT !.timer = "fired"]
  /\ late' = late \cup {waiter.ref}
  /\ UNCHANGED <<childVars, shimVars, wireVars, serverVars, lineVars, callVars>>

\* Mutant: any timer message times out whoever is held.
Own_Any(r) == waiter # NoWaiter
Own(r) == waiter # NoWaiter /\ waiter.ref = r

\* handle_info {:recv_timeout, ref}: for the recv being held, or stale.
RecvTimeout(r) ==
  /\ Up /\ r \in late
  /\ late' = late \ {r}
  /\ IF Own(r) THEN Reply(waiter.caller, Timeout) /\ waiter' = NoWaiter
     ELSE UNCHANGED <<call, answer, waiter>>
  /\ UNCHANGED <<childVars, shimVars, wireVars, serverVars, lineVars,
                 ticket, calls, delivered>>

\* reply_pull_waiter, with q the queue after new lines joined it.
ServeWaiter(q) ==
  IF waiter # NoWaiter /\ q # <<>>
  THEN Deliver(waiter.caller, q) /\ waiter' = NoWaiter
  ELSE queue' = q /\ UNCHANGED <<call, answer, delivered, waiter>>

Arrived(kind) == toBeam # <<>> /\ Head(toBeam).kind = kind

\* split_lines: the lines of s completed by the byte numbered to.
Newlines(s, to) == {i \in (start[s] + 1)..to : script[s][i] = "n"}
LinesOf(s, to) ==
  LET ends == Ascending(Newlines(s, to))
  IN  [i \in 1..Cardinality(Newlines(s, to)) |->
         [stream |-> s, from |-> IF i = 1 THEN start[s] ELSE ends[i - 1],
          to |-> ends[i]]]
\* Mutant: the bytes after a frame's last newline are not carried over.
RestFrom_Lost(s, to) == IF Newlines(s, to) = {} THEN start[s] ELSE to
RestFrom(s, to) == Max(Newlines(s, to) \cup {start[s]})

TotalOutput(f) == FoldFunction(+, 0, f)

\* A frame the session's limits refuse: the chunk is dropped.
OverLimit(s, to) ==
  \/ TotalOutput([got EXCEPT ![s] = to]) > MaxOutput
  \/ to - RestFrom(s, to) > MaxLine
  \/ \E l \in Range(LinesOf(s, to)) : l.to - l.from - 1 > MaxLine

DataArrives ==
  /\ Up /\ Arrived("data")
  /\ LET m == Head(toBeam) IN
       /\ ~OverLimit(m.stream, m.to)
       /\ got' = [got EXCEPT ![m.stream] = m.to]
       /\ start' = [start EXCEPT ![m.stream] = RestFrom(m.stream, m.to)]
       /\ outstanding' = [outstanding EXCEPT ![m.stream] =
                            IF @ > m.to - m.from THEN @ - (m.to - m.from) ELSE 0]
       /\ ServeWaiter(queue \o LinesOf(m.stream, m.to))
  /\ toBeam' = Tail(toBeam)
  /\ UNCHANGED <<childVars, shimVars, toShim, port, serverVars, late,
                 ticket, calls>>

\* Mutant: output beyond a limit is dropped and the child left alone.
LimitExceeded_Drops ==
  /\ Up /\ Arrived("data")
  /\ OverLimit(Head(toBeam).stream, Head(toBeam).to)
  /\ limit' = TRUE
  /\ toBeam' = Tail(toBeam)
  /\ UNCHANGED <<childVars, shimVars, toShim, port, server, exit, reported,
                 terminal, lineVars, recvVars, callVars>>

LimitExceeded ==
  /\ Up /\ Arrived("data")
  /\ OverLimit(Head(toBeam).stream, Head(toBeam).to)
  /\ limit' = TRUE /\ StartSettling
  /\ toBeam' = Tail(toBeam)
  /\ UNCHANGED <<childVars, shimVars, exit, reported, lineVars, waiter, callVars>>

\* flush_buffers: the unfinished line of each stream that has one.
FlushedLines ==
  LET flushed == InOrder(Unfinished)
  IN  [i \in 1..Len(flushed) |->
         [stream |-> flushed[i], from |-> start[flushed[i]], to |-> got[flushed[i]]]]

\* Mutant: a held recv is answered before the evidence is stored.
Ended_RepliesFirst(ex, t) ==
  LET q == queue \o FlushedLines
  IN  /\ exit' = ex /\ reported' = t /\ start' = got
      /\ IF waiter # NoWaiter /\ q = <<>>
         THEN /\ Reply(waiter.caller, Done(reported))
              /\ waiter' = NoWaiter
              /\ UNCHANGED <<queue, delivered>>
         ELSE ServeWaiter(q)
      /\ UNCHANGED limit
      /\ IF queue' = <<>> THEN Publish(t, FALSE)
         ELSE toBeam' = Tail(toBeam) /\ UNCHANGED <<server, port, terminal, late>>
      /\ UNCHANGED <<childVars, shimVars, toShim, got, outstanding,
                     ticket, calls>>

\* The evidence of EXIT or of a lost shim is recorded and unfinished lines
\* are flushed; the server stays up only for lines nobody took yet.
Ended(ex, t) ==
  LET q == queue \o FlushedLines
  IN  /\ exit' = ex /\ reported' = t /\ start' = got
      /\ IF waiter # NoWaiter /\ q = <<>>
         THEN /\ Reply(waiter.caller, Done(t))
              /\ waiter' = NoWaiter
              /\ UNCHANGED <<queue, delivered>>
         ELSE ServeWaiter(q)
      /\ UNCHANGED limit
      /\ IF queue' = <<>> THEN Publish(t, FALSE)
         ELSE toBeam' = Tail(toBeam) /\ UNCHANGED <<server, port, terminal, late>>
      /\ UNCHANGED <<childVars, shimVars, toShim, got, outstanding,
                     ticket, calls>>

OutputEvidence(truncated) == IF truncated THEN "truncated" ELSE "complete"

ExitArrives ==
  /\ Up /\ Arrived("exit")
  /\ Ended("exited", Evidence("exit", OutputEvidence(Head(toBeam).truncated)))

ShimLost == Up /\ Arrived("exit_status") /\ Ended("lost", Evidence("nil", "unknown"))

\* Mutant: lines nobody took do not qualify the evidence.
Stop_Complete ==
  /\ Up
  /\ UNCHANGED limit
  /\ IF exit = "none" THEN StartSettling /\ UNCHANGED toBeam
     ELSE Publish(reported, FALSE) /\ UNCHANGED toShim
  /\ UNCHANGED <<childVars, shimVars, exit, reported, lineVars, waiter, callVars>>

\* GenServer.stop from shutdown/1 or close/1, or the owner's DOWN message.
Stop ==
  /\ Up
  /\ UNCHANGED limit
  /\ IF exit = "none" THEN StartSettling /\ UNCHANGED toBeam
     ELSE Publish(reported, queue # <<>> \/ Unfinished # {}) /\ UNCHANGED toShim
  /\ UNCHANGED <<childVars, shimVars, exit, reported, lineVars, waiter, callVars>>

\* do_await_exit: output is dropped until EXIT, the port's end or the deadline.
Settle(t) ==
  /\ UNCHANGED limit
  /\ Publish(t, queue # <<>> \/ Unfinished # {})
  /\ UNCHANGED <<childVars, shimVars, toShim, exit, reported, lineVars, waiter,
                 callVars>>

SettleData ==
  /\ server = "settling" /\ Arrived("data")
  /\ toBeam' = Tail(toBeam)
  /\ UNCHANGED <<childVars, shimVars, toShim, port, serverVars, lineVars,
                 recvVars, callVars>>

SettleExit ==
  /\ server = "settling" /\ Arrived("exit")
  /\ Settle(Evidence("exit", OutputEvidence(Head(toBeam).truncated)))

SettleLost ==
  /\ server = "settling" /\ Arrived("exit_status")
  /\ Settle(Evidence("nil", "unknown"))

SettleTimeout == server = "settling" /\ Settle(Evidence("nil", "unknown"))

-----------------------------------------------------------------------------
(* The callers.                                                            *)

RecvCall(c) ==
  /\ call[c] = "idle" /\ calls < MaxCalls
  /\ call' = [call EXCEPT ![c] = "sent"]
  /\ calls' = calls + 1 /\ ticket' = [ticket EXCEPT ![c] = calls + 1]
  /\ UNCHANGED <<childVars, shimVars, wireVars, serverVars, lineVars, recvVars,
                 answer, delivered>>

\* The server is gone: recv exits and answers with the published evidence.
TerminalReply(c) ==
  /\ server = "down" /\ call[c] # "idle"
  /\ Reply(c, Done(terminal))
  /\ UNCHANGED <<childVars, shimVars, wireVars, serverVars, lineVars, recvVars,
                 ticket, calls, delivered>>

\* The session is over and every recv was answered.
Over ==
  /\ server = "down" /\ shim = "gone"
  /\ \A c \in Callers : call[c] = "idle"
  /\ calls = MaxCalls
  /\ UNCHANGED vars

-----------------------------------------------------------------------------
Child == ChildExit \/ \E s \in Streams : ChildWrite(s)

Shim ==
  \/ ShimCredit \/ ShimKill \/ ShimReap \/ ShimDrained \/ ShimCut \/ ShimLeft
  \/ \E s \in Streams : PumpEof(s) \/ \E k \in 1..FrameMax : PumpForward(s, k)

Server ==
  \/ \E c \in Callers : RecvBusy(c) \/ RecvLine(c) \/ RecvHold(c) \/ TerminalReply(c)
  \/ \E r \in late : RecvTimeout(r)
  \/ DataArrives \/ LimitExceeded \/ ExitArrives \/ ShimLost
  \/ SettleData \/ SettleExit \/ SettleLost \/ SettleTimeout

Next ==
  \/ Child \/ Shim \/ ShimCrash \/ Server \/ TimerFire \/ Stop \/ Over
  \/ \E c \in Callers : RecvCall(c)

Spec == Init /\ [][Next]_vars

\* The shim's threads and the server are scheduled, a KILL is obeyed, and
\* nothing is assumed of the child's own pace, of callers or of timers.
Fairness ==
  /\ WF_vars(Server) /\ WF_vars(ShimCredit \/ ShimKill)
  /\ WF_vars(ShimReap \/ ShimDrained \/ ShimCut \/ ShimLeft)
  /\ \A s \in Streams : WF_vars(PumpEof(s) \/ \E k \in 1..FrameMax : PumpForward(s, k))
  /\ WF_vars(shim = "kill" /\ ChildExit)

FairSpec == Spec /\ Fairness

-----------------------------------------------------------------------------
(* Properties.                                                             *)

Range3 == [stream : Streams, from : Nat, to : Nat]
Terminals == [status : {"exit", "nil"}, output : {"complete", "truncated", "unknown", "limit"}]
Answers == [kind : {"none", "line", "timeout", "busy"}] \cup [kind : {"done"}, terminal : Terminals]

\* Every variable keeps the type the code gives it.
TypeOK ==
  /\ script \in Scripts /\ child \in {"run", "exited"}
  /\ \A f \in {written, read, avail, got, start} : f \in [Streams -> Nat]
  /\ outstanding \in [Streams -> 0..MaxPending]
  /\ eof \subseteq Streams
  /\ shim \in {"loop", "kill", "drain", "cut", "linger", "gone"}
  /\ port \in {"open", "closed"} /\ server \in {"up", "settling", "down"}
  /\ exit \in {"none", "exited", "lost"} /\ limit \in BOOLEAN
  /\ {reported, terminal} \subseteq Terminals \cup {NoTerminal}
  /\ Range(queue) \cup Range(delivered) \subseteq Range3
  /\ late \subseteq 1..MaxCalls /\ calls \in 0..MaxCalls
  /\ call \in [Callers -> {"idle", "sent", "held"}]
  /\ ticket \in [Callers -> 0..MaxCalls]
  /\ answer \in [Callers -> Answers]

\* The addresses of the bytes that a set of lines or data frames covers, and
\* those of the lines of s in a sequence.
Covered(S) == UNION {(l.from + 1)..l.to : l \in S}
Addresses(lines, s) == Covered({l \in Range(lines) : l.stream = s})

\* However the output was cut into frames and whoever took the lines, the
\* lines handed out and still queued are the child's lines, whole, in order,
\* none lost and none twice; only a final one may lack its newline.
LinesIntact ==
  LET lines == delivered \o queue IN
  /\ \A s \in Streams : Addresses(lines, s) = 1..start[s]
  /\ \A i \in 1..Len(lines) :
       LET l == lines[i] IN
       /\ l.from < l.to
       /\ \A j \in 1..(i - 1) : lines[j].stream = l.stream => lines[j].to <= l.from
       /\ \A p \in (l.from + 1)..(l.to - 1) : script[l.stream][p] = "x"
       /\ script[l.stream][l.to] = "x" => exit # "none" /\ l.to = got[l.stream]

\* Every byte the child wrote is in a line some caller was given.
AllDelivered == \A s \in Streams : Addresses(delivered, s) = 1..written[s]

\* When the session read the child's EXIT while serving, evidence of complete
\* output means that callers were given all of it.
CompleteMeansRead ==
  exit # "none" /\ terminal.output = "complete" => AllDelivered

\* After the child's exit is known the server lives only for lines nobody
\* took: with none it has stopped, and it holds no caller.
StopsWhenDrained == Up /\ exit # "none" => queue # <<>> /\ waiter = NoWaiter

\* A held recv is a call that still waits for its answer, and no other is
\* held: nobody is answered twice and nobody is forgotten.
HeldCallIsWaiter ==
  Up => \A c \in Callers : call[c] = "held" <=> waiter # NoWaiter /\ waiter.caller = c

\* A recv with an infinite timeout never times out, and a finite one only by
\* its own timer: a stale timer message finds another ref.
NoForeignTimeout ==
  [][\A c \in Callers :
       call[c] = "held" /\ call'[c] = "idle" /\ answer'[c] = Timeout =>
         c \notin Patient /\ ticket[c] \in late]_vars

\* Every caller told that the session is over was shown the evidence that is
\* published, though the answer may precede the publication.
AnswersAgree ==
  \A c \in Callers : answer[c].kind = "done" => answer[c].terminal = terminal

\* The server, its held call and its callers agree at every moment: nobody is
\* forgotten or answered twice, the session stays up for queued lines only,
\* and the evidence a caller was shown is the evidence that is published.
SessionConsistent == TypeOK /\ StopsWhenDrained /\ HeldCallIsWaiter /\ AnswersAgree

\* The credit discipline holds with frames, lines and both wires in place.
FramesOf(s) == {m \in Range(toBeam) : m.kind = "data" /\ m.stream = s}
InTransit(s) == Cardinality(Covered(FramesOf(s)))
\* The permits in the CREDIT frames that the shim has not read.
OnTheWay(s) ==
  Cardinality(UNION {{i} \X (1..toShim[i].bytes) :
                i \in {j \in DOMAIN toShim : toShim[j].kind = "credit" /\ toShim[j].stream = s}})
\* From EXIT on no CREDIT is read; what is granted then stays unused.
Budget(s) == IF shim \in {"loop", "kill", "drain"} THEN avail[s] + OnTheWay(s)
             ELSE outstanding[s] - InTransit(s)
WhileUp(f) == IF Up THEN f ELSE Zero
Flow == INSTANCE CreditFlow WITH
  window <- WhileUp(outstanding),
  budget <- WhileUp([s \in Streams |-> Budget(s)]),
  transit <- WhileUp([s \in Streams |-> InTransit(s)]),
  partial <- WhileUp([s \in Streams |-> got[s] - start[s]]),
  queued <- WhileUp([s \in Streams |-> Cardinality(Addresses(queue, s))]),
  demand <- Up /\ waiter # NoWaiter, open <- Up
ImplementsCreditFlow == Flow!Spec

\* A recv waiting at or after the child's exit is answered, however much
\* output is left and even with no credit left for the pumps to see its end.
RecvAnswered ==
  \A c \in Callers : call[c] # "idle" /\ child = "exited" ~> call[c] = "idle"

\* Output beyond a limit ends the child, unless the shim itself was lost.
OverLimitIsKilled == limit ~> child = "exited" \/ shim = "gone"

\* The module documentation: "An intentional shutdown that discards unread
\* output reports output: :truncated" (duplex.ex:60-61).
DiscardIsTruncated == terminal.output = "complete" => AllDelivered
=============================================================================
