----------------------------- MODULE Supervisor -----------------------------
(***************************************************************************)
(* The native shim's supervision of one child, without descendant          *)
(* tracking: `supervise` in native/forcola_shim/src/supervisor.rs, the     *)
(* threads that feed its event channel (stdin reader, waiter, timer), the  *)
(* output pumps with their read budgets, and the operating-system          *)
(* processes the kill sequence acts on.                                    *)
(*                                                                         *)
(* Frames of the BEAM enter the event channel in the order it sent them:   *)
(* the pipe and the reader thread are two FIFOs in series, and in this     *)
(* mode the reader never blocks.  Only the port's closing is kept apart    *)
(* from the reader noticing it, because the peer monitor sees it sooner.   *)
(* Time is abstracted: a bounded wait may expire whenever its predicate    *)
(* is false, and an armed timer may fire at any moment.                    *)
(***************************************************************************)
EXTENDS Naturals, Sequences, FiniteSets

CONSTANTS
  Procs,       \* the child and every descendant it may fork
  Leader,      \* the child: a session leader, so it never leaves its group
  Pumps,       \* output pumps: stdout and stderr, or stdout alone for a pty
  Requests,    \* the SPAWN requests considered
  MaxChunks,   \* bound: chunks of output the processes write in a run
  MaxGrants    \* bound: one-chunk CREDIT grants the BEAM sends in a run

Request == [contained : BOOLEAN,      \* a cgroup was prepared and joined
            interrupt : BOOLEAN,      \* interrupt_grace_ms: SIGINT first
            timed     : BOOLEAN,      \* timeout_ms present
            strict    : BOOLEAN,      \* strict_output
            killWorks : BOOLEAN,      \* no call of Cgroup::kill fails
            gated     : SUBSET Pumps] \* pumps with a window (read budget)

ASSUME LeaderAssumption == Leader \in Procs
ASSUME PumpAssumption == Pumps \cap {"KILL", "CLOSED", "TIMEOUT", "EXITED"} = {}
ASSUME RequestAssumption == Requests \subseteq Request
ASSUME BoundAssumption == MaxChunks \in Nat /\ MaxGrants \in Nat

VARIABLES
  req,         \* the request this shim serves
  proc,        \* life of each process
  doomed,      \* processes with a pending SIGKILL
  holders,     \* processes that hold the output pipes open
  pipe,        \* unread chunks in each output pipe
  chunks,      \* chunks still writable (bound)
  port,        \* the BEAM's end of the port
  killSent,    \* the BEAM sent KILL
  grants,      \* CREDIT frames still sendable (bound)
  reader,      \* stdin reader thread: has it reported end of file?
  waiter,      \* waiter thread: blocked in wait, reaped, event sent
  timer,       \* timeout thread
  events,      \* the supervisor's event channel
  pc,          \* where the supervisor's thread is
  started,     \* group_cleanup_started
  exited,      \* a ChildExited event ended the loop
  discard,     \* discard_output
  timedOut,    \* timed_out
  beamGone,    \* beam_gone
  stdin,       \* the child's input handle
  groupOk,     \* group_confirmed
  cgroupOk,    \* cgroup_confirmed
  truncated,   \* output_truncated
  collected,   \* pumps whose completion message was received
  pump,        \* state of each pump thread
  credit,      \* Credit.available, in chunks
  gate,        \* Credit.uncorked and Credit.cancelled
  exits        \* EXIT frames delivered to the BEAM

osVars     == <<proc, doomed, holders, pipe, chunks>>
beamVars   == <<port, killSent, grants>>
threadVars == <<reader, waiter, timer>>
flagVars   == <<started, exited, discard, timedOut, beamGone, stdin>>
verdictVars == <<groupOk, cgroupOk, truncated, collected, exits>>
pumpVars   == <<pump, credit, gate>>
vars == <<req, osVars, beamVars, threadVars, events, pc, flagVars,
          verdictVars, pumpVars>>

Report == [confirmed : BOOLEAN, contained : BOOLEAN, timedOut : BOOLEAN,
           truncated : BOOLEAN]
Event == {"KILL", "CLOSED", "TIMEOUT", "EXITED"} \cup Pumps

Living == {p \in Procs : proc[p] \in {"group", "escaped"}}
Group == {p \in Procs : proc[p] = "group"}

\* group_alive: signal 0 to the group finds a member; a zombie counts.
GroupAlive == \E p \in Procs : proc[p] \in {"group", "zombie"}

Idle(p) == IF p \in req.gated THEN "park" ELSE "drain"

Init ==
  /\ req \in Requests
  /\ proc = [p \in Procs |-> IF p = Leader THEN "group" ELSE "absent"]
  /\ doomed = {} /\ holders = {Leader}
  /\ pipe = [s \in Pumps |-> 0] /\ chunks = MaxChunks
  /\ port = "open" /\ killSent = FALSE /\ grants = MaxGrants
  /\ reader = "open" /\ waiter = "wait"
  /\ timer = IF req.timed THEN "armed" ELSE "off"
  /\ events = <<>> /\ pc = "loop"
  /\ started = FALSE /\ exited = FALSE /\ discard = FALSE
  /\ timedOut = FALSE /\ beamGone = FALSE /\ stdin = "open"
  /\ groupOk = TRUE /\ cgroupOk = TRUE /\ truncated = FALSE
  /\ collected = {} /\ exits = {}
  /\ pump = [s \in Pumps |-> Idle(s)]
  /\ credit = [s \in Pumps |-> 0] /\ gate = "metered"

-----------------------------------------------------------------------------
(* The operating system: the child, its descendants and their output.      *)

\* A SIGKILL is pending from the moment it is sent, so a doomed process
\* neither forks nor changes session.
Active(p) == p \in Living \ doomed

Fork(p, q) ==
  /\ Active(p) /\ proc[q] = "absent"
  /\ proc' = [proc EXCEPT ![q] = proc[p]]
  /\ holders' = IF p \in holders THEN holders \cup {q} ELSE holders
  /\ UNCHANGED <<req, doomed, pipe, chunks, beamVars, threadVars, events, pc,
                 flagVars, verdictVars, pumpVars>>

\* A descendant daemonizes: a session of its own, the same cgroup.
Escape(p) ==
  /\ Active(p) /\ p # Leader /\ proc[p] = "group"
  /\ proc' = [proc EXCEPT ![p] = "escaped"]
  /\ UNCHANGED <<req, doomed, holders, pipe, chunks, beamVars, threadVars,
                 events, pc, flagVars, verdictVars, pumpVars>>

CloseOutput(p) ==
  /\ Active(p) /\ p \in holders
  /\ holders' = holders \ {p}
  /\ UNCHANGED <<req, proc, doomed, pipe, chunks, beamVars, threadVars,
                 events, pc, flagVars, verdictVars, pumpVars>>

WriteOutput(p, s) ==
  /\ Active(p) /\ p \in holders
  /\ chunks > 0 /\ pump[s] # "done"
  /\ pipe' = [pipe EXCEPT ![s] = @ + 1]
  /\ chunks' = chunks - 1
  /\ UNCHANGED <<req, proc, doomed, holders, beamVars, threadVars, events, pc,
                 flagVars, verdictVars, pumpVars>>

\* A process ends by itself or by a signal.  The child stays a zombie until
\* the waiter reaps it; a descendant is reaped by its parent or by init.
Die(p) ==
  /\ p \in Living
  /\ proc' = [proc EXCEPT ![p] = IF p = Leader THEN "zombie" ELSE "dead"]
  /\ doomed' = doomed \ {p}
  /\ holders' = holders \ {p}
  /\ UNCHANGED <<req, pipe, chunks, beamVars, threadVars, events, pc,
                 flagVars, verdictVars, pumpVars>>

Perish(p) == p \in doomed /\ Die(p)

-----------------------------------------------------------------------------
(* The BEAM's side of the port.                                            *)

Served == pc # "gone" /\ port = "open"

SendKill ==
  /\ Served /\ ~killSent
  /\ killSent' = TRUE
  /\ events' = Append(events, "KILL")
  /\ UNCHANGED <<req, osVars, port, grants, threadVars, pc, flagVars,
                 verdictVars, pumpVars>>

SendCredit(s) ==
  /\ Served /\ s \in req.gated /\ grants > 0
  /\ grants' = grants - 1
  /\ events' = Append(events, s)
  /\ UNCHANGED <<req, osVars, port, killSent, threadVars, pc, flagVars,
                 verdictVars, pumpVars>>

\* Port.close, the owner's death or the death of the whole BEAM.
ClosePort ==
  /\ Served
  /\ port' = "closed"
  /\ UNCHANGED <<req, osVars, killSent, grants, threadVars, events, pc,
                 flagVars, verdictVars, pumpVars>>

-----------------------------------------------------------------------------
(* The shim's threads.                                                     *)

ReaderEof ==
  /\ pc # "gone" /\ port = "closed" /\ reader = "open"
  /\ reader' = "eof"
  /\ events' = Append(events, "CLOSED")
  /\ UNCHANGED <<req, osVars, beamVars, waiter, timer, pc, flagVars,
                 verdictVars, pumpVars>>

WaiterReap ==
  /\ pc # "gone" /\ waiter = "wait" /\ proc[Leader] = "zombie"
  /\ proc' = [proc EXCEPT ![Leader] = "dead"]
  /\ waiter' = "reaped"
  /\ UNCHANGED <<req, doomed, holders, pipe, chunks, beamVars, reader, timer,
                 events, pc, flagVars, verdictVars, pumpVars>>

WaiterSend ==
  /\ pc # "gone" /\ waiter = "reaped"
  /\ waiter' = "sent"
  /\ events' = Append(events, "EXITED")
  /\ UNCHANGED <<req, osVars, beamVars, reader, timer, pc, flagVars,
                 verdictVars, pumpVars>>

TimerFire ==
  /\ pc # "gone" /\ timer = "armed"
  /\ timer' = "fired"
  /\ events' = Append(events, "TIMEOUT")
  /\ UNCHANGED <<req, osVars, beamVars, reader, waiter, pc, flagVars,
                 verdictVars, pumpVars>>

\* Credit::await_permit: cancellation first, then uncorking, then budget.
PumpPermit(s) ==
  /\ pc # "gone" /\ pump[s] = "park"
  /\ \/ gate = "cancelled" /\ pump' = [pump EXCEPT ![s] = "done"]
     \/ gate = "uncorked" /\ pump' = [pump EXCEPT ![s] = "drain"]
     \/ gate = "metered" /\ credit[s] > 0 /\ pump' = [pump EXCEPT ![s] = "read"]
  /\ UNCHANGED <<req, osVars, beamVars, threadVars, events, pc, flagVars,
                 verdictVars, credit, gate>>

\* A pump that holds a permit sits in read(2): nothing but data or end of
\* file wakes it, not even a cancellation.
PumpRead(s) ==
  /\ pc # "gone" /\ pump[s] \in {"read", "drain"} /\ pipe[s] > 0
  /\ pipe' = [pipe EXCEPT ![s] = @ - 1]
  /\ credit' = IF pump[s] = "read" /\ credit[s] > 0
               THEN [credit EXCEPT ![s] = @ - 1] ELSE credit
  /\ pump' = [pump EXCEPT ![s] = "hand"]
  /\ UNCHANGED <<req, proc, doomed, holders, chunks, beamVars, threadVars,
                 events, pc, flagVars, verdictVars, gate>>

PumpEof(s) ==
  /\ pc # "gone" /\ pump[s] \in {"read", "drain"}
  /\ pipe[s] = 0 /\ holders = {}
  /\ pump' = [pump EXCEPT ![s] = "done"]
  /\ UNCHANGED <<req, osVars, beamVars, threadVars, events, pc, flagVars,
                 verdictVars, credit, gate>>

\* The frame write fails, and ends the pump, once the port is closed.
PumpWrite(s) ==
  /\ pc # "gone" /\ pump[s] = "hand"
  /\ pump' = [pump EXCEPT ![s] = IF port = "open" THEN Idle(s) ELSE "done"]
  /\ UNCHANGED <<req, osVars, beamVars, threadVars, events, pc, flagVars,
                 verdictVars, credit, gate>>

-----------------------------------------------------------------------------
(* The supervision loop.                                                   *)

Take(e) == events # <<>> /\ Head(events) = e /\ events' = Tail(events)

Grant(s) == credit' = IF s \in req.gated THEN [credit EXCEPT ![s] = @ + 1]
                      ELSE credit

LoopCredit(s) ==
  /\ pc = "loop" /\ Take(s) /\ Grant(s)
  /\ UNCHANGED <<req, osVars, beamVars, threadVars, pc, flagVars,
                 verdictVars, pump, gate>>

\* kill_group's first signal.
FirstSignal == IF req.interrupt THEN "int" ELSE "term"

\* Mutant: a closed stdin is left to the child to notice.
LoopEnd_Patient(e) ==
  /\ pc = "loop" /\ Take(e)
  /\ discard' = TRUE /\ stdin' = "closed"
  /\ timedOut' = (timedOut \/ e = "TIMEOUT")
  /\ beamGone' = (beamGone \/ e = "CLOSED")
  /\ started' = TRUE
  /\ pc' = IF started \/ e = "CLOSED" THEN "loop" ELSE FirstSignal
  /\ UNCHANGED <<req, osVars, beamVars, threadVars, exited, verdictVars,
                 pumpVars>>

\* KILL, a closed or broken stdin, or the timeout: end the run.  The group
\* is swept by the first of them only.
LoopEnd(e) ==
  /\ pc = "loop" /\ Take(e)
  /\ discard' = TRUE /\ stdin' = "closed"
  /\ timedOut' = (timedOut \/ e = "TIMEOUT")
  /\ beamGone' = (beamGone \/ e = "CLOSED")
  /\ started' = TRUE
  /\ pc' = IF started THEN "loop" ELSE FirstSignal
  /\ UNCHANGED <<req, osVars, beamVars, threadVars, exited, verdictVars,
                 pumpVars>>

\* Mutant: the group is swept again although a sweep already ran.
LoopExited_Resweeps ==
  /\ pc = "loop" /\ Take("EXITED")
  /\ exited' = TRUE /\ stdin' = "closed"
  /\ pc' = FirstSignal
  /\ UNCHANGED <<req, osVars, beamVars, threadVars, started, discard,
                 timedOut, beamGone, verdictVars, pumpVars>>

\* Mutant: the child's own exit needs no sweep.
LoopExited_NoSweep ==
  /\ pc = "loop" /\ Take("EXITED")
  /\ exited' = TRUE /\ stdin' = "closed"
  /\ pc' = "teardown"
  /\ UNCHANGED <<req, osVars, beamVars, threadVars, started, discard,
                 timedOut, beamGone, verdictVars, pumpVars>>

\* The child was reaped.  Descendants left in its group are swept unless a
\* sweep already ran.
LoopExited ==
  /\ pc = "loop" /\ Take("EXITED")
  /\ exited' = TRUE /\ stdin' = "closed"
  /\ pc' = IF started THEN "teardown" ELSE FirstSignal
  /\ UNCHANGED <<req, osVars, beamVars, threadVars, started, discard,
                 timedOut, beamGone, verdictVars, pumpVars>>

\* Cgroup::kill, best effort: nobody hears of a cgroup.kill that the kernel
\* lacks or that does not open or take the write, so any call may do nothing.
CgroupKill ==
  \E works \in BOOLEAN :
    /\ req.killWorks => works
    /\ doomed' = IF req.contained /\ works THEN doomed \cup Living ELSE doomed

\* kill_group returns: cgroup.kill, then back to the loop or on to teardown.
FinishSweep(confirmed) ==
  /\ groupOk' = confirmed
  /\ CgroupKill
  /\ pc' = IF exited THEN "teardown" ELSE "loop"
  /\ UNCHANGED <<req, proc, holders, pipe, chunks, beamVars, threadVars,
                 events, flagVars, cgroupOk, truncated, collected, exits,
                 pumpVars>>

SweepConfirmed == pc \in {"int", "term", "kill"} /\ ~GroupAlive /\ FinishSweep(TRUE)

IntExpired ==
  /\ pc = "int" /\ GroupAlive
  /\ pc' = "term"
  /\ UNCHANGED <<req, osVars, beamVars, threadVars, events, flagVars,
                 verdictVars, pumpVars>>

TermExpired ==
  /\ pc = "term" /\ GroupAlive
  /\ doomed' = doomed \cup Group
  /\ pc' = "kill"
  /\ UNCHANGED <<req, proc, holders, pipe, chunks, beamVars, threadVars,
                 events, flagVars, verdictVars, pumpVars>>

\* Mutant: SIGKILL was sent, so the group must be dead.
KillExpired_Confirms == pc = "kill" /\ GroupAlive /\ FinishSweep(TRUE)

KillExpired == pc = "kill" /\ GroupAlive /\ FinishSweep(FALSE)

-----------------------------------------------------------------------------
(* After the child's exit: the cgroup, the output drain, EXIT, the linger. *)

\* Uncork the pumps unless output is strict; finish_cgroup kills what is
\* left in the cgroup before it waits.
Teardown ==
  /\ pc = "teardown"
  /\ gate' = IF req.strict THEN gate ELSE "uncorked"
  /\ CgroupKill
  /\ pc' = IF req.contained THEN "cgroup" ELSE "settle"
  /\ UNCHANGED <<req, proc, holders, pipe, chunks, beamVars, threadVars,
                 events, flagVars, verdictVars, pump, credit>>

\* The cgroup was observed empty, or the wait for it expired: somebody still
\* lives in it, or its cgroup.procs could not be read.
CgroupWait ==
  /\ pc = "cgroup"
  /\ cgroupOk' \in BOOLEAN /\ (cgroupOk' => Living = {})
  /\ pc' = "settle"
  /\ UNCHANGED <<req, osVars, beamVars, threadVars, events, flagVars, groupOk,
                 truncated, collected, exits, pumpVars>>

Cancel == gate' = "cancelled"

SettleGone ==
  /\ pc = "settle" /\ beamGone
  /\ Cancel /\ pc' = "gone"
  /\ UNCHANGED <<req, osVars, beamVars, threadVars, events, flagVars,
                 verdictVars, pump, credit>>

SettleDrain ==
  /\ pc = "settle" /\ ~beamGone
  /\ gate' = IF req.strict /\ discard THEN "cancelled" ELSE gate
  /\ truncated' = (req.strict /\ discard)
  /\ pc' = IF req.strict /\ ~discard THEN "strict" ELSE "bounded"
  /\ UNCHANGED <<req, osVars, beamVars, threadVars, events, flagVars, groupOk,
                 cgroupOk, collected, exits, pump, credit>>

\* A completion message from a pump, in either drain.
Collect(s) ==
  /\ pc \in {"bounded", "polled"} /\ pump[s] = "done" /\ s \notin collected
  /\ collected' = collected \cup {s}
  /\ pc' = IF pc = "polled" THEN "strict" ELSE pc
  /\ UNCHANGED <<req, osVars, beamVars, threadVars, events, flagVars, groupOk,
                 cgroupOk, truncated, exits, pumpVars>>

BoundedDrained ==
  /\ pc = "bounded" /\ collected = Pumps
  /\ pc' = "report"
  /\ UNCHANGED <<req, osVars, beamVars, threadVars, events, flagVars,
                 verdictVars, pumpVars>>

\* Mutant: an expired drain reports whole output.
BoundedExpired_Silent ==
  /\ pc = "bounded" /\ collected # Pumps
  /\ pc' = "report"
  /\ UNCHANGED <<req, osVars, beamVars, threadVars, events, flagVars,
                 verdictVars, pumpVars>>

BoundedExpired ==
  /\ pc = "bounded" /\ collected # Pumps
  /\ truncated' = TRUE /\ pc' = "report"
  /\ UNCHANGED <<req, osVars, beamVars, threadVars, events, flagVars, groupOk,
                 cgroupOk, collected, exits, pumpVars>>

\* drain_pumps_strict: pumps stay gated and the loop keeps serving CREDIT.
\* One round looks at the peer, empties the channel, then waits for a pump.
StrictDrained ==
  /\ pc = "strict" /\ collected = Pumps
  /\ pc' = "report"
  /\ UNCHANGED <<req, osVars, beamVars, threadVars, events, flagVars,
                 verdictVars, pumpVars>>

StrictPeerGone ==
  /\ pc = "strict" /\ collected # Pumps /\ port = "closed"
  /\ Cancel /\ pc' = "gone"
  /\ UNCHANGED <<req, osVars, beamVars, threadVars, events, flagVars,
                 verdictVars, pump, credit>>

StrictCredit(s) ==
  /\ pc = "strict" /\ collected # Pumps /\ Take(s) /\ Grant(s)
  /\ UNCHANGED <<req, osVars, beamVars, threadVars, pc, flagVars, verdictVars,
                 pump, gate>>

\* Mutant: KILL means nothing once the child has exited.
StrictKill_Ignored ==
  /\ pc = "strict" /\ collected # Pumps /\ Take("KILL")
  /\ UNCHANGED <<req, osVars, beamVars, threadVars, pc, flagVars, verdictVars,
                 pumpVars>>

StrictKill ==
  /\ pc = "strict" /\ collected # Pumps /\ Take("KILL")
  /\ Cancel /\ truncated' = TRUE /\ pc' = "bounded"
  /\ UNCHANGED <<req, osVars, beamVars, threadVars, flagVars, groupOk,
                 cgroupOk, collected, exits, pump, credit>>

StrictClosed ==
  /\ pc = "strict" /\ collected # Pumps /\ Take("CLOSED")
  /\ Cancel /\ pc' = "gone"
  /\ UNCHANGED <<req, osVars, beamVars, threadVars, flagVars, verdictVars,
                 pump, credit>>

\* A timeout after the child's exit changes nothing.
StrictIgnore ==
  /\ pc = "strict" /\ collected # Pumps /\ Take("TIMEOUT")
  /\ UNCHANGED <<req, osVars, beamVars, threadVars, pc, flagVars, verdictVars,
                 pumpVars>>

StrictPoll ==
  /\ pc = "strict" /\ collected # Pumps /\ events = <<>> /\ port = "open"
  /\ pc' = "polled"
  /\ UNCHANGED <<req, osVars, beamVars, threadVars, events, flagVars,
                 verdictVars, pumpVars>>

\* Ten milliseconds passed without a completion message.
StrictRetry ==
  /\ pc = "polled" /\ \A s \in Pumps \ collected : pump[s] # "done"
  /\ pc' = "strict"
  /\ UNCHANGED <<req, osVars, beamVars, threadVars, events, flagVars,
                 verdictVars, pumpVars>>

\* Mutant: confirmed speaks for the process group alone.
WriteExit_GroupOnly ==
  /\ pc = "report"
  /\ exits' = IF port = "closed" THEN exits
              ELSE exits \cup {[confirmed |-> groupOk, contained |-> req.contained,
                                timedOut |-> timedOut, truncated |-> truncated]}
  /\ pc' = IF req.gated # {} THEN "linger" ELSE "gone"
  /\ UNCHANGED <<req, osVars, beamVars, threadVars, events, flagVars, groupOk,
                 cgroupOk, truncated, collected, pumpVars>>

\* The EXIT frame; the write fails unnoticed when the port is closed.  A
\* shim with a read budget lingers so that late CREDIT finds a reader.
WriteExit ==
  /\ pc = "report"
  /\ exits' = IF port = "closed" THEN exits
              ELSE exits \cup {[confirmed |-> groupOk /\ cgroupOk,
                                contained |-> req.contained,
                                timedOut |-> timedOut,
                                truncated |-> truncated]}
  /\ pc' = IF req.gated # {} THEN "linger" ELSE "gone"
  /\ UNCHANGED <<req, osVars, beamVars, threadVars, events, flagVars, groupOk,
                 cgroupOk, truncated, collected, pumpVars>>

LingerEvent(e) ==
  /\ pc = "linger" /\ Take(e)
  /\ pc' = IF e = "CLOSED" THEN "gone" ELSE "linger"
  /\ UNCHANGED <<req, osVars, beamVars, threadVars, flagVars, verdictVars,
                 pumpVars>>

LingerPeerGone ==
  /\ pc = "linger" /\ port = "closed"
  /\ pc' = "gone"
  /\ UNCHANGED <<req, osVars, beamVars, threadVars, events, flagVars,
                 verdictVars, pumpVars>>

\* The shim's process ended: nothing more need happen.
Finished == pc = "gone" /\ UNCHANGED vars

-----------------------------------------------------------------------------
System ==
  \/ \E p, q \in Procs : Fork(p, q)
  \/ \E p \in Procs : Escape(p) \/ CloseOutput(p) \/ Die(p)
  \/ \E p \in Procs, s \in Pumps : WriteOutput(p, s)

Beam == SendKill \/ ClosePort \/ \E s \in Pumps : SendCredit(s)

Threads ==
  \/ ReaderEof \/ WaiterReap \/ WaiterSend \/ TimerFire
  \/ \E s \in Pumps : PumpPermit(s) \/ PumpRead(s) \/ PumpEof(s) \/ PumpWrite(s)

Loop ==
  \/ \E s \in Pumps : LoopCredit(s)
  \/ \E e \in {"KILL", "CLOSED", "TIMEOUT"} : LoopEnd(e)
  \/ LoopExited

Sweep == SweepConfirmed \/ IntExpired \/ TermExpired \/ KillExpired

Strict ==
  \/ StrictDrained \/ StrictPeerGone \/ StrictKill \/ StrictClosed
  \/ StrictIgnore \/ StrictPoll \/ StrictRetry
  \/ \E s \in Pumps : StrictCredit(s)

Ending ==
  \/ Teardown \/ CgroupWait \/ SettleGone \/ SettleDrain
  \/ BoundedDrained \/ BoundedExpired \/ WriteExit \/ LingerPeerGone
  \/ \E s \in Pumps : Collect(s)
  \/ \E e \in Event : LingerEvent(e)

Next == System \/ Beam \/ Threads \/ Loop \/ Sweep \/ Strict \/ Ending \/ Finished

\* Every thread of the shim is scheduled, its bounded waits end, and a
\* process with a pending SIGKILL dies.  Nothing is assumed of the BEAM, of
\* the timer's moment or of a process that was not killed.
Fairness ==
  /\ WF_vars(Loop) /\ WF_vars(Sweep) /\ WF_vars(Strict) /\ WF_vars(Ending)
  /\ WF_vars(ReaderEof) /\ WF_vars(WaiterReap) /\ WF_vars(WaiterSend)
  /\ \A s \in Pumps :
       /\ WF_vars(PumpPermit(s)) /\ WF_vars(PumpWrite(s))
       /\ WF_vars(PumpRead(s)) /\ WF_vars(PumpEof(s))
  /\ \A p \in Procs : WF_vars(Perish(p))

Spec == Init /\ [][Next]_vars
FairSpec == Spec /\ Fairness

-----------------------------------------------------------------------------
(* Properties.                                                             *)

\* Every variable keeps the type its declaration in the code gives it.
TypeOK ==
  /\ req \in Requests
  /\ proc \in [Procs -> {"absent", "group", "escaped", "zombie", "dead"}]
  /\ doomed \in SUBSET Procs /\ holders \in SUBSET Procs
  /\ pipe \in [Pumps -> Nat] /\ chunks \in Nat
  /\ port \in {"open", "closed"} /\ killSent \in BOOLEAN /\ grants \in Nat
  /\ reader \in {"open", "eof"} /\ waiter \in {"wait", "reaped", "sent"}
  /\ timer \in {"off", "armed", "fired"}
  /\ events \in Seq(Event)
  /\ pc \in {"loop", "int", "term", "kill", "teardown", "cgroup", "settle",
             "bounded", "strict", "polled", "report", "linger", "gone"}
  /\ started \in BOOLEAN /\ exited \in BOOLEAN /\ discard \in BOOLEAN
  /\ timedOut \in BOOLEAN /\ beamGone \in BOOLEAN
  /\ stdin \in {"open", "closed"}
  /\ groupOk \in BOOLEAN /\ cgroupOk \in BOOLEAN /\ truncated \in BOOLEAN
  /\ collected \in SUBSET Pumps
  /\ pump \in [Pumps -> {"park", "read", "drain", "hand", "done"}]
  /\ credit \in [Pumps -> Nat] /\ gate \in {"metered", "uncorked", "cancelled"}
  /\ exits \in SUBSET Report

\* An EXIT that claims confirmed cleanup is true: no process of the child's
\* group is left, and with a cgroup no descendant at all, escaped or not.
\* Forks racing the sweep and a group that dies only after the sweep gave
\* up must not falsify it.
ConfirmedMeansDead ==
  \A r \in exits : r.confirmed =>
    ~GroupAlive /\ (r.contained => Living = {})

\* Once the shim is past the sweep, reported, silent or gone, every process
\* still alive in the group has a SIGKILL pending: none was forked or missed
\* behind the kill sequence's back.  In a cgroup that goes for the escaped
\* descendants too; one is spared only where cgroup.kill failed, and then the
\* cgroup is not called empty.
NoSurvivorUnsignalled ==
  pc \in {"settle", "bounded", "strict", "polled", "report", "linger", "gone"} =>
    /\ Group \subseteq doomed
    /\ req.contained => Living \subseteq doomed \/ (~req.killWorks /\ ~cgroupOk)

\* An EXIT without output_truncated comes after every byte of output: no
\* chunk is unread or in a pump's hand and nobody is left to write one.
UntruncatedMeansComplete ==
  \A r \in exits : ~r.truncated =>
    \A s \in Pumps : pump[s] = "done" /\ pipe[s] = 0 /\ holders = {}

SignalSent == pc' # pc /\ pc' \in {"int", "term", "kill"}

\* Only the first signal of a run is sent blindly.  Later ones go to a group
\* just seen alive: once it is dead, its id may belong to another group.
DeadGroupNotSignalled ==
  [][SignalSent => GroupAlive \/ (pc = "loop" /\ ~started)]_vars

\* The promise this design makes, apart from its mechanism.  In particular a
\* reaped group stays dead, EXIT is delivered at most once and the shim ends
\* without it only when its BEAM closed the port.
Contract == INSTANCE ShimContract WITH
  contained <- req.contained, groupAlive <- GroupAlive,
  treeAlive <- Living # {}, verdict <- {r.confirmed : r \in exits},
  running <- pc # "gone"
ImplementsContract == Contract!Spec

\* Losing the BEAM, by a closed port or its death, ends the shim and every
\* process of the group whatever the shim was doing and however many
\* processes ignore SIGTERM.
PeerLossEndsAll == port = "closed" ~> pc = "gone" /\ ~GroupAlive

\* A KILL is answered by EXIT unless the BEAM leaves first, in every output
\* mode and whether or not the child had exited.
KillAnswered == killSent ~> exits # {} \/ port = "closed"

\* The child's exit is reported unless the BEAM leaves first.  Strict
\* output waits for credit instead.
ExitReported ==
  proc[Leader] # "group" /\ ~req.strict ~> exits # {} \/ port = "closed"

\* EXIT is due after the child's exit and after a KILL, and it comes.
AnswersDue == KillAnswered /\ ExitReported

=============================================================================
