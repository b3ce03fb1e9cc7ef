------------------------- MODULE TrackedSupervisor --------------------------
(***************************************************************************)
(* The shim's main thread in a run that tracks descendants:                *)
(* `supervise_tracked` in native/forcola_shim/src/supervisor.rs with the   *)
(* threads around it: the stdin reader, which here waits for room in the   *)
(* bounded input queue, the input writer, the writer of TRACKED and EXIT   *)
(* frames, the waiter, the timer and one output pump.                      *)
(*                                                                         *)
(* A pass of the loop over inventory and cleanup is one step.  Its scan    *)
(* may miss a process not seen before when another died since the last     *)
(* scan: Tracker models the reads one by one and shows that only this can  *)
(* hide one.  Every process leads a group of its own, so that each one     *)
(* found is announced.  No cgroup; `finish_cgroup` is in Supervisor.       *)
(***************************************************************************)
EXTENDS Naturals, Sequences, FiniteSets

CONSTANTS
  Procs,       \* the child and its possible descendants
  Root,        \* the child
  Runs,        \* runs considered: requests and bounds
  QueueLimit   \* MAX_GROUPS, the capacity of the TRACKED queue

\* strict_output, a window, timeout_ms; and bounds: the processes that may
\* come to be, chunks of output, frames the BEAM may send (STDIN and EOF are
\* inputs), and how often the tracker or the wait for the child fails.
Run == [strict : BOOLEAN, gated : BOOLEAN, timed : BOOLEAN, procs : SUBSET Procs,
        chunks : Nat, kills : Nat, grants : Nat, inputs : Nat, faults : Nat]

ASSUME ProcsAssumption == IsFiniteSet(Procs)
ASSUME RootAssumption == Root \in Procs
ASSUME RunAssumption == Runs \subseteq Run
ASSUME QueueAssumption == QueueLimit \in Nat \ {0}

VARIABLES
  req,
  proc, doomed,             \* the processes; pending SIGKILLs
  restless,                 \* a process died since the last scan
  pipe, chunks,             \* unread output, output still to come (bound)
  port, wire,               \* the BEAM's end; frames on their way to the reader
  kills, grants, inputs, faults,   \* what the BEAM and the bounds still allow
  reader, sender,           \* the stdin reader; ChildInputSender.sender
  inputQueue, writing, inputWriter,   \* the input queue and its writer thread
  inputClosed,              \* ChildInput.closed
  waiter, timer, events,
  pc,
  seen, fresh,              \* groups the tracker found; not yet queued (new_groups)
  cleaning, late, empties, uncertain, \* the tracker's cleanup
  outcome, discard, timedOut, beamGone,
  confirmed, truncated, historyTruncated,
  control, exitQueued, frameWriter,   \* queue and writer of TRACKED and EXIT
  announced, exits,         \* TRACKED and EXIT frames the BEAM received
  pump, credit, gate, collected

osVars    == <<proc, doomed, pipe, chunks, restless>>
beamVars  == <<port, kills, grants, inputs>>
inputVars == <<sender, inputQueue, writing, inputWriter>>
threads   == <<reader, waiter, timer>>
trackVars == <<seen, fresh, cleaning, late, empties, uncertain, faults>>
flagVars  == <<outcome, discard, timedOut, beamGone>>
reportVars == <<confirmed, truncated, historyTruncated>>
frameVars == <<control, exitQueued, frameWriter, announced, exits>>
pumpVars  == <<pump, credit, gate, collected>>
vars == <<req, osVars, beamVars, wire, inputVars, inputClosed, threads, events, pc,
          trackVars, flagVars, reportVars, frameVars, pumpVars>>

Report == [confirmed : BOOLEAN, timedOut : BOOLEAN, truncated : BOOLEAN,
           historyTruncated : BOOLEAN]

Living == {p \in Procs : proc[p] = "live"}
Idle == IF req.gated THEN "park" ELSE "drain"

\* The child was just spawned; threads wait for Running.
Init ==
  /\ req \in Runs
  /\ proc = [p \in Procs |-> IF p = Root THEN "live"
                             ELSE IF p \in req.procs THEN "absent" ELSE "dead"]
  /\ doomed = {} /\ restless = FALSE
  /\ pipe = 0 /\ chunks = req.chunks
  /\ port = "open" /\ wire = <<>>
  /\ kills = req.kills /\ grants = req.grants /\ inputs = req.inputs /\ faults = req.faults
  /\ reader = "open" /\ sender = TRUE
  /\ inputQueue = 0 /\ writing = FALSE /\ inputWriter = TRUE /\ inputClosed = FALSE
  /\ waiter = "wait" /\ timer = (IF req.timed THEN "armed" ELSE "off")
  /\ events = <<>> /\ pc = "start"
  /\ seen = {} /\ fresh = {} /\ cleaning = FALSE /\ late = FALSE /\ empties = 0 /\ uncertain = FALSE
  /\ outcome = FALSE /\ discard = FALSE /\ timedOut = FALSE /\ beamGone = FALSE
  /\ confirmed = FALSE /\ truncated = FALSE /\ historyTruncated = FALSE
  /\ control = {} /\ exitQueued = FALSE /\ frameWriter = "run"
  /\ announced = {} /\ exits = {}
  /\ pump = Idle /\ credit = 0 /\ gate = "metered" /\ collected = FALSE

Up == pc \notin {"gone", "aborted"}
Running == Up /\ pc \notin {"start", "abort", "abortlast", "abortreap"}

-----------------------------------------------------------------------------
(* The processes.                                                          *)

Fork(p, q) ==
  /\ p \in Living \ doomed /\ proc[q] = "absent"
  /\ proc' = [proc EXCEPT ![q] = "live"]
  /\ UNCHANGED <<req, doomed, pipe, chunks, restless, beamVars, wire, inputVars, inputClosed,
                 threads, events, pc, trackVars, flagVars, reportVars, frameVars, pumpVars>>

Write ==
  /\ Living \ doomed # {} /\ chunks > 0 /\ pump # "done"
  /\ pipe' = pipe + 1 /\ chunks' = chunks - 1
  /\ UNCHANGED <<req, proc, doomed, restless, beamVars, wire, inputVars, inputClosed, threads,
                 events, pc, trackVars, flagVars, reportVars, frameVars, pumpVars>>

Die(p) ==
  /\ p \in Living
  /\ proc' = [proc EXCEPT ![p] = IF p = Root THEN "zombie" ELSE "dead"]
  /\ doomed' = doomed \ {p} /\ restless' = TRUE
  /\ UNCHANGED <<req, pipe, chunks, beamVars, wire, inputVars, inputClosed, threads,
                 events, pc, trackVars, flagVars, reportVars, frameVars, pumpVars>>

Perish(p) == p \in doomed /\ Die(p)

\* Some process reads what the writer is writing.
ReadInput ==
  /\ writing /\ Living # {}
  /\ writing' = FALSE
  /\ UNCHANGED <<req, osVars, beamVars, wire, sender, inputQueue, inputWriter, inputClosed,
                 threads, events, pc, trackVars, flagVars, reportVars, frameVars, pumpVars>>

-----------------------------------------------------------------------------
(* The BEAM.                                                               *)

Send(frame) ==
  /\ Up /\ port = "open"
  /\ wire' = Append(wire, frame)
  /\ UNCHANGED <<req, osVars, port, inputVars, inputClosed, threads, events, pc, trackVars,
                 flagVars, reportVars, frameVars, pumpVars>>

SendKill == kills > 0 /\ kills' = kills - 1 /\ Send("KILL") /\ UNCHANGED <<grants, inputs>>
SendCredit == req.gated /\ grants > 0 /\ grants' = grants - 1 /\ Send("CREDIT")
              /\ UNCHANGED <<kills, inputs>>
SendInput == \E frame \in {"STDIN", "EOF"} :
  inputs > 0 /\ inputs' = inputs - 1 /\ Send(frame) /\ UNCHANGED <<kills, grants>>

ClosePort ==
  /\ Up /\ port = "open"
  /\ port' = "closed"
  /\ UNCHANGED <<req, osVars, kills, grants, inputs, wire, inputVars, inputClosed, threads,
                 events, pc, trackVars, flagVars, reportVars, frameVars, pumpVars>>

-----------------------------------------------------------------------------
(* The threads.                                                            *)

ReaderEvent ==
  /\ Running /\ reader = "open" /\ wire # <<>> /\ Head(wire) \in {"KILL", "CREDIT"}
  /\ events' = Append(events, Head(wire)) /\ wire' = Tail(wire)
  /\ UNCHANGED <<req, osVars, beamVars, inputVars, inputClosed, threads, pc, trackVars,
                 flagVars, reportVars, frameVars, pumpVars>>

\* ChildInputSender::send: dropped once input is closed or the writer gone,
\* else the reader waits for the one place in the queue.
ReaderInput ==
  /\ Running /\ reader = "open" /\ wire # <<>> /\ Head(wire) = "STDIN"
  /\ IF ~sender \/ inputClosed \/ ~inputWriter
     THEN sender' = FALSE /\ UNCHANGED <<inputQueue, reader>>
     ELSE /\ inputQueue' = 1
          /\ reader' = IF inputQueue = 0 THEN "open" ELSE "blocked"
          /\ UNCHANGED sender
  /\ wire' = Tail(wire)
  /\ UNCHANGED <<req, osVars, beamVars, writing, inputWriter, inputClosed, waiter, timer,
                 events, pc, trackVars, flagVars, reportVars, frameVars, pumpVars>>

\* Only room or the writer's end lets it go on: closing the input does not.
ReaderResumes ==
  /\ Running /\ reader = "blocked"
  /\ IF inputWriter THEN inputQueue = 0 /\ inputQueue' = 1 /\ UNCHANGED sender
     ELSE sender' = FALSE /\ UNCHANGED inputQueue
  /\ reader' = "open"
  /\ UNCHANGED <<req, osVars, beamVars, wire, writing, inputWriter, inputClosed, waiter,
                 timer, events, pc, trackVars, flagVars, reportVars, frameVars, pumpVars>>

\* An EOF frame: ChildInputSender::finish.
ReaderFinishes ==
  /\ Running /\ reader = "open" /\ wire # <<>> /\ Head(wire) = "EOF"
  /\ sender' = FALSE /\ wire' = Tail(wire)
  /\ UNCHANGED <<req, osVars, beamVars, inputQueue, writing, inputWriter, inputClosed,
                 threads, events, pc, trackVars, flagVars, reportVars, frameVars, pumpVars>>

ReaderEof ==
  /\ Running /\ wire = <<>> /\ port = "closed" /\ reader = "open"
  /\ reader' = "eof" /\ events' = Append(events, "CLOSED")
  /\ UNCHANGED <<req, osVars, beamVars, wire, inputVars, inputClosed, waiter, timer, pc,
                 trackVars, flagVars, reportVars, frameVars, pumpVars>>

\* The input writer takes a frame; with input closed it ends instead, and so
\* it does when the reader dropped its end.  A write fails when nobody is
\* left to read it.
WriterTakes ==
  /\ Running /\ inputWriter /\ ~writing /\ inputQueue = 1
  /\ inputQueue' = 0 /\ writing' = ~inputClosed /\ inputWriter' = ~inputClosed
  /\ UNCHANGED <<req, osVars, beamVars, wire, sender, inputClosed, threads, events, pc,
                 trackVars, flagVars, reportVars, frameVars, pumpVars>>

WriterEnds ==
  /\ Running /\ inputWriter /\ ~writing /\ inputQueue = 0 /\ ~sender
  /\ inputWriter' = FALSE
  /\ UNCHANGED <<req, osVars, beamVars, wire, sender, inputQueue, writing, inputClosed,
                 threads, events, pc, trackVars, flagVars, reportVars, frameVars, pumpVars>>

WriterFails ==
  /\ Running /\ writing /\ Living = {}
  /\ writing' = FALSE /\ inputWriter' = FALSE /\ inputQueue' = 0
  /\ UNCHANGED <<req, osVars, beamVars, wire, sender, inputClosed, threads, events, pc,
                 trackVars, flagVars, reportVars, frameVars, pumpVars>>

\* waitid with WNOWAIT: the root is seen to exit and stays a zombie.
WaiterSend ==
  /\ Running /\ waiter = "wait" /\ proc[Root] = "zombie"
  /\ waiter' = "sent" /\ events' = Append(events, "EXITED")
  /\ UNCHANGED <<req, osVars, beamVars, wire, inputVars, inputClosed, reader, timer, pc,
                 trackVars, flagVars, reportVars, frameVars, pumpVars>>

\* The wait itself fails; the root's status is left to reap_root.
WaiterFails ==
  /\ Running /\ waiter = "wait" /\ faults > 0
  /\ faults' = faults - 1
  /\ waiter' = "sent" /\ events' = Append(events, "WAITFAILED")
  /\ UNCHANGED <<req, osVars, beamVars, wire, inputVars, inputClosed, reader, timer, pc,
                 seen, fresh, cleaning, late, empties, uncertain, flagVars, reportVars,
                 frameVars, pumpVars>>

TimerFire ==
  /\ Running /\ timer = "armed"
  /\ timer' = "fired" /\ events' = Append(events, "TIMEOUT")
  /\ UNCHANGED <<req, osVars, beamVars, wire, inputVars, inputClosed, reader, waiter, pc,
                 trackVars, flagVars, reportVars, frameVars, pumpVars>>

\* The frame writer: TRACKED frames in the order of the queue, then EXIT.
FrameWrite ==
  /\ Running /\ frameWriter = "run" /\ (control # {} \/ exitQueued)
  /\ IF port = "closed" THEN
       /\ frameWriter' = "failed" /\ control' = {}
       /\ events' = Append(events, "WRITEFAILED")
       /\ UNCHANGED <<announced, exits>>
     ELSE IF control # {} THEN
       /\ \E p \in control : control' = control \ {p} /\ announced' = announced \cup {p}
       /\ UNCHANGED <<exits, frameWriter, events>>
     ELSE
       /\ exits' = exits \cup {[confirmed |-> confirmed, timedOut |-> timedOut,
                     truncated |-> truncated, historyTruncated |-> historyTruncated]}
       /\ frameWriter' = "done"
       /\ UNCHANGED <<control, announced, events>>
  /\ UNCHANGED <<req, osVars, beamVars, wire, inputVars, inputClosed, threads, pc, trackVars,
                 flagVars, reportVars, exitQueued, pumpVars>>

PumpPermit ==
  /\ Running /\ pump = "park"
  /\ \/ gate = "cancelled" /\ pump' = "done"
     \/ gate = "uncorked" /\ pump' = "drain"
     \/ gate = "metered" /\ credit > 0 /\ pump' = "read"
  /\ UNCHANGED <<req, osVars, beamVars, wire, inputVars, inputClosed, threads, events, pc,
                 trackVars, flagVars, reportVars, frameVars, credit, gate, collected>>

PumpRead ==
  /\ Running /\ pump \in {"read", "drain"}
  /\ IF pipe > 0
     THEN /\ pipe' = pipe - 1 /\ pump' = "hand"
          /\ credit' = IF pump = "read" /\ credit > 0 THEN credit - 1 ELSE credit
     ELSE Living = {} /\ pump' = "done" /\ UNCHANGED <<pipe, credit>>
  /\ UNCHANGED <<req, proc, doomed, chunks, restless, beamVars, wire, inputVars, inputClosed, threads,
                 events, pc, trackVars, flagVars, reportVars, frameVars, gate, collected>>

PumpWrite ==
  /\ Running /\ pump = "hand"
  /\ pump' = IF port = "open" THEN Idle ELSE "done"
  /\ UNCHANGED <<req, osVars, beamVars, wire, inputVars, inputClosed, threads, events, pc,
                 trackVars, flagVars, reportVars, frameVars, credit, gate, collected>>

-----------------------------------------------------------------------------
(* The loop.  A pass over the inventory runs at its own interval and never *)
(* waits for the channel: peer, scan, announcements, cleanup.              *)

\* Mutant: only the reader's end of file tells that the BEAM left.
PeerDisconnected_Unseen == FALSE

PeerDisconnected == port = "closed"

\* TRACKED frames that try_send accepts, one by one, while the queue has room.
Accepted(new) ==
  {queued \in SUBSET new :
     LET room == QueueLimit - Cardinality(control)
     IN  Cardinality(queued) = IF Cardinality(new) < room THEN Cardinality(new) ELSE room}

\* What a scan may find alive.  The queue of a scan holds every known process.
Found ==
  {found \in SUBSET Living :
     Living \cap seen \subseteq found /\ (~restless => found = Living)}

\* With the root unread, a scan may miss it.
BlindScan == IF Root \in seen THEN Found ELSE Found \cup {found \ {Root} : found \in Found}

\* Tracker.advance: it signals survivors stage by stage, with SIGKILL for
\* all of them once the bound has passed, and counts the empty scans.
Kills(found) == IF late THEN {found} ELSE SUBSET found

Empties(found) == IF found = {} THEN (IF empties < 2 THEN empties + 1 ELSE 2) ELSE 0

\* Mutant: the loop waits for the child's status, whatever the time.
Leaves_Waits(count) == (count = 2 \/ late) /\ outcome

Leaves(count) == (count = 2 \/ late) /\ (outcome \/ late)

\* A pass whose scan found `found`, or failed.
Pass(fault, found) ==
  LET new     == found \ seen
      lost    == beamGone \/ PeerDisconnected
      refused == ~lost /\ new # {} /\ frameWriter = "failed"
      unsure  == uncertain \/ fault \/ refused
      begun   == cleaning \/ lost \/ unsure
      closes  == begun /\ Leaves(Empties(found))
  IN  /\ fault => faults > 0
      /\ faults' = IF fault THEN faults - 1 ELSE faults
      /\ beamGone' = (lost \/ refused)
      /\ discard' = (discard \/ (lost /\ ~beamGone) \/ (unsure /\ ~cleaning))
      /\ seen' = seen \cup found
      /\ IF lost \/ refused
         THEN UNCHANGED <<control, historyTruncated>>
         ELSE \E queued \in Accepted(new) :
                /\ control' = control \cup queued
                /\ historyTruncated' = (historyTruncated \/ queued # new)
      /\ cleaning' = begun
      /\ inputClosed' = (inputClosed \/ begun)
      /\ gate' = IF begun /\ discard' THEN "cancelled" ELSE gate
      /\ \E killed \in IF begun THEN Kills(found) ELSE {{}} : doomed' = doomed \cup killed
      /\ empties' = IF begun THEN Empties(found) ELSE empties
      /\ uncertain' = (unsure \/ (begun /\ late /\ found # {}))
      /\ confirmed' = (closes /\ outcome /\ found = {} /\ ~uncertain')
      /\ pc' = IF closes THEN "finish" ELSE "loop"

Tick ==
  /\ pc = "loop"
  /\ \E fault \in BOOLEAN, found \in Found : Pass(fault, found)
  /\ restless' = FALSE
  /\ UNCHANGED <<req, proc, pipe, chunks, beamVars, wire, inputVars, threads, events, fresh,
                 late, outcome, timedOut, truncated, exitQueued, frameWriter, announced,
                 exits, pump, credit, collected>>

\* The cleanup's overall bound: grace periods and CONFIRM_GRACE.
Deadline ==
  /\ pc \in {"loop", "abort"} /\ cleaning /\ ~late
  /\ late' = TRUE
  /\ UNCHANGED <<req, osVars, beamVars, wire, inputVars, inputClosed, threads, events, pc,
                 seen, fresh, cleaning, empties, uncertain, faults, flagVars, reportVars,
                 frameVars, pumpVars>>

Take(e) == events # <<>> /\ Head(events) = e /\ events' = Tail(events)

Grant == credit' = IF gate = "metered" THEN credit + 1 ELSE credit

LoopCredit ==
  /\ pc = "loop" /\ Take("CREDIT") /\ Grant
  /\ UNCHANGED <<req, osVars, beamVars, wire, inputVars, inputClosed, threads, pc, trackVars,
                 flagVars, reportVars, frameVars, pump, gate, collected>>

BeginCleanup ==
  /\ cleaning' = TRUE
  /\ UNCHANGED <<seen, fresh, late, empties, uncertain, faults>>

\* KILL discards output only while the child's exit is unknown.
LoopKill ==
  /\ pc = "loop" /\ Take("KILL")
  /\ discard' = (discard \/ ~outcome)
  /\ BeginCleanup
  /\ UNCHANGED <<req, osVars, beamVars, wire, inputVars, inputClosed, threads, pc, outcome,
                 timedOut, beamGone, reportVars, frameVars, pumpVars>>

LoopLost ==
  /\ pc = "loop" /\ (Take("CLOSED") \/ Take("WRITEFAILED"))
  /\ beamGone' = TRUE /\ discard' = TRUE
  /\ BeginCleanup
  /\ UNCHANGED <<req, osVars, beamVars, wire, inputVars, inputClosed, threads, pc, outcome,
                 timedOut, reportVars, frameVars, pumpVars>>

LoopTimeout ==
  /\ pc = "loop" /\ Take("TIMEOUT")
  /\ IF outcome THEN UNCHANGED <<timedOut, discard, trackVars>>
     ELSE timedOut' = TRUE /\ discard' = TRUE /\ BeginCleanup
  /\ UNCHANGED <<req, osVars, beamVars, wire, inputVars, inputClosed, threads, pc, outcome,
                 beamGone, reportVars, frameVars, pumpVars>>

LoopExited ==
  /\ pc = "loop" /\ Take("EXITED")
  /\ outcome' = TRUE
  /\ BeginCleanup
  /\ UNCHANGED <<req, osVars, beamVars, wire, inputVars, inputClosed, threads, pc, discard,
                 timedOut, beamGone, reportVars, frameVars, pumpVars>>

LoopWaitFailed ==
  /\ pc = "loop" /\ Take("WAITFAILED")
  /\ uncertain' = TRUE
  /\ UNCHANGED <<req, osVars, beamVars, wire, inputVars, inputClosed, threads, pc, seen,
                 fresh, cleaning, late, empties, faults, flagVars, reportVars, frameVars,
                 pumpVars>>

-----------------------------------------------------------------------------
(* Start-up: the child runs and no thread does.                            *)

\* The root is announced, the threads start.
Start ==
  /\ pc = "start" /\ port = "open"
  /\ seen' = {Root} /\ announced' = {Root} /\ pc' = "loop"
  /\ UNCHANGED <<req, osVars, beamVars, wire, inputVars, inputClosed, threads, events, fresh,
                 cleaning, late, empties, uncertain, faults, flagVars, reportVars, control,
                 exitQueued, frameWriter, exits, pumpVars>>

\* Root's identity cannot be read: its group is killed at once, and a scan
\* need not find it.
NoIdentity ==
  /\ faults > 0 /\ faults' = faults - 1
  /\ \E found \in BlindScan : seen' = found
  /\ doomed' = doomed \cup ({Root} \cap Living)
  /\ UNCHANGED announced

\* Its announcement is not written, or its terminal not duplicated afterwards.
NoAnnouncement ==
  /\ \/ port = "closed" /\ UNCHANGED <<faults, announced>>
     \/ /\ port = "open" /\ faults > 0 /\ faults' = faults - 1
        /\ announced' = {Root}
  /\ \E found \in Found : seen' = found \cup {Root}
  /\ UNCHANGED doomed

\* abort_startup: a scan, and cleanup begins.
StartFails ==
  /\ pc = "start"
  /\ NoIdentity \/ NoAnnouncement
  /\ cleaning' = TRUE /\ restless' = FALSE /\ pc' = "abort"
  /\ UNCHANGED <<req, proc, pipe, chunks, beamVars, wire, inputVars, inputClosed, threads,
                 events, fresh, late, empties, uncertain, flagVars, reportVars, control,
                 exitQueued, frameWriter, exits, pumpVars>>

\* A pass of its loop.  Done, it kills a child that is still alive.
AbortTick ==
  /\ pc = "abort"
  /\ \E found \in BlindScan, complete \in BOOLEAN :
       LET count == IF complete THEN Empties(found) ELSE 0
           done  == count = 2 \/ late
       IN  /\ complete \/ Root \notin seen
           /\ Root \in Living /\ (complete \/ Root \in seen) => Root \in found
           /\ seen' = seen \cup found /\ empties' = count
           /\ \E killed \in Kills(found) :
                doomed' = doomed \cup killed \cup (IF done THEN {Root} \cap Living ELSE {})
           /\ pc' = IF done THEN "abortlast" ELSE "abort"
  /\ restless' = FALSE
  /\ UNCHANGED <<req, proc, pipe, chunks, beamVars, wire, inputVars, inputClosed, threads,
                 events, fresh, cleaning, late, uncertain, faults, flagVars, reportVars,
                 frameVars, pumpVars>>

\* tracker.finish_scan.
AbortFinish ==
  /\ pc = "abortlast" /\ pc' = "abortreap"
  /\ \E found \in BlindScan : seen' = seen \cup found /\ doomed' = doomed \cup found
  /\ restless' = FALSE
  /\ UNCHANGED <<req, proc, pipe, chunks, beamVars, wire, inputVars, inputClosed, threads,
                 events, fresh, cleaning, late, empties, uncertain, faults, flagVars,
                 reportVars, frameVars, pumpVars>>

\* child.wait, and the shim ends without supervision.
AbortReap ==
  /\ pc = "abortreap" /\ proc[Root] = "zombie"
  /\ proc' = [proc EXCEPT ![Root] = "dead"] /\ pc' = "aborted"
  /\ UNCHANGED <<req, doomed, pipe, chunks, restless, beamVars, wire, inputVars, inputClosed,
                 threads, events, trackVars, flagVars, reportVars, frameVars, pumpVars>>

-----------------------------------------------------------------------------
(* After the loop: the final scan, the root's reap, output, EXIT.          *)

\* Mutant: a survivor found by the final scan is reported, not killed.
Finish_Spares ==
  /\ pc = "finish"
  /\ inputClosed' = TRUE /\ restless' = FALSE
  /\ \E found \in Found :
       /\ seen' = seen \cup found /\ fresh' = found \ seen
       /\ uncertain' = (uncertain \/ found # {})
  /\ confirmed' = (confirmed /\ ~uncertain')
  /\ pc' = "reap"
  /\ UNCHANGED <<req, proc, doomed, pipe, chunks, beamVars, wire, inputVars, threads, events,
                 cleaning, late, empties, faults, flagVars, truncated, historyTruncated,
                 frameVars, pumpVars>>

\* tracker.finish_scan, then child.kill() if no status came.
Finish ==
  /\ pc = "finish"
  /\ inputClosed' = TRUE /\ restless' = FALSE
  /\ \E found \in Found :
       /\ seen' = seen \cup found /\ fresh' = found \ seen
       /\ doomed' = doomed \cup found
       /\ uncertain' = (uncertain \/ found # {})
  /\ confirmed' = (confirmed /\ ~uncertain')
  /\ pc' = "reap"
  /\ UNCHANGED <<req, proc, pipe, chunks, beamVars, wire, inputVars, threads, events,
                 cleaning, late, empties, faults, flagVars, truncated, historyTruncated,
                 frameVars, pumpVars>>

\* reap_root, and the status it brings.
Reap ==
  /\ pc = "reap" /\ proc[Root] = "zombie"
  /\ proc' = [proc EXCEPT ![Root] = "dead"] /\ outcome' = TRUE
  /\ pc' = "settle"
  /\ UNCHANGED <<req, doomed, pipe, chunks, restless, beamVars, wire, inputVars, inputClosed,
                 threads, events, trackVars, discard, timedOut, beamGone, reportVars, frameVars,
                 pumpVars>>

ReapExpired ==
  /\ pc = "reap" /\ proc[Root] = "live"
  /\ confirmed' = FALSE
  /\ pc' = "settle"
  /\ UNCHANGED <<req, osVars, beamVars, wire, inputVars, inputClosed, threads, events,
                 trackVars, flagVars, truncated, historyTruncated, frameVars, pumpVars>>

Cancel == gate' = "cancelled"

SettleGone ==
  /\ pc = "settle" /\ beamGone
  /\ Cancel /\ pc' = "gone"
  /\ UNCHANGED <<req, osVars, beamVars, wire, inputVars, inputClosed, threads, events,
                 trackVars, flagVars, reportVars, frameVars, pump, credit, collected>>

\* Mutant: a full queue drops the last groups without a trace.
Settle_Drops ==
  /\ pc = "settle" /\ ~beamGone
  /\ IF frameWriter = "failed"
     THEN control' = control
     ELSE \E queued \in Accepted(fresh) : control' = control \cup queued
  /\ fresh' = {}
  /\ IF req.strict /\ ~discard
     THEN pc' = "strict" /\ UNCHANGED <<gate, truncated>>
     ELSE /\ pc' = "bounded"
          /\ gate' = IF discard THEN "cancelled" ELSE "uncorked"
          /\ truncated' = discard
  /\ UNCHANGED <<req, osVars, beamVars, wire, inputVars, inputClosed, threads, events, seen,
                 cleaning, late, empties, uncertain, faults, flagVars, confirmed,
                 historyTruncated, exitQueued, frameWriter, announced, exits, pump, credit,
                 collected>>

\* Groups the final scan found are the last to be announced.
Settle ==
  /\ pc = "settle" /\ ~beamGone
  /\ IF frameWriter = "failed"
     THEN control' = control /\ historyTruncated' = (historyTruncated \/ fresh # {})
     ELSE \E queued \in Accepted(fresh) :
            /\ control' = control \cup queued
            /\ historyTruncated' = (historyTruncated \/ queued # fresh)
  /\ fresh' = {}
  /\ IF req.strict /\ ~discard
     THEN pc' = "strict" /\ UNCHANGED <<gate, truncated>>
     ELSE /\ pc' = "bounded"
          /\ gate' = IF discard THEN "cancelled" ELSE "uncorked"
          /\ truncated' = discard
  /\ UNCHANGED <<req, osVars, beamVars, wire, inputVars, inputClosed, threads, events, seen,
                 cleaning, late, empties, uncertain, faults, flagVars, confirmed, exitQueued,
                 frameWriter, announced, exits, pump, credit, collected>>

\* drain_pumps: until the pump reports or the grace period ends.
BoundedEnds ==
  /\ pc = "bounded"
  /\ collected' = (pump = "done")
  /\ truncated' = (truncated \/ pump # "done")
  /\ pc' = "exit"
  /\ UNCHANGED <<req, osVars, beamVars, wire, inputVars, inputClosed, threads, events,
                 trackVars, flagVars, confirmed, historyTruncated, frameVars, pump, credit,
                 gate>>

\* drain_pumps_strict: the peer, every event, then ten milliseconds for a pump.
StrictPeerGone ==
  /\ pc = "strict" /\ PeerDisconnected
  /\ Cancel /\ pc' = "gone"
  /\ UNCHANGED <<req, osVars, beamVars, wire, inputVars, inputClosed, threads, events,
                 trackVars, flagVars, reportVars, frameVars, pump, credit, collected>>

StrictLost ==
  /\ pc = "strict" /\ (Take("CLOSED") \/ Take("WRITEFAILED"))
  /\ Cancel /\ pc' = "gone"
  /\ UNCHANGED <<req, osVars, beamVars, wire, inputVars, inputClosed, threads, trackVars,
                 flagVars, reportVars, frameVars, pump, credit, collected>>

StrictCredit ==
  /\ pc = "strict" /\ Take("CREDIT") /\ Grant
  /\ UNCHANGED <<req, osVars, beamVars, wire, inputVars, inputClosed, threads, pc, trackVars,
                 flagVars, reportVars, frameVars, pump, gate, collected>>

StrictKill ==
  /\ pc = "strict" /\ Take("KILL")
  /\ Cancel /\ truncated' = TRUE /\ pc' = "bounded"
  /\ UNCHANGED <<req, osVars, beamVars, wire, inputVars, inputClosed, threads, trackVars,
                 flagVars, confirmed, historyTruncated, frameVars, pump, credit, collected>>

StrictIgnore ==
  /\ pc = "strict" /\ (Take("TIMEOUT") \/ Take("EXITED") \/ Take("WAITFAILED"))
  /\ UNCHANGED <<req, osVars, beamVars, wire, inputVars, inputClosed, threads, pc, trackVars,
                 flagVars, reportVars, frameVars, pumpVars>>

StrictDrained ==
  /\ pc = "strict" /\ events = <<>> /\ pump = "done"
  /\ collected' = TRUE /\ pc' = "exit"
  /\ UNCHANGED <<req, osVars, beamVars, wire, inputVars, inputClosed, threads, events,
                 trackVars, flagVars, reportVars, frameVars, pump, credit, gate>>

\* control.send waits for room; with the writer gone it fails at once.
SendExit ==
  /\ pc = "exit"
  /\ IF frameWriter = "failed" THEN UNCHANGED exitQueued
     ELSE Cardinality(control) < QueueLimit /\ exitQueued' = TRUE
  /\ pc' = "deliver"
  /\ UNCHANGED <<req, osVars, beamVars, wire, inputVars, inputClosed, threads, events,
                 trackVars, flagVars, reportVars, control, frameWriter, announced, exits,
                 pumpVars>>

\* Mutant: the shim ends with EXIT queued rather than written.
Delivered_Unawaited ==
  /\ pc = "deliver"
  /\ pc' = IF frameWriter # "failed" /\ req.gated THEN "linger" ELSE "gone"
  /\ UNCHANGED <<req, osVars, beamVars, wire, inputVars, inputClosed, threads, events,
                 trackVars, flagVars, reportVars, frameVars, pumpVars>>

\* The writer's verdict: EXIT delivered, or the BEAM gone.
Delivered ==
  /\ pc = "deliver" /\ frameWriter # "run"
  /\ pc' = IF frameWriter = "done" /\ req.gated THEN "linger" ELSE "gone"
  /\ UNCHANGED <<req, osVars, beamVars, wire, inputVars, inputClosed, threads, events,
                 trackVars, flagVars, reportVars, frameVars, pumpVars>>

Linger ==
  /\ pc = "linger" /\ events # <<>>
  /\ events' = Tail(events)
  /\ pc' = IF Head(events) = "CLOSED" THEN "gone" ELSE "linger"
  /\ UNCHANGED <<req, osVars, beamVars, wire, inputVars, inputClosed, threads, trackVars,
                 flagVars, reportVars, frameVars, pumpVars>>

LingerPeerGone ==
  /\ pc = "linger" /\ PeerDisconnected
  /\ pc' = "gone"
  /\ UNCHANGED <<req, osVars, beamVars, wire, inputVars, inputClosed, threads, events,
                 trackVars, flagVars, reportVars, frameVars, pumpVars>>

Finished == ~Up /\ UNCHANGED vars

-----------------------------------------------------------------------------
System ==
  \/ \E p, q \in Procs : Fork(p, q)
  \/ \E p \in Procs : Die(p)
  \/ Write \/ ReadInput

Beam == SendKill \/ SendCredit \/ SendInput \/ ClosePort

Reader == ReaderEvent \/ ReaderInput \/ ReaderResumes \/ ReaderFinishes \/ ReaderEof
InputWriter == WriterTakes \/ WriterEnds \/ WriterFails
Waiter == WaiterSend
Pump == PumpPermit \/ PumpRead \/ PumpWrite

Threads ==
  Reader \/ InputWriter \/ Waiter \/ WaiterFails \/ TimerFire \/ FrameWrite \/ Pump

StartUp == Start \/ StartFails \/ AbortTick \/ AbortFinish \/ AbortReap

LoopEvent ==
  LoopCredit \/ LoopKill \/ LoopLost \/ LoopTimeout \/ LoopExited \/ LoopWaitFailed

Ending ==
  \/ Finish \/ Reap \/ ReapExpired \/ SettleGone \/ Settle \/ BoundedEnds
  \/ StrictPeerGone \/ StrictLost \/ StrictCredit \/ StrictKill \/ StrictIgnore \/ StrictDrained
  \/ SendExit \/ Delivered \/ Linger \/ LingerPeerGone

Next ==
  System \/ Beam \/ StartUp \/ Threads \/ Tick \/ Deadline \/ LoopEvent \/ Ending \/ Finished

\* Every thread is scheduled, the loop alternates between its passes and its
\* channel, bounds pass, a process with a pending SIGKILL dies, and an open
\* port is read.  The child need not read its input, die of SIGTERM or stop
\* forking, and the BEAM need not send anything.
Fairness ==
  /\ WF_vars(Reader) /\ WF_vars(InputWriter) /\ WF_vars(Waiter) /\ WF_vars(FrameWrite)
  /\ WF_vars(Pump) /\ WF_vars(StartUp) /\ WF_vars(Tick) /\ WF_vars(Deadline) /\ WF_vars(LoopEvent)
  /\ WF_vars(Ending)
  /\ \A p \in Procs : WF_vars(Perish(p))

Spec == Init /\ [][Next]_vars
FairSpec == Spec /\ Fairness

-----------------------------------------------------------------------------
(* Properties.                                                             *)

\* Every variable keeps its type; the queues keep their capacities.
TypeOK ==
  /\ req \in Runs
  /\ proc \in [Procs -> {"absent", "live", "zombie", "dead"}]
  /\ doomed \subseteq Procs /\ restless \in BOOLEAN
  /\ pipe \in Nat /\ chunks \in Nat
  /\ port \in {"open", "closed"} /\ wire \in Seq({"KILL", "CREDIT", "STDIN", "EOF"})
  /\ kills \in Nat /\ grants \in Nat /\ inputs \in Nat
  /\ faults \in Nat
  /\ reader \in {"open", "blocked", "eof"} /\ sender \in BOOLEAN
  /\ inputQueue \in 0..1 /\ writing \in BOOLEAN /\ inputWriter \in BOOLEAN
  /\ inputClosed \in BOOLEAN
  /\ waiter \in {"wait", "sent"} /\ timer \in {"off", "armed", "fired"}
  /\ events \in Seq({"KILL", "CREDIT", "CLOSED", "WRITEFAILED", "TIMEOUT", "EXITED",
                     "WAITFAILED"})
  /\ pc \in {"start", "abort", "abortlast", "abortreap", "aborted", "loop", "finish", "reap",
             "settle", "bounded", "strict", "exit", "deliver", "linger", "gone"}
  /\ seen \subseteq Procs /\ fresh \subseteq seen
  /\ cleaning \in BOOLEAN /\ late \in BOOLEAN /\ empties \in 0..2 /\ uncertain \in BOOLEAN
  /\ outcome \in BOOLEAN /\ discard \in BOOLEAN /\ timedOut \in BOOLEAN
  /\ beamGone \in BOOLEAN
  /\ confirmed \in BOOLEAN /\ truncated \in BOOLEAN /\ historyTruncated \in BOOLEAN
  /\ control \subseteq seen /\ Cardinality(control) <= QueueLimit
  /\ exitQueued \in BOOLEAN /\ frameWriter \in {"run", "failed", "done"}
  /\ announced \subseteq seen /\ exits \subseteq Report
  /\ pump \in {"park", "read", "drain", "hand", "done"} /\ credit \in Nat
  /\ gate \in {"metered", "uncorked", "cancelled"} /\ collected \in BOOLEAN

\* An EXIT without tracked_groups_truncated comes after a TRACKED frame for
\* every group the tracker ever found, the final scan's included, however
\* slowly the BEAM read them and however short the queue is.
HistoryHonest == \A r \in exits : ~r.historyTruncated => seen \subseteq announced

\* The frames kept for a slow BEAM are bounded, and none is missing silently.
HistoryKept == TypeOK /\ HistoryHonest

\* Past the final scan every process any scan ever found is dead or about to
\* die of SIGKILL, one that only the final scan found included.
NoKnownSurvivor ==
  pc \notin {"start", "abort", "abortlast", "loop", "finish"} => Living \cap seen \subseteq doomed

\* The promise of an untracked run, kept for the child itself: a confirmed
\* EXIT comes after its end, EXIT is delivered at most once, and the shim
\* ends without one only when its BEAM is gone.
Contract == INSTANCE ShimContract WITH
  contained <- FALSE, groupAlive <- proc[Root] = "live", treeAlive <- Living # {},
  verdict <- {r.confirmed : r \in exits}, running <- pc # "gone"
ImplementsContract == Contract!Spec

\* Losing the BEAM ends the shim and every process it found, also while the
\* reader is stuck behind input that the child does not read.
PeerLossEndsAll == port = "closed" ~> ~Up /\ Living \cap seen = {}

\* The child's exit is reported unless the BEAM leaves first; output under
\* strict credit is waited for instead.
ExitReported ==
  proc[Root] # "live" /\ ~req.strict ~> exits # {} \/ port = "closed" \/ pc = "aborted"

KillHeard == \E i \in 1..Len(events) : events[i] = "KILL"

\* KILL ends a run, or discards the output that an ended run still holds,
\* in every output mode (protocol.rs, drain_pumps_strict).
KillHeardAnswered == KillHeard ~> exits # {} \/ port = "closed"
=============================================================================
