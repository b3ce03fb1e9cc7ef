# Forcola in TLA+

Forcola runs operating-system processes for Elixir programs and promises that
nothing it started outlives it. A native helper, the *shim*
(`native/forcola_shim`, Rust), is the parent of every child: the BEAM talks to it
over a port in length-prefixed frames, and the shim kills the child's whole
process group when it is told to, when a timeout fires, or when the BEAM is gone.
The Elixir side (`lib/forcola`) wraps one port in different modes: a blocking run,
a lazy stream, a daemon, a duplex session, a file lock.

This directory holds a TLA+ model of the parts where the order of events decides
whether those promises hold, configurations that check it with TLC, and proofs
checked by TLAPS.

## 1. The system

| Part | Code | State it keeps | Operations |
| --- | --- | --- | --- |
| Supervision | `supervisor.rs` `supervise`, `kill_group`, `drain_pumps*` | event channel, cleanup and discard flags, verdicts | handle KILL, CREDIT, EOF of stdin, timeout, child exit; sweep the group; drain output; EXIT; linger |
| Output pumps, read budget | `supervisor.rs` `pump_*`, `credit.rs` | per stream: available, uncorked, cancelled | permit, read, consume, forward; grant, uncork, cancel |
| Threads | `spawn_stdin_reader`, `spawn_waiter`, `spawn_timeout_timer` | their channel end | turn frames, exit and time into events |
| Containment | `cgroup.rs` | directory, open descriptors | kill, drained, remove; join before exec |
| Child input | `ChildInput` | writer thread, queue, closed flag | send, finish, close |
| Start-up | `run_with_capabilities`, `spawn_child`, `abort_startup`, `privdrop.rs`, `spawn_error.rs` | negotiated features, report pipe, the child's rights | HELLO, SPAWN, set-up steps before exec, SPAWNED, TRACKED, ERROR |
| Tracking | `tracking.rs`, `supervise_tracked` | process and group inventory, escalation per target | scan, checked signal, advance, final scan |
| Recorded groups | `groups.rs`, `tracking.ex` | recorded identities, a state per group | observe, list, verify, signal; check, stop |
| Port guard | `shim.ex` | port, owner | open, relay, close and drain |
| Run | `run.ex` | collected output, deadlines, cancellation reason | collect, cancel, grant, finish |
| Stream | `stream.ex` | line buffer, deadlines, credit | demand, idle timeout, limits, early halt |
| Daemon | `daemon.ex` | readiness, port | poll ready, absorb frames, shutdown |
| Duplex session | `duplex.ex` | line buffers, queue, held recv, pending input, Terminal in ETS | recv, send_line, send_eof, shutdown, close |
| Lock | `lock.rs`, `lock.ex` | guard process, flock | acquire, release, loss |
| Everything else | JSON encoding, option validation, results, `precompiled.ex`, `atomic_file.ex`, mix tasks | none between calls | conversions, build-time I/O |

They interact in one line: callers call a server (GenServer call, or a plain
receive loop), the server exchanges frames with the shim through a guarded port
(two FIFO channels), the shim's threads turn frames into events of one channel,
and its main thread acts on the processes with signals, of whose effect it learns
only by probing. Credit travels from the caller's demand to the pump that
reads the child, so back-pressure reaches the child's `write`.

What is hard here:

* **Processes against the kill sequence.** Descendants fork, leave the group, hold
  pipes and die while the sweep runs; the leader is reaped before it.
* **Exit against output.** EXIT, the pumps and the BEAM's credit are three threads;
  EXIT must come last, and a pump without credit must neither hang nor lose bytes.
* **Death of either side at every point.** The BEAM may vanish during a strict
  drain, the shim may die while it lingers after EXIT.
* **Evidence.** Terminal results pass through a reply, a stored record and an ETS
  table, and qualify each other.
* **Timers.** recv timers, retry timers and deadlines race the answers they guard.
* **Back-pressure without a reader.** A child that stops reading fills its stdin, the
  shim's queue and the port; callers and the end of the session must not wait for it.
* **Names that outlive what they name.** A pid or a group id may come back between a
  check and the signal it was for.
* **Set-up in another process.** The child sheds its rights step by step after fork, can
  fail or be killed at each, and has one pipe to tell which.

`PROJECT.json` lists each of these hazards at its line.

## 2. Modules

`Supervisor.tla` models the untracked shim with the operating system under it. The
variables carry the code's names (`started` is `group_cleanup_started`, `discard`
is `discard_output`, `groupOk` and `cgroupOk` are `group_confirmed` and
`cgroup_confirmed`, `gate` is `Credit.uncorked`/`cancelled`); `pc` is where the
main thread is:

| `pc` | Code |
| --- | --- |
| `loop` | `rx.recv()` in `supervise` |
| `int`, `term`, `kill` | the three waits of `kill_group` |
| `teardown`, `cgroup` | uncorking and `finish_cgroup` |
| `settle` | after it: the BEAM gone, or which drain |
| `bounded` | `drain_pumps` |
| `strict`, `polled` | a round of `drain_pumps_strict`, and its wait for a pump |
| `report`, `linger`, `gone` | EXIT, `drain_inbound_until_closed`, the process ended |

Choices made in it:

* The pipe from the BEAM and the reader thread are two FIFOs in series and become
  one, `events`: without tracking the reader never blocks (child input is queued
  without bound). Only the *closing* of the port is kept apart from the reader
  noticing it, because the peer monitor sees it first.
* Time is abstracted. A bounded wait (`wait_until`, `recv_timeout`) may end as
  expired whenever its predicate is false; an armed timer may fire at any moment.
  What holds here holds for every grace and timeout.
* Output is counted in chunks, one per read, and one CREDIT grants one chunk.
  `PullSession` counts bytes.
* `Cgroup::kill` is best effort, and so is `CgroupKill`: unless the request's `killWorks`
  says otherwise, each call takes effect or does nothing. With `cgroup: true` that is a
  kernel without `cgroup.kill`, or an open or write that fails; required mode opens the file
  before the child starts (`cgroup.rs:61-63`) and ignores only a failed write. EXIT says
  `contained` all the same (`supervisor.rs:1564`), so `NoSurvivorUnsignalled` claims of a
  contained run: an escaped descendant past the sweep has a SIGKILL pending, or a
  `cgroup.kill` may have failed and the cgroup was not called empty.
* `drained` reads the `cgroup.procs` of the shim's own directory. A descendant that moves
  into a cgroup nested in it is not listed there; such processes are outside the model, and
  what it says of contained runs is about processes in that directory.
* A process with a pending SIGKILL neither forks nor changes session. The kernel
  may kill it late, so `kill` may time out.
* The kernel reusing the id of a dead group is not modelled: the code documents it
  as a limitation (`supervisor.rs:1784-1789`). `DeadGroupNotSignalled` states the
  discipline that keeps the window small.
* A read error on stdin ends like its end of file; `TrackingWriteFailed` and
  `ChildWaitFailed` do not occur without tracking; the channel's `Err` cannot
  occur while the loop's own sender lives.

`ShimContract.tla` is the abstract specification of one supervised run in four
actions: processes end and never come back, the BEAM may leave, at most one EXIT
is delivered and a confirmed one is true, and the shim ends without EXIT only
towards a BEAM that left. `Supervisor` implements it (checked and proved).

`CreditFlow.tla` is the abstract credit discipline of pull delivery, per stream in
bytes: window, read budget, transit, unfinished line, queued lines, demand. Its
constants, in `DeliveryOptions.tla`, are the options `max_line_bytes` and
`max_pending_bytes` with the assumption `validate_delivery_opts!` enforces. TLC
checks it as what `PullSession` implements; its own properties are proved.

`PullSession.tla` composes recv callers, the `Forcola.Duplex` server in pull
delivery, both directions of the port, and the shim with strict output. Bytes have
addresses, so a frame or a line is a range and any loss, repetition or tearing
shows. Server callbacks are one action each; `terminate` is atomic except for the
time it waits for EXIT (`server = "settling"`). It implements `CreditFlow`.

* Messages of one sender are taken in order, of different senders in any order:
  Erlang's guarantee. Timer messages are in `late`; a cancelled timer whose message
  was already sent stays there.
* The shim is condensed to what the session can tell apart; a pump's read and its
  frame are one step here and two in `Supervisor`. A pump that holds a permit when
  it is cancelled may forward once more.
* A frame sent to a dead shim is lost. `:busy` sends arise only with tracking and
  are left out, like input, identity and tracking records.
* The clause of recv for a known exit with an empty queue (`duplex.ex:677-678`) has
  no action, since the server has then stopped: `StopsWhenDrained` checks that.

`Tracker.tla` models `tracking.rs` on Linux, where the shim is a subreaper, with the
part of `supervise_tracked` that drives it. Every read of a scan is a step (`Visit`,
`Children`, `Recheck`, `Kid`), and between any two reads the kernel may fork, exit,
reparent, regroup, or give a free pid to a new process or a stranger. `Settle` is
the end of `scan` (reaping, pruning, new groups), `GroupStep` and `MemberStep` the
targets of one `advance`, `Judge` its verdict, `Finish` the final scan's. The three
hidden variables `dirty`, `hasty` and `stranger` only record history for properties.

* Identity check and signal are one step; the code documents the residual race.
  Processes have one thread. A pid is not reused twice within one read.
* The `attempts` bound of a scan, `scan_root_group` (macOS) and a failed wait are
  left out; `TrackedSupervisor` has the last.

`TrackedSupervisor.tla` models `supervise_tracked` with all its threads: the reader,
which blocks behind the one-place input queue, the input writer, the writer of
TRACKED and EXIT frames behind its bounded queue, the waiter that leaves the root a
zombie, the timer, a pump. `Tick` is one pass over peer, scan, announcements and
cleanup; the other half of the loop is `LoopEvent`. It uses what `Tracker` shows
about a scan: it finds every process known before, and all of them unless some
process died since the last one (`Found`). It implements `ShimContract` for the child
itself; that a confirmation covers all descendants does not hold, and
`SurvivorSlippedThrough` in `Tracker` says what it takes. One pump, no cgroup: both are in `Supervisor`.

It begins with the spawned child and no thread yet (`pc = "start"`). `Start` reads the
root's identity, announces it and starts the threads; `StartFails` is each way that can
fail, and `AbortTick`, `AbortFinish` and `AbortReap` are `abort_startup`, which ends in
`aborted`. The contract speaks of runs that got past it.

`PortGuard.tla` is `Shim.open`, `guard_port` and `close` with one execution behind the
port: the guard process, its relay (`wire` to `mailbox`), the `exit_status` it
synthesizes when the port ends, the closing and the death of the owner.
`PortOwners.tla` adds the owners, one action per message or deadline they handle:
`Run*` for `run.ex`, `Stream*` for `stream.ex`, `Daemon*` for `daemon.ex`; `Drain` is
the end of `Shim.close`, `Confirm*` is `await_exit`.

* One request fixes the mode, the options and the script of each output channel; a
  byte is `"n"` for a newline or `"x"`, and channel `c` carries bytes `1..n`, so that
  loss and repetition show.
* The shim is condensed: `loop`, `drain`, `cut` (a drain whose output is given up),
  `linger`, `gone`. Its full order is in `Supervisor`.
* A write to a dead shim closes the port with a link exit and without the frames not
  yet read (`PortEnds`); a clean end delivers what was written first.
* Opening the port, HELLO, identities, TRACKED frames and merged stderr are left out.

`OrderedInput.tla` is the abstract specification of a session's input, seen by the
callers of `send_line` and `send_eof`: what is sent keeps the order in which the session
took it, a refused line is never sent, a sent one never refused, and nothing follows an
EOF. `DuplexInput.tla` implements it (checked and proved): the queue of frames the port
did not take, the retry timer (`flushTimer`), a timer per held call, `stdinOpen`, and the
KILL of a session that ends, which shares the port with the input. `HasRoom`, `PortBusy`
and a closed port are the three results of `Shim.try_send_frame`. None of its names is one
of `PullSession`'s, so that `DuplexProofs` extends both.

* The port driver and the shim's reader are one counter, `unread`: the port is busy when
  it is `HighWater`. The child need never read.
* The server takes the port's messages in order and all others in any order. A cancelled
  timer whose message was sent stays `"fired"`, and its message may find another call.
* One flush is one step; what the shim reads meanwhile makes room at the next tick.
* Lines to the owner, the stored Terminal and output credit are not here; a pull session
  that stays up after EXIT is a choice in `ShimEnded`.

`RecordedGroups.tla` is the shim's `groups` command on Linux: `check` and `stop` of the
groups an earlier session recorded. Each read of `/proc` and each `kill(2)` is a step, and
between any two the kernel may fork, regroup, exit, reap, and give a free pid to a process
of another program. `pc` is the place in the code:

| `pc` | Code |
| --- | --- |
| `read` | the request line |
| `observe` | the leader's record, in `observe` |
| `list`, `again` | the listing and the second reads of `members` |
| `poll` | the top of a stage of `stop`, and of each round of its wait |
| `signal`, `group` | `signal`: the second look at the leader, then `kill(-pgid)` |
| `member`, `strike` | `signal_members`: a member read again, then its `kill` |

* A recorded process has `era` 0, a later one with the same pid a larger one: the start
  time in the code. A pid that is a group's id is free only once the group is empty.
* A process that left its group does not come back. Any call may fail, up to a bound.

`Startup.tla` runs from the first frame to the event loop, with the child beside the shim
between fork and exec. `Order` is the order of the set-up steps in `spawn_child`, and
`Needed` which of them a request asks for; `child.did` is what the child has done and
`child.who` whom it is. `std` is what `Command::spawn` hears, `report` the shim's own
pipe on which a failing step names itself.

* A step may fail in the shim or the child, a report may be lost, and the child may be
  killed at any step, also while it reports. `fault` records it for the properties.
* Accounts are records of ids and groups; looking up a name gives one or fails.
* The kill sequence that ends a failed start is `AbortKill` and `AbortFinish` here; that of
  a tracked start is in `TrackedSupervisor`. A `cgroup.kill` may fail as in `Supervisor`,
  and the wait of `finish_cgroup` may expire: a descendant with a pending SIGKILL
  (`"dying"`), or one that no signal reached, then keeps the cgroup's directory.

`Lock.tla` is `lock.ex` and `lock.rs`: per acquire a handle with its guard, port and
shim, and one file. The shim's steps are the system calls of `lock.rs` (`SetLock`,
`GetLock`, `SayOk`, `WaitForRelease`), the guard's the messages of `await_answer`,
`hold` and `release_port`, the owner's the calls and their returns. `view` is what the
owner believes of its handle and `holder` what the kernel knows.

* A shim may be killed, or stopped for ever if the constant `Unreliable` names it;
  another program may take and free the lock.
* A process that ends loses its lock no later than its pipes are seen to close: the
  port reports `exit_status` after the kernel has reaped it.
* The guard's `exit_status` and `EXIT` of a port are one message, `"end"`. A guard that
  fails to open its port, argument checks and partial lines are left out.

The modules `MC*` give the constants values for TLC, and the modules `*Proofs` hold the
theorems. An
operator named `Action_Word` beside `Action` is a deliberately broken variant: each
property is shown to fail when its variant takes the action's place.

## 3. Runs

| Run | Asks |
| --- | --- |
| `supervisor` | Is a confirmed EXIT true, is every survivor signalled, is a dead group left alone, can EXIT overtake or silently cut output, does losing the BEAM end everything, is KILL answered, a dead child reported, the contract kept? In every mode: gated or eager, strict or not, with or without cgroup, a `cgroup.kill` that fails, timer, interrupt and group signals. |
| `pull_session` | Do lines arrive whole, once, in order, in every framing? Is complete evidence deserved? Does every answer go to its call, and agree with the published evidence, with two callers, timers, a crash and a stop at any moment? Is a recv around the child's exit answered, and does a limit end the child? |
| `tracker` | What does an empty scan prove under forks, reparenting, exits and reuse, and how often must a survivor slip through? Do transient read errors ever count as an empty scan? Does the inventory keep its limits? Can a signal reach a stranger, or a SIGKILL come unwarned into a confirmed report? |
| `tracked` | Is a history without truncation mark whole behind a full queue? Is a survivor of the final scan killed, and so after a failed start? Is the contract kept when scans, waits and writes fail? Does losing the BEAM end everything, also during start-up or with the reader stuck behind input? Does EXIT follow the child's end, a failed wait, an early KILL? |
| `port_owners` | A run, a stream and a daemon behind the port guard, cut by a bound, an observer, a deadline, a halt, a crash or the owner's death: is output called complete only when whole, is read-ahead bounded by the window, is the mailbox left clean, does the child end, is the caller answered? |
| `lock` | Two acquires of a file by one or two processes, with shims killed or stopped and a foreign holder: is a released lock free, do acquire and release return, is a loss reported, does a lock go with its handle or owner? |
| `duplex_input` | Lines and EOFs through a busy port: does the session keep `OrderedInput`, and does a child that does not read block neither a caller nor the end? |
| `groups` | Is a group seen to be another's left alone, is a group reported gone or left alive only by a race or a failed call, does a request end? |
| `startup` | Does the program run with exactly the rights, place and terminal asked for, does a drop need rights, does an error name its step, does a failed start leave no process or cgroup, does every start end? |
| `pull_discard` | Counterexample, see below. |
| `tracked_kill` | Counterexample, see below. |
| `groups_reuse` | Counterexample, see below. |

A property may be a conjunction of related parts, named in its module: `SessionConsistent`,
`InventorySound`, `HistoryKept`, `BoundsKept`, `AnswersDue`, `StopReportHonest`,
`InputNeverBlocks`.

**Bounds.** In `supervisor` two processes, the child and a descendant, are enough for
a leader that dies while the group lives on, a descendant that leaves the group, and
one that holds the pipe; safety for any number of processes and pumps is proved.
`MaxChunks` and `MaxGrants` are one: a chunk may be unread, in a hand or written, and
a grant before, during or after the drain. A contained run is ungated or strict there: a
cgroup adds to the kill sequence and nothing to a drain in between. Its `cgroup.kill` may
fail at each call, and in one mode never fails. Pull runs use
lines of one byte, windows of two and scripts of up to four bytes on one channel, or a
line on each: enough for a line cut over frames, two lines in a frame, an empty line, a
line over the limit and an unfinished one. Two recv calls let a timer outlive its call and meet the
next one. The proofs remove the bounds where they
exist. In `Tracker` and `TrackedSupervisor` a record `run` bounds what the world may do,
and a run checks a set of such records side by side rather than their product. In
`Tracker`, three pids and four births let a relay of forking processes, on pids it leaves
behind, outlast two empty scans and the final one; a run of one birth with failing reads,
one with a stranger and a change of group, and one with an inventory too small for it
are records of their own. What these records do not combine, the proofs cover: its four
properties are theorems for any bounds.
`TrackedSupervisor` needs three processes and a queue of one frame for a queue
that is full when the final scan finds one more (a failing call is checked with two), and
three input frames for one
being written, one queued and the reader blocked with the third. `PortOwners` has nine
requests of at most three bytes: output below, at and over each limit, a window smaller
and larger than the output, each with the faults and timers it is about; its safety
properties are theorems for all others. `Lock` has two
handles, for one that is waited out while the other holds, retries of one owner and
contention of two, and two attempts of `F_SETLK`, so that one retry happens.
`DuplexInput` has three calls: two lines, the first with `:infinity`, and an EOF, or a line
and two EOFs; the port holds two frames and may hold earlier ones, so that one, two or
none fit. `RecordedGroups` has three pids: a leader, a member and one more process, or two
groups of which one can be taken over while the other is stopped; each request bounds
births, reuses, departures and failing calls. `Startup` checks three sets of requests side
by side: every kind of child with two faults and a kill (a step that fails and a report
that fails too), every user and group asked of a privileged and an unprivileged shim,
and every disorder of the first two frames.
Every run checks for deadlock but three, which model programs that end: `startup`, where a
start has failed or is handed over, and `groups` and `groups_reuse`, where the request is
answered. What must come before that end is stated as liveness (`StartupEnds`,
`RequestEnds`).

**Fairness.** `Supervisor`: every thread of the shim is scheduled, its bounded
waits end, and a process with a pending SIGKILL dies. Nothing is assumed of the
BEAM, of the moment a timer fires, or of a process nobody killed. `TrackedSupervisor`: the same; the time bounds of the cleanup pass end; and an open
port is read, as the port driver does whatever its owner does. `PullSession`: the same
of the shim, the server handles its messages, a child under KILL dies;
nothing is assumed of the child's pace, of callers, of timers or of the deadline
in `terminate`, though weak fairness of the server lets a settling server end by
that deadline, as `do_await_exit` does. `PortOwners`: the shim and the guard run, the
port reports the shim's end, an owner in a receive handles its messages, and the
deadlines that bound a wait pass (drain, confirmation, a run's backstop, readiness);
nothing is assumed of the child's writing, of a consumer's demand, or of the other
timers, so an answer that depends on the child waits for it. `Lock`: a shim that is
not stopped runs, guards handle messages and their deadlines pass, an owner in a
receive gets its reply; no owner need release, and no shim need fail. `DuplexInput`:
the server takes each message, timers fire, the shim reads a KILL it has reached and
leaves a closed port; the child need not read, and a call with `:infinity` is owed an
answer only if the port has room again or closes. `RecordedGroups`: the program runs and
its deadlines pass; processes may ignore every signal but KILL. `Startup`: shim and child run.
`Tracker` has safety properties only.

## 4. Where the code and its documentation differ

`pull_discard`: `duplex.ex:60-61` says an intentional shutdown that discards unread
output reports `output: :truncated`. Let the child end by itself with its last
output on its way to the server. The shim's strict drain finishes before it reads
KILL, so its EXIT says the output was not truncated. The server is already in
`do_await_exit`, which drops the data frame, and neither the queue nor the
buffers know of it: the Terminal says `:complete`.

`tracked_kill`: `protocol.rs:94-95` lets the BEAM end a strict drain by KILL. A KILL
that arrives after the exit event, while the scans still confirm cleanup, is consumed
by the loop, which sets `discard_output` only before the exit
(`supervisor.rs:1249-1253`). The drain that follows waits for credit; only a second
KILL or a closed port ends it. `EarlyKillAnswered` shows that a KILL heard before the
exit event works.

`groups_reuse`: "a group whose leader identity no longer matches is never signalled"
(`groups.rs:30`; the repository's `README.md:227-228` says the same). `signal` reads the leader again before `kill(-pgid)`. If the read finds
another process, the code falls through to `members` (`groups.rs:325`), as it does when
`kill` fails, lists whoever now has the id as its group, and signals each of them. It takes
a pid that comes back as a group leader between the observation and the signal.
`SeenReuseIsSafe` shows, and is proved, that an *observation* that finds another process
ends all signals for the entry.

Seen while modelling, and without a run of their own:

* `release` documents `:ok` "once the lock is free, including when the lock was already
  released or lost" (`lock.ex:129-130`). After a release that timed out the guard is gone,
  and a second one returns `:ok` from its `:DOWN` alone, while a stopped shim may still hold
  the lock. `ReleasedMeansFree` therefore excepts handles with such a release (`late`).
* `duplex.ex:402-403` says `:closed` is the answer once stdin has been closed with
  `send_eof/2`. A line is answered `:closed` already while the EOF waits in the queue, and
  when that EOF expires, stdin is open again. `OrderedInput` allows it.
* "Incomplete tracking is unconfirmed." (`duplex.ex:249`). A scan reads one process at a
  time. A process that forks after its parent's children were read, and exits before its
  own are, leaves a child the scan does not see. A relay of such processes evades the two
  empty scans and the final one, and the report is confirmed. `SurvivorSlippedThrough`
  says what that takes: an exit during each of them.
* SIGTERM to a group counts for every process recorded in it (`tracking.rs:636-639`), also
  for one that left the group after its record was read. If the next read of that process
  fails, the stale record stays, and once its former leader is gone the process is killed
  as a single member in the stage of a group it was not in: unwarned, in a report that may
  be confirmed. It takes a change of group and a failed read in one run, so the proof met it
  and the bounded runs had not. `KilledUnwarnedUnconfirmed` therefore promises notice to a
  process, its parent, or a group it was in *or was last seen in*.
* `protocol.rs:184-186` says of `tracked_groups_truncated` that "truncation prevents cleanup
  confirmation". The shim computes `confirmed` without it, and `duplex.ex:154-156` says that
  cleanup confirmation is independent of history. `HistoryKept` follows the code.
* An untracked child whose terminal cannot be duplicated (`supervisor.rs:361`) goes on after
  its shim has ended with an error, although the repository's `README.md:10-13` has the group
  die when the run is over. `FailedStartLeavesNothing` excepts it by name.
* If the shim dies while the server serves queued lines after EXIT, the `exit_status`
  handler, written for a shim that "exited without sending EXIT/ERROR", replaces the
  recorded Terminal, and the child's status becomes nil, against `duplex.ex:139-140`.

## 5. Proofs

For all values of the constants under their named assumptions (the child is one of
the processes; pump names are not event names; requests have the request type;
bounds are natural; a window exceeds a line, which is what option validation
enforces; the holder of a free lock and another program are not handles; pids are positive;
the streams are listed once each in the order in which the server serves them; a
request names at most one user and one group; a port holds at least one frame; the
pids of `Tracker` and the processes of `TrackedSupervisor` are finitely many, a group
can be retained and a frame can be queued):

* `SupervisorProofs`: `TypeCorrect`; `ConfirmedExitIsTrue`; `SurvivorsAreSignalled`.
  The properties are not inductive. What makes them so says who may be alive at
  each stage: after TERM expired the whole group is doomed (`SweptInv`), with a
  cgroup whose `cgroup.kill` works everything living is doomed after the sweep, and with
  any cgroup nothing is left once it was seen empty (`CgroupInv`), a report carries the verdicts it was
  computed from (`ExitInv`), and the leader never leaves its group, so the group is
  alive until it was reaped (`LeaderInv`). Doomed processes do not fork, which
  carries all of it across the steps of the operating system.
  There too: `UntruncatedExitIsComplete`, from an invariant that ties
  collected pumps to finished ones and finished ones to empty pipes without
  holders unless output was declared truncated or the peer is gone (`OutputInv`,
  `PeerInv`); `SupervisorImplementsContract`, one step per action, each mapped to an
  action of the contract or a stutter; `NoSignalToDeadGroup`.
* `PortOwnersProofs`, first part, about `CreditFlow`: `CreditTypeCorrect`,
  `CreditConserved`, `MemoryIsBounded`, `DemandNeverStarves`, from conservation and from
  the fact that a demand is made only with no line queued (`CreditInv`, `DemandInv`).
* `PortOwnersProofs`, second part, about `PortOwners`, for any requests: scripts, windows,
  limits, timers and faults. All of it rests on `CoreInv`: types, the limits of what is kept,
  what each place of an owner implies (an owner that receives has no exit yet; a stream goes
  on after a kill only to raise an error), and a pump at its end has read what an ended
  child wrote.
  `CloseIsFinal` (`NothingLeftBehind`): the EXIT of a closed port is the last thing on its
  wire and `guard_closed` the last message of its guard, which is gone by then (`LinkInv`).
  `BoundsAreKept` (`BoundsKept`): the budget, the credit under way and the bytes under way
  sum to no more than the window, and for a stream's stdout to no more than its
  `outstanding` (`BudgetInv`): each step moves units from one term to another. The sum of a
  queue is the number of its units, so that the lemmas about a longer and a shorter queue
  need no induction (`TotalAppend`, `TotalTail`, `TotalPrefix`).
  `CompleteIsWhole` (`CompleteMeansWhole`): every queue on the route has marks that number
  its bytes through, a report without a truncation mark stands where all was read
  (`Chain`), and what a faithful owner holds, unfinished line included, ends where its
  mailbox begins (`RouteInv`). So a final report that reaches a faithful owner tells that it
  holds everything. What cuts the route (a close, a driver error, the owner's death) cuts the
  report off first; what throws bytes away makes the owner unfaithful. What the report told
  stays true: the child has ended and nobody writes again (`EvidenceInv`).
* `LockProofs`: `LockTypeCorrect`, `ReleasedLockIsFree`. Whoever has the lock is a shim
  in `locked` or `waiting`, so a confirmed release must come after the shim's end. It
  does because only the port tells of that end and tells it once it happened
  (`WireInv`), and because a guard that went without it refused, lost its owner or timed
  out (`GuardInv`); a refusal answers an acquire and never a release (`RefusedInv`).

* `DuplexProofs`, first part, about `PullSession`, for any callers, streams, scripts and
  windows. All of it rests on `Core`: types; a call has a ticket of its own and a timer
  message is of a past call (`TicketInv`); a held recv has nothing to be answered with
  (`WaiterInv`); the evidence is recorded with the end and published with the stop
  (`EvidenceInv`); received, read and written never overtake one another (`OutputInv`);
  while the session serves, the wire holds exactly what was read and not received, in
  order (`DataInv`), and EXIT and `exit_status` come behind all of it (`EndInv`,
  `EndFramesInv`).
  `SessionIsConsistent` and `TimeoutsAreOwn` follow from it. `SessionConsistent` alone is
  not inductive: that a timer answers its own caller needs the tickets, and that a
  session with an end has lines queued needs that a held call has none.
  `LinesAreIntact`: what is received and in no line has no newline (`RestInv`), so the
  newlines of the next frame, put in order (`Ascending`), cut it into lines that begin
  where the last one ended. The sum of lines is the set of their addresses, and that the
  newlines of a frame can be listed in order is proved from the well-foundedness of
  finite sets, without induction over the output.
  `CompleteIsRead`: EXIT without truncation comes behind the last frame of pumps at the
  end of their files, the session flushes what is left and stops only once nothing is
  queued, so all the child wrote is in lines and the lines are handed out (`ReadInv`).
  `PullImplementsCreditFlow`: what is granted and not received is the shim's budget, the
  permits on their way to it and what it has read (`CreditInv`); permits, bytes in
  transit and queued bytes are counted as cardinalities of sets. Then `PumpForward` maps
  to `Read`, a frame's arrival to `Receive`, a held recv to `Demand`, its own timeout to
  `Withdraw`, a taken line to `Take`, the end to `Flush` or `FlushAnswer`, whatever stops
  the session to `Close`, and every other step to a stutter.
* `DuplexProofs`, second part, about `DuplexInput`: `InputTypeCorrect`, `EofIsTheEnd`,
  `InputImplementsOrder`. The invariant says where an EOF can be: last in the queue, or
  sent with nothing queued behind it, and in both cases stdin is closed (`QueueInv`). So a
  flush never sends past an EOF and an expiry that reopens stdin has taken the only one.
  Each step then maps to a step of `OrderedInput` or a stutter.
* `RecordedGroupsProofs`: `GroupsTypeCorrect`, `SeenReuseIsLeftAlone`,
  `StopReportsAreHonest`. The living members of a recorded group do not grow without a
  fork in it or a takeover of its id, so those a listing has passed over or read as dead
  stay dead unless the group forked; a process that stopped leading never leads again;
  and entries from `at` on are what the last stage left, so a stage reaches each of them.
* `StartupProofs`: `StartupTypeCorrect`, `PrivilegeIsKeptToTheEnd`,
  `ProgramRunsAsAsked`, `ErrorsNameTheirStage`, `FailedStartIsClean`. Whom the child is
  follows from the steps it has taken, and a step is taken only when every needed one
  before it was; the shim's place, the child's life and what `std` heard go together,
  and a report in the pipe names the step that failed.

* `TrackedSupervisorProofs`: `TrackedTypeCorrect`, `HistoryIsKept`,
  `KnownSurvivorsAreKilled`, `TrackedImplementsContract`. As long as BEAM and frame writer
  are there, a group found is announced, queued, waiting for the ending to queue it, or
  its loss is on record, and nothing waits once EXIT may be written (`HistoryInv`). What a
  scan found has been born, so no later process takes its place, and the final scan finds
  all that lives of it (`SurvivorInv`). Whoever reports the BEAM's departure is right
  (`PeerInv`), and a confirmation is reported only after the child was reaped
  (`ConfirmedInv`); with these each step maps to one of the contract or a stutter.

* `TrackerProofs`: `TrackerInventorySound`, `TrackerSparesStrangers`, `TrackerSurvivors`,
  `TrackerNoticeFirst`, all from one invariant (`TrackerInvariant`), whose parts TLC checked
  before they were proved. *Kernel*: the parent of a process is alive or the shim, and
  whoever follows parents from a living descendant comes to the shim (`FamilyEnds`), so
  the shim has a child whenever a descendant lives (`ShimHasChild`). *Identities*: each
  one in a record, the queue, a group or a member was a descendant and is of no future
  incarnation (`KnownInv`); with the check before each signal that keeps strangers out, a
  group's included, since a stranger leads its own group. *Scan*: from the read of the
  shim's children on, an undisturbed scan holds a record of a living descendant or has yet
  to look at one (`ScanInv`); exits, failing reads and a full inventory are all that ends
  it. *Rounds*: so each round that finds nothing beside a living descendant had an exit
  (`SlipInv`). *Notice*: whoever can be reached in the name of a group or member in the
  stages TERM or KILL is warned (`WarnedInv`): a fork and a change of group hand the notice
  on, a takeover of the pid ends it, and a stage cut short by the deadline is uncertain.

Every invariant, action property and refinement that a passing run checks is stated by
one of these theorems. Left to TLC: the liveness properties, which need fairness and
`ENABLED` and are out of the provers' reach.

## 6. Not modelled

JSON and the layout of frames (pure encodings; what a short, huge or empty frame does to a
start is in `Startup`), name lookups and the wording of errors, option validation, results and
the delegating public API, and the build-time download: no state that two steps share.

Left out of modules that exist, beyond what section 2 lists:

* `RecordedGroups`: macOS; a group whose leader is gone and whose id is taken over between
  a listing and its second reads; a process that rejoins by `setpgid`; `/proc` mounted with
  `hidepid`; the overflow at `MAX_PROCESSES`. A read that fails once ends the escalation of
  its entry as `unknown`, without KILL: `StopReportHonest` speaks of stops without failed calls.
* `Startup`: a pty clone that fails after an untracked child was started, which leaves it
  running (excepted by name in `FailedStartLeavesNothing`); a crash of the shim during
  start-up.
* `Supervisor`, `Startup`: processes in cgroups nested in the child's.
* `PortGuard`: a shim that reads its SPAWN frame from a pipe whose other end is closed by
  then. It starts a child and meets the end of file: `PeerLossEndsAll` of `Supervisor`,
  whose initial state has the child and whose port may close at once.
* `DuplexInput`: delivery of lines as messages and the retained Terminal.
* `PullSession`: callers that die while held. Their line is lost and others hear `:busy`.

## 7. Plan

Done, in this order because the rest relies on it: the kill sequence and the output
drain, the credit discipline, the pull session, descendant tracking with the start-up
of tracked runs, the port guard with run, stream and daemon, the lock, child input as
callers see it, recorded groups, the start-up with its set-up steps; and the proofs of
all their safety properties. Next:

1. Message delivery: lines in order to the owner, one Terminal, its retention.
2. A caller that dies while its recv is held, and what becomes of the line it is sent.

New properties take the place of weaker ones, or join a run whose model already has
the states: each run stays small enough to be checked in a minute or two.
