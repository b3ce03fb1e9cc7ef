-------------------------- MODULE SupervisorProofs --------------------------
(***************************************************************************)
(* Theorems about Supervisor for every set of processes, every pump set    *)
(* and every request: type correctness, the truth of a confirmed EXIT, the *)
(* absence of unsignalled survivors, and that it implements ShimContract.  *)
(***************************************************************************)
EXTENDS Supervisor, SequenceTheorems, TLAPS

LEMMA EventAppended ==
  ASSUME NEW e \in Event, events \in Seq(Event)
  PROVE  Append(events, e) \in Seq(Event)
BY AppendProperties

LEMMA EventTaken ==
  ASSUME NEW e, events \in Seq(Event), Take(e)
  PROVE  e \in Event /\ events' \in Seq(Event)
BY HeadTailProperties DEF Take

\* The type invariant of the supervisor.
THEOREM TypeCorrect == Spec => []TypeOK
<1>1. Init => TypeOK
  <2> SUFFICES ASSUME Init PROVE TypeOK
    OBVIOUS
  <2>1. events \in Seq(Event) /\ exits \in SUBSET Report
    BY DEF Init
  <2>2. pump \in [Pumps -> {"park", "read", "drain", "hand", "done"}]
    BY DEF Init, Idle
  <2>3. proc \in [Procs -> {"absent", "group", "escaped", "zombie", "dead"}]
    BY DEF Init
  <2>4. pipe \in [Pumps -> Nat] /\ credit \in [Pumps -> Nat]
    BY DEF Init
  <2>5. timer \in {"off", "armed", "fired"}
    BY DEF Init
  <2> QED
    BY <2>1, <2>2, <2>3, <2>4, <2>5, LeaderAssumption, BoundAssumption
    DEF Init, TypeOK
<1>2. TypeOK /\ [Next]_vars => TypeOK'
  <2> SUFFICES ASSUME TypeOK, [Next]_vars PROVE TypeOK'
    OBVIOUS
  <2> USE DEF TypeOK, osVars, beamVars, threadVars, flagVars, verdictVars, pumpVars
  <2>1. CASE System
    <3>1. ASSUME NEW p \in Procs, NEW q \in Procs, Fork(p, q) PROVE TypeOK'
      BY <3>1 DEF Fork
    <3>2. ASSUME NEW p \in Procs, Escape(p) PROVE TypeOK'
      BY <3>2 DEF Escape
    <3>3. ASSUME NEW p \in Procs, CloseOutput(p) PROVE TypeOK'
      BY <3>3 DEF CloseOutput
    <3>4. ASSUME NEW p \in Procs, Die(p) PROVE TypeOK'
      BY <3>4 DEF Die
    <3>5. ASSUME NEW p \in Procs, NEW s \in Pumps, WriteOutput(p, s) PROVE TypeOK'
      BY <3>5 DEF WriteOutput
    <3> QED BY <2>1, <3>1, <3>2, <3>3, <3>4, <3>5 DEF System
  <2>2. CASE Beam
    <3>1. "KILL" \in Event /\ Pumps \subseteq Event
      BY DEF Event
    <3>2. CASE SendKill
      BY <3>1, <3>2, EventAppended DEF SendKill
    <3>3. CASE ClosePort
      BY <3>3 DEF ClosePort
    <3>4. ASSUME NEW s \in Pumps, SendCredit(s) PROVE TypeOK'
      BY <3>1, <3>4, EventAppended DEF SendCredit
    <3> QED BY <2>2, <3>2, <3>3, <3>4 DEF Beam
  <2>3. CASE Threads
    <3>1. {"CLOSED", "EXITED", "TIMEOUT"} \subseteq Event
      BY DEF Event
    <3>2. CASE ReaderEof
      BY <3>1, <3>2, EventAppended DEF ReaderEof
    <3>3. CASE WaiterReap
      BY <3>3, LeaderAssumption DEF WaiterReap
    <3>4. CASE WaiterSend
      BY <3>1, <3>4, EventAppended DEF WaiterSend
    <3>5. CASE TimerFire
      BY <3>1, <3>5, EventAppended DEF TimerFire
    <3>6. ASSUME NEW s \in Pumps, PumpPermit(s) PROVE TypeOK'
      <4>1. pump' \in [Pumps -> {"park", "read", "drain", "hand", "done"}]
        BY <3>6 DEF PumpPermit
      <4> QED BY <3>6, <4>1 DEF PumpPermit
    <3>7. ASSUME NEW s \in Pumps, PumpRead(s) PROVE TypeOK'
      BY <3>7 DEF PumpRead
    <3>8. ASSUME NEW s \in Pumps, PumpEof(s) PROVE TypeOK'
      BY <3>8 DEF PumpEof
    <3>9. ASSUME NEW s \in Pumps, PumpWrite(s) PROVE TypeOK'
      BY <3>9 DEF PumpWrite, Idle
    <3> QED BY <2>3, <3>2, <3>3, <3>4, <3>5, <3>6, <3>7, <3>8, <3>9 DEF Threads
  <2>4. CASE Loop
    <3>1. ASSUME NEW s \in Pumps, LoopCredit(s) PROVE TypeOK'
      BY <3>1, EventTaken DEF LoopCredit, Grant
    <3>2. ASSUME NEW e \in {"KILL", "CLOSED", "TIMEOUT"}, LoopEnd(e) PROVE TypeOK'
      BY <3>2, EventTaken DEF LoopEnd, FirstSignal
    <3>3. CASE LoopExited
      BY <3>3, EventTaken DEF LoopExited, FirstSignal
    <3> QED BY <2>4, <3>1, <3>2, <3>3 DEF Loop
  <2>5. CASE Sweep
    <3>1. ASSUME NEW c \in BOOLEAN, FinishSweep(c) PROVE TypeOK'
      BY <3>1 DEF FinishSweep, CgroupKill, Living
    <3>2. CASE IntExpired
      BY <3>2 DEF IntExpired
    <3>3. CASE TermExpired
      BY <3>3 DEF TermExpired, Group
    <3> QED BY <2>5, <3>1, <3>2, <3>3 DEF Sweep, SweepConfirmed, KillExpired
  <2>6. CASE Strict
    <3>1. ASSUME NEW s \in Pumps, StrictCredit(s) PROVE TypeOK'
      BY <3>1, EventTaken DEF StrictCredit, Grant
    <3>2. CASE StrictDrained \/ StrictPeerGone \/ StrictPoll \/ StrictRetry
      BY <3>2 DEF StrictDrained, StrictPeerGone, StrictPoll, StrictRetry, Cancel
    <3>3. CASE StrictKill
      BY <3>3, EventTaken DEF StrictKill, Cancel
    <3>4. CASE StrictClosed \/ StrictIgnore
      BY <3>4, EventTaken DEF StrictClosed, StrictIgnore, Cancel
    <3> QED BY <2>6, <3>1, <3>2, <3>3, <3>4 DEF Strict
  <2>7. CASE Ending
    <3>1. CASE Teardown
      BY <3>1 DEF Teardown, CgroupKill, Living
    <3>2. CASE CgroupWait
      BY <3>2 DEF CgroupWait
    <3>3. CASE SettleGone \/ SettleDrain
      BY <3>3, RequestAssumption DEF SettleGone, SettleDrain, Cancel, Request
    <3>4. CASE BoundedDrained \/ LingerPeerGone
      BY <3>4 DEF BoundedDrained, LingerPeerGone
    <3>5. CASE WriteExit
      BY <3>5, RequestAssumption DEF WriteExit, Report, Request
    <3>6. ASSUME NEW s \in Pumps, Collect(s) PROVE TypeOK'
      BY <3>6 DEF Collect
    <3>7. ASSUME NEW e \in Event, LingerEvent(e) PROVE TypeOK'
      BY <3>7, EventTaken DEF LingerEvent
    <3>8. CASE BoundedExpired
      BY <3>8 DEF BoundedExpired
    <3> QED BY <2>7, <3>1, <3>2, <3>3, <3>4, <3>5, <3>6, <3>7, <3>8 DEF Ending
  <2>8. CASE Finished \/ UNCHANGED vars
    BY <2>8 DEF Finished, vars
  <2> QED BY <2>1, <2>2, <2>3, <2>4, <2>5, <2>6, <2>7, <2>8 DEF Next
<1> QED BY <1>1, <1>2, PTL DEF Spec

-----------------------------------------------------------------------------
(* The kill discipline.                                                    *)

\* The session leader dies in its group.
LeaderInv == proc[Leader] \in {"group", "zombie", "dead"}

\* A sweep of the group has returned.
Swept == pc \notin {"int", "term", "kill"} /\ (pc = "loop" => started)

\* The cgroup, if any, was killed; it was also waited for.
TornDown == pc \in {"settle", "bounded", "strict", "polled", "report", "linger", "gone"}

\* What a sweep leaves behind is dead or has a SIGKILL pending, and stays so:
\* a doomed process does not fork, and nobody joins a group from outside.
SweptInv ==
  /\ Swept /\ groupOk => ~GroupAlive
  /\ Swept \/ pc = "kill" => Group \subseteq doomed

\* The same for a cgroup whose cgroup.kill works: it holds the escaped
\* descendants too.  A cgroup seen empty stays empty, however it came about.
CgroupInv ==
  /\ req.contained /\ req.killWorks /\ (TornDown \/ pc = "cgroup") => Living \subseteq doomed
  /\ req.contained /\ TornDown /\ cgroupOk => Living = {}

\* EXIT is the last word: it reports verdicts that no later step revises.
ExitInv ==
  \A r \in exits : /\ pc \in {"linger", "gone"}
                   /\ r.confirmed => groupOk /\ cgroupOk
                   /\ r.contained = req.contained

CleanupInv == SweptInv /\ CgroupInv /\ ExitInv

-----------------------------------------------------------------------------
(* Preservation of LeaderInv and CleanupInv.                               *)

\* Only the operating system and the waiter change the life of a process.
LEMMA OnlySystemKills ==
  ASSUME Next, ~System, ~WaiterReap PROVE UNCHANGED proc
<1> USE DEF osVars
<1>1. CASE Beam \/ Finished
  BY <1>1 DEF Beam, SendKill, SendCredit, ClosePort, Finished, vars
<1>2. CASE Threads
  BY <1>2 DEF Threads, ReaderEof, WaiterSend, TimerFire, PumpPermit, PumpRead,
              PumpEof, PumpWrite
<1>3. CASE Loop \/ Sweep
  BY <1>3 DEF Loop, LoopCredit, LoopEnd, LoopExited, Sweep, SweepConfirmed,
              IntExpired, TermExpired, KillExpired, FinishSweep
<1>4. CASE Strict
  BY <1>4 DEF Strict, StrictDrained, StrictPeerGone, StrictKill, StrictClosed,
              StrictIgnore, StrictPoll, StrictRetry, StrictCredit
<1>5. CASE Ending
  BY <1>5 DEF Ending, Teardown, CgroupWait, SettleGone, SettleDrain, Collect,
              BoundedDrained, BoundedExpired, WriteExit, LingerPeerGone, LingerEvent
<1> QED BY <1>1, <1>2, <1>3, <1>4, <1>5 DEF Next

LEMMA LeaderStays == Spec => []LeaderInv
<1>1. Init => LeaderInv
  BY LeaderAssumption DEF Init, LeaderInv
<1>2. TypeOK /\ LeaderInv /\ [Next]_vars => LeaderInv'
  <2> SUFFICES ASSUME TypeOK, LeaderInv, [Next]_vars PROVE LeaderInv'
    OBVIOUS
  <2> USE LeaderAssumption DEF TypeOK, LeaderInv
  <2>1. CASE System
    BY <2>1 DEF System, Fork, Escape, CloseOutput, Die, WriteOutput
  <2>2. CASE WaiterReap
    BY <2>2 DEF WaiterReap
  <2>3. CASE UNCHANGED proc
    BY <2>3
  <2> QED BY <2>1, <2>2, <2>3, OnlySystemKills DEF vars, osVars
<1> QED BY <1>1, <1>2, TypeCorrect, PTL DEF Spec

LEMMA CleanupInit == Init => CleanupInv
BY RequestAssumption
DEF Init, CleanupInv, SweptInv, CgroupInv, ExitInv, Swept, TornDown

\* Steps that touch no process, no verdict and not the supervisor's place.
LEMMA CleanupQuiet ==
  ASSUME CleanupInv,
         UNCHANGED <<req, proc, doomed, pc, started, groupOk, cgroupOk, exits>>
  PROVE  CleanupInv'
BY DEF CleanupInv, SweptInv, CgroupInv, ExitInv, Swept, TornDown, Group,
       Living, GroupAlive

\* Steps of the drain after teardown.
LEMMA CleanupDrain ==
  ASSUME CleanupInv,
         UNCHANGED <<req, proc, doomed, groupOk, cgroupOk, exits>>,
         TornDown, TornDown', pc \in {"linger", "gone"} => pc' \in {"linger", "gone"}
  PROVE  CleanupInv'
<1>1. Swept /\ Swept'
  BY DEF TornDown, Swept
<1>2. SweptInv'
  BY <1>1 DEF CleanupInv, SweptInv, Group, GroupAlive
<1>3. CgroupInv'
  BY DEF CleanupInv, CgroupInv, Living
<1>4. ExitInv'
  BY DEF CleanupInv, ExitInv
<1> QED BY <1>2, <1>3, <1>4 DEF CleanupInv

LEMMA CleanupSystem == TypeOK /\ LeaderInv /\ CleanupInv /\ System => CleanupInv'
<1> SUFFICES ASSUME TypeOK, LeaderInv, CleanupInv, System PROVE CleanupInv'
  OBVIOUS
<1>0. DOMAIN proc = Procs
  BY DEF TypeOK
<1> USE DEF CleanupInv, beamVars, threadVars, flagVars, verdictVars, pumpVars
<1>1. ASSUME NEW p \in Procs, NEW q \in Procs, Fork(p, q) PROVE CleanupInv'
  <2> USE <1>1 DEF Fork, Active
  <2>1. UNCHANGED <<req, doomed, pc, started, groupOk, cgroupOk, exits>>
    OBVIOUS
  <2>2. p \in Living /\ p \notin doomed
    OBVIOUS
  <2>3. \A x \in Procs : proc'[x] # proc[x] => x = q /\ proc'[x] = proc[p]
    BY <1>0 DEF Living
  <2>4. SweptInv'
    BY <2>1, <2>2, <2>3 DEF SweptInv, Swept, Group, GroupAlive, Living
  <2>5. CgroupInv'
    BY <2>1, <2>2, <2>3 DEF CgroupInv, TornDown, Living
  <2>6. ExitInv'
    BY <2>1 DEF ExitInv
  <2> QED BY <2>4, <2>5, <2>6
<1>2. ASSUME NEW p \in Procs, Escape(p) PROVE CleanupInv'
  <2> USE <1>2 DEF Escape
  <2>1. SweptInv'
    BY DEF SweptInv, Swept, Group, GroupAlive
  <2>2. CgroupInv'
    BY DEF CgroupInv, TornDown, Living
  <2>3. ExitInv'
    BY DEF ExitInv
  <2> QED BY <2>1, <2>2, <2>3
<1>3. ASSUME NEW p \in Procs, CloseOutput(p) PROVE CleanupInv'
  BY <1>3, CleanupQuiet DEF CloseOutput
<1>4. ASSUME NEW p \in Procs, Die(p) PROVE CleanupInv'
  <2>1. UNCHANGED <<req, pc, started, groupOk, cgroupOk, exits>> /\ doomed' = doomed \ {p}
    BY <1>4 DEF Die
  <2>2. proc'[p] \in {"zombie", "dead"} /\ proc[p] \in {"group", "escaped"}
        /\ (proc'[p] = "zombie" => p = Leader)
        /\ \A x \in Procs \ {p} : proc'[x] = proc[x]
    BY <1>0, <1>4 DEF Die, Living
  <2>3. Living' \subseteq Living \ {p} /\ Group' \subseteq Group \ {p}
    BY <2>2 DEF Living, Group
  <2>4. Swept /\ groupOk => ~GroupAlive'
    <3> HAVE Swept /\ groupOk
    <3>1. \A x \in Procs : proc[x] \notin {"group", "zombie"}
      BY DEF SweptInv, GroupAlive
    <3>2. p # Leader
      BY <2>2, <3>1, LeaderAssumption DEF LeaderInv
    <3> QED BY <2>2, <3>1, <3>2 DEF GroupAlive
  <2>5. SweptInv'
    BY <2>1, <2>3, <2>4 DEF SweptInv, Swept
  <2>6. CgroupInv'
    BY <2>1, <2>3 DEF CgroupInv, TornDown
  <2>7. ExitInv'
    BY <2>1 DEF ExitInv
  <2> QED BY <2>5, <2>6, <2>7
<1>5. ASSUME NEW p \in Procs, NEW s \in Pumps, WriteOutput(p, s) PROVE CleanupInv'
  BY <1>5, CleanupQuiet DEF WriteOutput
<1> QED BY <1>1, <1>2, <1>3, <1>4, <1>5 DEF System

LEMMA CleanupOutside == CleanupInv /\ (Beam \/ Threads) => CleanupInv'
<1> SUFFICES ASSUME CleanupInv, Beam \/ Threads PROVE CleanupInv'
  OBVIOUS
<1> USE DEF osVars, beamVars, threadVars, flagVars, verdictVars, pumpVars
<1>1. CASE Beam
  BY <1>1, CleanupQuiet DEF Beam, SendKill, SendCredit, ClosePort
<1>2. CASE WaiterReap
  <2> USE <1>2 DEF WaiterReap
  <2>1. SweptInv'
    BY DEF CleanupInv, SweptInv, Swept, Group, GroupAlive
  <2>2. CgroupInv'
    BY DEF CleanupInv, CgroupInv, TornDown, Living
  <2>3. ExitInv'
    BY DEF CleanupInv, ExitInv
  <2> QED BY <2>1, <2>2, <2>3 DEF CleanupInv
<1>3. CASE ReaderEof \/ WaiterSend \/ TimerFire
  BY <1>3, CleanupQuiet DEF ReaderEof, WaiterSend, TimerFire
<1>4. CASE \E s \in Pumps : PumpPermit(s) \/ PumpRead(s) \/ PumpEof(s) \/ PumpWrite(s)
  BY <1>4, CleanupQuiet DEF PumpPermit, PumpRead, PumpEof, PumpWrite
<1> QED BY <1>1, <1>2, <1>3, <1>4 DEF Threads

LEMMA CleanupLoop == CleanupInv /\ Loop => CleanupInv'
<1> SUFFICES ASSUME CleanupInv, Loop PROVE CleanupInv'
  OBVIOUS
<1> USE DEF CleanupInv, osVars, beamVars, threadVars, flagVars, verdictVars, pumpVars
<1>1. ASSUME NEW s \in Pumps, LoopCredit(s) PROVE CleanupInv'
  BY <1>1, CleanupQuiet DEF LoopCredit
<1>2. ASSUME NEW e \in {"KILL", "CLOSED", "TIMEOUT"}, LoopEnd(e) PROVE CleanupInv'
  <2> USE <1>2 DEF LoopEnd, FirstSignal
  <2>1. SweptInv'
    BY DEF SweptInv, Swept, Group, GroupAlive
  <2>2. CgroupInv'
    BY DEF CgroupInv, TornDown, Living
  <2>3. ExitInv'
    BY DEF ExitInv
  <2> QED BY <2>1, <2>2, <2>3
<1>3. CASE LoopExited
  <2> USE <1>3 DEF LoopExited, FirstSignal
  <2>1. SweptInv'
    BY DEF SweptInv, Swept, Group, GroupAlive
  <2>2. CgroupInv'
    BY DEF CgroupInv, TornDown, Living
  <2>3. ExitInv'
    BY DEF ExitInv
  <2> QED BY <2>1, <2>2, <2>3
<1> QED BY <1>1, <1>2, <1>3 DEF Loop

LEMMA CleanupSweep == CleanupInv /\ Sweep => CleanupInv'
<1> SUFFICES ASSUME CleanupInv, Sweep PROVE CleanupInv'
  OBVIOUS
<1> USE DEF CleanupInv, osVars, beamVars, threadVars, flagVars, verdictVars, pumpVars
<1>1. ASSUME NEW c, FinishSweep(c), pc \in {"int", "term", "kill"},
             c => ~GroupAlive, Group \subseteq doomed
      PROVE  CleanupInv'
  <2> USE <1>1 DEF FinishSweep, CgroupKill
  <2>1. SweptInv'
    BY DEF SweptInv, Swept, Group, GroupAlive
  <2>2. CgroupInv'
    BY DEF CgroupInv, TornDown, Living
  <2>3. ExitInv'
    BY DEF ExitInv
  <2> QED BY <2>1, <2>2, <2>3
<1>2. CASE SweepConfirmed
  BY <1>1, <1>2 DEF SweepConfirmed, GroupAlive, Group
<1>3. CASE IntExpired
  <2> USE <1>3 DEF IntExpired
  <2>1. SweptInv'
    BY DEF SweptInv, Swept
  <2>2. CgroupInv'
    BY DEF CgroupInv, TornDown
  <2>3. ExitInv'
    BY DEF ExitInv
  <2> QED BY <2>1, <2>2, <2>3
<1>4. CASE TermExpired
  <2> USE <1>4 DEF TermExpired
  <2>1. SweptInv'
    BY DEF SweptInv, Swept, Group
  <2>2. CgroupInv'
    BY DEF CgroupInv, TornDown
  <2>3. ExitInv'
    BY DEF ExitInv
  <2> QED BY <2>1, <2>2, <2>3
<1>5. CASE KillExpired
  BY <1>1, <1>5 DEF KillExpired, SweptInv
<1> QED BY <1>2, <1>3, <1>4, <1>5 DEF Sweep

LEMMA CleanupStrict == CleanupInv /\ Strict => CleanupInv'
<1> SUFFICES ASSUME CleanupInv, Strict PROVE CleanupInv'
  OBVIOUS
<1>1. UNCHANGED <<req, proc, doomed, groupOk, cgroupOk, exits>>
  BY DEF Strict, StrictDrained, StrictPeerGone, StrictKill, StrictClosed,
         StrictIgnore, StrictPoll, StrictRetry, StrictCredit, osVars, verdictVars
<1>2. TornDown /\ TornDown' /\ pc \notin {"linger", "gone"}
  BY DEF Strict, StrictDrained, StrictPeerGone, StrictKill, StrictClosed,
         StrictIgnore, StrictPoll, StrictRetry, StrictCredit, TornDown
<1> QED BY <1>1, <1>2, CleanupDrain

LEMMA CleanupEnding == CleanupInv /\ Ending => CleanupInv'
<1> SUFFICES ASSUME CleanupInv, Ending PROVE CleanupInv'
  OBVIOUS
<1> USE DEF osVars, beamVars, threadVars, flagVars, verdictVars, pumpVars
<1>1. CASE Teardown
  <2> USE <1>1 DEF Teardown, CgroupKill, CleanupInv
  <2>1. SweptInv'
    BY DEF SweptInv, Swept, Group, GroupAlive
  <2>2. CgroupInv'
    BY DEF CgroupInv, TornDown, Living
  <2>3. ExitInv'
    BY DEF ExitInv
  <2> QED BY <2>1, <2>2, <2>3
<1>2. CASE CgroupWait
  <2> USE <1>2 DEF CgroupWait, CleanupInv
  <2>1. SweptInv'
    BY DEF SweptInv, Swept, Group, GroupAlive
  <2>2. CgroupInv'
    BY DEF CgroupInv, TornDown, Living
  <2>3. ExitInv'
    BY DEF ExitInv
  <2> QED BY <2>1, <2>2, <2>3
<1>3. CASE WriteExit
  <2> USE <1>3 DEF WriteExit, CleanupInv
  <2>1. SweptInv'
    BY DEF SweptInv, Swept, Group, GroupAlive
  <2>2. CgroupInv'
    BY DEF CgroupInv, TornDown, Living
  <2>3. exits = {}
    BY DEF ExitInv
  <2> DEFINE report == [confirmed |-> groupOk /\ cgroupOk,
                        contained |-> req.contained,
                        timedOut |-> timedOut, truncated |-> truncated]
  <2>4. exits' \subseteq {report}
    BY <2>3, Zenon
  <2>5. (report.confirmed => groupOk /\ cgroupOk) /\ report.contained = req.contained
    BY Zenon
  <2>6. \A r \in exits' : /\ r.confirmed => groupOk /\ cgroupOk
                          /\ r.contained = req.contained
    BY <2>4, <2>5, Zenon
  <2>7. pc' \in {"linger", "gone"}
    OBVIOUS
  <2>8. ExitInv'
    BY <2>6, <2>7 DEF ExitInv
  <2> QED BY <2>1, <2>2, <2>8
<1>4. CASE SettleGone \/ SettleDrain \/ BoundedDrained \/ BoundedExpired
  BY <1>4, CleanupDrain
  DEF SettleGone, SettleDrain, BoundedDrained, BoundedExpired, TornDown
<1>5. ASSUME NEW s \in Pumps, Collect(s) PROVE CleanupInv'
  BY <1>5, CleanupDrain DEF Collect, TornDown
<1>6. CASE LingerPeerGone
  BY <1>6, CleanupDrain DEF LingerPeerGone, TornDown
<1>7. ASSUME NEW e \in Event, LingerEvent(e) PROVE CleanupInv'
  BY <1>7, CleanupDrain DEF LingerEvent, TornDown
<1> QED BY <1>1, <1>2, <1>3, <1>4, <1>5, <1>6, <1>7 DEF Ending

LEMMA CleanupInductive == Spec => []CleanupInv
<1>1. TypeOK /\ LeaderInv /\ CleanupInv /\ [Next]_vars => CleanupInv'
  <2> SUFFICES ASSUME TypeOK, LeaderInv, CleanupInv, [Next]_vars PROVE CleanupInv'
    OBVIOUS
  <2>1. CASE Finished \/ UNCHANGED vars
    BY <2>1, CleanupQuiet DEF Finished, vars, osVars, flagVars, verdictVars
  <2> QED
    BY <2>1, CleanupSystem, CleanupOutside, CleanupLoop, CleanupSweep,
       CleanupStrict, CleanupEnding DEF Next
<1> QED BY <1>1, CleanupInit, TypeCorrect, LeaderStays, PTL DEF Spec

\* A confirmed EXIT is true: the group is dead and, in a cgroup, so is every
\* descendant, whatever forked, escaped or ignored signals on the way.
THEOREM ConfirmedExitIsTrue == Spec => []ConfirmedMeansDead
<1>1. CleanupInv => ConfirmedMeansDead
  BY DEF CleanupInv, SweptInv, CgroupInv, ExitInv, Swept, TornDown,
         ConfirmedMeansDead
<1> QED BY <1>1, CleanupInductive, PTL

\* Past the sweep, nobody in the group is alive without a SIGKILL, nor in the
\* cgroup unless a cgroup.kill failed; then the cgroup is not called empty.
THEOREM SurvivorsAreSignalled == Spec => []NoSurvivorUnsignalled
<1>1. CleanupInv => NoSurvivorUnsignalled
  BY DEF CleanupInv, SweptInv, CgroupInv, Swept, TornDown, NoSurvivorUnsignalled
<1> QED BY <1>1, CleanupInductive, PTL

-----------------------------------------------------------------------------
(* What the BEAM may conclude: an EXIT without output_truncated means      *)
(* complete output, a group seen dead is not signalled again, and the shim *)
(* implements ShimContract.                                                *)

\* A pump's completion is honest unless the output was given up, and giving
\* up is recorded before EXIT.
OutputInv ==
  /\ \A s \in collected : pump[s] = "done"
  /\ \A s \in Pumps : pump[s] = "done" =>
       (pipe[s] = 0 /\ holders = {}) \/ gate = "cancelled" \/ port = "closed"
  /\ gate = "cancelled" =>
       pc = "gone" \/ (truncated /\ pc \in {"bounded", "report", "linger"})
  /\ pc = "report" /\ ~truncated => collected = Pumps

LEMMA OutputInit == Init => OutputInv
BY DEF Init, OutputInv, Idle

\* Steps that touch neither the pumps, nor the pipes, nor the verdict.
LEMMA OutputQuiet ==
  ASSUME OutputInv, UNCHANGED <<collected, pump, pipe, holders, gate, truncated, pc>>,
         port' \in {port, "closed"}
  PROVE  OutputInv'
BY DEF OutputInv

\* Steps of the loop and of the sweep: output is not yet given up.
LEMMA OutputBefore ==
  ASSUME OutputInv, UNCHANGED <<collected, pump, pipe, holders, gate, truncated, port>>,
         pc \in {"loop", "int", "term", "kill"}, pc' # "report"
  PROVE  OutputInv'
BY DEF OutputInv

LEMMA OutputSystem == TypeOK /\ OutputInv /\ System => OutputInv'
<1> SUFFICES ASSUME TypeOK, OutputInv, System PROVE OutputInv'
  OBVIOUS
<1> USE DEF beamVars, threadVars, flagVars, verdictVars, pumpVars
<1>1. ASSUME NEW p \in Procs, NEW q \in Procs, Fork(p, q) PROVE OutputInv'
  BY <1>1 DEF Fork, OutputInv
<1>2. ASSUME NEW p \in Procs, Escape(p) PROVE OutputInv'
  BY <1>2, OutputQuiet DEF Escape
<1>3. ASSUME NEW p \in Procs, CloseOutput(p) PROVE OutputInv'
  BY <1>3 DEF CloseOutput, OutputInv
<1>4. ASSUME NEW p \in Procs, Die(p) PROVE OutputInv'
  BY <1>4 DEF Die, OutputInv
<1>5. ASSUME NEW p \in Procs, NEW s \in Pumps, WriteOutput(p, s) PROVE OutputInv'
  BY <1>5 DEF WriteOutput, OutputInv, TypeOK
<1> QED BY <1>1, <1>2, <1>3, <1>4, <1>5 DEF System

LEMMA OutputOutside == TypeOK /\ OutputInv /\ (Beam \/ Threads) => OutputInv'
<1> SUFFICES ASSUME TypeOK, OutputInv, Beam \/ Threads PROVE OutputInv'
  OBVIOUS
<1> USE DEF osVars, beamVars, threadVars, flagVars, verdictVars, pumpVars
<1>1. CASE Beam
  BY <1>1, OutputQuiet DEF Beam, SendKill, SendCredit, ClosePort
<1>2. CASE ReaderEof \/ WaiterReap \/ WaiterSend \/ TimerFire
  BY <1>2, OutputQuiet DEF ReaderEof, WaiterReap, WaiterSend, TimerFire
<1>3. ASSUME NEW s \in Pumps, PumpPermit(s) PROVE OutputInv'
  <2>1. pump[s] = "park" /\ \A x \in Pumps \ {s} : pump'[x] = pump[x]
    BY <1>3 DEF PumpPermit, TypeOK
  <2>2. pump'[s] = "done" => gate = "cancelled"
    BY <1>3 DEF PumpPermit, TypeOK
  <2>3. UNCHANGED <<collected, pipe, holders, gate, port, truncated, pc>>
    BY <1>3 DEF PumpPermit
  <2> QED BY <2>1, <2>2, <2>3 DEF OutputInv, TypeOK
<1>4. ASSUME NEW s \in Pumps, PumpRead(s) PROVE OutputInv'
  BY <1>4 DEF PumpRead, OutputInv, TypeOK
<1>5. ASSUME NEW s \in Pumps, PumpEof(s) PROVE OutputInv'
  BY <1>5 DEF PumpEof, OutputInv, TypeOK
<1>6. ASSUME NEW s \in Pumps, PumpWrite(s) PROVE OutputInv'
  <2>1. pump[s] = "hand" /\ \A x \in Pumps \ {s} : pump'[x] = pump[x]
    BY <1>6 DEF PumpWrite, TypeOK
  <2>2. pump'[s] = "done" => port = "closed"
    BY <1>6 DEF PumpWrite, TypeOK, Idle
  <2>3. UNCHANGED <<collected, pipe, holders, gate, port, truncated, pc>>
    BY <1>6 DEF PumpWrite
  <2> QED BY <2>1, <2>2, <2>3 DEF OutputInv, TypeOK
<1> QED BY <1>1, <1>2, <1>3, <1>4, <1>5, <1>6 DEF Threads

LEMMA OutputLoop == OutputInv /\ (Loop \/ Sweep) => OutputInv'
<1> SUFFICES ASSUME OutputInv, Loop \/ Sweep PROVE OutputInv'
  OBVIOUS
<1> USE DEF osVars, beamVars, threadVars, flagVars, verdictVars, pumpVars
<1>1. CASE Loop
  BY <1>1, OutputBefore DEF Loop, LoopCredit, LoopEnd, LoopExited, FirstSignal
<1>2. CASE Sweep
  BY <1>2, OutputBefore DEF Sweep, SweepConfirmed, IntExpired, TermExpired,
                            KillExpired, FinishSweep
<1> QED BY <1>1, <1>2

LEMMA OutputStrict == OutputInv /\ Strict => OutputInv'
<1> SUFFICES ASSUME OutputInv, Strict PROVE OutputInv'
  OBVIOUS
<1>1. gate # "cancelled" /\ UNCHANGED <<collected, pump, pipe, holders, port>>
  BY DEF Strict, StrictDrained, StrictPeerGone, StrictKill, StrictClosed,
         StrictIgnore, StrictPoll, StrictRetry, StrictCredit, OutputInv, osVars,
         beamVars, verdictVars, pumpVars
<1>2. gate' = "cancelled" => pc' = "gone" \/ (truncated' /\ pc' = "bounded")
  BY <1>1 DEF Strict, StrictDrained, StrictPeerGone, StrictKill, StrictClosed,
         StrictIgnore, StrictPoll, StrictRetry, StrictCredit, pumpVars
<1>3. pc' = "report" => collected = Pumps
  BY DEF Strict, StrictDrained, StrictPeerGone, StrictKill, StrictClosed,
         StrictIgnore, StrictPoll, StrictRetry, StrictCredit
<1> QED BY <1>1, <1>2, <1>3 DEF OutputInv

LEMMA OutputEnding == TypeOK /\ OutputInv /\ Ending => OutputInv'
<1> SUFFICES ASSUME TypeOK, OutputInv, Ending PROVE OutputInv'
  OBVIOUS
<1> USE DEF osVars, beamVars, threadVars, flagVars, verdictVars, pumpVars, OutputInv
<1>1. CASE Teardown
  BY <1>1 DEF Teardown
<1>2. CASE CgroupWait
  BY <1>2 DEF CgroupWait
<1>3. CASE SettleGone
  BY <1>3 DEF SettleGone, Cancel
<1>4. CASE SettleDrain
  BY <1>4 DEF SettleDrain
<1>5. CASE BoundedDrained
  BY <1>5 DEF BoundedDrained
<1>6. CASE BoundedExpired
  BY <1>6 DEF BoundedExpired
<1>7. CASE WriteExit
  BY <1>7 DEF WriteExit
<1>8. CASE LingerPeerGone
  BY <1>8 DEF LingerPeerGone
<1>9. ASSUME NEW s \in Pumps, Collect(s) PROVE OutputInv'
  BY <1>9 DEF Collect
<1>10. ASSUME NEW e \in Event, LingerEvent(e) PROVE OutputInv'
  BY <1>10 DEF LingerEvent
<1> QED BY <1>1, <1>2, <1>3, <1>4, <1>5, <1>6, <1>7, <1>8, <1>9, <1>10 DEF Ending

LEMMA OutputInductive == Spec => []OutputInv
<1>1. TypeOK /\ OutputInv /\ [Next]_vars => OutputInv'
  <2> SUFFICES ASSUME TypeOK, OutputInv, [Next]_vars PROVE OutputInv'
    OBVIOUS
  <2>1. CASE Finished \/ UNCHANGED vars
    BY <2>1, OutputQuiet DEF Finished, vars, osVars, beamVars, verdictVars, pumpVars
  <2> QED BY <2>1, OutputSystem, OutputOutside, OutputLoop, OutputStrict,
             OutputEnding DEF Next
<1> QED BY <1>1, OutputInit, TypeCorrect, PTL DEF Spec

\* Once an untruncated EXIT was sent, nobody holds an output pipe, so no step
\* reopens one.
LEMMA CompleteStays ==
  ASSUME Next, TypeOK,
         \A s \in Pumps : pump[s] = "done" /\ pipe[s] = 0 /\ holders = {}
  PROVE  (\A s \in Pumps : pump[s] = "done" /\ pipe[s] = 0 /\ holders = {})'
<1> USE DEF osVars, beamVars, threadVars, flagVars, verdictVars, pumpVars
<1>1. CASE System
  BY <1>1 DEF System, Fork, Escape, CloseOutput, Die, WriteOutput
<1>2. CASE Beam \/ Finished
  BY <1>2 DEF Beam, SendKill, SendCredit, ClosePort, Finished, vars
<1>3. CASE Threads
  BY <1>3 DEF Threads, ReaderEof, WaiterReap, WaiterSend, TimerFire,
              PumpPermit, PumpRead, PumpEof, PumpWrite
<1>4. CASE Loop \/ Sweep
  BY <1>4 DEF Loop, LoopCredit, LoopEnd, LoopExited, Sweep, SweepConfirmed,
              IntExpired, TermExpired, KillExpired, FinishSweep
<1>5. CASE Strict
  BY <1>5 DEF Strict, StrictDrained, StrictPeerGone, StrictKill, StrictClosed,
              StrictIgnore, StrictPoll, StrictRetry, StrictCredit
<1>6. CASE Ending
  BY <1>6 DEF Ending, Teardown, CgroupWait, SettleGone, SettleDrain, Collect,
              BoundedDrained, BoundedExpired, WriteExit, LingerPeerGone, LingerEvent
<1> QED BY <1>1, <1>2, <1>3, <1>4, <1>5, <1>6 DEF Next

\* Only WriteExit delivers an EXIT.
LEMMA OnlyWriteExitReports ==
  ASSUME Next, ~WriteExit PROVE UNCHANGED exits
<1> USE DEF verdictVars
<1>1. CASE System \/ Beam \/ Finished
  BY <1>1 DEF System, Fork, Escape, CloseOutput, Die, WriteOutput, Beam,
              SendKill, SendCredit, ClosePort, Finished, vars
<1>2. CASE Threads
  BY <1>2 DEF Threads, ReaderEof, WaiterReap, WaiterSend, TimerFire,
              PumpPermit, PumpRead, PumpEof, PumpWrite
<1>3. CASE Loop \/ Sweep
  BY <1>3 DEF Loop, LoopCredit, LoopEnd, LoopExited, Sweep, SweepConfirmed,
              IntExpired, TermExpired, KillExpired, FinishSweep
<1>4. CASE Strict
  BY <1>4 DEF Strict, StrictDrained, StrictPeerGone, StrictKill, StrictClosed,
              StrictIgnore, StrictPoll, StrictRetry, StrictCredit
<1>5. CASE Ending
  BY <1>5 DEF Ending, Teardown, CgroupWait, SettleGone, SettleDrain, Collect,
              BoundedDrained, BoundedExpired, LingerPeerGone, LingerEvent
<1> QED BY <1>1, <1>2, <1>3, <1>4, <1>5 DEF Next

\* An EXIT without output_truncated comes after all output, however the
\* output was gated, cancelled, uncorked or cut off by the port's closing.
THEOREM UntruncatedExitIsComplete == Spec => []UntruncatedMeansComplete
<1>1. Init => UntruncatedMeansComplete
  BY DEF Init, UntruncatedMeansComplete
<1>2. TypeOK /\ CleanupInv /\ OutputInv /\ UntruncatedMeansComplete /\ [Next]_vars
        => UntruncatedMeansComplete'
  <2> SUFFICES ASSUME TypeOK, CleanupInv, OutputInv, UntruncatedMeansComplete, Next
               PROVE  UntruncatedMeansComplete'
    BY DEF UntruncatedMeansComplete, vars, osVars, verdictVars, pumpVars
  <2>1. CASE ~WriteExit
    BY <2>1, OnlyWriteExitReports, CompleteStays DEF UntruncatedMeansComplete
  <2>2. CASE WriteExit
    <3>1. exits = {} /\ pc = "report" /\ UNCHANGED <<pump, pipe, holders>>
      BY <2>2 DEF WriteExit, CleanupInv, ExitInv, pumpVars, osVars
    <3> DEFINE report == [confirmed |-> groupOk /\ cgroupOk,
                          contained |-> req.contained,
                          timedOut |-> timedOut, truncated |-> truncated]
    <3>2. exits' = IF port = "closed" THEN {} ELSE {report}
      BY <2>2, <3>1, Zenon DEF WriteExit
    <3>3. report.truncated = truncated
      BY Zenon
    <3>4. \A r \in exits' : port # "closed" /\ r.truncated = truncated
      BY <3>2, <3>3, Zenon
    <3>5. port # "closed" /\ ~truncated =>
            \A s \in Pumps : pump[s] = "done" /\ pipe[s] = 0 /\ holders = {}
      BY <3>1 DEF OutputInv
    <3> QED BY <3>1, <3>4, <3>5, Zenon DEF UntruncatedMeansComplete
  <2> QED BY <2>1, <2>2
<1> QED BY <1>1, <1>2, TypeCorrect, CleanupInductive, OutputInductive, PTL DEF Spec

-----------------------------------------------------------------------------
(* The refinement of ShimContract.                                         *)

\* The reader and the peer monitor report a departure that happened.
PeerInv ==
  /\ reader = "eof" \/ beamGone => port = "closed"
  /\ \A i \in 1..Len(events) : events[i] = "CLOSED" => port = "closed"


LEMMA PeerQueue ==
  ASSUME events \in Seq(Event), PeerInv, port' \in {port, "closed"},
         \/ UNCHANGED events
         \/ events # <<>> /\ events' = Tail(events)
         \/ \E e \in Event : /\ e = "CLOSED" => port = "closed"
                             /\ events' = Append(events, e)
  PROVE  \A i \in 1..Len(events') : events'[i] = "CLOSED" => port' = "closed"
<1>1. CASE UNCHANGED events
  BY <1>1 DEF PeerInv
<1>2. CASE events # <<>> /\ events' = Tail(events)
  <2>1. Len(events') = Len(events) - 1 /\ Len(events) \in Nat
        /\ \A i \in 1..Len(events') : events'[i] = events[i + 1]
    BY <1>2, HeadTailProperties
  <2> QED BY <2>1 DEF PeerInv
<1>3. ASSUME NEW e \in Event, e = "CLOSED" => port = "closed", events' = Append(events, e)
      PROVE  \A i \in 1..Len(events') : events'[i] = "CLOSED" => port' = "closed"
  <2>1. Len(events') = Len(events) + 1 /\ Len(events) \in Nat
        /\ events'[Len(events) + 1] = e
        /\ \A i \in 1..Len(events) : events'[i] = events[i]
    BY <1>3, AppendProperties
  <2> QED BY <1>3, <2>1 DEF PeerInv
<1> QED BY <1>1, <1>2, <1>3

LEMMA PeerStep == TypeOK /\ PeerInv /\ [Next]_vars => PeerInv'
<1> SUFFICES ASSUME TypeOK, PeerInv, [Next]_vars PROVE PeerInv'
  OBVIOUS
<1> USE DEF osVars, beamVars, threadVars, flagVars, verdictVars, pumpVars
<1>1. events \in Seq(Event)
  BY DEF TypeOK
<1>2. Pumps \cup {"KILL", "CLOSED", "TIMEOUT", "EXITED"} = Event /\ "CLOSED" \notin Pumps
  BY PumpAssumption DEF Event
<1>3. CASE System \/ Finished \/ UNCHANGED vars
  BY <1>3 DEF System, Fork, Escape, CloseOutput, Die, WriteOutput, Finished, vars, PeerInv
<1>4. CASE Beam
  <2>1. UNCHANGED <<reader, beamGone>> /\ port' \in {port, "closed"}
    BY <1>4 DEF Beam, SendKill, SendCredit, ClosePort
  <2>2. UNCHANGED events \/ \E e \in Event \ {"CLOSED"} : events' = Append(events, e)
    BY <1>2, <1>4 DEF Beam, SendKill, SendCredit, ClosePort
  <2> QED BY <1>1, <2>1, <2>2, PeerQueue DEF PeerInv
<1>5. CASE Threads
  <2>1. UNCHANGED <<port, beamGone>> /\ (reader' = "eof" => port = "closed")
    BY <1>5 DEF Threads, ReaderEof, WaiterReap, WaiterSend, TimerFire, PumpPermit,
                PumpRead, PumpEof, PumpWrite, PeerInv
  <2>2. UNCHANGED events
        \/ \E e \in Event : (e = "CLOSED" => port = "closed") /\ events' = Append(events, e)
    BY <1>2, <1>5 DEF Threads, ReaderEof, WaiterReap, WaiterSend, TimerFire,
                PumpPermit, PumpRead, PumpEof, PumpWrite
  <2> QED BY <1>1, <2>1, <2>2, PeerQueue DEF PeerInv
<1>6. ASSUME NEW e, Take(e), UNCHANGED <<reader, port>>,
             beamGone' => beamGone \/ e = "CLOSED"
      PROVE  PeerInv'
  <2>1. events # <<>> /\ events' = Tail(events) /\ events[1] = e
    BY <1>1, <1>6, HeadTailProperties DEF Take
  <2>2. Len(events) \in Nat /\ Len(events) >= 1
    BY <1>1, <2>1, EmptySeq, LenProperties
  <2>3. e = "CLOSED" => port = "closed"
    BY <2>1, <2>2 DEF PeerInv
  <2> QED BY <1>1, <1>6, <2>1, <2>3, PeerQueue DEF PeerInv
<1>7. CASE Loop
  <2>1. CASE \E s \in Pumps : LoopCredit(s)
    BY <1>6, <2>1 DEF LoopCredit
  <2>2. ASSUME NEW e \in {"KILL", "CLOSED", "TIMEOUT"}, LoopEnd(e) PROVE PeerInv'
    <3>1. Take(e) /\ UNCHANGED <<reader, port>>
      BY <2>2 DEF LoopEnd
    <3>2. beamGone' => beamGone \/ e = "CLOSED"
      BY <2>2, Zenon DEF LoopEnd
    <3> QED BY <1>6, <3>1, <3>2
  <2>3. CASE LoopExited
    BY <1>6, <2>3 DEF LoopExited
  <2> QED BY <1>7, <2>1, <2>2, <2>3 DEF Loop
<1>8. CASE Sweep
  BY <1>8 DEF Sweep, SweepConfirmed, IntExpired, TermExpired, KillExpired,
              FinishSweep, PeerInv
<1>9. CASE Strict
  <2>1. CASE \E s \in Pumps : StrictCredit(s)
    BY <1>6, <2>1 DEF StrictCredit
  <2>2. CASE StrictKill \/ StrictClosed \/ StrictIgnore
    BY <1>6, <2>2 DEF StrictKill, StrictClosed, StrictIgnore
  <2>3. CASE StrictDrained \/ StrictPeerGone \/ StrictPoll \/ StrictRetry
    BY <2>3 DEF StrictDrained, StrictPeerGone, StrictPoll, StrictRetry, PeerInv
  <2> QED BY <1>9, <2>1, <2>2, <2>3 DEF Strict
<1>10. CASE Ending
  <2>1. CASE \E e \in Event : LingerEvent(e)
    BY <1>6, <2>1 DEF LingerEvent
  <2>2. CASE ~\E e \in Event : LingerEvent(e)
    BY <1>10, <2>2 DEF Ending, Teardown, CgroupWait, SettleGone, SettleDrain, Collect,
                BoundedDrained, BoundedExpired, WriteExit, LingerPeerGone, PeerInv
  <2> QED BY <2>1, <2>2
<1> QED BY <1>3, <1>4, <1>5, <1>7, <1>8, <1>9, <1>10 DEF Next

LEMMA PeerInductive == Spec => []PeerInv
<1>1. Init => PeerInv
  BY DEF Init, PeerInv
<1> QED BY <1>1, PeerStep, TypeCorrect, PTL DEF Spec

\* The steps that end the shim's process.
Ends == \/ WriteExit \/ SettleGone \/ StrictPeerGone \/ StrictClosed
        \/ LingerPeerGone \/ LingerEvent("CLOSED")

\* The request never changes, only ClosePort touches the port, and the shim
\* ends once, in one of a few places.
LEMMA StepShape ==
  ASSUME Next
  PROVE  /\ UNCHANGED req /\ (ClosePort \/ UNCHANGED port)
         /\ pc = "gone" => pc' = "gone"
         /\ pc # "gone" /\ pc' = "gone" => Ends
<1> USE DEF osVars, beamVars, threadVars, flagVars, verdictVars, pumpVars, Ends
<1>1. CASE System \/ Beam \/ Finished
  BY <1>1 DEF System, Fork, Escape, CloseOutput, Die, WriteOutput, Beam,
              SendKill, SendCredit, ClosePort, Finished, vars
<1>2. CASE Threads
  BY <1>2 DEF Threads, ReaderEof, WaiterReap, WaiterSend, TimerFire,
              PumpPermit, PumpRead, PumpEof, PumpWrite
<1>3. CASE Loop
  BY <1>3 DEF Loop, LoopCredit, LoopEnd, LoopExited, FirstSignal
<1>4. CASE Sweep
  BY <1>4 DEF Sweep, SweepConfirmed, IntExpired, TermExpired, KillExpired, FinishSweep
<1>5. CASE Strict
  <2>1. UNCHANGED <<req, port>> /\ pc # "gone"
    BY <1>5 DEF Strict, StrictDrained, StrictPeerGone, StrictKill, StrictClosed,
                StrictIgnore, StrictPoll, StrictRetry, StrictCredit
  <2>2. pc' = "gone" => StrictPeerGone \/ StrictClosed
    BY <1>5 DEF Strict, StrictDrained, StrictKill, StrictIgnore, StrictPoll,
                StrictRetry, StrictCredit
  <2> QED BY <2>1, <2>2
<1>6. CASE Ending
  <2>1. CASE \E e \in Event : LingerEvent(e)
    <3> PICK e \in Event : LingerEvent(e)
      BY <2>1
    <3>1. pc = "linger" /\ UNCHANGED <<req, port>> /\ (pc' = "gone" => e = "CLOSED")
      BY DEF LingerEvent
    <3> QED BY <3>1
  <2>2. CASE ~\E e \in Event : LingerEvent(e)
    <3>1. UNCHANGED <<req, port>> /\ pc # "gone"
      BY <1>6, <2>2 DEF Ending, Teardown, CgroupWait, SettleGone, SettleDrain, Collect,
                BoundedDrained, BoundedExpired, WriteExit, LingerPeerGone
    <3>2. pc' = "gone" => WriteExit \/ SettleGone \/ LingerPeerGone
      BY <1>6, <2>2 DEF Ending, Teardown, CgroupWait, SettleDrain, Collect,
                BoundedDrained, BoundedExpired
    <3> QED BY <3>1, <3>2
  <2> QED BY <2>1, <2>2
<1> QED BY <1>1, <1>2, <1>3, <1>4, <1>5, <1>6 DEF Next

\* A CLOSED event at the head of the channel tells of a closed port.
LEMMA ClosedIsTrue ==
  ASSUME TypeOK, PeerInv, Take("CLOSED") PROVE port = "closed"
<1>1. events \in Seq(Event) /\ events # <<>> /\ events[1] = "CLOSED"
  BY HeadTailProperties DEF TypeOK, Take
<1>2. Len(events) \in Nat /\ Len(events) >= 1
  BY <1>1, EmptySeq, LenProperties
<1> QED BY <1>1, <1>2 DEF PeerInv

\* Without an EXIT, the shim ends only towards a BEAM that left.
LEMMA SilentEnd ==
  ASSUME TypeOK, PeerInv, Ends, ~WriteExit PROVE port = "closed"
<1>1. CASE SettleGone
  BY <1>1 DEF SettleGone, PeerInv
<1>2. CASE StrictPeerGone \/ LingerPeerGone
  BY <1>2 DEF StrictPeerGone, LingerPeerGone
<1>3. CASE StrictClosed \/ LingerEvent("CLOSED")
  BY <1>3, ClosedIsTrue DEF StrictClosed, LingerEvent
<1> QED BY <1>1, <1>2, <1>3 DEF Ends

\* Processes only end, as the contract sees them, and nothing it observes
\* besides changes with them.
LEMMA SystemRefines ==
  ASSUME TypeOK, LeaderInv, System \/ WaiterReap
  PROVE  Contract!ProcessesEnd \/ UNCHANGED Contract!vars
<1> USE DEF beamVars, threadVars, flagVars, verdictVars, pumpVars, osVars
<1>1. UNCHANGED <<req, port, exits, pc>>
  BY DEF System, Fork, Escape, CloseOutput, Die, WriteOutput, WaiterReap
<1>2. (GroupAlive' => GroupAlive) /\ (Living' # {} => Living # {})
  <2>1. CASE \E p, q \in Procs : Fork(p, q)
    BY <2>1 DEF Fork, Active, Living, GroupAlive, TypeOK
  <2>2. CASE \E p \in Procs : Escape(p)
    BY <2>2 DEF Escape, Active, Living, GroupAlive, TypeOK
  <2>3. CASE \E p \in Procs : CloseOutput(p) \/ \E s \in Pumps : WriteOutput(p, s)
    BY <2>3 DEF CloseOutput, WriteOutput, Living, GroupAlive
  <2>4. ASSUME NEW p \in Procs, Die(p)
        PROVE  (GroupAlive' => GroupAlive) /\ (Living' # {} => Living # {})
    <3>1. p \in Living /\ (p = Leader => proc[p] = "group")
      BY <2>4 DEF Die, LeaderInv, Living
    <3>2. /\ \A x \in Procs \ {p} : proc'[x] = proc[x]
          /\ p # Leader => proc'[p] = "dead"
      BY <2>4 DEF Die, TypeOK
    <3> QED BY <3>1, <3>2 DEF Living, GroupAlive
  <2>5. CASE WaiterReap
    BY <2>5, LeaderAssumption DEF WaiterReap, Living, GroupAlive, TypeOK
  <2> QED BY <2>1, <2>2, <2>3, <2>4, <2>5 DEF System
<1>3. UNCHANGED <<req.contained, port, {r.confirmed : r \in exits}, pc # "gone">>
  BY <1>1
<1>4. GroupAlive' \in {GroupAlive, FALSE} /\ (Living # {})' \in {Living # {}, FALSE}
  BY <1>2, Zenon DEF GroupAlive
<1> QED BY <1>3, <1>4 DEF Contract!ProcessesEnd

\* The shim implements its contract: each step is one of the contract's or
\* invisible to it.
THEOREM SupervisorImplementsContract == Spec => ImplementsContract
<1> USE DEF beamVars, threadVars, flagVars, verdictVars, pumpVars, osVars
<1>1. Init => Contract!Init
  <2> SUFFICES ASSUME Init PROVE Contract!Init
    OBVIOUS
  <2>1. req.contained \in BOOLEAN
    BY RequestAssumption DEF Init, Request
  <2>2. GroupAlive /\ Living # {}
    BY LeaderAssumption DEF Init, GroupAlive, Living
  <2> QED BY <2>1, <2>2 DEF Init, Contract!Init
<1>2. TypeOK /\ LeaderInv /\ CleanupInv /\ PeerInv /\ [Next]_vars
        => [Contract!Next]_(Contract!vars)
  <2> SUFFICES ASSUME TypeOK, LeaderInv, CleanupInv, PeerInv, [Next]_vars
               PROVE  Contract!Next \/ UNCHANGED Contract!vars
    OBVIOUS
  <2>1. CASE System \/ WaiterReap
    BY <2>1, SystemRefines DEF Contract!Next
  <2>2. CASE WriteExit
    <3>1. exits = {} /\ pc = "report" /\ UNCHANGED <<req, proc, port>>
      BY <2>2 DEF WriteExit, CleanupInv, ExitInv
    <3>2. groupOk /\ cgroupOk => ~GroupAlive /\ (req.contained => Living = {})
      BY <3>1 DEF CleanupInv, SweptInv, CgroupInv, Swept, TornDown
    <3>3. UNCHANGED <<req.contained, GroupAlive, Living # {}, port>>
      BY <3>1 DEF GroupAlive, Living
    <3>4. CASE port = "closed"
      <4>1. exits' = exits
        BY <2>2, <3>4 DEF WriteExit
      <4>2. CASE pc' = "gone"
        BY <3>1, <3>3, <3>4, <4>1, <4>2 DEF Contract!Next, Contract!End
      <4>3. CASE pc' # "gone"
        BY <3>1, <3>3, <4>1, <4>3 DEF Contract!vars
      <4> QED BY <4>2, <4>3
    <3>5. CASE port # "closed"
      <4> DEFINE report == [confirmed |-> groupOk /\ cgroupOk,
                            contained |-> req.contained,
                            timedOut |-> timedOut, truncated |-> truncated]
      <4>1. exits' = {report} /\ port = "open"
        BY <2>2, <3>1, <3>5 DEF WriteExit, TypeOK
      <4>2. {r.confirmed : r \in exits'} = {groupOk /\ cgroupOk}
        <5>1. report.confirmed = (groupOk /\ cgroupOk)
          BY Zenon
        <5> HIDE DEF report
        <5> QED BY <4>1, <5>1, Zenon
      <4>3. {r.confirmed : r \in exits} = {}
        BY <3>1
      <4>4. PICK c \in BOOLEAN : c = (groupOk /\ cgroupOk)
        OBVIOUS
      <4>5. Contract!Deliver(c)
        BY <3>1, <3>2, <3>3, <4>1, <4>2, <4>3, <4>4 DEF Contract!Deliver
      <4> QED BY <4>5 DEF Contract!Next
    <3> QED BY <3>4, <3>5
  <2>3. CASE Next /\ ~System /\ ~WaiterReap /\ ~WriteExit
    <3>1. UNCHANGED <<req, proc, exits>>
      BY <2>3, OnlySystemKills, OnlyWriteExitReports, StepShape
    <3>2. UNCHANGED <<req.contained, GroupAlive, Living # {}, {r.confirmed : r \in exits}>>
      BY <3>1 DEF GroupAlive, Living
    <3>3. CASE ClosePort
      BY <3>2, <3>3 DEF ClosePort, Served, Contract!Next, Contract!PeerLeaves
    <3>4. CASE ~ClosePort /\ pc # "gone" /\ pc' = "gone"
      <4>1. port = "closed" /\ UNCHANGED port
        BY <2>3, <3>4, StepShape, SilentEnd
      <4> QED BY <3>2, <3>4, <4>1 DEF Contract!Next, Contract!End
    <3>5. CASE ~ClosePort /\ ~(pc # "gone" /\ pc' = "gone")
      <4>1. UNCHANGED <<port, pc # "gone">>
        BY <2>3, <3>5, StepShape
      <4> QED BY <3>2, <4>1 DEF Contract!vars
    <3> QED BY <3>3, <3>4, <3>5
  <2>4. CASE UNCHANGED vars
    BY <2>4 DEF vars, Contract!vars, GroupAlive, Living
  <2> QED BY <2>1, <2>2, <2>3, <2>4
<1> QED BY <1>1, <1>2, TypeCorrect, LeaderStays, CleanupInductive, PeerInductive, PTL
        DEF Spec, ImplementsContract, Contract!Spec

\* A group seen dead is never signalled again: only the run's first signal
\* is sent without having just seen a member.
THEOREM NoSignalToDeadGroup == Spec => DeadGroupNotSignalled
<1> USE DEF osVars, beamVars, threadVars, flagVars, verdictVars, pumpVars
<1>1. [Next]_vars => [SignalSent => GroupAlive \/ (pc = "loop" /\ ~started)]_vars
  <2> SUFFICES ASSUME Next, SignalSent PROVE GroupAlive \/ (pc = "loop" /\ ~started)
    BY DEF vars
  <2>1. CASE System \/ Beam \/ Threads \/ Finished
    BY <2>1 DEF SignalSent, System, Fork, Escape, CloseOutput, Die, WriteOutput, Beam,
              SendKill, SendCredit, ClosePort, Finished, vars, Threads, ReaderEof,
              WaiterReap, WaiterSend, TimerFire, PumpPermit, PumpRead, PumpEof, PumpWrite
  <2>2. CASE Loop
    BY <2>2 DEF SignalSent, Loop, LoopCredit, LoopEnd, LoopExited
  <2>3. CASE Sweep
    BY <2>3 DEF SignalSent, Sweep, SweepConfirmed, IntExpired, TermExpired,
                KillExpired, FinishSweep
  <2>4. CASE Strict
    BY <2>4 DEF SignalSent, Strict, StrictDrained, StrictPeerGone, StrictKill,
                StrictClosed, StrictIgnore, StrictPoll, StrictRetry, StrictCredit
  <2>5. CASE Ending
    BY <2>5 DEF SignalSent, Ending, Teardown, CgroupWait, SettleGone, SettleDrain,
                Collect, BoundedDrained, BoundedExpired, WriteExit, LingerPeerGone,
                LingerEvent
  <2> QED BY <2>1, <2>2, <2>3, <2>4, <2>5 DEF Next
<1> QED BY <1>1, PTL DEF Spec, DeadGroupNotSignalled
=============================================================================
