---------------------- MODULE TrackedSupervisorProofs -----------------------
(***************************************************************************)
(* Theorems about TrackedSupervisor for every finite set of processes, any *)
(* capacity of the TRACKED queue and every request: type correctness, the  *)
(* honest history, the end of every known survivor, and the contract.      *)
(***************************************************************************)
EXTENDS TrackedSupervisor, SequenceTheorems, FiniteSetTheorems, TLAPS

Frame == {"KILL", "CREDIT", "STDIN", "EOF"}
Event == {"KILL", "CREDIT", "CLOSED", "WRITEFAILED", "TIMEOUT", "EXITED", "WAITFAILED"}

\* Before the threads start nothing was found or announced.
StartInv == pc = "start" => seen = {} /\ fresh = {} /\ control = {} /\ announced = {}

TypeInv == TypeOK /\ StartInv

LEMMA EventAppended ==
  ASSUME NEW e \in Event, events \in Seq(Event)
  PROVE  Append(events, e) \in Seq(Event)
BY AppendProperties

LEMMA EventTaken ==
  ASSUME NEW e, events \in Seq(Event), Take(e)
  PROVE  e \in Event /\ events' \in Seq(Event)
BY HeadTailProperties DEF Take

LEMMA FrameTaken ==
  ASSUME wire \in Seq(Frame), wire # <<>>
  PROVE  Head(wire) \in Frame /\ Tail(wire) \in Seq(Frame)
BY HeadTailProperties

\* The queue accepts what it has room for.
LEMMA QueueBounded ==
  ASSUME TypeOK, NEW new \in SUBSET Procs, NEW queued \in Accepted(new)
  PROVE  queued \subseteq new /\ Cardinality(control \cup queued) <= QueueLimit
<1> DEFINE room == QueueLimit - Cardinality(control)
<1>1. control \in SUBSET Procs /\ queued \in SUBSET Procs /\ queued \subseteq new
  BY DEF TypeOK, Accepted
<1>2. IsFiniteSet(control) /\ IsFiniteSet(queued) /\ IsFiniteSet(new)
  BY <1>1, ProcsAssumption, FS_Subset
<1>3. IsFiniteSet(control \cap queued)
  BY <1>2, FS_Subset
<1>4. /\ Cardinality(control) \in Nat /\ Cardinality(queued) \in Nat
      /\ Cardinality(new) \in Nat /\ Cardinality(control \cap queued) \in Nat
  BY <1>2, <1>3, FS_CardinalityType
<1>5. room \in Nat
  BY <1>4, QueueAssumption DEF TypeOK
<1>6. Cardinality(queued) <= room
  BY <1>4, <1>5 DEF Accepted
<1>7. Cardinality(control \cup queued)
        = Cardinality(control) + Cardinality(queued) - Cardinality(control \cap queued)
  BY <1>2, FS_Union
<1> QED BY <1>1, <1>4, <1>6, <1>7, QueueAssumption

LEMMA QueueShrinks ==
  ASSUME TypeOK, NEW kept \in SUBSET control
  PROVE  Cardinality(kept) <= QueueLimit
<1>1. IsFiniteSet(control)
  BY ProcsAssumption, FS_Subset DEF TypeOK
<1>2. IsFiniteSet(kept) /\ Cardinality(kept) <= Cardinality(control)
  BY <1>1, FS_Subset
<1>3. Cardinality(kept) \in Nat /\ Cardinality(control) \in Nat
  BY <1>1, <1>2, FS_CardinalityType
<1> QED BY <1>2, <1>3, QueueAssumption DEF TypeOK

LEMMA FoundLives ==
  ASSUME TypeOK, NEW found \in BlindScan
  PROVE  /\ found \subseteq Living /\ Living \subseteq Procs /\ Living \cap seen \subseteq found
BY DEF BlindScan, Found, Living, TypeOK

LEMMA TypeInit == Init => TypeInv
<1> SUFFICES ASSUME Init PROVE TypeInv
  OBVIOUS
<1>1. req \in Run /\ req \in Runs
  BY RunAssumption DEF Init
<1>2. control \subseteq seen /\ Cardinality(control) <= QueueLimit
  <2>1. control = {} /\ Cardinality({}) = 0
    BY FS_EmptySet DEF Init
  <2> QED BY <2>1, QueueAssumption
<1>3. /\ proc \in [Procs -> {"absent", "live", "zombie", "dead"}]
      /\ timer \in {"off", "armed", "fired"} /\ pump \in {"park", "drain"}
  BY DEF Init, Idle
<1>4. wire \in Seq(Frame) /\ events \in Seq(Event)
  BY DEF Init
<1>5. chunks \in Nat /\ kills \in Nat /\ grants \in Nat /\ inputs \in Nat /\ faults \in Nat
  BY <1>1 DEF Init, Run
<1>6. /\ doomed \subseteq Procs /\ seen \subseteq Procs /\ fresh \subseteq seen
      /\ announced \subseteq seen /\ exits \subseteq Report /\ StartInv
  BY DEF Init, StartInv
<1>7. /\ pipe \in Nat /\ inputQueue \in 0..1 /\ empties \in 0..2 /\ credit \in Nat
      /\ port = "open" /\ reader = "open" /\ waiter = "wait" /\ pc = "start"
      /\ gate = "metered" /\ frameWriter = "run"
  BY DEF Init
<1>8. /\ restless \in BOOLEAN /\ sender \in BOOLEAN /\ writing \in BOOLEAN
      /\ inputWriter \in BOOLEAN /\ inputClosed \in BOOLEAN
      /\ cleaning \in BOOLEAN /\ late \in BOOLEAN /\ uncertain \in BOOLEAN
      /\ outcome \in BOOLEAN /\ discard \in BOOLEAN /\ timedOut \in BOOLEAN
      /\ beamGone \in BOOLEAN
      /\ confirmed \in BOOLEAN /\ truncated \in BOOLEAN /\ historyTruncated \in BOOLEAN
      /\ exitQueued \in BOOLEAN /\ collected \in BOOLEAN
  BY Zenon DEF Init
<1> QED BY <1>1, <1>2, <1>3, <1>4, <1>5, <1>6, <1>7, <1>8 DEF TypeInv, TypeOK, Frame, Event

LEMMA TypeSystem == TypeInv /\ (System \/ Beam) => TypeInv'
<1> SUFFICES ASSUME TypeInv, System \/ Beam PROVE TypeInv'
  OBVIOUS
<1> USE DEF TypeInv, TypeOK, StartInv, osVars, beamVars, inputVars, threads, trackVars, flagVars,
            reportVars, frameVars, pumpVars
<1>1. ASSUME NEW p \in Procs, NEW q \in Procs, Fork(p, q) PROVE TypeInv'
  BY <1>1 DEF Fork
<1>2. ASSUME NEW p \in Procs, Die(p) PROVE TypeInv'
  BY <1>2 DEF Die
<1>3. CASE Write
  BY <1>3 DEF Write
<1>7. CASE ReadInput
  <2>1. writing' \in BOOLEAN
    BY <1>7, Zenon DEF ReadInput
  <2> QED BY <1>7, <2>1 DEF ReadInput
<1>4. ASSUME NEW frame \in Frame, Send(frame), kills' \in Nat, grants' \in Nat, inputs' \in Nat
      PROVE  TypeInv'
  <2>1. wire' \in Seq(Frame)
    BY <1>4, AppendProperties DEF Send, Frame
  <2> QED BY <1>4, <2>1 DEF Send, Frame
<1>5. CASE SendKill \/ SendCredit \/ SendInput
  <2>1. \E frame \in Frame : Send(frame)
    BY <1>5, Zenon DEF SendKill, SendCredit, SendInput, Frame
  <2>2. kills' \in Nat /\ grants' \in Nat /\ inputs' \in Nat
    <3>1. CASE SendKill
      BY <3>1 DEF SendKill
    <3>2. CASE SendCredit
      BY <3>2 DEF SendCredit
    <3>3. CASE SendInput
      BY <3>3 DEF SendInput
    <3> QED BY <1>5, <3>1, <3>2, <3>3
  <2> QED BY <1>4, <2>1, <2>2
<1>6. CASE ClosePort
  BY <1>6 DEF ClosePort
<1> QED BY <1>1, <1>2, <1>3, <1>5, <1>6, <1>7 DEF System, Beam

LEMMA TypeThreads == TypeInv /\ Threads => TypeInv'
<1> SUFFICES ASSUME TypeInv, Threads PROVE TypeInv'
  OBVIOUS
<1> USE DEF TypeInv, TypeOK, StartInv, Running, Up, osVars, beamVars, inputVars, threads,
            trackVars, flagVars, reportVars, frameVars, pumpVars
<1>1. wire # <<>> => Head(wire) \in Frame /\ Tail(wire) \in Seq(Frame)
  BY FrameTaken DEF Frame
<1>2. \A e \in Event : Append(events, e) \in Seq(Event)
  BY EventAppended DEF Event
<1>3. CASE ReaderEvent
  BY <1>1, <1>2, <1>3 DEF ReaderEvent, Frame, Event
<1>4. CASE ReaderInput \/ ReaderResumes \/ ReaderFinishes
  <2>1. sender' \in {sender, FALSE}
    BY <1>4, Zenon DEF ReaderInput, ReaderResumes, ReaderFinishes
  <2>2. sender' \in BOOLEAN
    BY <2>1, Zenon
  <2>3. wire' \in Seq(Frame)
    BY <1>1, <1>4 DEF ReaderInput, ReaderResumes, ReaderFinishes, Frame
  <2>4. CASE ReaderInput
    BY <2>2, <2>3, <2>4 DEF ReaderInput, Frame
  <2>5. CASE ReaderResumes
    BY <2>2, <2>3, <2>5 DEF ReaderResumes, Frame
  <2>6. CASE ReaderFinishes
    BY <2>2, <2>3, <2>6 DEF ReaderFinishes, Frame
  <2> QED BY <1>4, <2>4, <2>5, <2>6
<1>5. CASE ReaderEof
  BY <1>2, <1>5 DEF ReaderEof, Event
<1>11. CASE TimerFire
  BY <1>2, <1>11 DEF TimerFire, Event
<1>9. CASE WaiterSend
  BY <1>2, <1>9 DEF WaiterSend, Event
<1>10. CASE WaiterFails
  BY <1>2, <1>10 DEF WaiterFails, Event
<1>6. CASE InputWriter
  <2>1. writing' \in BOOLEAN /\ inputWriter' \in BOOLEAN
    BY <1>6, Zenon DEF InputWriter, WriterTakes, WriterEnds, WriterFails
  <2>2. CASE WriterTakes
    BY <2>1, <2>2 DEF WriterTakes
  <2>3. CASE WriterEnds
    BY <2>1, <2>3 DEF WriterEnds
  <2>4. CASE WriterFails
    BY <2>1, <2>4 DEF WriterFails
  <2> QED BY <1>6, <2>2, <2>3, <2>4 DEF InputWriter
<1>7. CASE FrameWrite
  <2>1. events' \in Seq(Event)
    BY <1>2, <1>7 DEF FrameWrite, Event
  <2>2. /\ control' \subseteq control /\ exits' \subseteq Report
        /\ announced' \subseteq seen /\ frameWriter' \in {"run", "failed", "done"}
    BY <1>7 DEF FrameWrite, Report
  <2>3. Cardinality(control') <= QueueLimit
    BY <2>2, QueueShrinks
  <2> QED BY <1>7, <2>1, <2>2, <2>3 DEF FrameWrite, Event
<1>8. CASE Pump
  <2>1. CASE PumpPermit
    BY <2>1 DEF PumpPermit
  <2>2. CASE PumpRead
    <3>1. pipe' \in Nat /\ credit' \in Nat /\ pump' \in {"hand", "done"}
      BY <2>2 DEF PumpRead
    <3> QED BY <2>2, <3>1 DEF PumpRead
  <2>3. CASE PumpWrite
    BY <2>3 DEF PumpWrite, Idle
  <2> QED BY <1>8, <2>1, <2>2, <2>3 DEF Pump
<1> QED BY <1>3, <1>4, <1>5, <1>6, <1>7, <1>8, <1>9, <1>10, <1>11
       DEF Threads, Reader, Waiter

\* What a pass does to the inventory and the announcements.
LEMMA PassEffect ==
  ASSUME TypeInv, NEW fault \in BOOLEAN, NEW found \in Found, Pass(fault, found)
  PROVE  /\ found \subseteq Procs /\ seen' = seen \cup found
         /\ \/ UNCHANGED <<control, historyTruncated>> /\ beamGone'
            \/ \E queued \in Accepted(found \ seen) :
                 /\ control' = control \cup queued
                 /\ historyTruncated' = (historyTruncated \/ queued # found \ seen)
         /\ doomed \subseteq doomed' /\ doomed' \subseteq doomed \cup found
         /\ pc' \in {"loop", "finish"}
         /\ beamGone => beamGone'
         /\ beamGone' => beamGone \/ port = "closed" \/ frameWriter = "failed"
<1>1. found \subseteq Procs
  BY DEF Found, Living
<1>2. \/ UNCHANGED <<control, historyTruncated>> /\ beamGone'
      \/ \E queued \in Accepted(found \ seen) :
           /\ control' = control \cup queued
           /\ historyTruncated' = (historyTruncated \/ queued # found \ seen)
  BY Zenon DEF Pass
<1>3. \E killed \in SUBSET found : doomed' = doomed \cup killed
  BY DEF Pass, Kills
<1>4. seen' = seen \cup found /\ pc' \in {"loop", "finish"}
  BY DEF Pass
<1>5. /\ beamGone => beamGone'
      /\ beamGone' => beamGone \/ port = "closed" \/ frameWriter = "failed"
  BY Zenon DEF Pass, PeerDisconnected
<1> QED BY <1>1, <1>2, <1>3, <1>4, <1>5

LEMMA TypeTick == TypeInv /\ Tick => TypeInv'
<1> SUFFICES ASSUME TypeInv, Tick PROVE TypeInv'
  OBVIOUS
<1> PICK fault \in BOOLEAN, found \in Found : Pass(fault, found)
  BY DEF Tick
<1>0. /\ found \subseteq Procs /\ seen' = seen \cup found
      /\ \/ UNCHANGED <<control, historyTruncated>> /\ beamGone'
         \/ \E queued \in Accepted(found \ seen) :
              /\ control' = control \cup queued
              /\ historyTruncated' = (historyTruncated \/ queued # found \ seen)
      /\ doomed' \subseteq doomed \cup found /\ pc' \in {"loop", "finish"}
  BY PassEffect
<1> USE DEF TypeInv, TypeOK, StartInv, osVars, beamVars, inputVars, threads, trackVars, flagVars,
            reportVars, frameVars, pumpVars
<1>1. /\ seen' \subseteq Procs /\ seen \subseteq seen' /\ doomed' \subseteq Procs
      /\ pc' \in {"loop", "finish"}
  BY <1>0
<1>2. control' \subseteq seen' /\ Cardinality(control') <= QueueLimit
  <2>1. CASE UNCHANGED <<control, historyTruncated>>
    BY <1>1, <2>1
  <2>2. ASSUME NEW queued \in Accepted(found \ seen), control' = control \cup queued
        PROVE  control' \subseteq seen' /\ Cardinality(control') <= QueueLimit
    <3>1. found \ seen \in SUBSET Procs /\ seen' = seen \cup found
      BY <1>0
    <3> QED BY <2>2, <3>1, QueueBounded
  <2> QED BY <1>0, <2>1, <2>2
<1>3. faults' \in Nat
  BY DEF Pass
<1>4. empties' \in 0..2
  BY DEF Pass, Empties
<1>5. gate' \in {"metered", "uncorked", "cancelled"}
  BY DEF Pass
<1>6. /\ beamGone' \in BOOLEAN /\ discard' \in BOOLEAN /\ cleaning' \in BOOLEAN
      /\ inputClosed' \in BOOLEAN /\ uncertain' \in BOOLEAN /\ confirmed' \in BOOLEAN
      /\ restless' \in BOOLEAN
  BY Zenon DEF Pass, Tick
<1>7. historyTruncated' \in BOOLEAN
  BY <1>0, Zenon
<1>8. UNCHANGED <<req, proc, pipe, chunks, beamVars, wire, inputVars, threads, events, fresh,
                 late, outcome, timedOut, truncated, exitQueued, frameWriter, announced,
                 exits, pump, credit, collected>>
  BY DEF Tick
<1> QED BY <1>1, <1>2, <1>3, <1>4, <1>5, <1>6, <1>7, <1>8

LEMMA TypeLoop == TypeInv /\ (Deadline \/ LoopEvent) => TypeInv'
<1> SUFFICES ASSUME TypeInv, Deadline \/ LoopEvent PROVE TypeInv'
  OBVIOUS
<1> USE DEF TypeInv, TypeOK, StartInv, osVars, beamVars, inputVars, threads, trackVars, flagVars,
            reportVars, frameVars, pumpVars
<1>1. \A e : Take(e) => events' \in Seq(Event)
  BY EventTaken DEF Event
<1>2. CASE Deadline
  BY <1>2 DEF Deadline
<1>3. CASE LoopCredit
  BY <1>1, <1>3 DEF LoopCredit, Grant, Event
<1>4. CASE LoopKill
  <2>1. discard' \in BOOLEAN
    BY <1>4, Zenon DEF LoopKill
  <2> QED BY <1>1, <1>4, <2>1 DEF LoopKill, BeginCleanup, Event
<1>5. CASE LoopLost
  BY <1>1, <1>5 DEF LoopLost, BeginCleanup, Event
<1>6. CASE LoopTimeout
  <2>1. timedOut' \in BOOLEAN /\ discard' \in BOOLEAN /\ cleaning' \in BOOLEAN
    BY <1>6, Zenon DEF LoopTimeout, BeginCleanup
  <2>2. /\ events' \in Seq(Event) /\ pc = "loop"
        /\ UNCHANGED <<seen, fresh, late, empties, uncertain, faults>>
    BY <1>1, <1>6 DEF LoopTimeout, BeginCleanup
  <2>3. UNCHANGED <<req, osVars, beamVars, wire, inputVars, inputClosed, threads, pc, outcome,
                    beamGone, reportVars, frameVars, pumpVars>>
    BY <1>6 DEF LoopTimeout
  <2> QED BY <2>1, <2>2, <2>3 DEF Event
<1>7. CASE LoopExited
  BY <1>1, <1>7 DEF LoopExited, BeginCleanup, Event
<1>8. CASE LoopWaitFailed
  BY <1>1, <1>8 DEF LoopWaitFailed, Event
<1> QED BY <1>2, <1>3, <1>4, <1>5, <1>6, <1>7, <1>8 DEF LoopEvent

LEMMA TypeStart == TypeInv /\ StartUp => TypeInv'
<1> SUFFICES ASSUME TypeInv, StartUp PROVE TypeInv'
  OBVIOUS
<1>1. \A found \in BlindScan : found \subseteq Living /\ found \subseteq Procs
  BY FoundLives DEF TypeInv
<1>2. Found \subseteq BlindScan
  BY DEF BlindScan
<1>3. Living \subseteq Procs
  BY DEF Living
<1> USE DEF TypeInv, TypeOK, StartInv, osVars, beamVars, inputVars, threads, trackVars, flagVars,
            reportVars, frameVars, pumpVars
<1>4. CASE Start
  BY <1>4, RootAssumption DEF Start
<1>5. CASE StartFails
  <2>1. restless' \in BOOLEAN
    BY <1>5, Zenon DEF StartFails
  <2>2. /\ pc = "start" /\ pc' = "abort" /\ seen' \subseteq Procs /\ announced' \subseteq seen'
        /\ doomed' \subseteq Procs /\ faults' \in Nat
    <3>1. CASE NoIdentity
      BY <1>1, <1>3, <1>5, <3>1 DEF StartFails, NoIdentity
    <3>2. CASE NoAnnouncement
      BY <1>1, <1>2, <1>5, <3>2, RootAssumption DEF StartFails, NoAnnouncement
    <3> QED BY <1>5, <3>1, <3>2 DEF StartFails
  <2> QED BY <1>5, <2>1, <2>2 DEF StartFails
<1>6. CASE AbortTick
  <2>1. restless' \in BOOLEAN
    BY <1>6, Zenon DEF AbortTick
  <2>2. /\ seen \subseteq seen' /\ seen' \subseteq Procs /\ doomed' \subseteq Procs
        /\ empties' \in 0..2 /\ pc' \in {"abort", "abortlast"}
    BY <1>1, <1>3, <1>6 DEF AbortTick, Kills, Empties
  <2> QED BY <1>6, <2>1, <2>2 DEF AbortTick
<1>7. CASE AbortFinish
  <2>1. restless' \in BOOLEAN
    BY <1>7, Zenon DEF AbortFinish
  <2>2. seen \subseteq seen' /\ seen' \subseteq Procs /\ doomed' \subseteq Procs
    BY <1>1, <1>7 DEF AbortFinish
  <2> QED BY <1>7, <2>1, <2>2 DEF AbortFinish
<1>8. CASE AbortReap
  <2>1. proc' \in [Procs -> {"absent", "live", "zombie", "dead"}]
    BY <1>8 DEF AbortReap
  <2>2. pc' = "aborted"
    BY <1>8 DEF AbortReap
  <2>3. UNCHANGED <<req, doomed, pipe, chunks, restless, beamVars, wire, inputVars, inputClosed,
                    threads, events, trackVars, flagVars, reportVars, frameVars, pumpVars>>
    BY <1>8 DEF AbortReap
  <2> QED BY <2>1, <2>2, <2>3
<1> QED BY <1>4, <1>5, <1>6, <1>7, <1>8 DEF StartUp

LEMMA TypeEnding == TypeInv /\ Ending => TypeInv'
<1> SUFFICES ASSUME TypeInv, Ending PROVE TypeInv'
  OBVIOUS
<1>1. \A found \in Found : found \subseteq Procs
  BY DEF Found, Living
<1>2. \A queued \in Accepted(fresh) :
        queued \subseteq fresh /\ Cardinality(control \cup queued) <= QueueLimit
  BY QueueBounded DEF TypeInv, TypeOK
<1> USE DEF TypeInv, TypeOK, StartInv, osVars, beamVars, inputVars, threads, trackVars, flagVars,
            reportVars, frameVars, pumpVars
<1>3. \A e : Take(e) => events' \in Seq(Event)
  BY EventTaken DEF Event
<1>4. CASE Finish
  <2>1. restless' \in BOOLEAN /\ uncertain' \in BOOLEAN /\ confirmed' \in BOOLEAN
    BY <1>4, Zenon DEF Finish
  <2>2. /\ seen \subseteq seen' /\ seen' \subseteq Procs /\ doomed' \subseteq Procs
        /\ fresh' \subseteq seen'
    BY <1>1, <1>4 DEF Finish
  <2> QED BY <1>4, <2>1, <2>2 DEF Finish
<1>5. CASE Reap
  <2>1. proc' \in [Procs -> {"absent", "live", "zombie", "dead"}]
    BY <1>5 DEF Reap
  <2>2. pc' = "settle" /\ outcome' = TRUE
    BY <1>5 DEF Reap
  <2>3. UNCHANGED <<req, doomed, pipe, chunks, restless, beamVars, wire, inputVars, inputClosed,
                    threads, events, trackVars, discard, timedOut, beamGone, reportVars,
                    frameVars, pumpVars>>
    BY <1>5 DEF Reap
  <2> QED BY <2>1, <2>2, <2>3
<1>6. CASE ReapExpired
  <2>1. confirmed' \in BOOLEAN
    BY <1>6, Zenon DEF ReapExpired
  <2> QED BY <1>6, <2>1 DEF ReapExpired
<1>7. CASE Settle
  <2>1. historyTruncated' \in BOOLEAN /\ truncated' \in BOOLEAN
    BY <1>7, Zenon DEF Settle
  <2>2. control' \subseteq seen /\ Cardinality(control') <= QueueLimit /\ fresh' = {}
    BY <1>2, <1>7 DEF Settle
  <2>3. pc' \in {"strict", "bounded"} /\ gate' \in {"metered", "uncorked", "cancelled"}
    BY <1>7 DEF Settle
  <2> QED BY <1>7, <2>1, <2>2, <2>3 DEF Settle
<1>8. CASE BoundedEnds
  <2>1. collected' \in BOOLEAN /\ truncated' \in BOOLEAN
    BY <1>8, Zenon DEF BoundedEnds
  <2> QED BY <1>8, <2>1 DEF BoundedEnds
<1>9. CASE SettleGone \/ StrictPeerGone \/ StrictLost
  <2>1. CASE SettleGone
    BY <2>1 DEF SettleGone, Cancel
  <2>2. CASE StrictPeerGone
    BY <2>2 DEF StrictPeerGone, Cancel
  <2>3. CASE StrictLost
    BY <1>3, <2>3 DEF StrictLost, Cancel, Event
  <2> QED BY <1>9, <2>1, <2>2, <2>3
<1>10. CASE StrictCredit
  BY <1>3, <1>10 DEF StrictCredit, Grant, Event
<1>11. CASE StrictKill
  BY <1>3, <1>11 DEF StrictKill, Cancel, Event
<1>15. CASE StrictIgnore
  BY <1>3, <1>15 DEF StrictIgnore, Event
<1>12. CASE StrictDrained
  BY <1>12 DEF StrictDrained
<1>16. CASE LingerPeerGone \/ Delivered
  <2>1. CASE LingerPeerGone
    BY <2>1 DEF LingerPeerGone
  <2>2. CASE Delivered
    BY <2>2 DEF Delivered
  <2> QED BY <1>16, <2>1, <2>2
<1>13. CASE SendExit
  <2>1. exitQueued' \in BOOLEAN
    BY <1>13, Zenon DEF SendExit
  <2> QED BY <1>13, <2>1 DEF SendExit
<1>14. CASE Linger
  <2>1. events' \in Seq(Event)
    BY <1>14, HeadTailProperties DEF Linger, Event
  <2> QED BY <1>14, <2>1 DEF Linger, Event
<1> QED BY <1>4, <1>5, <1>6, <1>7, <1>8, <1>9, <1>10, <1>11, <1>12, <1>13, <1>14, <1>15,
       <1>16 DEF Ending

LEMMA TypeStep == TypeInv /\ [Next]_vars => TypeInv'
<1>1. TypeInv /\ (Finished \/ UNCHANGED vars) => TypeInv'
  <2> SUFFICES ASSUME TypeInv, UNCHANGED vars PROVE TypeInv'
    BY DEF Finished
  <2>1. UNCHANGED <<osVars, beamVars, inputVars, threads, trackVars, flagVars, reportVars,
                    frameVars, pumpVars>>
    BY DEF vars
  <2>2. TypeOK'
    BY <2>1 DEF vars, osVars, beamVars, inputVars, threads, trackVars, flagVars, reportVars,
                frameVars, pumpVars, TypeInv, TypeOK
  <2>3. StartInv'
    BY <2>1 DEF vars, osVars, beamVars, inputVars, threads, trackVars, flagVars, reportVars,
                frameVars, pumpVars, TypeInv, StartInv
  <2> QED BY <2>2, <2>3 DEF TypeInv
<1> QED BY <1>1, TypeSystem, TypeThreads, TypeTick, TypeLoop, TypeStart, TypeEnding DEF Next

LEMMA TypeInductive == Spec => []TypeInv
BY TypeInit, TypeStep, PTL DEF Spec

\* Every variable of the tracked supervisor keeps its type, and the queue of
\* TRACKED frames its capacity.
THEOREM TrackedTypeCorrect == Spec => []TypeOK
<1>1. TypeInv => TypeOK
  BY DEF TypeInv
<1> QED BY <1>1, TypeInductive, PTL

-----------------------------------------------------------------------------
(* Known survivors.                                                        *)

\* What a scan found has been born, and past the final scan it is dead or
\* about to be killed.
KnownInv == proc[Root] # "absent" /\ \A p \in seen : proc[p] # "absent"
SurvivorInv == KnownInv /\ NoKnownSurvivor

\* Steps of the BEAM, the threads and the loop's channel touch neither the
\* processes nor what is known of them.
LEMMA Quiet ==
  ASSUME Write \/ ReadInput \/ Beam \/ Threads \/ Deadline \/ LoopEvent \/ Finished \/ UNCHANGED vars
  PROVE  UNCHANGED <<proc, doomed, seen, fresh, pc, confirmed, historyTruncated, exitQueued>>
<1> USE DEF osVars, beamVars, inputVars, threads, trackVars, flagVars, reportVars, frameVars,
            pumpVars
<1>1. CASE Write \/ ReadInput \/ Beam \/ Deadline \/ Finished \/ UNCHANGED vars
  BY <1>1 DEF Write, ReadInput, Beam, SendKill, SendCredit, SendInput, Send, ClosePort, Deadline,
              Finished, vars
<1>2. CASE Threads
  BY <1>2 DEF Threads, Reader, ReaderEvent, ReaderInput, ReaderResumes, ReaderFinishes,
              ReaderEof, InputWriter, WriterTakes, WriterEnds, WriterFails, Waiter, WaiterSend,
              WaiterFails, TimerFire, FrameWrite, Pump, PumpPermit, PumpRead, PumpWrite
<1>3. CASE LoopEvent
  BY <1>3 DEF LoopEvent, LoopCredit, LoopKill, LoopLost, LoopTimeout, LoopExited,
              LoopWaitFailed, BeginCleanup
<1> QED BY <1>1, <1>2, <1>3

LEMMA SurvivorInit == Init => SurvivorInv
BY RootAssumption DEF Init, SurvivorInv, KnownInv, NoKnownSurvivor

\* The system's steps neither revive a process nor add to what is known.
LEMMA SurvivorSystem ==
  ASSUME TypeOK, SurvivorInv, System
  PROVE  SurvivorInv'
<1>1. CASE \E p, q \in Procs : Fork(p, q)
  <2> PICK p \in Procs, q \in Procs : Fork(p, q)
    BY <1>1
  <2>1. /\ proc[q] = "absent" /\ proc' = [proc EXCEPT ![q] = "live"]
        /\ UNCHANGED <<doomed, seen, pc>>
    BY DEF Fork, trackVars
  <2> QED BY <2>1, RootAssumption DEF TypeOK, SurvivorInv, KnownInv, NoKnownSurvivor, Living
<1>2. CASE \E p \in Procs : Die(p)
  <2> PICK p \in Procs : Die(p)
    BY <1>2
  <2>1. /\ proc' = [proc EXCEPT ![p] = IF p = Root THEN "zombie" ELSE "dead"]
        /\ doomed' = doomed \ {p} /\ UNCHANGED <<seen, pc>>
    BY DEF Die, trackVars
  <2>2. \A x \in Procs : proc'[x] = IF x # p THEN proc[x] ELSE IF p = Root THEN "zombie" ELSE "dead"
    BY <2>1 DEF TypeOK
  <2>3. seen \subseteq Procs
    BY DEF TypeOK
  <2>4. KnownInv'
    BY <2>1, <2>2, <2>3, RootAssumption DEF SurvivorInv, KnownInv
  <2>5. Living' = Living \ {p}
    BY <2>2 DEF Living
  <2> QED BY <2>1, <2>4, <2>5 DEF SurvivorInv, NoKnownSurvivor
<1>3. CASE Write \/ ReadInput
  BY <1>3, Quiet DEF SurvivorInv, KnownInv, NoKnownSurvivor, Living
<1> QED BY <1>1, <1>2, <1>3 DEF System

\* A scan finds living processes, and every one of those known before.
LEMMA SurvivorScan ==
  ASSUME TypeInv, SurvivorInv, NEW found \in BlindScan, UNCHANGED proc,
         seen' \subseteq seen \cup found \cup {Root}
  PROVE  KnownInv' /\ Living \cap seen \subseteq found
<1>1. found \subseteq Living /\ Living \cap seen \subseteq found
  BY FoundLives DEF TypeInv
<1> QED BY <1>1 DEF Living, SurvivorInv, KnownInv

LEMMA SurvivorStart ==
  ASSUME TypeInv, SurvivorInv, StartUp
  PROVE  SurvivorInv'
<1> USE DEF osVars, beamVars, inputVars, threads, trackVars, flagVars, reportVars, frameVars,
            pumpVars
<1>1. Found \subseteq BlindScan
  BY DEF BlindScan
<1>2. CASE Start
  BY <1>2 DEF Start, SurvivorInv, KnownInv, NoKnownSurvivor
<1>3. CASE StartFails
  <2>1. pc' = "abort" /\ UNCHANGED proc /\ pc = "start"
    BY <1>3 DEF StartFails
  <2>2. \E found \in BlindScan : seen' \subseteq seen \cup found \cup {Root}
    BY <1>1, <1>3 DEF StartFails, NoIdentity, NoAnnouncement
  <2>3. KnownInv'
    BY <2>1, <2>2, SurvivorScan
  <2> QED BY <2>1, <2>3 DEF SurvivorInv, NoKnownSurvivor
<1>4. CASE AbortTick
  <2>1. pc' \in {"abort", "abortlast"} /\ UNCHANGED proc
    BY <1>4 DEF AbortTick
  <2>2. \E found \in BlindScan : seen' \subseteq seen \cup found \cup {Root}
    BY <1>4 DEF AbortTick
  <2>3. KnownInv'
    BY <2>1, <2>2, SurvivorScan
  <2> QED BY <2>1, <2>3 DEF SurvivorInv, NoKnownSurvivor
<1>5. CASE AbortFinish
  <2>1. PICK found \in BlindScan : seen' = seen \cup found /\ doomed' = doomed \cup found
    BY <1>5 DEF AbortFinish
  <2>2. UNCHANGED proc
    BY <1>5 DEF AbortFinish
  <2>3. KnownInv' /\ Living \cap seen \subseteq found
    BY <2>1, <2>2, SurvivorScan
  <2>4. Living' \cap seen' \subseteq doomed'
    BY <2>1, <2>2, <2>3 DEF Living
  <2> QED BY <2>3, <2>4 DEF SurvivorInv, NoKnownSurvivor
<1>6. CASE AbortReap
  <2>1. /\ pc = "abortreap" /\ proc' = [proc EXCEPT ![Root] = "dead"]
        /\ UNCHANGED <<doomed, seen>>
    BY <1>6 DEF AbortReap
  <2> QED BY <2>1, RootAssumption DEF TypeInv, TypeOK, SurvivorInv, KnownInv, NoKnownSurvivor, Living
<1> QED BY <1>2, <1>3, <1>4, <1>5, <1>6 DEF StartUp

LEMMA SurvivorLoop ==
  ASSUME TypeInv, SurvivorInv, Tick
  PROVE  SurvivorInv'
<1>1. PICK fault \in BOOLEAN, found \in Found : Pass(fault, found)
  BY DEF Tick
<1>2. seen' = seen \cup found /\ pc' \in {"loop", "finish"}
  BY <1>1, PassEffect
<1>3. UNCHANGED proc
  BY DEF Tick
<1>4. KnownInv'
  BY <1>2, <1>3, SurvivorScan DEF BlindScan
<1> QED BY <1>2, <1>4 DEF SurvivorInv, NoKnownSurvivor

LEMMA SurvivorEnding ==
  ASSUME TypeInv, SurvivorInv, Ending
  PROVE  SurvivorInv'
<1> USE DEF osVars, beamVars, inputVars, threads, trackVars, flagVars, reportVars, frameVars,
            pumpVars
<1>1. CASE Finish
  <2>1. PICK found \in Found : seen' = seen \cup found /\ doomed' = doomed \cup found
    BY <1>1 DEF Finish
  <2>2. UNCHANGED proc
    BY <1>1 DEF Finish
  <2>3. KnownInv' /\ Living \cap seen \subseteq found
    BY <2>1, <2>2, SurvivorScan DEF BlindScan
  <2>4. Living' \cap seen' \subseteq doomed'
    BY <2>1, <2>2, <2>3 DEF Living
  <2> QED BY <2>3, <2>4 DEF SurvivorInv, NoKnownSurvivor
<1>2. CASE Reap
  <2>1. /\ pc = "reap" /\ proc' = [proc EXCEPT ![Root] = "dead"]
        /\ UNCHANGED <<doomed, seen>>
    BY <1>2 DEF Reap
  <2> QED BY <2>1, RootAssumption DEF TypeInv, TypeOK, SurvivorInv, KnownInv, NoKnownSurvivor, Living
<1>3. CASE Ending /\ ~Finish /\ ~Reap
  <2>1. /\ UNCHANGED <<proc, doomed, seen>>
        /\ pc \notin {"start", "abort", "abortlast", "loop", "finish"}
    BY <1>3 DEF Ending, ReapExpired, SettleGone, Settle, BoundedEnds, StrictPeerGone,
                StrictLost, StrictCredit, StrictKill, StrictIgnore, StrictDrained, SendExit,
                Delivered, Linger, LingerPeerGone
  <2> QED BY <2>1 DEF SurvivorInv, KnownInv, NoKnownSurvivor, Living
<1> QED BY <1>1, <1>2, <1>3

LEMMA SurvivorStep == TypeInv /\ SurvivorInv /\ [Next]_vars => SurvivorInv'
<1> SUFFICES ASSUME TypeInv, SurvivorInv, [Next]_vars PROVE SurvivorInv'
  OBVIOUS
<1>1. CASE Beam \/ Threads \/ Deadline \/ LoopEvent \/ Finished \/ UNCHANGED vars
  BY <1>1, Quiet DEF SurvivorInv, KnownInv, NoKnownSurvivor, Living
<1>2. CASE System
  BY <1>2, SurvivorSystem DEF TypeInv
<1> QED BY <1>1, <1>2, SurvivorStart, SurvivorLoop, SurvivorEnding DEF Next

LEMMA SurvivorInductive == Spec => []SurvivorInv
BY TypeInductive, SurvivorInit, SurvivorStep, PTL DEF Spec

\* Past the final scan every process that any scan found is dead or about to
\* die of SIGKILL (finish_scan), in an aborted start too.
THEOREM KnownSurvivorsAreKilled == Spec => []NoKnownSurvivor
<1>1. SurvivorInv => NoKnownSurvivor
  BY DEF SurvivorInv
<1> QED BY <1>1, SurvivorInductive, PTL

-----------------------------------------------------------------------------
(* The history.                                                            *)

\* The BEAM is told of every group found, or the loss is on record; a BEAM or
\* a frame writer that is gone is told nothing.
Remembered ==
  \/ beamGone \/ frameWriter = "failed" \/ historyTruncated
  \/ seen \subseteq announced \cup control \cup fresh

Reporting == {"bounded", "strict", "exit", "deliver", "linger"}
Supervising == {"loop", "finish", "reap", "settle"} \cup Reporting

\* EXIT comes last: once it may be written, nothing found is left to queue.
HistoryInv ==
  /\ exitQueued => pc \in {"deliver", "linger", "gone"}
  /\ exits # {} => exitQueued
  /\ frameWriter = "done" => exits # {}
  /\ exits # {} => frameWriter = "done"
  /\ fresh # {} => pc \in {"reap", "settle", "gone"}
  /\ pc \in Reporting => ~beamGone
  /\ pc \in Supervising => Remembered
  /\ HistoryHonest

LEMMA HistoryInit == Init => HistoryInv
BY DEF Init, HistoryInv, HistoryHonest, Supervising, Reporting

\* Everything but the frame writer, the loop's pass, the start and the ending
\* leaves the history as it is.
LEMMA HistoryQuiet ==
  ASSUME System \/ Beam \/ (Threads /\ ~FrameWrite) \/ Deadline \/ LoopEvent \/ Finished
           \/ UNCHANGED vars
  PROVE  /\ UNCHANGED <<seen, fresh, pc, historyTruncated, exitQueued, control, announced, exits,
                        frameWriter>>
         /\ beamGone => beamGone'
         /\ beamGone' => beamGone \/ pc = "loop"
<1> USE DEF osVars, beamVars, inputVars, threads, trackVars, flagVars, reportVars, frameVars,
            pumpVars
<1>1. CASE System \/ Beam \/ Deadline \/ Finished \/ UNCHANGED vars
  BY <1>1 DEF System, Fork, Die, Write, ReadInput, Beam, SendKill, SendCredit, SendInput, Send,
              ClosePort, Deadline, Finished, vars
<1>2. CASE Threads /\ ~FrameWrite
  BY <1>2 DEF Threads, Reader, ReaderEvent, ReaderInput, ReaderResumes, ReaderFinishes,
              ReaderEof, InputWriter, WriterTakes, WriterEnds, WriterFails, Waiter, WaiterSend,
              WaiterFails, TimerFire, Pump, PumpPermit, PumpRead, PumpWrite
<1>3. CASE LoopEvent
  BY <1>3 DEF LoopEvent, LoopCredit, LoopKill, LoopLost, LoopTimeout, LoopExited,
              LoopWaitFailed, BeginCleanup
<1> QED BY <1>1, <1>2, <1>3

LEMMA HistoryStays ==
  ASSUME HistoryInv,
         System \/ Beam \/ (Threads /\ ~FrameWrite) \/ Deadline \/ LoopEvent \/ Finished
           \/ UNCHANGED vars
  PROVE  HistoryInv'
BY HistoryQuiet DEF HistoryInv, HistoryHonest, Remembered, Supervising, Reporting

\* The writer announces before it reports, and reports once.
LEMMA HistoryWrite ==
  ASSUME TypeOK, HistoryInv, FrameWrite
  PROVE  HistoryInv'
<1> USE DEF osVars, beamVars, inputVars, threads, trackVars, flagVars, reportVars, frameVars,
            pumpVars
<1>1. /\ Running /\ frameWriter = "run" /\ (control # {} \/ exitQueued)
      /\ UNCHANGED <<seen, fresh, pc, historyTruncated, exitQueued, beamGone>>
  BY DEF FrameWrite
<1>2. exits = {}
  BY <1>1 DEF HistoryInv
<1>3. CASE port = "closed"
  <2>1. frameWriter' = "failed" /\ UNCHANGED <<announced, exits>>
    BY <1>3 DEF FrameWrite
  <2> QED BY <1>1, <1>2, <2>1 DEF HistoryInv, HistoryHonest, Remembered, Supervising, Reporting
<1>4. CASE port # "closed" /\ control # {}
  <2>1. /\ announced \cup control \subseteq announced' \cup control'
        /\ UNCHANGED <<exits, frameWriter>>
    BY <1>4 DEF FrameWrite
  <2> QED BY <1>1, <1>2, <2>1 DEF HistoryInv, HistoryHonest, Remembered, Supervising, Reporting
<1>5. CASE port # "closed" /\ control = {}
  <2>1. /\ frameWriter' = "done" /\ UNCHANGED <<control, announced>>
        /\ exits' = {[confirmed |-> confirmed, timedOut |-> timedOut, truncated |-> truncated,
                      historyTruncated |-> historyTruncated]}
    BY <1>2, <1>5 DEF FrameWrite
  <2>2. exitQueued /\ pc \in {"deliver", "linger"}
    BY <1>1, <1>5 DEF HistoryInv, Running, Up
  <2>3. fresh = {} /\ ~beamGone /\ Remembered
    BY <2>2 DEF HistoryInv, Supervising, Reporting
  <2>4. historyTruncated \/ seen \subseteq announced
    BY <1>1, <1>5, <2>3 DEF Remembered
  <2>5. HistoryHonest'
    BY <1>1, <2>1, <2>4 DEF HistoryHonest
  <2>6. Remembered'
    BY <1>1, <2>1, <2>4 DEF Remembered
  <2> QED BY <1>1, <2>1, <2>2, <2>3, <2>5, <2>6 DEF HistoryInv
<1> QED BY <1>3, <1>4, <1>5

LEMMA HistoryLoop ==
  ASSUME TypeInv, HistoryInv, Tick
  PROVE  HistoryInv'
<1> USE DEF osVars, beamVars, inputVars, threads, trackVars, flagVars, reportVars, frameVars,
            pumpVars
<1>1. PICK fault \in BOOLEAN, found \in Found : Pass(fault, found)
  BY DEF Tick
<1>2. /\ seen' = seen \cup found /\ pc' \in {"loop", "finish"} /\ (beamGone => beamGone')
      /\ \/ UNCHANGED <<control, historyTruncated>> /\ beamGone'
         \/ \E queued \in Accepted(found \ seen) :
              /\ control' = control \cup queued
              /\ historyTruncated' = (historyTruncated \/ queued # found \ seen)
  BY <1>1, PassEffect
<1>3. pc = "loop" /\ UNCHANGED <<fresh, exitQueued, frameWriter, announced, exits>>
  BY DEF Tick
<1>4. exits = {} /\ fresh = {} /\ Remembered /\ ~exitQueued
  BY <1>3 DEF HistoryInv, Supervising
<1>5. Remembered'
  <2>1. CASE beamGone'
    BY <2>1 DEF Remembered
  <2>2. CASE historyTruncated'
    BY <2>2 DEF Remembered
  <2>3. CASE ~beamGone' /\ ~historyTruncated'
    <3>1. ~historyTruncated /\ control' = control \cup (found \ seen)
      BY <1>2, <2>3
    <3> QED BY <1>2, <1>3, <1>4, <2>3, <3>1 DEF Remembered
  <2> QED BY <2>1, <2>2, <2>3
<1> QED BY <1>2, <1>3, <1>4, <1>5 DEF HistoryInv, HistoryHonest, Reporting

LEMMA HistoryStart ==
  ASSUME TypeInv, HistoryInv, StartUp
  PROVE  HistoryInv'
<1> USE DEF osVars, beamVars, inputVars, threads, trackVars, flagVars, reportVars, frameVars,
            pumpVars
<1>1. exits = {} /\ fresh = {} /\ ~exitQueued
  BY DEF StartUp, Start, StartFails, AbortTick, AbortFinish, AbortReap, HistoryInv
<1>2. UNCHANGED <<exits, fresh, exitQueued, frameWriter>>
  BY DEF StartUp, Start, StartFails, AbortTick, AbortFinish, AbortReap
<1>3. Start => seen' = {Root} /\ announced' = {Root} /\ pc' = "loop"
  BY DEF Start
<1>4. ~Start => pc' \in {"abort", "abortlast", "abortreap", "aborted"}
  BY DEF StartUp, StartFails, AbortTick, AbortFinish, AbortReap
<1> QED BY <1>1, <1>2, <1>3, <1>4
    DEF HistoryInv, HistoryHonest, Remembered, Supervising, Reporting

LEMMA HistoryEnding ==
  ASSUME TypeInv, HistoryInv, Ending
  PROVE  HistoryInv'
<1> USE DEF osVars, beamVars, inputVars, threads, trackVars, flagVars, reportVars, frameVars,
            pumpVars
<1>1. UNCHANGED <<exits, announced, beamGone, frameWriter>>
  BY DEF Ending, Finish, Reap, ReapExpired, SettleGone, Settle, BoundedEnds, StrictPeerGone,
         StrictLost, StrictCredit, StrictKill, StrictIgnore, StrictDrained, SendExit, Delivered,
         Linger, LingerPeerGone
<1>2. CASE Finish
  <2>1. /\ pc = "finish" /\ pc' = "reap" /\ UNCHANGED <<exitQueued, historyTruncated, control>>
        /\ seen' \subseteq seen \cup fresh'
    BY <1>2 DEF Finish
  <2>2. exits = {} /\ ~exitQueued /\ fresh = {} /\ Remembered
    BY <2>1 DEF HistoryInv, Supervising
  <2> QED BY <1>1, <2>1, <2>2 DEF HistoryInv, HistoryHonest, Remembered, Reporting
<1>3. CASE Settle
  <2>1. /\ pc = "settle" /\ pc' \in {"strict", "bounded"} /\ ~beamGone
        /\ fresh' = {} /\ UNCHANGED <<exitQueued, seen>>
    BY <1>3 DEF Settle
  <2>2. exits = {} /\ ~exitQueued /\ Remembered
    BY <2>1 DEF HistoryInv, Supervising
  <2>3. Remembered'
    <3>1. CASE frameWriter = "failed"
      BY <1>1, <3>1 DEF Remembered
    <3>2. CASE frameWriter # "failed"
      <4>1. PICK queued \in Accepted(fresh) :
              /\ control' = control \cup queued
              /\ historyTruncated' = (historyTruncated \/ queued # fresh)
        BY <1>3, <3>2 DEF Settle
      <4>2. CASE historyTruncated \/ queued # fresh
        BY <4>1, <4>2 DEF Remembered
      <4>3. CASE ~historyTruncated /\ queued = fresh
        BY <1>1, <2>1, <2>2, <3>2, <4>1, <4>3 DEF Remembered
      <4> QED BY <4>2, <4>3
    <3> QED BY <3>1, <3>2
  <2> QED BY <1>1, <2>1, <2>2, <2>3 DEF HistoryInv, HistoryHonest
<1>4. CASE Reap \/ ReapExpired
  <2>1. /\ pc = "reap" /\ pc' = "settle"
        /\ UNCHANGED <<exitQueued, historyTruncated, control, seen, fresh>>
    BY <1>4 DEF Reap, ReapExpired
  <2> QED BY <1>1, <2>1 DEF HistoryInv, HistoryHonest, Remembered, Supervising, Reporting
<1>5. CASE SettleGone
  <2>1. /\ pc = "settle" /\ pc' = "gone"
        /\ UNCHANGED <<exitQueued, historyTruncated, control, seen, fresh>>
    BY <1>5 DEF SettleGone
  <2> QED BY <1>1, <2>1 DEF HistoryInv, HistoryHonest, Supervising, Reporting
<1>6. CASE SendExit
  <2>1. /\ pc = "exit" /\ pc' = "deliver"
        /\ UNCHANGED <<historyTruncated, control, seen, fresh>>
    BY <1>6 DEF SendExit
  <2>2. exits = {}
    BY <2>1 DEF HistoryInv
  <2> QED BY <1>1, <2>1, <2>2 DEF HistoryInv, HistoryHonest, Remembered, Supervising, Reporting
<1>7. CASE Delivered \/ Linger \/ LingerPeerGone
  <2>1. /\ pc \in {"deliver", "linger"} /\ pc' \in {"linger", "gone"}
        /\ UNCHANGED <<exitQueued, historyTruncated, control, seen, fresh>>
    BY <1>7 DEF Delivered, Linger, LingerPeerGone
  <2> QED BY <1>1, <2>1 DEF HistoryInv, HistoryHonest, Remembered, Supervising, Reporting
<1>8. CASE \/ BoundedEnds \/ StrictPeerGone \/ StrictLost \/ StrictCredit \/ StrictKill
           \/ StrictIgnore \/ StrictDrained
  <2>1. /\ pc \in {"bounded", "strict"} /\ pc' \in {"bounded", "strict", "exit", "gone"}
        /\ UNCHANGED <<exitQueued, historyTruncated, control, seen, fresh>>
    BY <1>8 DEF BoundedEnds, StrictPeerGone, StrictLost, StrictCredit, StrictKill, StrictIgnore,
                StrictDrained
  <2>2. exits = {} /\ ~exitQueued
    BY <2>1 DEF HistoryInv
  <2> QED BY <1>1, <2>1, <2>2 DEF HistoryInv, HistoryHonest, Remembered, Supervising, Reporting
<1> QED BY <1>2, <1>3, <1>4, <1>5, <1>6, <1>7, <1>8 DEF Ending

LEMMA HistoryStep == TypeInv /\ HistoryInv /\ [Next]_vars => HistoryInv'
<1> SUFFICES ASSUME TypeInv, HistoryInv, [Next]_vars PROVE HistoryInv'
  OBVIOUS
<1>1. CASE FrameWrite
  BY <1>1, HistoryWrite DEF TypeInv
<1> QED BY <1>1, HistoryStays, HistoryLoop, HistoryStart, HistoryEnding DEF Next

LEMMA HistoryInductive == Spec => []HistoryInv
BY TypeInductive, HistoryInit, HistoryStep, PTL DEF Spec

\* The queue of TRACKED frames is bounded, and an EXIT that does not say the
\* history was truncated comes after a frame for every group ever found.
THEOREM HistoryIsKept == Spec => []HistoryKept
<1>1. TypeInv /\ HistoryInv => HistoryKept
  BY DEF TypeInv, HistoryInv, HistoryKept
<1> QED BY <1>1, TypeInductive, HistoryInductive, PTL

-----------------------------------------------------------------------------
(* The contract.                                                           *)

Lost == {"CLOSED", "WRITEFAILED"}

\* Whoever says the BEAM left says so after it did.
PeerInv ==
  /\ \A i \in 1..Len(events) : events[i] \in Lost => port = "closed"
  /\ beamGone => port = "closed"
  /\ frameWriter = "failed" => port = "closed"

\* A confirmation that will be reported comes after the child's end.
ConfirmedInv ==
  pc \in Reporting \cup {"settle"} /\ confirmed => proc[Root] # "live"

LEMMA PeerQueue ==
  ASSUME events \in Seq(Event), PeerInv, port' \in {port, "closed"},
         \/ UNCHANGED events
         \/ events # <<>> /\ events' = Tail(events)
         \/ \E e \in Event : /\ e \in Lost => port = "closed"
                             /\ events' = Append(events, e)
  PROVE  \A i \in 1..Len(events') : events'[i] \in Lost => port' = "closed"
<1>1. CASE UNCHANGED events
  BY <1>1 DEF PeerInv
<1>2. CASE events # <<>> /\ events' = Tail(events)
  <2>1. Len(events') = Len(events) - 1 /\ Len(events) \in Nat
        /\ \A i \in 1..Len(events') : events'[i] = events[i + 1]
    BY <1>2, HeadTailProperties
  <2> SUFFICES ASSUME NEW i \in 1..Len(events'), events'[i] \in Lost PROVE port' = "closed"
    OBVIOUS
  <2>2. i + 1 \in 1..Len(events) /\ events[i + 1] \in Lost
    BY <2>1
  <2> QED BY <2>2 DEF PeerInv
<1>3. ASSUME NEW e \in Event, e \in Lost => port = "closed", events' = Append(events, e)
      PROVE  \A i \in 1..Len(events') : events'[i] \in Lost => port' = "closed"
  <2>1. Len(events') = Len(events) + 1 /\ Len(events) \in Nat
        /\ events'[Len(events) + 1] = e
        /\ \A i \in 1..Len(events) : events'[i] = events[i]
    BY <1>3, AppendProperties
  <2> QED BY <1>3, <2>1 DEF PeerInv
<1> QED BY <1>1, <1>2, <1>3

\* An event at the head of the channel that reports the loss is true.
LEMMA LossIsTrue ==
  ASSUME TypeOK, PeerInv, events # <<>>, Head(events) \in Lost PROVE port = "closed"
<1>1. events \in Seq(Event) /\ events[1] \in Lost
  BY HeadTailProperties DEF TypeOK, Event
<1>2. Len(events) \in Nat /\ Len(events) >= 1
  BY <1>1, EmptySeq, LenProperties
<1> QED BY <1>1, <1>2 DEF PeerInv

\* What a step may do to the channel, the port and the BEAM's absence.
LEMMA StepShape ==
  ASSUME TypeInv, PeerInv, [Next]_vars
  PROVE  /\ port' \in {port, "closed"} /\ (ClosePort \/ UNCHANGED port)
         /\ \/ UNCHANGED events
            \/ events # <<>> /\ events' = Tail(events)
            \/ \E e \in Event : (e \in Lost => port = "closed") /\ events' = Append(events, e)
         /\ beamGone' => port = "closed"
         /\ frameWriter' = "failed" => port = "closed"
<1> USE DEF osVars, beamVars, inputVars, threads, trackVars, flagVars, reportVars, frameVars,
            pumpVars
<1> USE DEF PeerInv
<1>1. CASE System \/ Beam \/ StartUp \/ Deadline \/ Finished \/ UNCHANGED vars
  BY <1>1 DEF System, Fork, Die, Write, ReadInput, Beam, SendKill, SendCredit, SendInput, Send,
              ClosePort, StartUp, Start, StartFails, AbortTick, AbortFinish, AbortReap, Deadline,
              Finished, vars
<1>2. CASE Threads
  <2>1. Head(wire) \in {"KILL", "CREDIT"} => Head(wire) \in Event \ Lost
    BY DEF Event, Lost
  <2>2. {"CLOSED", "EXITED", "WAITFAILED", "TIMEOUT", "WRITEFAILED"} \subseteq Event
        /\ {"EXITED", "WAITFAILED", "TIMEOUT"} \cap Lost = {}
    BY DEF Event, Lost
  <2>3. CASE ReaderEvent
    BY <2>1, <2>3 DEF ReaderEvent
  <2>4. CASE ReaderEof \/ WaiterSend \/ WaiterFails \/ TimerFire
    BY <2>2, <2>4 DEF ReaderEof, WaiterSend, WaiterFails, TimerFire
  <2>5. CASE FrameWrite
    BY <2>2, <2>5 DEF FrameWrite
  <2>6. CASE ReaderInput \/ ReaderResumes \/ ReaderFinishes \/ InputWriter \/ Pump
    BY <2>6 DEF ReaderInput, ReaderResumes, ReaderFinishes, InputWriter, WriterTakes, WriterEnds,
                WriterFails, Pump, PumpPermit, PumpRead, PumpWrite
  <2> QED BY <1>2, <2>3, <2>4, <2>5, <2>6 DEF Threads, Reader, Waiter
<1>3. CASE Tick
  <2>1. beamGone' => beamGone \/ port = "closed" \/ frameWriter = "failed"
    BY <1>3, PassEffect DEF Tick
  <2> QED BY <1>3, <2>1 DEF Tick
<1>4. CASE LoopEvent
  <2>1. LoopLost => port = "closed"
    BY LossIsTrue DEF LoopLost, Take, Lost, TypeInv
  <2> QED BY <1>4, <2>1 DEF LoopEvent, LoopCredit, LoopKill, LoopLost, LoopTimeout, LoopExited,
                            LoopWaitFailed, BeginCleanup, Take
<1>5. CASE Ending
  BY <1>5 DEF Ending, Finish, Reap, ReapExpired, SettleGone, Settle, BoundedEnds,
              StrictPeerGone, StrictLost, StrictCredit, StrictKill, StrictIgnore, StrictDrained,
              SendExit, Delivered, Linger, LingerPeerGone, Take
<1> QED BY <1>1, <1>2, <1>3, <1>4, <1>5 DEF Next

LEMMA PeerInductive == Spec => []PeerInv
<1>1. Init => PeerInv
  BY EmptySeq DEF Init, PeerInv
<1>2. TypeInv /\ PeerInv /\ [Next]_vars => PeerInv'
  <2> SUFFICES ASSUME TypeInv, PeerInv, [Next]_vars PROVE PeerInv'
    OBVIOUS
  <2>1. events \in Seq(Event)
    BY DEF TypeInv, TypeOK, Event
  <2>2. \A i \in 1..Len(events') : events'[i] \in Lost => port' = "closed"
    BY <2>1, StepShape, PeerQueue
  <2> QED BY <2>2, StepShape DEF PeerInv
<1> QED BY <1>1, <1>2, TypeInductive, PTL DEF Spec

\* The child, once dead, stays dead.
LEMMA ChildStays ==
  ASSUME TypeOK, KnownInv, [Next]_vars
  PROVE  proc[Root] # "live" => proc'[Root] # "live"
<1> USE DEF osVars, beamVars, inputVars, threads, trackVars, flagVars, reportVars, frameVars,
            pumpVars
<1>1. CASE \E p, q \in Procs : Fork(p, q)
  BY <1>1, RootAssumption DEF Fork, TypeOK, KnownInv
<1>2. CASE \E p \in Procs : Die(p)
  BY <1>2, RootAssumption DEF Die, TypeOK, KnownInv
<1>3. CASE AbortReap \/ Reap
  BY <1>3, RootAssumption DEF AbortReap, Reap, TypeOK
<1>4. CASE Write \/ ReadInput \/ Beam \/ Threads \/ Deadline \/ LoopEvent \/ Finished \/ UNCHANGED vars
  BY <1>4, Quiet
<1>5. CASE (StartUp /\ ~AbortReap) \/ Tick \/ (Ending /\ ~Reap)
  BY <1>5 DEF StartUp, Start, StartFails, AbortTick, AbortFinish, Tick, Ending, Finish,
              ReapExpired, SettleGone, Settle, BoundedEnds, StrictPeerGone, StrictLost,
              StrictCredit, StrictKill, StrictIgnore, StrictDrained, SendExit, Delivered, Linger,
              LingerPeerGone
<1> QED BY <1>1, <1>2, <1>3, <1>4, <1>5 DEF Next, System

LEMMA ConfirmedInductive == Spec => []ConfirmedInv
<1>1. Init => ConfirmedInv
  BY DEF Init, ConfirmedInv, Reporting
<1>2. TypeInv /\ SurvivorInv /\ ConfirmedInv /\ [Next]_vars => ConfirmedInv'
  <2> SUFFICES ASSUME TypeInv, SurvivorInv, ConfirmedInv, [Next]_vars PROVE ConfirmedInv'
    OBVIOUS
  <2> USE DEF osVars, beamVars, inputVars, threads, trackVars, flagVars, reportVars, frameVars,
            pumpVars

  <2>1. proc[Root] # "live" => proc'[Root] # "live"
    BY ChildStays DEF TypeInv, SurvivorInv
  <2>2. CASE System \/ Beam \/ Threads \/ Deadline \/ LoopEvent \/ Finished \/ UNCHANGED vars
    <3>1. UNCHANGED <<pc, confirmed>>
      BY <2>2, Quiet DEF System, Fork, Die
    <3> QED BY <2>1, <3>1 DEF ConfirmedInv
  <2>3. CASE StartUp
    <3>1. pc' \in {"loop", "abort", "abortlast", "abortreap", "aborted"}
      BY <2>3 DEF StartUp, Start, StartFails, AbortTick, AbortFinish, AbortReap
    <3> QED BY <3>1 DEF ConfirmedInv, Reporting
  <2>4. CASE Tick
    <3>1. pc' \in {"loop", "finish"}
      BY <2>4, PassEffect DEF Tick
    <3> QED BY <3>1 DEF ConfirmedInv, Reporting
  <2>5. CASE Finish \/ SettleGone
    BY <2>5 DEF Finish, SettleGone, ConfirmedInv, Reporting
  <2>6. CASE Reap
    <3>1. proc'[Root] = "dead"
      BY <2>6, RootAssumption DEF Reap, TypeInv, TypeOK
    <3> QED BY <3>1 DEF ConfirmedInv
  <2>7. CASE ReapExpired
    BY <2>7 DEF ReapExpired, ConfirmedInv
  <2>8. CASE Ending /\ ~(Finish \/ SettleGone \/ Reap \/ ReapExpired)
    <3>1. UNCHANGED confirmed /\ pc \in Reporting \cup {"settle"}
      BY <2>8 DEF Ending, Settle, BoundedEnds, StrictPeerGone, StrictLost, StrictCredit,
                  StrictKill, StrictIgnore, StrictDrained, SendExit, Delivered, Linger,
                  LingerPeerGone, Reporting
    <3> QED BY <2>1, <3>1 DEF ConfirmedInv
  <2> QED BY <2>2, <2>3, <2>4, <2>5, <2>6, <2>7, <2>8 DEF Next
<1> QED BY <1>1, <1>2, TypeInductive, SurvivorInductive, PTL DEF Spec

\* Processes only end, as the contract sees them.
LEMMA SystemRefines ==
  ASSUME TypeOK, KnownInv, System \/ Reap \/ AbortReap
  PROVE  Contract!ProcessesEnd \/ UNCHANGED Contract!vars
<1> USE DEF osVars, beamVars, inputVars, threads, trackVars, flagVars, reportVars, frameVars,
            pumpVars
<1>1. UNCHANGED <<port, exits>> /\ (pc # "gone" <=> pc' # "gone")
  BY DEF System, Fork, Die, Write, ReadInput, Reap, AbortReap
<1>2. (proc'[Root] = "live" => proc[Root] = "live") /\ (Living' # {} => Living # {})
  <2>1. CASE \E p, q \in Procs : Fork(p, q)
    BY <2>1, RootAssumption DEF Fork, Living, TypeOK, KnownInv
  <2>2. CASE \E p \in Procs : Die(p)
    BY <2>2, RootAssumption DEF Die, Living, TypeOK
  <2>3. CASE Write \/ ReadInput
    BY <2>3 DEF Write, ReadInput, Living
  <2>4. CASE Reap \/ AbortReap
    BY <2>4, RootAssumption DEF Reap, AbortReap, Living, TypeOK
  <2> QED BY <2>1, <2>2, <2>3, <2>4 DEF System
<1>3. UNCHANGED <<port, {r.confirmed : r \in exits}, pc # "gone">>
  BY <1>1
<1>4. /\ (proc[Root] = "live")' \in {proc[Root] = "live", FALSE}
      /\ (Living # {})' \in {Living # {}, FALSE}
  BY <1>2, Zenon
<1> QED BY <1>3, <1>4 DEF Contract!ProcessesEnd

\* Without processes ending, a frame, a departure or the shim's end, the
\* contract sees nothing.
LEMMA Unseen ==
  ASSUME Next, ~System, ~Reap, ~AbortReap
  PROVE  /\ UNCHANGED proc
         /\ ClosePort \/ UNCHANGED port
         /\ FrameWrite \/ UNCHANGED exits
         /\ ClosePort \/ FrameWrite => UNCHANGED pc
         /\ pc = "gone" => pc' = "gone"
<1> USE DEF osVars, beamVars, inputVars, threads, trackVars, flagVars, reportVars, frameVars,
            pumpVars
<1>1. CASE Beam \/ Deadline \/ LoopEvent \/ Finished
  BY <1>1 DEF Beam, SendKill, SendCredit, SendInput, Send, ClosePort, FrameWrite, Deadline,
              LoopEvent, LoopCredit, LoopKill, LoopLost, LoopTimeout, LoopExited,
              LoopWaitFailed, BeginCleanup, Finished, vars
<1>2. CASE Threads
  BY <1>2 DEF ClosePort, Threads, Reader, ReaderEvent, ReaderInput, ReaderResumes,
              ReaderFinishes, ReaderEof, InputWriter, WriterTakes, WriterEnds, WriterFails,
              Waiter, WaiterSend, WaiterFails, TimerFire, FrameWrite, Pump, PumpPermit,
              PumpRead, PumpWrite
<1>3. CASE StartUp \/ Tick
  BY <1>3 DEF ClosePort, FrameWrite, StartUp, Start, StartFails, AbortTick, AbortFinish, Tick
<1>4. CASE Ending
  <2>1. UNCHANGED <<proc, port, exits, frameWriter, control>> \/ Settle
    BY <1>4 DEF Ending, Finish, ReapExpired, SettleGone, BoundedEnds, StrictPeerGone,
                StrictLost, StrictCredit, StrictKill, StrictIgnore, StrictDrained, SendExit,
                Delivered, Linger, LingerPeerGone
  <2>2. Settle => UNCHANGED <<proc, port, exits, frameWriter>> /\ pc' # pc
    BY DEF Settle
  <2>3. pc # "gone"
    BY <1>4 DEF Ending, Finish, ReapExpired, SettleGone, Settle, BoundedEnds, StrictPeerGone,
                StrictLost, StrictCredit, StrictKill, StrictIgnore, StrictDrained, SendExit,
                Delivered, Linger, LingerPeerGone
  <2>4. ~ClosePort
    BY <2>1, <2>2 DEF ClosePort
  <2>5. FrameWrite => UNCHANGED pc /\ ~UNCHANGED <<frameWriter, control>>
    BY DEF FrameWrite
  <2>6. ~FrameWrite
    BY <2>1, <2>2, <2>5
  <2> QED BY <2>1, <2>2, <2>3, <2>4, <2>6
<1> QED BY <1>1, <1>2, <1>3, <1>4 DEF Next

\* The shim ends after its EXIT or towards a BEAM that left.
LEMMA EndIsDue ==
  ASSUME TypeOK, PeerInv, HistoryInv, Next, pc # "gone", pc' = "gone"
  PROVE  port = "closed" \/ exits # {}
<1> USE DEF osVars, beamVars, inputVars, threads, trackVars, flagVars, reportVars, frameVars,
            pumpVars
<1>1. \/ SettleGone \/ StrictPeerGone \/ StrictLost \/ Delivered \/ Linger \/ LingerPeerGone
  <2>1. CASE System \/ Beam \/ Threads \/ Deadline \/ LoopEvent \/ Finished
    <3>1. UNCHANGED pc
      BY <2>1, Quiet DEF System, Fork, Die
    <3> QED BY <3>1
  <2>2. CASE StartUp \/ Tick
    BY <2>2 DEF StartUp, Start, StartFails, AbortTick, AbortFinish, AbortReap, Tick, Pass
  <2>3. CASE Ending
    BY <2>3 DEF Ending, Finish, Reap, ReapExpired, Settle, BoundedEnds, StrictCredit,
                StrictKill, StrictIgnore, StrictDrained, SendExit
  <2> QED BY <2>1, <2>2, <2>3 DEF Next
<1>2. CASE SettleGone \/ StrictPeerGone \/ LingerPeerGone
  BY <1>2 DEF SettleGone, StrictPeerGone, LingerPeerGone, PeerDisconnected, PeerInv
<1>3. CASE StrictLost
  BY <1>3, LossIsTrue DEF StrictLost, Take, Lost
<1>4. CASE Linger
  BY <1>4, LossIsTrue DEF Linger, Lost
<1>5. CASE Delivered
  <2>1. frameWriter \in {"failed", "done"}
    BY <1>5 DEF Delivered, TypeOK
  <2> QED BY <2>1 DEF PeerInv, HistoryInv
<1> QED BY <1>1, <1>2, <1>3, <1>4, <1>5

\* The frame writer's EXIT is the contract's delivery.
LEMMA WriteRefines ==
  ASSUME TypeOK, HistoryInv, ConfirmedInv, FrameWrite, NEW c \in BOOLEAN, c = confirmed
  PROVE  Contract!Deliver(c) \/ UNCHANGED Contract!vars
<1> USE DEF osVars, beamVars, inputVars, threads, trackVars, flagVars, reportVars, frameVars,
            pumpVars
<1>1. UNCHANGED <<proc, port, pc>> /\ pc # "gone" /\ Living' = Living /\ frameWriter = "run"
  BY DEF FrameWrite, Running, Up, Living
<1>2. CASE UNCHANGED exits
  BY <1>1, <1>2 DEF Contract!vars
<1>3. CASE exits' # exits
  <2>1. exits = {} /\ port = "open" /\ exitQueued
    BY <1>1, <1>3 DEF FrameWrite, HistoryInv, TypeOK
  <2>2. exits' = {[confirmed |-> confirmed, timedOut |-> timedOut, truncated |-> truncated,
                   historyTruncated |-> historyTruncated]}
    BY <1>3, <2>1 DEF FrameWrite
  <2>3. {r.confirmed : r \in exits} = {} /\ {r.confirmed : r \in exits'} = {c}
    BY <2>1, <2>2
  <2>4. c => ~(proc[Root] = "live")
    BY <1>1, <2>1 DEF HistoryInv, ConfirmedInv, Reporting
  <2>5. (pc # "gone") /\ (pc # "gone")' \in BOOLEAN
    BY <1>1
  <2> QED BY <1>1, <2>1, <2>3, <2>4, <2>5 DEF Contract!Deliver
<1> QED BY <1>2, <1>3

\* A shim that tracks descendants keeps the contract of the untracked one for
\* the child itself: a confirmed EXIT is true of it, at most one is delivered,
\* and the shim falls silent only towards a BEAM that left.
THEOREM TrackedImplementsContract == Spec => ImplementsContract
<1>1. Init => Contract!Init
  <2> SUFFICES ASSUME Init PROVE Contract!Init
    OBVIOUS
  <2>1. proc[Root] = "live" /\ Living # {}
    BY RootAssumption DEF Init, Living
  <2> QED BY <2>1 DEF Init, Contract!Init
<1>2. TypeInv /\ SurvivorInv /\ HistoryInv /\ PeerInv /\ ConfirmedInv /\ [Next]_vars
        => [Contract!Next]_(Contract!vars)
  <2> SUFFICES ASSUME TypeInv, SurvivorInv, HistoryInv, PeerInv, ConfirmedInv, [Next]_vars
               PROVE  Contract!Next \/ UNCHANGED Contract!vars
    OBVIOUS
  <2>1. TypeOK /\ KnownInv
    BY DEF TypeInv, SurvivorInv
  <2>2. CASE System \/ Reap \/ AbortReap
    BY <2>1, <2>2, SystemRefines DEF Contract!Next
  <2>3. CASE FrameWrite
    <3>1. PICK c \in BOOLEAN : c = confirmed
      BY <2>1 DEF TypeOK
    <3> QED BY <2>1, <2>3, <3>1, WriteRefines DEF Contract!Next
  <2>4. CASE Next /\ ~System /\ ~Reap /\ ~AbortReap /\ ~FrameWrite
    <3>1. /\ UNCHANGED <<proc, exits>> /\ (ClosePort \/ UNCHANGED port)
          /\ (ClosePort => UNCHANGED pc) /\ (pc = "gone" => pc' = "gone")
      BY <2>4, Unseen
    <3>2. Living' = Living
      BY <3>1 DEF Living
    <3>3. CASE ClosePort
      <4>1. port = "open" /\ port' = "closed"
        BY <3>3 DEF ClosePort
      <4> QED BY <3>1, <3>2, <3>3, <4>1 DEF Contract!Next, Contract!PeerLeaves
    <3>4. CASE ~ClosePort /\ pc # "gone" /\ pc' = "gone"
      <4>1. port = "closed" \/ {r.confirmed : r \in exits} # {}
        BY <2>1, <2>4, <3>4, EndIsDue
      <4> QED BY <3>1, <3>2, <3>4, <4>1 DEF Contract!Next, Contract!End
    <3>5. CASE ~ClosePort /\ (pc # "gone" <=> pc' # "gone")
      BY <3>1, <3>2, <3>5 DEF Contract!vars
    <3> QED BY <3>1, <3>3, <3>4, <3>5
  <2>5. CASE UNCHANGED vars
    BY <2>5 DEF vars, osVars, beamVars, frameVars, Contract!vars, Living
  <2> QED BY <2>2, <2>3, <2>4, <2>5
<1> QED
  BY <1>1, <1>2, TypeInductive, SurvivorInductive, HistoryInductive, PeerInductive,
     ConfirmedInductive, PTL DEF Spec, ImplementsContract, Contract!Spec

=============================================================================
