---------------------------- MODULE StartupProofs ----------------------------
(***************************************************************************)
(* What a start promises, for every request, feature set and number of     *)
(* failing calls and killed children: the program runs as it was asked to, *)
(* no step takes away the right to a later one, an ERROR names the step    *)
(* that failed, and a start that fails leaves nothing behind.              *)
(*                                                                         *)
(* The child's rights follow from the steps it has taken, and a step is    *)
(* only taken when every earlier one the request needs was.                *)
(***************************************************************************)
EXTENDS Startup, TLAPS

-----------------------------------------------------------------------------
(* The request.                                                            *)

\* What the request asks for never changes; only what is left of its bounds.
SameRequest ==
  /\ run'.asked = run.asked /\ run'.offered = run.offered /\ run'.cd = run.cd
  /\ run'.pty = run.pty /\ run'.sized = run.sized /\ run'.cgroup = run.cgroup
  /\ run'.shim = run.shim /\ run'.user = run.user /\ run'.group = run.group

RunInv ==
  /\ run \in RunType
  /\ \A u, v \in run.user : u = v
  /\ \A g, h \in run.group : g = h

LEMMA FaultSpent ==
  ASSUME run \in RunType, NEW n \in Nat, run' = [run EXCEPT !.faults = n]
  PROVE  run' \in RunType /\ SameRequest
BY DEF RunType, SameRequest

LEMMA KillSpent ==
  ASSUME run \in RunType, NEW n \in Nat, run' = [run EXCEPT !.kills = n]
  PROVE  run' \in RunType /\ SameRequest
BY DEF RunType, SameRequest

LEMMA FrameTaken ==
  ASSUME run \in RunType, Frame # "eof", NextFrame
  PROVE  run' \in RunType /\ SameRequest
<1>1. run.frames \in Seq(FrameKind) /\ run.frames # <<>>
  BY DEF RunType, Frame
<1>2. Tail(run.frames) \in Seq(FrameKind)
  BY <1>1
<1> QED
  BY <1>2 DEF RunType, SameRequest, NextFrame

LEMMA RunStep ==
  ASSUME RunInv, [Next]_vars
  PROVE  RunInv' /\ SameRequest
<1> SUFFICES run' \in RunType /\ SameRequest
  BY DEF RunInv, SameRequest
<1> run \in RunType
  BY DEF RunInv
<1>1. ASSUME run' = run PROVE run' \in RunType /\ SameRequest
  BY <1>1 DEF SameRequest
<1>2. ASSUME NEW what, Fails(what) PROVE run' \in RunType /\ SameRequest
  <2>1. run.faults \in Nat /\ run.faults > 0
    BY <1>2 DEF Fails, RunType
  <2>2. run.faults - 1 \in Nat
    BY <2>1
  <2> QED
    BY <1>2, <2>2, FaultSpent DEF Fails
<1>3. CASE ReadFails \/ ReadOther
  BY <1>1, <1>3 DEF ReadFails, ReadOther
<1>4. CASE ReadHello \/ ReadSpawn
  BY <1>4, FrameTaken DEF ReadHello, ReadSpawn
<1>5. CASE HelloUnanswered \/ PrepareTracking \/ PrepareCgroup \/ PrepareChannels
  BY <1>1, <1>2, <1>5 DEF HelloUnanswered, PrepareTracking, PrepareCgroup, PrepareChannels, Works
<1>6. CASE Resolve \/ Fork \/ ForkFails
  BY <1>1, <1>2, <1>6 DEF Resolve, Fork, ForkFails, Works
<1>7. CASE SpawnFailed \/ SpawnReturned \/ Attribute \/ AbortKill \/ AbortFinish
  BY <1>1, <1>7 DEF SpawnFailed, SpawnReturned, Attribute, AbortKill, AbortFinish
<1>8. CASE Announce \/ HandOver
  BY <1>1, <1>2, <1>8 DEF Announce, HandOver, Works
<1>9. ASSUME NEW s \in Steps, ChildStep(s) \/ ChildStepFails(s) PROVE run' \in RunType /\ SameRequest
  BY <1>1, <1>2, <1>9 DEF ChildStep, ChildStepFails
<1>10. ASSUME NEW s \in Steps, ReportLost(s) PROVE run' \in RunType /\ SameRequest
  <2>1. run.faults \in Nat /\ run.faults > 1
    BY <1>10 DEF ReportLost, RunType
  <2>2. run.faults - 2 \in Nat
    BY <2>1
  <2> QED
    BY <1>10, <2>2, FaultSpent DEF ReportLost
<1>11. CASE ChildTells \/ Forks \/ Exits
  BY <1>1, <1>11 DEF ChildTells, Forks, Exits
<1>12. CASE Killed
  <2>1. run.kills \in Nat /\ run.kills > 0
    BY <1>12 DEF Killed, RunType
  <2>2. run.kills - 1 \in Nat
    BY <2>1
  <2> QED
    BY <1>12, <2>2, KillSpent DEF Killed
<1>13. CASE UNCHANGED vars
  BY <1>1, <1>13 DEF vars
<1> QED
  BY <1>3, <1>4, <1>5, <1>6, <1>7, <1>8, <1>9, <1>10, <1>11, <1>12, <1>13
     DEF Next, Shim, ChildSetsUp

-----------------------------------------------------------------------------
(* The steps of the child.                                                 *)

LEMMA Places ==
  /\ DOMAIN Order = 1..10
  /\ Order[1] = "cwd" /\ Order[2] = "session" /\ Order[3] = "terminal" /\ Order[4] = "size"
  /\ Order[5] = "cgroup" /\ Order[6] = "groups" /\ Order[7] = "gid" /\ Order[8] = "uid"
  /\ Order[9] = "marker" /\ Order[10] = "exec"
BY DEF Order

LEMMA StepNames ==
  /\ Steps = {"cwd", "session", "terminal", "size", "cgroup", "groups", "gid", "uid",
              "marker", "exec"}
  /\ \A k \in 1..10 : Order[k] \in Steps
<1>1. \A k \in 1..10 : k \in {1, 2, 3, 4, 5, 6, 7, 8, 9, 10}
  OBVIOUS
<1> QED
  BY <1>1, Places DEF Steps

LEMMA StageNames ==
  /\ \A s \in Steps : StageOf[s] \in Stage
  /\ StageOf["cwd"] = "cwd" /\ StageOf["session"] = "spawn" /\ StageOf["terminal"] = "pty"
  /\ StageOf["cgroup"] = "cgroup" /\ StageOf["uid"] = "privdrop"
  /\ StageOf["marker"] = "spawn" /\ StageOf["exec"] = "exec"
BY StepNames DEF StageOf, Stage

\* A step is due when all the earlier ones the request needs were taken.
LEMMA DueAfter ==
  ASSUME NEW j \in 1..10, NEW k \in 1..10, j < k, Due(Order[k]), Needed(Order[j])
  PROVE  Order[j] \in child.did
<1>1. PICK n \in 1..10 : /\ Order[k] = Order[n]
                         /\ \A i \in 1..(n - 1) : Needed(Order[i]) => Order[i] \in child.did
  BY Places DEF Due
<1>2. n = k
  BY <1>1, Places
<1> QED
  BY <1>1, <1>2

-----------------------------------------------------------------------------
(* Types.                                                                  *)

LEMMA Accounts ==
  ASSUME RunInv
  PROVE  /\ run.shim \in Identity /\ \A u \in run.user : u \in Identity
         /\ run.user # {} => The(run.user) \in run.user
         /\ run.group # {} => The(run.group) \in run.group
         /\ Drops => Gid \in Nat /\ Groups \in SUBSET Nat
<1>1. run.shim \in Account /\ run.user \subseteq Account /\ run.group \subseteq Nat
  BY DEF RunInv, RunType
<1>2. run.user # {} => The(run.user) \in run.user
  BY DEF The
<1>3. run.group # {} => The(run.group) \in run.group
  BY DEF The
<1>4. ASSUME Drops PROVE Gid \in Nat
  BY <1>1, <1>2, <1>3, <1>4, AccountAssumption DEF Drops, Gid, Identity
<1>5. ASSUME Drops PROVE Groups \in SUBSET Nat
  BY <1>1, <1>2, <1>4, <1>5, AccountAssumption DEF Groups, Identity
<1> QED
  BY <1>1, <1>2, <1>3, <1>4, <1>5, AccountAssumption

LEMMA BecameIdentity ==
  ASSUME RunInv, TypeOK, NEW s \in Steps, Needed(s)
  PROVE  Became(s) \in Identity
<1>1. child.who \in Identity
  BY DEF TypeOK
<1>2. CASE s = "groups"
  <2>1. Drops
    BY <1>2 DEF Needed, SetsGroups, SetsUid, SetsGid, Drops
  <2> QED
    BY <1>1, <1>2, <2>1, Accounts DEF Became, Identity
<1>3. CASE s = "gid"
  <2>1. Drops
    BY <1>3 DEF Needed, SetsGid
  <2> QED
    BY <1>1, <1>3, <2>1, Accounts DEF Became, Identity
<1>4. CASE s = "uid"
  <2>1. The(run.user) \in Identity
    BY <1>4, Accounts DEF Needed, SetsUid
  <2> QED
    BY <1>1, <1>4, <2>1 DEF Became, Identity
<1> QED
  BY <1>1, <1>2, <1>3, <1>4 DEF Became

Message == [tag : {"ERROR", "CAPABILITIES", "SPAWNED", "TRACKED"}, stage : Stage \cup {"none"}]

LEMMA Wrote ==
  ASSUME TypeOK, NEW m \in Message
  PROVE  /\ sent \o <<m>> \in Seq(Message) /\ Append(sent, m) \in Seq(Message)
         /\ sent \o <<>> \in Seq(Message)
BY DEF TypeOK, Message

LEMMA Messages ==
  /\ Plain \in Message /\ \A s \in Stage : Error(s) \in Message
  /\ \A t \in {"CAPABILITIES", "SPAWNED", "TRACKED"} : [tag |-> t, stage |-> "none"] \in Message
BY DEF Plain, Error, Message

LEMMA AnnouncedMessages ==
  Announced \in Seq(Message)
<1>1. /\ <<[tag |-> "SPAWNED", stage |-> "none"]>> \in Seq(Message)
      /\ <<[tag |-> "TRACKED", stage |-> "none"]>> \in Seq(Message)
      /\ <<>> \in Seq(Message)
  BY Messages
<1> QED
  BY <1>1 DEF Announced

\* Up to the fork there is no child, and afterwards there is one unless std
\* could make none.
Before == {"first", "second", "tracking", "resolve", "cgroup", "pty", "fork"}
Early == ReadFails \/ ReadHello \/ HelloUnanswered \/ ReadSpawn \/ ReadOther \/ PrepareTracking
         \/ Resolve \/ PrepareCgroup \/ PrepareChannels

LEMMA EarlyStep ==
  ASSUME Early
  PROVE  /\ pc \in Before /\ pc' \in Before \cup {"ended", "failed"}
         /\ UNCHANGED <<child, kin, std, report>>
BY DEF Early, ReadFails, ReadHello, HelloUnanswered, ReadSpawn, ReadOther, PrepareTracking, Resolve,
       PrepareCgroup, PrepareChannels, EndWith, childVars, Before

\* `sent` is extended by at most one message, or by the announcement.
LEMMA SentType ==
  ASSUME TypeOK, [Next]_vars
  PROVE  sent' \in Seq(Message)
<1>1. sent \in Seq(Message)
  BY DEF TypeOK, Message
<1>2. /\ Error("spawn") \in Message /\ Error("privdrop") \in Message /\ Error("cgroup") \in Message
      /\ Error("cwd") \in Message /\ Error("pty") \in Message
  BY Messages DEF Stage
<1>3. CASE ReadFails \/ ReadOther \/ HelloUnanswered \/ PrepareTracking
  BY <1>1, <1>3, Wrote, Messages
     DEF ReadFails, ReadOther, HelloUnanswered, PrepareTracking, EndWith
<1>4. CASE ReadHello \/ ReadSpawn
  BY <1>1, <1>4, Wrote, Messages DEF ReadHello, ReadSpawn, EndWith
<1>5. CASE Resolve \/ PrepareCgroup \/ PrepareChannels
  BY <1>1, <1>2, <1>5, Wrote DEF Resolve, PrepareCgroup, PrepareChannels, EndWith
<1>6. CASE Attribute
  <2>1. (IF report = "nothing" THEN "spawn" ELSE report) \in Stage
    BY DEF TypeOK, Stage
  <2>2. Error(IF report = "nothing" THEN "spawn" ELSE report) \in Message
    BY <2>1, Messages
  <2> QED
    BY <1>6, <2>2, Wrote DEF Attribute, EndWith
<1>7. CASE Announce
  <2>1. Announced \in Seq(Message)
    BY AnnouncedMessages
  <2> QED
    <3>1. sent \o Announced \in Seq(Message)
      BY <1>1, <2>1
    <3>2. sent' = sent \o Announced \/ sent' = sent
      BY <1>7 DEF Announce
    <3> QED
      BY <1>1, <3>1, <3>2
<1>8. CASE AbortFinish
  BY <1>1, <1>8, Wrote, Messages DEF AbortFinish
<1>9. CASE Fork \/ ForkFails \/ SpawnFailed \/ SpawnReturned \/ HandOver \/ AbortKill
  BY <1>1, <1>9 DEF Fork, ForkFails, SpawnFailed, SpawnReturned, HandOver, AbortKill
<1>10. CASE ChildSetsUp
  BY <1>1, <1>10 DEF ChildSetsUp, ChildStep, ChildStepFails, ReportLost, ChildTells
<1>11. CASE Forks \/ Exits \/ Killed
  BY <1>1, <1>11 DEF Forks, Exits, Killed
<1>12. CASE UNCHANGED vars
  BY <1>1, <1>12 DEF vars
<1> QED
  BY <1>3, <1>4, <1>5, <1>6, <1>7, <1>8, <1>9, <1>10, <1>11, <1>12 DEF Next, Shim

ChildRecord ==
  [life : {"none", "setup", "failing", "program", "zombie", "reaped"}, did : SUBSET Steps,
   who : Identity]

LEMMA ChildType ==
  ASSUME RunInv, TypeOK, [Next]_vars
  PROVE  child' \in ChildRecord
<1>1. child \in ChildRecord
  BY DEF TypeOK, ChildRecord
<1>2. CASE Early
  BY <1>1, <1>2, EarlyStep
<1>3. CASE Fork
  BY <1>3, Accounts DEF Fork, ChildRecord
<1>4. CASE ForkFails \/ SpawnReturned \/ Attribute \/ Announce \/ HandOver
  BY <1>1, <1>4 DEF ForkFails, SpawnReturned, Attribute, Announce, HandOver, childVars
<1>5. CASE SpawnFailed
  BY <1>1, <1>5 DEF SpawnFailed, ChildRecord
<1>6. CASE AbortKill \/ AbortFinish
  BY <1>1, <1>6 DEF AbortKill, AbortFinish, ChildRecord
<1>7. ASSUME NEW s \in Steps, ChildStep(s) PROVE child' \in ChildRecord
  <2>1. Became(s) \in Identity
    BY <1>7, BecameIdentity DEF ChildStep, Due
  <2>2. child.did \cup {s} \in SUBSET Steps
    BY <1>1 DEF ChildRecord
  <2> QED
    BY <1>7, <2>1, <2>2 DEF ChildStep, ChildRecord
<1>8. ASSUME NEW s \in Steps, ChildStepFails(s) \/ ReportLost(s) PROVE child' \in ChildRecord
  BY <1>1, <1>8 DEF ChildStepFails, ReportLost, ChildRecord
<1>9. CASE ChildTells \/ Exits \/ Killed
  BY <1>1, <1>9 DEF ChildTells, Exits, Killed, ChildRecord
<1>10. CASE Forks \/ UNCHANGED vars
  BY <1>1, <1>10 DEF Forks, vars
<1> QED
  BY <1>2, <1>3, <1>4, <1>5, <1>6, <1>7, <1>8, <1>9, <1>10 DEF Next, Shim, ChildSetsUp, Early

ReportType == report \in Stage \cup {"nothing"} /\ std \in {"open", "error", "done"}

LEMMA ReportTypes ==
  ASSUME TypeOK, [Next]_vars
  PROVE  ReportType'
<1> USE DEF ReportType
<1>1. ReportType
  BY DEF TypeOK
<1>2. CASE Early
  BY <1>1, <1>2, EarlyStep
<1>3. CASE Fork \/ ForkFails \/ SpawnFailed \/ SpawnReturned \/ Attribute
  BY <1>1, <1>3 DEF Fork, ForkFails, SpawnFailed, SpawnReturned, Attribute, childVars
<1>4. CASE Announce \/ HandOver \/ AbortKill \/ AbortFinish
  BY <1>1, <1>4 DEF Announce, HandOver, AbortKill, AbortFinish
<1>5. ASSUME NEW s \in Steps, ChildStep(s) \/ ReportLost(s) PROVE ReportType'
  BY <1>1, <1>5 DEF ChildStep, ReportLost, Written, Stage
<1>6. ASSUME NEW s \in Steps, ChildStepFails(s) PROVE ReportType'
  BY <1>1, <1>6, StageNames DEF ChildStepFails, Written
<1>7. CASE ChildTells \/ Forks \/ Exits \/ Killed
  BY <1>1, <1>7 DEF ChildTells, Forks, Exits, Killed
<1>8. CASE UNCHANGED vars
  BY <1>1, <1>8 DEF vars
<1> QED
  BY <1>2, <1>3, <1>4, <1>5, <1>6, <1>7, <1>8 DEF Next, Shim, ChildSetsUp, Early

After == {"spawning", "attribute", "identity", "handover", "abort", "abort_with_error"}

Kin == {"none", "group", "away", "dying"}

\* SIGKILL spares nobody in the group, and nobody in a cgroup whose cgroup.kill
\* works.
LEMMA StruckKin ==
  ASSUME kin \in Kin
  PROVE  /\ Struck \subseteq Kin \ {"group"}
         /\ kin = "none" => Struck = {"none"}
         /\ "away" \in Struck /\ Contained => ~run.killWorks
BY DEF Struck, Kin

\* The rest of the shim's state.
ShimType ==
  /\ features \in SUBSET Feature /\ pc \in Final \cup Before \cup After
  /\ kin \in Kin /\ cgroup \in {"none", "made", "gone"}
  /\ holding \in BOOLEAN

LEMMA ShimTypes ==
  ASSUME RunInv, TypeOK, [Next]_vars
  PROVE  ShimType'
<1>1. ShimType
  BY DEF TypeOK, ShimType, Kin, Before, After
<1>2. run.asked \in SUBSET Feature /\ Structured \in BOOLEAN
  BY DEF RunInv, RunType, Structured
<1>3. Removed \in {"none", "made", "gone"}
  BY <1>1 DEF Removed, ShimType
<1>4. CASE ReadFails \/ ReadHello \/ HelloUnanswered \/ ReadSpawn \/ ReadOther
  BY <1>1, <1>2, <1>3, <1>4
     DEF ShimType, ReadFails, ReadHello, HelloUnanswered, ReadSpawn, ReadOther, EndWith, childVars,
         Final, Before
<1>5. CASE PrepareTracking \/ Resolve \/ PrepareCgroup
  BY <1>1, <1>3, <1>5
     DEF ShimType, PrepareTracking, Resolve, PrepareCgroup, EndWith, childVars, Final, Before
<1>6. CASE PrepareChannels
  BY <1>1, <1>2, <1>3, <1>6 DEF ShimType, PrepareChannels, EndWith, Final, Before
<1>7. CASE Fork \/ ForkFails
  BY <1>1, <1>7 DEF ShimType, Fork, ForkFails, After
<1>8. CASE SpawnFailed \/ SpawnReturned \/ Attribute
  BY <1>1, <1>3, <1>8
     DEF ShimType, SpawnFailed, SpawnReturned, Attribute, Dropped, EndWith, childVars, Final, After
<1>9. CASE Announce \/ HandOver
  BY <1>1, <1>3, <1>9 DEF ShimType, Announce, HandOver, Final, After
<1>10. CASE AbortKill \/ AbortFinish
  BY <1>1, <1>10, StruckKin DEF ShimType, Kin, AbortKill, AbortFinish, Final
<1>11. CASE ChildSetsUp
  BY <1>1, <1>11 DEF ShimType, ChildSetsUp, ChildStep, ChildStepFails, ReportLost, ChildTells
<1>12. CASE Forks \/ Exits \/ Killed \/ UNCHANGED vars
  BY <1>1, <1>12 DEF ShimType, Kin, Forks, Exits, Killed, vars
<1> QED
  BY <1>4, <1>5, <1>6, <1>7, <1>8, <1>9, <1>10, <1>11, <1>12 DEF Next, Shim

LEMMA TypeInit ==
  Init => RunInv /\ TypeOK
<1> SUFFICES ASSUME Init PROVE RunInv /\ TypeOK
  OBVIOUS
<1>1. RunInv
  BY RunsAssumption DEF Init, RunInv
<1>2. child \in ChildRecord
  BY DEF Init, Unborn, ChildRecord, Identity
<1>3. sent \in Seq(Message)
  BY DEF Init
<1>4. features \in SUBSET Feature /\ holding \in BOOLEAN
  BY DEF Init
<1> QED
  BY <1>1, <1>2, <1>3, <1>4 DEF Init, TypeOK, RunInv, ChildRecord, Message

LEMMA TypeStep ==
  ASSUME RunInv, TypeOK, [Next]_vars
  PROVE  RunInv' /\ TypeOK'
<1>1. RunInv' /\ run' \in RunType
  BY RunStep DEF RunInv
<1>2. sent' \in Seq(Message) /\ child' \in ChildRecord /\ ReportType' /\ ShimType'
  BY SentType, ChildType, ReportTypes, ShimTypes
<1> QED
  BY <1>1, <1>2 DEF TypeOK, Message, ChildRecord, ReportType, ShimType, Kin, Before, After

\* Every variable of the start keeps its type, whatever fails.
THEOREM StartupTypeCorrect ==
  Spec => []TypeOK
<1>1. Init => RunInv /\ TypeOK
  BY TypeInit
<1>2. (RunInv /\ TypeOK) /\ [Next]_vars => (RunInv /\ TypeOK)'
  BY TypeStep
<1> QED
  BY <1>1, <1>2, PTL DEF Spec

-----------------------------------------------------------------------------
(* Where the shim is, what the child is and what std heard belong together. *)

LifeInv ==
  /\ pc \in Before => child.life = "none" /\ std = "open"
  /\ child.life = "none" => child.did = {} /\ kin = "none" /\ report = "nothing"
  /\ child.life \in {"setup", "failing"} => pc = "spawning" /\ std = "open"
  /\ child.life = "program" => std = "done"
  /\ std = "done" => child.life \in {"program", "zombie", "reaped"}
  /\ std = "error" => /\ child.life \in {"none", "zombie", "reaped"}
                      /\ pc \in {"spawning", "attribute", "ended"}
  /\ pc = "spawning" => child.life # "reaped" /\ (child.life = "none" => std = "error")
  /\ pc = "attribute" => std = "error" /\ child.life \in {"none", "reaped"}
  /\ pc \in {"identity", "handover", "abort", "abort_with_error"} =>
       child.life \in {"program", "zombie"}
  /\ kin # "none" => std = "done"

LEMMA LifeInit ==
  Init => LifeInv
BY DEF Init, LifeInv, Unborn

LEMMA LifeStep ==
  ASSUME TypeOK, LifeInv, [Next]_vars
  PROVE  LifeInv'
<1> USE DEF LifeInv
<1>1. child \in ChildRecord /\ std \in {"open", "error", "done"} /\ kin \in Kin
  BY DEF TypeOK, ChildRecord, Kin
<1>2. CASE Early
  <2>1. pc \in Before /\ pc' \in Before \cup {"ended", "failed"} /\ UNCHANGED <<child, kin, std, report>>
    BY <1>2, EarlyStep
  <2> QED
    BY <2>1 DEF Before
<1>3. CASE Fork
  BY <1>3 DEF Fork, Before
<1>4. CASE ForkFails
  BY <1>4 DEF ForkFails, Before
<1>5. CASE SpawnFailed
  BY <1>1, <1>5 DEF SpawnFailed, ChildRecord, Before
<1>6. CASE SpawnReturned
  BY <1>1, <1>6 DEF SpawnReturned, ChildRecord, Before
<1>7. CASE Attribute
  BY <1>1, <1>7 DEF Attribute, EndWith, childVars, Before
<1>8. CASE Announce
  BY <1>1, <1>8 DEF Announce, Before
<1>9. CASE HandOver
  BY <1>1, <1>9 DEF HandOver, Before
<1>10. CASE AbortKill
  BY <1>1, <1>10, StruckKin DEF AbortKill, Aborting, ChildRecord, Before
<1>11. CASE AbortFinish
  BY <1>1, <1>11, StruckKin DEF AbortFinish, Aborting, ChildRecord, Before
<1>12. ASSUME NEW s \in Steps, ChildStep(s) PROVE LifeInv'
  BY <1>1, <1>12 DEF ChildStep, Due, Before
<1>13. ASSUME NEW s \in Steps, ChildStepFails(s) \/ ReportLost(s) PROVE LifeInv'
  BY <1>1, <1>13 DEF ChildStepFails, ReportLost, Due, ChildRecord, Before
<1>14. CASE ChildTells
  BY <1>1, <1>14 DEF ChildTells, ChildRecord, Before
<1>15. CASE Forks
  BY <1>1, <1>15 DEF Forks, Before
<1>16. CASE Exits \/ Killed
  BY <1>1, <1>16 DEF Exits, Killed, Alive, ChildRecord, Before
<1>17. CASE UNCHANGED vars
  BY <1>17 DEF vars, Before
<1> QED
  BY <1>2, <1>3, <1>4, <1>5, <1>6, <1>7, <1>8, <1>9, <1>10, <1>11, <1>12, <1>13, <1>14, <1>15,
     <1>16, <1>17 DEF Next, Shim, ChildSetsUp, Early

\* Once the child may have been made, what it needs is settled.
LEMMA LaterStep ==
  ASSUME [Next]_vars, ~Early
  PROVE  features' = features /\ (cgroup' = "made" => cgroup = "made")
<1>1. CASE Fork \/ ForkFails \/ SpawnFailed \/ SpawnReturned
  BY <1>1 DEF Fork, ForkFails, SpawnFailed, SpawnReturned
<1>2. CASE Attribute
  BY <1>2 DEF Attribute, EndWith, Removed
<1>3. CASE Announce \/ HandOver
  BY <1>3 DEF Announce, HandOver, Removed
<1>4. CASE AbortKill \/ AbortFinish
  BY <1>4 DEF AbortKill, AbortFinish
<1>5. CASE ChildSetsUp
  BY <1>5 DEF ChildSetsUp, ChildStep, ChildStepFails, ReportLost, ChildTells
<1>6. CASE Forks \/ Exits \/ Killed \/ UNCHANGED vars
  BY <1>6 DEF Forks, Exits, Killed, vars
<1> QED
  BY <1>1, <1>2, <1>3, <1>4, <1>5, <1>6 DEF Next, Shim, Early

LEMMA NeededKept ==
  ASSUME SameRequest, features' = features, cgroup' = "made" => cgroup = "made"
  PROVE  /\ \A s \in Steps : Needed(s)' => Needed(s)
         /\ (SetsUid' <=> SetsUid) /\ (SetsGid' <=> SetsGid) /\ (SetsGroups' <=> SetsGroups)
         /\ Gid' = Gid /\ Groups' = Groups /\ The(run.user)' = The(run.user)
<1>1. (Drops' <=> Drops) /\ Gid' = Gid /\ Groups' = Groups /\ The(run.user)' = The(run.user)
  BY DEF SameRequest, Drops, Gid, Groups, The
<1>2. (SetsUid' <=> SetsUid) /\ (SetsGid' <=> SetsGid)
  BY <1>1 DEF SameRequest, SetsUid, SetsGid
<1>3. SetsGroups' <=> SetsGroups
  BY <1>2 DEF SameRequest, SetsGroups
<1>4. ASSUME NEW s \in Steps, Needed(s)' PROVE Needed(s)
  BY <1>2, <1>3, <1>4, StepNames DEF Needed, SameRequest, Structured
<1> QED
  BY <1>1, <1>2, <1>3, <1>4

-----------------------------------------------------------------------------
(* The child's rights.                                                     *)

NeedInv ==
  /\ "groups" \in child.did => SetsGroups
  /\ "gid" \in child.did => SetsGid
  /\ "uid" \in child.did => SetsUid
  /\ \A j, k \in 1..10 : (j < k /\ Order[k] \in child.did /\ Needed(Order[j])) => Order[j] \in child.did
  /\ (pc \in {"pty", "fork", "spawning"} /\ run.cgroup = "required") => cgroup = "made"
  /\ ("exec" \in child.did /\ run.cgroup = "required") => "cgroup" \in child.did

\* Who the child is follows from the steps it took.
WhoInv ==
  child.life # "none" =>
    /\ child.who.uid = IF "uid" \in child.did THEN The(run.user).uid ELSE run.shim.uid
    /\ child.who.gid = IF "gid" \in child.did THEN Gid ELSE run.shim.gid
    /\ child.who.groups = IF "groups" \in child.did THEN Groups ELSE run.shim.groups

LEMMA CgroupNeeded ==
  ASSUME RunInv, NeedInv, [Next]_vars, SameRequest
  PROVE  (pc' \in {"pty", "fork", "spawning"} /\ run'.cgroup = "required") => cgroup' = "made"
<1>1. run'.cgroup = run.cgroup
  BY DEF SameRequest
<1>2. CASE Early
  BY <1>1, <1>2
     DEF NeedInv, Early, ReadFails, ReadHello, HelloUnanswered, ReadSpawn, ReadOther, PrepareTracking,
         Resolve, PrepareCgroup, PrepareChannels, EndWith
<1>3. CASE Shim /\ ~Early
  BY <1>1, <1>3
     DEF NeedInv, Shim, Early, Fork, ForkFails, SpawnFailed, SpawnReturned, Attribute, Announce,
         HandOver, AbortKill, AbortFinish, EndWith
<1>4. CASE ChildSetsUp \/ Forks \/ Exits \/ Killed \/ UNCHANGED vars
  BY <1>1, <1>4
     DEF NeedInv, ChildSetsUp, ChildStep, ChildStepFails, ReportLost, ChildTells, Forks, Exits, Killed,
         vars
<1> QED
  BY <1>2, <1>3, <1>4 DEF Next

\* Only the fork and the child's own steps change who it is or what it did.
LEMMA OtherSteps ==
  ASSUME TypeOK, [Next]_vars, ~Early, ~Fork, \A s \in Steps : ~ChildStep(s)
  PROVE  /\ child'.did = child.did /\ child'.who = child.who
         /\ child'.life = "none" <=> child.life = "none"
<1>1. child \in ChildRecord
  BY DEF TypeOK, ChildRecord
<1>2. CASE Shim
  BY <1>1, <1>2
     DEF ChildRecord, Shim, Early, ForkFails, SpawnFailed, SpawnReturned, Attribute, Announce,
         HandOver, AbortKill, AbortFinish, childVars, Alive
<1>3. CASE ChildSetsUp
  BY <1>1, <1>3 DEF ChildRecord, ChildSetsUp, ChildStepFails, ReportLost, ChildTells, Due
<1>4. CASE Forks \/ Exits \/ Killed \/ UNCHANGED vars
  BY <1>1, <1>4 DEF ChildRecord, Forks, Exits, Killed, Alive, vars
<1> QED
  BY <1>2, <1>3, <1>4 DEF Next

RightsInv == NeedInv /\ WhoInv

LEMMA RightsInit ==
  Init => RightsInv
BY DEF Init, RightsInv, NeedInv, WhoInv, Unborn

\* A step keeps the order: every earlier one the request needs was taken.
LEMMA ChildStepNeeds ==
  ASSUME RunInv, TypeOK, LifeInv, NeedInv, NEW s \in Steps, ChildStep(s), [Next]_vars
  PROVE  NeedInv'
<1>1. child'.did = child.did \cup {s} /\ Due(s) /\ Needed(s) /\ pc = "spawning" /\ cgroup' = cgroup
  BY DEF ChildStep, Due, LifeInv
<1>2. SameRequest /\ features' = features
  BY RunStep DEF ChildStep
<1>3. /\ \A t \in Steps : Needed(t)' => Needed(t)
      /\ (SetsUid' <=> SetsUid) /\ (SetsGid' <=> SetsGid) /\ (SetsGroups' <=> SetsGroups)
  BY <1>1, <1>2, NeededKept
<1>4. /\ "groups" \in child'.did => SetsGroups'
      /\ "gid" \in child'.did => SetsGid'
      /\ "uid" \in child'.did => SetsUid'
  BY <1>1, <1>3 DEF NeedInv, Needed
<1>5. ASSUME NEW j \in 1..10, NEW k \in 1..10, j < k, Order[k] \in child'.did, Needed(Order[j])'
      PROVE  Order[j] \in child'.did
  <2>1. Needed(Order[j])
    BY <1>3, <1>5, StepNames
  <2>2. CASE Order[k] \in child.did
    BY <1>1, <1>5, <2>1, <2>2 DEF NeedInv
  <2>3. CASE Order[k] = s
    BY <1>1, <1>5, <2>1, <2>3, DueAfter
  <2> QED
    BY <1>1, <1>5, <2>2, <2>3
<1>6. ASSUME "exec" \in child'.did, run'.cgroup = "required" PROVE "cgroup" \in child'.did
  <2>1. run.cgroup = "required" /\ cgroup = "made"
    BY <1>1, <1>2, <1>6 DEF SameRequest, NeedInv
  <2>2. CASE "exec" \in child.did
    BY <1>1, <2>1, <2>2 DEF NeedInv
  <2>3. CASE s = "exec"
    <3>1. Due(Order[10]) /\ Needed(Order[5])
      BY <1>1, <2>1, <2>3, Places DEF Needed
    <3>2. Order[5] \in child.did
      BY <3>1, DueAfter
    <3> QED
      BY <1>1, <3>2, Places
  <2> QED
    BY <1>1, <1>6, <2>2, <2>3
<1>7. (pc' \in {"pty", "fork", "spawning"} /\ run'.cgroup = "required") => cgroup' = "made"
  BY <1>2, CgroupNeeded
<1> QED
  BY <1>4, <1>5, <1>6, <1>7 DEF NeedInv

LEMMA NeedStep ==
  ASSUME RunInv, TypeOK, LifeInv, NeedInv, [Next]_vars
  PROVE  NeedInv'
<1>1. SameRequest
  BY RunStep
<1>2. (pc' \in {"pty", "fork", "spawning"} /\ run'.cgroup = "required") => cgroup' = "made"
  BY <1>1, CgroupNeeded
<1>3. ASSUME child'.did = {} PROVE NeedInv'
  BY <1>2, <1>3 DEF NeedInv
<1>4. CASE Early
  BY <1>3, <1>4, EarlyStep DEF LifeInv
<1>5. CASE Fork
  BY <1>3, <1>5 DEF Fork
<1>6. CASE \E s \in Steps : ChildStep(s)
  BY <1>6, ChildStepNeeds
<1>7. CASE ~Early /\ ~Fork /\ \A s \in Steps : ~ChildStep(s)
  <2>1. child'.did = child.did
    BY <1>7, OtherSteps
  <2>2. features' = features /\ (cgroup' = "made" => cgroup = "made")
    BY <1>7, LaterStep
  <2>3. /\ \A t \in Steps : Needed(t)' => Needed(t)
        /\ (SetsUid' <=> SetsUid) /\ (SetsGid' <=> SetsGid) /\ (SetsGroups' <=> SetsGroups)
    BY <1>1, <2>2, NeededKept
  <2>4. \A j \in 1..10 : Needed(Order[j])' => Needed(Order[j])
    BY <2>3, StepNames
  <2> QED
    BY <1>1, <1>2, <2>1, <2>3, <2>4 DEF NeedInv, SameRequest
<1> QED
  BY <1>4, <1>5, <1>6, <1>7

LEMMA WhoStep ==
  ASSUME RunInv, TypeOK, LifeInv, WhoInv, [Next]_vars
  PROVE  WhoInv'
<1>1. SameRequest
  BY RunStep
<1>2. CASE Early
  BY <1>2, EarlyStep DEF LifeInv, WhoInv
<1>3. CASE ~Early
  <2>1. features' = features /\ (cgroup' = "made" => cgroup = "made")
    BY <1>3, LaterStep
  <2>2. /\ Gid' = Gid /\ Groups' = Groups /\ The(run.user)' = The(run.user)
        /\ run'.shim = run.shim
    BY <1>1, <2>1, NeededKept DEF SameRequest
  <2>3. CASE Fork
    BY <2>2, <2>3 DEF Fork, WhoInv
  <2>4. ASSUME NEW s \in Steps, ChildStep(s) PROVE WhoInv'
    <3>1. child'.did = child.did \cup {s} /\ child'.who = Became(s) /\ child.life # "none"
      BY <2>4 DEF ChildStep, Due
    <3>2. child.who \in Identity
      BY DEF TypeOK
    <3>3. s \notin child.did
      BY <2>4 DEF ChildStep, Due
    <3>4. CASE s = "groups"
      BY <2>2, <3>1, <3>2, <3>4 DEF WhoInv, Became, Identity
    <3>5. CASE s = "gid"
      BY <2>2, <3>1, <3>2, <3>5 DEF WhoInv, Became, Identity
    <3>6. CASE s = "uid"
      BY <2>2, <3>1, <3>2, <3>6 DEF WhoInv, Became, Identity, The
    <3>7. CASE s \notin {"groups", "gid", "uid"}
      BY <2>2, <3>1, <3>7 DEF WhoInv, Became
    <3> QED
      BY <3>4, <3>5, <3>6, <3>7
  <2>5. CASE ~Fork /\ \A s \in Steps : ~ChildStep(s)
    BY <1>3, <2>2, <2>5, OtherSteps DEF WhoInv
  <2> QED
    BY <2>3, <2>4, <2>5
<1> QED
  BY <1>2, <1>3

Inv == RunInv /\ TypeOK /\ LifeInv /\ RightsInv

LEMMA InvInit ==
  Init => Inv
BY TypeInit, LifeInit, RightsInit DEF Inv

LEMMA InvStep ==
  ASSUME Inv, [Next]_vars
  PROVE  Inv'
BY TypeStep, LifeStep, NeedStep, WhoStep DEF Inv, RightsInv

LEMMA Invariance ==
  Spec => []Inv
BY InvInit, InvStep, PTL DEF Spec

-----------------------------------------------------------------------------
(* What follows of it.                                                     *)

LEMMA DropPermitted ==
  ASSUME Inv
  PROVE  PrivilegedDropPermitted
<1> SUFFICES ASSUME NEW s \in Steps, Due(s), run.shim.uid = 0, s \in {"groups", "gid", "uid"}
             PROVE  child.who.uid = 0
  BY DEF PrivilegedDropPermitted, Permitted
<1>1. child.life # "none" /\ Needed(s) /\ s \notin child.did
  BY DEF Due
<1>2. CASE "uid" \in child.did
  <2>1. PICK j \in 1..10 : s = Order[j] /\ j < 8
    BY <1>1, <1>2, Places
  <2>2. s \in child.did
    BY <1>1, <1>2, <2>1, Places DEF Inv, RightsInv, NeedInv
  <2> QED
    BY <1>1, <2>2
<1>3. CASE "uid" \notin child.did
  BY <1>1, <1>3 DEF Inv, RightsInv, WhoInv
<1> QED
  BY <1>2, <1>3

LEMMA AsAsked ==
  ASSUME Inv, "exec" \in child.did
  PROVE  ProgramAsAsked
<1> RunInv /\ TypeOK /\ LifeInv /\ NeedInv /\ WhoInv
  BY DEF Inv, RightsInv
<1>1. \A j \in 1..9 : Needed(Order[j]) => Order[j] \in child.did
  BY Places DEF NeedInv
<1>2. "session" \in child.did /\ (run.cd => "cwd" \in child.did)
  BY <1>1, Places DEF Needed
<1>3. (run.pty => "terminal" \in child.did) /\ ((run.pty /\ run.sized) => "size" \in child.did)
  BY <1>1, Places DEF Needed
<1>4. run.cgroup = "required" => Contained
  BY DEF NeedInv, Contained
<1>5. /\ "groups" \in child.did <=> SetsGroups
      /\ "gid" \in child.did <=> SetsGid
      /\ "uid" \in child.did <=> SetsUid
  BY <1>1, Places DEF Needed, NeedInv
<1>6. child.life # "none"
  BY DEF LifeInv
<1>7. child.who \in Identity /\ run.shim \in Identity
  BY Accounts DEF TypeOK
<1>8. child.who.uid = IF SetsUid THEN The(run.user).uid ELSE run.shim.uid
  BY <1>5, <1>6 DEF WhoInv
<1>9. child.who.gid = IF SetsGid THEN Gid ELSE run.shim.gid
  BY <1>5, <1>6 DEF WhoInv
<1>10. child.who.groups = IF SetsGroups THEN Groups ELSE run.shim.groups
  BY <1>5, <1>6 DEF WhoInv
<1>11. ASSUME NEW u \in run.user
       PROVE  child.who.uid = u.uid /\ (run.group = {} => child.who.gid = u.gid)
  <2>1. The(run.user) = u
    BY Accounts DEF RunInv
  <2>2. child.who.uid = u.uid
    BY <1>8, <2>1 DEF SetsUid
  <2>3. run.group = {} => Gid = u.gid
    BY <2>1 DEF Gid
  <2>4. Drops => child.who.gid = Gid
    BY <1>9 DEF SetsGid
  <2> QED
    BY <2>2, <2>3, <2>4 DEF Drops
<1>12. ASSUME NEW g \in run.group PROVE child.who.gid = g
  <2>1. The(run.group) = g
    BY Accounts DEF RunInv
  <2> QED
    BY <1>9, <2>1 DEF SetsGid, Gid, Drops
<1>13. (Drops /\ child.who.groups = Groups) \/ (run.group = {} /\ child.who = run.shim)
  <2>1. CASE SetsGroups
    BY <1>10, <2>1 DEF SetsGroups, SetsUid, SetsGid, Drops
  <2>2. CASE ~SetsGroups
    <3>1. run.group = {} /\ ~SetsUid /\ ~SetsGid
      BY <2>2 DEF SetsGroups
    <3>2. /\ child.who.uid = run.shim.uid /\ child.who.gid = run.shim.gid
          /\ child.who.groups = run.shim.groups
      BY <1>8, <1>9, <1>10, <2>2, <3>1
    <3> QED
      BY <1>7, <3>1, <3>2 DEF Identity
  <2> QED
    BY <2>1, <2>2
<1> QED
  BY <1>2, <1>3, <1>4, <1>11, <1>12, <1>13 DEF ProgramAsAsked

\* No privileged shim starts a child that is refused a change of its groups or
\* ids: the steps are taken in the order that keeps the right to the next.
THEOREM PrivilegeIsKeptToTheEnd ==
  Spec => []PrivilegedDropPermitted
BY Invariance, DropPermitted, PTL

\* A program that runs has the session, terminal, directory, cgroup, user and
\* groups of its request, and none of the groups that were to be given up.
THEOREM ProgramRunsAsAsked ==
  Spec => []ProgramAsAsked
<1>1. Inv => ProgramAsAsked
  BY AsAsked DEF ProgramAsAsked
<1> QED
  BY <1>1, Invariance, PTL

-----------------------------------------------------------------------------
(* What an ERROR says.                                                     *)

\* The report names the step that failed, unless that is for std to tell.
ReportInv ==
  /\ child.life = "setup" => report = IF "marker" \in child.did THEN "exec" ELSE "nothing"
  /\ (Structured /\ (child.life = "failing" \/ std = "error")) =>
       IF report = "nothing" THEN fault = "lost" \/ StageOf[fault] = "spawn"
                             ELSE fault # "lost" /\ report = StageOf[fault]

\* Only an ended start has named a stage.
NoneNamed == \A k \in DOMAIN sent : sent[k].stage = "none"
NamedInv == ErrorNamesStage /\ (pc # "ended" => NoneNamed)

LEMMA ChildStepReports ==
  ASSUME Inv, ReportInv, NEW s \in Steps, ChildStep(s) \/ ChildStepFails(s) \/ ReportLost(s)
  PROVE  ReportInv'
<1>1. /\ child.life = "setup" /\ Due(s) /\ s \notin child.did /\ child \in ChildRecord
      /\ report = IF "marker" \in child.did THEN "exec" ELSE "nothing"
      /\ std = "open" /\ (Structured' <=> Structured)
  BY DEF ChildStep, ChildStepFails, ReportLost, Due, ReportInv, Inv, LifeInv, TypeOK, ChildRecord,
         Structured
<1>2. ASSUME s \notin {"marker", "exec"} PROVE report = "nothing"
  <2>1. Needed(s)
    BY <1>1 DEF Due
  <2>2. PICK j \in 1..10 : s = Order[j] /\ j < 9
    BY <1>2, StepNames, Places
  <2>3. "marker" \notin child.did
    BY <1>1, <2>1, <2>2, Places DEF Inv, RightsInv, NeedInv
  <2> QED
    BY <1>1, <2>3
<1>3. ASSUME s = "exec", Structured PROVE report = "exec"
  <2>1. Due(Order[10]) /\ Needed(Order[9])
    BY <1>1, <1>3, Places DEF Needed
  <2>2. "marker" \in child.did
    BY <2>1, DueAfter, Places
  <2> QED
    BY <1>1, <2>2
<1>4. ASSUME ChildStep(s) PROVE ReportInv'
  BY <1>1, <1>4 DEF ChildStep, Written, ReportInv
<1>5. ASSUME ChildStepFails(s) PROVE ReportInv'
  <2>1. fault' = s /\ s # "lost" /\ child'.life = "failing"
    BY <1>1, <1>5, StepNames DEF ChildStepFails, Fails, ChildRecord
  <2>2. CASE s \notin {"marker", "exec"}
    <3>1. report' = StageOf[s] \/ ~Structured
      BY <1>2, <1>5, <2>2 DEF ChildStepFails, Reports, Written
    <3>2. StageOf[s] # "nothing"
      BY StageNames DEF Stage
    <3> QED
      BY <1>1, <2>1, <3>1, <3>2 DEF ReportInv
  <2>3. CASE s \in {"marker", "exec"}
    <3>1. report' = report
      BY <1>5, <2>3 DEF ChildStepFails, Reports
    <3> QED
      BY <1>1, <1>3, <2>1, <2>3, <3>1, StageNames DEF ReportInv
  <2> QED
    BY <2>2, <2>3
<1>6. ASSUME ReportLost(s) PROVE ReportInv'
  <2>1. report' = "nothing" /\ fault' = "lost" /\ child'.life = "failing"
    BY <1>1, <1>2, <1>6 DEF ReportLost, Reports, ChildRecord
  <2> QED
    BY <2>1 DEF ReportInv
<1> QED
  BY <1>4, <1>5, <1>6

LEMMA ReportStep ==
  ASSUME Inv, ReportInv, [Next]_vars
  PROVE  ReportInv'
<1>1. LifeInv /\ child \in ChildRecord
  BY DEF Inv, TypeOK, ChildRecord
<1>2. CASE Early
  BY <1>1, <1>2, EarlyStep DEF LifeInv, ReportInv
<1>3. CASE Fork
  BY <1>1, <1>3 DEF Fork, LifeInv, ReportInv, Before
<1>4. CASE ForkFails
  <2>1. fault' = "session" /\ report' = "nothing" /\ child'.life = "none"
    BY <1>1, <1>4 DEF ForkFails, Fails, LifeInv, Before
  <2> QED
    BY <2>1, StageNames DEF ReportInv
<1>5. CASE SpawnFailed \/ SpawnReturned \/ Attribute
  BY <1>1, <1>5
     DEF SpawnFailed, SpawnReturned, Attribute, EndWith, childVars, LifeInv, ReportInv, Structured,
         ChildRecord
<1>6. CASE Announce \/ HandOver
  BY <1>1, <1>6 DEF Announce, HandOver, LifeInv, ReportInv
<1>7. CASE AbortKill \/ AbortFinish
  BY <1>1, <1>7 DEF AbortKill, AbortFinish, Aborting, LifeInv, ReportInv, ChildRecord
<1>8. CASE ChildTells
  BY <1>1, <1>8 DEF ChildTells, ReportInv, Structured, ChildRecord
<1>9. CASE Forks \/ Exits \/ Killed \/ UNCHANGED vars
  BY <1>1, <1>9 DEF Forks, Exits, Killed, ReportInv, Structured, ChildRecord, vars
<1> QED
  BY <1>2, <1>3, <1>4, <1>5, <1>6, <1>7, <1>8, <1>9, ChildStepReports DEF Next, Shim, ChildSetsUp, Early

\* What a message in `sent` may be.
LEMMA OneMore ==
  ASSUME TypeOK, NoneNamed, NEW m \in Message, sent' = sent \o <<m>> \/ sent' = Append(sent, m)
  PROVE  /\ \A k \in DOMAIN sent' : sent'[k] = m \/ sent'[k].stage = "none"
         /\ m.stage = "none" => NoneNamed'
<1>1. sent \in Seq(Message)
  BY DEF TypeOK, Message
<1>2. sent' = Append(sent, m)
  BY <1>1
<1>3. ASSUME NEW k \in DOMAIN sent' PROVE sent'[k] = m \/ sent'[k].stage = "none"
  BY <1>1, <1>2, <1>3 DEF NoneNamed
<1> QED
  BY <1>3 DEF NoneNamed

\* An ERROR that names what just failed.
LEMMA NamedWell ==
  ASSUME TypeOK, NoneNamed, NEW s \in Stage, sent' = sent \o <<Error(s)>> \/ sent' = Append(sent, Error(s)),
         pc' = "ended", s = IF fault' = "lost" THEN "spawn" ELSE StageOf[fault']
  PROVE  NamedInv'
<1>1. Error(s) \in Message /\ (Error(s).stage = s \/ Error(s).stage = "none")
  BY Messages DEF Error
<1>2. \A k \in DOMAIN sent' : sent'[k] = Error(s) \/ sent'[k].stage = "none"
  BY <1>1, OneMore
<1> QED
  BY <1>1, <1>2 DEF NamedInv, ErrorNamesStage

LEMMA NamedStep ==
  ASSUME Inv, ReportInv, NamedInv, [Next]_vars
  PROVE  NamedInv'
<1> TypeOK /\ LifeInv
  BY DEF Inv
<1> USE DEF Final
<1>1. ASSUME NoneNamed' PROVE NamedInv'
  BY <1>1 DEF NamedInv, NoneNamed, ErrorNamesStage
<1>2. ASSUME pc # "ended" PROVE NoneNamed
  BY <1>2 DEF NamedInv
<1>3. ASSUME NoneNamed, sent' = sent PROVE NoneNamed'
  BY <1>3 DEF NoneNamed
<1>4. Plain \in Message /\ Plain.stage = "none"
  BY Messages DEF Plain
<1>5. sent \o <<>> = sent
  BY DEF TypeOK
<1>6. /\ Error("spawn") \in Message /\ Error("privdrop") \in Message /\ Error("cgroup") \in Message
      /\ Error("cwd") \in Message /\ Error("pty") \in Message
  BY Messages DEF Stage
<1>7. ASSUME NoneNamed, sent' = sent \o <<Plain>> \/ sent' = Append(sent, Plain) PROVE NoneNamed'
  BY <1>4, <1>7, OneMore
<1>8. CASE ReadFails \/ ReadOther \/ HelloUnanswered \/ PrepareTracking \/ ReadSpawn
  <2>1. NoneNamed
    BY <1>2, <1>8 DEF ReadFails, ReadOther, HelloUnanswered, PrepareTracking, ReadSpawn
  <2>2. sent' = sent \/ sent' = sent \o <<Plain>>
    BY <1>5, <1>8 DEF ReadFails, ReadOther, HelloUnanswered, PrepareTracking, ReadSpawn, EndWith
  <2> QED
    BY <1>1, <1>3, <1>7, <2>1, <2>2
<1>9. CASE ReadHello
  <2>1. NoneNamed
    BY <1>2, <1>9 DEF ReadHello
  <2> DEFINE m == [tag |-> "CAPABILITIES", stage |-> "none"]
  <2>2. sent' = sent \o <<Plain>> \/ sent' = Append(sent, m)
    BY <1>9 DEF ReadHello, EndWith
  <2>3. m \in Message /\ m.stage = "none"
    BY Messages
  <2> HIDE DEF m
  <2> QED
    BY <1>1, <1>7, <2>1, <2>2, <2>3, OneMore
<1>10. CASE Resolve
  <2>1. NoneNamed
    BY <1>2, <1>10 DEF Resolve
  <2>2. \/ sent' = sent
        \/ sent' = sent \o <<Error("spawn")>> /\ fault' = "session" /\ pc' = "ended"
        \/ sent' = sent \o <<Error("privdrop")>> /\ fault' = "uid" /\ pc' = "ended"
    BY <1>10 DEF Resolve, EndWith
  <2>3. "spawn" \in Stage /\ "privdrop" \in Stage
    BY DEF Stage
  <2> QED
    BY <1>1, <1>3, <2>1, <2>2, <2>3, NamedWell, StageNames
<1>11. CASE PrepareCgroup
  <2>1. NoneNamed
    BY <1>2, <1>11 DEF PrepareCgroup
  <2>2. \/ sent' = sent
        \/ sent' = Append(sent, Error("cgroup")) /\ fault' = "cgroup" /\ pc' = "ended"
    BY <1>11 DEF PrepareCgroup, Fails
  <2>3. "cgroup" \in Stage
    BY DEF Stage
  <2> QED
    BY <1>1, <1>3, <2>1, <2>2, <2>3, NamedWell, StageNames
<1>12. CASE PrepareChannels
  <2>1. NoneNamed
    BY <1>2, <1>12 DEF PrepareChannels
  <2>2. \/ sent' = sent
        \/ sent' = sent \o <<Error("cwd")>> /\ fault' = "cwd" /\ pc' = "ended"
        \/ sent' = sent \o <<Error("pty")>> /\ fault' = "terminal" /\ pc' = "ended"
        \/ sent' = sent \o <<Error("spawn")>> /\ fault' = "session" /\ pc' = "ended"
    BY <1>12 DEF PrepareChannels, EndWith, Fails
  <2>3. "spawn" \in Stage /\ "cwd" \in Stage /\ "pty" \in Stage
    BY DEF Stage
  <2> QED
    BY <1>1, <1>3, <2>1, <2>2, <2>3, NamedWell, StageNames
<1>13. CASE Attribute
  <2> DEFINE s == IF report = "nothing" THEN "spawn" ELSE report
  <2>1. NoneNamed /\ std = "error"
    BY <1>2, <1>13 DEF Attribute, LifeInv
  <2>2. s \in Stage
    BY DEF TypeOK, Stage
  <2>3. sent' = sent \o <<Error(s)>> /\ pc' = "ended" /\ fault' = fault
    BY <1>13 DEF Attribute, EndWith
  <2>4. CASE Structured
    <3>1. s = IF fault' = "lost" THEN "spawn" ELSE StageOf[fault']
      BY <2>1, <2>3, <2>4 DEF ReportInv
    <3> HIDE DEF s
    <3> QED
      BY <2>1, <2>2, <2>3, <3>1, NamedWell
  <2>5. CASE ~Structured
    <3>1. Error(s) = Plain
      BY <2>5 DEF Error, Plain
    <3> QED
      BY <1>1, <1>7, <2>1, <2>3, <3>1
  <2> QED
    BY <2>4, <2>5
<1>14. CASE Announce
  <2>1. NoneNamed
    BY <1>2, <1>14 DEF Announce
  <2>2. \A k \in DOMAIN Announced : Announced[k].stage = "none"
    BY DEF Announced
  <2>3. Announced \in Seq(Message) /\ sent \in Seq(Message)
    BY AnnouncedMessages DEF TypeOK, Message
  <2>4. \A k \in DOMAIN (sent \o Announced) : (sent \o Announced)[k].stage = "none"
    <3> SUFFICES ASSUME NEW k \in DOMAIN (sent \o Announced)
                 PROVE  (sent \o Announced)[k].stage = "none"
      OBVIOUS
    <3>1. CASE k \in 1..Len(sent)
      BY <2>1, <2>3, <3>1 DEF NoneNamed
    <3>2. CASE k \notin 1..Len(sent)
      <4>1. k - Len(sent) \in 1..Len(Announced) /\ (sent \o Announced)[k] = Announced[k - Len(sent)]
        BY <2>3, <3>2
      <4> QED
        BY <2>2, <2>3, <4>1
    <3> QED
      BY <3>1, <3>2
  <2>5. sent' = sent \o Announced \/ sent' = sent
    BY <1>14 DEF Announce
  <2>6. NoneNamed'
    BY <1>3, <2>1, <2>4, <2>5 DEF NoneNamed
  <2> QED
    BY <1>1, <2>6
<1>15. CASE AbortFinish
  <2>1. NoneNamed
    BY <1>2, <1>15 DEF AbortFinish, Aborting
  <2>2. sent' = sent \/ sent' = Append(sent, Plain)
    BY <1>15 DEF AbortFinish
  <2> QED
    BY <1>1, <1>3, <1>7, <2>1, <2>2
<1>16. CASE Fork \/ ForkFails \/ SpawnFailed \/ SpawnReturned \/ HandOver \/ AbortKill
  <2>1. NoneNamed /\ sent' = sent
    BY <1>2, <1>16 DEF Fork, ForkFails, SpawnFailed, SpawnReturned, HandOver, AbortKill, Aborting
  <2> QED
    BY <1>1, <1>3, <2>1
<1>17. CASE \E s \in Steps : ChildStep(s) \/ ChildStepFails(s) \/ ReportLost(s)
  <2>1. NoneNamed /\ sent' = sent
    BY <1>2, <1>17 DEF ChildStep, ChildStepFails, ReportLost, Due, LifeInv
  <2> QED
    BY <1>1, <1>3, <2>1
<1>18. CASE ChildTells \/ Forks \/ Exits \/ Killed \/ UNCHANGED vars
  BY <1>18 DEF ChildTells, Forks, Exits, Killed, vars, NamedInv, NoneNamed, ErrorNamesStage
<1> QED
  BY <1>8, <1>9, <1>10, <1>11, <1>12, <1>13, <1>14, <1>15, <1>16, <1>17, <1>18
     DEF Next, Shim, ChildSetsUp

\* A structured ERROR names the operation that failed, in the shim or in the
\* child, and blames std's errno only on a step that has no report.
THEOREM ErrorsNameTheirStage ==
  Spec => []ErrorNamesStage
<1>1. Init => ReportInv /\ NamedInv
  BY DEF Init, Unborn, ReportInv, NamedInv, NoneNamed, ErrorNamesStage
<1>2. Inv /\ (ReportInv /\ NamedInv) /\ [Next]_vars => (ReportInv /\ NamedInv)'
  BY ReportStep, NamedStep
<1>3. NamedInv => ErrorNamesStage
  BY DEF NamedInv
<1> QED
  BY <1>1, <1>2, <1>3, Invariance, PTL DEF Spec

-----------------------------------------------------------------------------
(* What a failed start leaves.                                             *)

LEMMA LeftStep ==
  ASSUME Inv, FailedStartLeavesNothing, [Next]_vars
  PROVE  FailedStartLeavesNothing'
<1> DEFINE Left == FailedStartLeavesNothing
<1>1. LifeInv /\ child \in ChildRecord /\ cgroup \in {"none", "made", "gone"} /\ kin \in Kin
  BY DEF Inv, TypeOK, ChildRecord, Kin
<1>2. ASSUME pc' \notin {"ended", "failed"} PROVE Left'
  BY <1>2 DEF FailedStartLeavesNothing
<1>3. CASE Early
  <2>1. pc' \in Before \cup {"ended", "failed"} /\ UNCHANGED <<child, kin>> /\ child.life = "none"
        /\ child.did = {} /\ kin = "none"
    BY <1>1, <1>3, EarlyStep DEF LifeInv
  <2>2. Removed # "made"
    BY <1>1, <2>1 DEF Removed, Populated, Contained
  <2>3. pc' \in {"ended", "failed"} => cgroup' # "made"
    BY <1>3, <2>2
       DEF Early, ReadFails, ReadHello, HelloUnanswered, ReadSpawn, ReadOther, PrepareTracking, Resolve,
           PrepareCgroup, PrepareChannels, EndWith, Before
  <2> QED
    BY <2>1, <2>3 DEF FailedStartLeavesNothing
<1>4. CASE Fork \/ ForkFails \/ SpawnFailed \/ SpawnReturned \/ Announce \/ AbortKill
  BY <1>2, <1>4 DEF Fork, ForkFails, SpawnFailed, SpawnReturned, Announce, AbortKill, Aborting
<1>5. CASE Attribute
  <2>1. child' = child /\ kin' = kin /\ child.life \in {"none", "reaped"} /\ kin = "none"
    BY <1>1, <1>5 DEF Attribute, childVars, LifeInv
  <2>2. cgroup' # "made"
    BY <1>1, <1>5, <2>1 DEF Attribute, EndWith, Removed, Populated, Alive
  <2> QED
    BY <2>1, <2>2 DEF FailedStartLeavesNothing
<1>6. CASE HandOver
  BY <1>2, <1>6 DEF HandOver, Fails, FailedStartLeavesNothing
<1>7. CASE AbortFinish
  <2>1. child'.life = "reaped" /\ (Contained' <=> Contained) /\ run' = run
    BY <1>1, <1>7 DEF AbortFinish, ChildRecord, Contained
  <2>2. kin' # "group" /\ (kin' = "away" /\ Contained => ~run.killWorks)
    BY <1>1, <1>7, StruckKin DEF AbortFinish
  <2>3. cgroup' = "made" => Contained /\ kin' # "none"
    BY <1>7 DEF AbortFinish
  <2> QED
    BY <2>1, <2>2, <2>3 DEF FailedStartLeavesNothing
<1>8. CASE ChildSetsUp
  <2>1. pc' = "spawning"
    BY <1>1, <1>8 DEF ChildSetsUp, ChildStep, ChildStepFails, ReportLost, ChildTells, Due, LifeInv
  <2> QED
    BY <1>2, <2>1
<1>9. CASE Forks
  BY <1>2, <1>9 DEF Forks, Final
<1>10. CASE Exits \/ Killed \/ UNCHANGED vars
  BY <1>1, <1>10 DEF Exits, Killed, Alive, vars, FailedStartLeavesNothing, Contained, ChildRecord
<1> QED
  BY <1>3, <1>4, <1>5, <1>6, <1>7, <1>8, <1>9, <1>10 DEF Next, Shim, Early

\* A start that fails leaves no child, no process that could be killed without a
\* pending SIGKILL and no empty cgroup, but for an untracked child whose terminal
\* could not be duplicated.
THEOREM FailedStartIsClean ==
  Spec => []FailedStartLeavesNothing
<1>1. Init => FailedStartLeavesNothing
  BY DEF Init, FailedStartLeavesNothing
<1>2. Inv /\ FailedStartLeavesNothing /\ [Next]_vars => FailedStartLeavesNothing'
  BY LeftStep
<1> QED
  BY <1>1, <1>2, Invariance, PTL DEF Spec
=============================================================================
