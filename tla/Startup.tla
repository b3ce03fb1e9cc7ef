------------------------------- MODULE Startup ------------------------------
(***************************************************************************)
(* From the first frame to the event loop: `run_with_capabilities` and     *)
(* `spawn_child` in native/forcola_shim/src/supervisor.rs with privdrop.rs,*)
(* cgroup.rs, spawn_error.rs and frame.rs, and the child between fork and  *)
(* exec, which goes on beside the shim and may be killed at any step.      *)
(*                                                                         *)
(* `Command::spawn` returns when the child has executed the program, has   *)
(* sent std the errno that stopped it, or is dead: a child killed during   *)
(* its set-up counts as spawned.  The escalation of a failed tracked start *)
(* is in TrackedSupervisor; here it ends like the untracked one.           *)
(***************************************************************************)
EXTENDS Naturals, Sequences

CONSTANTS
  Account,   \* uid, gid and groups the shim or a user may have
  Runs       \* requests considered, each with the bounds of its run

Identity == [uid : Nat, gid : Nat, groups : SUBSET Nat]
ASSUME AccountAssumption == Account \subseteq Identity

Feature == {"structured", "identity", "track"}
FrameKind == {"hello", "spawn", "other", "empty", "huge", "torn"}

\* `frames` come in before the end of file.  `asked` are the features of HELLO
\* and `offered` those of this shim.  `user` and `group` hold what the request
\* names, if anything, and `known` says that the databases have it.  `argv`
\* is not empty; `nul` is in the directory's name.  With `killWorks` no call of
\* Cgroup::kill fails.  `faults` bounds the other calls that fail, `kills` the
\* signals that kill the child.
RunType ==
  [frames : Seq(FrameKind), asked : SUBSET Feature, offered : SUBSET Feature,
   valid : BOOLEAN, argv : BOOLEAN, cd : BOOLEAN, nul : BOOLEAN, pty : BOOLEAN, sized : BOOLEAN,
   cgroup : {"no", "try", "required"}, killWorks : BOOLEAN, shim : Account, user : SUBSET Account,
   group : SUBSET Nat, known : BOOLEAN, faults : Nat, kills : Nat]
ASSUME RunsAssumption ==
  \A r \in Runs : /\ r \in RunType /\ \A u, v \in r.user : u = v
                  /\ \A g, h \in r.group : g = h

VARIABLES
  run,      \* the request, with what is left of its bounds
  pc,       \* where the shim's main thread is
  sent,     \* frames written, ERROR with the stage it names
  features, \* `selected`
  child,    \* the child process
  kin,      \* a process the program forked; "dying" with a SIGKILL pending
  cgroup,   \* the directory of the child's cgroup
  std,      \* what `Command::spawn` hears from the child
  report,   \* the report pipe: nothing, or the stage in it
  holding,  \* the shim has the write end of the report pipe
  fault     \* history: the operation that failed, or "none"; "lost" for a report

vars == <<run, pc, sent, features, child, kin, cgroup, std, report, holding, fault>>

Stage == {"spawn", "cwd", "exec", "privdrop", "cgroup", "pty"}
Final == {"ended", "failed", "supervising"}

\* What the child does between fork and exec is Order.
UidFirst == <<"cwd", "session", "terminal", "size", "cgroup", "uid", "gid", "groups",
              "marker", "exec">>
MarkerFirst == <<"cwd", "session", "terminal", "size", "cgroup", "marker", "groups", "gid",
                 "uid", "exec">>
Order == <<"cwd", "session", "terminal", "size", "cgroup", "groups", "gid", "uid",
           "marker", "exec">>
Steps == {Order[k] : k \in DOMAIN Order}
StageOf ==
  [s \in Steps |->
     CASE s = "cwd" -> "cwd"
       [] s \in {"terminal", "size"} -> "pty"
       [] s = "cgroup" -> "cgroup"
       [] s \in {"groups", "gid", "uid"} -> "privdrop"
       [] s = "exec" -> "exec"
       [] OTHER -> "spawn"]

Unborn == [life |-> "none", did |-> {}, who |-> [uid |-> 0, gid |-> 0, groups |-> {}]]
Alive == child.life \in {"setup", "failing", "program"}
Contained == "cgroup" \in child.did
Structured == "structured" \in features

Init ==
  /\ run \in Runs
  /\ pc = "first" /\ sent = <<>> /\ features = {}
  /\ child = Unborn /\ kin = "none" /\ cgroup = "none"
  /\ std = "open" /\ report = "nothing" /\ holding = FALSE
  /\ fault = "none"

\* A call fails for a reason outside the model.
Fails(what) ==
  /\ run.faults > 0 /\ run' = [run EXCEPT !.faults = @ - 1]
  /\ fault' = what
Works == UNCHANGED <<run, fault>>

-----------------------------------------------------------------------------
(* Who the child is to be: privdrop::resolve.                              *)

The(s) == CHOOSE x \in s : TRUE
Drops == run.user # {} \/ run.group # {}
Gid == IF run.group # {} THEN The(run.group) ELSE The(run.user).gid
Groups == IF run.user = {} THEN {Gid} ELSE The(run.user).groups \cup {Gid}

SetsUid == run.user # {} /\ The(run.user).uid # run.shim.uid
SetsGid == Drops /\ Gid # run.shim.gid
SetsChanged == SetsUid \/ SetsGid
SetsGroups == run.group # {} \/ SetsUid \/ SetsGid

Needed(s) ==
  CASE s = "cwd" -> run.cd
    [] s = "terminal" -> run.pty
    [] s = "size" -> run.pty /\ run.sized
    [] s = "cgroup" -> cgroup = "made"
    [] s = "groups" -> SetsGroups
    [] s = "gid" -> SetsGid
    [] s = "uid" -> SetsUid
    [] s = "marker" -> Structured
    [] OTHER -> TRUE

-----------------------------------------------------------------------------
(* Frames, and the ways to end.                                            *)

Frame == IF run.frames = <<>> THEN "eof" ELSE Head(run.frames)
NextFrame == run' = [run EXCEPT !.frames = Tail(@)]

\* What stays in the cgroup keeps its directory from being removed.
Populated == Contained /\ (Alive \/ kin # "none")
NotRemoved == cgroup
Removed == IF cgroup = "made" /\ ~Populated THEN "gone" ELSE cgroup

\* Returning with an ERROR frame, or with an error that main prints; dropping
\* the Cgroup tries to remove its directory.
EndWith(frames, how) ==
  /\ sent' = sent \o frames /\ pc' = how /\ cgroup' = Removed
Error(stage) == [tag |-> "ERROR", stage |-> IF Structured THEN stage ELSE "none"]
Plain == [tag |-> "ERROR", stage |-> "none"]

childVars == <<child, kin, std, report, holding>>

-----------------------------------------------------------------------------
(* The shim up to the fork.                                                *)

\* Zero length, a length over the cap and an end inside a frame are errors.
ReadFails ==
  /\ pc \in {"first", "second"} /\ Frame \in {"empty", "huge", "torn"}
  /\ EndWith(<<>>, "failed")
  /\ UNCHANGED <<run, features, childVars, fault>>

Unsupported == ~(run.asked \subseteq run.offered)
ReadHello ==
  /\ pc = "first" /\ Frame = "hello" /\ NextFrame
  /\ IF Unsupported
     THEN EndWith(<<Plain>>, "ended") /\ UNCHANGED features
     ELSE /\ features' = run.asked
          /\ sent' = Append(sent, [tag |-> "CAPABILITIES", stage |-> "none"])
          /\ pc' = "second" /\ UNCHANGED cgroup
  /\ UNCHANGED <<childVars, fault>>

HelloUnanswered ==
  /\ pc = "first" /\ Frame = "hello" /\ ~Unsupported /\ Fails("hello")
  /\ EndWith(<<>>, "failed")
  /\ UNCHANGED <<features, childVars>>

ReadSpawn ==
  /\ pc \in {"first", "second"} /\ Frame = "spawn" /\ NextFrame
  /\ IF run.valid THEN pc' = "tracking" /\ UNCHANGED <<sent, cgroup>>
                  ELSE EndWith(<<Plain>>, "ended")
  /\ UNCHANGED <<features, childVars, fault>>

\* Another frame, or the end of file before anything was spawned.
ReadOther ==
  /\ \/ pc = "first" /\ Frame = "other"
     \/ pc = "second" /\ Frame \in {"hello", "other"}
     \/ pc \in {"first", "second"} /\ Frame = "eof"
  /\ EndWith(IF Frame = "eof" THEN <<>> ELSE <<Plain>>, "ended")
  /\ UNCHANGED <<run, features, childVars, fault>>

\* tracking::prepare.
PrepareTracking ==
  /\ pc = "tracking"
  /\ \/ Works /\ pc' = "resolve" /\ UNCHANGED <<sent, cgroup>>
     \/ "track" \in features /\ Fails("tracking") /\ EndWith(<<Plain>>, "ended")
  /\ UNCHANGED <<features, childVars>>

\* The head of argv, and the names of the request.
Resolve ==
  /\ pc = "resolve"
  /\ CASE ~run.argv -> EndWith(<<Error("spawn")>>, "ended") /\ fault' = "session"
       [] run.argv /\ Drops /\ ~run.known ->
            EndWith(<<Error("privdrop")>>, "ended") /\ fault' = "uid"
       [] OTHER -> pc' = "cgroup" /\ UNCHANGED <<sent, cgroup, fault>>
  /\ UNCHANGED run
  /\ UNCHANGED <<features, childVars>>

\* try_prepare makes the directory, then opens cgroup.procs and, if required,
\* cgroup.kill; it removes the directory when a file does not open.
PrepareCgroup ==
  /\ pc = "cgroup"
  /\ \/ /\ cgroup' = IF run.cgroup = "no" THEN "none" ELSE "made"
        /\ pc' = "pty" /\ Works /\ UNCHANGED sent
     \/ /\ run.cgroup = "try" /\ Fails("none")
        /\ cgroup' \in {"none", "gone"} /\ pc' = "pty" /\ UNCHANGED sent
     \/ /\ run.cgroup = "required" /\ Fails("cgroup")
        /\ cgroup' \in {"none", "gone"} /\ pc' = "ended"
        /\ sent' = Append(sent, Error("cgroup"))
  /\ UNCHANGED <<features, childVars>>

\* prepare_child_pty, the report pipe and the conversion of the directory.
PrepareChannels ==
  /\ pc = "pty"
  /\ \/ /\ ~(Structured /\ run.cd /\ run.nul)
        /\ holding' = Structured /\ pc' = "fork"
        /\ Works /\ UNCHANGED <<sent, cgroup>>
     \/ /\ Structured /\ run.cd /\ run.nul
        /\ fault' = "cwd" /\ EndWith(<<Error("cwd")>>, "ended")
        /\ UNCHANGED <<run, holding>>
     \/ /\ run.pty /\ Fails("terminal")
        /\ EndWith(<<Error("pty")>>, "ended") /\ UNCHANGED holding
     \/ /\ Structured /\ Fails("session")
        /\ EndWith(<<Error("spawn")>>, "ended") /\ UNCHANGED holding
  /\ UNCHANGED <<features, child, kin, std, report>>

Fork ==
  /\ pc = "fork" /\ ~(run.cd /\ run.nul)
  /\ child' = [life |-> "setup", did |-> {}, who |-> run.shim]
  /\ pc' = "spawning" /\ std' = "open" /\ Works
  /\ UNCHANGED <<sent, features, kin, cgroup, report, holding>>

\* No stdio, no process, or a directory that legacy spawning finds unusable.
ForkFails ==
  /\ pc = "fork"
  /\ IF run.cd /\ run.nul THEN fault' = "session" /\ UNCHANGED run ELSE Fails("session")
  /\ std' = "error" /\ pc' = "spawning"
  /\ UNCHANGED <<sent, features, child, kin, cgroup, report, holding>>

-----------------------------------------------------------------------------
(* The child.                                                              *)

\* The first step that the request needs and the child has not taken.
Due(s) ==
  /\ child.life = "setup"
  /\ \E k \in DOMAIN Order :
       /\ s = Order[k] /\ Needed(s) /\ s \notin child.did
       /\ \A j \in 1..(k - 1) : Needed(Order[j]) => Order[j] \in child.did

\* Only root may change its groups or ids.
Permitted(s) == s \in {"groups", "gid", "uid"} => child.who.uid = 0

Became(s) ==
  CASE s = "groups" -> [child.who EXCEPT !.groups = Groups]
    [] s = "gid" -> [child.who EXCEPT !.gid = Gid]
    [] s = "uid" -> [child.who EXCEPT !.uid = The(run.user).uid]
    [] OTHER -> child.who

\* The shim reads the first record of the pipe.
Written(stage) == IF report = "nothing" THEN stage ELSE report

ChildStep(s) ==
  /\ Due(s) /\ Permitted(s)
  /\ child' = [life |-> IF s = "exec" THEN "program" ELSE "setup",
               did |-> child.did \cup {s}, who |-> Became(s)]
  /\ report' = IF s = "marker" THEN Written("exec") ELSE report
  /\ std' = IF s = "exec" THEN "done" ELSE std
  /\ UNCHANGED <<run, pc, sent, features, kin, cgroup, holding, fault>>

\* `check` reports the failed operation; std is told its errno afterwards.
Reports(s) == Structured /\ s \notin {"marker", "exec"}
ChildStepFails(s) ==
  /\ Due(s)
  /\ \/ ~Permitted(s) /\ fault' = s /\ UNCHANGED run
     \/ Fails(s)
  /\ child' = [child EXCEPT !.life = "failing"]
  /\ report' = IF Reports(s) THEN Written(StageOf[s]) ELSE report
  /\ UNCHANGED <<pc, sent, features, kin, cgroup, std, holding>>

ReportLost(s) ==
  /\ Due(s) /\ Reports(s) /\ run.faults > 1
  /\ run' = [run EXCEPT !.faults = @ - 2] /\ fault' = "lost"
  /\ child' = [child EXCEPT !.life = "failing"]
  /\ UNCHANGED <<pc, sent, features, kin, cgroup, std, report, holding>>

ChildTells ==
  /\ child.life = "failing"
  /\ std' = "error" /\ child' = [child EXCEPT !.life = "zombie"]
  /\ UNCHANGED <<run, pc, sent, features, kin, cgroup, report, holding, fault>>

\* The program may fork and leave its group, and exits when it likes.
Forks ==
  /\ child.life = "program" /\ kin = "none" /\ pc \notin Final
  /\ kin' \in {"group", "away"}
  /\ UNCHANGED <<run, pc, sent, features, child, cgroup, std, report, holding, fault>>

Exits ==
  /\ child.life = "program" /\ child' = [child EXCEPT !.life = "zombie"]
  /\ UNCHANGED <<run, pc, sent, features, kin, cgroup, std, report, holding, fault>>

Killed ==
  /\ Alive /\ run.kills > 0 /\ run' = [run EXCEPT !.kills = @ - 1]
  /\ child' = [child EXCEPT !.life = "zombie"]
  /\ UNCHANGED <<pc, sent, features, kin, cgroup, std, report, holding, fault>>

-----------------------------------------------------------------------------
(* The shim after the fork.                                                *)

\* `finish_spawn` drops the Command, and with it the write end, in any case.
StillHeld == holding
Dropped == FALSE

\* std has reaped the child of a spawn it reports as failed.
SpawnFailed ==
  /\ pc = "spawning" /\ std = "error"
  /\ child' = [child EXCEPT !.life = IF @ = "none" THEN "none" ELSE "reaped"]
  /\ pc' = "attribute" /\ holding' = Dropped
  /\ UNCHANGED <<run, sent, features, kin, cgroup, std, report, fault>>

SpawnReturned ==
  /\ pc = "spawning" /\ std # "error"
  /\ std = "done" \/ child.life = "zombie"
  /\ pc' = "identity" /\ holding' = Dropped
  /\ UNCHANGED <<run, sent, features, child, kin, cgroup, std, report, fault>>

\* ReportReader::failure waits for a report or for the last write end to close.
Attribute ==
  /\ pc = "attribute" /\ (report # "nothing" \/ ~holding \/ ~Structured)
  /\ EndWith(<<Error(IF report = "nothing" THEN "spawn" ELSE report)>>, "ended")
  /\ UNCHANGED <<run, features, childVars, fault>>

Announced ==
  (IF "identity" \in features THEN <<[tag |-> "SPAWNED", stage |-> "none"]>> ELSE <<>>)
  \o (IF "track" \in features THEN <<[tag |-> "TRACKED", stage |-> "none"]>> ELSE <<>>)

\* The child is not reaped yet, so its identity can be read even if it is dead.
Announce ==
  /\ pc = "identity"
  /\ \/ Works /\ pc' = "handover" /\ sent' = sent \o Announced
     \/ /\ Announced # <<>> /\ Fails("identity")
        /\ pc' \in {"abort_with_error", "abort"} /\ UNCHANGED sent
  /\ UNCHANGED <<features, child, kin, cgroup, std, report, holding>>

\* The pumps, reader, waiter and timer start, unless the pty is not duplicated.
HandOver ==
  /\ pc = "handover"
  /\ \/ Works /\ pc' = "supervising" /\ UNCHANGED cgroup
     \/ /\ run.pty /\ Fails("clone")
        /\ IF "track" \in features THEN pc' = "abort" /\ UNCHANGED cgroup
                                   ELSE pc' = "failed" /\ cgroup' = Removed
  /\ UNCHANGED <<sent, features, child, kin, std, report, holding>>

\* What SIGKILL to the group and cgroup.kill make of the program's descendant.
\* One that left the group is spared without a cgroup or if cgroup.kill fails.
Struck ==
  CASE kin = "group" -> {"dying"}
    [] kin = "away" -> (IF Contained THEN {"dying"} ELSE {})
                       \cup (IF Contained /\ run.killWorks THEN {} ELSE {"away"})
    [] OTHER -> {kin}

\* abort_spawn: SIGKILL to the group and through the cgroup, then the wait.
Aborting == pc \in {"abort", "abort_with_error"}
AbortKill ==
  /\ Aborting /\ Alive
  /\ child' = [child EXCEPT !.life = "zombie"]
  /\ kin' \in Struck
  /\ UNCHANGED <<run, pc, sent, features, cgroup, std, report, holding, fault>>

\* finish_cgroup kills once more and waits for the cgroup to drain.  What is
\* left of it at the deadline keeps the directory.
AbortFinish ==
  /\ Aborting /\ child.life = "zombie"
  /\ child' = [child EXCEPT !.life = "reaped"]
  /\ kin' \in Struck \cup {"none"}
  /\ cgroup' = IF cgroup = "made" /\ (Contained => kin' = "none") THEN "gone" ELSE cgroup
  /\ IF pc = "abort" THEN pc' = "failed" /\ UNCHANGED sent
                     ELSE pc' = "ended" /\ sent' = Append(sent, Plain)
  /\ UNCHANGED <<run, features, std, report, holding, fault>>

Shim == ReadFails \/ ReadHello \/ HelloUnanswered \/ ReadSpawn \/ ReadOther \/ PrepareTracking \/ Resolve
        \/ PrepareCgroup \/ PrepareChannels \/ Fork \/ ForkFails \/ SpawnFailed
        \/ SpawnReturned \/ Attribute \/ Announce \/ HandOver \/ AbortKill \/ AbortFinish
ChildSetsUp ==
  ChildTells \/ \E s \in Steps : ChildStep(s) \/ ChildStepFails(s) \/ ReportLost(s)
Next == Shim \/ ChildSetsUp \/ Forks \/ Exits \/ Killed

Spec == Init /\ [][Next]_vars
FairSpec == Spec /\ WF_vars(Shim) /\ WF_vars(ChildSetsUp)

-----------------------------------------------------------------------------

TypeOK ==
  /\ run \in RunType /\ features \in SUBSET Feature
  /\ pc \in Final \cup {"first", "second", "tracking", "resolve", "cgroup", "pty", "fork",
                       "spawning", "attribute", "identity", "handover", "abort",
                       "abort_with_error"}
  /\ sent \in Seq([tag : {"ERROR", "CAPABILITIES", "SPAWNED", "TRACKED"},
                   stage : Stage \cup {"none"}])
  /\ child \in [life : {"none", "setup", "failing", "program", "zombie", "reaped"},
                did : SUBSET Steps, who : Identity]
  /\ kin \in {"none", "group", "away", "dying"} /\ cgroup \in {"none", "made", "gone"}
  /\ std \in {"open", "error", "done"} /\ report \in Stage \cup {"nothing"}
  /\ holding \in BOOLEAN

\* A program that runs has everything that was asked for: a session, its
\* terminal, directory and required cgroup, and exactly the user, group and
\* supplementary groups of the request; only a request that names the shim's
\* own user leaves the inherited groups (`ChildSetup::apply`, privdrop.rs).
ProgramAsAsked ==
  "exec" \in child.did =>
    /\ "session" \in child.did /\ (run.cd => "cwd" \in child.did)
    /\ run.pty => "terminal" \in child.did /\ (run.sized => "size" \in child.did)
    /\ run.cgroup = "required" => Contained
    /\ \A u \in run.user : child.who.uid = u.uid /\ (run.group = {} => child.who.gid = u.gid)
    /\ \A g \in run.group : child.who.gid = g
    /\ \/ Drops /\ child.who.groups = Groups
       \/ run.group = {} /\ child.who = run.shim

\* No child of a privileged shim is refused a change of its groups or ids: none
\* of them takes away the privilege a later one needs (`DropPlan::apply`).
PrivilegedDropPermitted == \A s \in Steps : (Due(s) /\ run.shim.uid = 0) => Permitted(s)

\* A structured ERROR names the operation that failed, in the shim or in the
\* child, whatever else went on; "spawn" if the child could not report it
\* (`ReportReader::failure`).
ErrorNamesStage ==
  \A k \in DOMAIN sent :
    sent[k].stage # "none" =>
      sent[k].stage = IF fault = "lost" THEN "spawn" ELSE StageOf[fault]

\* A start that fails leaves no child, a process without a pending SIGKILL only
\* where neither the group's nor a working cgroup.kill reached it, and the
\* cgroup's directory only under a process that outlived the wait for it; except
\* after duplicating the terminal of an untracked child failed (`abort_spawn`,
\* `finish_cgroup`, `try_prepare`, `Cgroup::drop`; supervisor.rs:361).
FailedStartLeavesNothing ==
  (pc \in {"ended", "failed"} /\ (fault = "clone" => "track" \in features)) =>
    /\ child.life \in {"none", "reaped"}
    /\ kin # "group" /\ (kin = "away" /\ Contained => ~run.killWorks)
    /\ cgroup = "made" => Contained /\ kin # "none"

\* Once the frames or their end are in, the shim supervises a child or ends:
\* it never waits for a report nobody can write (`finish_spawn`).
StartupEnds == <>(pc \in Final)
=============================================================================
