------------------------------ MODULE Tracker -------------------------------
(***************************************************************************)
(* Descendant tracking on Linux: `Tracker` in                              *)
(* native/forcola_shim/src/tracking.rs and the part of `supervise_tracked` *)
(* in supervisor.rs that drives it, against a kernel that forks, reparents,*)
(* exits, regroups and reuses pids between any two of the tracker's reads. *)
(*                                                                         *)
(* The shim is a subreaper: an orphaned descendant becomes its child and   *)
(* only the shim may reap it.  A process has the identity (pid, born):     *)
(* `born` stands for the start time and counts the incarnations of a pid.  *)
(* `send_checked` is one step: the code documents that identity check and  *)
(* kill(2) are not atomic (tracking.rs:489-490).  Processes have one       *)
(* thread, so one read lists all children of a process.                    *)
(***************************************************************************)
EXTENDS Naturals, Sequences, FiniteSets

CONSTANTS
  Pids,          \* pids the kernel may give to descendants or strangers
  Root,          \* pid of the spawned child, a session and group leader
  Shim,          \* pid of the shim
  Outside,       \* parent of processes that are no descendants
  Runs           \* runs considered: request, limits and bounds

\* interrupt_grace_ms is present; MAX_PROCESSES and MAX_GROUPS; and bounds on
\* how often descendants fork, change their group, leave a pid to a stranger,
\* how many reads fail, and how often the run is told to stop.
Run == [interrupt : BOOLEAN, processLimit : Nat, groupLimit : Nat \ {0},
        births : Nat, hops : Nat, strangers : Nat, errors : Nat, stops : Nat]

ASSUME PidAssumption == Root \in Pids /\ Shim \notin Pids /\ Outside \notin Pids \cup {Shim}
ASSUME FiniteAssumption == IsFiniteSet(Pids)
ASSUME RunAssumption == Runs \subseteq Run

VARIABLES
  os,          \* the kernel's process table
  run,         \* the run, with what is left of its bounds
  processes,   \* Tracker.processes: the record last read of each pid
  groups,      \* Tracker.groups: incarnation of the leader and its stage
  members,     \* Tracker.members: identity and stage of single processes
  cleaning,    \* Tracker.cleanup is present
  late,        \* cleanup.deadline has passed
  uncertain, misses, empties,   \* uncertain, incomplete_scans, empty_scans
  pc,          \* where the thread is
  scan,        \* local variables of `scan`
  todo,        \* targets this pass of `advance` has not reached
  live, covered, force,         \* local variables of `advance`
  final,       \* the loop ended and finish_scan began
  outcome,     \* ChildExited was received
  verdict,     \* `confirmed` of the report
  stranger,    \* history: a signal reached a process that is no descendant
  hasty,       \* history: SIGKILL reached a process that was not warned
  dirty        \* history: latest scans in a row during which a process exited

kernelVars  == <<os, run>>
inventory   == <<processes, groups, members>>
cleanupVars == <<cleaning, late, uncertain, misses, empties>>
passVars    == <<todo, live, covered, force>>
endVars     == <<final, outcome, verdict>>
history     == <<stranger, hasty, dirty>>
vars == <<kernelVars, inventory, cleanupVars, pc, scan, passVars, endVars, history>>

Stage == {"none", "int", "term", "kill"}
Process == [life : {"free", "live", "zombie"}, born : Nat, group : Pids,
            parent : Pids \cup {Shim, Outside}, warned : BOOLEAN, doomed : BOOLEAN]
Record == [born : Nat, parent : Pids \cup {Shim, Outside}, group : Pids, exited : BOOLEAN]
Identity == [pid : Pids, born : Nat]

Free(n) == [life |-> "free", born |-> n, group |-> Root, parent |-> Outside,
            warned |-> FALSE, doomed |-> FALSE]
Unseen == [born |-> 0, parent |-> Outside, group |-> Root, exited |-> FALSE]
NoGroup == [born |-> 0, stage |-> "none"]
NoMember == [born |-> 0, group |-> Root, stage |-> "none"]

Exists(p) == os[p].life # "free"
Descendant(p) == os[p].parent # Outside
LivingDescendants == {p \in Pids : os[p].life = "live" /\ Descendant(p)}

Tracked(p) == processes[p].born # 0
Ident(p) == [pid |-> p, born |-> processes[p].born]
ShimIdent == [pid |-> Shim, born |-> 1]
LiveRecords == {p \in Pids : Tracked(p) /\ ~processes[p].exited}

ScanState == [queue : Seq(SUBSET Identity), visited : [Pids \cup {Shim} -> Nat],
              at : Identity \cup {ShimIdent}, kids : SUBSET Pids, batch : SUBSET Identity,
              incomplete : BOOLEAN, exits : BOOLEAN]

\* Every scan starts over from the shim and then the retained records.  The
\* shim's own record cannot change: its first read is left out, and so is
\* the second one in Recheck; their failing is that of reading its children.
NoScan == [queue |-> <<>>, visited |-> [p \in Pids \cup {Shim} |-> 0], at |-> ShimIdent,
           kids |-> {}, batch |-> {}, incomplete |-> FALSE, exits |-> FALSE]
Anchors == {Ident(p) : p \in {q \in Pids : Tracked(q)}}
NewScan == [NoScan EXCEPT !.queue = IF Anchors = {} THEN <<>> ELSE <<Anchors>>,
                          !.visited = [@ EXCEPT ![Shim] = 1]]

Init ==
  /\ os = [p \in Pids |->
             IF p = Root THEN [Free(1) EXCEPT !.life = "live", !.parent = Shim]
             ELSE Free(0)]
  /\ run \in Runs
  /\ processes = [p \in Pids |-> IF p = Root
                                 THEN [Unseen EXCEPT !.born = 1, !.parent = Shim]
                                 ELSE Unseen]
  /\ groups = [p \in Pids |-> IF p = Root THEN [NoGroup EXCEPT !.born = 1] ELSE NoGroup]
  /\ members = [p \in Pids |-> NoMember]
  /\ cleaning = FALSE /\ late = FALSE
  /\ uncertain = FALSE /\ misses = 0 /\ empties = 0
  /\ pc = "rest" /\ scan = NoScan
  /\ todo = {} /\ live = {} /\ covered = {} /\ force = FALSE
  /\ final = FALSE /\ outcome = FALSE /\ verdict = "none"
  /\ stranger = FALSE /\ hasty = FALSE /\ dirty = 0

-----------------------------------------------------------------------------
(* The kernel.                                                             *)

Running(p) == p \in LivingDescendants /\ ~os[p].doomed
Spend(what) == run[what] > 0 /\ run' = [run EXCEPT ![what] = @ - 1]

\* The id of a group that still has members is not given out as a pid.
Available(q) == ~Exists(q) /\ \A p \in Pids : Exists(p) => os[p].group # q

Fork(p, q) ==
  /\ Running(p) /\ Available(q) /\ Spend("births")
  /\ os' = [os EXCEPT ![q] = [os[p] EXCEPT !.born = os[q].born + 1, !.parent = p]]
  /\ UNCHANGED <<inventory, cleanupVars, pc, scan, passVars, endVars, history>>

\* setpgid or setsid: a group of its own, or one that has members.  A
\* process that joins a group which was given notice counts as warned.
Regroup(p, g) ==
  /\ Running(p) /\ p # Root /\ os[p].group # g /\ Spend("hops")
  /\ g = p \/ \E q \in LivingDescendants : os[q].group = g
  /\ os' = [os EXCEPT ![p].group = g,
                      ![p].warned = @ \/ \E q \in LivingDescendants :
                                             os[q].group = g /\ os[q].warned]
  /\ UNCHANGED <<inventory, cleanupVars, pc, scan, passVars, endVars, history>>

\* The children of a process that exits go to the subreaper.  A stranger is
\* reaped at once by someone else.
Exit(p) ==
  /\ os[p].life = "live"
  /\ os' = [q \in Pids |->
              CASE q = p /\ Descendant(p) ->
                     [os[p] EXCEPT !.life = "zombie", !.warned = FALSE, !.doomed = FALSE]
                [] q = p /\ ~Descendant(p) -> Free(os[p].born)
                [] OTHER -> IF os[q].parent = p THEN [os[q] EXCEPT !.parent = Shim]
                            ELSE os[q]]
  /\ scan' = [scan EXCEPT !.exits = @ \/ (Descendant(p) /\ pc \in {"pop", "children", "recheck", "kids"})]
  /\ UNCHANGED <<run, inventory, cleanupVars, pc, passVars, endVars, history>>

DoomedExit(p) == os[p].doomed /\ Exit(p)

\* A parent other than the shim waits for its child.
ParentReaps(p) ==
  /\ os[p].life = "zombie" /\ os[p].parent \in Pids
  /\ os' = [os EXCEPT ![p] = Free(@.born)]
  /\ UNCHANGED <<run, inventory, cleanupVars, pc, scan, passVars, endVars, history>>

\* A process that has nothing to do with the child gets a freed pid.
Intrude(q) ==
  /\ os[q].born > 0 /\ Available(q) /\ Spend("strangers")
  /\ os' = [os EXCEPT ![q] = [Free(@.born + 1) EXCEPT !.life = "live", !.group = q]]
  /\ UNCHANGED <<inventory, cleanupVars, pc, scan, passVars, endVars, history>>

-----------------------------------------------------------------------------
(* scan: one step for each read of the kernel's tables.                    *)

\* What a read of /proc/<pid>/stat returns, and whether it is the process
\* that was expected there.
Read(p) == [born |-> os[p].born, parent |-> os[p].parent, group |-> os[p].group,
            exited |-> os[p].life = "zombie"]
Same(e) == Exists(e.pid) /\ os[e.pid].born = e.born

ScanVars == <<kernelVars, groups, members, cleanupVars, passVars, endVars, history>>

StartScan ==
  /\ pc = "rest"
  /\ scan' = NewScan /\ pc' = "children"
  /\ UNCHANGED <<kernelVars, inventory, cleanupVars, passVars, endVars, history>>

\* The queue without one element of its oldest batch.  HashMap and HashSet
\* iterate in any order, so a batch has none.
Dequeue(e) ==
  LET rest == Head(scan.queue) \ {e}
  IN  (IF rest = {} THEN <<>> ELSE <<rest>>) \o Tail(scan.queue)

\* Read the expected process: keep it and go on to its children, or forget
\* a record whose process is gone.
Visit(e) ==
  /\ pc = "pop" /\ e \in Head(scan.queue)
  /\ \/ /\ scan.visited[e.pid] = e.born
        /\ scan' = [scan EXCEPT !.queue = Dequeue(e)]
        /\ UNCHANGED <<processes, pc>>
     \/ /\ scan.visited[e.pid] # e.born /\ Same(e)
        /\ scan' = [scan EXCEPT !.queue = Dequeue(e), !.at = e,
                                !.visited = [@ EXCEPT ![e.pid] = e.born]]
        /\ processes' = [processes EXCEPT ![e.pid] = Read(e.pid)]
        /\ pc' = "children"
     \/ /\ scan.visited[e.pid] # e.born /\ ~Same(e)
        /\ scan' = [scan EXCEPT !.queue = Dequeue(e)]
        /\ processes' = IF processes[e.pid].born = e.born
                        THEN [processes EXCEPT ![e.pid] = Unseen] ELSE processes
        /\ UNCHANGED pc
  /\ UNCHANGED ScanVars

Childhood(q) == Exists(q) /\ os[q].parent = scan.at.pid

\* Mutant: only the children of known processes are enumerated.
Children_Anchors ==
  /\ pc = "children"
  /\ LET found == IF scan.at = ShimIdent THEN {} ELSE {q \in Pids : Childhood(q)} IN
       /\ scan' = [scan EXCEPT !.kids = found]
       /\ pc' = IF scan.at # ShimIdent THEN "recheck" ELSE "pop"
  /\ UNCHANGED <<processes, ScanVars>>

Children ==
  /\ pc = "children"
  /\ LET found == {q \in Pids : Childhood(q)} IN
       /\ scan' = [scan EXCEPT !.kids = found]
       /\ pc' = IF scan.at # ShimIdent THEN "recheck"
                ELSE IF found = {} THEN "pop" ELSE "kids"
  /\ UNCHANGED <<processes, ScanVars>>

\* The parent may have gone, and its pid been reused, during enumeration.
Recheck ==
  /\ pc = "recheck"
  /\ pc' = IF Same(scan.at) /\ scan.kids # {} THEN "kids" ELSE "pop"
  /\ scan' = [scan EXCEPT !.kids = IF Same(scan.at) THEN @ ELSE {}]
  /\ UNCHANGED <<processes, ScanVars>>

Overflow(q) == ~Tracked(q) /\ Cardinality({p \in Pids : Tracked(p)}) >= run.processLimit

\* Go on to the next child; after the last one those found join the queue,
\* as one batch since a set has no order.
NextKid(left, found) ==
  IF left # {} THEN scan' = [scan EXCEPT !.kids = left, !.batch = found] /\ UNCHANGED pc
  ELSE /\ scan' = [scan EXCEPT !.kids = {}, !.batch = {},
                     !.queue = IF found = {} THEN @ ELSE Append(@, found)]
       /\ pc' = "pop"

Kid(q) ==
  /\ pc = "kids" /\ q \in scan.kids
  /\ \/ /\ ~Childhood(q) \/ scan.visited[q] = os[q].born
        /\ NextKid(scan.kids \ {q}, scan.batch)
        /\ UNCHANGED <<processes, uncertain>>
     \/ /\ Childhood(q) /\ scan.visited[q] # os[q].born /\ Overflow(q)
        /\ NextKid({}, scan.batch)
        /\ uncertain' = TRUE
        /\ UNCHANGED processes
     \/ /\ Childhood(q) /\ scan.visited[q] # os[q].born /\ ~Overflow(q)
        /\ NextKid(scan.kids \ {q}, scan.batch \cup {[pid |-> q, born |-> os[q].born]})
        /\ processes' = [processes EXCEPT ![q] = Read(q)]
        /\ UNCHANGED uncertain
  /\ UNCHANGED <<kernelVars, groups, members, cleaning, late, misses, empties,
                 passVars, endVars, history>>

\* A read fails for the moment: the scan goes on, incomplete.
ReadFails ==
  /\ Spend("errors")
  /\ \/ \E e \in (IF pc = "pop" /\ scan.queue # <<>> THEN Head(scan.queue) ELSE {}) :
          /\ scan.visited[e.pid] # e.born
          /\ scan' = [scan EXCEPT !.incomplete = TRUE, !.queue = Dequeue(e)]
          /\ UNCHANGED pc
     \/ /\ pc \in {"children", "recheck"}
        /\ scan' = [scan EXCEPT !.incomplete = TRUE, !.kids = {}] /\ pc' = "pop"
     \/ /\ pc = "kids"
        /\ \E q \in scan.kids :
             LET left == scan.kids \ {q} IN
             /\ scan' = [scan EXCEPT !.incomplete = TRUE, !.kids = left,
                           !.batch = IF left = {} THEN {} ELSE @,
                           !.queue = IF left # {} \/ scan.batch = {} THEN @
                                     ELSE Append(@, scan.batch)]
             /\ pc' = IF left = {} THEN "pop" ELSE "kids"
  /\ UNCHANGED <<os, inventory, cleanupVars, passVars, endVars, history>>

\* Adopted zombies, the root excepted, which stays until tracking ends.
Adopted == {p \in Pids : Tracked(p) /\ p # Root /\ processes[p].parent = Shim
                         /\ processes[p].exited}

\* A group is kept while its leader's record, or a member's, is.
Retained(p, kept) ==
  LET r == kept[p] IN
  /\ groups[p].born # 0
  /\ r.born # 0 => r.born = groups[p].born
  /\ (r.born # 0 /\ r.group = p) \/ \E q \in Pids : kept[q].born # 0 /\ kept[q].group = p

Missed == IF scan.incomplete THEN misses + 1 ELSE 0

Room(n) == IF run.groupLimit > n THEN run.groupLimit - n ELSE 0

\* The end of scan: reap, prune, note new groups, count incomplete scans.
\* Which groups are noted when they exceed the limit is up to a HashMap.
Settle ==
  /\ pc = "pop" /\ scan.queue = <<>>
  /\ os' = [p \in Pids |-> IF p \in Adopted THEN Free(os[p].born) ELSE os[p]]
  /\ LET kept == [p \in Pids |-> IF p \in Adopted THEN Unseen ELSE processes[p]]
         old == {p \in Pids : Retained(p, kept)}
         new == {p \in Pids : kept[p].born # 0 /\ kept[p].group = p} \ old
         room == Room(Cardinality(old))
         missed == Missed
     IN  /\ processes' = kept
         /\ \E noted \in SUBSET new :
              /\ Cardinality(noted) = IF Cardinality(new) < room THEN Cardinality(new) ELSE room
              /\ groups' = [p \in Pids |->
                              CASE p \in old -> groups[p]
                                [] p \in noted -> [born |-> kept[p].born, stage |-> "none"]
                                [] OTHER -> NoGroup]
         /\ members' = [p \in Pids |->
              IF /\ kept[p].born # 0 /\ ~kept[p].exited
                 /\ members[p].born = kept[p].born /\ members[p].group = kept[p].group
              THEN members[p] ELSE NoMember]
         /\ misses' = missed
         /\ uncertain' = (uncertain \/ missed >= 3 \/ Cardinality(new) > room)
  /\ scan' = [NoScan EXCEPT !.exits = scan.exits]
  /\ dirty' = IF ~scan.exits \/ ~cleaning THEN 0 ELSE IF dirty < 3 THEN dirty + 1 ELSE 3
  /\ pc' = IF final THEN "finish" ELSE "scanned"
  /\ UNCHANGED <<run, cleaning, late, empties, passVars, endVars, stranger, hasty>>

-----------------------------------------------------------------------------
(* advance: one step for each target.                                      *)

LoopVars == <<kernelVars, inventory, scan, endVars, history>>

\* A healthy run goes back to its events; discovery that cannot be trusted
\* starts the cleanup.
Scanned ==
  /\ pc = "scanned"
  /\ cleaning' = (cleaning \/ uncertain)
  /\ IF cleaning' THEN pc' = "groups" /\ live' = LiveRecords /\ force' = late
                       /\ todo' = {p \in Pids : groups[p].born # 0} /\ covered' = {}
     ELSE pc' = "rest" /\ UNCHANGED passVars
  /\ scan' = NoScan
  /\ UNCHANGED <<late, uncertain, misses, empties, kernelVars, inventory, endVars, history>>

\* next_signal: the stage a target is in from now on, and the signal to
\* send, "none" while the grace of its stage runs.
Following(stage) ==
  CASE stage = "none" -> IF run.interrupt THEN "int" ELSE "term"
    [] stage = "int" -> "term"
    [] OTHER -> "kill"
Due(stage) ==
  IF late THEN {[stage |-> "kill", signal |-> "kill"]}
  ELSE {[stage |-> Following(stage), signal |-> Following(stage)]}
       \cup (IF stage = "none" THEN {} ELSE {[stage |-> stage, signal |-> "none"]})
Shortened(stage) == late /\ stage # "kill"

\* The effect of a signal on the processes ps.  INT and TERM may be
\* ignored; whoever obeys them exits.  The tracker takes the processes in
\* told to have got it too, and they count as warned.
Deliver(signal, ps, told) ==
  LET hit == {q \in ps : os[q].life = "live"} IN
  /\ os' = [q \in Pids |->
       CASE q \in hit /\ signal = "kill" -> [os[q] EXCEPT !.doomed = TRUE]
         [] q \in hit \cup told /\ signal = "term" -> [os[q] EXCEPT !.warned = TRUE]
         [] OTHER -> os[q]]
  /\ stranger' = (stranger \/ (signal # "none" /\ \E q \in hit : ~Descendant(q)))
  /\ hasty' = (hasty \/ (signal = "kill" /\ \E q \in hit : ~os[q].warned))

\* Mutant: a group is signalled by its number alone.
LeaderStands_Number(p) == TRUE
\* send_checked for a group, and for a single process.
LeaderStands(p) == Exists(p) /\ os[p].born = groups[p].born /\ os[p].group = p
StillRuns(p) == os[p].life = "live" /\ os[p].born = processes[p].born
\* Mutant: a full escalation cut short by the deadline is not held against
\* the report.
GroupStep_Lenient(p) ==
  /\ pc = "groups" /\ p \in todo
  /\ todo' = todo \ {p}
  /\ LET mates == {q \in live : processes[q].group = p} IN
     IF mates # {} /\ LeaderStands(p) THEN
       \E next \in Due(groups[p].stage) :
         /\ Deliver(next.signal, {q \in Pids : os[q].group = p}, {q \in mates : StillRuns(q)})
         /\ groups' = [groups EXCEPT ![p].stage = next.stage]
         /\ members' = [q \in Pids |-> IF q \in mates
                          THEN [born |-> processes[q].born, group |-> p, stage |-> next.stage]
                          ELSE members[q]]
         /\ covered' = covered \cup mates
     ELSE UNCHANGED <<os, groups, members, covered, stranger, hasty>>
  /\ UNCHANGED <<run, processes, cleanupVars, pc, scan, live, force, endVars, dirty>>

GroupStep(p) ==
  /\ pc = "groups" /\ p \in todo
  /\ todo' = todo \ {p}
  /\ LET mates == {q \in live : processes[q].group = p} IN
     IF mates # {} /\ LeaderStands(p) THEN
       \E next \in Due(groups[p].stage) :
         /\ Deliver(next.signal, {q \in Pids : os[q].group = p}, {q \in mates : StillRuns(q)})
         /\ groups' = [groups EXCEPT ![p].stage = next.stage]
         /\ members' = [q \in Pids |-> IF q \in mates
                          THEN [born |-> processes[q].born, group |-> p, stage |-> next.stage]
                          ELSE members[q]]
         /\ covered' = covered \cup mates
         /\ uncertain' = (uncertain \/ Shortened(groups[p].stage))
     ELSE UNCHANGED <<os, groups, members, covered, uncertain, stranger, hasty>>
  /\ UNCHANGED <<run, processes, cleaning, late, misses, empties, pc, scan, live,
                 force, endVars, dirty>>

GroupsDone ==
  /\ pc = "groups" /\ todo = {}
  /\ todo' = live \ covered /\ pc' = "members"
  /\ UNCHANGED <<cleanupVars, live, covered, force, LoopVars>>

\* A member no group signal covered is signalled by itself.
MemberStep(p) ==
  /\ pc = "members" /\ p \in todo
  /\ todo' = todo \ {p}
  /\ \E next \in Due(members[p].stage) :
       IF next.signal # "none" /\ StillRuns(p) THEN
         /\ Deliver(next.signal, {p}, {})
         /\ members' = [members EXCEPT ![p] = [born |-> processes[p].born,
                           group |-> processes[p].group, stage |-> next.stage]]
         /\ uncertain' = (uncertain \/ Shortened(members[p].stage))
       ELSE UNCHANGED <<os, members, uncertain, stranger, hasty>>
  /\ UNCHANGED <<run, processes, groups, cleaning, late, misses, empties, pc, scan,
                 live, covered, force, endVars, dirty>>

\* A read before a signal fails: the target is passed over, uncertain.
CheckFails(p) ==
  /\ pc \in {"groups", "members"} /\ p \in todo /\ Spend("errors")
  /\ todo' = todo \ {p} /\ uncertain' = TRUE
  /\ UNCHANGED <<os, inventory, cleaning, late, misses, empties, pc, scan, live,
                 covered, force, endVars, history>>

\* The end of advance and what the loop makes of its progress.
Judge ==
  /\ pc = "members" /\ todo = {}
  /\ empties' = IF live # {} \/ misses > 0 THEN 0 ELSE IF empties < 2 THEN empties + 1 ELSE 2
  /\ uncertain' = (uncertain \/ (force /\ (live # {} \/ misses > 0)))
  /\ IF (empties' = 2 /\ outcome) \/ force
     THEN /\ verdict' = IF live = {} /\ ~uncertain' /\ outcome THEN "confirmed" ELSE "unconfirmed"
          /\ final' = TRUE /\ scan' = NewScan /\ pc' = "children"
     ELSE pc' = "rest" /\ UNCHANGED <<verdict, final, scan>>
  /\ live' = {} /\ covered' = {} /\ force' = FALSE
  /\ UNCHANGED <<kernelVars, inventory, cleaning, late, misses, todo, outcome, history>>

-----------------------------------------------------------------------------
(* The loop's events and the end of the run.                               *)

\* The waiter saw the root's exit without reaping it.
ChildExited ==
  /\ pc = "rest" /\ ~outcome /\ os[Root].life = "zombie"
  /\ outcome' = TRUE /\ cleaning' = TRUE
  /\ UNCHANGED <<kernelVars, inventory, late, uncertain, misses, empties, pc, scan,
                 passVars, final, verdict, history>>

\* KILL, the timeout, or the BEAM gone.
Stop ==
  /\ pc = "rest" /\ ~cleaning /\ Spend("stops")
  /\ cleaning' = TRUE
  /\ UNCHANGED <<os, inventory, late, uncertain, misses, empties, pc, scan,
                 passVars, endVars, history>>

Deadline ==
  /\ cleaning /\ ~late /\ pc # "done"
  /\ late' = TRUE
  /\ UNCHANGED <<kernelVars, inventory, cleaning, uncertain, misses, empties, pc, scan,
                 passVars, endVars, history>>

\* Mutant: the final scan only kills, the verdict stands.
Finish_Kills ==
  /\ pc = "finish"
  /\ todo' = LiveRecords /\ pc' = "last"
  /\ UNCHANGED <<kernelVars, inventory, cleanupVars, scan, live, covered, force, endVars, history>>

\* finish_scan: whatever is found now cannot be confirmed and is killed.
Finish ==
  /\ pc = "finish"
  /\ todo' = LiveRecords
  /\ uncertain' = (uncertain \/ todo' # {})
  /\ verdict' = IF uncertain' \/ misses > 0 THEN "unconfirmed" ELSE verdict
  /\ pc' = "last"
  /\ UNCHANGED <<kernelVars, inventory, cleaning, late, misses, empties, scan, live,
                 covered, force, final, outcome, history>>

LastKill(p) ==
  /\ pc = "last" /\ p \in todo
  /\ todo' = todo \ {p}
  /\ IF StillRuns(p) THEN Deliver("kill", {p}, {}) ELSE UNCHANGED <<os, stranger, hasty>>
  /\ UNCHANGED <<run, inventory, cleanupVars, pc, scan, live, covered, force, endVars,
                 dirty>>

\* A root that never reported its exit is killed directly: unreaped, its pid
\* cannot have been reused.
KillRoot ==
  /\ pc = "last" /\ todo = {}
  /\ IF outcome THEN UNCHANGED <<os, stranger, hasty>> ELSE Deliver("kill", {Root}, {})
  /\ pc' = "reap"
  /\ UNCHANGED <<run, inventory, cleanupVars, scan, passVars, endVars, dirty>>

ReapRoot ==
  /\ pc = "reap" /\ os[Root].life = "zombie"
  /\ os' = [os EXCEPT ![Root] = Free(@.born)]
  /\ pc' = "done"
  /\ UNCHANGED <<run, inventory, cleanupVars, scan, passVars, endVars, history>>

ReapExpired ==
  /\ pc = "reap" /\ os[Root].life = "live"
  /\ verdict' = "unconfirmed" /\ pc' = "done"
  /\ UNCHANGED <<kernelVars, inventory, cleanupVars, scan, passVars, final, outcome, history>>

Ended == pc = "done" /\ UNCHANGED vars

-----------------------------------------------------------------------------
Kernel ==
  \/ \E p, q \in Pids : Fork(p, q) \/ Regroup(p, q)
  \/ \E p \in Pids : Exit(p) \/ ParentReaps(p) \/ Intrude(p)

Scanning ==
  \/ \E e \in (IF scan.queue = <<>> THEN {} ELSE Head(scan.queue)) : Visit(e)
  \/ Children \/ Recheck \/ ReadFails \/ Settle
  \/ \E q \in Pids : Kid(q)

Advancing ==
  \/ Scanned \/ GroupsDone \/ Judge
  \/ \E p \in Pids : GroupStep(p) \/ MemberStep(p) \/ CheckFails(p)

Ending ==
  \/ Finish \/ KillRoot \/ ReapRoot \/ ReapExpired
  \/ \E p \in Pids : LastKill(p)

Next ==
  \/ Kernel \/ StartScan \/ Scanning \/ Advancing \/ Ending
  \/ ChildExited \/ Stop \/ Deadline \/ Ended

Spec == Init /\ [][Next]_vars

-----------------------------------------------------------------------------
(* Properties.                                                             *)

\* Every variable keeps its type, and no more groups are retained than the
\* limit allows.
TypeOK ==
  /\ os \in [Pids -> Process]
  /\ run \in Run
  /\ processes \in [Pids -> Record]
  /\ groups \in [Pids -> [born : Nat, stage : Stage]]
  /\ members \in [Pids -> [born : Nat, group : Pids, stage : Stage]]
  /\ cleaning \in BOOLEAN /\ late \in BOOLEAN /\ uncertain \in BOOLEAN
  /\ misses \in Nat /\ empties \in 0..2
  /\ pc \in {"rest", "pop", "children", "recheck", "kids", "scanned", "groups",
             "members", "finish", "last", "reap", "done"}
  /\ scan \in ScanState
  /\ Cardinality({p \in Pids : groups[p].born # 0}) <= run.groupLimit
  /\ todo \in SUBSET Pids /\ live \in SUBSET Pids /\ covered \in SUBSET Pids
  /\ force \in BOOLEAN /\ final \in BOOLEAN /\ outcome \in BOOLEAN
  /\ verdict \in {"none", "confirmed", "unconfirmed"}
  /\ stranger \in BOOLEAN /\ hasty \in BOOLEAN /\ dirty \in 0..3

\* No signal ever reaches a process that is not a descendant, though pids
\* and group ids of dead descendants are given to strangers while stale
\* records of them wait in the inventory, the queue and the target lists.
NoStrangerSignalled == ~stranger

\* An empty inventory from a complete scan during which no process exited is
\* the truth, whatever was forked, reparented or regrouped meanwhile.
EmptyScanIsTrue ==
  pc = "scanned" /\ ~scan.exits /\ misses = 0 /\ ~uncertain /\ LiveRecords = {}
    => LivingDescendants = {}

\* The inventory stays within its bounds, and tells the truth when it is
\* empty.
InventorySound == TypeOK /\ EmptyScanIsTrue

\* A confirmed report beside a living descendant takes exits during each of
\* the last three scans, the two that found nothing and the final one, or
\* of two scans when the deadline cut the cleanup short.
SurvivorSlippedThrough ==
  pc = "done" /\ verdict = "confirmed" /\ LivingDescendants # {} =>
    dirty >= (IF late THEN 2 ELSE 3)

\* A confirmed report means that no SIGKILL came to a process before a SIGTERM
\* to it, to its parent, or to a group it was in or was last seen in.
KilledUnwarnedUnconfirmed == verdict = "confirmed" /\ pc = "done" => ~hasty

=============================================================================
