--------------------------- MODULE TrackerProofs ----------------------------
(***************************************************************************)
(* Theorems about Tracker for every finite set of pids, any limits and any *)
(* number of forks, exits, regroupings, reused pids and failing reads: the *)
(* inventory's bounds, whom a signal reaches, what an empty scan proves,   *)
(* how a survivor slips through, and who is killed without notice.         *)
(***************************************************************************)
EXTENDS Tracker, SequenceTheorems, FiniteSetTheorems, TLAPS

Living == LivingDescendants

-----------------------------------------------------------------------------
(* The inductive invariant, part by part.                                  *)

\* The kernel's tables: who exists has an incarnation, a stranger leads a
\* group of its own, the parent of a process lives, and whoever follows the
\* parents of the living descendants comes to the shim.
ParentLives ==
  \A p \in Pids : Exists(p) /\ os[p].parent \in Pids =>
    os[os[p].parent].life = "live" /\ Descendant(os[p].parent)

FamilyEnds == \A S \in SUBSET Living : S # {} => \E p \in S : os[p].parent \notin S

\* The root is not reaped before the run is over.
RootHeld == pc # "done" => Exists(Root) /\ os[Root].parent = Shim

\* Only the shim reaps a zombie that it has adopted.
AdoptedHeld == \A p \in Adopted : os[p].life = "zombie" /\ os[p].parent = Shim

KernelInv ==
  /\ \A p \in Pids : Exists(p) => os[p].born # 0
  /\ \A p \in Pids : Exists(p) /\ ~Descendant(p) => os[p].group = p
  /\ ParentLives /\ FamilyEnds /\ RootHeld /\ AdoptedHeld

\* An identity the tracker holds is that of a descendant, as long as nobody
\* else has the pid, and no identity is one of the future.
Known(p, n) == n # 0 => n <= os[p].born /\ (Exists(p) /\ os[p].born = n => Descendant(p))
KnownIdentity == {e \in Identity : e.born # 0 /\ Known(e.pid, e.born)}

KnownInv ==
  /\ \A p \in Pids : Known(p, processes[p].born) /\ Known(p, groups[p].born)
                     /\ Known(p, members[p].born)
  /\ scan.queue \in Seq(SUBSET KnownIdentity) /\ scan.batch \subseteq KnownIdentity

\* The phases of the run.
Scans == {"pop", "children", "recheck", "kids"}
Advances == {"groups", "members"}

FlowInv ==
  /\ pc \in {"rest", "scanned"} \cup Advances => ~final
  /\ pc \in {"finish", "last", "reap", "done"} => final
  /\ pc \in Advances => cleaning /\ live = LiveRecords /\ (force => late)
  /\ final => cleaning
  /\ ~cleaning => empties = 0
  /\ verdict = "confirmed" => final /\ outcome
  /\ pc \in {"last", "reap", "done"} /\ verdict = "confirmed" => ~uncertain
  /\ pc = "last" /\ todo # {} => uncertain

\* A scan that was not disturbed holds on to a living descendant if there is
\* one: a child of the shim that waits to be looked at, or a record.
Recorded(c) == processes[c].born = os[c].born /\ ~processes[c].exited
Awaited(c) ==
  /\ pc = "kids" /\ scan.at = ShimIdent /\ c \in scan.kids
  /\ os[c].parent = Shim /\ scan.visited[c] = 0
AtShim == pc = "children" /\ scan.at = ShimIdent

ScanInv ==
  /\ AtShim => \A p \in Pids : scan.visited[p] = 0
  /\ pc \in Scans /\ ~scan.exits /\ ~scan.incomplete /\ ~uncertain =>
       AtShim \/ Living = {} \/ \E c \in Living : Recorded(c) \/ Awaited(c)

\* While a descendant lives, each scan that found nothing had an exit: at
\* least `n` such scans lie behind.
Disturbed(n) == ~uncertain /\ Living # {} => dirty >= n
FoundNothing == misses = 0 /\ LiveRecords = {}

SlipInv ==
  /\ pc \in {"rest"} \cup Scans /\ ~final => Disturbed(empties)
  /\ pc \in {"scanned"} \cup Advances /\ cleaning /\ FoundNothing => Disturbed(empties + 1)
  /\ pc \in Scans /\ final /\ verdict = "confirmed" => Disturbed(IF late THEN 1 ELSE 2)
  /\ pc = "finish" /\ verdict = "confirmed" /\ FoundNothing =>
       Disturbed(IF late THEN 2 ELSE 3)
  /\ pc \in {"last", "reap", "done"} /\ verdict = "confirmed" =>
       Disturbed(IF late THEN 2 ELSE 3)

\* Whoever can be reached in the name of a target that was given SIGTERM is
\* warned: the members of a group, its leader wherever it went, the processes
\* recorded in it, and a single process with a stage of its own.
Late(stage) == stage \in {"term", "kill"}
Told(p) == Late(groups[p].stage) /\ groups[p].born = os[p].born
Warned(q) == os[q].life = "live" => os[q].warned

GroupsWarned ==
  \A p, q \in Pids : Told(p) =>
    /\ os[q].group = p \/ q = p => Warned(q)
    /\ StillRuns(q) /\ processes[q].group = p /\ ~processes[q].exited => Warned(q)
MembersWarned ==
  \A q \in Pids : Late(members[q].stage) /\ members[q].born = os[q].born => Warned(q)
MembersMatch ==
  pc \in {"scanned"} \cup Advances =>
    \A q \in Pids : members[q].stage # "none" => members[q].born = processes[q].born

WarnedInv ==
  /\ ~uncertain => GroupsWarned /\ MembersWarned
  /\ MembersMatch
  /\ hasty => uncertain \/ (~outcome /\ pc \in {"reap", "done"})

-----------------------------------------------------------------------------
(* Types.                                                                  *)

Group == [born : Nat, stage : Stage]
Member == [born : Nat, group : Pids, stage : Stage]

LEMMA FreeType == \A n \in Nat : Free(n) \in Process
BY PidAssumption DEF Free, Process

LEMMA NoScanType == NoScan \in ScanState
BY DEF NoScan, ScanState, ShimIdent

LEMMA OneInSeq == ASSUME NEW S, NEW x \in S PROVE <<x>> \in Seq(S) /\ <<>> \in Seq(S)
OBVIOUS

LEMMA NewScanType == ASSUME TypeOK PROVE NewScan \in ScanState
<1>1. Anchors \in SUBSET Identity
  BY DEF Anchors, Ident, Identity, TypeOK, Record
<1>2. \/ NewScan.queue = <<>> \/ NewScan.queue = <<Anchors>>
  BY DEF NewScan, NoScan
<1>3. NewScan.queue \in Seq(SUBSET Identity)
  BY <1>1, <1>2, OneInSeq
<1> QED BY <1>3, NoScanType DEF NewScan, NoScan, ScanState

\* The queue stays a sequence of batches whatever is taken from it.
LEMMA DequeueType ==
  ASSUME NEW S, scan.queue \in Seq(SUBSET S), scan.queue # <<>>, NEW e
  PROVE  Dequeue(e) \in Seq(SUBSET S) /\ Head(scan.queue) \in SUBSET S
<1> DEFINE rest == Head(scan.queue) \ {e}
<1>1. Head(scan.queue) \in SUBSET S /\ Tail(scan.queue) \in Seq(SUBSET S)
  BY HeadTailProperties
<1>2. (IF rest = {} THEN <<>> ELSE <<rest>>) \in Seq(SUBSET S)
  <2>1. rest \in SUBSET S
    BY <1>1
  <2>2. <<rest>> \in Seq(SUBSET S) /\ <<>> \in Seq(SUBSET S)
    BY <2>1, OneInSeq
  <2> QED BY <2>2
<1> QED BY <1>1, <1>2, ConcatProperties DEF Dequeue

LEMMA AppendType ==
  ASSUME NEW S, scan.queue \in Seq(SUBSET S), NEW b \in SUBSET S
  PROVE  Append(scan.queue, b) \in Seq(SUBSET S)
BY AppendProperties

LEMMA TypeInit == Init => TypeOK
<1> SUFFICES ASSUME Init PROVE TypeOK
  OBVIOUS
<1>1. run \in Run
  BY RunAssumption DEF Init
<1>2. os \in [Pids -> Process] /\ processes \in [Pids -> Record]
  BY PidAssumption, FreeType DEF Init, Free, Process, Unseen, Record
<1>3. groups \in [Pids -> Group] /\ members \in [Pids -> Member]
  BY PidAssumption DEF Init, NoGroup, NoMember, Group, Member, Stage
<1>4. Cardinality({p \in Pids : groups[p].born # 0}) <= run.groupLimit
  <2>1. {p \in Pids : groups[p].born # 0} = {Root}
    BY PidAssumption DEF Init, NoGroup
  <2>2. Cardinality({Root}) = 1
    BY FS_Singleton
  <2>3. run.groupLimit \in Nat \ {0}
    BY <1>1 DEF Run
  <2> QED BY <2>1, <2>2, <2>3
<1>5. scan \in ScanState
  BY NoScanType DEF Init
<1>6. /\ misses \in Nat /\ empties \in 0..2 /\ dirty \in 0..3 /\ pc = "rest"
      /\ verdict = "none" /\ todo = {} /\ live = {} /\ covered = {}
  BY DEF Init
<1>7. /\ cleaning \in BOOLEAN /\ late \in BOOLEAN /\ uncertain \in BOOLEAN
      /\ force \in BOOLEAN /\ final \in BOOLEAN /\ outcome \in BOOLEAN
      /\ stranger \in BOOLEAN /\ hasty \in BOOLEAN
  BY Zenon DEF Init
<1> QED BY <1>1, <1>2, <1>3, <1>4, <1>5, <1>6, <1>7 DEF TypeOK, Group, Member

\* A process of the table stays one when these of its fields change.
LEMMA Marked == \A r \in Process : [r EXCEPT !.doomed = TRUE] \in Process
BY DEF Process
LEMMA Notified == \A r \in Process : [r EXCEPT !.warned = TRUE] \in Process
BY DEF Process
LEMMA Born == \A r \in Process, n \in Nat, p \in Pids :
                [r EXCEPT !.born = n, !.parent = p] \in Process
BY DEF Process
LEMMA Moved == \A r \in Process, g \in Pids, w \in BOOLEAN :
                 [r EXCEPT !.group = g, !.warned = w] \in Process
BY DEF Process
LEMMA Arrived == \A r \in Process, g \in Pids : [r EXCEPT !.life = "live", !.group = g] \in Process
BY DEF Process
LEMMA Orphaned == \A r \in Process : [r EXCEPT !.parent = Shim] \in Process
BY PidAssumption DEF Process
LEMMA Gone == \A r \in Process :
                [r EXCEPT !.life = "zombie", !.warned = FALSE, !.doomed = FALSE] \in Process
BY DEF Process

\* What a signal does to the process table.
LEMMA DeliverType ==
  ASSUME TypeOK, NEW signal, NEW ps, NEW told, Deliver(signal, ps, told)
  PROVE  /\ os' \in [Pids -> Process] /\ stranger' \in BOOLEAN /\ hasty' \in BOOLEAN
         /\ \A q \in Pids : /\ os'[q].life = os[q].life /\ os'[q].born = os[q].born
                            /\ os'[q].group = os[q].group /\ os'[q].parent = os[q].parent
                            /\ os[q].warned => os'[q].warned
<1>1. os' \in [Pids -> Process]
  <2>1. \A q \in Pids : /\ os[q] \in Process
                        /\ [os[q] EXCEPT !.doomed = TRUE] \in Process
                        /\ [os[q] EXCEPT !.warned = TRUE] \in Process
    <3>1. \A q \in Pids : os[q] \in Process
      BY DEF TypeOK
    <3> QED BY <3>1, Marked, Notified
  <2> QED BY <2>1 DEF Deliver
<1>2. stranger' \in BOOLEAN /\ hasty' \in BOOLEAN
  BY Zenon DEF Deliver, TypeOK
<1>3. \A q \in Pids : /\ os'[q].life = os[q].life /\ os'[q].born = os[q].born
                      /\ os'[q].group = os[q].group /\ os'[q].parent = os[q].parent
                      /\ os[q].warned => os'[q].warned
  BY DEF Deliver, TypeOK, Process
<1> QED BY <1>1, <1>2, <1>3

LEMMA SpendType ==
  ASSUME TypeOK, NEW what \in {"births", "hops", "strangers", "errors", "stops"}, Spend(what)
  PROVE  run' \in Run /\ run'.groupLimit = run.groupLimit /\ run'.interrupt = run.interrupt
BY DEF TypeOK, Run, Spend

LEMMA ReadType ==
  ASSUME TypeOK, NEW p \in Pids, Exists(p)
  PROVE  Read(p) \in Record
BY DEF TypeOK, Read, Record, Process

LEMMA TypeKernel == TypeOK /\ Kernel => TypeOK'
<1> SUFFICES ASSUME TypeOK, Kernel PROVE TypeOK'
  OBVIOUS
<1> USE DEF inventory, cleanupVars, passVars, endVars, history
<1>1. ASSUME NEW p \in Pids, NEW q \in Pids, Fork(p, q) PROVE TypeOK'
  <2>1. run' \in Run /\ run'.groupLimit = run.groupLimit
    BY <1>1, SpendType DEF Fork
  <2>2. os' \in [Pids -> Process]
    <3>1. [os[p] EXCEPT !.born = os[q].born + 1, !.parent = p] \in Process
      <4>1. os[q].born + 1 \in Nat /\ os[p] \in Process
        BY DEF TypeOK, Process
      <4> QED BY <4>1, Born
    <3> QED BY <1>1, <3>1 DEF Fork, TypeOK
  <2> QED BY <1>1, <2>1, <2>2 DEF Fork, TypeOK
<1>2. ASSUME NEW p \in Pids, NEW q \in Pids, Regroup(p, q) PROVE TypeOK'
  <2>1. run' \in Run /\ run'.groupLimit = run.groupLimit
    BY <1>2, SpendType DEF Regroup
  <2>2. os' \in [Pids -> Process]
    <3> DEFINE told == \E x \in LivingDescendants : os[x].group = q /\ os[x].warned
    <3>1. (os[p].warned \/ told) \in BOOLEAN
      BY Zenon DEF TypeOK, Process
    <3>2. os' = [os EXCEPT ![p].group = q, ![p].warned = @ \/ told]
      BY <1>2 DEF Regroup
    <3> HIDE DEF told
    <3>3. [os[p] EXCEPT !.group = q, !.warned = (os[p].warned \/ told)] \in Process
      BY <3>1, Moved DEF TypeOK
    <3>4. os' = [os EXCEPT ![p] = [os[p] EXCEPT !.group = q, !.warned = (os[p].warned \/ told)]]
      BY <3>2 DEF TypeOK
    <3> QED BY <3>3, <3>4 DEF TypeOK
  <2> QED BY <1>2, <2>1, <2>2 DEF Regroup, TypeOK
<1>3. ASSUME NEW p \in Pids, Exit(p) PROVE TypeOK'
  <2>1. os' \in [Pids -> Process]
    <3>1. \A q \in Pids : /\ [os[q] EXCEPT !.parent = Shim] \in Process
                          /\ [os[q] EXCEPT !.life = "zombie", !.warned = FALSE, !.doomed = FALSE]
                               \in Process
      BY Orphaned, Gone DEF TypeOK
    <3>2. \A q \in Pids : os[q] \in Process /\ Free(os[q].born) \in Process
      BY FreeType DEF TypeOK, Process
    <3> QED BY <1>3, <3>1, <3>2 DEF Exit
  <2>2. scan' \in ScanState
    <3>1. (scan.exits \/ (Descendant(p) /\ pc \in {"pop", "children", "recheck", "kids"})) \in BOOLEAN
      BY Zenon DEF TypeOK, ScanState
    <3> QED BY <1>3, <3>1 DEF Exit, TypeOK, ScanState
  <2> QED BY <1>3, <2>1, <2>2 DEF Exit, TypeOK
<1>4. ASSUME NEW p \in Pids, ParentReaps(p) PROVE TypeOK'
  <2>1. os' \in [Pids -> Process]
    BY <1>4, FreeType DEF ParentReaps, TypeOK, Process
  <2> QED BY <1>4, <2>1 DEF ParentReaps, TypeOK
<1>5. ASSUME NEW q \in Pids, Intrude(q) PROVE TypeOK'
  <2>1. run' \in Run /\ run'.groupLimit = run.groupLimit
    BY <1>5, SpendType DEF Intrude
  <2>2. os' \in [Pids -> Process]
    <3>1. [Free(os[q].born + 1) EXCEPT !.life = "live", !.group = q] \in Process
      <4>1. os[q].born + 1 \in Nat
        BY DEF TypeOK, Process
      <4> QED BY <4>1, FreeType, Arrived
    <3> QED BY <1>5, <3>1 DEF Intrude, TypeOK
  <2> QED BY <1>5, <2>1, <2>2 DEF Intrude, TypeOK
<1> QED BY <1>1, <1>2, <1>3, <1>4, <1>5 DEF Kernel

LEMMA TypeVisit ==
  ASSUME TypeOK, scan.queue # <<>>, NEW e \in Head(scan.queue), Visit(e)
  PROVE  TypeOK' /\ e \in Identity
<1>1. /\ Dequeue(e) \in Seq(SUBSET Identity) /\ e \in Identity
  BY DequeueType DEF TypeOK, ScanState
<1>2. e.pid \in Pids /\ e.born \in Nat
  BY <1>1 DEF Identity
<1>3. scan' \in ScanState
  <2>1. CASE scan' = [scan EXCEPT !.queue = Dequeue(e)]
    BY <2>1, <1>1 DEF TypeOK, ScanState
  <2>2. CASE scan' = [scan EXCEPT !.queue = Dequeue(e), !.at = e,
                                  !.visited = [@ EXCEPT ![e.pid] = e.born]]
    <3>1. [scan.visited EXCEPT ![e.pid] = e.born] \in [Pids \cup {Shim} -> Nat]
      BY <1>2 DEF TypeOK, ScanState
    <3> QED BY <2>2, <3>1, <1>1 DEF TypeOK, ScanState
  <2> QED BY <2>1, <2>2 DEF Visit
<1>4. processes' \in [Pids -> Record]
  <2>1. Same(e) => Read(e.pid) \in Record
    BY <1>2, ReadType DEF Same
  <2>2. Unseen \in Record
    BY PidAssumption DEF Unseen, Record
  <2> QED BY <1>2, <2>1, <2>2 DEF Visit, TypeOK
<1> QED BY <1>1, <1>3, <1>4
        DEF Visit, ScanVars, kernelVars, cleanupVars, passVars, endVars, history, TypeOK

LEMMA TypeReads == TypeOK /\ (StartScan \/ Children \/ Recheck) => TypeOK'
<1> SUFFICES ASSUME TypeOK, StartScan \/ Children \/ Recheck PROVE TypeOK'
  OBVIOUS
<1>1. scan' \in ScanState
  <2>1. CASE StartScan
    BY <2>1, NewScanType DEF StartScan
  <2>2. CASE Children
    <3>1. {q \in Pids : Childhood(q)} \in SUBSET Pids
      OBVIOUS
    <3> QED BY <2>2, <3>1 DEF Children, TypeOK, ScanState
  <2>3. CASE Recheck
    BY <2>3 DEF Recheck, TypeOK, ScanState
  <2> QED BY <2>1, <2>2, <2>3
<1> USE DEF ScanVars, kernelVars, inventory, cleanupVars, passVars, endVars, history
<1>2. CASE StartScan
  BY <1>1, <1>2 DEF StartScan, TypeOK
<1>3. CASE Children
  <2>1. pc' \in {"recheck", "kids", "pop"}
    BY <1>3 DEF Children
  <2> QED BY <1>1, <1>3, <2>1 DEF Children, TypeOK
<1>4. CASE Recheck
  <2>1. pc' \in {"kids", "pop"}
    BY <1>4 DEF Recheck
  <2> QED BY <1>1, <1>4, <2>1 DEF Recheck, TypeOK
<1> QED BY <1>2, <1>3, <1>4

LEMMA TypeReadFails == TypeOK /\ ReadFails => TypeOK'
<1> SUFFICES ASSUME TypeOK, ReadFails PROVE TypeOK'
  OBVIOUS
<1>1. run' \in Run /\ run'.groupLimit = run.groupLimit
  BY SpendType DEF ReadFails
<1>2. scan' \in ScanState /\ pc' \in {pc, "pop", "kids"}
  <2>1. CASE \E e \in (IF pc = "pop" /\ scan.queue # <<>> THEN Head(scan.queue) ELSE {}) :
               /\ scan' = [scan EXCEPT !.incomplete = TRUE, !.queue = Dequeue(e)]
               /\ UNCHANGED pc
    <3>1. PICK e : /\ pc = "pop" /\ scan.queue # <<>> /\ e \in Head(scan.queue)
                   /\ scan' = [scan EXCEPT !.incomplete = TRUE, !.queue = Dequeue(e)]
                   /\ UNCHANGED pc
      BY <2>1
    <3>2. Dequeue(e) \in Seq(SUBSET Identity)
      BY <3>1, DequeueType DEF TypeOK, ScanState
    <3> QED BY <3>1, <3>2 DEF TypeOK, ScanState
  <2>2. CASE scan' = [scan EXCEPT !.incomplete = TRUE, !.kids = {}] /\ pc' = "pop"
    BY <2>2 DEF TypeOK, ScanState
  <2>3. CASE \E q \in scan.kids :
             LET left == scan.kids \ {q} IN
             /\ scan' = [scan EXCEPT !.incomplete = TRUE, !.kids = left,
                           !.batch = IF left = {} THEN {} ELSE @,
                           !.queue = IF left # {} \/ scan.batch = {} THEN @
                                     ELSE Append(@, scan.batch)]
             /\ pc' = IF left = {} THEN "pop" ELSE "kids"
    <3>1. Append(scan.queue, scan.batch) \in Seq(SUBSET Identity)
      BY AppendType DEF TypeOK, ScanState
    <3>2. PICK q \in scan.kids :
             /\ scan' = [scan EXCEPT !.incomplete = TRUE, !.kids = scan.kids \ {q},
                           !.batch = IF scan.kids \ {q} = {} THEN {} ELSE @,
                           !.queue = IF scan.kids \ {q} # {} \/ scan.batch = {} THEN @
                                     ELSE Append(@, scan.batch)]
             /\ pc' = IF scan.kids \ {q} = {} THEN "pop" ELSE "kids"
      BY <2>3
    <3>3. CASE scan.kids \ {q} # {}
      BY <3>2, <3>3 DEF TypeOK, ScanState
    <3>4. CASE scan.kids \ {q} = {} /\ scan.batch = {}
      BY <3>2, <3>4 DEF TypeOK, ScanState
    <3>5. CASE scan.kids \ {q} = {} /\ scan.batch # {}
      BY <3>1, <3>2, <3>5 DEF TypeOK, ScanState
    <3> QED BY <3>3, <3>4, <3>5
  <2> QED BY <2>1, <2>2, <2>3 DEF ReadFails
<1>3. UNCHANGED <<os, inventory, cleanupVars, passVars, endVars, history>>
  BY Zenon DEF ReadFails
<1> QED BY <1>1, <1>2, <1>3 DEF inventory, cleanupVars, passVars, endVars, history, TypeOK

LEMMA NextKidType ==
  ASSUME TypeOK, NEW left \in SUBSET Pids, NEW found \in SUBSET Identity, NextKid(left, found)
  PROVE  scan' \in ScanState /\ pc' \in {pc, "pop"}
<1>1. Append(scan.queue, found) \in Seq(SUBSET Identity)
  BY AppendType DEF TypeOK, ScanState
<1> QED BY <1>1 DEF NextKid, TypeOK, ScanState

LEMMA TypeKid == ASSUME TypeOK, NEW q \in Pids, Kid(q) PROVE TypeOK'
<1>1. scan.kids \ {q} \in SUBSET Pids /\ scan.batch \in SUBSET Identity
  BY DEF TypeOK, ScanState
<1>2. [pid |-> q, born |-> os[q].born] \in Identity
  BY DEF TypeOK, Process, Identity
<1>3. /\ scan' \in ScanState /\ pc' \in {pc, "pop"} /\ processes' \in [Pids -> Record]
      /\ uncertain' = uncertain \/ uncertain' = TRUE
  <2>1. CASE /\ NextKid(scan.kids \ {q}, scan.batch) /\ UNCHANGED <<processes, uncertain>>
    BY <2>1, <1>1, NextKidType DEF TypeOK
  <2>2. CASE /\ NextKid({}, scan.batch) /\ uncertain' = TRUE /\ UNCHANGED processes
    BY <2>2, <1>1, NextKidType DEF TypeOK
  <2>3. CASE /\ Childhood(q)
             /\ NextKid(scan.kids \ {q}, scan.batch \cup {[pid |-> q, born |-> os[q].born]})
             /\ processes' = [processes EXCEPT ![q] = Read(q)]
             /\ UNCHANGED uncertain
    <3>1. Read(q) \in Record
      BY <2>3, ReadType DEF Childhood
    <3>2. processes' \in [Pids -> Record]
      BY <2>3, <3>1 DEF TypeOK
    <3>3. scan' \in ScanState /\ pc' \in {pc, "pop"}
      BY <2>3, <1>1, <1>2, NextKidType
    <3> QED BY <2>3, <3>2, <3>3
  <2> QED BY <2>1, <2>2, <2>3 DEF Kid
<1>4. UNCHANGED <<kernelVars, groups, members, cleaning, late, misses, empties,
                  passVars, endVars, history>>
  BY Zenon DEF Kid
<1>5. UNCHANGED <<os, run, groups, members, cleaning, late, misses, empties, todo, live,
                  covered, force, final, outcome, verdict, stranger, hasty, dirty>>
  BY <1>4 DEF kernelVars, passVars, endVars, history
<1>6. uncertain' \in BOOLEAN
  BY <1>3, Zenon DEF TypeOK
<1> QED BY <1>3, <1>5, <1>6 DEF TypeOK

\* What Settle makes of the groups: as many as there were, or as many as fit.
LEMMA TypeSettle == TypeOK /\ Settle => TypeOK'
<1> SUFFICES ASSUME TypeOK, Settle PROVE TypeOK'
  OBVIOUS
<1> DEFINE kept == [p \in Pids |-> IF p \in Adopted THEN Unseen ELSE processes[p]]
           old == {p \in Pids : Retained(p, kept)}
           new == {p \in Pids : kept[p].born # 0 /\ kept[p].group = p} \ old
           room == Room(Cardinality(old))
<1>1. kept \in [Pids -> Record]
  BY PidAssumption DEF Unseen, Record, TypeOK
<1>2. PICK noted \in SUBSET new :
        /\ Cardinality(noted) = IF Cardinality(new) < room THEN Cardinality(new) ELSE room
        /\ groups' = [p \in Pids |->
                        CASE p \in old -> groups[p]
                          [] p \in noted -> [born |-> kept[p].born, stage |-> "none"]
                          [] OTHER -> NoGroup]
  BY DEF Settle
<1>3. groups' \in [Pids -> Group]
  <2>1. NoGroup \in Group
    BY DEF NoGroup, Group, Stage
  <2>2. \A p \in Pids : groups[p] \in Group /\ [born |-> kept[p].born, stage |-> "none"] \in Group
    BY <1>1 DEF TypeOK, Group, Record, Stage
  <2> HIDE DEF kept, old, new
  <2> QED BY <1>2, <2>1, <2>2
<1>4. Cardinality({p \in Pids : groups'[p].born # 0}) <= run.groupLimit
  <2>1. old \subseteq {p \in Pids : groups[p].born # 0}
    BY DEF Retained
  <2>2. {p \in Pids : groups'[p].born # 0} \subseteq old \cup noted
    <3> HIDE DEF kept, old, new
    <3> QED BY <1>2 DEF NoGroup
  <2>3. IsFiniteSet(old) /\ IsFiniteSet(noted) /\ IsFiniteSet({p \in Pids : groups[p].born # 0})
    BY FiniteAssumption, FS_Subset
  <2>4. Cardinality(old) \in Nat /\ Cardinality(old) <= run.groupLimit
    <3> DEFINE used == {p \in Pids : groups[p].born # 0}
    <3>1. Cardinality(used) <= run.groupLimit /\ run.groupLimit \in Nat
      BY DEF TypeOK, Run
    <3> HIDE DEF old, used
    <3>2. Cardinality(old) \in Nat /\ Cardinality(used) \in Nat
          /\ Cardinality(old) <= Cardinality(used)
      BY <2>1, <2>3, FS_Subset, FS_CardinalityType DEF used
    <3> QED BY <3>1, <3>2
  <2>5. Cardinality(noted) \in Nat /\ Cardinality(noted) <= room
    <3>1. IsFiniteSet(new)
      BY FiniteAssumption, FS_Subset
    <3>2. Cardinality(noted) \in Nat /\ Cardinality(new) \in Nat
      BY <2>3, <3>1, FS_CardinalityType
    <3>3. room \in Nat
      BY <2>4 DEF Room, TypeOK, Run
    <3> HIDE DEF new, room
    <3> QED BY <1>2, <3>2, <3>3
  <2>6. Cardinality(old) + room <= run.groupLimit \/ room = 0
    BY <2>4 DEF Room, TypeOK, Run
  <2>7. old \cap noted = {}
    OBVIOUS
  <2> HIDE DEF kept, old, new, room
  <2>8. IsFiniteSet(old \cup noted) /\ Cardinality(old \cup noted) = Cardinality(old) + Cardinality(noted)
    <3>1. Cardinality({}) = 0
      BY FS_EmptySet
    <3>2. /\ IsFiniteSet(old \cup noted)
          /\ Cardinality(old \cup noted)
               = Cardinality(old) + Cardinality(noted) - Cardinality(old \cap noted)
      BY <2>3, FS_Union
    <3>3. Cardinality(old \cap noted) = 0
      BY Zenon, <2>7, <3>1
    <3> QED BY <2>4, <2>5, <3>2, <3>3
  <2>9. Cardinality({p \in Pids : groups'[p].born # 0}) <= Cardinality(old \cup noted)
        /\ Cardinality({p \in Pids : groups'[p].born # 0}) \in Nat
    BY <2>2, <2>8, FS_Subset, FS_CardinalityType
  <2>10. room \in Nat /\ run.groupLimit \in Nat
    BY <2>4 DEF room, Room, TypeOK, Run
  <2> QED BY <2>4, <2>5, <2>6, <2>8, <2>9, <2>10
<1>5. os' \in [Pids -> Process]
  <2>1. \A p \in Pids : Free(os[p].born) \in Process
    BY FreeType DEF TypeOK, Process
  <2> QED BY <2>1 DEF Settle, TypeOK
<1>6. members' \in [Pids -> Member]
  <2>1. NoMember \in Member
    BY PidAssumption DEF NoMember, Member, Stage
  <2> QED BY <2>1 DEF Settle, TypeOK, Member
<1>7. scan' \in ScanState
  BY NoScanType DEF Settle, TypeOK, ScanState
<1>8. misses' \in Nat /\ dirty' \in 0..3 /\ pc' \in {"finish", "scanned"}
  BY DEF Settle, Missed, TypeOK
<1>9. uncertain' \in BOOLEAN
  <2>1. uncertain' = (uncertain \/ Missed >= 3 \/ Cardinality(new) > room)
    BY DEF Settle
  <2> QED BY Zenon, <2>1
<1>10. processes' \in [Pids -> Record]
  BY <1>1 DEF Settle
<1> HIDE DEF kept, old, new, room
<1>11. UNCHANGED <<run, cleaning, late, empties, passVars, endVars, stranger, hasty>>
  BY DEF Settle
<1> QED BY <1>3, <1>4, <1>5, <1>6, <1>7, <1>8, <1>9, <1>10, <1>11
        DEF passVars, endVars, TypeOK, Group, Member

LEMMA DueType ==
  ASSUME TypeOK, NEW stage \in Stage, NEW next \in Due(stage)
  PROVE  next.stage \in {"int", "term", "kill"} /\ next.signal \in Stage
BY DEF Due, Following, Stage

LEMMA TypeGroupStep == ASSUME TypeOK, NEW p \in Pids, GroupStep(p) PROVE TypeOK'
<1> DEFINE mates == {q \in live : processes[q].group = p}
<1>1. todo' \in SUBSET Pids
  BY DEF GroupStep, TypeOK
<1>2. UNCHANGED <<run, processes, cleaning, late, misses, empties, pc, scan, live, force,
                  endVars, dirty>>
  BY DEF GroupStep
<1>3. CASE UNCHANGED <<os, groups, members, covered, uncertain, stranger, hasty>>
  BY <1>1, <1>2, <1>3 DEF endVars, TypeOK
<1>4. CASE LeaderStands(p) /\ \E next \in Due(groups[p].stage) :
         /\ Deliver(next.signal, {q \in Pids : os[q].group = p}, {q \in mates : StillRuns(q)})
         /\ groups' = [groups EXCEPT ![p].stage = next.stage]
         /\ members' = [q \in Pids |-> IF q \in mates
                          THEN [born |-> processes[q].born, group |-> p, stage |-> next.stage]
                          ELSE members[q]]
         /\ covered' = covered \cup mates
         /\ uncertain' = (uncertain \/ Shortened(groups[p].stage))
  <2>1. PICK next \in Due(groups[p].stage) :
         /\ Deliver(next.signal, {q \in Pids : os[q].group = p}, {q \in mates : StillRuns(q)})
         /\ groups' = [groups EXCEPT ![p].stage = next.stage]
         /\ members' = [q \in Pids |-> IF q \in mates
                          THEN [born |-> processes[q].born, group |-> p, stage |-> next.stage]
                          ELSE members[q]]
         /\ covered' = covered \cup mates
         /\ uncertain' = (uncertain \/ Shortened(groups[p].stage))
    BY <1>4
  <2>2. next.stage \in Stage
    BY <2>1, DueType DEF TypeOK, Stage
  <2>3. os' \in [Pids -> Process] /\ stranger' \in BOOLEAN /\ hasty' \in BOOLEAN
    BY <2>1, DeliverType
  <2>4. groups' \in [Pids -> Group] /\ \A q \in Pids : groups'[q].born = groups[q].born
    BY <2>1, <2>2 DEF TypeOK, Group
  <2>5. members' \in [Pids -> Member]
    BY <2>1, <2>2 DEF TypeOK, Member, Record
  <2>6. covered' \in SUBSET Pids
    BY <2>1 DEF TypeOK
  <2>7. uncertain' \in BOOLEAN
    BY Zenon, <2>1
  <2>8. {q \in Pids : groups'[q].born # 0} = {q \in Pids : groups[q].born # 0}
    BY <2>4
  <2> QED BY <1>1, <1>2, <2>3, <2>4, <2>5, <2>6, <2>7, <2>8 DEF endVars, TypeOK, Group, Member
<1> QED BY <1>3, <1>4 DEF GroupStep

LEMMA TypeMemberStep == ASSUME TypeOK, NEW p \in Pids, MemberStep(p) PROVE TypeOK'
<1>1. todo' \in SUBSET Pids
  BY DEF MemberStep, TypeOK
<1>2. UNCHANGED <<run, processes, groups, cleaning, late, misses, empties, pc, scan, live,
                  covered, force, endVars, dirty>>
  BY DEF MemberStep
<1>3. CASE UNCHANGED <<os, members, uncertain, stranger, hasty>>
  BY <1>1, <1>2, <1>3 DEF endVars, TypeOK
<1>4. CASE \E next \in Due(members[p].stage) :
         /\ Deliver(next.signal, {p}, {})
         /\ members' = [members EXCEPT ![p] = [born |-> processes[p].born,
                           group |-> processes[p].group, stage |-> next.stage]]
         /\ uncertain' = (uncertain \/ Shortened(members[p].stage))
  <2>1. PICK next \in Due(members[p].stage) :
         /\ Deliver(next.signal, {p}, {})
         /\ members' = [members EXCEPT ![p] = [born |-> processes[p].born,
                           group |-> processes[p].group, stage |-> next.stage]]
         /\ uncertain' = (uncertain \/ Shortened(members[p].stage))
    BY <1>4
  <2>2. next.stage \in Stage
    BY <2>1, DueType DEF TypeOK, Stage
  <2>3. os' \in [Pids -> Process] /\ stranger' \in BOOLEAN /\ hasty' \in BOOLEAN
    BY <2>1, DeliverType
  <2>4. members' \in [Pids -> Member]
    BY <2>1, <2>2 DEF TypeOK, Member, Record
  <2>5. uncertain' \in BOOLEAN
    BY Zenon, <2>1
  <2> QED BY <1>1, <1>2, <2>3, <2>4, <2>5 DEF endVars, TypeOK, Member
<1> QED BY <1>3, <1>4 DEF MemberStep

LEMMA TypeLoop ==
  TypeOK /\ (Scanned \/ GroupsDone \/ Judge \/ ChildExited \/ Stop \/ Deadline) => TypeOK'
<1> SUFFICES ASSUME TypeOK, Scanned \/ GroupsDone \/ Judge \/ ChildExited \/ Stop \/ Deadline
             PROVE TypeOK'
  OBVIOUS
<1> USE DEF kernelVars, inventory, cleanupVars, passVars, endVars, history, LoopVars
<1>1. CASE Scanned
  <2>1. cleaning' \in BOOLEAN
    BY Zenon, <1>1 DEF Scanned
  <2>2. scan' \in ScanState
    BY <1>1, NoScanType DEF Scanned
  <2>3. CASE cleaning'
    BY <1>1, <2>1, <2>2, <2>3 DEF Scanned, TypeOK, LiveRecords
  <2>4. CASE ~cleaning'
    BY <1>1, <2>1, <2>2, <2>4 DEF Scanned, TypeOK
  <2> QED BY <2>3, <2>4
<1>2. CASE GroupsDone
  BY <1>2 DEF GroupsDone, TypeOK
<1>3. CASE Judge
  <2>1. uncertain' \in BOOLEAN
    BY Zenon, <1>3 DEF Judge
  <2>2. empties' \in 0..2 /\ live' = {} /\ covered' = {} /\ force' = FALSE
    BY <1>3 DEF Judge, TypeOK
  <2>3. CASE pc' = "rest" /\ UNCHANGED <<verdict, final, scan>>
    BY <1>3, <2>1, <2>2, <2>3 DEF Judge, TypeOK
  <2>4. CASE /\ verdict' = IF live = {} /\ ~uncertain' /\ outcome THEN "confirmed" ELSE "unconfirmed"
             /\ final' = TRUE /\ scan' = NewScan /\ pc' = "children"
    <3>1. verdict' \in {"confirmed", "unconfirmed"}
      BY <2>4
    <3> QED BY <1>3, <2>1, <2>2, <2>4, <3>1, NewScanType DEF Judge, TypeOK
  <2> QED BY <1>3, <2>3, <2>4 DEF Judge
<1>4. CASE ChildExited
  BY <1>4 DEF ChildExited, TypeOK
<1>5. CASE Stop
  <2>1. run' \in Run /\ run'.groupLimit = run.groupLimit
    BY <1>5, SpendType DEF Stop
  <2> QED BY <1>5, <2>1 DEF Stop, TypeOK
<1>6. CASE Deadline
  BY <1>6 DEF Deadline, TypeOK
<1> QED BY <1>1, <1>2, <1>3, <1>4, <1>5, <1>6

LEMMA TypeEnding == TypeOK /\ Ending => TypeOK'
<1> SUFFICES ASSUME TypeOK, Ending PROVE TypeOK'
  OBVIOUS
<1> USE DEF kernelVars, inventory, cleanupVars, passVars, endVars, history
<1>1. CASE Finish
  <2>1. uncertain' \in BOOLEAN
    BY Zenon, <1>1 DEF Finish
  <2>2. verdict' \in {"none", "confirmed", "unconfirmed"} /\ todo' \in SUBSET Pids
    BY <1>1 DEF Finish, TypeOK, LiveRecords
  <2> QED BY <1>1, <2>1, <2>2 DEF Finish, TypeOK
<1>2. CASE KillRoot
  <2>1. os' \in [Pids -> Process] /\ stranger' \in BOOLEAN /\ hasty' \in BOOLEAN
    <3>1. CASE UNCHANGED <<os, stranger, hasty>>
      BY <3>1 DEF TypeOK
    <3>2. CASE Deliver("kill", {Root}, {})
      BY <3>2, DeliverType
    <3> QED BY <1>2, <3>1, <3>2 DEF KillRoot
  <2> QED BY <1>2, <2>1 DEF KillRoot, TypeOK
<1>3. CASE ReapRoot
  <2>1. os' \in [Pids -> Process]
    BY <1>3, FreeType, PidAssumption DEF ReapRoot, TypeOK, Process
  <2> QED BY <1>3, <2>1 DEF ReapRoot, TypeOK
<1>4. CASE ReapExpired
  BY <1>4 DEF ReapExpired, TypeOK
<1>5. ASSUME NEW p \in Pids, LastKill(p) PROVE TypeOK'
  <2>1. os' \in [Pids -> Process] /\ stranger' \in BOOLEAN /\ hasty' \in BOOLEAN
    <3>1. CASE UNCHANGED <<os, stranger, hasty>>
      BY <3>1 DEF TypeOK
    <3>2. CASE Deliver("kill", {p}, {})
      BY <3>2, DeliverType
    <3> QED BY <1>5, <3>1, <3>2 DEF LastKill
  <2> QED BY <1>5, <2>1 DEF LastKill, TypeOK
<1> QED BY <1>1, <1>2, <1>3, <1>4, <1>5 DEF Ending

LEMMA TypeCheckFails == ASSUME TypeOK, NEW p \in Pids, CheckFails(p) PROVE TypeOK'
<1>1. run' \in Run /\ run'.groupLimit = run.groupLimit
  BY SpendType DEF CheckFails
<1> QED BY <1>1 DEF CheckFails, inventory, endVars, history, TypeOK

LEMMA TypeNext == TypeOK /\ [Next]_vars => TypeOK'
<1> SUFFICES ASSUME TypeOK, [Next]_vars PROVE TypeOK'
  OBVIOUS
<1>1. CASE Scanning
  <2>1. CASE \E e \in (IF scan.queue = <<>> THEN {} ELSE Head(scan.queue)) : Visit(e)
    BY <2>1, TypeVisit
  <2> QED BY <1>1, <2>1, TypeReads, TypeReadFails, TypeSettle, TypeKid DEF Scanning
<1>2. CASE Advancing
  BY <1>2, TypeLoop, TypeGroupStep, TypeMemberStep, TypeCheckFails DEF Advancing
<1>3. CASE UNCHANGED vars
  BY <1>3 DEF vars, kernelVars, inventory, cleanupVars, passVars, endVars, history, TypeOK
<1>4. CASE Ended
  BY <1>4, <1>3 DEF Ended
<1> QED BY <1>1, <1>2, <1>3, <1>4, TypeKernel, TypeReads, TypeEnding, TypeLoop DEF Next

-----------------------------------------------------------------------------
(* The kernel's tables.                                                    *)

\* The part that the process table alone decides.
TablesInv ==
  /\ \A p \in Pids : Exists(p) => os[p].born # 0
  /\ \A p \in Pids : Exists(p) /\ ~Descendant(p) => os[p].group = p
  /\ ParentLives /\ FamilyEnds

\* What a step does to the table: a signal leaves its shape, a wait frees
\* zombies.
SameShape ==
  \A q \in Pids : /\ os'[q].life = os[q].life /\ os'[q].born = os[q].born
                  /\ os'[q].group = os[q].group /\ os'[q].parent = os[q].parent
Reaped(F) ==
  /\ F \subseteq Pids /\ \A p \in F : os[p].life = "zombie"
  /\ os' = [p \in Pids |-> IF p \in F THEN Free(os[p].born) ELSE os[p]]

LEMMA Signals ==
  ASSUME TypeOK, (\E p \in Pids : GroupStep(p) \/ MemberStep(p) \/ LastKill(p)) \/ KillRoot
  PROVE  SameShape /\ \A q \in Pids : os[q].warned => os'[q].warned
<1>1. CASE UNCHANGED os
  BY <1>1 DEF SameShape
<1>2. ASSUME NEW signal, NEW ps, NEW told, Deliver(signal, ps, told)
      PROVE  SameShape /\ \A q \in Pids : os[q].warned => os'[q].warned
  BY <1>2, DeliverType DEF SameShape
<1> QED BY <1>1, <1>2 DEF GroupStep, MemberStep, LastKill, KillRoot

LEMMA OsSteps ==
  ASSUME TypeOK, [Next]_vars
  PROVE  Kernel \/ Settle \/ ReapRoot \/ SameShape
<1>1. CASE UNCHANGED os
  BY <1>1 DEF SameShape
<1> USE DEF kernelVars
<1>2. CASE Scanning
  BY <1>1, <1>2 DEF Scanning, Visit, Children, Recheck, ReadFails, Kid, ScanVars
<1>3. CASE Advancing
  BY <1>1, <1>3, Signals DEF Advancing, Scanned, GroupsDone, Judge, CheckFails, LoopVars
<1>4. CASE Ending
  BY <1>1, <1>4, Signals DEF Ending, Finish, ReapExpired
<1> QED BY <1>1, <1>2, <1>3, <1>4
        DEF Next, StartScan, ChildExited, Stop, Deadline, Ended, vars

LEMMA InitTables == Init => TablesInv /\ RootHeld /\ AdoptedHeld
<1> SUFFICES ASSUME Init PROVE TablesInv /\ RootHeld /\ AdoptedHeld
  OBVIOUS
<1>1. \A p \in Pids : p # Root => ~Exists(p)
  BY DEF Init, Free, Exists
<1>2. os[Root].life = "live" /\ os[Root].parent = Shim /\ os[Root].born = 1
  BY PidAssumption DEF Init, Free
<1>3. Adopted = {}
  BY DEF Adopted, Init, Tracked, Unseen
<1>4. FamilyEnds
  BY <1>1, <1>2, PidAssumption DEF FamilyEnds, Living, LivingDescendants, Exists
<1> QED BY <1>1, <1>2, <1>3, <1>4, PidAssumption
        DEF TablesInv, ParentLives, RootHeld, AdoptedHeld, Exists, Descendant

\* Families end as long as nobody gets a parent other than the shim.
LEMMA FamiliesShrink ==
  ASSUME FamilyEnds, Living' \subseteq Living,
         \A x \in Living' : os'[x].parent \in {os[x].parent, Shim}
  PROVE  FamilyEnds'
<1> SUFFICES ASSUME NEW S \in SUBSET Living', S # {} PROVE \E x \in S : os'[x].parent \notin S
  BY DEF FamilyEnds
<1>1. PICK x \in S : os[x].parent \notin S
  BY DEF FamilyEnds
<1>2. Shim \notin S
  BY PidAssumption DEF Living, LivingDescendants
<1> QED BY <1>1, <1>2

LEMMA ShapeTables == TypeOK /\ TypeOK' /\ TablesInv /\ SameShape => TablesInv'
<1> SUFFICES ASSUME TypeOK, TypeOK', TablesInv, SameShape PROVE TablesInv'
  OBVIOUS
<1>1. FamilyEnds'
  BY FamiliesShrink DEF TablesInv, SameShape, Living, LivingDescendants, Descendant
<1>2. ParentLives'
  BY DEF TablesInv, ParentLives, SameShape, Exists, Descendant
<1> QED BY <1>1, <1>2 DEF TablesInv, SameShape, Exists, Descendant

LEMMA ReapTables == ASSUME TypeOK, TablesInv, NEW F, Reaped(F) PROVE TablesInv'
<1>1. \A p \in F : os'[p].life = "free" /\ os'[p].parent = Outside
  BY DEF Reaped, Free
<1>2. \A p \in Pids \ F : os'[p] = os[p]
  BY DEF Reaped
<1>3. FamilyEnds'
  BY <1>1, <1>2, FamiliesShrink DEF TablesInv, Living, LivingDescendants, Descendant
<1>4. ParentLives'
  BY <1>1, <1>2 DEF Reaped, TablesInv, ParentLives, Exists, Descendant
<1> QED BY <1>1, <1>2, <1>3, <1>4 DEF TablesInv, Exists, Descendant

\* The only new living descendant is the child of a fork.
LEMMA ForkTables ==
  ASSUME TypeOK, TablesInv, NEW p \in Pids, NEW q \in Pids, Fork(p, q)
  PROVE  TablesInv' /\ Living' = Living \cup {q} /\ p \in Living /\ q \notin Living
<1>1. /\ \A x \in Pids \ {q} : os'[x] = os[x]
      /\ os'[q].parent = p /\ os'[q].life = "live" /\ os'[q].born = os[q].born + 1
  BY DEF Fork, TypeOK, Process, Running, LivingDescendants
<1>2. p # q /\ p \in Living /\ p # Outside /\ q \notin Living
  BY PidAssumption DEF Fork, Running, Available, Exists, Living, LivingDescendants
<1>3. \A x \in Pids : Exists(x) => os[x].parent # q
  BY DEF Fork, Available, TablesInv, ParentLives, Exists
<1>4. Living' = Living \cup {q}
  BY <1>1, <1>2 DEF Living, LivingDescendants, Descendant
<1>5. FamilyEnds'
  <2> SUFFICES ASSUME NEW S \in SUBSET Living', S # {} PROVE \E x \in S : os'[x].parent \notin S
    BY DEF FamilyEnds
  <2>1. S \ {q} \in SUBSET Living
    BY <1>4
  <2>2. CASE S \ {q} = {}
    BY <1>1, <1>2, <2>2
  <2>3. CASE S \ {q} # {}
    <3>1. PICK x \in S \ {q} : os[x].parent \notin S \ {q}
      BY <2>1, <2>3 DEF TablesInv, FamilyEnds
    <3>2. x \in Pids /\ Exists(x)
      BY <2>1 DEF Living, LivingDescendants, Exists
    <3> QED BY <1>1, <1>3, <3>1, <3>2
  <2> QED BY <2>2, <2>3
<1>6. ParentLives'
  BY <1>1, <1>2, <1>3 DEF TablesInv, ParentLives, Exists, Descendant, Living, LivingDescendants
<1>7. os[q].born + 1 # 0
  BY DEF TypeOK, Process
<1> QED BY <1>1, <1>2, <1>4, <1>5, <1>6, <1>7 DEF TablesInv, Exists, Descendant

\* An exit hands the children to the shim and leaves a descendant a zombie.
LEMMA ExitTables ==
  ASSUME TypeOK, TablesInv, NEW p \in Pids, Exit(p)
  PROVE  /\ TablesInv' /\ Living' = Living \ {p}
         /\ \A x \in Pids \ {p} : /\ os'[x].life = os[x].life /\ os'[x].born = os[x].born
                                  /\ os'[x].group = os[x].group /\ os'[x].warned = os[x].warned
                                  /\ os'[x].parent = IF os[x].parent = p THEN Shim ELSE os[x].parent
         /\ os'[p].born = os[p].born /\ os'[p].life \in {"zombie", "free"}
         /\ os'[p].life = "zombie" <=> Descendant(p)
         /\ os'[p].life = "zombie" => os'[p].parent = os[p].parent
<1>1. \A x \in Pids \ {p} : /\ os'[x].life = os[x].life /\ os'[x].born = os[x].born
                            /\ os'[x].group = os[x].group /\ os'[x].warned = os[x].warned
                            /\ os'[x].parent = IF os[x].parent = p THEN Shim ELSE os[x].parent
  BY DEF Exit, TypeOK, Process
<1>2. /\ os'[p].born = os[p].born /\ os'[p].life \in {"zombie", "free"}
      /\ os'[p].life = "zombie" <=> Descendant(p)
      /\ os'[p].life = "zombie" => os'[p].parent = os[p].parent
      /\ os'[p].life = "free" => os'[p].parent = Outside
  <2>1. CASE Descendant(p)
    <3>1. os'[p] = [os[p] EXCEPT !.life = "zombie", !.warned = FALSE, !.doomed = FALSE]
      BY <2>1 DEF Exit
    <3> QED BY <2>1, <3>1 DEF TypeOK, Process
  <2>2. CASE ~Descendant(p)
    <3>1. os'[p] = Free(os[p].born)
      BY <2>2 DEF Exit
    <3> QED BY <2>2, <3>1 DEF Free
  <2> QED BY <2>1, <2>2
<1>3. Living' = Living \ {p}
  BY <1>1, <1>2, PidAssumption DEF Living, LivingDescendants, Descendant
<1>4. FamilyEnds'
  BY <1>1, <1>3, FamiliesShrink DEF TablesInv, Living, LivingDescendants
<1>5. Descendant(p) => os[p].parent # p
  <2>1. Descendant(p) => {p} \in SUBSET Living
    BY DEF Exit, Living, LivingDescendants
  <2> QED BY <2>1 DEF TablesInv, FamilyEnds
<1>6. ParentLives'
  <2> SUFFICES ASSUME NEW x \in Pids, Exists(x)', os'[x].parent \in Pids
               PROVE  /\ os'[os'[x].parent].life = "live"
                      /\ os'[os'[x].parent].parent # Outside
    BY DEF ParentLives, Descendant
  <2>1. CASE x = p
    <3>1. Descendant(p) /\ os'[x].parent = os[p].parent /\ Exists(p)
      BY <1>2, <2>1 DEF Exists, Exit
    <3> QED BY <1>1, <1>5, <2>1, <3>1, PidAssumption DEF TablesInv, ParentLives, Descendant
  <2>2. CASE x # p
    <3>1. os[x].parent # p /\ os'[x].parent = os[x].parent /\ Exists(x)
      BY <1>1, <2>2, PidAssumption DEF Exists
    <3> QED BY <1>1, <3>1, PidAssumption DEF TablesInv, ParentLives, Descendant
  <2> QED BY <2>1, <2>2
<1>7. (\A x \in Pids : Exists(x) => os[x].born # 0)'
  BY <1>1, <1>2 DEF TablesInv, Exists, Exit
<1>8. (\A x \in Pids : Exists(x) /\ ~Descendant(x) => os[x].group = x)'
  BY <1>1, <1>2, PidAssumption DEF TablesInv, Exists, Descendant
<1> QED BY <1>1, <1>2, <1>3, <1>4, <1>6, <1>7, <1>8 DEF TablesInv

LEMMA RegroupTables ==
  ASSUME TypeOK, TablesInv, NEW p \in Pids, NEW g \in Pids, Regroup(p, g)
  PROVE  /\ TablesInv' /\ Living' = Living /\ p \in Living
         /\ \A x \in Pids : /\ os'[x].life = os[x].life /\ os'[x].born = os[x].born
                            /\ os'[x].parent = os[x].parent
                            /\ os[x].warned => os'[x].warned
         /\ \A x \in Pids \ {p} : os'[x] = os[x]
         /\ os'[p].group = g
         /\ os'[p].warned <=> os[p].warned \/ \E q \in Living : os[q].group = g /\ os[q].warned
<1>1. /\ \A x \in Pids \ {p} : os'[x] = os[x]
      /\ os'[p].life = os[p].life /\ os'[p].born = os[p].born /\ os'[p].parent = os[p].parent
      /\ os'[p].group = g
      /\ os'[p].warned = (os[p].warned \/ \E q \in Living : os[q].group = g /\ os[q].warned)
  BY DEF Regroup, TypeOK, Process, Living
<1>2. Living' = Living
  BY <1>1 DEF Living, LivingDescendants, Descendant
<1>3. FamilyEnds'
  BY <1>1, <1>2, FamiliesShrink DEF TablesInv, Living, LivingDescendants
<1>4. ParentLives'
  BY <1>1 DEF TablesInv, ParentLives, Exists, Descendant
<1>5. p \in Living
  BY DEF Regroup, Running, Living
<1>6. (\A x \in Pids : Exists(x) /\ ~Descendant(x) => os[x].group = x)'
  BY <1>1, <1>5 DEF TablesInv, Exists, Descendant, Living, LivingDescendants
<1>7. (\A x \in Pids : Exists(x) => os[x].born # 0)'
  BY <1>1 DEF TablesInv, Exists
<1> QED BY <1>1, <1>2, <1>3, <1>4, <1>5, <1>6, <1>7 DEF TablesInv

LEMMA IntrudeTables ==
  ASSUME TypeOK, TablesInv, NEW q \in Pids, Intrude(q)
  PROVE  /\ TablesInv' /\ Living' = Living /\ q \notin Living
         /\ \A x \in Pids \ {q} : os'[x] = os[x]
         /\ os'[q].life = "live" /\ os'[q].parent = Outside /\ os'[q].group = q
         /\ os'[q].born = os[q].born + 1
<1>1. /\ \A x \in Pids \ {q} : os'[x] = os[x]
      /\ os'[q].life = "live" /\ os'[q].parent = Outside /\ os'[q].group = q
      /\ os'[q].born = os[q].born + 1
  BY DEF Intrude, TypeOK, Process, Free
<1>2. \A x \in Pids : Exists(x) => os[x].parent # q
  BY DEF Intrude, Available, TablesInv, ParentLives, Exists
<1>3. Living' = Living /\ q \notin Living
  BY <1>1 DEF Living, LivingDescendants, Descendant, Intrude, Available, Exists
<1>4. FamilyEnds'
  BY <1>1, <1>3, FamiliesShrink DEF TablesInv, Living, LivingDescendants
<1>5. ParentLives'
  BY <1>1, <1>2, PidAssumption DEF TablesInv, ParentLives, Exists, Descendant
<1>6. os[q].born + 1 # 0
  BY DEF TypeOK, Process
<1> QED BY <1>1, <1>3, <1>4, <1>5, <1>6 DEF TablesInv, Exists, Descendant

\* Who reaps: the parent, the shim after a scan, the shim at the end.
LEMMA Reapers ==
  ASSUME TypeOK, KernelInv
  PROVE  /\ \A p \in Pids : ParentReaps(p) => Reaped({p})
         /\ Settle => Reaped(Adopted) /\ Root \notin Adopted
         /\ ReapRoot => Reaped({Root})
<1>1. ASSUME NEW p \in Pids, ParentReaps(p) PROVE Reaped({p})
  BY <1>1 DEF ParentReaps, Reaped, TypeOK
<1>2. ASSUME Settle PROVE Reaped(Adopted) /\ Root \notin Adopted
  BY <1>2 DEF Settle, Reaped, Adopted, KernelInv, AdoptedHeld
<1>3. ASSUME ReapRoot PROVE Reaped({Root})
  BY <1>3, PidAssumption DEF ReapRoot, Reaped, TypeOK
<1> QED BY <1>1, <1>2, <1>3

\* Who writes the inventory's records.
Visits == \E e \in (IF scan.queue = <<>> THEN {} ELSE Head(scan.queue)) : Visit(e)
LEMMA RecordSteps ==
  ASSUME [Next]_vars
  PROVE  Visits \/ (\E q \in Pids : Kid(q)) \/ Settle \/ UNCHANGED processes
<1> USE DEF inventory
<1>1. CASE Kernel
  BY <1>1 DEF Kernel, Fork, Regroup, Exit, ParentReaps, Intrude
<1>2. CASE Scanning
  BY <1>2 DEF Scanning, Visits, Children, Recheck, ReadFails
<1>3. CASE Advancing
  BY <1>3 DEF Advancing, Scanned, GroupsDone, Judge, GroupStep, MemberStep, CheckFails, LoopVars
<1>4. CASE Ending
  BY <1>4 DEF Ending, Finish, ReapExpired, ReapRoot, KillRoot, LastKill
<1> QED BY <1>1, <1>2, <1>3, <1>4
        DEF Next, StartScan, ChildExited, Stop, Deadline, Ended, vars

\* A read is of the table as it is.
LEMMA ReadSteps ==
  ASSUME TypeOK, [Next]_vars, Visits \/ \E q \in Pids : Kid(q)
  PROVE  /\ UNCHANGED os
         /\ \A p \in Pids : \/ processes'[p] = processes[p] \/ processes'[p] = Unseen
                            \/ Exists(p) /\ processes'[p] = Read(p)
<1>1. ASSUME scan.queue # <<>>, NEW e \in Head(scan.queue), Visit(e)
      PROVE  /\ UNCHANGED os
             /\ \A p \in Pids : \/ processes'[p] = processes[p] \/ processes'[p] = Unseen
                                \/ Exists(p) /\ processes'[p] = Read(p)
  <2>1. e.pid \in Pids
    BY <1>1, TypeVisit DEF Identity
  <2> QED BY <1>1, <2>1 DEF Visit, ScanVars, kernelVars, TypeOK, Same
<1>2. ASSUME NEW q \in Pids, Kid(q)
      PROVE  /\ UNCHANGED os
             /\ \A p \in Pids : \/ processes'[p] = processes[p] \/ processes'[p] = Unseen
                                \/ Exists(p) /\ processes'[p] = Read(p)
  BY <1>2 DEF Kid, kernelVars, TypeOK, Childhood
<1> QED BY <1>1, <1>2 DEF Visits

LEMMA TablesNext == TypeOK /\ TypeOK' /\ KernelInv /\ [Next]_vars => TablesInv'
<1> SUFFICES ASSUME TypeOK, TypeOK', KernelInv, [Next]_vars PROVE TablesInv'
  OBVIOUS
<1>1. TablesInv
  BY DEF KernelInv, TablesInv
<1>2. CASE Kernel
  <2>1. ASSUME NEW p \in Pids, ParentReaps(p) PROVE TablesInv'
    BY <1>1, <2>1, Reapers, ReapTables
  <2> QED BY <1>1, <1>2, <2>1, ForkTables, RegroupTables, ExitTables, IntrudeTables DEF Kernel
<1>3. CASE Settle
  BY <1>1, <1>3, Reapers, ReapTables
<1>4. CASE ReapRoot
  BY <1>1, <1>4, Reapers, ReapTables
<1> QED BY <1>1, <1>2, <1>3, <1>4, OsSteps, ShapeTables

\* A run that is over stays over.
LEMMA StaysDone == ASSUME [Next]_vars, pc' # "done" PROVE pc # "done"
<1>1. CASE Scanning
  BY <1>1 DEF Scanning, Visit, Children, Recheck, ReadFails, Kid, Settle
<1>2. CASE Advancing
  BY <1>2 DEF Advancing, Scanned, GroupsDone, Judge, GroupStep, MemberStep, CheckFails
<1>3. CASE Ending
  BY <1>3 DEF Ending, Finish, ReapExpired, ReapRoot, KillRoot, LastKill
<1>4. CASE Kernel
  BY <1>4 DEF Kernel, Fork, Regroup, Exit, ParentReaps, Intrude
<1> QED BY <1>1, <1>2, <1>3, <1>4
        DEF Next, StartScan, ChildExited, Stop, Deadline, Ended, vars

LEMMA RootNext == TypeOK /\ KernelInv /\ [Next]_vars => RootHeld'
<1> SUFFICES ASSUME TypeOK, KernelInv, [Next]_vars, pc' # "done"
             PROVE  (Exists(Root) /\ os[Root].parent = Shim)'
  BY DEF RootHeld
<1>1. Exists(Root) /\ os[Root].parent = Shim /\ Descendant(Root) /\ TablesInv
  BY StaysDone, PidAssumption DEF KernelInv, TablesInv, RootHeld, Descendant
<1>2. Root \in Pids /\ Shim \notin Pids
  BY PidAssumption
<1>3. CASE Kernel
  <2>1. ASSUME NEW p \in Pids, NEW q \in Pids, Fork(p, q) PROVE os'[Root] = os[Root]
    BY <1>1, <1>2, <2>1 DEF Fork, Available, TypeOK
  <2>2. ASSUME NEW p \in Pids, NEW q \in Pids, Regroup(p, q)
        PROVE  (Exists(Root) /\ os[Root].parent = Shim)'
    BY <1>1, <1>2, <2>2, RegroupTables DEF Exists
  <2>3. ASSUME NEW p \in Pids, Exit(p) PROVE (Exists(Root) /\ os[Root].parent = Shim)'
    BY <1>1, <1>2, <2>3, ExitTables DEF Exists
  <2>4. ASSUME NEW p \in Pids, ParentReaps(p) PROVE os'[Root] = os[Root]
    BY <1>1, <1>2, <2>4 DEF ParentReaps, TypeOK
  <2>5. ASSUME NEW q \in Pids, Intrude(q) PROVE os'[Root] = os[Root]
    BY <1>1, <1>2, <2>5 DEF Intrude, Available, TypeOK
  <2> QED BY <1>1, <1>3, <2>1, <2>2, <2>3, <2>4, <2>5 DEF Kernel, Exists
<1>4. CASE Settle
  BY <1>1, <1>2, <1>4 DEF Settle, Adopted, Exists
<1>5. CASE ReapRoot
  BY <1>5 DEF ReapRoot
<1>6. CASE SameShape
  BY <1>1, <1>2, <1>6 DEF SameShape, Exists
<1> QED BY <1>3, <1>4, <1>5, <1>6, OsSteps

\* What is a zombie child of the shim remains one.
LEMMA AdoptedNext == TypeOK /\ KernelInv /\ [Next]_vars => AdoptedHeld'
<1> SUFFICES ASSUME TypeOK, KernelInv, [Next]_vars, NEW p \in Adopted'
             PROVE  os'[p].life = "zombie" /\ os'[p].parent = Shim
  BY DEF AdoptedHeld
<1> USE DEF Adopted
<1>1. TablesInv /\ AdoptedHeld /\ Shim \notin Pids /\ Outside # Shim
  BY PidAssumption DEF KernelInv, TablesInv
<1>2. CASE Settle
  BY <1>2 DEF Settle, Tracked, Unseen
<1>3. CASE Visits \/ \E q \in Pids : Kid(q)
  <2>1. UNCHANGED os /\ (processes'[p] = processes[p] \/ processes'[p] = Read(p))
    BY <1>3, ReadSteps DEF Tracked, Unseen
  <2>2. CASE processes'[p] = processes[p]
    BY <1>1, <2>1, <2>2 DEF AdoptedHeld, Tracked
  <2>3. CASE processes'[p] = Read(p)
    <3>1. Read(p).exited /\ Read(p).parent = Shim
      BY Zenon, <2>3
    <3>2. (Read(p).exited <=> os[p].life = "zombie") /\ Read(p).parent = os[p].parent
      BY Zenon DEF Read
    <3> QED BY <2>1, <3>1, <3>2
  <2> QED BY <2>1, <2>2, <2>3
<1>4. CASE UNCHANGED processes
  <2>1. p \in Pids /\ p # Root /\ os[p].life = "zombie" /\ os[p].parent = Shim
    BY <1>1, <1>4 DEF AdoptedHeld, Tracked
  <2>2. CASE Kernel
    <3>1. ASSUME NEW x \in Pids, NEW q \in Pids, Fork(x, q) PROVE os'[p] = os[p]
      BY <2>1, <3>1 DEF Fork, Available, Exists, TypeOK
    <3>2. ASSUME NEW x \in Pids, NEW q \in Pids, Regroup(x, q) PROVE os'[p] = os[p]
      <4>1. x # p
        BY <2>1, <3>2, Zenon DEF Regroup, Running, LivingDescendants
      <4> QED BY <1>1, <2>1, <3>2, <4>1, RegroupTables
    <3>3. ASSUME NEW x \in Pids, Exit(x)
          PROVE  os'[p].life = "zombie" /\ os'[p].parent = Shim
      BY <1>1, <2>1, <3>3, ExitTables DEF Exit
    <3>4. ASSUME NEW x \in Pids, ParentReaps(x) PROVE os'[p] = os[p]
      BY <1>1, <2>1, <3>4 DEF ParentReaps, TypeOK
    <3>5. ASSUME NEW q \in Pids, Intrude(q) PROVE os'[p] = os[p]
      BY <2>1, <3>5 DEF Intrude, Available, Exists, TypeOK
    <3> QED BY <2>1, <2>2, <3>1, <3>2, <3>3, <3>4, <3>5 DEF Kernel
  <2>3. CASE ReapRoot
    BY <2>1, <2>3 DEF ReapRoot, TypeOK
  <2>4. CASE SameShape
    BY <2>1, <2>4 DEF SameShape
  <2> QED BY <1>2, <2>2, <2>3, <2>4, OsSteps
<1> QED BY <1>2, <1>3, <1>4, RecordSteps

LEMMA KernelNext == TypeOK /\ TypeOK' /\ KernelInv /\ [Next]_vars => KernelInv'
BY TablesNext, RootNext, AdoptedNext DEF KernelInv, TablesInv

LEMMA KernelInit == Init => KernelInv
BY InitTables DEF KernelInv, TablesInv

-----------------------------------------------------------------------------
(* Identities.                                                             *)

\* Incarnations only grow, and within one a process remains a descendant.
Persists ==
  \A p \in Pids : /\ os[p].born <= os'[p].born
                  /\ Exists(p)' /\ os'[p].born = os[p].born =>
                       Exists(p) /\ (Descendant(p) => Descendant(p)')

LEMMA Persistence == TypeOK /\ KernelInv /\ [Next]_vars => Persists
<1> SUFFICES ASSUME TypeOK, KernelInv, [Next]_vars PROVE Persists
  OBVIOUS
<1>1. \A p \in Pids : os[p].born \in Nat
  BY DEF TypeOK, Process
<1>2. TablesInv /\ Outside # Shim /\ Outside \notin Pids
  BY PidAssumption DEF KernelInv, TablesInv
<1>3. ASSUME NEW F, Reaped(F) PROVE Persists
  BY <1>1, <1>3 DEF Reaped, Persists, Free, Exists, Descendant
<1>4. CASE Kernel
  <2>1. ASSUME NEW p \in Pids, NEW q \in Pids, Fork(p, q) PROVE Persists
    <3>1. os'[q].born = os[q].born + 1 /\ \A x \in Pids \ {q} : os'[x] = os[x]
      BY <2>1 DEF Fork, TypeOK, Process
    <3> QED BY <1>1, <3>1 DEF Persists, Exists, Descendant
  <2>2. ASSUME NEW p \in Pids, NEW q \in Pids, Regroup(p, q) PROVE Persists
    BY <1>1, <1>2, <2>2, RegroupTables DEF Persists, Exists, Descendant
  <2>3. ASSUME NEW p \in Pids, Exit(p) PROVE Persists
    <3>1. os[p].life = "live"
      BY <2>3 DEF Exit
    <3> QED BY <1>1, <1>2, <2>3, <3>1, ExitTables DEF Persists, Exists, Descendant
  <2>4. ASSUME NEW p \in Pids, ParentReaps(p) PROVE Persists
    BY <1>3, <2>4, Reapers
  <2>5. ASSUME NEW q \in Pids, Intrude(q) PROVE Persists
    BY <1>1, <1>2, <2>5, IntrudeTables DEF Persists, Exists, Descendant
  <2> QED BY <1>4, <2>1, <2>2, <2>3, <2>4, <2>5 DEF Kernel
<1>5. CASE SameShape
  BY <1>1, <1>5 DEF SameShape, Persists, Exists, Descendant
<1> QED BY <1>3, <1>4, <1>5, Reapers, OsSteps

LEMMA KnownGrows ==
  ASSUME TypeOK, TypeOK', Persists
  PROVE  /\ \A p \in Pids, n \in Nat : Known(p, n) => Known(p, n)'
         /\ KnownIdentity \subseteq KnownIdentity'
         /\ Seq(SUBSET KnownIdentity) \subseteq Seq(SUBSET KnownIdentity')
<1>1. \A p \in Pids : os[p].born \in Nat /\ os'[p].born \in Nat
  BY DEF TypeOK, Process
<1>2. \A p \in Pids, n \in Nat : Known(p, n) => Known(p, n)'
  <2> SUFFICES ASSUME NEW p \in Pids, NEW n \in Nat, Known(p, n), n # 0 PROVE Known(p, n)'
    BY DEF Known
  <2>1. n <= os[p].born /\ os[p].born <= os'[p].born
    BY DEF Known, Persists
  <2>2. ASSUME Exists(p)', os'[p].born = n PROVE Descendant(p)'
    <3>1. os'[p].born = os[p].born /\ os[p].born = n
      BY <1>1, <2>1, <2>2
    <3> QED BY <2>2, <3>1 DEF Persists, Known
  <2> QED BY <1>1, <2>1, <2>2 DEF Known
<1>3. KnownIdentity \subseteq KnownIdentity'
  BY <1>2 DEF KnownIdentity, Identity
<1>4. SUBSET KnownIdentity \subseteq SUBSET KnownIdentity'
  BY <1>3
<1> QED BY <1>2, <1>3, <1>4, SeqMonotonic

LEMMA AnchorsKnown ==
  ASSUME TypeOK, KnownInv
  PROVE  NewScan.queue \in Seq(SUBSET KnownIdentity) /\ NewScan.batch = {}
<1>1. Anchors \in SUBSET KnownIdentity
  <2> SUFFICES ASSUME NEW p \in Pids, Tracked(p) PROVE Ident(p) \in KnownIdentity
    BY DEF Anchors
  <2>1. Ident(p) \in Identity /\ Ident(p).pid = p /\ Ident(p).born = processes[p].born
    BY DEF Ident, Identity, TypeOK, Record
  <2> QED BY <2>1 DEF KnownIdentity, KnownInv, Tracked
<1>2. NewScan.queue = <<>> \/ NewScan.queue = <<Anchors>>
  BY DEF NewScan, NoScan
<1>3. NewScan.batch = {}
  BY DEF NewScan, NoScan
<1> QED BY <1>1, <1>2, <1>3, OneInSeq

\* What a scan comes upon is a descendant: its parent is one, or the shim.
LEMMA ChildKnown ==
  ASSUME TypeOK, KernelInv, NEW q \in Pids, Childhood(q)
  PROVE  /\ Exists(q) /\ Descendant(q) /\ Known(q, os[q].born)
         /\ [pid |-> q, born |-> os[q].born] \in KnownIdentity
<1>1. scan.at.pid # Outside
  BY PidAssumption DEF TypeOK, ScanState, Identity, ShimIdent
<1>2. os[q].born \in Nat
  BY DEF TypeOK, Process
<1> QED BY <1>1, <1>2 DEF Childhood, Descendant, Known, KnownIdentity, Identity, KernelInv

LEMMA VisitKnown ==
  ASSUME TypeOK, KernelInv, KnownInv, scan.queue # <<>>, NEW e \in Head(scan.queue), Visit(e)
  PROVE  /\ e.pid \in Pids /\ e \in KnownIdentity
         /\ Same(e) => Exists(e.pid) /\ Descendant(e.pid) /\ Known(e.pid, os[e.pid].born)
<1>1. e \in KnownIdentity
  BY DequeueType DEF KnownInv
<1> QED BY <1>1 DEF KnownIdentity, Identity, Same, Known

LEMMA QueueKnown ==
  ASSUME TypeOK, KernelInv, KnownInv, [Next]_vars
  PROVE  scan'.queue \in Seq(SUBSET KnownIdentity) /\ scan'.batch \subseteq KnownIdentity
<1> DEFINE Goal == scan'.queue \in Seq(SUBSET KnownIdentity)
                   /\ scan'.batch \subseteq KnownIdentity
<1>1. scan.queue \in Seq(SUBSET KnownIdentity) /\ scan.batch \in SUBSET KnownIdentity
  BY DEF KnownInv
<1>2. CASE UNCHANGED scan
  BY <1>1, <1>2
<1>3. CASE scan' = NewScan
  BY <1>3, AnchorsKnown
<1>4. CASE scan'.queue = <<>> /\ scan'.batch = {}
  BY <1>4, OneInSeq
<1>5. CASE scan'.queue = scan.queue /\ scan'.batch = scan.batch
  BY <1>1, <1>5
<1>6. CASE Kernel
  <2>1. ASSUME NEW p \in Pids, Exit(p) PROVE Goal
    BY <2>1, <1>5 DEF Exit, TypeOK, ScanState
  <2> QED BY <1>2, <1>6, <2>1 DEF Kernel, Fork, Regroup, ParentReaps, Intrude
<1>7. ASSUME scan.queue # <<>>, NEW e \in Head(scan.queue), Visit(e) PROVE Goal
  <2>1. Dequeue(e) \in Seq(SUBSET KnownIdentity)
    BY <1>1, <1>7, DequeueType
  <2>2. scan'.queue = Dequeue(e) /\ scan'.batch = scan.batch
    BY <1>7 DEF Visit, TypeOK, ScanState
  <2> QED BY <1>1, <2>1, <2>2
<1>8. ASSUME NEW left, NEW found \in SUBSET KnownIdentity, NextKid(left, found) PROVE Goal
  <2>1. Append(scan.queue, found) \in Seq(SUBSET KnownIdentity)
    BY <1>1, AppendType
  <2>2. CASE left # {}
    <3>1. scan'.queue = scan.queue /\ scan'.batch = found
      BY <1>8, <2>2 DEF NextKid, TypeOK, ScanState
    <3> QED BY <1>1, <1>8, <3>1
  <2>3. CASE left = {}
    <3>1. /\ scan'.queue = IF found = {} THEN scan.queue ELSE Append(scan.queue, found)
          /\ scan'.batch = {}
      BY <1>8, <2>3 DEF NextKid, TypeOK, ScanState
    <3> QED BY <1>1, <2>1, <3>1
  <2> QED BY <2>2, <2>3
<1>9. ASSUME NEW q \in Pids, Kid(q) PROVE Goal
  <2>1. CASE NextKid(scan.kids \ {q}, scan.batch) \/ NextKid({}, scan.batch)
    BY <1>1, <1>8, <2>1
  <2>2. CASE /\ Childhood(q)
             /\ NextKid(scan.kids \ {q}, scan.batch \cup {[pid |-> q, born |-> os[q].born]})
    <3>1. scan.batch \cup {[pid |-> q, born |-> os[q].born]} \in SUBSET KnownIdentity
      BY <1>1, <2>2, ChildKnown
    <3> QED BY <1>8, <2>2, <3>1
  <2> QED BY <1>9, <2>1, <2>2 DEF Kid
<1>10. CASE ReadFails
  <2>1. CASE /\ scan'.queue = IF scan.batch = {} THEN scan.queue
                              ELSE Append(scan.queue, scan.batch)
             /\ scan'.batch = {}
    <3>1. Append(scan.queue, scan.batch) \in Seq(SUBSET KnownIdentity)
      BY <1>1, AppendType
    <3> QED BY <1>1, <2>1, <3>1
  <2>2. ASSUME scan.queue # <<>>, NEW e \in Head(scan.queue),
               scan' = [scan EXCEPT !.incomplete = TRUE, !.queue = Dequeue(e)]
        PROVE  Goal
    <3>1. Dequeue(e) \in Seq(SUBSET KnownIdentity)
      BY <1>1, <2>2, DequeueType
    <3>2. scan'.queue = Dequeue(e) /\ scan'.batch = scan.batch
      BY <2>2 DEF TypeOK, ScanState
    <3> QED BY <1>1, <3>1, <3>2
  <2>3. CASE \E e \in (IF pc = "pop" /\ scan.queue # <<>> THEN Head(scan.queue) ELSE {}) :
               scan' = [scan EXCEPT !.incomplete = TRUE, !.queue = Dequeue(e)]
    BY <2>2, <2>3
  <2>4. CASE scan' = [scan EXCEPT !.incomplete = TRUE, !.kids = {}]
    BY <1>5, <2>4 DEF TypeOK, ScanState
  <2>5. CASE \E q \in scan.kids :
               scan' = [scan EXCEPT !.incomplete = TRUE, !.kids = scan.kids \ {q},
                           !.batch = IF scan.kids \ {q} = {} THEN {} ELSE @,
                           !.queue = IF scan.kids \ {q} # {} \/ scan.batch = {} THEN @
                                     ELSE Append(@, scan.batch)]
    <3>1. PICK q \in scan.kids :
               scan' = [scan EXCEPT !.incomplete = TRUE, !.kids = scan.kids \ {q},
                           !.batch = IF scan.kids \ {q} = {} THEN {} ELSE @,
                           !.queue = IF scan.kids \ {q} # {} \/ scan.batch = {} THEN @
                                     ELSE Append(@, scan.batch)]
      BY <2>5
    <3>2. CASE scan.kids \ {q} # {}
      BY <1>5, <3>1, <3>2 DEF TypeOK, ScanState
    <3>3. CASE scan.kids \ {q} = {}
      BY <2>1, <3>1, <3>3 DEF TypeOK, ScanState
    <3> QED BY <3>2, <3>3
  <2> QED BY <1>10, <2>3, <2>4, <2>5 DEF ReadFails
<1>11. CASE Scanning
  <2>1. CASE Children \/ Recheck
    BY <1>5, <2>1 DEF Children, Recheck, TypeOK, ScanState
  <2>2. CASE Settle
    BY <1>4, <2>2 DEF Settle, NoScan
  <2> QED BY <1>7, <1>9, <1>10, <1>11, <2>1, <2>2 DEF Scanning
<1>12. CASE Advancing
  <2>1. CASE Scanned
    BY <1>4, <2>1 DEF Scanned, NoScan
  <2>2. CASE Judge
    BY <1>2, <1>3, <2>2 DEF Judge
  <2> QED BY <1>2, <1>12, <2>1, <2>2
          DEF Advancing, GroupsDone, GroupStep, MemberStep, CheckFails, LoopVars
<1>13. CASE Ending
  BY <1>2, <1>13 DEF Ending, Finish, ReapExpired, ReapRoot, KillRoot, LastKill
<1> HIDE DEF Goal
<1> QED BY <1>2, <1>3, <1>6, <1>11, <1>12, <1>13
        DEF Next, StartScan, ChildExited, Stop, Deadline, Ended, vars, Goal

\* Records, groups and members get their incarnations from what is known.
LEMMA RecordsKnown ==
  ASSUME TypeOK, KernelInv, KnownInv, [Next]_vars
  PROVE  \A p \in Pids : Known(p, processes'[p].born)
<1> TAKE p \in Pids
<1>1. Known(p, processes[p].born) /\ Known(p, 0)
  BY DEF KnownInv, Known
<1>2. ASSUME scan.queue # <<>>, NEW e \in Head(scan.queue), Visit(e)
      PROVE  Known(p, processes'[p].born)
  <2>1. processes'[p].born \in {processes[p].born, 0} \/ (Same(e) /\ e.pid = p
                                                         /\ processes'[p].born = os[p].born)
    <3>1. \/ processes' = processes
          \/ processes' = [processes EXCEPT ![e.pid] = Unseen]
          \/ Same(e) /\ processes' = [processes EXCEPT ![e.pid] = Read(e.pid)]
      BY <1>2 DEF Visit
    <3>2. Unseen.born = 0 /\ Read(e.pid).born = os[e.pid].born
      BY DEF Unseen, Read
    <3> QED BY <3>1, <3>2 DEF TypeOK
  <2> QED BY <1>1, <1>2, <2>1, VisitKnown
<1>3. ASSUME NEW q \in Pids, Kid(q) PROVE Known(p, processes'[p].born)
  <2>1. processes'[p].born = processes[p].born \/ (Childhood(q) /\ q = p
                                                  /\ processes'[p].born = os[p].born)
    <3>1. \/ processes' = processes
          \/ Childhood(q) /\ processes' = [processes EXCEPT ![q] = Read(q)]
      BY <1>3 DEF Kid
    <3>2. Read(q).born = os[q].born
      BY DEF Read
    <3> QED BY <3>1, <3>2 DEF TypeOK
  <2> QED BY <1>1, <2>1, ChildKnown
<1>4. CASE Settle
  BY <1>1, <1>4 DEF Settle, Unseen
<1> QED BY <1>1, <1>2, <1>3, <1>4, RecordSteps DEF Visits

LEMMA GroupsKnown ==
  ASSUME TypeOK, KernelInv, KnownInv, [Next]_vars
  PROVE  \A p \in Pids : Known(p, groups'[p].born) /\ Known(p, members'[p].born)
<1> DEFINE Goal == \A p \in Pids : Known(p, groups'[p].born) /\ Known(p, members'[p].born)
<1>1. \A p \in Pids : /\ Known(p, processes[p].born) /\ Known(p, groups[p].born)
                      /\ Known(p, members[p].born) /\ Known(p, 0)
  BY DEF KnownInv, Known
<1>2. CASE UNCHANGED <<groups, members>>
  BY <1>1, <1>2
<1>3. CASE Settle
  <2>1. \A p \in Pids : members'[p] = members[p] \/ members'[p] = NoMember
    BY <1>3 DEF Settle
  <2>2. ASSUME NEW p \in Pids
        PROVE  groups'[p].born \in {groups[p].born, 0, processes[p].born}
    <3> DEFINE kept == [x \in Pids |-> IF x \in Adopted THEN Unseen ELSE processes[x]]
               old == {x \in Pids : Retained(x, kept)}
               new == {x \in Pids : kept[x].born # 0 /\ kept[x].group = x} \ old
    <3>1. PICK noted \in SUBSET new :
             groups' = [x \in Pids |->
                          CASE x \in old -> groups[x]
                            [] x \in noted -> [born |-> kept[x].born, stage |-> "none"]
                            [] OTHER -> NoGroup]
      BY <1>3 DEF Settle
    <3>2. kept[p].born \in {0, processes[p].born}
      BY DEF Unseen
    <3> HIDE DEF kept, old, new
    <3> QED BY <3>1, <3>2 DEF NoGroup
  <2> QED BY <1>1, <2>1, <2>2 DEF NoMember
<1>4. ASSUME NEW p \in Pids, GroupStep(p) PROVE Goal
  <2>1. \A q \in Pids : /\ groups'[q].born = groups[q].born
                        /\ members'[q].born \in {members[q].born, processes[q].born}
    <3>1. \/ UNCHANGED <<groups, members>>
          \/ \E next \in Due(groups[p].stage) :
               /\ groups' = [groups EXCEPT ![p].stage = next.stage]
               /\ members' = [q \in Pids |->
                                IF q \in {x \in live : processes[x].group = p}
                                THEN [born |-> processes[q].born, group |-> p, stage |-> next.stage]
                                ELSE members[q]]
      BY <1>4 DEF GroupStep
    <3> QED BY <3>1 DEF TypeOK
  <2> QED BY <1>1, <2>1
<1>5. ASSUME NEW p \in Pids, MemberStep(p) PROVE Goal
  <2>1. /\ groups' = groups
        /\ \A q \in Pids : members'[q].born \in {members[q].born, processes[q].born}
    BY <1>5 DEF MemberStep, TypeOK
  <2> QED BY <1>1, <2>1
<1> HIDE DEF Goal
<1> USE DEF inventory
<1>6. CASE Scanning
  BY <1>2, <1>3, <1>6 DEF Goal, Scanning, Visit, Children, Recheck, ReadFails, Kid, ScanVars
<1>7. CASE Advancing
  BY <1>2, <1>4, <1>5, <1>7 DEF Goal, Advancing, Scanned, GroupsDone, Judge, CheckFails, LoopVars
<1>8. CASE Kernel
  BY <1>2, <1>8 DEF Goal, Kernel, Fork, Regroup, Exit, ParentReaps, Intrude
<1>9. CASE Ending
  BY <1>2, <1>9 DEF Goal, Ending, Finish, ReapExpired, ReapRoot, KillRoot, LastKill
<1> QED BY <1>2, <1>6, <1>7, <1>8, <1>9
        DEF Goal, Next, StartScan, ChildExited, Stop, Deadline, Ended, vars

LEMMA KnownNext == TypeOK /\ TypeOK' /\ KernelInv /\ KnownInv /\ [Next]_vars => KnownInv'
<1> SUFFICES ASSUME TypeOK, TypeOK', KernelInv, KnownInv, [Next]_vars PROVE KnownInv'
  OBVIOUS
<1>1. Persists
  BY Persistence
<1>2. \A p \in Pids : processes'[p].born \in Nat /\ groups'[p].born \in Nat
                      /\ members'[p].born \in Nat
  BY DEF TypeOK, Record
<1>3. (\A p \in Pids : Known(p, processes[p].born) /\ Known(p, groups[p].born)
                       /\ Known(p, members[p].born))'
  <2> SUFFICES ASSUME NEW p \in Pids
               PROVE  /\ Known(p, processes[p].born)' /\ Known(p, groups[p].born)'
                      /\ Known(p, members[p].born)'
    OBVIOUS
  <2>1. ASSUME NEW n \in Nat, Known(p, n)
        PROVE  n # 0 => n <= os'[p].born /\ (Exists(p)' /\ os'[p].born = n => Descendant(p)')
    BY <1>1, <2>1, KnownGrows DEF Known
  <2> QED BY <1>2, <2>1, RecordsKnown, GroupsKnown DEF Known
<1>4. (scan.queue \in Seq(SUBSET KnownIdentity) /\ scan.batch \subseteq KnownIdentity)'
  BY <1>1, KnownGrows, QueueKnown
<1> QED BY <1>3, <1>4 DEF KnownInv

LEMMA KnownInit == Init => KnownInv
<1> SUFFICES ASSUME Init PROVE KnownInv
  OBVIOUS
<1>1. scan.queue = <<>> /\ scan.batch = {}
  BY DEF Init, NoScan
<1>2. \A p \in Pids : /\ processes[p].born = (IF p = Root THEN 1 ELSE 0)
                      /\ groups[p].born = (IF p = Root THEN 1 ELSE 0) /\ members[p].born = 0
  BY DEF Init, Unseen, NoGroup, NoMember
<1>3. os[Root].born = 1 /\ os[Root].parent = Shim
  BY PidAssumption DEF Init, Free
<1> QED BY <1>1, <1>2, <1>3, OneInSeq, PidAssumption DEF KnownInv, Known, Descendant

-----------------------------------------------------------------------------
(* Whom a signal reaches.                                                  *)

\* A single process and a group are checked by the identity on record; the
\* root is unreaped.
LEMMA TargetsDescend ==
  ASSUME TypeOK, KernelInv, KnownInv, NEW p \in Pids
  PROVE  /\ StillRuns(p) => Descendant(p)
         /\ LeaderStands(p) => \A q \in Pids : os[q].group = p /\ Exists(q) => Descendant(q)
         /\ pc # "done" => Descendant(Root)
<1>1. StillRuns(p) => Descendant(p)
  BY DEF StillRuns, KernelInv, KnownInv, Known, Exists
<1>2. LeaderStands(p) => Descendant(p)
  BY DEF LeaderStands, KernelInv, KnownInv, Known
<1>3. pc # "done" => Descendant(Root)
  BY PidAssumption DEF KernelInv, RootHeld, Descendant
<1> QED BY <1>1, <1>2, <1>3 DEF KernelInv

LEMMA StrangerNext ==
  TypeOK /\ KernelInv /\ KnownInv /\ NoStrangerSignalled /\ [Next]_vars => NoStrangerSignalled'
<1> SUFFICES ASSUME TypeOK, KernelInv, KnownInv, ~stranger, [Next]_vars PROVE ~stranger'
  BY DEF NoStrangerSignalled
<1>1. ASSUME NEW signal, NEW ps, NEW told, Deliver(signal, ps, told),
             \A q \in ps : os[q].life = "live" => Descendant(q)
      PROVE  ~stranger'
  BY <1>1 DEF Deliver
<1>2. CASE UNCHANGED stranger
  BY <1>2
<1>3. ASSUME NEW p \in Pids, GroupStep(p) PROVE ~stranger'
  <2>1. CASE UNCHANGED stranger
    BY <2>1
  <2>2. CASE LeaderStands(p) /\ \E signal, told : Deliver(signal, {q \in Pids : os[q].group = p}, told)
    <3>1. PICK signal, told : Deliver(signal, {q \in Pids : os[q].group = p}, told)
      BY <2>2
    <3>2. \A q \in {x \in Pids : os[x].group = p} : os[q].life = "live" => Descendant(q)
      BY <2>2, TargetsDescend DEF Exists
    <3> QED BY <1>1, <3>1, <3>2
  <2> QED BY <1>3, <2>1, <2>2 DEF GroupStep
<1>4. ASSUME NEW p \in Pids, NEW signal, StillRuns(p), Deliver(signal, {p}, {}) PROVE ~stranger'
  BY <1>1, <1>4, TargetsDescend
<1>5. ASSUME KillRoot PROVE ~stranger'
  <2>1. Descendant(Root)
    BY <1>5, TargetsDescend, PidAssumption DEF KillRoot
  <2> QED BY <1>1, <1>2, <1>5, <2>1 DEF KillRoot
<1>6. ASSUME NEW p \in Pids, MemberStep(p) \/ LastKill(p) PROVE ~stranger'
  BY <1>2, <1>4, <1>6 DEF MemberStep, LastKill
<1> USE DEF history
<1>7. CASE Scanning
  BY <1>2, <1>7 DEF Scanning, Visit, Children, Recheck, ReadFails, Kid, Settle, ScanVars
<1>8. CASE Advancing
  BY <1>2, <1>3, <1>6, <1>8 DEF Advancing, Scanned, GroupsDone, Judge, CheckFails, LoopVars
<1>9. CASE Kernel
  BY <1>2, <1>9 DEF Kernel, Fork, Regroup, Exit, ParentReaps, Intrude
<1>10. CASE Ending
  BY <1>2, <1>5, <1>6, <1>10 DEF Ending, Finish, ReapExpired, ReapRoot
<1> QED BY <1>2, <1>7, <1>8, <1>9, <1>10
        DEF Next, StartScan, ChildExited, Stop, Deadline, Ended, vars

-----------------------------------------------------------------------------
(* The phases of the run.                                                  *)

phases == <<pc, todo, live, force, processes, cleaning, late, uncertain, misses, empties,
            final, outcome, verdict, dirty>>

LEMMA KernelPhases == Kernel => UNCHANGED phases
BY DEF Kernel, Fork, Regroup, Exit, ParentReaps, Intrude, phases,
       inventory, cleanupVars, passVars, endVars, history

\* A read of the kernel's tables leaves the loop alone, but may give up on
\* the whole.
LEMMA ReadPhases ==
  ASSUME TypeOK, Scanning, ~Settle
  PROVE  /\ UNCHANGED <<os, live, force, cleaning, late, misses, empties, final, outcome,
                        verdict, dirty, groups, members, todo, hasty>>
         /\ (uncertain => uncertain') /\ pc \in Scans /\ pc' \in Scans
<1> USE DEF Scans, kernelVars, cleanupVars, passVars, endVars, history, ScanVars, inventory
<1>1. CASE Visits
  BY <1>1 DEF Visits, Visit
<1>2. ASSUME NEW q \in Pids, Kid(q)
      PROVE  /\ UNCHANGED <<os, live, force, cleaning, late, misses, empties, final, outcome,
                            verdict, dirty, groups, members, todo, hasty>>
             /\ (uncertain => uncertain') /\ pc \in Scans /\ pc' \in Scans
  BY <1>2 DEF Kid, NextKid
<1>3. CASE Children \/ Recheck
  BY <1>3 DEF Children, Recheck
<1>4. CASE ReadFails
  BY <1>4 DEF ReadFails
<1> QED BY <1>1, <1>2, <1>3, <1>4 DEF Scanning, Visits

LEMMA FlowInit == Init => FlowInv
BY DEF Init, FlowInv, Advances

LEMMA FlowNext == TypeOK /\ FlowInv /\ [Next]_vars => FlowInv'
<1> SUFFICES ASSUME TypeOK, FlowInv, [Next]_vars PROVE FlowInv'
  OBVIOUS
<1> USE DEF FlowInv, Advances, Scans
<1>1. CASE UNCHANGED phases
  BY <1>1 DEF phases, LiveRecords, Tracked
<1>2. CASE Scanning
  <2>1. CASE Settle
    BY <2>1 DEF Settle, passVars, endVars
  <2>2. CASE ~Settle
    BY <1>2, <2>2, ReadPhases
  <2> QED BY <2>1, <2>2
<1>3. CASE Advancing
  <2>1. CASE Scanned
    BY <2>1 DEF Scanned, passVars, endVars, inventory, LiveRecords, Tracked
  <2>2. CASE GroupsDone
    BY <2>2 DEF GroupsDone, cleanupVars, LoopVars, endVars, inventory, LiveRecords, Tracked
  <2>3. CASE Judge
    BY <2>3 DEF Judge
  <2>4. ASSUME NEW p \in Pids, GroupStep(p) \/ MemberStep(p) \/ CheckFails(p) PROVE FlowInv'
    BY <2>4 DEF GroupStep, MemberStep, CheckFails, endVars, inventory, LiveRecords, Tracked
  <2> QED BY <1>3, <2>1, <2>2, <2>3, <2>4 DEF Advancing
<1>4. CASE Ending
  <2>1. CASE Finish
    BY <2>1 DEF Finish
  <2>2. CASE KillRoot \/ ReapRoot \/ ReapExpired
    BY <2>2 DEF KillRoot, ReapRoot, ReapExpired, endVars, cleanupVars
  <2>3. ASSUME NEW p \in Pids, LastKill(p) PROVE FlowInv'
    BY <2>3 DEF LastKill, endVars, cleanupVars
  <2> QED BY <1>4, <2>1, <2>2, <2>3 DEF Ending
<1>5. CASE StartScan \/ ChildExited \/ Stop \/ Deadline
  BY <1>5 DEF StartScan, ChildExited, Stop, Deadline, cleanupVars, passVars, endVars,
              inventory, LiveRecords, Tracked
<1>6. CASE Ended \/ UNCHANGED vars
  BY <1>1, <1>6 DEF Ended, vars, phases, inventory, cleanupVars, passVars, endVars, history
<1> QED BY <1>1, <1>2, <1>3, <1>4, <1>5, <1>6, KernelPhases DEF Next

-----------------------------------------------------------------------------
(* What an empty scan proves.                                              *)

\* Only a living descendant can have a child.
LEMMA NoneReborn ==
  ASSUME TypeOK, KernelInv, [Next]_vars, Living = {}
  PROVE  Living' = {}
<1>1. TablesInv
  BY DEF KernelInv, TablesInv
<1>2. ASSUME NEW F, Reaped(F) PROVE Living' = {}
  BY <1>2 DEF Reaped, Living, LivingDescendants, Descendant, Free
<1>3. CASE Kernel
  <2>1. ASSUME NEW p \in Pids, Exit(p) PROVE Living' = {}
    BY <1>1, <2>1, ExitTables
  <2>2. ASSUME NEW p \in Pids, ParentReaps(p) PROVE Living' = {}
    BY <1>2, <2>2, Reapers
  <2>3. ASSUME NEW p \in Pids, NEW q \in Pids, Fork(p, q) \/ Regroup(p, q) PROVE FALSE
    BY <2>3 DEF Fork, Regroup, Running, Living
  <2> QED BY <1>1, <1>3, <2>1, <2>2, <2>3, IntrudeTables DEF Kernel
<1>4. CASE SameShape
  BY <1>4 DEF SameShape, Living, LivingDescendants, Descendant
<1> QED BY <1>2, <1>3, <1>4, Reapers, OsSteps

\* Families end at the shim.
LEMMA ShimHasChild ==
  ASSUME TypeOK, KernelInv, Living # {}
  PROVE  \E p \in Living : os[p].parent = Shim
<1>1. PICK p \in Living : os[p].parent \notin Living
  BY DEF KernelInv, FamilyEnds
<1>2. os[p].parent \notin Pids
  BY <1>1 DEF KernelInv, ParentLives, Living, LivingDescendants, Exists
<1>3. os[p].parent \in Pids \cup {Shim, Outside} /\ os[p].parent # Outside
  BY <1>1 DEF TypeOK, Process, Living, LivingDescendants, Descendant
<1> QED BY <1>1, <1>2, <1>3

Held == Living = {} \/ \E c \in Living : Recorded(c) \/ Awaited(c)

\* The kernel cannot take a recorded or awaited descendant away unseen.
LEMMA KernelHolds ==
  ASSUME TypeOK, KernelInv, Kernel, pc \in Scans, ~scan'.exits, Held
  PROVE  Held'
<1>1. TablesInv
  BY DEF KernelInv, TablesInv
<1>2. UNCHANGED <<pc, processes>>
  BY KernelPhases DEF phases
<1>3. CASE Living = {}
  BY <1>3, NoneReborn DEF Held, Next
<1>4. ASSUME NEW c \in Living, Recorded(c) \/ Awaited(c), c \in Living',
             os'[c].born = os[c].born, os'[c].parent = os[c].parent,
             scan'.at = scan.at, scan'.kids = scan.kids, scan'.visited = scan.visited
      PROVE  Held'
  BY <1>2, <1>4 DEF Held, Recorded, Awaited
<1>5. CASE \E c \in Living : Recorded(c) \/ Awaited(c)
  <2>1. PICK c \in Living : Recorded(c) \/ Awaited(c)
    BY <1>5
  <2>2. c \in Pids /\ os[c].life = "live" /\ Descendant(c)
    BY DEF Living, LivingDescendants
  <2>3. ASSUME NEW p \in Pids, NEW q \in Pids, Fork(p, q) PROVE Held'
    <3>1. c \in Living' /\ c # q /\ scan' = scan
      BY <1>1, <2>3, ForkTables DEF Fork
    <3>2. os'[c] = os[c]
      BY <2>2, <2>3, <3>1 DEF Fork, TypeOK
    <3> QED BY <1>4, <2>1, <3>1, <3>2
  <2>4. ASSUME NEW p \in Pids, NEW q \in Pids, Regroup(p, q) PROVE Held'
    <3>1. scan' = scan
      BY <2>4 DEF Regroup
    <3> QED BY <1>1, <1>4, <2>1, <2>2, <2>4, <3>1, RegroupTables
  <2>5. ASSUME NEW p \in Pids, Exit(p) PROVE Held'
    <3>1. ~Descendant(p) /\ p # c /\ os[c].parent # p
      <4>1. ~Descendant(p)
        BY <2>5 DEF Exit, Scans, TypeOK, ScanState
      <4> QED BY <1>1, <2>2, <4>1 DEF TablesInv, ParentLives, Exists
    <3>2. scan'.at = scan.at /\ scan'.kids = scan.kids /\ scan'.visited = scan.visited
      BY <2>5 DEF Exit, TypeOK, ScanState
    <3> QED BY <1>1, <1>4, <2>1, <2>2, <2>5, <3>1, <3>2, ExitTables
  <2>6. ASSUME NEW p \in Pids, ParentReaps(p) PROVE Held'
    <3>1. p # c /\ os'[c] = os[c] /\ scan' = scan
      BY <2>2, <2>6 DEF ParentReaps, TypeOK
    <3>2. c \in Living'
      BY <2>2, <3>1 DEF Living, LivingDescendants, Descendant
    <3> QED BY <1>4, <2>1, <3>1, <3>2
  <2>7. ASSUME NEW q \in Pids, Intrude(q) PROVE Held'
    <3>1. scan' = scan
      BY <2>7 DEF Intrude
    <3> QED BY <1>1, <1>4, <2>1, <2>2, <2>7, <3>1, IntrudeTables
  <2> QED BY <2>3, <2>4, <2>5, <2>6, <2>7 DEF Kernel
<1> QED BY <1>3, <1>5 DEF Held

\* What was just read of a living process is a record that stands.
LEMMA ReadStands ==
  ASSUME NEW c, os[c].life = "live", UNCHANGED os, processes'[c] = Read(c)
  PROVE  Recorded(c)'
<1>1. Read(c).born = os[c].born /\ ~Read(c).exited
  BY Zenon DEF Read
<1> QED BY <1>1 DEF Recorded

\* Neither can a read of the tables: what it forgets is not a living process.
LEMMA VisitHolds ==
  ASSUME TypeOK, scan.queue # <<>>, NEW e \in Head(scan.queue), Visit(e), Held
  PROVE  Held' /\ ~AtShim'
<1>1. e \in Identity /\ e.pid \in Pids
  BY TypeVisit DEF Identity
<1>2. UNCHANGED os /\ pc = "pop"
  BY DEF Visit, ScanVars, kernelVars
<1>3. ~AtShim'
  <2>1. e # ShimIdent
    BY <1>1, PidAssumption DEF ShimIdent
  <2> QED BY <2>1 DEF AtShim, Visit, TypeOK, ScanState
<1>4. Living' = Living
  BY <1>2 DEF Living, LivingDescendants, Descendant
<1>5. ASSUME NEW c \in Living, Recorded(c) PROVE Recorded(c)'
  <2>1. c \in Pids /\ os[c].life = "live"
    BY DEF Living, LivingDescendants
  <2>2. CASE processes'[c] = processes[c]
    BY <1>2, <1>5, <2>2 DEF Recorded
  <2>3. CASE processes'[c] # processes[c]
    <3>1. c = e.pid
      BY <1>1, <2>1, <2>3 DEF Visit, TypeOK
    <3>2. Same(e)
      BY <1>5, <2>1, <2>3, <3>1 DEF Visit, Recorded, Same, Exists
    <3>3. processes'[c] = Read(c)
      BY <2>1, <2>3, <3>1, <3>2 DEF Visit, TypeOK
    <3> QED BY <1>2, <2>1, <3>3, ReadStands
  <2> QED BY <2>2, <2>3
<1> QED BY <1>2, <1>3, <1>4, <1>5 DEF Held, Awaited

LEMMA KidHolds ==
  ASSUME TypeOK, KernelInv, NEW q \in Pids, Kid(q), ~uncertain', Held
  PROVE  Held' /\ ~AtShim'
<1>1. UNCHANGED os /\ pc = "kids" /\ ~AtShim'
  BY DEF Kid, kernelVars, NextKid, AtShim
<1>2. Living' = Living
  BY <1>1 DEF Living, LivingDescendants, Descendant
<1>3. ASSUME NEW c \in Living, Recorded(c) PROVE Recorded(c)'
  <2>1. c \in Pids /\ os[c].life = "live"
    BY DEF Living, LivingDescendants
  <2>2. processes'[c] = processes[c] \/ processes'[c] = Read(c)
    BY <2>1 DEF Kid, TypeOK
  <2>3. CASE processes'[c] = processes[c]
    BY <1>1, <1>3, <2>3 DEF Recorded
  <2> QED BY <1>1, <2>1, <2>2, <2>3, ReadStands
<1>4. ASSUME NEW c \in Living, Awaited(c) PROVE Recorded(c)' \/ Awaited(c)'
  <2>1. c \in Pids /\ os[c].life = "live" /\ os[c].born # 0
    BY DEF Living, LivingDescendants, KernelInv, Exists
  <2>2. CASE c = q
    <3>1. Childhood(q) /\ scan.visited[q] # os[q].born
      BY <1>4, <2>1, <2>2 DEF Awaited, Childhood, Exists, ShimIdent
    <3>2. processes' = [processes EXCEPT ![q] = Read(q)]
      BY <3>1 DEF Kid
    <3>3. processes'[c] = Read(c)
      BY <2>2, <3>2 DEF TypeOK
    <3> QED BY <1>1, <2>1, <3>3, ReadStands
  <2>3. CASE c # q
    <3>1. PICK found : NextKid(scan.kids \ {q}, found)
      BY DEF Kid
    <3>2. c \in scan.kids \ {q}
      BY <1>4, <2>3 DEF Awaited
    <3>3. scan' = [scan EXCEPT !.kids = scan.kids \ {q}, !.batch = found] /\ UNCHANGED pc
      BY <3>1, <3>2 DEF NextKid
    <3> QED BY <1>1, <1>4, <3>2, <3>3 DEF Awaited, TypeOK, ScanState
  <2> QED BY <2>2, <2>3
<1> QED BY <1>1, <1>2, <1>3, <1>4 DEF Held

LEMMA ChildrenHold ==
  ASSUME TypeOK, KernelInv, ScanInv, Children, AtShim \/ Held
  PROVE  Held' /\ ~AtShim'
<1>1. UNCHANGED <<os, processes>> /\ scan'.at = scan.at /\ scan'.visited = scan.visited
      /\ pc = "children" /\ pc' # "children"
  BY DEF Children, ScanVars, kernelVars, TypeOK, ScanState
<1>2. Living' = Living /\ ~AtShim'
  BY <1>1 DEF Living, LivingDescendants, Descendant, AtShim
<1>3. CASE AtShim
  <2>1. scan.at = ShimIdent /\ scan.at.pid = Shim
    BY <1>3 DEF AtShim, ShimIdent
  <2>2. CASE Living # {}
    <3>1. PICK c \in Living : os[c].parent = Shim
      BY <2>2, ShimHasChild
    <3>2. c \in {q \in Pids : Childhood(q)}
      BY <2>1, <3>1 DEF Living, LivingDescendants, Childhood, Exists
    <3>3. pc' = "kids" /\ c \in scan'.kids
      BY <2>1, <3>2 DEF Children, TypeOK, ScanState
    <3>4. scan.visited[c] = 0
      BY <1>3, <3>2 DEF ScanInv
    <3> QED BY <1>1, <1>2, <2>1, <3>1, <3>3, <3>4 DEF Held, Awaited
  <2> QED BY <1>2, <2>2 DEF Held
<1>4. CASE ~AtShim
  BY <1>1, <1>2, <1>4 DEF Held, Recorded, Awaited
<1> QED BY <1>3, <1>4

LEMMA NewScanAtShim == \A p \in Pids : NewScan.visited[p] = 0
BY PidAssumption DEF NewScan, NoScan

LEMMA ScanInit == Init => ScanInv
BY DEF Init, ScanInv, AtShim, Scans

LEMMA ScanNext ==
  TypeOK /\ TypeOK' /\ KernelInv /\ ScanInv /\ [Next]_vars => ScanInv'
<1> SUFFICES ASSUME TypeOK, TypeOK', KernelInv, ScanInv, [Next]_vars PROVE ScanInv'
  OBVIOUS
<1>1. CASE UNCHANGED <<os, pc, scan, processes>> /\ (uncertain => uncertain')
  BY <1>1 DEF ScanInv, AtShim, Living, LivingDescendants, Descendant, Recorded, Awaited
<1>2. CASE pc' \notin Scans
  BY <1>2 DEF ScanInv, AtShim, Scans
<1>3. CASE pc' = "children" /\ scan' = NewScan
  BY <1>3, NewScanAtShim DEF ScanInv, AtShim, NewScan, NoScan
<1>4. CASE Kernel
  <2>1. UNCHANGED <<pc, processes, uncertain>>
    BY <1>4, KernelPhases DEF phases
  <2>2. /\ scan'.at = scan.at /\ scan'.visited = scan.visited /\ scan'.incomplete = scan.incomplete
        /\ ~scan'.exits => ~scan.exits
    BY <1>4 DEF Kernel, Fork, Regroup, Exit, ParentReaps, Intrude, TypeOK, ScanState
  <2>3. AtShim' <=> AtShim
    BY <2>1, <2>2 DEF AtShim
  <2>4. ASSUME pc \in Scans, ~scan'.exits, ~scan.incomplete, ~uncertain, ~AtShim PROVE Held'
    BY <1>4, <2>2, <2>4, KernelHolds DEF ScanInv, Held
  <2> QED BY <2>1, <2>2, <2>3, <2>4 DEF ScanInv, Held
<1>5. CASE Scanning
  <2>1. CASE ReadFails
    <3>1. scan'.incomplete /\ pc' # "children"
      BY <2>1 DEF ReadFails, TypeOK, ScanState
    <3> QED BY <3>1 DEF ScanInv, AtShim
  <2>2. CASE Settle
    BY <1>2, <2>2 DEF Settle, Scans
  <2>3. ASSUME scan'.exits = scan.exits, scan'.incomplete = scan.incomplete, pc \in Scans,
               uncertain => uncertain',
               ~scan.exits /\ ~scan.incomplete /\ ~uncertain' /\ (AtShim \/ Held) => Held',
               ~AtShim'
        PROVE  ScanInv'
    BY <2>3 DEF ScanInv, Held
  <2>4. ASSUME scan.queue # <<>>, NEW e \in Head(scan.queue), Visit(e) PROVE ScanInv'
    <3>1. /\ scan'.exits = scan.exits /\ scan'.incomplete = scan.incomplete
          /\ pc = "pop" /\ UNCHANGED uncertain
      BY <2>4 DEF Visit, ScanVars, cleanupVars, TypeOK, ScanState
    <3>2. ~AtShim' /\ (Held => Held')
      <4>1. ~AtShim'
        <5>1. e # ShimIdent
          BY <2>4, TypeVisit, PidAssumption DEF ShimIdent, Identity
        <5> QED BY <2>4, <5>1 DEF AtShim, Visit, TypeOK, ScanState
      <4> QED BY <2>4, <4>1, VisitHolds
    <3> QED BY <2>3, <3>1, <3>2 DEF AtShim, Scans
  <2>5. ASSUME NEW q \in Pids, Kid(q) PROVE ScanInv'
    <3>1. /\ scan'.exits = scan.exits /\ scan'.incomplete = scan.incomplete /\ pc = "kids"
      <4>1. PICK left, found : NextKid(left, found)
        BY <2>5 DEF Kid
      <4> QED BY <2>5, <4>1 DEF Kid, NextKid, TypeOK, ScanState
    <3>2. (uncertain => uncertain') /\ pc' # "children"
      BY <2>5 DEF Kid, NextKid
    <3> QED BY <2>3, <2>5, <3>1, <3>2, KidHolds DEF AtShim, Scans
  <2>6. CASE Children
    <3>1. /\ scan'.exits = scan.exits /\ scan'.incomplete = scan.incomplete
          /\ pc = "children" /\ UNCHANGED uncertain /\ pc' # "children"
      BY <2>6 DEF Children, ScanVars, cleanupVars, TypeOK, ScanState
    <3> QED BY <2>3, <2>6, <3>1, ChildrenHold DEF AtShim, Scans
  <2>7. CASE Recheck
    <3>1. /\ scan'.exits = scan.exits /\ scan'.incomplete = scan.incomplete
          /\ pc = "recheck" /\ pc' # "children" /\ UNCHANGED <<os, processes, uncertain>>
      BY <2>7 DEF Recheck, ScanVars, cleanupVars, kernelVars, TypeOK, ScanState
    <3>2. Held => Held'
      BY <3>1 DEF Held, Recorded, Awaited, Living, LivingDescendants, Descendant
    <3> QED BY <2>3, <3>1, <3>2 DEF AtShim, Scans
  <2> QED BY <1>5, <2>1, <2>2, <2>4, <2>5, <2>6, <2>7 DEF Scanning
<1>6. CASE Advancing
  BY <1>2, <1>3, <1>6 DEF Advancing, Scanned, GroupsDone, Judge, GroupStep, MemberStep,
                          CheckFails, Scans
<1>7. CASE Ending
  BY <1>2, <1>7 DEF Ending, Finish, ReapExpired, ReapRoot, KillRoot, LastKill, Scans
<1>8. CASE StartScan
  BY <1>3, <1>8 DEF StartScan
<1>9. CASE ChildExited \/ Stop \/ Deadline \/ Ended \/ UNCHANGED vars
  BY <1>1, <1>9 DEF ChildExited, Stop, Deadline, Ended, vars, kernelVars, inventory, cleanupVars
<1> QED BY <1>4, <1>5, <1>6, <1>7, <1>8, <1>9 DEF Next

\* The scan ends: without an exit or a failing read, nothing found means
\* nobody there.
LEMMA SettleTruth ==
  ASSUME TypeOK, KernelInv, ScanInv, Settle, ~scan.exits, misses' = 0, ~uncertain', LiveRecords' = {}
  PROVE  Living' = {} /\ Living = {}
<1>1. ~scan.incomplete /\ ~uncertain
  BY DEF Settle, Missed, TypeOK
<1>2. Living = {}
  <2> SUFFICES ASSUME NEW c \in Living, Recorded(c) PROVE FALSE
    BY <1>1 DEF ScanInv, Settle, Scans, AtShim, Awaited
  <2>1. c \in Pids /\ processes[c].born # 0 /\ ~processes[c].exited
    BY DEF Living, LivingDescendants, KernelInv, Exists, Recorded
  <2>2. processes'[c] = processes[c]
    BY <2>1 DEF Settle, Adopted
  <2> QED BY <2>1, <2>2 DEF LiveRecords, Tracked
<1>3. [Next]_vars
  BY DEF Next, Scanning
<1> QED BY <1>2, <1>3, NoneReborn

LEMMA EmptyScanNext ==
  TypeOK /\ KernelInv /\ ScanInv /\ EmptyScanIsTrue /\ [Next]_vars => EmptyScanIsTrue'
<1> SUFFICES ASSUME TypeOK, KernelInv, ScanInv, EmptyScanIsTrue, [Next]_vars,
                    pc' = "scanned", ~scan'.exits, misses' = 0, ~uncertain', LiveRecords' = {}
             PROVE  Living' = {}
  BY DEF EmptyScanIsTrue, Living
<1>1. CASE Settle
  BY <1>1, SettleTruth DEF Settle, NoScan
<1>2. CASE /\ UNCHANGED <<pc, misses, uncertain, processes>> /\ (~scan'.exits => ~scan.exits)
  <2>1. Living = {}
    BY <1>2 DEF EmptyScanIsTrue, LiveRecords, Tracked, Living
  <2> QED BY <2>1, NoneReborn
<1>3. CASE Kernel
  <2>1. ~scan'.exits => ~scan.exits
    BY <1>3 DEF Kernel, Fork, Regroup, Exit, ParentReaps, Intrude, TypeOK, ScanState
  <2> QED BY <1>2, <1>3, <2>1, KernelPhases DEF phases
<1>4. CASE Scanning /\ ~Settle
  BY <1>4, ReadPhases DEF Scans
<1>5. CASE Advancing
  BY <1>5 DEF Advancing, Scanned, GroupsDone, Judge, GroupStep, MemberStep, CheckFails
<1>6. CASE Ending
  BY <1>6 DEF Ending, Finish, ReapExpired, ReapRoot, KillRoot, LastKill
<1>7. CASE Deadline \/ Ended \/ UNCHANGED vars
  BY <1>2, <1>7 DEF Deadline, Ended, vars, inventory, cleanupVars
<1> QED BY <1>1, <1>3, <1>4, <1>5, <1>6, <1>7 DEF Next, StartScan, ChildExited, Stop

-----------------------------------------------------------------------------
(* How a survivor slips through.                                           *)

\* What the cases of SlipInv depend on, besides the living.
slipping == <<pc, processes, cleaning, late, misses, empties, final, verdict, dirty>>

LEMMA SlipCalm ==
  ASSUME TypeOK, KernelInv, SlipInv, [Next]_vars, uncertain => uncertain', UNCHANGED slipping
  PROVE  SlipInv'
<1>1. FoundNothing' <=> FoundNothing
  BY DEF slipping, FoundNothing, LiveRecords, Tracked
<1>2. \A n : Disturbed(n) => Disturbed(n)'
  <2> SUFFICES ASSUME NEW n, Disturbed(n) PROVE Disturbed(n)'
    OBVIOUS
  <2> QED BY NoneReborn DEF Disturbed, slipping
<1> QED BY <1>1, <1>2 DEF SlipInv, slipping, Disturbed

LEMMA SlipInit == Init => SlipInv
BY DEF Init, SlipInv, Disturbed, Scans, Advances

\* A scan that finds nothing beside a living descendant had an exit.
LEMMA SlipSettle ==
  TypeOK /\ KernelInv /\ FlowInv /\ ScanInv /\ SlipInv /\ Settle => SlipInv'
<1> SUFFICES ASSUME TypeOK, KernelInv, FlowInv, ScanInv, SlipInv, Settle PROVE SlipInv'
  OBVIOUS
<1>1. [Next]_vars /\ pc = "pop"
  BY DEF Next, Scanning, Settle
<1>2. /\ uncertain => uncertain'
      /\ UNCHANGED <<cleaning, late, empties, final, verdict>>
      /\ pc' = IF final THEN "finish" ELSE "scanned"
      /\ dirty' = IF ~scan.exits \/ ~cleaning THEN 0 ELSE IF dirty < 3 THEN dirty + 1 ELSE 3
  BY DEF Settle, endVars
<1>3. ASSUME FoundNothing', ~uncertain', Living' # {}, cleaning
      PROVE  Living # {} /\ ~uncertain /\ dirty' = IF dirty < 3 THEN dirty + 1 ELSE 3
  BY <1>1, <1>2, <1>3, SettleTruth, NoneReborn DEF FoundNothing
<1>4. dirty \in 0..3 /\ empties \in 0..2
  BY DEF TypeOK
<1>5. CASE ~final
  <2>1. ASSUME FoundNothing', ~uncertain', Living' # {}, cleaning PROVE dirty' >= empties + 1
    <3>1. dirty >= empties
      BY <1>1, <1>3, <1>5, <2>1 DEF SlipInv, Disturbed, Scans
    <3> QED BY <1>3, <1>4, <2>1, <3>1
  <2> QED BY <1>2, <1>5, <2>1 DEF SlipInv, Disturbed, Scans, Advances
<1>6. CASE final
  <2>1. ASSUME FoundNothing', ~uncertain', Living' # {}, verdict = "confirmed"
        PROVE  dirty' >= IF late THEN 2 ELSE 3
    <3>1. dirty >= IF late THEN 1 ELSE 2
      BY <1>1, <1>3, <1>6, <2>1 DEF SlipInv, Disturbed, Scans, FlowInv
    <3> QED BY <1>3, <1>4, <1>6, <2>1, <3>1 DEF FlowInv
  <2> QED BY <1>2, <1>6, <2>1 DEF SlipInv, Disturbed, Scans, Advances
<1> QED BY <1>5, <1>6

\* Two such scans end the cleanup, or one when time is up.
LEMMA SlipJudge ==
  TypeOK /\ KernelInv /\ FlowInv /\ SlipInv /\ Judge => SlipInv'
<1> SUFFICES ASSUME TypeOK, KernelInv, FlowInv, SlipInv, Judge PROVE SlipInv'
  OBVIOUS
<1>1. [Next]_vars
  BY DEF Next, Advancing
<1>2. /\ pc = "members" /\ cleaning /\ live = LiveRecords /\ (force => late) /\ ~final
      /\ UNCHANGED <<os, cleaning, late, misses, dirty>>
      /\ (uncertain => uncertain') /\ empties \in 0..2 /\ dirty \in 0..3 /\ misses \in Nat
  BY DEF Judge, FlowInv, Advances, kernelVars, history, TypeOK
<1>3. Living' = Living
  BY <1>2 DEF Living, LivingDescendants, Descendant
<1>4. FoundNothing <=> live = {} /\ ~(misses > 0)
  BY <1>2 DEF FoundNothing
<1>5. empties' = IF ~FoundNothing THEN 0 ELSE IF empties < 2 THEN empties + 1 ELSE 2
  BY <1>4 DEF Judge
<1>6. ASSUME FoundNothing, ~uncertain', Living' # {} PROVE dirty' >= empties + 1
  BY <1>2, <1>3, <1>6 DEF SlipInv, Disturbed, Advances
<1>7. CASE pc' = "rest" /\ UNCHANGED <<verdict, final, scan>>
  <2>1. ~uncertain' /\ Living' # {} => dirty' >= empties'
    BY <1>2, <1>5, <1>6
  <2> QED BY <1>2, <1>7, <2>1 DEF SlipInv, Disturbed, Scans, Advances
<1>8. CASE /\ (empties' = 2 /\ outcome) \/ force
           /\ verdict' = IF live = {} /\ ~uncertain' /\ outcome THEN "confirmed" ELSE "unconfirmed"
           /\ final' = TRUE /\ pc' = "children"
  <2>1. ASSUME verdict' = "confirmed" PROVE FoundNothing /\ ~uncertain'
    <3>1. live = {} /\ ~uncertain'
      BY <1>8, <2>1
    <3>2. CASE force
      BY <1>4, <3>1, <3>2 DEF Judge
    <3>3. CASE empties' = 2
      BY <1>5, <3>1, <3>3
    <3> QED BY <1>8, <3>1, <3>2, <3>3
  <2>2. ASSUME verdict' = "confirmed", Living' # {} PROVE dirty' >= IF late' THEN 1 ELSE 2
    <3>1. dirty' >= empties + 1
      BY <1>6, <2>1, <2>2
    <3>2. CASE force
      BY <1>2, <3>1, <3>2
    <3>3. CASE empties' = 2
      BY <1>2, <1>5, <3>1, <3>3
    <3> QED BY <1>8, <3>2, <3>3
  <2> QED BY <1>2, <1>8, <2>2 DEF SlipInv, Disturbed, Scans, Advances
<1> QED BY <1>7, <1>8 DEF Judge

LEMMA SlipEnding ==
  TypeOK /\ KernelInv /\ FlowInv /\ SlipInv /\ Ending => SlipInv'
<1> SUFFICES ASSUME TypeOK, KernelInv, FlowInv, SlipInv, Ending PROVE SlipInv'
  OBVIOUS
<1> USE DEF Scans, Advances
<1>1. [Next]_vars
  BY DEF Next
<1>2. CASE Finish
  <2>1. /\ pc = "finish" /\ pc' = "last" /\ UNCHANGED <<os, late, dirty, misses>>
        /\ uncertain' = (uncertain \/ LiveRecords # {})
        /\ verdict' = IF uncertain' \/ misses > 0 THEN "unconfirmed" ELSE verdict
        /\ misses \in Nat
    BY <1>2 DEF Finish, kernelVars, history, TypeOK
  <2>2. Living' = Living
    BY <2>1 DEF Living, LivingDescendants, Descendant
  <2>3. ASSUME verdict' = "confirmed", Living' # {} PROVE dirty' >= IF late' THEN 2 ELSE 3
    <3>1. verdict = "confirmed" /\ ~uncertain' /\ misses = 0
      BY <2>1, <2>3
    <3>2. LiveRecords = {} /\ ~uncertain
      BY Zenon, <2>1, <3>1
    <3> QED BY <2>1, <2>2, <2>3, <3>1, <3>2 DEF SlipInv, Disturbed, FoundNothing
  <2> QED BY <2>1, <2>3 DEF SlipInv, Disturbed
<1>3. CASE ReapExpired
  BY <1>3 DEF ReapExpired, SlipInv
<1>4. CASE /\ pc \in {"last", "reap", "done"} /\ pc' \in {"last", "reap", "done"}
           /\ UNCHANGED <<uncertain, verdict, late, dirty>>
  BY <1>1, <1>4, NoneReborn DEF SlipInv, Disturbed
<1>5. ASSUME NEW p \in Pids, LastKill(p) PROVE SlipInv'
  BY <1>4, <1>5 DEF LastKill, cleanupVars, endVars
<1>6. CASE KillRoot \/ ReapRoot
  BY <1>4, <1>6 DEF KillRoot, ReapRoot, cleanupVars, endVars, history
<1> QED BY <1>2, <1>3, <1>5, <1>6 DEF Ending

LEMMA SlipNext ==
  TypeOK /\ KernelInv /\ FlowInv /\ ScanInv /\ SlipInv /\ [Next]_vars => SlipInv'
<1> SUFFICES ASSUME TypeOK, KernelInv, FlowInv, ScanInv, SlipInv, [Next]_vars PROVE SlipInv'
  OBVIOUS
<1> USE DEF Scans, Advances
<1>1. CASE Kernel
  BY <1>1, KernelPhases, SlipCalm DEF phases, slipping
<1>2. CASE UNCHANGED vars \/ Ended
  BY <1>2, SlipCalm DEF Ended, vars, slipping, inventory, cleanupVars, endVars, history
<1>3. ASSUME uncertain => uncertain', UNCHANGED <<empties, late, dirty, cleaning, final, verdict>>,
             pc \in {"rest"} \cup Scans, pc' \in Scans
      PROVE  SlipInv'
  BY <1>3, NoneReborn DEF SlipInv, Disturbed, FlowInv
<1>4. CASE StartScan
  BY <1>3, <1>4 DEF StartScan, cleanupVars, endVars, history
<1>5. CASE Scanning /\ ~Settle
  BY <1>3, <1>5, ReadPhases
<1>6. CASE Scanned
  <2>1. /\ pc = "scanned" /\ UNCHANGED <<os, late, dirty, uncertain, misses, empties, processes, final,
                                         verdict>>
        /\ cleaning' = (cleaning \/ uncertain) /\ pc' = IF cleaning' THEN "groups" ELSE "rest"
    BY <1>6 DEF Scanned, kernelVars, inventory, endVars, history
  <2>2. Living' = Living /\ (FoundNothing' <=> FoundNothing)
    BY <2>1 DEF Living, LivingDescendants, Descendant, FoundNothing, LiveRecords, Tracked
  <2>3. CASE cleaning'
    BY <2>1, <2>2, <2>3 DEF SlipInv, Disturbed
  <2>4. CASE ~cleaning'
    <3>1. empties' = 0 /\ dirty' >= 0
      BY <2>1, <2>4 DEF FlowInv, TypeOK
    <3> QED BY <2>1, <2>4, <3>1 DEF SlipInv, Disturbed
  <2> QED BY <2>3, <2>4
<1>7. ASSUME uncertain => uncertain', UNCHANGED <<processes, empties, late, dirty, misses, cleaning, final, verdict>>,
             pc \in Advances, pc' \in Advances
      PROVE  SlipInv'
  <2>1. FoundNothing' <=> FoundNothing
    BY <1>7 DEF FoundNothing, LiveRecords, Tracked
  <2> QED BY <1>7, <2>1, NoneReborn DEF SlipInv, Disturbed
<1>8. ASSUME NEW p \in Pids, GroupStep(p) \/ MemberStep(p) \/ CheckFails(p) PROVE SlipInv'
  BY <1>7, <1>8 DEF GroupStep, MemberStep, CheckFails, inventory, endVars, history
<1>9. CASE GroupsDone
  BY <1>7, <1>9 DEF GroupsDone, cleanupVars, LoopVars, inventory, endVars, history
<1>10. ASSUME uncertain => uncertain', UNCHANGED <<pc, late, empties, dirty, final>>, pc = "rest"
       PROVE  SlipInv'
  BY <1>10, NoneReborn DEF SlipInv, Disturbed, FlowInv
<1>11. CASE ChildExited \/ Stop
  BY <1>10, <1>11 DEF ChildExited, Stop, endVars, history
<1>12. CASE Deadline
  <2>1. /\ UNCHANGED <<os, pc, processes, cleaning, uncertain, misses, empties, final, verdict, dirty>>
        /\ late' = TRUE
    BY <1>12 DEF Deadline, kernelVars, inventory, endVars, history
  <2>2. Living' = Living /\ (FoundNothing' <=> FoundNothing) /\ dirty \in 0..3
    BY <2>1 DEF Living, LivingDescendants, Descendant, FoundNothing, LiveRecords, Tracked, TypeOK
  <2> QED BY <2>1, <2>2 DEF SlipInv, Disturbed
<1> QED BY <1>1, <1>2, <1>4, <1>5, <1>6, <1>8, <1>9, <1>11, <1>12, SlipSettle, SlipJudge, SlipEnding
        DEF Next, Scanning, Advancing

-----------------------------------------------------------------------------
(* Who is killed without notice.                                           *)

AllWarned == GroupsWarned /\ MembersWarned

\* A new incarnation of a pid is nobody the tracker has dealt with.
LEMMA NewcomerUnknown ==
  ASSUME TypeOK, KnownInv, NEW q \in Pids
  PROVE  /\ processes[q].born # os[q].born + 1 /\ groups[q].born # os[q].born + 1
         /\ members[q].born # os[q].born + 1
<1>1. /\ os[q].born \in Nat /\ processes[q].born \in Nat /\ groups[q].born \in Nat
      /\ members[q].born \in Nat
  BY DEF TypeOK, Process, Record
<1> QED BY <1>1 DEF KnownInv, Known

\* Nobody loses the notice it got while it lives and stays where it is.
LEMMA WarnedStays ==
  ASSUME AllWarned, UNCHANGED <<processes, groups, members>>,
         \A y \in Pids : /\ os'[y].born = os[y].born
                         /\ os'[y].life = "live" =>
                              /\ os[y].life = "live" /\ os'[y].group = os[y].group
                              /\ os[y].warned => os'[y].warned
  PROVE  AllWarned'
<1>1. \A p \in Pids : Told(p)' <=> Told(p)
  BY DEF Told
<1>2. \A q \in Pids : /\ StillRuns(q)' => StillRuns(q)
                      /\ Warned(q) => Warned(q)'
  BY DEF StillRuns, Warned
<1>3. GroupsWarned'
  <2> SUFFICES ASSUME NEW p \in Pids, NEW q \in Pids, Told(p)'
               PROVE  /\ os'[q].group = p \/ q = p => Warned(q)'
                      /\ StillRuns(q)' /\ processes'[q].group = p /\ ~processes'[q].exited => Warned(q)'
    BY DEF GroupsWarned
  <2>1. ASSUME os'[q].group = p \/ q = p PROVE Warned(q)'
    BY <1>1, <1>2, <2>1 DEF AllWarned, GroupsWarned, Warned
  <2>2. ASSUME StillRuns(q)', processes'[q].group = p, ~processes'[q].exited PROVE Warned(q)'
    BY <1>1, <1>2, <2>2 DEF AllWarned, GroupsWarned
  <2> QED BY <2>1, <2>2
<1>4. MembersWarned'
  BY <1>2 DEF AllWarned, MembersWarned
<1> QED BY <1>3, <1>4 DEF AllWarned

\* A newcomer either has the notice of the process it comes from, or is
\* alone in its group.
LEMMA NewcomerWarned ==
  ASSUME TypeOK, KnownInv, AllWarned, UNCHANGED <<processes, groups, members>>,
         NEW q \in Pids, os'[q].born = os[q].born + 1, \A x \in Pids \ {q} : os'[x] = os[x],
         \/ os'[q].group = q
         \/ \E p \in Pids : /\ os[p].life = "live" /\ os[p].group = os'[q].group
                            /\ os[p].warned => os'[q].warned
  PROVE  AllWarned'
<1>1. \A p \in Pids : Told(p)' => p # q /\ Told(p)
  BY NewcomerUnknown DEF Told
<1>2. ~StillRuns(q)' /\ \A x \in Pids \ {q} : (StillRuns(x)' => StillRuns(x)) /\ (Warned(x) => Warned(x)')
  BY NewcomerUnknown DEF StillRuns, Warned
<1>3. GroupsWarned'
  <2> SUFFICES ASSUME NEW p \in Pids, NEW y \in Pids, Told(p)'
               PROVE  /\ os'[y].group = p \/ y = p => Warned(y)'
                      /\ StillRuns(y)' /\ processes'[y].group = p /\ ~processes'[y].exited => Warned(y)'
    BY DEF GroupsWarned
  <2>1. CASE y = q
    <3>1. p # q /\ Told(p) /\ ~StillRuns(y)'
      BY <1>1, <1>2, <2>1
    <3>2. ASSUME os'[q].group = p PROVE Warned(q)'
      <4>1. PICK x \in Pids : /\ os[x].life = "live" /\ os[x].group = p
                              /\ os[x].warned => os'[q].warned
        BY <3>1, <3>2
      <4> QED BY <3>1, <4>1 DEF AllWarned, GroupsWarned, Warned
    <3> QED BY <2>1, <3>1, <3>2
  <2>2. CASE y # q
    <3>1. Told(p) /\ os'[y] = os[y] /\ (StillRuns(y)' => StillRuns(y)) /\ (Warned(y) => Warned(y)')
      BY <1>1, <1>2, <2>2
    <3> QED BY <3>1 DEF AllWarned, GroupsWarned
  <2> QED BY <2>1, <2>2
<1>4. MembersWarned'
  <2> SUFFICES ASSUME NEW y \in Pids, Late(members[y].stage), members[y].born = os'[y].born
               PROVE  Warned(y)'
    BY DEF MembersWarned
  <2>1. y # q
    BY NewcomerUnknown
  <2> QED BY <1>2, <2>1 DEF AllWarned, MembersWarned
<1> QED BY <1>3, <1>4 DEF AllWarned

\* A process takes the notice of a group it joins; a group of its own got
\* none but through it.
LEMMA RegroupWarned ==
  ASSUME TypeOK, KernelInv, AllWarned, NEW p \in Pids, NEW g \in Pids, Regroup(p, g)
  PROVE  AllWarned'
<1>1. TablesInv /\ UNCHANGED <<processes, groups, members>>
  BY DEF KernelInv, TablesInv, Regroup, inventory
<1>2. \A x \in Pids : (Told(x)' => Told(x)) /\ (StillRuns(x)' => StillRuns(x)) /\ (Warned(x) => Warned(x)')
  BY <1>1, RegroupTables DEF Told, StillRuns, Warned
<1>3. GroupsWarned'
  <2> SUFFICES ASSUME NEW x \in Pids, NEW y \in Pids, Told(x)'
               PROVE  /\ os'[y].group = x \/ y = x => Warned(y)'
                      /\ StillRuns(y)' /\ processes'[y].group = x /\ ~processes'[y].exited => Warned(y)'
    BY DEF GroupsWarned
  <2>1. Told(x)
    BY <1>2
  <2>2. ASSUME y = p, x = g PROVE Warned(y)'
    <3>1. CASE g = p
      BY <1>2, <2>1, <2>2, <3>1 DEF AllWarned, GroupsWarned
    <3>2. CASE g # p
      <4>1. PICK q \in LivingDescendants : os[q].group = g
        BY <3>2 DEF Regroup
      <4>2. q \in Pids /\ os[q].life = "live" /\ q \in Living
        BY DEF LivingDescendants, Living
      <4>3. os[q].warned
        BY <2>1, <2>2, <4>1, <4>2 DEF AllWarned, GroupsWarned, Warned
      <4> QED BY <1>1, <2>2, <4>1, <4>2, <4>3, RegroupTables DEF Warned
    <3> QED BY <3>1, <3>2
  <2>3. ASSUME os'[y].group = x \/ y = x PROVE Warned(y)'
    <3>1. CASE y = p
      <4>1. x = g \/ x = y
        BY <1>1, <2>3, <3>1, RegroupTables
      <4> QED BY <1>2, <2>1, <2>2, <3>1, <4>1 DEF AllWarned, GroupsWarned
    <3>2. CASE y # p
      BY <1>1, <1>2, <2>1, <2>3, <3>2, RegroupTables DEF AllWarned, GroupsWarned
    <3> QED BY <3>1, <3>2
  <2>4. ASSUME StillRuns(y)', processes'[y].group = x, ~processes'[y].exited PROVE Warned(y)'
    BY <1>1, <1>2, <2>1, <2>4 DEF AllWarned, GroupsWarned
  <2> QED BY <2>3, <2>4
<1>4. MembersWarned'
  BY <1>1, <1>2, RegroupTables DEF AllWarned, MembersWarned
<1> QED BY <1>3, <1>4 DEF AllWarned

LEMMA ReapWarned ==
  ASSUME TypeOK, AllWarned, UNCHANGED <<processes, groups, members>>, NEW F, Reaped(F)
  PROVE  AllWarned'
<1>1. \A y \in Pids : /\ os'[y].born = os[y].born
                      /\ os'[y].life = "live" => os'[y] = os[y]
  BY DEF Reaped, Free
<1> QED BY <1>1, WarnedStays

LEMMA KernelWarned ==
  ASSUME TypeOK, KernelInv, KnownInv, AllWarned, Kernel
  PROVE  AllWarned'
<1>1. TablesInv /\ UNCHANGED <<processes, groups, members>>
  BY DEF KernelInv, TablesInv, Kernel, Fork, Regroup, Exit, ParentReaps, Intrude, inventory
<1>2. ASSUME NEW p \in Pids, NEW q \in Pids, Fork(p, q) PROVE AllWarned'
  <2>1. /\ os'[q].born = os[q].born + 1 /\ os'[q].group = os[p].group
        /\ os'[q].warned = os[p].warned
        /\ \A x \in Pids \ {q} : os'[x] = os[x]
    BY <1>2 DEF Fork, TypeOK, Process
  <2>2. os[p].life = "live"
    BY <1>2 DEF Fork, Running, LivingDescendants
  <2> QED BY <1>1, <2>1, <2>2, NewcomerWarned
<1>3. ASSUME NEW p \in Pids, Exit(p) PROVE AllWarned'
  BY <1>1, <1>3, ExitTables, WarnedStays
<1>4. ASSUME NEW p \in Pids, ParentReaps(p) PROVE AllWarned'
  BY <1>1, <1>4, Reapers, ReapWarned
<1>5. ASSUME NEW q \in Pids, Intrude(q) PROVE AllWarned'
  BY <1>1, <1>5, IntrudeTables, NewcomerWarned
<1> QED BY <1>2, <1>3, <1>4, <1>5, RegroupWarned DEF Kernel

\* A record that was just read is of a process where it is.
LEMMA ReadWarned ==
  ASSUME TypeOK, KernelInv, AllWarned, UNCHANGED <<os, groups, members>>,
         \A p \in Pids : \/ processes'[p] = processes[p] \/ processes'[p] = Unseen
                         \/ Exists(p) /\ processes'[p] = Read(p)
  PROVE  AllWarned'
<1>1. \A x \in Pids : Told(x)' = Told(x) /\ Warned(x)' = Warned(x)
  BY DEF Told, Warned
<1>2. ASSUME NEW p \in Pids, NEW q \in Pids, Told(p), StillRuns(q)', processes'[q].group = p,
             ~processes'[q].exited
      PROVE  Warned(q)
  <2>1. os[q].life = "live" /\ os[q].born # 0 /\ processes'[q].born = os[q].born
    BY <1>2 DEF StillRuns, KernelInv, Exists
  <2>2. CASE processes'[q] = processes[q]
    BY <1>2, <2>1, <2>2 DEF AllWarned, GroupsWarned, StillRuns
  <2>3. CASE processes'[q] = Unseen
    BY <2>1, <2>3 DEF Unseen
  <2>4. CASE processes'[q] = Read(q)
    <3>1. os[q].group = p
      BY <1>2, <2>4 DEF Read
    <3> QED BY <1>2, <3>1 DEF AllWarned, GroupsWarned
  <2> QED BY <2>2, <2>3, <2>4
<1>3. GroupsWarned'
  BY <1>1, <1>2 DEF AllWarned, GroupsWarned
<1>4. MembersWarned'
  BY <1>1 DEF AllWarned, MembersWarned
<1> QED BY <1>3, <1>4 DEF AllWarned

\* A stage moves on by one signal at a time, unless the deadline cut it short.
LEMMA DueStages ==
  ASSUME TypeOK, NEW stage \in Stage, NEW next \in Due(stage), ~Shortened(stage)
  PROVE  /\ next.signal = "kill" => Late(stage)
         /\ Late(next.stage) => Late(stage) \/ next.signal = "term"
<1>1. CASE late
  BY <1>1 DEF Due, Shortened, Late
<1>2. CASE ~late
  BY <1>2 DEF Due, Following, Late, Stage
<1> QED BY <1>1, <1>2

\* SIGTERM reaches every member, and whoever the tracker took to have got it.
LEMMA TermWarns ==
  ASSUME TypeOK, NEW ps \in SUBSET Pids, NEW told \in SUBSET Pids, Deliver("term", ps, told)
  PROVE  \A q \in ps \cup told : Warned(q)'
<1> SUFFICES ASSUME NEW q \in ps \cup told, os[q].life = "live" PROVE os'[q].warned
  BY DeliverType DEF Warned
<1>1. os'[q] = [os[q] EXCEPT !.warned = TRUE]
  BY DEF Deliver
<1> QED BY <1>1 DEF TypeOK, Process

\* SIGKILL finds nobody unwarned where all of them are warned.
LEMMA KillSpares ==
  ASSUME NEW signal, NEW ps, NEW told, Deliver(signal, ps, told), hasty',
         signal = "kill" => \A q \in ps : Warned(q)
  PROVE  hasty
BY DEF Deliver, Warned

LEMMA GroupStepWarned ==
  ASSUME TypeOK, KernelInv, FlowInv, AllWarned, NEW p \in Pids, GroupStep(p), ~uncertain', ~uncertain
  PROVE  AllWarned' /\ (hasty' => hasty)
<1> DEFINE mates == {q \in live : processes[q].group = p}
           crowd == {q \in Pids : os[q].group = p}
           told == {q \in mates : StillRuns(q)}
<1>1. CASE UNCHANGED <<os, groups, members, covered, stranger, hasty>>
  <2>1. UNCHANGED processes
    BY DEF GroupStep
  <2> QED BY <1>1, <2>1, WarnedStays
<1>2. CASE LeaderStands(p) /\ \E next \in Due(groups[p].stage) :
         /\ Deliver(next.signal, crowd, told)
         /\ groups' = [groups EXCEPT ![p].stage = next.stage]
         /\ members' = [q \in Pids |-> IF q \in mates
                          THEN [born |-> processes[q].born, group |-> p, stage |-> next.stage]
                          ELSE members[q]]
         /\ uncertain' = (uncertain \/ Shortened(groups[p].stage))
  <2>1. PICK next \in Due(groups[p].stage) :
         /\ Deliver(next.signal, crowd, told)
         /\ groups' = [groups EXCEPT ![p].stage = next.stage]
         /\ members' = [q \in Pids |-> IF q \in mates
                          THEN [born |-> processes[q].born, group |-> p, stage |-> next.stage]
                          ELSE members[q]]
         /\ uncertain' = (uncertain \/ Shortened(groups[p].stage))
    BY <1>2
  <2>2. ~Shortened(groups[p].stage) /\ groups[p].stage \in Stage
    <3>1. ~Shortened(groups[p].stage)
      BY Zenon, <2>1
    <3> QED BY <3>1 DEF TypeOK
  <2>3. /\ next.signal = "kill" => Told(p)
        /\ Late(next.stage) => Told(p) \/ next.signal = "term"
    BY <1>2, <2>2, DueStages DEF Told, LeaderStands
  <2>4. UNCHANGED processes /\ live = LiveRecords
    BY DEF GroupStep, FlowInv, Advances
  <2>5. \A x \in Pids : /\ os'[x].life = os[x].life /\ os'[x].born = os[x].born
                        /\ os'[x].group = os[x].group /\ (Warned(x) => Warned(x)')
    <3>1. \A x \in Pids : /\ os'[x].life = os[x].life /\ os'[x].born = os[x].born
                          /\ os'[x].group = os[x].group /\ (os[x].warned => os'[x].warned)
      BY <2>1, DeliverType
    <3> QED BY <3>1 DEF Warned
  <2>6. \A x \in Pids : /\ groups'[x].born = groups[x].born
                        /\ groups'[x].stage = IF x = p THEN next.stage ELSE groups[x].stage
    BY <2>1 DEF TypeOK
  <2>7. ASSUME Late(next.stage)
        PROVE  \A q \in Pids : /\ os[q].group = p \/ q = p => Warned(q)'
                               /\ StillRuns(q) /\ processes[q].group = p /\ ~processes[q].exited => Warned(q)'
    <3>1. CASE Told(p)
      BY <2>5, <3>1 DEF AllWarned, GroupsWarned
    <3>2. CASE next.signal = "term"
      <4>1. \A q \in crowd \cup told : Warned(q)'
        <5>1. crowd \in SUBSET Pids /\ told \in SUBSET Pids
          BY DEF TypeOK
        <5> HIDE DEF crowd, told
        <5> QED BY <2>1, <3>2, <5>1, TermWarns
      <4>2. p \in crowd
        BY <1>2 DEF LeaderStands
      <4>3. \A q \in Pids : StillRuns(q) /\ processes[q].group = p /\ ~processes[q].exited => q \in told
        BY <2>4 DEF StillRuns, LiveRecords, Tracked, KernelInv, Exists
      <4> QED BY <4>1, <4>2, <4>3
    <3> QED BY <2>3, <2>7, <3>1, <3>2
  <2>8. \A x \in Pids : StillRuns(x)' => StillRuns(x)
    BY <2>4, <2>5 DEF StillRuns
  <2>9. GroupsWarned'
    <3> SUFFICES ASSUME NEW x \in Pids, NEW q \in Pids, Told(x)'
                 PROVE  /\ os'[q].group = x \/ q = x => Warned(q)'
                        /\ StillRuns(q)' /\ processes'[q].group = x /\ ~processes'[q].exited => Warned(q)'
      BY DEF GroupsWarned
    <3>1. CASE x = p
      <4>1. Late(next.stage)
        BY <2>6, <3>1 DEF Told
      <4> QED BY <2>4, <2>5, <2>7, <2>8, <3>1, <4>1
    <3>2. CASE x # p
      <4>1. Told(x)
        BY <2>5, <2>6, <3>2 DEF Told
      <4> QED BY <2>4, <2>5, <2>8, <4>1 DEF AllWarned, GroupsWarned
    <3> QED BY <3>1, <3>2
  <2>10. MembersWarned'
    <3> SUFFICES ASSUME NEW q \in Pids, Late(members'[q].stage), members'[q].born = os'[q].born
                 PROVE  Warned(q)'
      BY DEF MembersWarned
    <3>1. CASE q \in mates
      <4>1. Late(next.stage) /\ processes[q].born = os[q].born
        BY <2>1, <2>5, <3>1
      <4>2. processes[q].group = p /\ ~processes[q].exited
        BY <2>4, <3>1 DEF LiveRecords
      <4> QED BY <2>5, <2>7, <4>1, <4>2 DEF StillRuns, Warned
    <3>2. CASE q \notin mates
      BY <2>1, <2>5, <3>2 DEF AllWarned, MembersWarned
    <3> QED BY <3>1, <3>2
  <2>11. hasty' => hasty
    <3>1. next.signal = "kill" => \A q \in crowd : Warned(q)
      BY <2>3 DEF AllWarned, GroupsWarned
    <3> HIDE DEF crowd, told
    <3> QED BY <2>1, <3>1, KillSpares
  <2> QED BY <2>9, <2>10, <2>11 DEF AllWarned
<1> QED BY <1>1, <1>2 DEF GroupStep

LEMMA MemberStepWarned ==
  ASSUME TypeOK, KernelInv, AllWarned, MembersMatch, NEW p \in Pids, MemberStep(p),
         ~uncertain', ~uncertain
  PROVE  AllWarned' /\ (hasty' => hasty)
<1>1. UNCHANGED <<processes, groups>> /\ pc = "members"
  BY DEF MemberStep
<1>2. CASE UNCHANGED <<os, members, stranger, hasty>>
  BY <1>1, <1>2, WarnedStays
<1>3. CASE StillRuns(p) /\ \E next \in Due(members[p].stage) :
         /\ Deliver(next.signal, {p}, {})
         /\ members' = [members EXCEPT ![p] = [born |-> processes[p].born,
                           group |-> processes[p].group, stage |-> next.stage]]
         /\ uncertain' = (uncertain \/ Shortened(members[p].stage))
  <2>1. PICK next \in Due(members[p].stage) :
         /\ Deliver(next.signal, {p}, {})
         /\ members' = [members EXCEPT ![p] = [born |-> processes[p].born,
                           group |-> processes[p].group, stage |-> next.stage]]
         /\ uncertain' = (uncertain \/ Shortened(members[p].stage))
    BY <1>3
  <2>2. ~Shortened(members[p].stage) /\ members[p].stage \in Stage
    <3>1. ~Shortened(members[p].stage)
      BY Zenon, <2>1
    <3> QED BY <3>1 DEF TypeOK
  <2>3. Late(members[p].stage) => Warned(p)
    BY <1>1, <1>3 DEF AllWarned, MembersWarned, MembersMatch, Advances, StillRuns, Late
  <2>4. \A x \in Pids : /\ os'[x].life = os[x].life /\ os'[x].born = os[x].born
                        /\ os'[x].group = os[x].group /\ (os[x].warned => os'[x].warned)
    BY <2>1, DeliverType
  <2>5. \A x \in Pids : (Warned(x) => Warned(x)') /\ (Told(x)' => Told(x)) /\ (StillRuns(x)' => StillRuns(x))
    BY <1>1, <2>4 DEF Warned, Told, StillRuns
  <2>6. Late(next.stage) => Warned(p)'
    <3>1. next.signal = "term" => Warned(p)'
      BY <2>1, TermWarns
    <3> QED BY <2>2, <2>3, <2>5, <3>1, DueStages
  <2>7. MembersWarned'
    <3> SUFFICES ASSUME NEW q \in Pids, Late(members'[q].stage), members'[q].born = os'[q].born
                 PROVE  Warned(q)'
      BY DEF MembersWarned
    <3>1. CASE q = p
      BY <2>1, <2>6, <3>1 DEF TypeOK
    <3>2. CASE q # p
      <4>1. members'[q] = members[q]
        BY <2>1, <3>2 DEF TypeOK
      <4> QED BY <2>4, <2>5, <4>1 DEF AllWarned, MembersWarned
    <3> QED BY <3>1, <3>2
  <2>8. GroupsWarned'
    BY <1>1, <2>4, <2>5 DEF AllWarned, GroupsWarned
  <2>9. hasty' => hasty
    <3>1. next.signal = "kill" => \A q \in {p} : Warned(q)
      BY <2>2, <2>3, DueStages
    <3> QED BY <2>1, <3>1, KillSpares
  <2> QED BY <2>7, <2>8, <2>9 DEF AllWarned
<1> QED BY <1>2, <1>3 DEF MemberStep

LEMMA SettleWarned ==
  ASSUME TypeOK, KernelInv, Settle
  PROVE  MembersMatch' /\ (AllWarned => AllWarned')
<1> DEFINE kept == [p \in Pids |-> IF p \in Adopted THEN Unseen ELSE processes[p]]
<1>1. processes' = kept
  BY DEF Settle
<1>2. \A p \in Pids : \/ members'[p] = NoMember
                      \/ members'[p] = members[p] /\ members[p].born = kept[p].born
  <2>1. members' = [p \in Pids |->
              IF /\ kept[p].born # 0 /\ ~kept[p].exited
                 /\ members[p].born = kept[p].born /\ members[p].group = kept[p].group
              THEN members[p] ELSE NoMember]
    BY DEF Settle
  <2> HIDE DEF kept
  <2> QED BY <2>1
<1>3. \A p \in Pids : groups'[p] = groups[p] \/ ~Late(groups'[p].stage)
  <2> DEFINE old == {p \in Pids : Retained(p, kept)}
             new == {p \in Pids : kept[p].born # 0 /\ kept[p].group = p} \ old
  <2>1. PICK noted \in SUBSET new :
             groups' = [p \in Pids |->
                          CASE p \in old -> groups[p]
                            [] p \in noted -> [born |-> kept[p].born, stage |-> "none"]
                            [] OTHER -> NoGroup]
    BY DEF Settle
  <2> HIDE DEF kept, old, new
  <2> QED BY <2>1 DEF NoGroup, Late
<1>4. MembersMatch'
  BY <1>1, <1>2 DEF MembersMatch, NoMember
<1>5. ASSUME AllWarned PROVE AllWarned'
  <2>1. \A x \in Pids : /\ os'[x].born = os[x].born
                        /\ os'[x].life = "live" => os'[x] = os[x] /\ processes'[x] = processes[x]
    BY Reapers, <1>1 DEF Reaped, Free, KernelInv, AdoptedHeld
  <2>2. \A x \in Pids : (Told(x)' => Told(x)) /\ (Warned(x) => Warned(x)')
    BY <1>3, <2>1 DEF Told, Warned
  <2>3. \A x \in Pids : StillRuns(x)' => StillRuns(x)
    BY <2>1 DEF StillRuns
  <2>4. GroupsWarned'
    <3> SUFFICES ASSUME NEW x \in Pids, NEW q \in Pids, Told(x)'
                 PROVE  /\ os'[q].group = x \/ q = x => Warned(q)'
                        /\ StillRuns(q)' /\ processes'[q].group = x /\ ~processes'[q].exited => Warned(q)'
      BY DEF GroupsWarned
    <3>1. CASE os'[q].life = "live"
      BY <1>5, <2>1, <2>2, <2>3, <3>1 DEF AllWarned, GroupsWarned
    <3>2. CASE os'[q].life # "live"
      BY <3>2 DEF Warned
    <3> QED BY <3>1, <3>2
  <2>5. MembersWarned'
    BY <1>2, <1>5, <2>1, <2>2 DEF AllWarned, MembersWarned, NoMember, Late
  <2> QED BY <2>4, <2>5 DEF AllWarned
<1> QED BY <1>4, <1>5

LEMMA WarnedInit == Init => WarnedInv
BY DEF Init, WarnedInv, GroupsWarned, MembersWarned, MembersMatch, Told, Late, NoGroup, NoMember,
       Advances

LEMMA WarnedNext ==
  TypeOK /\ KernelInv /\ KnownInv /\ FlowInv /\ WarnedInv /\ [Next]_vars => WarnedInv'
<1> SUFFICES ASSUME TypeOK, KernelInv, KnownInv, FlowInv, WarnedInv, [Next]_vars PROVE WarnedInv'
  OBVIOUS
<1> USE DEF Scans, Advances
<1>1. (~uncertain => AllWarned) /\ MembersMatch
      /\ (hasty => uncertain \/ (~outcome /\ pc \in {"reap", "done"}))
  BY DEF WarnedInv, AllWarned
<1>2. ASSUME uncertain => uncertain', ~uncertain' => AllWarned', MembersMatch',
             hasty' => uncertain' \/ (~outcome' /\ pc' \in {"reap", "done"})
      PROVE  WarnedInv'
  BY <1>2 DEF WarnedInv, AllWarned
<1>3. CASE Kernel
  <2>1. UNCHANGED <<pc, processes, uncertain, outcome, members, hasty>>
    BY <1>3, KernelPhases DEF phases, Kernel, Fork, Regroup, Exit, ParentReaps, Intrude,
                              inventory, history
  <2>2. MembersMatch'
    BY <1>1, <2>1 DEF MembersMatch
  <2> QED BY <1>1, <1>2, <1>3, <2>1, <2>2, KernelWarned
<1>4. ASSUME UNCHANGED <<os, processes, groups, members, hasty>>, uncertain => uncertain',
             pc \notin {"reap", "done"} \/ UNCHANGED <<pc, outcome>>,
             pc' \in {"scanned"} \cup Advances => pc \in {"scanned"} \cup Advances
      PROVE  WarnedInv'
  <2>1. MembersMatch'
    BY <1>1, <1>4 DEF MembersMatch
  <2>2. AllWarned => AllWarned'
    BY <1>4, WarnedStays
  <2> QED BY <1>1, <1>2, <1>4, <2>1, <2>2
<1>5. CASE Scanning
  <2>1. CASE Settle
    BY <1>1, <1>2, <2>1, SettleWarned DEF Settle
  <2>2. CASE ~Settle
    <3>1. /\ UNCHANGED <<os, outcome, groups, members, hasty>>
          /\ (uncertain => uncertain') /\ pc \in Scans /\ pc' \in Scans
      BY <1>5, <2>2, ReadPhases
    <3>2. AllWarned => AllWarned'
      <4>1. CASE UNCHANGED processes
        BY <3>1, <4>1, WarnedStays
      <4>2. CASE Visits \/ \E q \in Pids : Kid(q)
        BY <3>1, <4>2, ReadSteps, ReadWarned
      <4> QED BY <2>2, <4>1, <4>2, RecordSteps
    <3> QED BY <1>1, <1>2, <3>1, <3>2 DEF MembersMatch
  <2> QED BY <2>1, <2>2
<1>6. ASSUME NEW p \in Pids, GroupStep(p) PROVE WarnedInv'
  <2>1. UNCHANGED <<pc, processes, outcome>> /\ (uncertain => uncertain') /\ pc = "groups"
    BY <1>6 DEF GroupStep, endVars
  <2>2. MembersMatch'
    <3>1. \/ members' = members
          \/ \E next \in Due(groups[p].stage) :
               members' = [q \in Pids |-> IF q \in {x \in live : processes[x].group = p}
                             THEN [born |-> processes[q].born, group |-> p, stage |-> next.stage]
                             ELSE members[q]]
      BY <1>6 DEF GroupStep
    <3>2. \A q \in Pids : members'[q] = members[q] \/ members'[q].born = processes[q].born
      BY <3>1
    <3> QED BY <1>1, <2>1, <3>2 DEF MembersMatch
  <2> QED BY <1>1, <1>2, <1>6, <2>1, <2>2, GroupStepWarned
<1>7. ASSUME NEW p \in Pids, MemberStep(p) PROVE WarnedInv'
  <2>1. UNCHANGED <<pc, processes, outcome>> /\ (uncertain => uncertain') /\ pc = "members"
    BY <1>7 DEF MemberStep, endVars
  <2>2. MembersMatch'
    <3>1. \A q \in Pids : members'[q] = members[q] \/ members'[q].born = processes[q].born
      BY <1>7 DEF MemberStep, TypeOK
    <3> QED BY <1>1, <2>1, <3>1 DEF MembersMatch
  <2> QED BY <1>1, <1>2, <1>7, <2>1, <2>2, MemberStepWarned
<1>8. CASE Advancing
  <2>1. CASE Scanned \/ GroupsDone \/ Judge
    BY <1>4, <2>1 DEF Scanned, GroupsDone, Judge, kernelVars, inventory, cleanupVars, LoopVars, history
  <2>2. ASSUME NEW p \in Pids, CheckFails(p) PROVE WarnedInv'
    BY <1>4, <2>2 DEF CheckFails, inventory, history
  <2> QED BY <1>6, <1>7, <1>8, <2>1, <2>2 DEF Advancing
<1>9. CASE Ending
  <2>1. CASE Finish
    BY <1>4, <2>1 DEF Finish, kernelVars, inventory, history
  <2>2. CASE ReapExpired
    <3>1. AllWarned => AllWarned'
      BY <2>2, WarnedStays DEF ReapExpired, kernelVars, inventory
    <3> QED BY <1>1, <1>2, <2>2, <3>1 DEF ReapExpired, cleanupVars, history, MembersMatch
  <2>3. CASE ReapRoot
    <3>1. AllWarned => AllWarned'
      BY <2>3, Reapers, ReapWarned DEF ReapRoot, inventory
    <3> QED BY <1>1, <1>2, <2>3, <3>1 DEF ReapRoot, cleanupVars, endVars, history, MembersMatch
  <2>4. ASSUME KillRoot \/ \E p \in Pids : LastKill(p) PROVE AllWarned => AllWarned'
    <3>1. UNCHANGED <<processes, groups, members>>
      BY <2>4 DEF KillRoot, LastKill, inventory
    <3>2. SameShape /\ \A q \in Pids : os[q].warned => os'[q].warned
      BY <2>4, Signals
    <3> QED BY <3>1, <3>2, WarnedStays DEF SameShape
  <2>5. CASE KillRoot
    <3>1. /\ UNCHANGED <<uncertain, outcome>> /\ pc = "last" /\ pc' = "reap"
          /\ outcome => UNCHANGED hasty
      BY <2>5 DEF KillRoot, cleanupVars, passVars, endVars
    <3> QED BY <1>1, <1>2, <2>4, <2>5, <3>1 DEF MembersMatch
  <2>6. ASSUME NEW p \in Pids, LastKill(p) PROVE WarnedInv'
    <3>1. UNCHANGED <<uncertain, outcome, pc>> /\ pc = "last" /\ uncertain
      BY <2>6 DEF LastKill, FlowInv, cleanupVars, endVars
    <3> QED BY <1>1, <1>2, <3>1 DEF MembersMatch
  <2> QED BY <1>9, <2>1, <2>2, <2>3, <2>5, <2>6 DEF Ending
<1>10. CASE StartScan \/ ChildExited \/ Stop \/ Deadline
  BY <1>4, <1>10 DEF StartScan, ChildExited, Stop, Deadline, kernelVars, inventory, cleanupVars,
                     endVars, history
<1>11. CASE Ended \/ UNCHANGED vars
  BY <1>4, <1>11 DEF Ended, vars, kernelVars, inventory, cleanupVars, endVars, history
<1> QED BY <1>3, <1>5, <1>8, <1>9, <1>10, <1>11 DEF Next

-----------------------------------------------------------------------------
(* The theorems.                                                           *)

TrackerInv ==
  TypeOK /\ KernelInv /\ KnownInv /\ FlowInv /\ ScanInv /\ SlipInv /\ WarnedInv
         /\ EmptyScanIsTrue /\ NoStrangerSignalled

\* The inductive invariant holds of every run: what the kernel's tables, the
\* records, the phases, the scan, the rounds that found nothing and the
\* notices given say of each other.
THEOREM TrackerInvariant == Spec => []TrackerInv
<1>1. Init => TrackerInv
  BY TypeInit, KernelInit, KnownInit, FlowInit, ScanInit, SlipInit, WarnedInit
     DEF TrackerInv, Init, EmptyScanIsTrue, NoStrangerSignalled
<1>2. TrackerInv /\ [Next]_vars => TrackerInv'
  <2> SUFFICES ASSUME TrackerInv, [Next]_vars PROVE TrackerInv'
    OBVIOUS
  <2>1. TypeOK'
    BY TypeNext DEF TrackerInv
  <2> QED BY <2>1, KernelNext, KnownNext, FlowNext, ScanNext, SlipNext, WarnedNext,
             EmptyScanNext, StrangerNext DEF TrackerInv
<1> QED BY <1>1, <1>2, PTL DEF Spec

\* The inventory keeps to its bounds, and an empty one from a complete scan
\* during which no process exited is the truth, whatever was forked,
\* reparented, regrouped or reused while the scan read the tables.
THEOREM TrackerInventorySound == Spec => []InventorySound
<1>1. TrackerInv => InventorySound
  BY DEF TrackerInv, InventorySound
<1> QED BY <1>1, TrackerInvariant, PTL

\* No signal of an escalation, of the final kill or to the root reaches a
\* process that is not a descendant, however often pids and group ids are
\* reused between the tracker's reads.
THEOREM TrackerSparesStrangers == Spec => []NoStrangerSignalled
<1>1. TrackerInv => NoStrangerSignalled
  BY DEF TrackerInv
<1> QED BY <1>1, TrackerInvariant, PTL

\* A report that confirms the cleanup beside a living descendant takes exits
\* during each of the last scans.
THEOREM TrackerSurvivors == Spec => []SurvivorSlippedThrough
<1>1. TrackerInv => SurvivorSlippedThrough
  BY DEF TrackerInv, SurvivorSlippedThrough, SlipInv, FlowInv, Disturbed, Living
<1> QED BY <1>1, TrackerInvariant, PTL

\* A report that confirms the cleanup means that SIGKILL came to nobody
\* before the notice of its group, its parent or itself.
THEOREM TrackerNoticeFirst == Spec => []KilledUnwarnedUnconfirmed
<1>1. TrackerInv => KilledUnwarnedUnconfirmed
  BY DEF TrackerInv, KilledUnwarnedUnconfirmed, WarnedInv, FlowInv
<1> QED BY <1>1, TrackerInvariant, PTL
=============================================================================
