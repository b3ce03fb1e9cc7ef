--------------------------- MODULE RecordedGroups ---------------------------
(***************************************************************************)
(* `forcola_shim groups`: checking or stopping process groups recorded by  *)
(* an earlier session, native/forcola_shim/src/groups.rs on Linux, against *)
(* a kernel that forks, regroups, exits, reaps and reuses pids between any *)
(* two of its reads.                                                       *)
(*                                                                         *)
(* A pid that is a group's id is only given out again once the group is    *)
(* empty.  `era` stands for the start time: it counts the processes that   *)
(* had a pid.  An identity check and the kill(2) that follows it are two   *)
(* steps, as in the code.                                                  *)
(***************************************************************************)
EXTENDS Naturals, Sequences, FiniteSets, FiniteSetsExt

CONSTANTS
  Pids,     \* pids in the order /proc lists them
  Requests  \* requests considered, each with the bounds of its run

ASSUME PidsAssumption == Pids \in SUBSET (Nat \ {0})

\* An entry of a request; `start` is its start_time as parse_start_time finds it.
Entry == [pid : Nat, pgid : Nat, start : {"here", "earlier", "foreign", "missing"}]
Kinds == {"usage", "line", "json", "groups", "interrupt", "grace", "ok"}
Op == {"check", "stop"}

\* `form` is the first fault of the request line, or "ok".  `births` bounds the
\* forks, `others` the processes of others that get a freed pid, `hops` the
\* processes that leave their group and `errors` the calls that fail.
RequestType == [form : Kinds, op : Op, interrupt : BOOLEAN, groups : Seq(Entry),
                births : Nat, others : Nat, hops : Nat, errors : Nat]
ASSUME RequestsAssumption == Requests \subseteq RequestType

VARIABLES
  os,        \* the kernel's process table
  again,     \* ids whose group emptied and that now name another group
  run,       \* the request, with what is left of its bounds
  pc,        \* where the program is
  at,        \* index of the entry being observed or signalled
  stage,     \* number of the signals sent: 0 is the first observation
  late,      \* the deadline of the stage has passed
  states,    \* `states` of `stop`, the members of Leaderless apart
  live,      \* members of each Leaderless group
  aim,       \* why `members` runs: for `observe` or for `signal`
  names,     \* directory entries not yet read
  cursor,    \* the last pid read
  found,     \* `members` of group_members, not yet read again
  todo,      \* members that signal_members has yet to reach
  slipped,   \* history: since its last observation began, the group forked or a
             \* member's record could not be parsed
  knew,      \* history: a read of the leader's pid returned another process
  struck,    \* history: what was known of a group when it was signalled
  failed     \* history: a call failed

kernelVars == <<os, again>>
shimVars == <<pc, at, stage, late, states, live>>
scanVars == <<aim, names, cursor, found, todo>>
history == <<slipped, knew, struck, failed>>
vars == <<kernelVars, run, shimVars, scanVars, history>>

Process == [life : {"free", "live", "doomed", "zombie"}, era : Nat, group : Pids \cup {0}]
Identity == [pid : Pids, era : Nat]
State == {"new", "gone", "led", "leaderless", "unknown"}

Groups == DOMAIN run.groups
Valid(e) == e.pid \in Pids /\ e.pgid = e.pid /\ e.start \in {"here", "earlier"}
Pgid(n) == run.groups[n].pgid
Recorded(n) == Valid(run.groups[n]) /\ run.groups[n].start = "here"

Signals == IF run.interrupt THEN <<"int", "term", "kill">> ELSE <<"term", "kill">>
Present(s) == s \in {"led", "leaderless"}

Exists(p) == os[p].life # "free"
Alive(p) == os[p].life \in {"live", "doomed"}
In(g) == {p \in Pids : Exists(p) /\ os[p].group = g}

Init ==
  /\ run \in Requests
  /\ os = [p \in Pids |->
             IF \E n \in Groups : Recorded(n) /\ Pgid(n) = p
             THEN [life |-> "live", era |-> 0, group |-> p]
             ELSE [life |-> "free", era |-> 0, group |-> 0]]
  /\ again = {}
  /\ pc = "read" /\ at = 1 /\ stage = 0 /\ late = FALSE
  /\ states = [n \in Groups |-> "new"] /\ live = [n \in Groups |-> {}]
  /\ aim = "observe" /\ names = {} /\ cursor = 0 /\ found = {} /\ todo = {}
  /\ slipped = [n \in Groups |-> FALSE] /\ knew = [n \in Groups |-> "nothing"]
  /\ struck = {} /\ failed = FALSE

Spend(what) == run[what] > 0 /\ run' = [run EXCEPT ![what] = @ - 1]
Fault == Spend("errors") /\ failed' = TRUE

-----------------------------------------------------------------------------
(* The kernel.                                                             *)

Available(p) == ~Exists(p) /\ In(p) = {}

Fork(p, q) ==
  /\ os[p].life = "live" /\ os[p].group # 0 /\ Available(q) /\ Spend("births")
  /\ os' = [os EXCEPT ![q] = [life |-> "live", era |-> @.era + 1, group |-> os[p].group]]
  /\ slipped' = [n \in Groups |-> slipped[n] \/ Pgid(n) = os[p].group]
  /\ UNCHANGED <<again, shimVars, scanVars, knew, struck, failed>>

\* setsid or setpgid: the process leaves the group, and does not come back.
Leave(p) ==
  /\ os[p].life = "live" /\ os[p].group # 0 /\ Spend("hops")
  /\ os' = [os EXCEPT ![p].group = 0]
  /\ UNCHANGED <<again, shimVars, scanVars, history>>

Exit(p) ==
  /\ Alive(p)
  /\ os' = [os EXCEPT ![p].life = "zombie"]
  /\ UNCHANGED <<again, run, shimVars, scanVars, history>>

Reap(p) ==
  /\ os[p].life = "zombie"
  /\ os' = [os EXCEPT ![p].life = "free", ![p].group = 0]
  /\ UNCHANGED <<again, run, shimVars, scanVars, history>>

\* Another program gets the freed pid.
Reuse(p) ==
  /\ Available(p) /\ Spend("others")
  /\ os' = [os EXCEPT ![p] = [life |-> "live", era |-> @.era + 1, group |-> 0]]
  /\ UNCHANGED <<again, shimVars, scanVars, history>>

\* It becomes a group leader: its group has the recorded id.
Lead(p) ==
  /\ os[p].life = "live" /\ os[p].era > 0 /\ os[p].group = 0 /\ In(p) = {}
  /\ os' = [os EXCEPT ![p].group = p]
  /\ again' = again \cup {p}
  /\ UNCHANGED <<run, shimVars, scanVars, history>>

\* The deadline is only read by Poll.
Tick ==
  /\ pc = "poll" /\ stage > 0 /\ ~late /\ late' = TRUE
  /\ UNCHANGED <<kernelVars, run, pc, at, stage, states, live, scanVars, history>>

\* A signal reaches the processes in ps.  Only KILL takes effect by itself.
Signalled(ps) ==
  [p \in Pids |-> IF p \in ps /\ os[p].life = "live" /\ Signals[stage] = "kill"
                  THEN [os[p] EXCEPT !.life = "doomed"] ELSE os[p]]

\* What happens after the report is no concern of the program.
Ended == pc \in {"done", "rejected"}
Kernel ==
  /\ ~Ended
  /\ \/ \E p, q \in Pids : Fork(p, q)
     \/ \E p \in Pids : Leave(p) \/ Exit(p) \/ Reap(p) \/ Reuse(p) \/ Lead(p)

-----------------------------------------------------------------------------
(* Moving from one entry to the next.                                      *)

\* The first entry from n on that satisfies P, where the program handles it
\* under label l; or else `rest`.
GoTo(ns, l, rest) ==
  /\ pc' = IF ns = {} THEN rest ELSE l
  /\ at' = IF ns = {} THEN 1 ELSE Min(ns)

\* `refresh` leaves out groups already seen gone.
EveryEntry == Groups
Unsettled == {n \in Groups : states[n] # "gone"}
Observed(s) ==
  /\ states' = [states EXCEPT ![at] = s]
  /\ GoTo({n \in Unsettled : n > at}, "observe", "poll")

ToSignal(from) == {n \in Groups : n >= from /\ Present(states[n])}
SignalNext ==
  LET rest == ToSignal(at + 1) IN
  IF rest # {} THEN GoTo(rest, "signal", "poll") /\ late' = late
               ELSE GoTo(Unsettled, "observe", "poll") /\ late' = FALSE

-----------------------------------------------------------------------------
(* The program.                                                            *)

Accept ==
  /\ pc = "read" /\ run.form = "ok"
  /\ GoTo(Groups, "observe", "poll")
  /\ UNCHANGED <<kernelVars, run, stage, late, states, live, scanVars, history>>

Reject ==
  /\ pc = "read" /\ run.form # "ok"
  /\ pc' = "rejected"
  /\ UNCHANGED <<kernelVars, run, at, stage, late, states, live, scanVars, history>>

\* Entries that need no read: what parse_identity refuses, and an earlier boot.
ObserveUnread ==
  /\ pc = "observe" /\ ~Recorded(at)
  /\ Observed(IF Valid(run.groups[at]) THEN "gone" ELSE "unknown")
  /\ UNCHANGED <<kernelVars, run, stage, late, live, scanVars, history>>

Leader == os[Pgid(at)]
SameProcess == Leader.era = 0
VanishedIsOther == ~SameProcess \/ ~Exists(Pgid(at))
OtherProcess == Exists(Pgid(at)) /\ ~SameProcess
Leads == Alive(Pgid(at)) /\ SameProcess /\ Leader.group = Pgid(at)

\* Every directory entry as of now; processes born later may be seen or not.
List(why) ==
  /\ aim' = why /\ pc' = "list" /\ at' = at
  /\ names' = {p \in Pids : Exists(p)} /\ cursor' = 0 /\ found' = {}

ObserveLeader ==
  /\ pc = "observe" /\ Recorded(at)
  /\ slipped' = [slipped EXCEPT ![at] = FALSE]
  /\ live' = [live EXCEPT ![at] = {}]
  /\ knew' = [knew EXCEPT ![at] = IF OtherProcess THEN "gone" ELSE @]
  /\ IF OtherProcess \/ Leads
     THEN Observed(IF Leads THEN "led" ELSE "gone") /\ UNCHANGED <<aim, names, cursor, found>>
     ELSE List("observe") /\ UNCHANGED states
  /\ UNCHANGED <<kernelVars, run, stage, late, todo, struck, failed>>

\* What `members` returned, to `observe` or to `signal`.
Answer(s) ==
  IF aim = "observe"
  THEN Observed(s) /\ UNCHANGED <<late, todo>>
  ELSE /\ UNCHANGED states
       /\ IF s = "leaderless"
          THEN pc' = "member" /\ todo' = live'[at] /\ UNCHANGED <<at, late>>
          ELSE SignalNext /\ todo' = {}

\* Reading a pid of the directory; one that came later may be passed over.
Entries == {p \in names : p > cursor}
ListRead(p) ==
  /\ pc = "list" /\ p > cursor /\ (p \in names \/ Exists(p))
  /\ \A q \in Entries : p <= q
  /\ cursor' = p
  /\ found' = IF p \in In(Pgid(at)) THEN found \cup {p} ELSE found
  /\ UNCHANGED <<kernelVars, run, shimVars, aim, names, todo, history>>

\* A record that does not parse is left out of the listing.
ListSkip(p) ==
  /\ pc = "list" /\ p \in Entries /\ \A q \in Entries : p <= q
  /\ Fault
  /\ cursor' = p
  /\ slipped' = [slipped EXCEPT ![at] = TRUE]
  /\ UNCHANGED <<kernelVars, shimVars, aim, names, found, todo, knew, struck>>

Listed ==
  /\ pc = "list" /\ Entries = {}
  /\ pc' = "again"
  /\ live' = [live EXCEPT ![at] = {}]
  /\ UNCHANGED <<kernelVars, run, at, stage, late, states, scanVars, history>>

\* `members` reads every pid of the listing once more.
ReadAgain ==
  /\ pc = "again" /\ found # {}
  /\ LET p == Min(found) IN
       /\ found' = found \ {p}
       /\ live' = IF Alive(p) /\ os[p].group = Pgid(at)
                  THEN [live EXCEPT ![at] = @ \cup {[pid |-> p, era |-> os[p].era]}]
                  ELSE live
  /\ UNCHANGED <<kernelVars, run, pc, at, stage, late, states, aim, names, cursor, todo,
                 history>>

MembersRead ==
  /\ pc = "again" /\ found = {}
  /\ live' = live
  /\ Answer(IF live[at] = {} THEN "gone" ELSE "leaderless")
  /\ names' = {} /\ cursor' = 0
  /\ UNCHANGED <<kernelVars, run, stage, aim, found, history>>

\* Any read but the listing's unparsed ones fails with an error.
ReadFails ==
  /\ \/ pc = "observe" /\ Recorded(at) /\ aim' = "observe"
     \/ pc \in {"list", "again"} /\ aim' = aim
  /\ Fault
  /\ live' = [live EXCEPT ![at] = {}]
  /\ IF aim' = "observe"
     THEN Observed("unknown") /\ UNCHANGED <<late, todo>>
     ELSE UNCHANGED states /\ SignalNext /\ todo' = {}
  /\ names' = {} /\ cursor' = 0 /\ found' = {}
  /\ UNCHANGED <<kernelVars, stage, slipped, knew, struck>>

Remaining == \E n \in Groups : Present(states[n])

\* Mutant: KILL is given no deadline, as if nothing could survive it.
OverUnlessKill == stage = 0 \/ (late /\ stage < Len(Signals))

\* The stage's wait is over; the first pass has none.
Over == stage = 0 \/ late

\* The top of a stage, and of every round of its wait.
Poll ==
  /\ pc = "poll"
  /\ \/ /\ run.op = "stop" /\ Remaining /\ ~Over
        /\ GoTo(Unsettled, "observe", "poll") /\ UNCHANGED stage
     \/ /\ run.op = "stop" /\ Remaining /\ Over /\ stage < Len(Signals)
        /\ GoTo(ToSignal(1), "signal", "poll") /\ stage' = stage + 1
     \/ /\ run.op = "check" \/ ~Remaining \/ (Over /\ stage = Len(Signals))
        /\ pc' = "done" /\ UNCHANGED <<at, stage>>
  /\ UNCHANGED <<kernelVars, run, late, states, live, scanVars, history>>

\* `signal` of a led group reads the leader again; of the others, their members.
Verify ==
  /\ pc = "signal" /\ states[at] = "led"
  /\ knew' = [knew EXCEPT ![at] = IF OtherProcess THEN "refused" ELSE @]
  /\ IF Leads THEN pc' = "group" /\ UNCHANGED <<at, aim, names, cursor, found>>
              ELSE List("signal")
  /\ UNCHANGED <<kernelVars, run, stage, late, states, live, todo, slipped, struck, failed>>

VerifyFails ==
  /\ pc = "signal" /\ states[at] = "led" /\ Fault
  /\ List("signal")
  /\ UNCHANGED <<kernelVars, stage, late, states, live, todo, slipped, knew, struck>>

SignalLeaderless ==
  /\ pc = "signal" /\ states[at] = "leaderless"
  /\ pc' = "member" /\ todo' = live[at]
  /\ UNCHANGED <<kernelVars, run, at, stage, late, states, live, aim, names, cursor, found,
                 history>>

Strike(ps) ==
  /\ os' = Signalled(ps)
  /\ struck' = IF \E p \in ps : Alive(p) THEN struck \cup {knew[at]} ELSE struck

\* kill(-pgid) fails when no process has the group.
KillGroup ==
  /\ pc = "group"
  /\ Strike(In(Pgid(at)))
  /\ IF In(Pgid(at)) # {} THEN SignalNext /\ UNCHANGED <<aim, names, cursor, found>>
                          ELSE List("signal") /\ UNCHANGED late
  /\ UNCHANGED <<again, run, stage, states, live, todo, slipped, knew, failed>>

KillGroupRefused ==
  /\ pc = "group" /\ Fault
  /\ List("signal")
  /\ UNCHANGED <<kernelVars, stage, late, states, live, todo, slipped, knew, struck>>

\* signal_members: the member is read again before its own kill(2).
VerifyMember ==
  /\ pc = "member" /\ todo # {}
  /\ LET m == CHOOSE m \in todo : \A other \in todo : m.pid <= other.pid IN
       IF Alive(m.pid) /\ os[m.pid].era = m.era /\ os[m.pid].group = Pgid(at)
       THEN pc' = "strike" /\ cursor' = m.pid /\ UNCHANGED todo
       ELSE todo' = todo \ {m} /\ UNCHANGED <<pc, cursor>>
  /\ UNCHANGED <<kernelVars, run, at, stage, late, states, live, aim, names, found, history>>

KillMember ==
  /\ pc = "strike"
  /\ Strike({cursor})
  /\ pc' = "member" /\ todo' = {m \in todo : m.pid # cursor} /\ cursor' = 0
  /\ UNCHANGED <<again, run, at, stage, late, states, live, aim, names, found, slipped, knew, failed>>

MembersDone ==
  /\ pc = "member" /\ todo = {}
  /\ SignalNext
  /\ UNCHANGED <<kernelVars, run, stage, states, live, scanVars, history>>

Observing == ObserveUnread \/ ObserveLeader
Listing == (\E p \in Pids : ListRead(p) \/ ListSkip(p)) \/ Listed \/ ReadAgain \/ MembersRead
Signalling == Verify \/ VerifyFails \/ SignalLeaderless \/ KillGroup \/ KillGroupRefused
              \/ VerifyMember \/ KillMember \/ MembersDone
Program == Accept \/ Reject \/ Observing \/ Listing \/ ReadFails \/ Poll \/ Signalling

Next == Kernel \/ Program \/ Tick
Spec == Init /\ [][Next]_vars

\* The program runs and time passes; the kernel need do nothing.
FairSpec == Spec /\ WF_vars(Program) /\ SF_vars(Tick)

-----------------------------------------------------------------------------

TypeOK ==
  /\ os \in [Pids -> Process] /\ again \in SUBSET Pids
  /\ run \in RequestType
  /\ pc \in {"read", "observe", "list", "again", "poll", "signal", "group", "member",
             "strike", "done", "rejected"}
  /\ at \in Nat /\ stage \in 0 .. 3 /\ late \in BOOLEAN
  /\ states \in [Groups -> State] /\ live \in [Groups -> SUBSET Identity]
  /\ aim \in {"observe", "signal"} /\ names \in SUBSET Pids /\ cursor \in Pids \cup {0}
  /\ found \in SUBSET Pids /\ todo \in SUBSET Identity
  /\ slipped \in [Groups -> BOOLEAN]
  /\ knew \in [Groups -> {"nothing", "gone", "refused"}]
  /\ struck \in SUBSET {"nothing", "gone", "refused"} /\ failed \in BOOLEAN

\* Once an observation found the recorded leader's pid with another process,
\* no signal is sent for that entry, whatever becomes of the new group while
\* the other entries are stopped (`refresh`: seen gone stays gone).
SeenReuseIsSafe == "gone" \notin struck

\* A group is reported gone while a process of it lives only if, during the
\* observation that decided it, one of its processes forked or a record did
\* not parse (`observe`, `members`: two reads of each pid, not a snapshot).
GoneSurvivorSlipped ==
  \A n \in Groups :
    (Recorded(n) /\ states[n] = "gone" /\ Pgid(n) \notin again
       /\ \E p \in In(Pgid(n)) : Alive(p)) => slipped[n]

\* If no call failed, a stop that ends with the recorded leader still leading
\* its group has sent that leader KILL: no other entry's end cuts its
\* escalation short (`stop`).
LedWasKilled ==
  \A n \in Groups :
    (pc = "done" /\ run.op = "stop" /\ states[n] = "led" /\ ~failed)
      => os[Pgid(n)].life # "live" \/ os[Pgid(n)].era > 0 \/ os[Pgid(n)].group # Pgid(n)

\* What a stop reports, and what it leaves undone, is owed to a race or to a
\* failed call, never to the other entries of the request.
StopReportHonest == GoneSurvivorSlipped /\ LedWasKilled

\* A request ends, even when processes ignore every signal (`stop`: each
\* stage has a deadline).
RequestEnds == <>Ended

\* groups.rs:30: a group whose leader identity no longer matches is never
\* signalled.
MismatchNeverSignalled == "refused" \notin struck
=============================================================================
