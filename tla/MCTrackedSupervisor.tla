------------------------ MODULE MCTrackedSupervisor -------------------------
(* Instances of TrackedSupervisor for TLC.                                 *)
EXTENDS TrackedSupervisor

CONSTANTS r, a, b

ThreeProcs == {r, a, b}

Plain == [strict |-> FALSE, gated |-> FALSE, timed |-> FALSE, procs |-> {r, a},
          chunks |-> 0, kills |-> 0, grants |-> 0, inputs |-> 0, faults |-> 0]

\* Three processes behind a queue of one frame, or two with a fault. Output in an untracked
\* drain under the timer, and in a strict one, beside a descendant or under the timer. A
\* reader stuck behind input. A child whose wait may fail, with output and KILL under either
\* kind of drain.
Busy == {[Plain EXCEPT !.procs = {r, a, b}], [Plain EXCEPT !.faults = 1],
         [Plain EXCEPT !.chunks = 1, !.timed = TRUE],
         [Plain EXCEPT !.strict = TRUE, !.gated = TRUE, !.chunks = 1, !.grants = 1],
         [Plain EXCEPT !.strict = TRUE, !.gated = TRUE, !.procs = {r}, !.chunks = 1,
                       !.grants = 1, !.timed = TRUE],
         [Plain EXCEPT !.inputs = 3, !.procs = {r}]} \cup
        {[Plain EXCEPT !.strict = s, !.gated = TRUE, !.procs = {r}, !.chunks = 1,
                       !.kills = 1, !.faults = 1] : s \in BOOLEAN}

\* Strict output with a KILL and one grant.
Duplex == {[Plain EXCEPT !.strict = TRUE, !.gated = TRUE, !.procs = {r}, !.chunks = 1,
                         !.kills = 1, !.grants = 1]}
=============================================================================
