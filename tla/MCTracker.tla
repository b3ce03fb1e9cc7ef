------------------------------ MODULE MCTracker -----------------------------
(* Instances of Tracker for TLC.                                           *)
EXTENDS Tracker, TLC

CONSTANTS root, a, b

ThreePids == {root, a, b}
Others == Permutations({a, b})

Quiet == [interrupt |-> FALSE, processLimit |-> 3, groupLimit |-> 3,
          births |-> 1, hops |-> 0, strangers |-> 0, errors |-> 0, stops |-> 1]

\* Processes that fork in turn and exit, after a child that ends by itself.
Relay == [Quiet EXCEPT !.births = 4, !.stops = 0]

\* The relay; reads that fail; a pid that goes to a stranger and a process
\* that changes its group; an inventory that is too small.
Hazards == {Relay, [Quiet EXCEPT !.births = 0, !.errors = 3],
            [Quiet EXCEPT !.errors = 2, !.stops = 0],
            [Quiet EXCEPT !.strangers = 1, !.hops = 1],
            [Quiet EXCEPT !.hops = 1, !.interrupt = TRUE, !.processLimit = 2,
                          !.groupLimit = 1]}
=============================================================================
