---------------------------- MODULE MCPortOwners ----------------------------
(* Instances of PortOwners for TLC.                                        *)
EXTENDS PortOwners

Plain == [mode |-> "run", window |-> 0, max |-> 0, maxErr |-> 0, out |-> <<"x", "x">>,
          err |-> <<"x">>, timers |-> FALSE, observed |-> FALSE, faults |-> 0]

\* Eager and bounded runs: cut by the bound, the observer or a deadline, or by nothing.
RunRequests == {[Plain EXCEPT !.out = <<"x">>, !.err = <<>>, !.timers = TRUE, !.faults = 1],
                [Plain EXCEPT !.window = 2, !.max = 1, !.err = <<>>, !.timers = TRUE],
                [Plain EXCEPT !.window = 1, !.max = 3, !.observed = TRUE, !.faults = 1]}

\* Streams: eager; a limit on the line; stderr that reaches its limit, and that passes it.
StreamRequests ==
  {[Plain EXCEPT !.mode = "stream", !.out = <<"n">>, !.err = <<>>, !.timers = TRUE,
                 !.faults = 1],
   [Plain EXCEPT !.mode = "stream", !.window = 2, !.max = 1, !.maxErr = 1,
                 !.out = <<"n", "x", "x">>, !.err = <<>>, !.timers = TRUE],
   [Plain EXCEPT !.mode = "stream", !.window = 1, !.max = 2, !.maxErr = 1,
                 !.out = <<"x", "n">>, !.faults = 1],
   [Plain EXCEPT !.mode = "stream", !.window = 1, !.max = 2, !.maxErr = 1,
                 !.out = <<"n">>, !.err = <<"x", "x">>, !.faults = 1]}

DaemonRequests ==
  {[Plain EXCEPT !.mode = "daemon", !.out = <<"x">>, !.timers = t, !.faults = 1]
     : t \in BOOLEAN}

Executions == RunRequests \cup StreamRequests \cup DaemonRequests
=============================================================================
