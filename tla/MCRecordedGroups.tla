------------------------- MODULE MCRecordedGroups ---------------------------
(* Instances of RecordedGroups for TLC.                                    *)
EXTENDS RecordedGroups

ThreePids == 1 .. 3

Here(p) == [pid |-> p, pgid |-> p, start |-> "here"]

Still == [form |-> "ok", op |-> "stop", interrupt |-> FALSE, groups |-> <<Here(1)>>,
          births |-> 0, others |-> 0, hops |-> 0, errors |-> 0]

\* Members that fork and leave; calls that fail; two groups and a pid that comes
\* back, or a call that fails; and entries and requests that are turned away.
Hazards ==
  {[Still EXCEPT !.births = 2, !.hops = 1],
   [Still EXCEPT !.births = 1, !.errors = 2, !.interrupt = TRUE],
   [Still EXCEPT !.groups = <<Here(2), Here(1)>>, !.births = 1, !.others = 1],
   [Still EXCEPT !.groups = <<Here(2), Here(1)>>, !.births = 1, !.errors = 1],
   [Still EXCEPT !.op = "check", !.births = 2, !.errors = 1,
                 !.groups = <<Here(1), [Here(2) EXCEPT !.start = "earlier"],
                              [Here(3) EXCEPT !.start = "foreign"]>>],
   [Still EXCEPT !.form = "interrupt"]}

Small == {[Still EXCEPT !.births = 1, !.others = 1]}
=============================================================================
