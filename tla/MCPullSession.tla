--------------------------- MODULE MCPullSession ---------------------------
(* Instances of PullSession for TLC.                                       *)
EXTENDS PullSession

CONSTANTS out, err, c1, c2

Pipes == {out, err}
PipeOrder == <<out, err>>
Pty == {out}
PtyOrder == <<out>>

Written(o, e) == [s \in Pipes |-> IF s = out THEN o ELSE e]

\* A line on stdout beside a line on stderr; an empty line, a line and an unfinished
\* one, more than the window; a line beyond the limit.
TwoStreams == {Written(<<"n">>, <<"n">>), Written(<<"n", "x", "n", "x">>, <<>>),
               Written(<<"x", "x">>, <<>>)}

\* The first calls recv(session, :infinity), the second with a finite timeout.
TwoCallers == {c1, c2}
Unhurried == {c1}
=============================================================================
