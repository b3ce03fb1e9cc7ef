---------------------------- MODULE MCDuplexInput ----------------------------
(* Instances of DuplexInput for TLC.                                       *)
EXTENDS DuplexInput

CONSTANTS c1, c2, c3

ThreeSends == {c1, c2, c3}

\* Two lines, the first willing to wait for ever, and an EOF; or a line and two EOFs.
Mixed == {[c \in ThreeSends |-> IF c = c3 \/ c \in E THEN "eof" ELSE "line"] : E \in {{}, {c2}}}
Unbounded == {c1}
=============================================================================
