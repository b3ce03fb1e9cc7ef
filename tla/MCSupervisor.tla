---------------------------- MODULE MCSupervisor ----------------------------
(* Instances of Supervisor for TLC.                                        *)
EXTENDS Supervisor

CONSTANTS L, a, out

TwoProcs == {L, a}
OnePump == {out}

\* Every output mode without a cgroup; with one, those without a read budget and the
\* strict one. Each has the stages of the kill sequence that the others leave out. A
\* timer need not fire. Every cgroup.kill may fail; none does in one of the modes.
EveryMode == {r \in Request : /\ r.timed /\ r.interrupt = ~r.contained
                              /\ r.contained => r.gated = {} \/ r.strict
                              /\ IF r.contained /\ r.strict THEN ~r.killWorks
                                                            ELSE r.contained \/ r.killWorks}
=============================================================================
