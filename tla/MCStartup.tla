------------------------------ MODULE MCStartup -----------------------------
(* Instances of Startup for TLC.                                           *)
EXTENDS Startup

Root == [uid |-> 0, gid |-> 0, groups |-> {0, 3}]
Alice == [uid |-> 1, gid |-> 1, groups |-> {1, 2}]
Accounts == {Root, Alice}

Simple == [frames |-> <<"hello", "spawn">>, asked |-> {}, offered |-> Feature,
           valid |-> TRUE, argv |-> TRUE, cd |-> FALSE, nul |-> FALSE, pty |-> FALSE,
           sized |-> FALSE, cgroup |-> "no", killWorks |-> TRUE, shim |-> Root, user |-> {}, group |-> {},
           known |-> TRUE, faults |-> 0, kills |-> 0]

\* Every kind of child with a call that fails, a lost report or a killed child.
Children ==
  {[Simple EXCEPT !.asked = f, !.cd = TRUE, !.pty = p, !.sized = p, !.cgroup = c,
                  !.killWorks = k, !.user = u, !.faults = 2, !.kills = 1] :
     f \in {{}, {"structured"}, {"structured", "identity"}, Feature}, p \in BOOLEAN,
     c \in {"no", "try", "required"}, k \in BOOLEAN, u \in {{}, {Alice}}}

\* Every user and group, known or not, asked of either shim.
Users ==
  {[Simple EXCEPT !.asked = {"structured"}, !.shim = s, !.user = u, !.group = g, !.known = k] :
     s \in Accounts, u \in {{}, {Root}, {Alice}}, g \in {{}, {0}, {1}, {2}}, k \in BOOLEAN}

\* Frames that do not come in order, and requests that are not accepted.
Frames ==
  {[Simple EXCEPT !.frames = f] :
     f \in {<<>>, <<"spawn">>, <<"other">>, <<"torn">>, <<"hello">>, <<"hello", "hello">>,
            <<"hello", "huge">>, <<"empty">>}} \cup
  {[Simple EXCEPT !.asked = {"identity"}, !.offered = {}], [Simple EXCEPT !.valid = FALSE],
   [Simple EXCEPT !.argv = FALSE, !.asked = {"structured"}]} \cup
  {[Simple EXCEPT !.cd = TRUE, !.nul = TRUE, !.asked = f] : f \in {{}, {"structured"}}}

Starts == Children \cup Users \cup Frames
=============================================================================
