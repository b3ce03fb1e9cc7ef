---------------------------- MODULE ShimContract ----------------------------
(***************************************************************************)
(* What the native shim promises the BEAM about one supervised child, and  *)
(* nothing about how: cleanup is final, a confirmed EXIT is true, at most  *)
(* one EXIT is delivered, a dead port carries none, and the shim falls     *)
(* silent only towards a BEAM that left.                                   *)
(***************************************************************************)
VARIABLES
  contained,   \* does the shim answer for escaped descendants too?
  groupAlive,  \* is a member of the child's process group left?
  treeAlive,   \* is any descendant left?
  port,        \* the BEAM's end: "open" or "closed"
  verdict,     \* confirmations delivered by EXIT: {} before it
  running      \* is the shim's process alive?

vars == <<contained, groupAlive, treeAlive, port, verdict, running>>

Init ==
  /\ contained \in BOOLEAN
  /\ groupAlive = TRUE /\ treeAlive = TRUE
  /\ port = "open" /\ verdict = {} /\ running = TRUE

\* Processes end; what is gone never comes back.  The child may be dead and
\* unreaped, or an escaped descendant outlive its group, in either order.
ProcessesEnd ==
  /\ groupAlive' \in {groupAlive, FALSE}
  /\ treeAlive' \in {treeAlive, FALSE}
  /\ UNCHANGED <<contained, port, verdict, running>>

PeerLeaves ==
  /\ port = "open" /\ port' = "closed"
  /\ UNCHANGED <<contained, groupAlive, treeAlive, verdict, running>>

\* EXIT, after which the shim may end at once or stay to drain its stdin.
Deliver(confirmed) ==
  /\ running /\ verdict = {} /\ port = "open"
  /\ confirmed => ~groupAlive /\ (contained => ~treeAlive)
  /\ verdict' = {confirmed}
  /\ running' \in BOOLEAN
  /\ UNCHANGED <<contained, groupAlive, treeAlive, port>>

End ==
  /\ running /\ (verdict # {} \/ port = "closed")
  /\ running' = FALSE
  /\ UNCHANGED <<contained, groupAlive, treeAlive, port, verdict>>

Next ==
  \/ ProcessesEnd \/ PeerLeaves \/ End
  \/ \E confirmed \in BOOLEAN : Deliver(confirmed)

Spec == Init /\ [][Next]_vars
=============================================================================
