---------------------------- MODULE LockProofs -----------------------------
(***************************************************************************)
(* A lock whose release was confirmed is free, for any number of owners,   *)
(* handles and attempts.                                                   *)
(*                                                                         *)
(* The kernel's holder is a shim that has the lock, so it is enough that a *)
(* confirmed release comes after the shim's end.  The guard learns of that *)
(* end from the port alone, and it goes without having seen it only when   *)
(* it refuses an acquire, its owner is dead, or the release timed out.     *)
(***************************************************************************)
EXTENDS Lock, TLAPS

Gone(h) == shim[h] = "gone"

\* An unused handle has nothing behind it, and an acquire that is not answered
\* has an owner that waits for it.
FreshInv ==
  \A h \in Handles :
    /\ view[h] = "unused" => shim[h] = "none" /\ guard[h] = "none"
    /\ guard[h] = "awaiting" => view[h] = "acquiring"
    /\ guard[h] \in {"none", "awaiting"} => toOwner[h] = {}

\* A refusal is the guard's only message and ends the acquire.
RefusedInv ==
  \A h \in Handles :
    "refused" \in toOwner[h] =>
      toOwner[h] = {"refused"} /\ guard[h] = "gone" /\ view[h] = "acquiring"

\* The port reports the end of a shim that has ended.
WireInv ==
  \A h \in Handles : \A i \in 1..Len(wire[h]) : wire[h][i] = "end" => Gone(h)

\* A guard is gone after its shim, unless it refused, lost its owner or gave up.
GuardInv ==
  \A h \in Handles :
    guard[h] = "gone" =>
      \/ Gone(h) \/ owner[h] \in dead \/ late[h] \/ "timeout" \in toOwner[h]
      \/ "refused" \in toOwner[h] \/ view[h] = "refused"

\* A release is confirmed after the shim's end.
ReleaseInv ==
  \A h \in Handles :
    /\ "released" \in toOwner[h] => Gone(h)
    /\ view[h] = "released" /\ ~late[h] => Gone(h)

LifeInv == FreshInv /\ RefusedInv /\ WireInv /\ GuardInv /\ ReleaseInv
Inv == TypeOK /\ LifeInv

-----------------------------------------------------------------------------
(* Sequences of lines, and a shim that ends.                               *)

LEMMA AppendLine ==
  ASSUME NEW s \in Seq(Lines), NEW line \in Lines
  PROVE  /\ Append(s, line) \in Seq(Lines)
         /\ Len(Append(s, line)) = Len(s) + 1
         /\ \A i \in 1..Len(s) : Append(s, line)[i] = s[i]
         /\ Append(s, line)[Len(s) + 1] = line
  OBVIOUS

LEMMA TailLine ==
  ASSUME NEW s \in Seq(Lines), s # <<>>
  PROVE  /\ Tail(s) \in Seq(Lines)
         /\ \A i \in 1..Len(Tail(s)) : i + 1 \in 1..Len(s) /\ Tail(s)[i] = s[i + 1]
  OBVIOUS

\* No line is an "end" that was not on the wire before.
NoNewEnd ==
  \A g \in Handles : \A i \in 1..Len(wire'[g]) :
    wire'[g][i] = "end" => \E j \in 1..Len(wire[g]) : wire[g][j] = "end"

LEMMA WritesStep ==
  ASSUME TypeOK, NEW h \in Handles, NEW line \in {"ok", "held", "error"}, Writes(h, line)
  PROVE  wire' \in [Handles -> Seq(Lines)] /\ NoNewEnd
<1>1. wire \in [Handles -> Seq(Lines)] /\ line \in Lines /\ line # "end"
  BY DEF TypeOK, Lines
<1>2. CASE port[h] # "open"
  BY <1>1, <1>2 DEF Writes, NoNewEnd
<1>3. CASE port[h] = "open"
  <2>1. wire' = [wire EXCEPT ![h] = Append(wire[h], line)]
    BY <1>3 DEF Writes
  <2> QED
    BY <2>1, <1>1, AppendLine DEF NoNewEnd
<1> QED
  BY <1>2, <1>3

\* What a shim that ends leaves behind.
ShimEnded(h) ==
  /\ HolderKnows' /\ holder' \in Handles \cup {Nobody, Foreign}
  /\ shim' = [shim EXCEPT ![h] = "gone"]

LEMMA EndsStep ==
  ASSUME TypeOK, NEW h \in Handles, Ends(h)
  PROVE  ShimEnded(h)
  BY HolderAssumption DEF TypeOK, HolderKnows, Ends, ShimEnded

LEMMA FinishStep ==
  ASSUME TypeOK, NEW h \in Handles, NEW line \in {"ok", "held", "error"}, Finish(h, line)
  PROVE  ShimEnded(h) /\ wire' \in [Handles -> Seq(Lines)] /\ NoNewEnd /\ tries' = tries
  BY EndsStep, WritesStep DEF Finish

Messages == SUBSET {"ok", "refused", "lost", "released", "timeout"}

LEMMA SaysStep ==
  ASSUME TypeOK, NEW h \in Handles, NEW messages \in Messages, Says(h, messages)
  PROVE  toOwner' \in [Handles -> Messages]
<1>1. CASE owner[h] \in dead
  BY <1>1 DEF Says, TypeOK, Messages
<1>2. CASE owner[h] \notin dead
  <2>1. toOwner' = [toOwner EXCEPT ![h] = toOwner[h] \cup messages]
    BY <1>2 DEF Says
  <2>2. toOwner \in [Handles -> Messages] /\ toOwner[h] \cup messages \in Messages
    BY DEF TypeOK, Messages
  <2> QED
    BY <2>1, <2>2
<1> QED
  BY <1>1, <1>2

-----------------------------------------------------------------------------
\* Every step keeps the types.
LEMMA TypeStep == Inv /\ [Next]_vars => TypeOK'
<1> SUFFICES ASSUME Inv, [Next]_vars PROVE TypeOK'
  OBVIOUS
<1> DEFINE Goal == TypeOK'
<1>0. FreshInv
  BY DEF Inv, LifeInv
<1> USE HolderAssumption DEF Inv
<1>1. ASSUME NEW h \in Handles, ShimFails(h) PROVE Goal
  <2>1. Finish(h, "error")
    BY <1>1 DEF ShimFails
  <2> QED
    BY <1>1, <2>1, FinishStep DEF ShimFails, ownerVars, TypeOK,
         PortEndsWithGuard, ShimEnded
<1>2. ASSUME NEW h \in Handles, SetLock(h) PROVE Goal
  <2>1. CASE holder = Nobody
    <3>1. HolderKnows'
      BY <1>2, <2>1, HolderAssumption DEF SetLock, Runs, Alive, TypeOK, HolderKnows
    <3> QED
      BY <1>2, <2>1, <3>1 DEF SetLock, guardVars, ownerVars, TypeOK, PortEndsWithGuard
  <2>2. CASE holder # Nobody
    BY <1>2, <2>2 DEF SetLock, Runs, Alive, guardVars, ownerVars, TypeOK,
         PortEndsWithGuard, HolderKnows
  <2> QED
    BY <2>1, <2>2
<1>3. ASSUME NEW h \in Handles, SetLockInterrupted(h) PROVE Goal
  <2>1. CASE tries[h] > 1
    <3>1. HolderKnows'
      <4>1. /\ holder' = holder /\ shim' = [shim EXCEPT ![h] = "setlk"]
            /\ shim[h] = "setlk"
        BY <1>3, <2>1 DEF SetLockInterrupted, Retry
      <4>2. shim' = shim
        BY <4>1 DEF TypeOK
      <4>3. HolderKnows
        BY DEF TypeOK
      <4> QED BY <4>1, <4>2, <4>3 DEF HolderKnows
    <3>2. tries' = [tries EXCEPT ![h] = tries[h] - 1] /\ tries \in [Handles -> 1..Attempts]
      BY <1>3, <2>1 DEF SetLockInterrupted, Retry, TypeOK
    <3>3. tries[h] - 1 \in 1..Attempts
      BY <1>3, <2>1, <3>2, BoundAssumption
    <3>4. tries' \in [Handles -> 1..Attempts]
      BY <3>2, <3>3
    <3> QED
      BY <1>3, <2>1, <3>1, <3>4
         DEF SetLockInterrupted, Retry, ownerVars, TypeOK, PortEndsWithGuard
  <2>2. CASE ~(tries[h] > 1)
    <3>1. Finish(h, "held")
      BY <1>3, <2>2 DEF SetLockInterrupted, Retry
    <3> QED
      BY <1>3, <3>1, FinishStep DEF SetLockInterrupted, ownerVars, TypeOK,
           PortEndsWithGuard, ShimEnded
  <2> QED
    BY <2>1, <2>2
<1>4. ASSUME NEW h \in Handles, GetLock(h) PROVE Goal
  <2>1. CASE holder = Nobody /\ tries[h] > 1
    <3>1. HolderKnows'
      BY <1>4, <2>1, HolderAssumption DEF GetLock, Retry, TypeOK, HolderKnows
    <3>2. tries' = [tries EXCEPT ![h] = tries[h] - 1] /\ tries \in [Handles -> 1..Attempts]
      BY <1>4, <2>1 DEF GetLock, Retry, TypeOK
    <3>3. tries[h] - 1 \in 1..Attempts
      BY <1>4, <2>1, <3>2, BoundAssumption
    <3>4. tries' \in [Handles -> 1..Attempts]
      BY <3>2, <3>3
    <3> QED
      BY <1>4, <2>1, <3>1, <3>4
         DEF GetLock, Retry, ownerVars, TypeOK, PortEndsWithGuard
  <2>2. CASE ~(holder = Nobody /\ tries[h] > 1)
    <3>1. Finish(h, "held")
      BY <1>4, <2>2 DEF GetLock, Retry
    <3> QED
      BY <1>4, <3>1, FinishStep DEF GetLock, ownerVars, TypeOK,
           PortEndsWithGuard, ShimEnded
  <2> QED
    BY <2>1, <2>2
<1>5. ASSUME NEW h \in Handles, SayOk(h) PROVE Goal
  <2>1. CASE port[h] = "open"
    <3>1. Writes(h, "ok")
      BY <1>5, <2>1 DEF SayOk
    <3>2. wire' \in [Handles -> Seq(Lines)] /\ NoNewEnd
      BY <3>1, WritesStep
    <3> QED
      BY <1>5, <2>1, <3>2 DEF SayOk, Runs, Alive, ownerVars, TypeOK,
           PortEndsWithGuard, HolderKnows
  <2>2. CASE port[h] # "open"
    <3>1. Ends(h) /\ wire' = wire
      BY <1>5, <2>2 DEF SayOk
    <3> QED
      BY <1>5, <3>1, EndsStep DEF SayOk, ownerVars, TypeOK, PortEndsWithGuard,
           ShimEnded
  <2> QED
    BY <2>1, <2>2
<1>6. ASSUME NEW h \in Handles, WaitForRelease(h) PROVE Goal
  <2>1. Ends(h)
    BY <1>6 DEF WaitForRelease
  <2> QED
    BY <1>6, <2>1, EndsStep DEF WaitForRelease, guardVars, ownerVars, TypeOK,
         PortEndsWithGuard, ShimEnded
<1>7. ASSUME NEW h \in Handles, ShimKilled(h) PROVE Goal
  <2>1. Ends(h)
    BY <1>7 DEF ShimKilled
  <2> QED
    BY <1>7, <2>1, EndsStep DEF ShimKilled, guardVars, ownerVars, TypeOK,
         PortEndsWithGuard, ShimEnded
<1>8. ASSUME NEW h \in Handles, ShimStops(h) PROVE Goal
  BY <1>8 DEF ShimStops, Runs, Alive, guardVars, ownerVars, TypeOK,
       PortEndsWithGuard, HolderKnows
<1>9. ASSUME NEW h \in Handles, PortEnds(h) PROVE Goal
  <2>1. wire' = [wire EXCEPT ![h] = Append(wire[h], "end")] /\ "end" \in Lines
    BY <1>9 DEF PortEnds, Lines
  <2> QED
    BY <1>9, <2>1, AppendLine DEF PortEnds, shimVars, ownerVars, TypeOK,
         PortEndsWithGuard, HolderKnows
<1>10. ASSUME NEW h \in Handles, Answer(h) PROVE Goal
  <2>1. CASE From(h, "ok")
    <3>1. wire' = [wire EXCEPT ![h] = Tail(wire[h])] /\ wire[h] # <<>>
      BY <1>10, <2>1 DEF Answer
    <3>2. wire' \in [Handles -> Seq(Lines)]
      BY <3>1, TailLine DEF TypeOK
    <3>3. toOwner' \in [Handles -> Messages]
      BY <1>10, <2>1, SaysStep DEF Answer, Messages
    <3>4. /\ guard' = [guard EXCEPT ![h] = "holding"]
          /\ UNCHANGED <<port, request, shimVars, byte, ownerVars>>
      BY <1>10, <2>1 DEF Answer
    <3> QED
      BY <3>2, <3>3, <3>4
         DEF shimVars, ownerVars, TypeOK, PortEndsWithGuard, HolderKnows, Messages
  <2>2. CASE ~From(h, "ok")
    <3>1. GuardEnds(h, {"refused"}) /\ UNCHANGED <<shimVars, byte, ownerVars>>
      BY <1>10, <2>2 DEF Answer
    <3>2. toOwner' \in [Handles -> Messages]
      BY <3>1, SaysStep DEF GuardEnds, Messages
    <3>3. /\ guard' = [guard EXCEPT ![h] = "gone"] /\ port' = [port EXCEPT ![h] = "closed"]
          /\ wire' = [wire EXCEPT ![h] = <<>>] /\ request' = [request EXCEPT ![h] = FALSE]
      BY <3>1 DEF GuardEnds
    <3>4. wire' \in [Handles -> Seq(Lines)]
      BY <3>3 DEF TypeOK
    <3> QED
      BY <3>1, <3>2, <3>3, <3>4
         DEF shimVars, ownerVars, TypeOK, PortEndsWithGuard, HolderKnows, Messages
  <2> QED
    BY <2>1, <2>2
<1>11. ASSUME NEW h \in Handles, AnswerTimeout(h) PROVE Goal
  BY <1>11 DEF AnswerTimeout, GuardIn, GuardEnds, Says, shimVars, ownerVars,
       TypeOK, PortEndsWithGuard, HolderKnows
<1>12. ASSUME NEW h \in Handles, OwnerDown(h) PROVE Goal
  BY <1>12 DEF OwnerDown, GuardEnds, Says, shimVars, ownerVars, TypeOK,
       PortEndsWithGuard, HolderKnows
<1>13. ASSUME NEW h \in Handles, Lost(h) PROVE Goal
  BY <1>13 DEF Lost, GuardIn, From, GuardEnds, Says, shimVars, ownerVars,
       TypeOK, PortEndsWithGuard, HolderKnows
<1>14. ASSUME NEW h \in Handles, ReleasePort(h) PROVE Goal
  BY <1>14 DEF ReleasePort, GuardIn, shimVars, ownerVars, TypeOK,
       PortEndsWithGuard, HolderKnows
<1>15. ASSUME NEW h \in Handles, Released(h) PROVE Goal
  BY <1>15 DEF Released, GuardIn, From, GuardEnds, Says, shimVars, ownerVars,
       TypeOK, PortEndsWithGuard, HolderKnows
<1>16. ASSUME NEW h \in Handles, ReleaseTimeout(h) PROVE Goal
  BY <1>16 DEF ReleaseTimeout, GuardIn, GuardEnds, Says, shimVars, ownerVars,
       TypeOK, PortEndsWithGuard, HolderKnows
<1>17. ASSUME NEW h \in Handles, Acquire(h) PROVE Goal
  BY <1>17, <1>0 DEF Acquire, Free, shimVars, TypeOK, PortEndsWithGuard,
       HolderKnows, FreshInv
<1>18. ASSUME NEW h \in Handles, AcquireReturns(h) PROVE Goal
  BY <1>18 DEF AcquireReturns, shimVars, TypeOK, PortEndsWithGuard,
       HolderKnows
<1>19. ASSUME NEW h \in Handles, Release(h) PROVE Goal
  BY <1>19 DEF Release, Free, shimVars, TypeOK, PortEndsWithGuard, HolderKnows
<1>20. ASSUME NEW h \in Handles, ReleaseReturns(h) PROVE Goal
  BY <1>20 DEF ReleaseReturns, Replied, Told, shimVars, TypeOK,
       PortEndsWithGuard, HolderKnows
<1>21. CASE ForeignLock
  BY <1>21 DEF ForeignLock, guardVars, ownerVars, TypeOK, PortEndsWithGuard,
       HolderKnows
<1>22. ASSUME NEW o \in Owners, OwnerDies(o) PROVE Goal
  BY <1>22 DEF OwnerDies, shimVars, TypeOK, PortEndsWithGuard, HolderKnows
<1>23. CASE UNCHANGED vars
  BY <1>23 DEF vars, shimVars, guardVars, ownerVars, TypeOK,
       PortEndsWithGuard, HolderKnows
<1> QED
  BY <1>1, <1>2, <1>3, <1>4, <1>5, <1>6, <1>7, <1>8, <1>9, <1>10, <1>11,
    <1>12, <1>13, <1>14, <1>15, <1>16, <1>17, <1>18, <1>19, <1>20, <1>21,
    <1>22, <1>23
     DEF Next, Shim, Guard, Returns

-----------------------------------------------------------------------------
\* Every step keeps what is known of the lives of shim, guard and handle.
LEMMA LifeStep == Inv /\ [Next]_vars => LifeInv'
<1> SUFFICES ASSUME Inv, [Next]_vars PROVE LifeInv'
  OBVIOUS
<1> DEFINE Goal == LifeInv'
<1> USE HolderAssumption DEF Inv
<1>1. ASSUME NEW h \in Handles, ShimFails(h) PROVE Goal
  <2>1. Finish(h, "error")
    BY <1>1 DEF ShimFails
  <2> QED
    BY <1>1, <2>1, FinishStep DEF ShimFails, ownerVars, TypeOK, ShimEnded,
         NoNewEnd, LifeInv, FreshInv, RefusedInv, WireInv, GuardInv,
         ReleaseInv, Gone
<1>2. ASSUME NEW h \in Handles, SetLock(h) PROVE Goal
  <2>1. CASE holder = Nobody
    BY <1>2, <2>1 DEF SetLock, Runs, Alive, guardVars, ownerVars, TypeOK,
         ShimEnded, NoNewEnd, LifeInv, FreshInv, RefusedInv, WireInv,
         GuardInv, ReleaseInv, Gone
  <2>2. CASE holder # Nobody
    BY <1>2, <2>2 DEF SetLock, Runs, Alive, guardVars, ownerVars, TypeOK,
         ShimEnded, NoNewEnd, LifeInv, FreshInv, RefusedInv, WireInv,
         GuardInv, ReleaseInv, Gone
  <2> QED
    BY <2>1, <2>2
<1>3. ASSUME NEW h \in Handles, SetLockInterrupted(h) PROVE Goal
  <2>1. CASE tries[h] > 1
    BY <1>3, <2>1 DEF SetLockInterrupted, Retry, Runs, Alive, ownerVars,
         TypeOK, ShimEnded, NoNewEnd, LifeInv, FreshInv, RefusedInv, WireInv,
         GuardInv, ReleaseInv, Gone
  <2>2. CASE ~(tries[h] > 1)
    <3>1. Finish(h, "held")
      BY <1>3, <2>2 DEF SetLockInterrupted, Retry
    <3> QED
      BY <1>3, <3>1, FinishStep DEF SetLockInterrupted, ownerVars, TypeOK,
           ShimEnded, NoNewEnd, LifeInv, FreshInv, RefusedInv, WireInv,
           GuardInv, ReleaseInv, Gone
  <2> QED
    BY <2>1, <2>2
<1>4. ASSUME NEW h \in Handles, GetLock(h) PROVE Goal
  <2>1. CASE holder = Nobody /\ tries[h] > 1
    BY <1>4, <2>1 DEF GetLock, Retry, Runs, Alive, ownerVars, TypeOK,
         ShimEnded, NoNewEnd, LifeInv, FreshInv, RefusedInv, WireInv,
         GuardInv, ReleaseInv, Gone
  <2>2. CASE ~(holder = Nobody /\ tries[h] > 1)
    <3>1. Finish(h, "held")
      BY <1>4, <2>2 DEF GetLock, Retry
    <3> QED
      BY <1>4, <3>1, FinishStep DEF GetLock, ownerVars, TypeOK, ShimEnded,
           NoNewEnd, LifeInv, FreshInv, RefusedInv, WireInv, GuardInv,
           ReleaseInv, Gone
  <2> QED
    BY <2>1, <2>2
<1>5. ASSUME NEW h \in Handles, SayOk(h) PROVE Goal
  <2>1. CASE port[h] = "open"
    <3>1. Writes(h, "ok")
      BY <1>5, <2>1 DEF SayOk
    <3>2. wire' \in [Handles -> Seq(Lines)] /\ NoNewEnd
      BY <3>1, WritesStep
    <3> QED
      BY <1>5, <2>1, <3>2 DEF SayOk, Runs, Alive, ownerVars, TypeOK,
           ShimEnded, NoNewEnd, LifeInv, FreshInv, RefusedInv, WireInv,
           GuardInv, ReleaseInv, Gone
  <2>2. CASE port[h] # "open"
    <3>1. Ends(h) /\ wire' = wire
      BY <1>5, <2>2 DEF SayOk
    <3> QED
      BY <1>5, <3>1, EndsStep DEF SayOk, ownerVars, TypeOK, ShimEnded,
           NoNewEnd, LifeInv, FreshInv, RefusedInv, WireInv, GuardInv,
           ReleaseInv, Gone
  <2> QED
    BY <2>1, <2>2
<1>6. ASSUME NEW h \in Handles, WaitForRelease(h) PROVE Goal
  <2>1. Ends(h)
    BY <1>6 DEF WaitForRelease
  <2>2. shim' = [shim EXCEPT ![h] = "gone"]
    BY <2>1 DEF Ends
  <2>3. UNCHANGED <<wire, guard, toOwner, view, owner, dead, late>>
    BY <1>6 DEF WaitForRelease, guardVars, ownerVars
  <2>4. shim[h] # "none"
    BY <1>6 DEF WaitForRelease, Runs, Alive
  <2> QED
    BY <2>2, <2>3, <2>4
       DEF TypeOK, LifeInv, FreshInv, RefusedInv, WireInv, GuardInv, ReleaseInv, Gone
<1>7. ASSUME NEW h \in Handles, ShimKilled(h) PROVE Goal
  <2>1. Ends(h)
    BY <1>7 DEF ShimKilled
  <2>2. shim' = [shim EXCEPT ![h] = "gone"]
    BY <2>1 DEF Ends
  <2>3. UNCHANGED <<wire, guard, toOwner, view, owner, dead, late>>
    BY <1>7 DEF ShimKilled, guardVars, ownerVars
  <2>4. shim[h] # "none"
    BY <1>7 DEF ShimKilled, Runs, Alive
  <2> QED
    BY <2>2, <2>3, <2>4
       DEF TypeOK, LifeInv, FreshInv, RefusedInv, WireInv, GuardInv, ReleaseInv, Gone
<1>8. ASSUME NEW h \in Handles, ShimStops(h) PROVE Goal
  BY <1>8 DEF ShimStops, Runs, Alive, guardVars, ownerVars, TypeOK, ShimEnded,
       NoNewEnd, LifeInv, FreshInv, RefusedInv, WireInv, GuardInv, ReleaseInv,
       Gone
<1>9. ASSUME NEW h \in Handles, PortEnds(h) PROVE Goal
  <2>1. wire' = [wire EXCEPT ![h] = Append(wire[h], "end")]
    BY <1>9 DEF PortEnds
  <2>2. WireInv'
    <3>1. shim' = shim /\ shim[h] = "gone"
      BY <1>9 DEF PortEnds, shimVars
    <3>2. \A g \in Handles \ {h} : wire'[g] = wire[g]
      BY <2>1 DEF TypeOK
    <3> QED
      BY <3>1, <3>2 DEF LifeInv, WireInv, Gone
  <2>3. UNCHANGED <<shim, guard, toOwner, view, owner, dead, late>>
    BY <1>9 DEF PortEnds, shimVars, ownerVars
  <2>4. FreshInv' /\ RefusedInv' /\ GuardInv' /\ ReleaseInv'
    BY <2>3 DEF LifeInv, FreshInv, RefusedInv, GuardInv, ReleaseInv, Gone
  <2> QED
    BY <2>2, <2>4 DEF LifeInv
<1>10. ASSUME NEW h \in Handles, Answer(h) PROVE Goal
  <2>1. CASE From(h, "ok")
    <3>1. wire' = [wire EXCEPT ![h] = Tail(wire[h])] /\ wire[h] # <<>>
      BY <1>10, <2>1 DEF Answer
    <3>2. WireInv'
      BY <1>10, <2>1, <3>1, TailLine DEF LifeInv, WireInv, Gone, TypeOK, Answer, shimVars
    <3>3. guard[h] = "awaiting" /\ toOwner[h] = {} /\ view[h] = "acquiring"
      BY <1>10, <2>1 DEF Answer, GuardIn, LifeInv, FreshInv
    <3>4. toOwner' \in {toOwner, [toOwner EXCEPT ![h] = {"ok"}]}
      BY <1>10, <2>1, <3>3, {} \cup {"ok"} = {"ok"} DEF Answer, Says, TypeOK
    <3>5. /\ guard' = [guard EXCEPT ![h] = "holding"]
          /\ UNCHANGED <<shim, view, owner, dead, late>>
      BY <1>10, <2>1 DEF Answer, shimVars, ownerVars
    <3>6. FreshInv' /\ RefusedInv'
      BY <3>3, <3>4, <3>5 DEF LifeInv, TypeOK, FreshInv, RefusedInv
    <3>7. GuardInv'
      <4>1. \A g \in Handles \ {h} : toOwner'[g] = toOwner[g] /\ guard'[g] = guard[g]
        BY <3>4, <3>5 DEF TypeOK
      <4>2. guard'[h] = "holding"
        BY <3>5 DEF TypeOK
      <4> QED
        BY <3>5, <4>1, <4>2 DEF LifeInv, GuardInv, Gone
    <3>8. ReleaseInv'
      <4>1. toOwner \in [Handles -> Messages] /\ "released" \notin {"ok"}
        BY DEF TypeOK, Messages
      <4>2. \A g \in Handles : "released" \in toOwner'[g] => "released" \in toOwner[g]
        BY <3>4, <4>1
      <4> QED
        BY <3>5, <4>2 DEF LifeInv, ReleaseInv, Gone
    <3> QED
      BY <3>2, <3>6, <3>7, <3>8 DEF LifeInv
  <2>2. CASE ~From(h, "ok")
    <3>1. GuardEnds(h, {"refused"})
      BY <1>10, <2>2 DEF Answer
    <3>2. toOwner[h] = {} /\ view[h] = "acquiring"
      BY <1>10, <2>2 DEF Answer, GuardIn, LifeInv, FreshInv
    <3>3. toOwner' = IF owner[h] \in dead THEN toOwner
                     ELSE [toOwner EXCEPT ![h] = {"refused"}]
      BY <3>1, <3>2 DEF GuardEnds, Says, TypeOK
    <3>4. /\ guard' = [guard EXCEPT ![h] = "gone"] /\ wire' = [wire EXCEPT ![h] = <<>>]
          /\ UNCHANGED <<shim, view, owner, dead, late>>
      BY <1>10, <2>2, <3>1 DEF Answer, GuardEnds, shimVars, ownerVars
    <3> QED
      BY <3>2, <3>3, <3>4
         DEF LifeInv, TypeOK, FreshInv, RefusedInv, WireInv, GuardInv, ReleaseInv, Gone
  <2> QED
    BY <2>1, <2>2
<1>11. ASSUME NEW h \in Handles, AnswerTimeout(h) PROVE Goal
  BY <1>11 DEF AnswerTimeout, GuardIn, GuardEnds, Says, shimVars, ownerVars,
       TypeOK, ShimEnded, NoNewEnd, LifeInv, FreshInv, RefusedInv, WireInv,
       GuardInv, ReleaseInv, Gone
<1>12. ASSUME NEW h \in Handles, OwnerDown(h) PROVE Goal
  BY <1>12 DEF OwnerDown, GuardEnds, Says, shimVars, ownerVars, TypeOK,
       ShimEnded, NoNewEnd, LifeInv, FreshInv, RefusedInv, WireInv, GuardInv,
       ReleaseInv, Gone
<1>13. ASSUME NEW h \in Handles, Lost(h) PROVE Goal
  BY <1>13 DEF Lost, GuardIn, From, GuardEnds, Says, shimVars, ownerVars,
       TypeOK, ShimEnded, NoNewEnd, LifeInv, FreshInv, RefusedInv, WireInv,
       GuardInv, ReleaseInv, Gone
<1>14. ASSUME NEW h \in Handles, ReleasePort(h) PROVE Goal
  BY <1>14 DEF ReleasePort, GuardIn, shimVars, ownerVars, TypeOK, ShimEnded,
       NoNewEnd, LifeInv, FreshInv, RefusedInv, WireInv, GuardInv, ReleaseInv,
       Gone
<1>15. ASSUME NEW h \in Handles, Released(h) PROVE Goal
  BY <1>15 DEF Released, GuardIn, From, GuardEnds, Says, shimVars, ownerVars,
       TypeOK, ShimEnded, NoNewEnd, LifeInv, FreshInv, RefusedInv, WireInv,
       GuardInv, ReleaseInv, Gone
<1>16. ASSUME NEW h \in Handles, ReleaseTimeout(h) PROVE Goal
  BY <1>16 DEF ReleaseTimeout, GuardIn, GuardEnds, Says, shimVars, ownerVars,
       TypeOK, ShimEnded, NoNewEnd, LifeInv, FreshInv, RefusedInv, WireInv,
       GuardInv, ReleaseInv, Gone
<1>17. ASSUME NEW h \in Handles, Acquire(h) PROVE Goal
  BY <1>17 DEF Acquire, Free, shimVars, TypeOK, ShimEnded, NoNewEnd, LifeInv,
       FreshInv, RefusedInv, WireInv, GuardInv, ReleaseInv, Gone
<1>18. ASSUME NEW h \in Handles, AcquireReturns(h) PROVE Goal
  BY <1>18 DEF AcquireReturns, shimVars, TypeOK, ShimEnded, NoNewEnd, LifeInv,
       FreshInv, RefusedInv, WireInv, GuardInv, ReleaseInv, Gone
<1>19. ASSUME NEW h \in Handles, Release(h) PROVE Goal
  BY <1>19 DEF Release, Free, shimVars, TypeOK, ShimEnded, NoNewEnd, LifeInv,
       FreshInv, RefusedInv, WireInv, GuardInv, ReleaseInv, Gone
<1>20. ASSUME NEW h \in Handles, ReleaseReturns(h) PROVE Goal
  <2>1. CASE Told(h, "timeout")
    <3>1. toOwner' = [toOwner EXCEPT ![h] = toOwner[h] \ {"released", "timeout"}]
      BY <1>20, <2>1 DEF ReleaseReturns
    <3>2. /\ view' = [view EXCEPT ![h] = "overdue"] /\ late' = [late EXCEPT ![h] = TRUE]
          /\ view[h] = "releasing" /\ UNCHANGED <<shim, wire, guard, owner, dead>>
      BY <1>20, <2>1 DEF ReleaseReturns, shimVars, TypeOK
    <3> QED
      BY <3>1, <3>2
         DEF LifeInv, TypeOK, FreshInv, RefusedInv, WireInv, GuardInv, ReleaseInv, Gone
  <2>2. CASE ~Told(h, "timeout")
    BY <1>20, <2>2 DEF ReleaseReturns, Replied, Told, shimVars, TypeOK,
         ShimEnded, NoNewEnd, LifeInv, FreshInv, RefusedInv, WireInv,
         GuardInv, ReleaseInv, Gone
  <2> QED
    BY <2>1, <2>2
<1>21. CASE ForeignLock
  BY <1>21 DEF ForeignLock, guardVars, ownerVars, TypeOK, ShimEnded, NoNewEnd,
       LifeInv, FreshInv, RefusedInv, WireInv, GuardInv, ReleaseInv, Gone
<1>22. ASSUME NEW o \in Owners, OwnerDies(o) PROVE Goal
  BY <1>22 DEF OwnerDies, shimVars, TypeOK, ShimEnded, NoNewEnd, LifeInv,
       FreshInv, RefusedInv, WireInv, GuardInv, ReleaseInv, Gone
<1>23. CASE UNCHANGED vars
  BY <1>23 DEF vars, shimVars, guardVars, ownerVars, TypeOK, ShimEnded,
       NoNewEnd, LifeInv, FreshInv, RefusedInv, WireInv, GuardInv, ReleaseInv,
       Gone
<1> QED
  BY <1>1, <1>2, <1>3, <1>4, <1>5, <1>6, <1>7, <1>8, <1>9, <1>10, <1>11,
    <1>12, <1>13, <1>14, <1>15, <1>16, <1>17, <1>18, <1>19, <1>20, <1>21,
    <1>22, <1>23
     DEF Next, Shim, Guard, Returns

-----------------------------------------------------------------------------

LEMMA Initially == Init => Inv
  BY HolderAssumption, BoundAssumption
     DEF Init, Inv, TypeOK, HolderKnows, PortEndsWithGuard, Lines, LifeInv, FreshInv,
         RefusedInv, WireInv, GuardInv, ReleaseInv

LEMMA Invariance == Spec => []Inv
<1>1. Inv /\ [Next]_vars => Inv'
  BY TypeStep, LifeStep DEF Inv
<1> QED
  BY Initially, <1>1, PTL DEF Spec

\* Every variable keeps its type, the kernel's holder is a shim that knows it,
\* and no port outlives its guard (lock.rs run, lock.ex guard_init).
THEOREM LockTypeCorrect == Spec => []TypeOK
<1>1. Inv => TypeOK
  BY DEF Inv
<1> QED
  BY Invariance, <1>1, PTL

\* A release answered with :ok, and none before it timed out: the lock is free
\* (lock.ex release, release_port).
THEOREM ReleasedLockIsFree == Spec => []ReleasedMeansFree
<1>1. Inv => ReleasedMeansFree
  BY DEF Inv, TypeOK, HolderKnows, LifeInv, ReleaseInv, Gone, ReleasedMeansFree
<1> QED
  BY Invariance, <1>1, PTL
=============================================================================
