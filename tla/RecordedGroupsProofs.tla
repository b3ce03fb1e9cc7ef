------------------------ MODULE RecordedGroupsProofs ------------------------
(***************************************************************************)
(* What `forcola_shim groups` may be trusted with, for any request, any    *)
(* pids and any bounds: a pid seen reused is never signalled again, a      *)
(* group reported gone is gone unless it raced the program, and a stop     *)
(* that leaves a leader in place has sent it KILL.                         *)
(*                                                                         *)
(* Three arguments carry it.  The living members of a group do not grow    *)
(* unless one of them forks or another program takes the group's id over,  *)
(* so what both reads of the listing miss is not there.  The recorded      *)
(* leader never leads again once it stopped.  And the entries a stage has  *)
(* still to signal are the ones from `at` on.                              *)
(***************************************************************************)
EXTENDS RecordedGroups, FiniteSetTheorems, WellFoundedInduction, TLAPS

InObservation == pc = "observe" \/ (pc \in {"list", "again"} /\ aim = "observe")
InSignalling ==
  pc \in {"signal", "group", "member", "strike"} \/ (pc \in {"list", "again"} /\ aim = "signal")

\* No observation of the entry has ended.
Unvisited(n) == pc \in {"read", "rejected"} \/ (InObservation /\ n >= at)

\* The entry at hand is one `refresh` and the signalling stages select.
PlaceInv ==
  /\ InObservation => at \in Unsettled
  /\ InSignalling => at \in Groups /\ Present(states[at]) /\ stage > 0
  /\ pc = "group" => states[at] = "led"
  /\ pc \in {"list", "again"} => Recorded(at) \/ aim = "signal"
  /\ stage \in 0 .. Len(Signals)
  /\ pc = "read" => \A n \in Groups : states[n] = "new"
  /\ \A n \in Groups : states[n] = "led" => Recorded(n)
  /\ \A n \in Groups : states[n] = "new" => Unvisited(n)

\* Reuse is seen by an observation that ends with "gone".
KnewInv == \A n \in Groups : knew[n] = "gone" => states[n] = "gone"

Inv == TypeOK /\ PlaceInv /\ KnewInv /\ SeenReuseIsSafe

-----------------------------------------------------------------------------
(* Small facts.                                                            *)

LEMMA LeastElement ==
  ASSUME NEW S \in SUBSET Nat, S # {}
  PROVE  Min(S) \in S /\ \A y \in S : Min(S) <= y
<1> DEFINE T == {1 .. x : x \in S}
           R == StrictSubsetOrdering(Nat)
<1>1. \A x \in S : 1 .. x \in FiniteSubsetsOf(Nat)
  BY FS_Interval DEF FiniteSubsetsOf
<1>2. T \subseteq FiniteSubsetsOf(Nat) /\ T # {}
  BY <1>1
<1>3. PICK t \in T : \A u \in T : ~(<<u, t>> \in R)
  <2> HIDE DEF T, R
  <2>1. IsWellFoundedOn(R, FiniteSubsetsOf(Nat))
    BY FS_StrictSubsetOrderingWellFounded DEF R
  <2> QED
    BY <2>1, <1>2, WFMin
<1>4. PICK x \in S : t = 1 .. x
  OBVIOUS
<1>5. ASSUME NEW y \in S, ~(x <= y) PROVE FALSE
  <2>1. 1 .. y \in SUBSET Nat /\ t \in SUBSET Nat /\ 1 .. y \subseteq t /\ x \in t /\ x \notin 1 .. y
    BY <1>4, <1>5
  <2>2. <<1 .. y, t>> \in R
    BY <2>1 DEF StrictSubsetOrdering
  <2> QED
    BY <2>2, <1>3
<1> QED
  BY <1>5 DEF Min

LEMMA Moves ==
  ASSUME NEW ns \in SUBSET Nat, NEW l, NEW rest, GoTo(ns, l, rest)
  PROVE  \/ ns = {} /\ pc' = rest /\ at' = 1
         \/ ns # {} /\ pc' = l /\ at' \in ns /\ \A n \in ns : at' <= n
  BY LeastElement DEF GoTo

LEMMA RequestFacts ==
  ASSUME TypeOK
  PROVE  /\ Groups \in SUBSET Nat /\ run.groups \in Seq(Entry)
         /\ Signals \in {<<"int", "term", "kill">>, <<"term", "kill">>}
         /\ Len(Signals) \in {2, 3}
  BY DEF TypeOK, RequestType, Groups, Signals

SameRequest ==
  /\ run' \in RequestType /\ run'.groups = run.groups /\ run'.op = run.op
  /\ run'.interrupt = run.interrupt /\ run'.form = run.form

LEMMA Spends ==
  ASSUME TypeOK, NEW what \in {"births", "others", "hops", "errors"}, Spend(what)
  PROVE  SameRequest
  BY DEF TypeOK, RequestType, Spend, SameRequest

\* What `refresh` does next, and what is left when nothing is.
LEMMA ObservedStep ==
  ASSUME Inv, InObservation, SameRequest, NEW s \in State \ {"new"}, Observed(s)
  PROVE  /\ states' = [states EXCEPT ![at] = s] /\ states' \in [Groups -> State]
         /\ at \in Groups /\ states[at] # "gone" /\ at' \in Nat
         /\ \/ pc' = "poll" /\ \A n \in Unsettled : ~(n > at)
            \/ /\ pc' = "observe" /\ at' \in Unsettled /\ at' > at
               /\ \A n \in Unsettled : n > at => at' <= n
<1>1. /\ states' = [states EXCEPT ![at] = s] /\ at \in Groups /\ states[at] # "gone"
      /\ GoTo({n \in Unsettled : n > at}, "observe", "poll")
  BY DEF Inv, PlaceInv, Observed, Unsettled
<1>2. states' \in [Groups -> State]
  BY <1>1 DEF Inv, TypeOK
<1>3. {n \in Unsettled : n > at} \in SUBSET Nat
  BY RequestFacts DEF Inv, Unsettled
<1> QED
  BY <1>1, <1>2, <1>3, Moves

\* What a stage does next: another entry to signal, or its first round.
LEMMA SignalNextStep ==
  ASSUME Inv, InSignalling, SignalNext
  PROVE  /\ at' \in Nat /\ late' \in BOOLEAN
         /\ \/ /\ pc' = "signal" /\ at' \in Groups /\ at' > at /\ Present(states[at'])
               /\ \A n \in Groups : n > at /\ Present(states[n]) => at' <= n
            \/ /\ pc' = "observe" /\ at' \in Unsettled
               /\ \A n \in Groups : n > at => ~Present(states[n])
            \/ /\ pc' = "poll" /\ \A n \in Groups : n > at => ~Present(states[n])
<1>1. at \in Nat /\ Groups \in SUBSET Nat /\ late \in BOOLEAN
  BY RequestFacts DEF Inv, TypeOK
<1>2. ToSignal(at + 1) = {n \in Groups : n > at /\ Present(states[n])}
  <2>1. \A n \in Groups : n >= at + 1 <=> n > at
    BY <1>1
  <2> QED
    BY <2>1, Zenon DEF ToSignal
<1>3. CASE ToSignal(at + 1) # {}
  <2>1. GoTo(ToSignal(at + 1), "signal", "poll") /\ late' = late
    BY <1>3 DEF SignalNext
  <2>2. ToSignal(at + 1) \in SUBSET Nat
    BY <1>1, <1>2
  <2>3. pc' = "signal" /\ at' \in ToSignal(at + 1) /\ \A n \in ToSignal(at + 1) : at' <= n
    BY <2>1, <2>2, <1>3, Moves
  <2> QED
    BY <2>1, <2>3, <1>1, <1>2
<1>4. CASE ToSignal(at + 1) = {}
  <2>1. GoTo(Unsettled, "observe", "poll") /\ late' = FALSE
    BY <1>4 DEF SignalNext
  <2>2. Unsettled \in SUBSET Nat
    BY <1>1 DEF Unsettled
  <2>3. \/ pc' = "poll" /\ at' = 1
        \/ pc' = "observe" /\ at' \in Unsettled
    BY <2>1, <2>2, Moves
  <2>4. \A n \in Groups : n > at => ~Present(states[n])
    BY <1>2, <1>4, Zenon
  <2>5. at' \in Nat
    <3>1. 1 \in Nat
      OBVIOUS
    <3> QED
      BY <2>2, <2>3, <3>1, Zenon
  <2>6. late' \in BOOLEAN
    BY <2>1, Zenon
  <2> QED
    BY <2>3, <2>4, <2>5, <2>6, Zenon
<1> QED
  BY <1>3, <1>4

LEMMA FirstMember ==
  ASSUME Inv, todo # {}
  PROVE  (CHOOSE m \in todo : \A other \in todo : m.pid <= other.pid) \in todo
<1> DEFINE S == {m.pid : m \in todo}
<1>1. S \in SUBSET Nat /\ S # {}
  <2>1. \A m \in todo : m \in Identity
    BY DEF Inv, TypeOK
  <2>2. \A m \in todo : m.pid \in Nat
    BY <2>1, PidsAssumption DEF Identity
  <2> QED
    BY <2>2
<1>2. Min(S) \in S /\ \A y \in S : Min(S) <= y
  BY <1>1, LeastElement
<1>3. \E m \in todo : \A other \in todo : m.pid <= other.pid
  BY <1>2
<1> QED
  BY <1>3

LEMMA StrikeStep ==
  ASSUME Inv, at \in Groups, NEW ps, Strike(ps)
  PROVE  /\ os' \in [Pids -> Process] /\ struck' \in SUBSET {"nothing", "gone", "refused"}
         /\ struck' \subseteq struck \cup {knew[at]}
         /\ \A p \in Pids : /\ os'[p].era = os[p].era /\ os'[p].group = os[p].group
                            /\ (Alive(p)' <=> Alive(p)) /\ (Exists(p)' <=> Exists(p))
                            /\ os'[p].life = "live" => os[p].life = "live"
  BY DEF Inv, TypeOK, Process, Strike, Signalled, Alive, Exists

-----------------------------------------------------------------------------
\* Every step keeps the types.
LEMMA TypeStep == Inv /\ [Next]_vars => TypeOK'
<1> SUFFICES ASSUME Inv, [Next]_vars PROVE TypeOK'
  OBVIOUS
<1> DEFINE Goal == TypeOK'
<1> USE DEF Inv, Groups, Pgid
<1>1. ASSUME NEW p \in Pids, NEW q \in Pids, Fork(p, q) PROVE Goal
  BY <1>1, Spends DEF Fork, TypeOK, Process, SameRequest, shimVars, scanVars
<1>2. ASSUME NEW p \in Pids, Leave(p) PROVE Goal
  BY <1>2, Spends DEF Leave, TypeOK, Process, SameRequest, shimVars, scanVars, history
<1>3. ASSUME NEW p \in Pids, Exit(p) \/ Reap(p) PROVE Goal
  BY <1>3 DEF Exit, Reap, TypeOK, Process, shimVars, scanVars, history
<1>4. ASSUME NEW p \in Pids, Reuse(p) PROVE Goal
  BY <1>4, Spends DEF Reuse, TypeOK, Process, SameRequest, shimVars, scanVars, history
<1>5. ASSUME NEW p \in Pids, Lead(p) PROVE Goal
  BY <1>5 DEF Lead, TypeOK, Process, shimVars, scanVars, history
<1>6. CASE Tick
  BY <1>6 DEF Tick, TypeOK, kernelVars, scanVars, history
<1>7. CASE Accept \/ Reject
  <2>1. at' \in Nat /\ pc' \in {"observe", "poll", "rejected"}
    <3>1. Groups \in SUBSET Nat /\ at \in Nat /\ 1 \in Nat
      BY RequestFacts DEF TypeOK
    <3> QED
      BY <1>7, <3>1, Moves DEF Accept, Reject
  <2> QED
    BY <1>7, <2>1 DEF Accept, Reject, TypeOK, kernelVars, scanVars, history
<1>8. CASE ObserveUnread
  BY <1>8, ObservedStep DEF ObserveUnread, InObservation, SameRequest, State, TypeOK, kernelVars, scanVars, history
<1>9. CASE ObserveLeader
  BY <1>9, ObservedStep DEF ObserveLeader, List, InObservation, SameRequest, State, TypeOK, kernelVars
<1>10. ASSUME NEW p \in Pids, ListRead(p) \/ ListSkip(p) PROVE Goal
  BY <1>10, Spends DEF ListRead, ListSkip, Fault, SameRequest, TypeOK, kernelVars, shimVars, history
<1>11. CASE Listed
  BY <1>11 DEF Listed, TypeOK, kernelVars, scanVars, history
<1>12. CASE ReadAgain
  <2>1. Min(found) \in Pids
    BY <1>12, LeastElement, PidsAssumption DEF ReadAgain, TypeOK
  <2>2. live' \in [Groups -> SUBSET Identity]
    <3> DEFINE r == [pid |-> Min(found), era |-> os[Min(found)].era]
    <3>1. r \in Identity
      BY <2>1 DEF TypeOK, Identity, Process
    <3> HIDE DEF r
    <3>2. live' \in {live, [live EXCEPT ![at] = @ \cup {r}]}
      BY <1>12 DEF ReadAgain, r
    <3>3. live \in [Groups -> SUBSET Identity]
      BY DEF TypeOK
    <3> QED
      BY <3>1, <3>2, <3>3
  <2> QED
    BY <1>12, <2>2 DEF ReadAgain, TypeOK, kernelVars, history
<1>13. CASE MembersRead
  <2>1. SameRequest /\ live' \in [Groups -> SUBSET Identity]
    BY <1>13 DEF MembersRead, SameRequest, TypeOK
  <2>2. CASE aim = "observe"
    BY <1>13, <2>1, <2>2, ObservedStep
       DEF MembersRead, Answer, InObservation, State, TypeOK, kernelVars, history
  <2>3. CASE aim = "signal"
    <3>1. at \in Groups
      BY <1>13, <2>3 DEF MembersRead, PlaceInv, InSignalling
    <3> QED
      BY <1>13, <2>1, <2>3, <3>1, SignalNextStep
         DEF MembersRead, Answer, InSignalling, TypeOK, kernelVars, history
  <2> QED
    BY <2>2, <2>3 DEF TypeOK
<1>14. CASE ReadFails
  BY <1>14, Spends, ObservedStep, SignalNextStep DEF ReadFails, Fault, InObservation, InSignalling, SameRequest, State, TypeOK, kernelVars
<1>15. CASE Poll
  <2>1. Unsettled \in SUBSET Nat /\ ToSignal(1) \in SUBSET Nat /\ at \in Nat /\ 1 \in Nat
    BY RequestFacts DEF TypeOK, Unsettled, ToSignal
  <2>2. at' \in Nat /\ pc' \in {"observe", "signal", "poll", "done"}
    BY <1>15, <2>1, Moves DEF Poll
  <2>3. stage' \in 0 .. 3
    <3> DEFINE last == Len(Signals)
    <3>1. last \in {2, 3} /\ stage \in 0 .. 3
      BY RequestFacts DEF TypeOK
    <3>2. stage' = stage \/ (stage < last /\ stage' = stage + 1)
      BY <1>15, Zenon DEF Poll
    <3> HIDE DEF last
    <3> QED
      BY <3>1, <3>2
  <2> QED
    BY <1>15, <2>2, <2>3 DEF Poll, TypeOK, kernelVars, scanVars, history
<1>16. CASE Verify \/ VerifyFails
  BY <1>16, Spends DEF Verify, VerifyFails, List, Fault, SameRequest, TypeOK, kernelVars
<1>17. CASE SignalLeaderless
  BY <1>17 DEF SignalLeaderless, PlaceInv, InSignalling, TypeOK, kernelVars, history
<1>18. CASE KillGroup
  BY <1>18, StrikeStep, SignalNextStep DEF KillGroup, List, PlaceInv, InSignalling, TypeOK
<1>19. CASE KillGroupRefused
  BY <1>19, Spends DEF KillGroupRefused, List, Fault, SameRequest, TypeOK, kernelVars
<1>20. CASE VerifyMember
  <2> DEFINE m == CHOOSE m \in todo : \A other \in todo : m.pid <= other.pid
  <2>1. m \in todo
    BY <1>20, FirstMember DEF VerifyMember
  <2> HIDE DEF m
  <2>2. m.pid \in Pids
    BY <2>1 DEF TypeOK, Identity
  <2>3. cursor' \in Pids \cup {0} /\ todo' \in SUBSET Identity
    BY <1>20, <2>2 DEF VerifyMember, TypeOK, m
  <2> QED
    BY <1>20, <2>3 DEF VerifyMember, TypeOK, kernelVars, history
<1>21. CASE KillMember
  BY <1>21, StrikeStep DEF KillMember, PlaceInv, InSignalling, TypeOK
<1>22. CASE MembersDone
  BY <1>22, SignalNextStep DEF MembersDone, InSignalling, TypeOK, kernelVars, scanVars, history
<1>23. CASE UNCHANGED vars
  BY <1>23 DEF vars, kernelVars, shimVars, scanVars, history, TypeOK
<1> QED
  BY <1>1, <1>2, <1>3, <1>4, <1>5, <1>6, <1>7, <1>8, <1>9, <1>10, <1>11, <1>12, <1>13, <1>14,
     <1>15, <1>16, <1>17, <1>18, <1>19, <1>20, <1>21, <1>22, <1>23
     DEF Next, Kernel, Program, Observing, Listing, Signalling

-----------------------------------------------------------------------------
(* A group seen gone is left alone.                                        *)

\* The kernel, the clock and most of the listing move nothing of the shim's.
LEMMA EveryRequest ==
  ASSUME Inv, [Next]_vars
  PROVE  SameRequest
<1>1. CASE run' = run
  BY <1>1 DEF Inv, TypeOK, SameRequest
<1>2. CASE \E what \in {"births", "others", "hops", "errors"} : Spend(what)
  BY <1>2, Spends DEF Inv
<1> QED
  BY <1>1, <1>2 DEF Next, Kernel, Fork, Leave, Exit, Reap, Reuse, Lead, Tick, Program, Accept,
     Reject, Observing, ObserveUnread, ObserveLeader, Listing, ListRead, ListSkip, Listed,
     ReadAgain, MembersRead, ReadFails, Fault, Poll, Signalling, Verify, VerifyFails,
     SignalLeaderless, KillGroup, KillGroupRefused, VerifyMember, KillMember, MembersDone,
     vars, shimVars

LEMMA StillStep ==
  ASSUME Inv, SameRequest, UNCHANGED <<pc, at, stage, states, aim, knew, struck>>
  PROVE  PlaceInv' /\ KnewInv' /\ SeenReuseIsSafe'
  BY DEF Inv, SameRequest, PlaceInv, KnewInv, SeenReuseIsSafe, InObservation, InSignalling,
     Unsettled, Groups, Recorded, Valid, Signals, Present, Unvisited

\* The next entry after an observation, and after a signal.
LEMMA AfterObserved ==
  ASSUME Inv, InObservation, SameRequest, NEW s \in State \ {"new"}, Observed(s),
         s = "led" => Recorded(at), UNCHANGED stage
  PROVE  PlaceInv' /\ states' = [states EXCEPT ![at] = s]
<1>1. Groups' = Groups /\ Signals' = Signals /\ \A n \in Groups : Recorded(n)' = Recorded(n)
  BY DEF SameRequest, Groups, Signals, Recorded, Valid
<1>2. /\ states \in [Groups -> State] /\ at \in Groups /\ Groups \in SUBSET Nat
      /\ states' = [states EXCEPT ![at] = s]
      /\ \/ pc' = "poll" /\ \A n \in Unsettled : ~(n > at)
         \/ /\ pc' = "observe" /\ at' \in Unsettled /\ at' > at
            /\ \A n \in Unsettled : n > at => at' <= n
  BY ObservedStep, RequestFacts DEF Inv, TypeOK
<1>3. \A n \in Groups : states[n] = "new" => n >= at /\ n \in Unsettled
  BY DEF Inv, PlaceInv, Unvisited, InObservation, Unsettled
<1>4. \A n \in Groups : states'[n] = "new" => Unvisited(n)'
  <2> SUFFICES ASSUME NEW n \in Groups, states'[n] = "new" PROVE Unvisited(n)'
    OBVIOUS
  <2>1. n # at /\ states[n] = "new"
    BY <1>2
  <2>2. n > at /\ n \in Unsettled
    BY <2>1, <1>3, <1>2
  <2>3. pc' = "observe" /\ n >= at'
    BY <2>2, <1>2
  <2> QED
    BY <2>3 DEF Unvisited, InObservation
<1>5. InObservation' => at' \in Unsettled'
  BY <1>1, <1>2 DEF InObservation, Unsettled
<1> QED
  BY <1>1, <1>2, <1>4, <1>5 DEF Inv, PlaceInv, InSignalling

LEMMA AfterSignal ==
  ASSUME Inv, InSignalling, SameRequest, SignalNext, UNCHANGED <<states, stage>>
  PROVE  PlaceInv'
<1>1. Groups' = Groups /\ Signals' = Signals /\ \A n \in Groups : Recorded(n)' = Recorded(n)
  BY DEF SameRequest, Groups, Signals, Recorded, Valid
<1>2. \A n \in Groups : states'[n] # "new"
  <2>1. \A n \in Groups : ~Unvisited(n)
    BY DEF Unvisited, InObservation, InSignalling
  <2> QED
    BY <2>1 DEF Inv, PlaceInv
<1>3. \/ pc' = "signal" /\ at' \in Groups /\ Present(states[at'])
      \/ pc' = "observe" /\ at' \in Unsettled
      \/ pc' = "poll"
  BY SignalNextStep
<1>4. Unsettled' = Unsettled
  BY <1>1 DEF Unsettled
<1> QED
  BY <1>1, <1>2, <1>3, <1>4 DEF Inv, PlaceInv, InObservation, InSignalling

LEMMA ReuseStep == Inv /\ [Next]_vars => PlaceInv' /\ KnewInv' /\ SeenReuseIsSafe'
<1> SUFFICES ASSUME Inv, [Next]_vars PROVE PlaceInv' /\ KnewInv' /\ SeenReuseIsSafe'
  OBVIOUS
<1> DEFINE Goal == PlaceInv' /\ KnewInv' /\ SeenReuseIsSafe'
<1>0. SameRequest /\ Groups' = Groups /\ Len(Signals)' = Len(Signals)
  BY EveryRequest DEF SameRequest, Groups, Signals
<1>00. \A n \in Groups : Recorded(n)' = Recorded(n)
  BY <1>0 DEF SameRequest, Recorded, Valid
<1> USE DEF InObservation, InSignalling
<1>1. CASE Kernel \/ Tick \/ UNCHANGED vars
  BY <1>1, <1>0, StillStep DEF Kernel, Fork, Leave, Exit, Reap, Reuse, Lead, Tick, vars,
     shimVars, scanVars, history
<1>2. CASE (\E p \in Pids : ListRead(p) \/ ListSkip(p)) \/ ReadAgain
  BY <1>2, <1>0, StillStep DEF ListRead, ListSkip, ReadAgain, shimVars, history
<1>3. CASE Accept \/ Reject
  <2>1. Groups \in SUBSET Nat /\ at \in Nat
    BY RequestFacts DEF Inv, TypeOK
  <2>2. CASE Accept
    <3>1. \/ pc' = "observe" /\ at' \in Groups /\ \A n \in Groups : at' <= n
          \/ pc' = "poll" /\ Groups = {}
      BY <2>1, <2>2, Moves DEF Accept
    <3> QED
      BY <2>2, <1>0, <1>00, <3>1, <2>1 DEF Accept, Inv, PlaceInv, KnewInv, SeenReuseIsSafe,
         Unvisited, Unsettled, scanVars, history
  <2>3. CASE Reject
    BY <2>3, <1>0, <1>00 DEF Reject, Inv, PlaceInv, KnewInv, SeenReuseIsSafe,
         Unvisited, Unsettled, scanVars, history
  <2> QED
    BY <1>3, <2>2, <2>3
<1>4. CASE ObserveUnread
  <2>1. PlaceInv' /\ states' \in {[states EXCEPT ![at] = s] : s \in {"gone", "unknown"}}
    BY <1>4, <1>0, AfterObserved DEF ObserveUnread, State
  <2> QED
    BY <1>4, <1>0, <2>1 DEF ObserveUnread, Inv, TypeOK, PlaceInv, Unsettled, KnewInv, SeenReuseIsSafe, history
<1>5. CASE ObserveLeader
  <2>1. CASE OtherProcess \/ Leads
    <3>1. PlaceInv' /\ states' = [states EXCEPT ![at] = IF Leads THEN "led" ELSE "gone"]
      BY <1>5, <2>1, <1>0, AfterObserved DEF ObserveLeader, State
    <3> QED
      BY <1>5, <2>1, <1>0, <3>1 DEF ObserveLeader, Leads, OtherProcess, Inv, TypeOK, PlaceInv,
         Unsettled, KnewInv, SeenReuseIsSafe
  <2>2. CASE ~(OtherProcess \/ Leads)
    BY <1>5, <2>2, <1>0, <1>00 DEF ObserveLeader, List, Inv, TypeOK, PlaceInv, Unvisited,
         Unsettled, KnewInv, SeenReuseIsSafe
  <2> QED
    BY <2>1, <2>2
<1>6. CASE Listed
  <2>1. UNCHANGED <<at, stage, states, aim, knew, struck>> /\ pc = "list" /\ pc' = "again"
    BY <1>6 DEF Listed, scanVars, history
  <2>2. \A n \in Groups : Unvisited(n) => Unvisited(n)'
    BY <2>1 DEF Unvisited
  <2> QED
    <3>1. aim = "observe" \/ aim = "signal"
      BY DEF Inv, TypeOK
    <3>2. CASE aim = "observe"
      BY <2>1, <2>2, <1>0, <1>00, <3>2 DEF Inv, PlaceInv, KnewInv, SeenReuseIsSafe, Unsettled
    <3>3. CASE aim = "signal"
      BY <2>1, <2>2, <1>0, <1>00, <3>3 DEF Inv, PlaceInv, KnewInv, SeenReuseIsSafe, Present
    <3> QED
      BY <3>1, <3>2, <3>3
<1>7. CASE MembersRead
  <2>1. CASE aim = "observe"
    <3>1. PlaceInv' /\ states' \in {[states EXCEPT ![at] = s] : s \in {"gone", "leaderless"}}
      BY <1>7, <2>1, <1>0, AfterObserved DEF MembersRead, Answer, State
    <3> QED
      BY <1>7, <2>1, <1>0, <3>1 DEF MembersRead, Inv, TypeOK, PlaceInv, Unsettled, KnewInv,
         SeenReuseIsSafe, history
  <2>2. CASE aim = "signal"
    <3>1. CASE SignalNext
      BY <1>7, <2>2, <3>1, <1>0, AfterSignal DEF MembersRead, Answer, Inv, KnewInv,
         SeenReuseIsSafe, history
    <3>2. CASE pc' = "member"
      <4>1. UNCHANGED <<at, stage, states, aim, knew, struck>> /\ pc = "again"
        BY <1>7, <2>2, <3>2, SignalNextStep DEF MembersRead, Answer, history
      <4>2. \A n \in Groups : ~Unvisited(n)
        BY <4>1, <2>2 DEF Unvisited
      <4> QED
        BY <4>1, <4>2, <2>2, <3>2, <1>0, <1>00 DEF Inv, PlaceInv, KnewInv, SeenReuseIsSafe, Present
    <3> QED
      BY <1>7, <2>2, <3>1, <3>2 DEF MembersRead, Answer
  <2> QED
    BY <2>1, <2>2 DEF Inv, TypeOK
<1>8. CASE ReadFails
  <2>1. CASE aim' = "observe"
    <3>1. PlaceInv' /\ states' = [states EXCEPT ![at] = "unknown"]
      BY <1>8, <2>1, <1>0, AfterObserved DEF ReadFails, State
    <3> QED
      BY <1>8, <2>1, <1>0, <3>1 DEF ReadFails, Inv, TypeOK, PlaceInv, Unsettled, KnewInv,
         SeenReuseIsSafe
  <2>2. CASE aim' # "observe"
    BY <1>8, <2>2, <1>0, AfterSignal DEF ReadFails, Inv, TypeOK, KnewInv, SeenReuseIsSafe
  <2> QED
    BY <2>1, <2>2
<1>9. CASE Poll
  <2>1. Unsettled \in SUBSET Nat /\ ToSignal(1) \in SUBSET Nat
    BY RequestFacts DEF Inv, Unsettled, ToSignal
  <2>2. \A n \in Groups : states[n] # "new"
    <3>1. \A n \in Groups : ~Unvisited(n)
      BY <1>9 DEF Poll, Unvisited
    <3> QED
      BY <3>1 DEF Inv, PlaceInv
  <2>3. CASE pc' = "done" /\ UNCHANGED <<at, stage>>
    BY <1>9, <2>2, <2>3, <1>0, <1>00 DEF Poll, Inv, PlaceInv, KnewInv, SeenReuseIsSafe, history
  <2>4. CASE GoTo(Unsettled, "observe", "poll") /\ UNCHANGED stage
    <3>1. (pc' = "observe" /\ at' \in Unsettled) \/ pc' = "poll"
      BY <2>1, <2>4, Moves
    <3> QED
      BY <1>9, <2>2, <2>4, <1>0, <1>00, <3>1 DEF Poll, Inv, PlaceInv, KnewInv, SeenReuseIsSafe,
         Unsettled, history
  <2>5. CASE stage < Len(Signals) /\ GoTo(ToSignal(1), "signal", "poll") /\ stage' = stage + 1
    <3> DEFINE last == Len(Signals)
    <3>1. (pc' = "signal" /\ at' \in ToSignal(1)) \/ pc' = "poll"
      BY <2>1, <2>5, Moves
    <3>2. last \in Nat /\ stage \in 0 .. last
      BY RequestFacts DEF Inv, PlaceInv
    <3>3. stage' \in 0 .. last /\ stage' > 0
      <4>1. stage < last /\ stage' = stage + 1
        BY <2>5
      <4> HIDE DEF last
      <4> QED
        BY <3>2, <4>1
    <3> QED
      BY <1>9, <2>2, <1>0, <1>00, <3>1, <3>3 DEF Poll, Inv, PlaceInv, KnewInv, SeenReuseIsSafe,
         ToSignal, history
  <2> QED
    BY <1>9, <2>3, <2>4, <2>5 DEF Poll
<1>10. CASE Verify \/ VerifyFails
  BY <1>10, <1>0, <1>00 DEF Inv, TypeOK, PlaceInv, Unvisited, KnewInv, SeenReuseIsSafe, Verify, VerifyFails, List, Unsettled, Present, kernelVars
<1>11. CASE SignalLeaderless
  BY <1>11, <1>0, <1>00 DEF Inv, PlaceInv, Unvisited, KnewInv, SeenReuseIsSafe, SignalLeaderless, Unsettled, Present, kernelVars, history
<1>12. CASE KillGroup
  <2>1. "gone" \notin struck'
    BY <1>12, StrikeStep DEF KillGroup, Inv, PlaceInv, Present, KnewInv, SeenReuseIsSafe
  <2>2. CASE SignalNext
    BY <1>12, <2>1, <2>2, <1>0, AfterSignal DEF KillGroup, Inv, KnewInv, SeenReuseIsSafe
  <2>3. CASE List("signal")
    BY <1>12, <2>1, <2>3, <1>0, <1>00 DEF KillGroup, List, Inv, PlaceInv, Unvisited, Present, KnewInv,
       SeenReuseIsSafe
  <2> QED
    BY <1>12, <2>2, <2>3 DEF KillGroup
<1>13. CASE KillGroupRefused
  BY <1>13, <1>0, <1>00 DEF Inv, PlaceInv, Unvisited, KnewInv, SeenReuseIsSafe, KillGroupRefused, List, Unsettled, Present, kernelVars
<1>14. CASE VerifyMember
  BY <1>14, <1>0, <1>00 DEF Inv, PlaceInv, Unvisited, KnewInv, SeenReuseIsSafe, VerifyMember, Unsettled, Present, kernelVars, history
<1>15. CASE KillMember
  <2>1. "gone" \notin struck'
    BY <1>15, StrikeStep DEF KillMember, Inv, PlaceInv, Present, KnewInv, SeenReuseIsSafe
  <2> QED
    BY <1>15, <2>1, <1>0, <1>00 DEF KillMember, Inv, PlaceInv, Unvisited, Present, KnewInv, SeenReuseIsSafe
<1>16. CASE MembersDone
  BY <1>16, <1>0, AfterSignal DEF MembersDone, Inv, KnewInv, SeenReuseIsSafe, history
<1> QED
  BY <1>1, <1>2, <1>3, <1>4, <1>5, <1>6, <1>7, <1>8, <1>9, <1>10, <1>11, <1>12, <1>13, <1>14,
     <1>15, <1>16
     DEF Next, Program, Observing, Listing, Signalling

LEMMA InvInit == Init => Inv
<1> SUFFICES ASSUME Init PROVE Inv
  OBVIOUS
<1>1. run \in RequestType /\ Groups \in SUBSET Nat
  BY RequestsAssumption DEF Init, RequestType, Groups
<1>2. TypeOK
  <2>1. os \in [Pids -> Process]
    <3> DEFINE Led(p) == \E n \in Groups : Recorded(n) /\ Pgid(n) = p
    <3>1. \A p \in Pids : Led(p) \in BOOLEAN
      OBVIOUS
    <3> HIDE DEF Led
    <3>2. os = [p \in Pids |-> IF Led(p) THEN [life |-> "live", era |-> 0, group |-> p]
                               ELSE [life |-> "free", era |-> 0, group |-> 0]]
      BY DEF Init, Led
    <3> QED
      BY <3>1, <3>2 DEF Process
  <2> QED
    <3>1. /\ again = {} /\ pc = "read" /\ at = 1 /\ stage = 0 /\ late = FALSE
          /\ states = [n \in Groups |-> "new"] /\ live = [n \in Groups |-> {}]
          /\ aim = "observe" /\ names = {} /\ cursor = 0 /\ found = {} /\ todo = {}
          /\ slipped = [n \in Groups |-> FALSE] /\ knew = [n \in Groups |-> "nothing"]
          /\ struck = {} /\ failed = FALSE
      BY DEF Init
    <3>2. late \in BOOLEAN /\ failed \in BOOLEAN /\ slipped \in [Groups -> BOOLEAN]
      BY <3>1, Zenon
    <3>3. /\ states \in [Groups -> State] /\ live \in [Groups -> SUBSET Identity]
          /\ knew \in [Groups -> {"nothing", "gone", "refused"}]
      BY <3>1 DEF State
    <3> QED
      BY <1>1, <2>1, <3>1, <3>2, <3>3 DEF TypeOK
<1>3. PlaceInv
  BY <1>1, <1>2, RequestFacts DEF Init, PlaceInv, InObservation, InSignalling, Unvisited
<1> QED
  BY <1>2, <1>3 DEF Init, Inv, KnewInv, SeenReuseIsSafe

LEMMA InvStep == Inv /\ [Next]_vars => Inv'
  BY TypeStep, ReuseStep DEF Inv

LEMMA Invariant == Spec => []Inv
  BY InvInit, InvStep, PTL DEF Spec

\* For any request, pids and bounds, every variable keeps the type the code
\* gives it, whatever the kernel does between two reads.
THEOREM GroupsTypeCorrect == Spec => []TypeOK
  BY Invariant, PTL DEF Inv

\* A pid once seen with another process is never signalled for its entry again.
THEOREM SeenReuseIsLeftAlone == Spec => []SeenReuseIsSafe
  BY Invariant, PTL DEF Inv

-----------------------------------------------------------------------------
(* A group reported gone.                                                  *)

Members(g) == {p \in In(g) : Alive(p)}

\* The id of a reused pid names no group until its new process leads one.
EraInv == \A p \in Pids : os[p].era > 0 /\ p \notin again => In(p) = {}

\* What is left of an observed group has been listed or is still to be read.
ListInv ==
  (pc \in {"list", "again"} /\ aim = "observe" /\ ~slipped[at] /\ Pgid(at) \notin again)
    => \A p \in Members(Pgid(at)) :
         \/ p \in found
         \/ pc = "list" /\ p \in names /\ p > cursor
         \/ pc = "again" /\ live[at] # {}

GroupInv == Inv /\ EraInv /\ ListInv /\ GoneSurvivorSlipped

\* The program and the clock leave the groups as they are.
LEMMA OnlyStrikes ==
  ASSUME Inv, Program \/ Tick \/ UNCHANGED vars
  PROVE  /\ again' = again
         /\ \A p \in Pids : /\ os'[p].era = os[p].era /\ os'[p].group = os[p].group
                            /\ (Alive(p)' <=> Alive(p)) /\ (Exists(p)' <=> Exists(p))
                            /\ os'[p].life = "live" => os[p].life = "live"
<1>1. CASE KillGroup
  BY <1>1, StrikeStep DEF KillGroup, Inv, PlaceInv, InSignalling
<1>2. CASE KillMember
  BY <1>2, StrikeStep DEF KillMember, Inv, PlaceInv, InSignalling
<1>3. CASE UNCHANGED kernelVars
  BY <1>3 DEF kernelVars, Alive, Exists
<1> QED
  BY <1>1, <1>2, <1>3 DEF Tick, Program, Accept,
     Reject, Observing, ObserveUnread, ObserveLeader, Listing, ListRead, ListSkip, Listed,
     ReadAgain, MembersRead, ReadFails, Poll, Signalling, Verify, VerifyFails,
     SignalLeaderless, KillGroupRefused, VerifyMember, MembersDone, vars

LEMMA EraStep == Inv /\ EraInv /\ [Next]_vars => EraInv'
<1> SUFFICES ASSUME Inv, EraInv, [Next]_vars PROVE EraInv'
  OBVIOUS
<1> DEFINE Goal == EraInv'
<1>0. Program \/ Tick \/ UNCHANGED vars =>
        /\ again' = again
        /\ \A p \in Pids : os'[p].era = os[p].era /\ In(p)' = In(p)
  <2> SUFFICES ASSUME Program \/ Tick \/ UNCHANGED vars
               PROVE  /\ again' = again
                      /\ \A p \in Pids : os'[p].era = os[p].era /\ In(p)' = In(p)
    OBVIOUS
  <2> QED
    BY OnlyStrikes DEF In
<1> USE PidsAssumption DEF Inv, TypeOK, Process, EraInv, In, Exists
<1>1. ASSUME NEW p \in Pids, NEW q \in Pids, Fork(p, q) PROVE Goal
  BY <1>1 DEF Fork, Available
<1>2. ASSUME NEW p \in Pids, Leave(p) \/ Exit(p) \/ Reap(p) PROVE Goal
  BY <1>2 DEF Leave, Exit, Reap, Alive
<1>3. ASSUME NEW p \in Pids, Reuse(p) \/ Lead(p) PROVE Goal
  BY <1>3 DEF Reuse, Lead, Available
<1>4. CASE Program \/ Tick \/ UNCHANGED vars
  BY <1>4, <1>0
<1> QED
  BY <1>1, <1>2, <1>3, <1>4 DEF Next, Kernel

\* No process joins a group but by a fork of one of its own.
LEMMA NoGrowth ==
  ASSUME Inv, EraInv, [Next]_vars, NEW n \in Groups, Recorded(n), Pgid(n)' \notin again',
         Kernel => ~slipped'[n]
  PROVE  /\ Pgid(n)' = Pgid(n) /\ Pgid(n) \notin again
         /\ Members(Pgid(n))' \subseteq Members(Pgid(n))
<1>0. Pgid(n)' = Pgid(n) /\ Pgid(n) \in Pids
  BY EveryRequest DEF SameRequest, Pgid, Recorded, Valid
<1> DEFINE g == Pgid(n)
<1> HIDE DEF g
<1>01. Program \/ Tick \/ UNCHANGED vars =>
         again' = again /\ Members(g)' = {p \in Pids : Exists(p) /\ Alive(p) /\ os[p].group = g'}
  <2> SUFFICES ASSUME Program \/ Tick \/ UNCHANGED vars
               PROVE  again' = again
                      /\ Members(g)' = {p \in Pids : Exists(p) /\ Alive(p) /\ os[p].group = g'}
    OBVIOUS
  <2> QED
    BY OnlyStrikes DEF Members, In
<1> DEFINE Goal == g \notin again /\ Members(g)' \subseteq Members(g)
<1>00. g \in Pids /\ g = Pgid(n) /\ g' = g /\ g \notin again'
  BY <1>0 DEF g
<1> USE PidsAssumption DEF Inv, TypeOK, Process, Members, In, Exists, Alive
<1>1. ASSUME NEW p \in Pids, NEW q \in Pids, Fork(p, q), ~slipped'[n] PROVE Goal
  BY <1>1, <1>00 DEF Fork
<1>2. ASSUME NEW p \in Pids, Leave(p) \/ Exit(p) \/ Reap(p) PROVE Goal
  BY <1>2, <1>00 DEF Leave, Exit, Reap
<1>3. ASSUME NEW p \in Pids, Reuse(p) \/ Lead(p) PROVE Goal
  BY <1>3, <1>00 DEF Reuse, Lead
<1>4. ASSUME Program \/ Tick \/ UNCHANGED vars PROVE Goal
  BY <1>4, <1>00, <1>01
<1>5. Goal
  BY <1>1, <1>2, <1>3, <1>4 DEF Next, Kernel
<1> QED
  BY <1>5, <1>0, <1>00

LEMMA ListStep == GroupInv /\ [Next]_vars => ListInv'
<1> SUFFICES ASSUME GroupInv, [Next]_vars, pc' \in {"list", "again"}, aim' = "observe",
                    ~slipped'[at'], Pgid(at)' \notin again', NEW m \in Members(Pgid(at))'
             PROVE  \/ m \in found'
                    \/ pc' = "list" /\ m \in names' /\ m > cursor'
                    \/ pc' = "again" /\ live'[at'] # {}
  BY DEF ListInv, Members, In
<1> DEFINE Goal == \/ m \in found'
                   \/ pc' = "list" /\ m \in names' /\ m > cursor'
                   \/ pc' = "again" /\ live'[at'] # {}
<1>1. Inv /\ EraInv /\ TypeOK /\ m \in Pids
  BY DEF GroupInv, Inv, Members, In
<1>2. CASE ObserveLeader
  <2>1. at' = at /\ at \in Groups /\ Recorded(at) /\ pc' = "list" /\ cursor' = 0
        /\ names' = {p \in Pids : Exists(p)} /\ UNCHANGED os
    BY <1>1, <1>2 DEF ObserveLeader, List, Observed, GoTo, Inv, PlaceInv, InObservation,
       Unsettled, kernelVars
  <2> QED
    BY <1>1, <2>1, PidsAssumption DEF Members, In, Exists
<1>3. ASSUME pc \in {"list", "again"}, aim = "observe", at' = at, slipped[at] => slipped'[at],
             \/ UNCHANGED <<pc, found, names, cursor, live>>
             \/ (\E p \in Pids : ListRead(p) \/ ListSkip(p)) \/ Listed \/ ReadAgain
      PROVE  Goal
  <2>1. at \in Groups /\ Recorded(at)
    BY <1>1, <1>3 DEF Inv, PlaceInv, InObservation, Unsettled
  <2>2. Pgid(at)' = Pgid(at) /\ Pgid(at) \notin again /\ m \in Members(Pgid(at))
    BY <1>1, <1>3, <2>1, NoGrowth
  <2>3. \/ m \in found
        \/ pc = "list" /\ m \in names /\ m > cursor
        \/ pc = "again" /\ live[at] # {}
    BY <1>3, <2>2 DEF GroupInv, ListInv
  <2>4. CASE UNCHANGED <<pc, found, names, cursor, live>>
    BY <1>3, <2>3, <2>4
  <2>5. ASSUME NEW p \in Pids, ListRead(p) PROVE Goal
    <3>1. CASE m \in found
      BY <2>5, <3>1 DEF ListRead
    <3>2. CASE m \in Entries
      <4>1. p = m \/ m > p
        BY <2>5, <3>2, <1>1, PidsAssumption DEF ListRead
      <4> QED
        BY <2>5, <3>2, <4>1, <2>2 DEF ListRead, Members, shimVars, Entries
    <3> QED
      BY <2>3, <2>5, <3>1, <3>2 DEF ListRead, Entries
  <2>6. ASSUME NEW p \in Pids, ListSkip(p) PROVE Goal
    BY <2>6, <1>1, <2>1, <1>3 DEF ListSkip, TypeOK
  <2>7. CASE Listed
    BY <2>3, <2>7 DEF Listed, Entries, scanVars
  <2>8. CASE ReadAgain
    <3>1. CASE m = Min(found)
      <4> DEFINE r == [pid |-> m, era |-> os[m].era]
      <4>1. Alive(m) /\ os[m].group = Pgid(at)
        BY <2>2 DEF Members, In
      <4>2. live' = [live EXCEPT ![at] = @ \cup {r}] /\ pc' = "again"
        BY <2>8, <3>1, <4>1 DEF ReadAgain
      <4> HIDE DEF r
      <4>3. at \in DOMAIN live
        BY <1>1, <2>1 DEF TypeOK
      <4> QED
        BY <4>2, <4>3, <1>3
    <3>2. CASE m \in found /\ m # Min(found)
      BY <2>8, <3>2 DEF ReadAgain
    <3>3. CASE live[at] # {}
      BY <2>8, <3>3, <1>1, <2>1, <1>3 DEF ReadAgain, TypeOK
    <3> QED
      BY <2>3, <2>8, <3>1, <3>2, <3>3 DEF ReadAgain
  <2> QED
    BY <1>3, <2>4, <2>5, <2>6, <2>7, <2>8
<1>4. CASE Kernel \/ Tick \/ UNCHANGED vars
  <2>1. UNCHANGED <<pc, aim, at, found, names, cursor, live>>
    BY <1>4 DEF Kernel, Fork, Leave, Exit, Reap, Reuse, Lead, Tick, vars, shimVars, scanVars
  <2>2. at \in Groups
    BY <1>1, <2>1 DEF Inv, PlaceInv, InObservation, Unsettled
  <2>3. CASE slipped' = slipped
    BY <2>1, <2>3, <1>3
  <2>4. CASE \E p, q \in Pids : Fork(p, q)
    <3>1. slipped[at] => slipped'[at]
      BY <2>2, <2>4, Zenon DEF Fork
    <3> QED
      BY <2>1, <3>1, <1>3
  <2> QED
    BY <1>4, <2>3, <2>4 DEF Kernel, Leave, Exit, Reap, Reuse, Lead, Tick, vars, history
<1>5. CASE (\E p \in Pids : ListRead(p) \/ ListSkip(p)) \/ Listed \/ ReadAgain
  <2>1. pc \in {"list", "again"} /\ UNCHANGED <<aim, at>>
    BY <1>5 DEF ListRead, ListSkip, Listed, ReadAgain, shimVars, scanVars
  <2>2. slipped[at] => slipped'[at]
    <3>1. at \in Groups
      BY <1>1, <2>1 DEF Inv, PlaceInv, InObservation, Unsettled
    <3> QED
      BY <1>1, <1>5, <3>1, Zenon DEF ListRead, ListSkip, Listed, ReadAgain, history, TypeOK
  <2> QED
    BY <1>5, <2>1, <2>2, <1>3
<1>6. CASE MembersRead \/ ReadFails
  <2>1. pc' \notin {"list", "again"}
    BY <1>6 DEF MembersRead, ReadFails, Answer, Observed, SignalNext, GoTo
  <2> QED
    BY <2>1
<1> QED
  BY <1>2, <1>4, <1>5, <1>6
     DEF Next, Program, Observing, Listing, Signalling, Accept, Reject, ObserveUnread, Observed,
     SignalNext, GoTo, Poll, Verify, VerifyFails, List, SignalLeaderless, KillGroup,
     KillGroupRefused, VerifyMember, KillMember, MembersDone, scanVars

LEMMA GoneStep == GroupInv /\ [Next]_vars => GoneSurvivorSlipped'
<1> SUFFICES ASSUME GroupInv, [Next]_vars, NEW n \in Groups', Recorded(n)',
                    states'[n] = "gone", Pgid(n)' \notin again',
                    NEW m \in In(Pgid(n))', Alive(m)', ~slipped'[n]
             PROVE  FALSE
  BY DEF GoneSurvivorSlipped
<1>1. Inv /\ EraInv /\ TypeOK /\ SameRequest
  BY EveryRequest DEF GroupInv, Inv
<1>2. n \in Groups /\ Recorded(n) /\ Pgid(n) \in Pids
  BY <1>1 DEF SameRequest, Groups, Recorded, Valid, Pgid
<1>3. Pgid(n) \notin again /\ m \in Members(Pgid(n)) /\ Members(Pgid(n)) # {}
  BY <1>1, <1>2, NoGrowth DEF Members
<1>4. CASE states[n] = "gone" /\ (slipped[n] => slipped'[n])
  BY <1>2, <1>3, <1>4 DEF GroupInv, GoneSurvivorSlipped, Members
<1>5. CASE ObserveLeader
  <2>1. CASE n # at
    BY <1>1, <1>2, <1>4, <1>5, <2>1 DEF ObserveLeader, Observed, TypeOK
  <2>2. CASE n = at
    <3>1. states[at] # "gone"
      BY <1>1, <1>5, <2>2 DEF ObserveLeader, Inv, PlaceInv, InObservation, Unsettled
    <3>2. OtherProcess
      BY <1>1, <1>2, <1>5, <2>2, <3>1 DEF ObserveLeader, Observed, TypeOK
    <3>3. In(Pgid(n)) = {}
      BY <1>1, <1>2, <1>3, <3>2, <2>2 DEF OtherProcess, SameProcess, Leader, EraInv, TypeOK, Process
    <3> QED
      BY <1>3, <3>3 DEF Members
  <2> QED
    BY <2>1, <2>2
<1>6. CASE ObserveUnread
  <2>1. n # at /\ states' \in {[states EXCEPT ![at] = s] : s \in {"gone", "unknown"}}
    BY <1>2, <1>6 DEF ObserveUnread, Observed
  <2>2. states[n] = "gone" /\ slipped' = slipped
    BY <1>1, <1>2, <1>6, <2>1 DEF ObserveUnread, history, TypeOK
  <2> QED
    BY <1>4, <2>2
<1>7. CASE MembersRead
  <2>1. slipped' = slipped /\ pc = "again" /\ found = {}
    BY <1>7 DEF MembersRead, history
  <2>2. CASE states[n] = "gone"
    BY <1>4, <2>1, <2>2
  <2>3. CASE states[n] # "gone"
    <3>1. aim = "observe" /\ n = at /\ live[at] = {}
      BY <1>1, <1>2, <1>7, <2>3 DEF MembersRead, Answer, Observed, TypeOK
    <3> QED
      BY <1>3, <2>1, <3>1 DEF GroupInv, ListInv
  <2> QED
    BY <2>2, <2>3
<1>8. CASE ReadFails
  BY <1>1, <1>2, <1>4, <1>8 DEF ReadFails, Observed, TypeOK
<1>9. CASE \E p, q \in Pids : Fork(p, q)
  BY <1>1, <1>2, <1>4, <1>9, Zenon DEF Fork, shimVars
<1>10. CASE \E p \in Pids : ListSkip(p)
  <2>1. states' = states /\ slipped' = [slipped EXCEPT ![at] = TRUE]
    BY <1>10 DEF ListSkip, shimVars
  <2>2. slipped[n] => slipped'[n]
    BY <1>1, <1>2, <2>1 DEF TypeOK
  <2> QED
    BY <2>1, <2>2, <1>4
<1>11. CASE UNCHANGED <<states, slipped>>
  BY <1>4, <1>11
<1> QED
  BY <1>5, <1>6, <1>7, <1>8, <1>9, <1>10, <1>11
     DEF Next, Kernel, Leave, Exit, Reap, Reuse, Lead, Tick, Program, Accept, Reject, Observing,
     Listing, ListRead, Listed, ReadAgain, Poll, Signalling, Verify, VerifyFails,
     SignalLeaderless, KillGroup, KillGroupRefused, VerifyMember, KillMember, MembersDone, vars,
     shimVars, history

LEMMA GroupInvInit == Init => GroupInv
  BY InvInit DEF Init, GroupInv, EraInv, ListInv, GoneSurvivorSlipped

LEMMA GroupInvStep == GroupInv /\ [Next]_vars => GroupInv'
  BY InvStep, EraStep, ListStep, GoneStep DEF GroupInv

-----------------------------------------------------------------------------
(* A leader that a stop leaves in place.                                   *)

\* The recorded leader lives in its group, and no KILL is on its way.
Leading(n) ==
  os[Pgid(n)].life = "live" /\ os[Pgid(n)].era = 0 /\ os[Pgid(n)].group = Pgid(n)

\* Whatever an observation ended with but "led", the leader did not lead then.
SettledInv ==
  \A n \in Groups :
    Recorded(n) =>
      /\ states[n] \in {"gone", "leaderless"} => ~Leading(n)
      /\ states[n] = "unknown" => failed
      /\ (pc \in {"list", "again"} /\ aim = "observe" /\ n = at) => ~Leading(n)

\* In the last stage only the entries still to be signalled can lead.
KillInv ==
  (stage = Len(Signals) /\ ~failed) =>
    \A n \in Groups :
      Recorded(n) /\ Leading(n) =>
        InSignalling /\ n >= at /\ (n = at => pc \in {"signal", "group"})

\* A stop gives up at its last stage.
DoneInv ==
  (pc = "done" /\ run.op = "stop" /\ \E n \in Groups : Present(states[n])) => stage = Len(Signals)

StopInv == GroupInv /\ SettledInv /\ KillInv /\ DoneInv

\* A leader that stopped leading does not lead again.
LEMMA NoNewLeader ==
  ASSUME Inv, [Next]_vars, NEW n \in Groups, Recorded(n), Leading(n)'
  PROVE  Leading(n)
<1>0. Pgid(n)' = Pgid(n) /\ Pgid(n) \in Pids
  BY EveryRequest DEF SameRequest, Pgid, Recorded, Valid
<1> DEFINE g == Pgid(n)
<1> HIDE DEF g
<1>1. g \in Pids /\ os'[g].life = "live" /\ os'[g].era = 0 /\ os'[g].group = g
  BY <1>0 DEF g, Leading
<1> DEFINE Goal == os[g].life = "live" /\ os[g].era = 0 /\ os[g].group = g
<1>2. ASSUME Program \/ Tick \/ UNCHANGED vars PROVE Goal
  BY <1>1, <1>2, OnlyStrikes
<1> USE PidsAssumption DEF Inv, TypeOK, Process
<1>3. ASSUME NEW p \in Pids, NEW q \in Pids, Fork(p, q) PROVE Goal
  BY <1>1, <1>3 DEF Fork
<1>4. ASSUME NEW p \in Pids, Leave(p) \/ Exit(p) \/ Reap(p) PROVE Goal
  BY <1>1, <1>4 DEF Leave, Exit, Reap
<1>5. ASSUME NEW p \in Pids, Reuse(p) \/ Lead(p) PROVE Goal
  BY <1>1, <1>5 DEF Reuse, Lead
<1>6. Goal
  BY <1>2, <1>3, <1>4, <1>5 DEF Next, Kernel
<1> QED
  BY <1>6 DEF g, Leading

LEMMA LeadingLeads ==
  ASSUME TypeOK, NEW n \in Groups, Recorded(n), Leading(n), n = at
  PROVE  Leads /\ ~OtherProcess /\ Pgid(n) \in In(Pgid(n))
<1>1. Pgid(n) \in Pids /\ Pgid(n) = Pgid(at)
  BY DEF Recorded, Valid, Pgid
<1>2. os[Pgid(n)].life = "live" /\ os[Pgid(n)].era = 0 /\ os[Pgid(n)].group = Pgid(n)
  BY DEF Leading
<1> QED
  BY <1>1, <1>2 DEF Leads, OtherProcess, SameProcess, Leader, Alive, Exists, In

LEMMA SettledStep == StopInv /\ [Next]_vars => SettledInv'
<1> SUFFICES ASSUME StopInv, [Next]_vars, NEW n \in Groups', Recorded(n)'
             PROVE  /\ states'[n] \in {"gone", "leaderless"} => ~Leading(n)'
                    /\ states'[n] = "unknown" => failed'
                    /\ (pc' \in {"list", "again"} /\ aim' = "observe" /\ n = at') => ~Leading(n)'
  BY DEF SettledInv
<1> DEFINE Goal == /\ states'[n] \in {"gone", "leaderless"} => ~Leading(n)'
                   /\ states'[n] = "unknown" => failed'
                   /\ (pc' \in {"list", "again"} /\ aim' = "observe" /\ n = at') => ~Leading(n)'
<1>1. Inv /\ TypeOK /\ SameRequest
  BY EveryRequest DEF StopInv, GroupInv, Inv
<1>2. n \in Groups /\ Recorded(n) /\ (Leading(n)' => Leading(n))
  BY <1>1, NoNewLeader DEF SameRequest, Groups, Recorded, Valid
<1>3. /\ states[n] \in {"gone", "leaderless"} => ~Leading(n)
      /\ states[n] = "unknown" => failed
      /\ (pc \in {"list", "again"} /\ aim = "observe" /\ n = at) => ~Leading(n)
  BY <1>2 DEF StopInv, SettledInv
<1>4. failed => failed'
  BY DEF Next, Kernel, Fork, Leave, Exit, Reap, Reuse, Lead, Tick, Program, Accept,
     Reject, Observing, ObserveUnread, ObserveLeader, Listing, ListRead, ListSkip, Listed,
     ReadAgain, MembersRead, ReadFails, Fault, Poll, Signalling, Verify, VerifyFails,
     SignalLeaderless, KillGroup, KillGroupRefused, VerifyMember, KillMember, MembersDone,
     vars, history
<1>5. CASE ObserveUnread
  <2>1. n # at /\ states' \in {[states EXCEPT ![at] = s] : s \in {"gone", "unknown"}}
        /\ pc' \notin {"list", "again"}
    BY <1>2, <1>5 DEF ObserveUnread, Observed, GoTo
  <2> QED
    BY <1>1, <1>2, <1>3, <1>4, <2>1 DEF TypeOK
<1>6. CASE ObserveLeader
  <2>1. CASE n # at
    BY <1>1, <1>2, <1>3, <1>4, <1>6, <2>1 DEF ObserveLeader, Observed, List, GoTo, TypeOK
  <2>2. CASE n = at
    <3>1. states[at] \notin {"gone"} /\ Leading(n) => Leads /\ ~OtherProcess
      BY <1>1, <1>2, <2>2, LeadingLeads
    <3> QED
      BY <1>1, <1>2, <1>3, <1>4, <1>6, <2>2, <3>1, LeadingLeads DEF ObserveLeader, Observed, List, GoTo, TypeOK
  <2> QED
    BY <2>1, <2>2
<1>7. CASE MembersRead
  <2>1. pc = "again" /\ pc' \notin {"list", "again"}
    BY <1>7 DEF MembersRead, Answer, Observed, SignalNext, GoTo
  <2>2. states' = states \/ (aim = "observe" /\ states' \in
          {[states EXCEPT ![at] = s] : s \in {"gone", "leaderless"}})
    BY <1>7 DEF MembersRead, Answer, Observed
  <2> QED
    BY <1>1, <1>2, <1>3, <1>4, <2>1, <2>2 DEF TypeOK
<1>8. CASE ReadFails
  <2>1. failed' /\ pc' \notin {"list", "again"}
    BY <1>8 DEF ReadFails, Fault, Observed, SignalNext, GoTo
  <2>2. states' = states \/ states' = [states EXCEPT ![at] = "unknown"]
    BY <1>8 DEF ReadFails, Observed
  <2> QED
    BY <1>1, <1>2, <1>3, <2>1, <2>2 DEF TypeOK
<1>9. CASE states' = states /\ (pc' \in {"list", "again"} =>
                                (pc \in {"list", "again"} /\ UNCHANGED <<aim, at>>) \/ aim' = "signal")
  BY <1>2, <1>3, <1>4, <1>9
<1> QED
  BY <1>5, <1>6, <1>7, <1>8, <1>9
     DEF Next, Kernel, Fork, Leave, Exit, Reap, Reuse, Lead, Tick, Program, Accept, Reject, Observing,
     Listing, ListRead, ListSkip, Listed, ReadAgain, Poll, Signalling, Verify, VerifyFails, List,
     SignalLeaderless, KillGroup, KillGroupRefused, VerifyMember, KillMember, MembersDone, vars,
     SignalNext, GoTo, shimVars, scanVars

LEMMA KillStep == StopInv /\ [Next]_vars => KillInv'
<1> SUFFICES ASSUME StopInv, [Next]_vars, stage' = Len(Signals)', ~failed',
                    NEW n \in Groups', Recorded(n)', Leading(n)'
             PROVE  InSignalling' /\ n >= at' /\ (n = at' => pc' \in {"signal", "group"})
  BY DEF KillInv
<1> DEFINE Goal == InSignalling' /\ n >= at' /\ (n = at' => pc' \in {"signal", "group"})
<1>1. Inv /\ TypeOK /\ SameRequest /\ Len(Signals)' = Len(Signals) /\ Len(Signals) \in {2, 3}
  BY EveryRequest, RequestFacts DEF StopInv, GroupInv, Inv, SameRequest, Signals
<1>2. n \in Groups /\ Recorded(n) /\ Leading(n) /\ Groups \in SUBSET Nat /\ n \in Nat /\ at \in Nat
  BY <1>1, NoNewLeader, RequestFacts DEF SameRequest, Groups, Recorded, Valid, TypeOK
<1>3. ~failed
  BY DEF Next, Kernel, Fork, Leave, Exit, Reap, Reuse, Lead, Tick, Program, Accept,
     Reject, Observing, ObserveUnread, ObserveLeader, Listing, ListRead, ListSkip, Listed,
     ReadAgain, MembersRead, ReadFails, Fault, Poll, Signalling, Verify, VerifyFails,
     SignalLeaderless, KillGroup, KillGroupRefused, VerifyMember, KillMember, MembersDone,
     vars, history
<1>4. states[n] \in {"new", "led"}
  BY <1>1, <1>2, <1>3 DEF StopInv, SettledInv, TypeOK, State
<1>5. stage = Len(Signals) =>
        InSignalling /\ n >= at /\ (n = at => pc \in {"signal", "group"})
  BY <1>2, <1>3 DEF StopInv, KillInv
<1>6. InSignalling => states[n] = "led" /\ Present(states[n])
  BY <1>1, <1>2, <1>4 DEF Inv, PlaceInv, Unvisited, InObservation, InSignalling, Present
<1>7. CASE Poll
  <2>1. stage # Len(Signals)
    BY <1>5, <1>7 DEF Poll, InSignalling
  <2>2. GoTo(ToSignal(1), "signal", "poll")
    BY <1>1, <1>7, <2>1 DEF Poll
  <2>3. states[n] = "led"
    BY <1>1, <1>2, <1>4, <1>7 DEF Poll, Inv, PlaceInv, Unvisited, InObservation
  <2>4. n \in ToSignal(1) /\ ToSignal(1) \in SUBSET Nat
    <3>1. n >= 1
      BY <1>1, <1>2 DEF TypeOK, RequestType, Groups
    <3> QED
      BY <1>2, <2>3, <3>1 DEF ToSignal, Present
  <2> QED
    BY <1>2, <2>2, <2>4, Moves DEF InSignalling
<1>8. ASSUME InSignalling, stage = Len(Signals), SignalNext, n # at PROVE Goal
  <2>1. n > at
    BY <1>2, <1>5, <1>8
  <2>2. pc' = "signal" /\ at' <= n
    BY <1>1, <1>2, <1>6, <1>8, <2>1, SignalNextStep
  <2> QED
    BY <2>2, <1>2, <1>1 DEF TypeOK, InSignalling
<1>9. CASE stage = Len(Signals)
  <2>1. InSignalling /\ n >= at /\ (n = at => pc \in {"signal", "group"})
    BY <1>5, <1>9
  <2>2. CASE n = at
    <3>1. pc \in {"signal", "group"} /\ Leads /\ states[at] = "led" /\ Pgid(n) \in In(Pgid(n))
      BY <1>1, <1>2, <1>6, <2>1, <2>2, LeadingLeads
    <3>2. CASE Verify
      BY <3>1, <3>2, <2>2, <1>2 DEF Verify, InSignalling
    <3>3. CASE KillGroup
      <4>1. os' = Signalled(In(Pgid(n))) /\ Pgid(n) \in Pids
        BY <2>2, <3>3, <1>2 DEF KillGroup, Strike, Recorded, Valid, Pgid
      <4>2. Signals[stage] = "kill"
        BY <1>9, <1>1, RequestFacts
      <4>3. os'[Pgid(n)].life # "live"
        BY <3>1, <4>1, <4>2 DEF Signalled, TypeOK, Process
      <4>4. Pgid(n)' = Pgid(n)
        BY <1>1 DEF SameRequest, Pgid
      <4> QED
        BY <4>3, <4>4 DEF Leading
    <3>4. CASE UNCHANGED <<pc, at, aim>>
      BY <2>1, <2>2, <3>4, <1>2 DEF InSignalling
    <3>5. ~VerifyFails /\ ~KillGroupRefused
      BY DEF VerifyFails, KillGroupRefused, Fault
    <3> QED
      BY <3>1, <3>2, <3>3, <3>4, <3>5, <2>2, <1>7
         DEF Next, Kernel, Fork, Leave, Exit, Reap, Reuse, Lead, Tick, Program, Accept, Reject,
         Observing, ObserveUnread, ObserveLeader, Listing, ListRead, ListSkip, Listed, ReadAgain,
         MembersRead, ReadFails, Poll, Signalling, SignalLeaderless, VerifyMember, KillMember,
         MembersDone, vars, shimVars, scanVars
  <2>3. CASE n # at
    <3>1. CASE UNCHANGED at /\ InSignalling'
      BY <2>1, <2>3, <3>1
    <3>2. CASE SignalNext
      BY <1>8, <1>9, <2>1, <2>3, <3>2
    <3>3. aim = "signal" \/ pc \notin {"list", "again"}
      BY <2>1 DEF InSignalling
    <3>4. CASE MembersRead \/ ReadFails
      BY <2>1, <3>1, <3>2, <3>3, <3>4 DEF MembersRead, ReadFails, Answer, InSignalling
    <3>5. CASE Signalling
      BY <2>1, <3>1, <3>2, <3>5 DEF Signalling, Verify, VerifyFails, List, SignalLeaderless,
         KillGroup, KillGroupRefused, VerifyMember, KillMember, MembersDone, InSignalling
    <3>6. CASE Kernel \/ Tick \/ UNCHANGED vars
      BY <2>1, <3>1, <3>6 DEF Kernel, Fork, Leave, Exit, Reap, Reuse, Lead, Tick, vars, shimVars,
         scanVars, InSignalling
    <3>7. CASE (\E p \in Pids : ListRead(p) \/ ListSkip(p)) \/ Listed \/ ReadAgain
      BY <2>1, <3>1, <3>7 DEF ListRead, ListSkip, Listed, ReadAgain, shimVars, scanVars, InSignalling
    <3> QED
      BY <2>1, <3>4, <3>5, <3>6, <3>7, <1>7
         DEF Next, Program, Accept, Reject, Observing, ObserveUnread, ObserveLeader, Listing,
         InSignalling
  <2> QED
    BY <2>2, <2>3
<1>10. CASE stage # Len(Signals) /\ stage' = stage
  BY <1>1, <1>10
<1> QED
  BY <1>7, <1>9, <1>10
     DEF Next, Kernel, Fork, Leave, Exit, Reap, Reuse, Lead, Tick, Program, Accept, Reject,
     Observing, ObserveUnread, ObserveLeader, Listing, ListRead, ListSkip, Listed, ReadAgain,
     MembersRead, ReadFails, Signalling, Verify, VerifyFails, SignalLeaderless, KillGroup,
     KillGroupRefused, VerifyMember, KillMember, MembersDone, vars, shimVars

LEMMA DoneStep == StopInv /\ [Next]_vars => DoneInv'
<1> SUFFICES ASSUME StopInv, [Next]_vars, pc' = "done", run'.op = "stop",
                    NEW n \in Groups', Present(states'[n])
             PROVE  stage' = Len(Signals)'
  BY DEF DoneInv
<1>1. SameRequest /\ Len(Signals)' = Len(Signals) /\ n \in Groups
  BY EveryRequest DEF StopInv, GroupInv, SameRequest, Signals, Groups
<1>2. CASE Poll
  BY <1>1, <1>2 DEF Poll, Remaining, GoTo, SameRequest
<1>3. CASE pc = "done" /\ UNCHANGED <<states, stage>>
  BY <1>1, <1>3 DEF StopInv, DoneInv, SameRequest
<1> QED
  BY <1>2, <1>3
     DEF Next, Kernel, Fork, Leave, Exit, Reap, Reuse, Lead, Tick, Program, Accept, Reject,
     Observing, ObserveUnread, Observed, ObserveLeader, Listing, ListRead, ListSkip, Listed,
     ReadAgain, MembersRead, Answer, ReadFails, Signalling, Verify, VerifyFails, List,
     SignalLeaderless, SignalNext, GoTo, KillGroup, KillGroupRefused, VerifyMember, KillMember,
     MembersDone, vars, shimVars, scanVars

LEMMA StopInvInit == Init => StopInv
<1> SUFFICES ASSUME Init PROVE StopInv
  OBVIOUS
<1>1. Inv /\ GroupInv
  BY InvInit, GroupInvInit
<1>2. Len(Signals) \in {2, 3}
  BY <1>1, RequestFacts DEF Inv
<1>3. pc = "read" /\ stage = 0 /\ states = [n \in Groups |-> "new"]
  BY DEF Init
<1>4. SettledInv
  BY <1>3 DEF SettledInv
<1>5. KillInv /\ DoneInv
  BY <1>2, <1>3 DEF KillInv, DoneInv
<1> QED
  BY <1>1, <1>4, <1>5 DEF StopInv

LEMMA HonestReports == StopInv => StopReportHonest
<1> SUFFICES ASSUME StopInv PROVE StopReportHonest
  OBVIOUS
<1>1. ASSUME NEW n \in Groups, pc = "done", run.op = "stop", states[n] = "led", ~failed
      PROVE  ~Leading(n)
  BY <1>1 DEF StopInv, GroupInv, Inv, PlaceInv, DoneInv, KillInv, Present, InSignalling
<1>2. \A n \in Groups : states[n] = "led" => os[Pgid(n)].era \in Nat
  BY DEF StopInv, GroupInv, Inv, TypeOK, Process, PlaceInv, Recorded, Valid, Pgid
<1>3. LedWasKilled
  BY <1>1, <1>2 DEF LedWasKilled, Leading
<1> QED
  BY <1>3 DEF StopReportHonest, StopInv, GroupInv

\* Whatever the groups of a request do, and however its entries end: a group
\* reported gone has no living member unless it raced the observation, and a
\* leader reported in place after a stop was sent KILL unless a call failed.
THEOREM StopReportsAreHonest == Spec => []StopReportHonest
<1>1. StopInv /\ [Next]_vars => StopInv'
  BY GroupInvStep, SettledStep, KillStep, DoneStep DEF StopInv
<1> QED
  BY StopInvInit, <1>1, HonestReports, PTL DEF Spec
=============================================================================
