----------------------------- MODULE CreditFlow -----------------------------
(***************************************************************************)
(* The credit discipline of a pull session (`delivery: :pull`), apart from *)
(* frames, lines and processes: per output stream, how many bytes the      *)
(* child's pump may still read, how many are on their way, and how many    *)
(* the session holds.                                                      *)
(*                                                                         *)
(* A demand, one waiting recv, tops every stream's window up to            *)
(* MaxPending.  It may be made only while no complete line is queued.      *)
(***************************************************************************)
EXTENDS Naturals, DeliveryOptions

VARIABLES
  window,    \* granted and not yet received
  budget,    \* granted and not yet read from the child
  transit,   \* read from the child and not yet received
  partial,   \* received, part of an unfinished line
  queued,    \* received, part of a complete line not yet taken
  demand,    \* is a recv waiting?
  open       \* is the session serving?

vars == <<window, budget, transit, partial, queued, demand, open>>

Zero == [s \in Streams |-> 0]

Init ==
  /\ window = Zero /\ budget = Zero /\ transit = Zero
  /\ partial = Zero /\ queued = Zero
  /\ demand = FALSE /\ open = TRUE

\* grant_pull_credit: a waiting recv tops every window up.
Demand ==
  /\ open /\ ~demand /\ queued = Zero
  /\ demand' = TRUE
  /\ window' = [s \in Streams |-> MaxPending]
  /\ budget' = [s \in Streams |-> budget[s] + (MaxPending - window[s])]
  /\ UNCHANGED <<transit, partial, queued, open>>

Withdraw ==
  /\ open /\ demand
  /\ demand' = FALSE
  /\ UNCHANGED <<window, budget, transit, partial, queued, open>>

\* The pump forwards k bytes.
Read(s, k) ==
  /\ open /\ k \in 1..budget[s]
  /\ budget' = [budget EXCEPT ![s] = @ - k]
  /\ transit' = [transit EXCEPT ![s] = @ + k]
  /\ UNCHANGED <<window, partial, queued, demand, open>>

\* k bytes arrive.  With the unfinished line before them they leave a rest
\* of r bytes; whatever completed a line is queued, less the line of l bytes
\* that answers a demand.
Receive(s, k, r, l) ==
  /\ open /\ k \in 1..transit[s]
  /\ r \in 0..MaxLine /\ r <= partial[s] + k
  /\ IF demand /\ r < partial[s] + k THEN l \in 1..(partial[s] + k - r)
     ELSE l = 0
  /\ transit' = [transit EXCEPT ![s] = @ - k]
  /\ window' = [window EXCEPT ![s] = @ - k]
  /\ partial' = [partial EXCEPT ![s] = r]
  /\ queued' = [queued EXCEPT ![s] = @ + (partial[s] + k - r) - l]
  /\ demand' = (demand /\ l = 0)
  /\ UNCHANGED <<budget, open>>

\* A recv takes a queued line.
Take(s, l) ==
  /\ open /\ l \in 1..queued[s]
  /\ queued' = [queued EXCEPT ![s] = @ - l]
  /\ UNCHANGED <<window, budget, transit, partial, demand, open>>

\* After the last output, unfinished lines count as lines.
Flush ==
  /\ open /\ ~demand
  /\ partial' = Zero
  /\ queued' = [s \in Streams |-> queued[s] + partial[s]]
  /\ UNCHANGED <<window, budget, transit, demand, open>>

\* The same with a recv waiting, answered by the unfinished line of s.
FlushAnswer(s) ==
  /\ open /\ demand /\ partial[s] > 0
  /\ partial' = Zero
  /\ queued' = [partial EXCEPT ![s] = 0]
  /\ demand' = FALSE
  /\ UNCHANGED <<window, budget, transit, open>>

\* The session stops serving; what it held no longer counts.
Close ==
  /\ open /\ open' = FALSE /\ demand' = FALSE
  /\ window' = Zero /\ budget' = Zero /\ transit' = Zero
  /\ partial' = Zero /\ queued' = Zero

Next ==
  \/ Demand \/ Withdraw \/ Flush \/ Close
  \/ \E s \in Streams :
       \/ FlushAnswer(s)
       \/ \E k \in 1..budget[s] : Read(s, k)
       \/ \E k \in 1..transit[s] :
            \E r \in 0..(partial[s] + k) : \E l \in 0..(partial[s] + k - r) :
              Receive(s, k, r, l)
       \/ \E l \in 1..queued[s] : Take(s, l)

Spec == Init /\ [][Next]_vars

-----------------------------------------------------------------------------
(* Properties.                                                             *)

\* Every counter is a natural number, and an unfinished line within its limit.
TypeOK ==
  /\ window \in [Streams -> 0..MaxPending]
  /\ budget \in [Streams -> Nat] /\ transit \in [Streams -> Nat]
  /\ partial \in [Streams -> 0..MaxLine] /\ queued \in [Streams -> Nat]
  /\ demand \in BOOLEAN /\ open \in BOOLEAN

\* No credit is lost or invented: what the session thinks is granted is what
\* the shim may still read or has already sent.
Conservation == \A s \in Streams : window[s] = budget[s] + transit[s]

\* The documented memory bound of a pull session, per stream: one credit
\* window plus one partial line, bytes still in transit included.
MemoryBound ==
  \A s \in Streams : window[s] + partial[s] + queued[s] <= MaxPending + MaxLine

\* A waiting recv never starves: however much of an unfinished line used up
\* the window, the child may write at least one more byte of every stream.
NeverStarved == demand => \A s \in Streams : window[s] > 0
=============================================================================
