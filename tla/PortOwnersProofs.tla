-------------------------- MODULE PortOwnersProofs --------------------------
(***************************************************************************)
(* Theorems about the owners of a port, for any requests: a run, a stream  *)
(* or a daemon that calls its output complete holds all of it, a confirmed *)
(* close leaves no message behind, and no budget outgrows its window.      *)
(*                                                                         *)
(* The first part is about the one owner whose credit is a discipline of   *)
(* its own, the pull session: CreditFlow, for every set of streams and     *)
(* every choice of limits with MaxPending > MaxLine.                       *)
(***************************************************************************)
EXTENDS PortOwners, DeliveryOptions, SequenceTheorems, FiniteSetTheorems,
        WellFoundedInduction, TLAPS

VARIABLES window, budget, transit, partial, queued, demand, open

Pull == INSTANCE CreditFlow

-----------------------------------------------------------------------------
(* The credit of a pull session.                                           *)

\* While a recv waits no line is queued, and the window plus the unfinished
\* line still make a full MaxPending: the demand topped the window up, and
\* bytes received since are all in the unfinished line.
DemandInv ==
  demand => \A s \in Streams : queued[s] = 0 /\ window[s] + partial[s] >= MaxPending

CreditInv == Pull!TypeOK /\ Pull!Conservation /\ Pull!MemoryBound /\ DemandInv

LEMMA ZeroIsTyped ==
  /\ Pull!Zero \in [Streams -> Nat]
  /\ Pull!Zero \in [Streams -> 0..MaxPending] /\ Pull!Zero \in [Streams -> 0..MaxLine]
  /\ \A s \in Streams : Pull!Zero[s] = 0
BY WindowAssumption DEF Pull!Zero

\* No credit, no bytes and no demand: at the start and after Close.
LEMMA ZeroIsSafe ==
  ASSUME window = Pull!Zero, budget = Pull!Zero, transit = Pull!Zero, partial = Pull!Zero,
         queued = Pull!Zero, demand = FALSE, open \in BOOLEAN
  PROVE  CreditInv
<1>1. Pull!TypeOK
  BY ZeroIsTyped DEF Pull!TypeOK
<1>2. Pull!Conservation /\ Pull!MemoryBound
  BY ZeroIsTyped, WindowAssumption DEF Pull!Conservation, Pull!MemoryBound
<1>3. DemandInv
  BY DEF DemandInv
<1> QED BY <1>1, <1>2, <1>3 DEF CreditInv

LEMMA DemandStep == CreditInv /\ Pull!Demand => CreditInv'
<1> SUFFICES ASSUME CreditInv, Pull!Demand PROVE CreditInv'
  OBVIOUS
<1> USE WindowAssumption DEF CreditInv, Pull!Demand, Pull!Zero
<1>1. Pull!TypeOK'
  BY DEF Pull!TypeOK
<1>2. Pull!Conservation' /\ Pull!MemoryBound'
  BY DEF Pull!TypeOK, Pull!Conservation, Pull!MemoryBound
<1>3. DemandInv'
  BY DEF Pull!TypeOK, DemandInv
<1> QED BY <1>1, <1>2, <1>3

LEMMA ReadStep ==
  ASSUME CreditInv, NEW s \in Streams, NEW k \in 1..budget[s], Pull!Read(s, k)
  PROVE  CreditInv'
<1> USE DEF CreditInv, Pull!Read
<1>1. Pull!TypeOK'
  BY DEF Pull!TypeOK
<1>2. Pull!Conservation'
  BY DEF Pull!TypeOK, Pull!Conservation
<1>3. Pull!MemoryBound' /\ DemandInv'
  BY DEF Pull!MemoryBound, DemandInv
<1> QED BY <1>1, <1>2, <1>3

LEMMA ReceiveStep ==
  ASSUME CreditInv, NEW s \in Streams, NEW k \in 1..transit[s], NEW r \in Nat,
         NEW l \in Nat, l <= partial[s] + k - r, Pull!Receive(s, k, r, l)
  PROVE  CreditInv'
<1> USE DEF CreditInv, Pull!Receive
<1>1. k \in Nat /\ k <= window[s] /\ partial[s] \in Nat
  BY WindowAssumption DEF Pull!TypeOK, Pull!Conservation
<1>2. Pull!TypeOK'
  BY <1>1, WindowAssumption DEF Pull!TypeOK
<1>3. Pull!Conservation'
  BY <1>1 DEF Pull!TypeOK, Pull!Conservation
<1>4. Pull!MemoryBound'
  BY <1>1, WindowAssumption DEF Pull!TypeOK, Pull!MemoryBound
<1>5. DemandInv'
  <2> SUFFICES ASSUME demand' PROVE DemandInv'
    BY DEF DemandInv
  <2>1. demand /\ l = 0
    BY Zenon
  <2>2. ~(r < partial[s] + k) /\ r <= partial[s] + k
    BY <2>1
  <2>3. r = partial[s] + k
    BY <1>1, <2>2, WindowAssumption
  <2> QED BY <1>1, <2>1, <2>3, WindowAssumption DEF Pull!TypeOK, DemandInv
<1> QED BY <1>2, <1>3, <1>4, <1>5

LEMMA TakeStep ==
  ASSUME CreditInv, NEW s \in Streams, NEW l \in 1..queued[s], Pull!Take(s, l)
  PROVE  CreditInv'
<1> USE DEF CreditInv, Pull!Take
<1>1. Pull!TypeOK'
  BY DEF Pull!TypeOK
<1>2. Pull!Conservation' /\ Pull!MemoryBound'
  BY WindowAssumption DEF Pull!TypeOK, Pull!Conservation, Pull!MemoryBound
<1>3. DemandInv'
  BY DEF Pull!TypeOK, DemandInv
<1> QED BY <1>1, <1>2, <1>3

LEMMA FlushStep ==
  CreditInv /\ (Pull!Flush \/ \E s \in Streams : Pull!FlushAnswer(s)) => CreditInv'
<1> USE WindowAssumption DEF CreditInv, Pull!Zero
<1>1. ASSUME CreditInv, Pull!Flush PROVE CreditInv'
  <2>1. UNCHANGED <<window, budget, transit, demand, open>> /\ ~demand
    BY <1>1 DEF Pull!Flush
  <2>2. partial' = [x \in Streams |-> 0]
        /\ queued' = [x \in Streams |-> queued[x] + partial[x]]
    BY <1>1 DEF Pull!Flush
  <2>3. Pull!TypeOK'
    BY <1>1, <2>1, <2>2 DEF Pull!TypeOK
  <2>4. Pull!Conservation' /\ DemandInv'
    BY <1>1, <2>1 DEF Pull!Conservation, DemandInv
  <2>5. Pull!MemoryBound'
    BY <1>1, <2>1, <2>2 DEF Pull!TypeOK, Pull!MemoryBound
  <2> QED BY <2>3, <2>4, <2>5
<1>2. ASSUME CreditInv, NEW s \in Streams, Pull!FlushAnswer(s) PROVE CreditInv'
  <2>1. UNCHANGED <<window, budget, transit, open>> /\ demand /\ demand' = FALSE
    BY <1>2 DEF Pull!FlushAnswer
  <2>2. partial' = [x \in Streams |-> 0]
        /\ queued' = [x \in Streams |-> IF x = s THEN 0 ELSE partial[x]]
    BY <1>2 DEF Pull!FlushAnswer, Pull!TypeOK
  <2>3. Pull!TypeOK'
    <3>1. partial' \in [Streams -> 0..MaxLine]
      BY <2>2, WindowAssumption
    <3>2. queued' \in [Streams -> Nat]
      BY <1>2, <2>2, WindowAssumption DEF Pull!TypeOK
    <3> QED BY <1>2, <2>1, <3>1, <3>2 DEF Pull!TypeOK
  <2>4. Pull!Conservation' /\ DemandInv'
    BY <1>2, <2>1 DEF Pull!Conservation, DemandInv
  <2>5. Pull!MemoryBound'
    BY <1>2, <2>1, <2>2 DEF Pull!TypeOK, Pull!MemoryBound, DemandInv
  <2> QED BY <2>3, <2>4, <2>5
<1> QED BY <1>1, <1>2

LEMMA CreditInductive == Pull!Spec => []CreditInv
<1>1. CreditInv /\ [Pull!Next]_Pull!vars => CreditInv'
  <2> SUFFICES ASSUME CreditInv, [Pull!Next]_Pull!vars PROVE CreditInv'
    OBVIOUS
  <2>1. CASE Pull!Withdraw
    BY <2>1 DEF Pull!Withdraw, CreditInv, Pull!TypeOK, Pull!Conservation, Pull!MemoryBound, DemandInv
  <2>2. CASE Pull!Close
    <3>1. Pull!TypeOK'
      BY <2>2, ZeroIsTyped DEF Pull!Close, Pull!TypeOK, Pull!Zero
    <3>2. Pull!Conservation' /\ Pull!MemoryBound'
      BY <2>2, ZeroIsTyped, WindowAssumption DEF Pull!Close, Pull!Conservation, Pull!MemoryBound, Pull!Zero
    <3>3. DemandInv'
      BY <2>2 DEF Pull!Close, DemandInv
    <3> QED BY <3>1, <3>2, <3>3 DEF CreditInv
  <2>3. CASE UNCHANGED Pull!vars
    BY <2>3 DEF Pull!vars, CreditInv, Pull!TypeOK, Pull!Conservation, Pull!MemoryBound, DemandInv
  <2>4. ASSUME NEW s \in Streams, NEW k \in 1..transit[s],
               NEW r \in 0..(partial[s] + k), NEW l \in 0..(partial[s] + k - r),
               Pull!Receive(s, k, r, l)
        PROVE  CreditInv'
    <3>1. r \in Nat /\ l \in Nat /\ l <= partial[s] + k - r
      BY DEF CreditInv, Pull!TypeOK
    <3> QED BY <2>4, <3>1, ReceiveStep
  <2> QED
    BY <2>1, <2>2, <2>3, <2>4, DemandStep, ReadStep, TakeStep, FlushStep DEF Pull!Next
<1>2. Pull!Init => CreditInv
  BY ZeroIsSafe DEF Pull!Init
<1> QED BY <1>1, <1>2, PTL DEF Pull!Spec

\* The counters keep their types; an unfinished line stays within MaxLine and
\* the window within MaxPending.
THEOREM CreditTypeCorrect == Pull!Spec => []Pull!TypeOK
BY CreditInductive, PTL DEF CreditInv

\* Credit is conserved across grants, reads, deliveries, timeouts and flushes.
THEOREM CreditConserved == Pull!Spec => []Pull!Conservation
BY CreditInductive, PTL DEF CreditInv

\* The documented memory bound holds however demands, timeouts and late
\* output interleave.
THEOREM MemoryIsBounded == Pull!Spec => []Pull!MemoryBound
BY CreditInductive, PTL DEF CreditInv

\* MaxPending > MaxLine is what keeps a waiting recv from starving: a window
\* used up without completing a line would exceed the line limit first.
THEOREM DemandNeverStarves == Pull!Spec => []Pull!NeverStarved
<1>1. CreditInv => Pull!NeverStarved
  <2> SUFFICES ASSUME CreditInv, demand, NEW s \in Streams PROVE window[s] > 0
    BY DEF Pull!NeverStarved
  <2>1. window[s] \in Nat /\ partial[s] \in Nat /\ partial[s] <= MaxLine
    BY WindowAssumption DEF CreditInv, Pull!TypeOK
  <2>2. window[s] + partial[s] >= MaxPending
    BY DEF CreditInv, DemandInv
  <2> QED BY <2>1, <2>2, WindowAssumption
<1> QED BY <1>1, CreditInductive, PTL

-----------------------------------------------------------------------------
(* Sums of sizes.                                                          *)

Units(sizes) == UNION {{i} \X (1..sizes[i]) : i \in DOMAIN sizes}

LEMMA UnitsOf ==
  ASSUME NEW s \in Seq(Nat)
  PROVE  \A u : u \in Units(s) <=>
           \E i \in 1..Len(s) : \E k \in 1..s[i] : u = <<i, k>>
BY DEF Units

LEMMA UnitsFinite ==
  ASSUME NEW s \in Seq(Nat)
  PROVE  IsFiniteSet(Units(s)) /\ Total(s) \in Nat
<1> DEFINE column(i) == {i} \X (1..s[i])
           columns == {column(i) : i \in 1..Len(s)}
           f == [i \in 1..Len(s) |-> column(i)]
<1>1. f \in Surjection(1..Len(s), columns)
  BY DEF Surjection
<1>2. IsFiniteSet(1..Len(s))
  BY FS_Interval
<1>3. IsFiniteSet(columns)
  BY <1>1, <1>2, FS_Surjection
<1>4. ASSUME NEW T \in columns PROVE IsFiniteSet(T)
  <2>1. PICK i \in 1..Len(s) : T = column(i)
    OBVIOUS
  <2>2. IsFiniteSet({i})
    BY FS_Singleton
  <2>3. IsFiniteSet(1..s[i])
    BY FS_Interval
  <2> QED BY <2>1, <2>2, <2>3, FS_Product
<1>5. IsFiniteSet(UNION columns)
  BY <1>3, <1>4, FS_UNION
<1>6. Units(s) = UNION columns
  BY DEF Units
<1> QED BY <1>5, <1>6, FS_CardinalityType DEF Total, Units

LEMMA ColumnSize ==
  ASSUME NEW i, NEW n \in Nat
  PROVE  IsFiniteSet({i} \X (1..n)) /\ Cardinality({i} \X (1..n)) = n
<1>1. IsFiniteSet(1..n) /\ Cardinality(1..n) = n
  BY FS_Interval
<1>2. IsFiniteSet({i}) /\ Cardinality({i}) = 1
  BY FS_Singleton
<1>3. /\ IsFiniteSet({i} \X (1..n))
      /\ Cardinality({i} \X (1..n)) = Cardinality({i}) * Cardinality(1..n)
  BY <1>1, <1>2, FS_Product
<1> QED BY <1>1, <1>2, <1>3

\* The units of a longer sequence are those of the shorter and of its last size.
LEMMA TotalAppend ==
  ASSUME NEW s \in Seq(Nat), NEW n \in Nat
  PROVE  Total(Append(s, n)) = Total(s) + n
<1> DEFINE longer == Append(s, n)
           last == {Len(s) + 1} \X (1..n)
<1>1. longer \in Seq(Nat) /\ Len(longer) = Len(s) + 1
      /\ (\A i \in 1..Len(s) : longer[i] = s[i])
      /\ longer[Len(s) + 1] = n
  BY AppendProperties
<1> HIDE DEF longer
<1>2. Units(longer) = Units(s) \cup last
  <2>1. ASSUME NEW u PROVE u \in Units(longer) <=> u \in Units(s) \cup last
    <3>1. u \in last <=> \E k \in 1..n : u = <<Len(s) + 1, k>>
      OBVIOUS
    <3>2. u \in Units(longer) <=>
            \E i \in 1..Len(longer) : \E k \in 1..longer[i] : u = <<i, k>>
      BY <1>1, UnitsOf
    <3>3. u \in Units(s) <=> \E i \in 1..Len(s) : \E k \in 1..s[i] : u = <<i, k>>
      BY UnitsOf
    <3>4. 1..Len(longer) = 1..Len(s) \cup {Len(s) + 1}
      BY <1>1
    <3> HIDE DEF last
    <3> QED BY <1>1, <3>1, <3>2, <3>3, <3>4
  <2> QED BY <2>1
<1>3. IsFiniteSet(last) /\ Cardinality(last) = n
  BY ColumnSize
<1>4. Units(s) \cap last = {}
  BY UnitsOf
<1> HIDE DEF last
<1>5. Cardinality(Units(longer)) =
           Cardinality(Units(s)) + Cardinality(last) - Cardinality(Units(s) \cap last)
  BY <1>2, <1>3, UnitsFinite, FS_Union
<1>6. Cardinality(Units(s) \cap last) = 0
  BY <1>4, FS_EmptySet
<1>7. Total(s) = Cardinality(Units(s)) /\ Total(longer) = Cardinality(Units(longer))
  BY DEF Total, Units
<1> QED BY <1>3, <1>5, <1>6, <1>7, UnitsFinite DEF longer

\* Shifted by one, the units of the tail are those of the whole but for its first size.
LEMMA TotalTail ==
  ASSUME NEW s \in Seq(Nat), s # <<>>
  PROVE  Total(s) = Head(s) + Total(Tail(s))
<1> DEFINE rest_ == Tail(s)
           first == {1} \X (1..s[1])
           moved == {<<u[1] + 1, u[2]>> : u \in Units(rest_)}
<1>1. rest_ \in Seq(Nat) /\ Len(rest_) = Len(s) - 1 /\ Len(s) \in Nat \ {0}
      /\ \A i \in 1..Len(rest_) : rest_[i] = s[i + 1]
  BY HeadTailProperties, EmptySeq
<1> HIDE DEF rest_
<1>2. \A u \in Units(rest_) : u[1] \in 1..Len(rest_) /\ u[2] \in 1..rest_[u[1]]
                               /\ u = <<u[1], u[2]>>
  BY <1>1, UnitsOf
<1>3. Units(s) = first \cup moved
  <2>1. ASSUME NEW u \in Units(s) PROVE u \in first \cup moved
    <3>1. PICK i \in 1..Len(s) : \E k \in 1..s[i] : u = <<i, k>>
      BY UnitsOf
    <3>0. PICK k \in 1..s[i] : u = <<i, k>>
      BY <3>1
    <3>2. CASE i = 1
      BY <3>2, <3>0
    <3>3. CASE i # 1
      <4>1. PICK j \in 1..Len(rest_) : j + 1 = i
        <5>1. i - 1 \in 1..Len(rest_) /\ (i - 1) + 1 = i
          BY <1>1, <3>3
        <5> QED BY <5>1
      <4>2. rest_[j] = s[i]
        BY <1>1, <4>1
      <4>3. <<j, k>> \in Units(rest_)
        BY <1>1, <3>0, <4>2, UnitsOf
      <4>4. u = <<<<j, k>>[1] + 1, <<j, k>>[2]>>
        BY <3>0, <4>1
      <4> QED BY <4>3, <4>4
    <3> QED BY <3>2, <3>3
  <2>2. ASSUME NEW u \in first PROVE u \in Units(s)
    <3>1. PICK k \in 1..s[1] : u = <<1, k>>
      BY <2>2
    <3>2. 1 \in 1..Len(s)
      BY <1>1
    <3> QED BY <3>1, <3>2, UnitsOf
  <2>3. ASSUME NEW u \in moved PROVE u \in Units(s)
    <3>1. PICK v \in Units(rest_) : u = <<v[1] + 1, v[2]>>
      BY <2>3
    <3>2. PICK i \in 1..Len(rest_) : \E k \in 1..rest_[i] : v = <<i, k>>
      BY <1>1, <3>1, UnitsOf, SMTT(30)
    <3>3. PICK k \in 1..rest_[i] : v = <<i, k>>
      BY <3>2
    <3>4. rest_[i] = s[i + 1] /\ i + 1 \in 1..Len(s)
      <4>1. rest_[i] = s[i + 1]
        BY <1>1
      <4>2. i + 1 \in 1..Len(s)
        <5> DEFINE n == Len(s)
                   left == Len(rest_)
        <5>1. n \in Nat /\ left = n - 1 /\ i \in 1..left
          BY <1>1
        <5> HIDE DEF n, left
        <5>2. i + 1 \in 1..n
          BY <5>1
        <5> QED BY <5>2 DEF n
      <4> QED BY <4>1, <4>2
    <3>5. u = <<i + 1, k>>
      BY <3>1, <3>3
    <3> QED BY <3>3, <3>4, <3>5, UnitsOf
  <2> QED BY <2>1, <2>2, <2>3
<1>4. IsFiniteSet(first) /\ Cardinality(first) = s[1]
  <2>1. s[1] \in Nat
    BY <1>1
  <2> QED BY <2>1, ColumnSize
<1>5. IsFiniteSet(moved) /\ Cardinality(moved) = Cardinality(Units(rest_))
  <2> DEFINE f == [u \in Units(rest_) |-> <<u[1] + 1, u[2]>>]
  <2>1. f \in Surjection(Units(rest_), moved)
    BY DEF Surjection
  <2>2. \A u, v \in Units(rest_) : f[u] = f[v] => u = v
    <3> SUFFICES ASSUME NEW u \in Units(rest_), NEW v \in Units(rest_), f[u] = f[v]
                 PROVE  u = v
      OBVIOUS
    <3>1. u[1] + 1 = v[1] + 1 /\ u[2] = v[2]
      OBVIOUS
    <3>2. u[1] = v[1]
      BY <1>1, <1>2, <3>1
    <3> QED BY <1>2, <3>1, <3>2
  <2>3. f \in Bijection(Units(rest_), moved)
    <3> HIDE DEF f
    <3>1. f \in [Units(rest_) -> moved]
      BY <2>1 DEF Surjection
    <3>2. f \in Injection(Units(rest_), moved)
      BY <2>2, <3>1 DEF Injection, IsInjective
    <3> QED BY <2>1, <3>2 DEF Bijection
  <2> QED BY <1>1, <2>3, UnitsFinite, FS_Bijection DEF ExistsBijection
<1>6. first \cap moved = {}
  <2> SUFFICES ASSUME NEW u \in first, u \in moved PROVE FALSE
    OBVIOUS
  <2>1. u[1] = 1
    OBVIOUS
  <2>2. PICK v \in Units(rest_) : u = <<v[1] + 1, v[2]>>
    OBVIOUS
  <2> QED BY <1>1, <1>2, <2>1, <2>2
<1> HIDE DEF first, moved
<1>7. Cardinality(Units(s)) =
        Cardinality(first) + Cardinality(moved) - Cardinality(first \cap moved)
  BY <1>3, <1>4, <1>5, FS_Union
<1>8. Cardinality(first \cap moved) = 0
  BY <1>6, FS_EmptySet
<1>9. Total(s) = Cardinality(Units(s)) /\ Total(rest_) = Cardinality(Units(rest_))
  BY DEF Total, Units
<1>10. Total(rest_) \in Nat /\ s[1] \in Nat /\ Head(s) = s[1]
  BY <1>1, UnitsFinite
<1> QED BY <1>4, <1>5, <1>7, <1>8, <1>9, <1>10 DEF rest_

\* A sequence cut short adds up to no more.
LEMMA TotalPrefix ==
  ASSUME NEW s \in Seq(Nat), NEW n \in 0..Len(s)
  PROVE  Total(SubSeq(s, 1, n)) <= Total(s)
<1> DEFINE t == SubSeq(s, 1, n)
<1>1. t \in Seq(Nat) /\ Len(t) = n /\ \A i \in 1..n : t[i] = s[i]
  OBVIOUS
<1> HIDE DEF t
<1>2. Units(t) \subseteq Units(s)
  <2> SUFFICES ASSUME NEW u \in Units(t) PROVE u \in Units(s)
    OBVIOUS
  <2>1. PICK i \in 1..Len(t) : \E k \in 1..t[i] : u = <<i, k>>
    BY <1>1, UnitsOf
  <2>2. i \in 1..Len(s) /\ t[i] = s[i]
    BY <1>1, <2>1
  <2> QED BY <2>1, <2>2, UnitsOf
<1>3. Cardinality(Units(t)) <= Cardinality(Units(s))
  BY <1>2, UnitsFinite, FS_Subset
<1> QED BY <1>3 DEF Total, Units, t

LEMMA TotalEmpty == Total(<<>>) = 0
<1>1. Units(<<>>) = {}
  BY DEF Units
<1> QED BY <1>1, FS_EmptySet DEF Total, Units

-----------------------------------------------------------------------------
(* Types.                                                                  *)

Datum == [kind : {"data"}, channel : Channels, bytes : Seq(Nat)]
Report ==
  [kind : {"exit"}, clean : BOOLEAN, timedOut : BOOLEAN, truncated : BOOLEAN]
Notice == [kind : {"error", "exit_status", "guard_closed"}]
Broken == [kind : {"EXIT"}, normal : BOOLEAN]
Message == Datum \cup Report \cup Notice \cup Broken
Command == [kind : {"credit"}, channel : Channels, bytes : Nat] \cup [kind : {"kill", "eof"}]

ShimType ==
  /\ req \in Requests
  /\ child \in {"none", "run", "exited"} /\ doomed \in BOOLEAN
  /\ said \in [Channels -> Nat] /\ read \in [Channels -> Nat]
  /\ \A c \in Channels : said[c] <= Len(Script(c)) /\ read[c] <= said[c]
  /\ eof \subseteq Channels /\ avail \in [Channels -> Nat]
  /\ shim \in {"new", "loop", "drain", "cut", "linger", "gone"}
  /\ discard \in BOOLEAN /\ timedOut \in BOOLEAN /\ crashed \in BOOLEAN

PortType ==
  /\ inbox \in Seq(Command) /\ wire \in Seq(Message) /\ mailbox \in Seq(Message)
  /\ port \in {"open", "closed"} /\ guard \in {"relay", "gone"} /\ reported \in BOOLEAN

OwnerType ==
  /\ own \in {"collecting", "idle", "next", "pulling", "polling", "serving",
             "confirming", "closing", "returned", "dead"}
  /\ exit \in {"none", "ok", "error"} /\ after \in {"none", "close", "next", "idle"}
  /\ reason \in {"none", "timeout", "max_output_bytes", "observer_overflow"}
  /\ lossy \in BOOLEAN /\ closed \in {"none", "ok", "timeout"}
  /\ got \in [Channels -> Seq(Nat)] /\ rest \in Seq(Nat)
  /\ outstanding \in 0..req.window

\* What the owner is confirming a kill for, it knows.
TypeInv == ShimType /\ PortType /\ OwnerType /\ (own = "confirming" => after # "none")

LEMMA RequestFacts ==
  ASSUME TypeInv
  PROVE  /\ req.mode \in {"run", "stream", "daemon"}
         /\ req.window \in Nat /\ req.max \in Nat /\ req.maxErr \in Nat
         /\ req.out \in Seq({"x", "n"}) /\ req.err \in Seq({"x", "n"})
         /\ \A c \in Channels : Len(Script(c)) \in Nat
         /\ \A c \in Channels : Window(c) \in Nat
BY RequestAssumption DEF TypeInv, ShimType, Request, Script, Window

LEMMA MessageFacts ==
  ASSUME NEW m \in Message
  PROVE  /\ m.kind \in {"data", "exit", "error", "exit_status", "guard_closed", "EXIT"}
         /\ m.kind = "data" => m.channel \in Channels /\ m.bytes \in Seq(Nat)
         /\ m.kind = "exit" => m \in Report
         /\ m.kind = "EXIT" => m \in Broken
BY DEF Message, Datum, Report, Notice, Broken

LEMMA MessageMade ==
  /\ \A c \in Channels, b \in Seq(Nat) :
       [kind |-> "data", channel |-> c, bytes |-> b] \in Message
  /\ \A a, b, d \in BOOLEAN :
       [kind |-> "exit", clean |-> a, timedOut |-> b, truncated |-> d] \in Message
  /\ \A k \in {"error", "exit_status", "guard_closed"} : [kind |-> k] \in Message
  /\ \A b \in BOOLEAN : [kind |-> "EXIT", normal |-> b] \in Message
BY DEF Message, Datum, Report, Notice, Broken

LEMMA CommandFacts ==
  /\ Kill \in Command /\ Eof \in Command
  /\ \A c \in Channels, n \in Nat : Credit(c, n) \in Command
  /\ \A f \in Command : f.kind = "credit" => f.channel \in Channels /\ f.bytes \in Nat
BY DEF Command, Kill, Eof, Credit

\* No owner touches the request, the shim or the guard.
LEMMA OwnerFrame ==
  OwnerSteps => UNCHANGED <<req, shimVars, guard, reported>>
<1>1. Drain \/ DrainTimeout \/ OwnerDies \/ ConfirmFrame \/ ConfirmTimeout
        => UNCHANGED <<req, shimVars, guard, reported>>
  BY Zenon DEF Drain, DrainTimeout, OwnerDies, ConfirmFrame, ConfirmTimeout, guardVars
<1>2. RunSteps => UNCHANGED <<req, shimVars, guard, reported>>
  BY Zenon DEF RunSteps, RunDeadline, RunBackstop, RunDiscards, RunExit, RunLost, RunOutput,
               RunReturns, guardVars
<1>3. StreamSteps => UNCHANGED <<req, shimVars, guard, reported>>
  BY Zenon DEF StreamSteps, Demand, StreamNext, StreamEnds, StreamHalt, StreamOutput,
               StreamStderr, StreamExit, StreamLost, StreamTimeout, guardVars
<1>4. DaemonSteps => UNCHANGED <<req, shimVars, guard, reported>>
  BY Zenon DEF DaemonSteps, DaemonReady, DaemonFrame, DaemonStop, guardVars
<1> QED BY <1>1, <1>2, <1>3, <1>4 DEF OwnerSteps

\* Frames are sent one at a time.
LEMMA SendType ==
  ASSUME PortType, NEW f \in Command, SendFrames(<<f>>)
  PROVE  inbox' \in Seq(Command)
BY DEF PortType, SendFrames

LEMMA AppendType ==
  ASSUME NEW S, NEW s \in Seq(S), NEW e \in S
  PROVE  Append(s, e) \in Seq(S)
BY AppendProperties

LEMMA TailType ==
  ASSUME NEW S, NEW s \in Seq(S), s # <<>>
  PROVE  Head(s) \in S /\ Tail(s) \in Seq(S)
BY HeadTailProperties

LEMMA SubType ==
  ASSUME NEW S, NEW s \in Seq(S), NEW n \in 0..Len(s)
  PROVE  SubSeq(s, 1, n) \in Seq(S) /\ Len(SubSeq(s, 1, n)) = n
         /\ \A i \in 1..n : SubSeq(s, 1, n)[i] = s[i]
OBVIOUS

\* However a port ends, its wire holds messages.
LEMMA ClosingType ==
  ASSUME NEW prefix \in Seq(Message), NEW why, Closing(prefix, why)
  PROVE  wire' \in Seq(Message) /\ port' = "closed"
<1> DEFINE normal == why = "normal"
<1>1. normal \in BOOLEAN
  OBVIOUS
<1>2. wire' = Append(prefix, [kind |-> "EXIT", normal |-> normal]) /\ port' = "closed"
  BY Zenon DEF Closing
<1> HIDE DEF normal
<1>3. [kind |-> "EXIT", normal |-> normal] \in Message
  BY <1>1, MessageMade
<1> QED BY <1>2, <1>3, AppendType

LEMMA CloseType ==
  ASSUME PortType, CloseGuardedPort
  PROVE  wire' \in Seq(Message) /\ port' = "closed"
<1>1. CASE port = "closed"
  BY <1>1 DEF CloseGuardedPort, portVars, PortType
<1>2. CASE port # "closed"
  <2>1. PICK n \in 0..Len(wire) : Closing(SubSeq(wire, 1, n), "killed")
    BY <1>2, Zenon DEF CloseGuardedPort
  <2>2. SubSeq(wire, 1, n) \in Seq(Message)
    BY SubType DEF PortType
  <2> QED BY <2>1, <2>2, ClosingType
<1> QED BY <1>1, <1>2

LEMMA TypeShim == TypeInv /\ ShimSteps /\ UNCHANGED ownerVars => TypeInv'
<1> SUFFICES ASSUME TypeInv, ShimSteps, UNCHANGED ownerVars PROVE TypeInv'
  OBVIOUS
<1> USE DEF shimVars, portVars, guardVars
<1>1. SUFFICES ShimType' /\ PortType' /\ own' = own /\ req' = req
  BY DEF TypeInv, OwnerType, ownerVars
<1>2. ShimType /\ PortType
  BY DEF TypeInv
<1>3. \A c \in Channels : Len(Script(c)) \in Nat
  BY RequestFacts
<1>4. CASE SpawnChild
  BY <1>2, <1>4 DEF SpawnChild, ShimType, PortType, Script
<1>5. CASE SpawnFails
  <2>1. wire' \in Seq(Message)
    BY <1>2, <1>5, MessageMade, AppendType DEF SpawnFails, PortType
  <2> QED BY <1>2, <1>5, <2>1 DEF SpawnFails, ShimType, PortType, Script
<1>6. CASE ChildExit
  BY <1>2, <1>6 DEF ChildExit, ShimType, PortType, Script
<1>7. CASE ShimEof
  BY <1>2, <1>7, TailType DEF ShimEof, ShimType, PortType, Script
<1>8. CASE ShimCredit
  <2>1. Head(inbox).channel \in Channels /\ Head(inbox).bytes \in Nat /\ inbox' \in Seq(Command)
    BY <1>2, <1>8, TailType, CommandFacts DEF ShimCredit, PortType
  <2>2. avail' \in [Channels -> Nat]
    <3>1. PICK c \in Channels, n \in Nat :
            avail' = avail \/ avail' = [avail EXCEPT ![c] = avail[c] + n]
      BY <1>8, <2>1 DEF ShimCredit
    <3> QED BY <1>2, <3>1 DEF ShimType
  <2> QED BY <1>2, <1>8, <2>1, <2>2 DEF ShimCredit, ShimType, PortType, Script
<1>9. CASE ShimKill
  <2>1. inbox' \in Seq(Command)
    BY <1>2, <1>9, TailType DEF ShimKill, PortType
  <2>2. avail' \in [Channels -> Nat]
    BY <1>2, <1>9 DEF ShimKill, Cancel, ShimType
  <2>3. doomed' \in BOOLEAN /\ discard' \in BOOLEAN
    BY <1>2, <1>9, Zenon DEF ShimKill, ShimType
  <2>4. shim' \in {shim, "cut"}
    BY <1>9 DEF ShimKill
  <2> QED BY <1>2, <1>9, <2>1, <2>2, <2>3, <2>4 DEF ShimKill, ShimType, PortType, Script
<1>10. CASE ShimTimeout
  BY <1>2, <1>10 DEF ShimTimeout, ShimType, PortType, Script
<1>11. CASE ShimReap
  <2>1. avail' \in [Channels -> Nat] /\ shim' \in {"drain", "cut"}
    BY <1>2, <1>11 DEF ShimReap, Cancel, ShimType
  <2> QED BY <1>2, <1>11, <2>1 DEF ShimReap, ShimType, PortType, Script
<1>12. CASE ShimReport
  <2> DEFINE cut == shim = "cut" /\ (Gated \/ eof # Channels)
  <2>1. PICK clean \in BOOLEAN :
          wire' = Append(wire, [kind |-> "exit", clean |-> clean, timedOut |-> timedOut,
                                truncated |-> cut])
    BY <1>12, Zenon DEF ShimReport
  <2>2. cut \in BOOLEAN
    OBVIOUS
  <2> HIDE DEF cut
  <2>3. [kind |-> "exit", clean |-> clean, timedOut |-> timedOut, truncated |-> cut] \in Message
    BY <1>2, <2>2, MessageMade DEF ShimType
  <2>4. wire' \in Seq(Message)
    BY <1>2, <2>1, <2>3, AppendType DEF PortType
  <2>5. shim' \in {"linger", "gone"}
    BY <1>12 DEF ShimReport
  <2> QED BY <1>2, <1>12, <2>4, <2>5 DEF ShimReport, ShimType, PortType, Script
<1>13. CASE ShimLeft
  BY <1>2, <1>13 DEF ShimLeft, ShimType, PortType, Script
<1>14. CASE ShimHearsClose
  BY <1>2, <1>14 DEF ShimHearsClose, ShimType, PortType, Script
<1>15. CASE ShimCrash
  BY <1>2, <1>15 DEF ShimCrash, ShimType, PortType, Script
<1>16. ASSUME NEW c \in Channels, ChildWrite(c) PROVE ShimType' /\ PortType' /\ own' = own /\ req' = req
  BY <1>2, <1>3, <1>16 DEF ChildWrite, ShimType, PortType, Script
<1>17. ASSUME NEW c \in Channels, PumpEof(c) PROVE ShimType' /\ PortType' /\ own' = own /\ req' = req
  BY <1>2, <1>17 DEF PumpEof, ShimType, PortType, Script
<1>18. ASSUME NEW c \in Channels, NEW k \in {1, 2}, PumpForward(c, k)
       PROVE  ShimType' /\ PortType' /\ own' = own /\ req' = req
  <2>1. [i \in 1..k |-> read[c] + i] \in Seq(Nat)
    BY <1>2 DEF ShimType
  <2>2. wire' \in Seq(Message)
    BY <1>2, <1>18, <2>1, MessageMade, AppendType DEF PumpForward, PortType
  <2>3. avail' \in [Channels -> Nat]
    BY <1>2, <1>18 DEF PumpForward, ShimType
  <2>4. read' \in [Channels -> Nat] /\ \A d \in Channels : read'[d] <= said[d]
    BY <1>2, <1>18 DEF PumpForward, ShimType
  <2> QED BY <1>2, <1>18, <2>2, <2>3, <2>4 DEF PumpForward, ShimType, PortType, Script
<1> QED
  BY <1>4, <1>5, <1>6, <1>7, <1>8, <1>9, <1>10, <1>11, <1>12, <1>13, <1>14, <1>15, <1>16, <1>17,
     <1>18 DEF ShimSteps

LEMMA SendMailType ==
  ASSUME PortType, NEW message \in Seq(Message), Send(message)
  PROVE  mailbox' \in Seq(Message)
BY ConcatProperties DEF PortType, Send

LEMMA TypeGuard == TypeInv /\ GuardSteps /\ UNCHANGED ownerVars => TypeInv'
<1> SUFFICES ASSUME TypeInv, GuardSteps, UNCHANGED ownerVars PROVE TypeInv'
  OBVIOUS
<1> USE DEF shimVars, portVars, guardVars
<1>1. SUFFICES ShimType' /\ PortType' /\ own' = own /\ req' = req
  BY DEF TypeInv, OwnerType, ownerVars
<1>2. ShimType /\ PortType
  BY DEF TypeInv
<1>3. CASE PortEnds
  <2>1. wire' \in Seq(Message) /\ port' = "closed"
    <3>1. CASE Closing(Append(wire, [kind |-> "exit_status"]), "normal")
      BY <1>2, <3>1, MessageMade, AppendType, ClosingType DEF PortType
    <3>2. CASE \E n \in 0..Len(wire) : Closing(SubSeq(wire, 1, n), "epipe")
      BY <1>2, <3>2, SubType, ClosingType DEF PortType
    <3> QED BY <1>3, <3>1, <3>2 DEF PortEnds
  <2> QED BY <1>2, <1>3, <2>1 DEF PortEnds, ShimType, PortType, Script
<1>4. CASE GuardEnds
  <2> DEFINE said_ == (IF Head(wire).normal \/ reported THEN <<>> ELSE <<[kind |-> "exit_status"]>>)
                      \o <<[kind |-> "guard_closed"]>>
  <2>1. said_ \in Seq(Message)
    BY MessageMade
  <2>2. Send(said_) /\ wire # <<>> /\ wire' = Tail(wire) /\ guard' = "gone"
        /\ UNCHANGED <<req, shimVars, inbox, port, reported, own>>
    BY <1>4, Zenon DEF GuardEnds
  <2> HIDE DEF said_
  <2>3. mailbox' \in Seq(Message) /\ wire' \in Seq(Message)
    BY <1>2, <2>1, <2>2, SendMailType, TailType DEF PortType
  <2> QED BY <1>2, <2>2, <2>3 DEF ShimType, PortType, Script
<1>5. CASE GuardRelay
  <2>1. Head(wire) \in Message /\ wire' \in Seq(Message)
    BY <1>2, <1>5, TailType DEF GuardRelay, PortType
  <2>2. mailbox' \in Seq(Message)
    <3>1. <<Head(wire)>> \in Seq(Message)
      BY <2>1
    <3>2. Send(<<Head(wire)>>)
      BY <1>5 DEF GuardRelay
    <3> QED BY <1>2, <3>1, <3>2, SendMailType
  <2>3. reported' \in BOOLEAN
    BY <1>2, <1>5, Zenon DEF GuardRelay, PortType
  <2> QED BY <1>2, <1>5, <2>1, <2>2, <2>3 DEF GuardRelay, ShimType, PortType, Script
<1>6. CASE GuardDown
  BY <1>2, <1>6, CloseType DEF GuardDown, ShimType, PortType, Script
<1> QED BY <1>3, <1>4, <1>5, <1>6 DEF GuardSteps

\* Sets of positions have a first and a last.
LEMMA EarliestExists ==
  ASSUME NEW S \in SUBSET Nat, S # {}
  PROVE  \E i \in S : \A j \in S : i <= j
<1> DEFINE R == StrictSubsetOrdering(Nat)
           T == {1..i : i \in S}
<1>1. IsWellFoundedOn(R, FiniteSubsetsOf(Nat))
  BY FS_StrictSubsetOrderingWellFounded
<1>6. \A i \in S : 1..i \in FiniteSubsetsOf(Nat)
  BY FS_Interval DEF FiniteSubsetsOf
<1>2. T \subseteq FiniteSubsetsOf(Nat) /\ T # {}
  BY <1>6
<1>3. PICK x \in T : \A y \in T : ~(<<y, x>> \in R)
  <2> HIDE DEF R, T
  <2> QED BY <1>1, <1>2, WFMin
<1>4. PICK i \in S : x = 1..i
  BY <1>3
<1>5. ASSUME NEW j \in S, j < i PROVE FALSE
  <2>1. 1..j \in SUBSET Nat /\ 1..i \in SUBSET Nat
    OBVIOUS
  <2>2. 1..j \subseteq 1..i /\ i \in 1..i /\ i \notin 1..j
    BY <1>5
  <2>3. <<1..j, 1..i>> \in R
    BY <2>1, <2>2 DEF StrictSubsetOrdering
  <2> QED BY <1>3, <1>4, <2>3
<1> QED BY <1>5

LEMMA LatestExists ==
  ASSUME NEW n \in Nat, NEW S \in SUBSET (1..n), S # {}
  PROVE  \E i \in S : \A j \in S : j <= i
<1> DEFINE U == {u \in Nat : \A j \in S : j <= u}
<1>1. n \in U
  OBVIOUS
<1>2. PICK u \in U : \A v \in U : u <= v
  BY <1>1, EarliestExists
<1>3. CASE u \in S
  BY <1>2, <1>3
<1>4. CASE u \notin S
  <2>1. u # 0
    <3>1. PICK j \in S : TRUE
      OBVIOUS
    <3>2. j \in 1..n /\ j <= u
      BY <1>2, <3>1
    <3> QED BY <3>2
  <2>2. u - 1 \in U
    BY <1>2, <1>4, <2>1
  <2> QED BY <1>2, <2>2
<1> QED BY <1>3, <1>4

LEMMA LastEndBound ==
  ASSUME NEW b \in Seq(Nat)
  PROVE  LastEnd(b) \in 0..Len(b)
<1>1. LineEnds(b) \in SUBSET (1..Len(b))
  BY DEF LineEnds
<1>2. CASE LineEnds(b) = {}
  BY <1>2 DEF LastEnd
<1>3. CASE LineEnds(b) # {}
  <2>1. \E i \in LineEnds(b) : \A j \in LineEnds(b) : j <= i
    <3>1. Len(b) \in Nat
      OBVIOUS
    <3> QED BY <1>1, <1>3, <3>1, LatestExists, Zenon
  <2>2. LastEnd(b) \in LineEnds(b)
    BY <1>3, <2>1 DEF LastEnd
  <2> QED BY <1>1, <2>2
<1> QED BY <1>2, <1>3

LEMMA BeforeOverlongBound ==
  ASSUME NEW b \in Seq(Nat), Overlong(b) # {}
  PROVE  BeforeOverlong(b) \in 0..Len(b)
<1> DEFINE first == CHOOSE i \in Overlong(b) : \A j \in Overlong(b) : i <= j
<1>1. Overlong(b) \in SUBSET (1..Len(b)) /\ Overlong(b) \in SUBSET Nat
  BY DEF Overlong, LineEnds
<1>2. \E i \in Overlong(b) : \A j \in Overlong(b) : i <= j
  BY <1>1, EarliestExists
<1>3. first \in Overlong(b)
  BY <1>2
<1>4. BeforeOverlong(b) = LastEnd(SubSeq(b, 1, first - 1))
  BY DEF BeforeOverlong, LineStart
<1> HIDE DEF first
<1>5. first \in 1..Len(b)
  BY <1>1, <1>3
<1>6. first - 1 \in 0..Len(b)
  BY <1>5
<1>7. SubSeq(b, 1, first - 1) \in Seq(Nat) /\ Len(SubSeq(b, 1, first - 1)) = first - 1
  BY <1>6, SubType
<1>8. LastEnd(SubSeq(b, 1, first - 1)) \in 0..(first - 1)
  BY <1>7, LastEndBound
<1> QED BY <1>4, <1>5, <1>8

\* An owner leaves the shim and the guard as they are.
LEMMA OwnerTyped ==
  ASSUME TypeInv, UNCHANGED <<req, shimVars, guard, reported>>,
         inbox' \in Seq(Command), wire' \in Seq(Message), mailbox' \in Seq(Message),
         port' \in {"open", "closed"}, OwnerType', own' = "confirming" => after' # "none"
  PROVE  TypeInv'
<1>1. ShimType'
  BY DEF TypeInv, ShimType, shimVars, Script
<1>2. PortType'
  BY DEF TypeInv, PortType
<1> QED BY <1>1, <1>2 DEF TypeInv

LEMMA ConsumeType ==
  ASSUME TypeInv, mailbox # <<>>, Consume
  PROVE  Head(mailbox) \in Message /\ mailbox' \in Seq(Message)
BY TailType DEF TypeInv, PortType, Consume

LEMMA ConfirmedType ==
  ASSUME TypeInv, own = "confirming", Confirmed
  PROVE  wire' \in Seq(Message) /\ port' \in {"open", "closed"}
         /\ own' \in {"closing", "next", "idle"}
<1>1. CASE after = "close"
  BY <1>1, CloseType DEF Confirmed, StartClosing, TypeInv
<1>2. CASE after # "close"
  BY <1>2 DEF Confirmed, portVars, TypeInv, PortType, OwnerType
<1> QED BY <1>1, <1>2

LEMMA TypeEnding ==
  TypeInv /\ (Drain \/ DrainTimeout \/ OwnerDies \/ ConfirmFrame \/ ConfirmTimeout) => TypeInv'
<1> SUFFICES ASSUME TypeInv, Drain \/ DrainTimeout \/ OwnerDies \/ ConfirmFrame \/ ConfirmTimeout
             PROVE  TypeInv'
  OBVIOUS
<1>1. /\ inbox \in Seq(Command) /\ wire \in Seq(Message) /\ mailbox \in Seq(Message)
      /\ port \in {"open", "closed"} /\ OwnerType
  BY DEF TypeInv, PortType
<1>2. CASE Drain
  <2>1. mailbox' \in Seq(Message)
    BY <1>2, ConsumeType DEF Drain
  <2>2. UNCHANGED <<req, shimVars, inbox, portVars, guard, reported, exit, reason, lossy,
                    got, rest, outstanding, after, result>>
        /\ own' \in {own, "returned"} /\ closed' \in {closed, "ok"}
    BY <1>2 DEF Drain
  <2> QED BY <1>1, <1>2, <2>1, <2>2, OwnerTyped DEF Drain, portVars, OwnerType
<1>3. CASE DrainTimeout
  BY <1>1, <1>3, OwnerTyped DEF DrainTimeout, portVars, guardVars, OwnerType
<1>4. CASE OwnerDies
  BY <1>1, <1>4, OwnerTyped DEF OwnerDies, portVars, ownerVars, OwnerType
<1>5. CASE ConfirmFrame
  <2>1. mailbox' \in Seq(Message)
    BY <1>5, ConsumeType DEF ConfirmFrame
  <2>2. /\ wire' \in Seq(Message) /\ port' \in {"open", "closed"}
        /\ own' \in {"confirming", "closing", "next", "idle"}
    BY <1>1, <1>5, ConfirmedType DEF ConfirmFrame, portVars
  <2>3. after # "none"
    BY <1>5 DEF ConfirmFrame, TypeInv
  <2> QED BY <1>1, <1>5, <2>1, <2>2, <2>3, OwnerTyped DEF ConfirmFrame, ownerVars, OwnerType
<1>6. CASE ConfirmTimeout
  <2>1. /\ wire' \in Seq(Message) /\ port' \in {"open", "closed"}
        /\ own' \in {"closing", "next", "idle"}
    BY <1>6, ConfirmedType DEF ConfirmTimeout
  <2> QED BY <1>1, <1>6, <2>1, OwnerTyped DEF ConfirmTimeout, guardVars, ownerVars, OwnerType
<1> QED BY <1>2, <1>3, <1>4, <1>5, <1>6

LEMMA SendsType ==
  ASSUME TypeInv, NEW f \in Command, SendFrames(<<f>>) \/ UNCHANGED inbox
  PROVE  inbox' \in Seq(Command)
BY SendType DEF TypeInv, PortType

\* What a run keeps of a frame.
LEMMA KeptBound ==
  ASSUME TypeInv, Gated => Collected <= req.max, NEW f \in Message, f.kind = "data"
  PROVE  Kept(f) \in 0..Len(f.bytes) /\ (Gated => Collected + Kept(f) <= req.max)
<1>1. Len(f.bytes) \in Nat /\ req.max \in Nat /\ Collected \in Nat
  BY MessageFacts, RequestFacts DEF TypeInv, OwnerType, Channels, Collected
<1> QED BY <1>1 DEF Kept

LEMMA TypeRun ==
  ASSUME TypeInv, Gated => Collected <= req.max, RunSteps
  PROVE  TypeInv'
<1>1. /\ inbox \in Seq(Command) /\ wire \in Seq(Message) /\ mailbox \in Seq(Message)
      /\ port \in {"open", "closed"} /\ OwnerType
  BY DEF TypeInv, PortType
<1>2. CASE RunDeadline
  <2>1. inbox' \in Seq(Command)
    BY <1>2, SendsType, CommandFacts DEF RunDeadline
  <2> QED BY <1>1, <1>2, <2>1, OwnerTyped
          DEF RunDeadline, Collecting, portVars, guardVars, OwnerType
<1>3. ASSUME NEW outcome, NEW output, RunReturns(outcome, output), mailbox' \in Seq(Message)
      PROVE  TypeInv'
  <2>1. wire' \in Seq(Message) /\ port' = "closed" /\ own' = "closing"
    BY <1>3, CloseType DEF RunReturns, StartClosing, TypeInv
  <2> QED BY <1>1, <1>3, <2>1, OwnerTyped DEF RunReturns, OwnerType
<1>4. CASE RunBackstop
  BY <1>1, <1>3, <1>4 DEF RunBackstop
<1>5. CASE RunExit \/ RunLost
  <2>1. mailbox' \in Seq(Message)
    BY <1>5, ConsumeType DEF RunExit, RunLost, Arrived
  <2> QED BY <1>3, <1>5, <2>1, Zenon DEF RunExit, RunLost
<1>6. CASE RunDiscards
  <2>1. mailbox' \in Seq(Message)
    BY <1>6, ConsumeType DEF RunDiscards, Arrived
  <2> QED BY <1>1, <1>6, <2>1, OwnerTyped DEF RunDiscards, Collecting, portVars, OwnerType
<1>7. ASSUME NEW overflow \in BOOLEAN, RunOutput(overflow) PROVE TypeInv'
  <2> DEFINE frame == Head(mailbox)
             kept == Kept(frame)
             cut == kept < Len(frame.bytes)
             over == cut \/ overflow
  <2>1. frame \in Message /\ mailbox' \in Seq(Message) /\ frame.kind = "data"
    BY <1>7, ConsumeType DEF RunOutput, Arrived
  <2>2. /\ frame.channel \in Channels /\ frame.bytes \in Seq(Nat) /\ Len(frame.bytes) \in Nat
        /\ kept \in 0..Len(frame.bytes)
    BY <2>1, MessageFacts, KeptBound
  <2>3. SubSeq(frame.bytes, 1, kept) \in Seq(Nat)
    BY <2>2, SubType
  <2>4. lossy' \in BOOLEAN
    <3>1. lossy' = over /\ over \in BOOLEAN
      BY <1>7, Zenon DEF RunOutput
    <3> QED BY <3>1
  <2>5. got' = [got EXCEPT ![frame.channel] = got[frame.channel] \o SubSeq(frame.bytes, 1, kept)]
    BY <1>7 DEF RunOutput
  <2>6. got' \in [Channels -> Seq(Nat)]
    <3> HIDE DEF frame, kept
    <3>1. got[frame.channel] \o SubSeq(frame.bytes, 1, kept) \in Seq(Nat)
      BY <1>1, <2>2, <2>3, ConcatProperties DEF OwnerType
    <3> QED BY <1>1, <2>2, <2>5, <3>1 DEF OwnerType
  <2>7. inbox' \in Seq(Command)
    <3>1. Credit(frame.channel, Len(frame.bytes)) \in Command /\ Kill \in Command
      BY <2>2, CommandFacts
    <3>2. CASE Gated /\ over
      <4>1. SendFrames(<<Kill>>)
        BY <1>7, <3>2 DEF RunOutput
      <4> QED BY <3>1, <4>1, SendsType
    <3>3. CASE Gated /\ ~over
      <4>1. SendFrames(<<Credit(frame.channel, Len(frame.bytes))>>)
        BY <1>7, <3>3 DEF RunOutput
      <4> QED BY <3>1, <4>1, SendsType
    <3>4. CASE ~Gated
      BY <1>1, <1>7, <3>4 DEF RunOutput
    <3> QED BY <3>2, <3>3, <3>4
  <2>8. reason' \in {"none", "max_output_bytes", "observer_overflow"}
    <3>1. CASE cut
      BY <1>7, <3>1 DEF RunOutput
    <3>2. CASE ~cut /\ overflow
      BY <1>7, <3>2 DEF RunOutput
    <3>3. CASE ~cut /\ ~overflow
      BY <1>7, <3>3 DEF RunOutput
    <3> QED BY <3>1, <3>2, <3>3
  <2>9. UNCHANGED <<req, shimVars, portVars, guard, reported, own, exit, rest, outstanding,
                    after, closed>> /\ own = "collecting"
    BY <1>7, Zenon DEF RunOutput, Collecting
  <2> HIDE DEF frame, kept, cut, over
  <2>10. OwnerType'
    BY <1>1, <2>4, <2>6, <2>8, <2>9 DEF OwnerType
  <2> QED BY <1>1, <2>1, <2>7, <2>9, <2>10, OwnerTyped DEF portVars
<1> QED BY <1>2, <1>4, <1>5, <1>6, <1>7 DEF RunSteps

LEMMA StreamCut ==
  ASSUME NEW b \in Seq(Nat), NEW m \in 0..Len(b)
  PROVE  SubSeq(b, 1, m) \in Seq(Nat) /\ SubSeq(b, m + 1, Len(b)) \in Seq(Nat)
BY SubSeqProperties

LEMMA HeardType ==
  ASSUME TypeInv, NEW kind, StreamHas(kind)
  PROVE  /\ Head(mailbox) \in Message /\ Head(mailbox).kind = kind
         /\ mailbox' \in Seq(Message) /\ mailbox # <<>> /\ own = "pulling"
BY ConsumeType DEF StreamHas, Arrived

\* KILL is sent on the way to a confirmation.
LEMMA ConfirmingType ==
  ASSUME TypeInv, NEW then, StartConfirming(then)
  PROVE  inbox' \in Seq(Command) /\ own' = "confirming" /\ after' = then
BY SendsType, CommandFacts DEF StartConfirming

LEMMA YieldType == \A bytes : Yield(bytes) \in {"next", "idle"}
BY DEF Yield

LEMMA TypeOutput == TypeInv /\ StreamOutput => TypeInv'
<1> SUFFICES ASSUME TypeInv, StreamOutput PROVE TypeInv'
  OBVIOUS
<1> DEFINE frame == Head(mailbox)
           b == rest \o frame.bytes
           over == Gated /\ (Overlong(b) # {} \/ Len(b) - LastEnd(b) > req.max)
           n == IF Gated /\ Overlong(b) # {} THEN BeforeOverlong(b) ELSE LastEnd(b)
<1>1. /\ inbox \in Seq(Command) /\ wire \in Seq(Message) /\ OwnerType
      /\ port \in {"open", "closed"}
  BY DEF TypeInv, PortType
<1>2. frame \in Message /\ frame.kind = "data" /\ mailbox' \in Seq(Message)
  BY HeardType DEF StreamOutput
<1>3. frame.bytes \in Seq(Nat) /\ Len(frame.bytes) \in Nat
  BY <1>2, MessageFacts
<1>4. b \in Seq(Nat)
  BY <1>1, <1>3, ConcatProperties DEF OwnerType
<1>5. n \in 0..Len(b)
  <2> HIDE DEF b
  <2> QED BY <1>4, LastEndBound, BeforeOverlongBound
<1>6. got' = [got EXCEPT !["out"] = got["out"] \o SubSeq(b, 1, n)]
  BY DEF StreamOutput
<1>7. rest' = (IF over THEN <<>> ELSE SubSeq(b, n + 1, Len(b)))
  BY DEF StreamOutput
<1>8. outstanding' = Charged(Len(frame.bytes))
  BY DEF StreamOutput
<1>9. \/ StartConfirming(Yield(SubSeq(b, 1, n))) /\ exit' = "error"
      \/ own' = Yield(SubSeq(b, 1, n)) /\ UNCHANGED <<after, inbox, exit>>
  BY Zenon DEF StreamOutput
<1>10. UNCHANGED <<req, shimVars, portVars, guard, reported, reason, lossy, result, closed>>
  BY Zenon DEF StreamOutput
<1> HIDE DEF frame, b, over, n
<1>11. SubSeq(b, 1, n) \in Seq(Nat) /\ SubSeq(b, n + 1, Len(b)) \in Seq(Nat)
  BY <1>4, <1>5, StreamCut
<1>12. got' \in [Channels -> Seq(Nat)]
  <2>1. got["out"] \o SubSeq(b, 1, n) \in Seq(Nat)
    BY <1>1, <1>11, ConcatProperties DEF OwnerType, Channels
  <2> QED BY <1>1, <1>6, <2>1 DEF OwnerType, Channels
<1>13. rest' \in Seq(Nat)
  BY <1>7, <1>11
<1>14. outstanding' \in 0..req.window
  BY <1>1, <1>3, <1>8, RequestFacts DEF OwnerType, Charged
<1>15. /\ inbox' \in Seq(Command) /\ own' \in {"confirming", "next", "idle"}
       /\ exit' \in {"none", "ok", "error"} /\ after' \in {"none", "close", "next", "idle"}
       /\ own' = "confirming" => after' # "none"
  <2>1. CASE StartConfirming(Yield(SubSeq(b, 1, n))) /\ exit' = "error"
    BY <2>1, ConfirmingType, YieldType
  <2>2. CASE own' = Yield(SubSeq(b, 1, n)) /\ UNCHANGED <<after, inbox, exit>>
    BY <1>1, <2>2, YieldType DEF OwnerType
  <2> QED BY <1>9, <2>1, <2>2
<1>16. OwnerType'
  BY <1>1, <1>10, <1>12, <1>13, <1>14, <1>15 DEF OwnerType
<1> QED BY <1>1, <1>2, <1>10, <1>15, <1>16, OwnerTyped DEF portVars

LEMMA TypeStderr ==
  ASSUME TypeInv, Gated /\ req.mode = "stream" => Len(got["err"]) <= req.maxErr,
         req.mode = "stream", StreamStderr
  PROVE  TypeInv'
<1> DEFINE frame == Head(mailbox)
           size == Len(frame.bytes)
           room == req.maxErr - Len(got["err"])
           over == Gated /\ size > room
           kept == IF over THEN room ELSE size
<1>1. /\ inbox \in Seq(Command) /\ wire \in Seq(Message) /\ OwnerType
      /\ port \in {"open", "closed"}
  BY DEF TypeInv, PortType
<1>2. frame \in Message /\ frame.kind = "data" /\ mailbox' \in Seq(Message)
  BY HeardType DEF StreamStderr
<1>3. frame.bytes \in Seq(Nat) /\ size \in Nat
  BY <1>2, MessageFacts
<1>4. kept \in 0..size
  <2>1. Len(got["err"]) \in Nat /\ req.maxErr \in Nat
    BY <1>1, RequestFacts DEF OwnerType, Channels
  <2>2. Gated => Len(got["err"]) <= req.maxErr
    OBVIOUS
  <2> QED BY <1>3, <2>1, <2>2
<1>5. got' = [got EXCEPT !["err"] = got["err"] \o SubSeq(frame.bytes, 1, kept)]
  BY DEF StreamStderr
<1>6. \/ StartConfirming("next") /\ exit' = "error" /\ rest' = <<>>
      \/ own' = "next" /\ UNCHANGED <<after, inbox, exit, rest>>
  BY Zenon DEF StreamStderr
<1>7. UNCHANGED <<req, shimVars, portVars, guard, reported, reason, lossy, outstanding,
                  result, closed>>
  BY Zenon DEF StreamStderr
<1> HIDE DEF frame, size, kept
<1>8. got["err"] \o SubSeq(frame.bytes, 1, kept) \in Seq(Nat)
  BY <1>1, <1>3, <1>4, SubType, ConcatProperties DEF OwnerType, Channels, size
<1>9. got' \in [Channels -> Seq(Nat)]
  BY <1>1, <1>5, <1>8 DEF OwnerType, Channels
<1>10. /\ inbox' \in Seq(Command) /\ own' \in {"confirming", "next"} /\ rest' \in Seq(Nat)
       /\ exit' \in {"none", "ok", "error"} /\ after' \in {"none", "close", "next", "idle"}
       /\ own' = "confirming" => after' # "none"
  <2>1. CASE StartConfirming("next") /\ exit' = "error" /\ rest' = <<>>
    BY <2>1, ConfirmingType
  <2>2. CASE own' = "next" /\ UNCHANGED <<after, inbox, exit, rest>>
    BY <1>1, <2>2 DEF OwnerType
  <2> QED BY <1>6, <2>1, <2>2
<1>11. OwnerType'
  BY <1>1, <1>7, <1>9, <1>10 DEF OwnerType
<1> QED BY <1>1, <1>2, <1>7, <1>10, <1>11, OwnerTyped DEF portVars

LEMMA TypeStream ==
  ASSUME TypeInv, Gated /\ req.mode = "stream" => Len(got["err"]) <= req.maxErr, StreamSteps
  PROVE  TypeInv'
<1>1. /\ inbox \in Seq(Command) /\ wire \in Seq(Message) /\ mailbox \in Seq(Message)
      /\ port \in {"open", "closed"} /\ OwnerType
  BY DEF TypeInv, PortType
<1>2. CASE Demand
  BY <1>1, <1>2, OwnerTyped DEF Demand, portVars, guardVars, ownerVars, OwnerType
<1>3. CASE StreamNext
  <2>1. inbox' \in Seq(Command)
    <3>1. CASE Gated /\ outstanding < req.window
      <4>1. req.window - outstanding \in Nat
        BY <1>1, <3>1, RequestFacts DEF OwnerType
      <4>2. Credit("out", req.window - outstanding) \in Command
        BY <4>1, CommandFacts DEF Channels
      <4>3. SendFrames(<<Credit("out", req.window - outstanding)>>)
        BY <1>3, <3>1 DEF StreamNext
      <4> QED BY <4>2, <4>3, SendsType
    <3>2. CASE ~(Gated /\ outstanding < req.window)
      BY <1>1, <1>3, <3>2 DEF StreamNext
    <3> QED BY <3>1, <3>2
  <2>2. outstanding' \in 0..req.window
    BY <1>1, <1>3, RequestFacts DEF StreamNext, OwnerType
  <2>3. UNCHANGED <<req, shimVars, portVars, guardVars, exit, reason, lossy, got, rest, after,
                    closed>> /\ own' = "pulling"
    BY <1>3, Zenon DEF StreamNext
  <2>4. OwnerType'
    BY <1>1, <2>2, <2>3 DEF OwnerType
  <2> QED BY <1>1, <2>1, <2>3, <2>4, OwnerTyped DEF portVars, guardVars
<1>4. CASE StreamEnds
  <2>1. wire' \in Seq(Message) /\ port' = "closed" /\ own' = "closing"
    BY <1>4, CloseType DEF StreamEnds, StartClosing, TypeInv
  <2> QED BY <1>1, <1>4, <2>1, OwnerTyped DEF StreamEnds, guardVars, OwnerType
<1>5. CASE StreamHalt
  <2>1. /\ wire' \in Seq(Message) /\ port' \in {"open", "closed"} /\ inbox' \in Seq(Command)
        /\ own' \in {"confirming", "closing"} /\ after' \in {after, "close"}
        /\ own' = "confirming" => after' = "close"
    <3>1. CASE exit = "none"
      BY <1>1, <1>5, <3>1, ConfirmingType DEF StreamHalt, portVars
    <3>2. CASE exit # "none"
      BY <1>1, <1>5, <3>2, CloseType DEF StreamHalt, StartClosing, TypeInv
    <3> QED BY <3>1, <3>2
  <2>2. UNCHANGED <<req, shimVars, guardVars, exit, reason, lossy, got, rest, outstanding, closed>>
    BY <1>5, Zenon DEF StreamHalt
  <2>3. OwnerType'
    BY <1>1, <2>1, <2>2 DEF OwnerType
  <2> QED BY <1>1, <2>1, <2>2, <2>3, OwnerTyped DEF guardVars
<1>6. CASE StreamOutput
  BY <1>6, TypeOutput
<1>7. CASE StreamStderr
  BY <1>7, TypeStderr DEF StreamSteps
<1>8. CASE StreamExit
  <2>1. mailbox' \in Seq(Message)
    BY <1>8, HeardType DEF StreamExit
  <2>2. exit' \in {"ok", "error"}
    BY <1>8 DEF StreamExit
  <2>3. got["out"] \o rest \in Seq(Nat)
    BY <1>1, ConcatProperties DEF OwnerType, Channels
  <2>4. got' \in [Channels -> Seq(Nat)] /\ rest' \in Seq(Nat)
    BY <1>1, <1>8, <2>3 DEF StreamExit, OwnerType, Channels
  <2>5. own' \in {"next", "idle"}
    BY <1>8, YieldType DEF StreamExit
  <2>6. UNCHANGED <<req, shimVars, inbox, portVars, guard, reported, reason, lossy, outstanding,
                    after, closed>>
    BY <1>8, Zenon DEF StreamExit
  <2>7. OwnerType'
    BY <1>1, <2>2, <2>4, <2>5, <2>6 DEF OwnerType
  <2> QED BY <1>1, <2>1, <2>5, <2>6, <2>7, OwnerTyped DEF portVars
<1>9. CASE StreamLost
  <2>1. mailbox' \in Seq(Message)
    BY <1>9, HeardType DEF StreamLost
  <2>2. UNCHANGED <<req, shimVars, inbox, portVars, guard, reported, reason, lossy, got, rest,
                    outstanding, after, closed>> /\ exit' = "error" /\ own' = "next"
    BY <1>9, Zenon DEF StreamLost
  <2>3. OwnerType'
    BY <1>1, <2>2 DEF OwnerType
  <2> QED BY <1>1, <2>1, <2>2, <2>3, OwnerTyped DEF portVars
<1>10. CASE StreamTimeout
  <2>1. /\ inbox' \in Seq(Command) /\ own' \in {"confirming", "next"}
        /\ after' \in {"next", after} /\ (own' = "confirming" => after' = "next")
    BY <1>1, <1>10, ConfirmingType DEF StreamTimeout
  <2>2. UNCHANGED <<req, shimVars, portVars, guardVars, reason, lossy, got, rest, outstanding,
                    closed>> /\ exit' = "error"
    BY <1>10, Zenon DEF StreamTimeout
  <2>3. OwnerType'
    BY <1>1, <2>1, <2>2 DEF OwnerType
  <2> QED BY <1>1, <2>1, <2>2, <2>3, OwnerTyped DEF portVars, guardVars
<1> QED BY <1>2, <1>3, <1>4, <1>5, <1>6, <1>7, <1>8, <1>9, <1>10 DEF StreamSteps

LEMMA TypeDaemon == TypeInv /\ DaemonSteps => TypeInv'
<1> SUFFICES ASSUME TypeInv, DaemonSteps PROVE TypeInv'
  OBVIOUS
<1>1. /\ inbox \in Seq(Command) /\ wire \in Seq(Message) /\ mailbox \in Seq(Message)
      /\ port \in {"open", "closed"} /\ OwnerType
  BY DEF TypeInv, PortType
<1>2. CASE DaemonReady
  BY <1>1, <1>2, OwnerTyped DEF DaemonReady, portVars, guardVars, ownerVars, OwnerType
<1>3. CASE DaemonFrame
  <2>1. Head(mailbox) \in Message /\ mailbox' \in Seq(Message)
        /\ own \in {"polling", "serving"}
    BY <1>3, ConsumeType DEF DaemonFrame, DaemonHears
  <2>2. UNCHANGED <<req, shimVars, inbox, guard, reported, reason, lossy, rest, outstanding,
                    after, closed>>
    BY <1>3, Zenon DEF DaemonFrame
  <2>3. CASE Head(mailbox).kind = "data"
    <3>1. /\ got' = [got EXCEPT ![Head(mailbox).channel] =
                       got[Head(mailbox).channel] \o Head(mailbox).bytes]
          /\ UNCHANGED <<own, portVars, exit, result>>
      BY <1>3, <2>3 DEF DaemonFrame
    <3>2. PICK c \in Channels, bytes \in Seq(Nat) : got' = [got EXCEPT ![c] = got[c] \o bytes]
      BY <2>1, <2>3, <3>1, MessageFacts
    <3>3. got' \in [Channels -> Seq(Nat)]
      <4>1. got[c] \o bytes \in Seq(Nat)
        BY <1>1, <3>2, ConcatProperties DEF OwnerType
      <4> QED BY <1>1, <3>2, <4>1 DEF OwnerType
    <3>4. OwnerType'
      BY <1>1, <2>2, <3>1, <3>3 DEF OwnerType
    <3> QED BY <1>1, <2>1, <2>2, <3>1, <3>4, OwnerTyped DEF portVars
  <2>4. CASE Head(mailbox).kind # "data"
    <3>1. StartClosing /\ UNCHANGED got /\ exit' \in {"ok", "error"}
      BY <1>3, <2>4 DEF DaemonFrame
    <3>2. wire' \in Seq(Message) /\ port' = "closed" /\ own' = "closing"
      BY <3>1, CloseType DEF StartClosing, TypeInv
    <3>3. OwnerType'
      BY <1>1, <2>2, <3>1, <3>2 DEF OwnerType
    <3> QED BY <1>1, <2>1, <2>2, <3>2, <3>3, OwnerTyped
  <2> QED BY <2>3, <2>4
<1>4. CASE DaemonStop
  <2>1. inbox' \in Seq(Command) /\ own' = "confirming" /\ after' = "close"
    BY <1>4, ConfirmingType DEF DaemonStop
  <2> QED BY <1>1, <1>4, <2>1, OwnerTyped DEF DaemonStop, portVars, guardVars, OwnerType
<1> QED BY <1>2, <1>3, <1>4 DEF DaemonSteps

-----------------------------------------------------------------------------
(* Places: where the owner is tells what it knows.                         *)

LimitInv ==
  /\ Gated /\ req.mode = "run" => Collected <= req.max
  /\ Gated /\ req.mode = "stream" => Len(got["err"]) <= req.maxErr

\* A stream goes on after a kill only to raise an error; only a run cancels.
PlaceInv ==
  /\ own = "collecting" => req.mode = "run"
  /\ own \in {"idle", "next", "pulling"} => req.mode = "stream"
  /\ own \in {"polling", "serving"} => req.mode = "daemon"
  /\ own \in {"collecting", "pulling", "polling", "serving"} => exit = "none"
  /\ own = "confirming" /\ after \in {"next", "idle"} => req.mode = "stream" /\ exit = "error"
  /\ req.mode # "run" => ~lossy /\ reason = "none"
  /\ req.mode # "stream" => rest = <<>>
  /\ lossy => reason # "none"

\* A pump sees the end of file of a child that ended, all of its output read.
EofInv ==
  /\ shim = "new" => child = "none"
  /\ eof # {} => child = "exited"
  /\ \A c \in eof : read[c] = said[c]

LEMMA EofStep ==
  ASSUME TypeInv, EofInv, [Next]_vars
  PROVE  EofInv'
<1> USE DEF shimVars, EofInv
<1>1. CASE UNCHANGED shimVars
  BY <1>1
<1>2. CASE ShimSteps
  <2>1. CASE SpawnChild
    BY <2>1 DEF SpawnChild
  <2>2. ASSUME NEW c \in Channels, ChildWrite(c) PROVE EofInv'
    BY <2>2 DEF ChildWrite
  <2>3. ASSUME NEW c \in Channels, PumpEof(c) PROVE EofInv'
    BY <2>3 DEF PumpEof
  <2>4. ASSUME NEW c \in Channels, NEW k \in {1, 2}, PumpForward(c, k) PROVE EofInv'
    BY <2>4 DEF PumpForward, TypeInv, ShimType
  <2>5. CASE SpawnFails
    BY <2>5 DEF SpawnFails
  <2>6. CASE ChildExit
    BY <2>6 DEF ChildExit
  <2>7. CASE ShimEof
    BY <2>7 DEF ShimEof
  <2>8. CASE ShimCredit
    BY <2>8 DEF ShimCredit
  <2>9. CASE ShimKill
    BY <2>9 DEF ShimKill
  <2>10. CASE ShimTimeout
    BY <2>10 DEF ShimTimeout
  <2>11. CASE ShimReap
    BY <2>11 DEF ShimReap
  <2>12. CASE ShimReport
    BY <2>12 DEF ShimReport
  <2>13. CASE ShimLeft \/ ShimHearsClose \/ ShimCrash
    BY <2>13 DEF ShimLeft, ShimHearsClose, ShimCrash
  <2> QED
    BY <1>2, <2>1, <2>2, <2>3, <2>4, <2>5, <2>6, <2>7, <2>8, <2>9, <2>10, <2>11, <2>12, <2>13
       DEF ShimSteps
<1>3. GuardSteps => UNCHANGED shimVars
  BY Zenon DEF GuardSteps, PortEnds, GuardEnds, GuardRelay, GuardDown
<1>4. OwnerSteps => UNCHANGED shimVars
  BY OwnerFrame
<1> QED BY <1>1, <1>2, <1>3, <1>4 DEF Next, Finished, vars

LEMMA PlaceStep ==
  ASSUME TypeInv, PlaceInv, [Next]_vars
  PROVE  PlaceInv'
<1> USE DEF PlaceInv, portVars, guardVars
<1>1. CASE UNCHANGED vars
  BY <1>1 DEF vars, ownerVars
<1>2. CASE (ShimSteps \/ GuardSteps) /\ UNCHANGED ownerVars
  <2>1. GuardSteps => UNCHANGED <<req, own>>
    BY Zenon DEF GuardSteps, PortEnds, GuardEnds, GuardRelay, GuardDown
  <2>2. ShimSteps => UNCHANGED <<req, own>>
    BY Zenon DEF ShimSteps, SpawnChild, SpawnFails, ChildExit, ShimEof, ShimCredit, ShimKill,
                 ShimTimeout, ShimReap, ShimReport, ShimLeft, ShimHearsClose, ShimCrash,
                 ChildWrite, PumpEof, PumpForward
  <2> QED BY <1>2, <2>1, <2>2 DEF ownerVars
<1>3. CASE Drain
  BY <1>3 DEF Drain
<1>4. CASE DrainTimeout
  BY <1>4 DEF DrainTimeout
<1>5. CASE OwnerDies
  BY <1>5 DEF OwnerDies, ownerVars
<1>6. CASE ConfirmFrame
  BY <1>6 DEF ConfirmFrame, Confirmed, StartClosing, ownerVars, TypeInv, OwnerType
<1>7. CASE ConfirmTimeout
  BY <1>7 DEF ConfirmTimeout, Confirmed, StartClosing, ownerVars, TypeInv, OwnerType
<1>8. CASE RunSteps
  <2>1. CASE RunDeadline
    BY <2>1 DEF RunDeadline, Collecting
  <2>2. ASSUME NEW outcome, NEW output, Collecting, RunReturns(outcome, output) PROVE PlaceInv'
    BY <2>2 DEF RunReturns, StartClosing, Collecting
  <2>3. CASE RunBackstop \/ RunExit \/ RunLost
    BY <2>2, <2>3, Zenon DEF RunBackstop, RunExit, RunLost
  <2>4. CASE RunDiscards
    BY <2>4 DEF RunDiscards, Collecting
  <2>5. ASSUME NEW overflow \in BOOLEAN, RunOutput(overflow) PROVE PlaceInv'
    <3>1. lossy' => reason' # "none"
      BY <2>5 DEF RunOutput
    <3>2. Collecting /\ UNCHANGED <<req, own, exit, rest, after>>
      BY <2>5, Zenon DEF RunOutput
    <3> QED BY <3>1, <3>2 DEF Collecting
  <2> QED BY <1>8, <2>1, <2>3, <2>4, <2>5 DEF RunSteps
<1>9. CASE StreamSteps
  <2>0. req.mode = "stream"
    BY <1>9 DEF StreamSteps
  <2>1. CASE Demand
    BY <2>1 DEF Demand, ownerVars
  <2>2. CASE StreamNext
    BY <2>2, <2>0 DEF StreamNext
  <2>3. CASE StreamEnds
    BY <2>3, <2>0 DEF StreamEnds, StartClosing
  <2>4. CASE StreamHalt
    BY <2>4, <2>0 DEF StreamHalt, StartConfirming, StartClosing
  <2>5. CASE StreamOutput
    <3>1. UNCHANGED <<req, reason, lossy>>
      BY <2>5, Zenon DEF StreamOutput
    <3>2. (\E y \in {"next", "idle"} : own' = y)
          \/ (own' = "confirming" /\ exit' = "error")
      BY <2>5, YieldType DEF StreamOutput, StartConfirming
    <3> QED BY <2>0, <3>1, <3>2
  <2>6. CASE StreamStderr
    BY <2>6, <2>0 DEF StreamStderr, StartConfirming
  <2>7. CASE StreamExit
    BY <2>7, <2>0, YieldType DEF StreamExit
  <2>8. CASE StreamLost
    BY <2>8, <2>0 DEF StreamLost
  <2>9. CASE StreamTimeout
    BY <2>9, <2>0 DEF StreamTimeout, StartConfirming
  <2> QED
    BY <1>9, <2>1, <2>2, <2>3, <2>4, <2>5, <2>6, <2>7, <2>8, <2>9 DEF StreamSteps
<1>10. CASE DaemonSteps
  <2>1. CASE DaemonReady
    BY <2>1 DEF DaemonReady, ownerVars
  <2>2. CASE DaemonFrame
    <3>1. UNCHANGED <<req, reason, lossy, rest>> /\ own \in {"polling", "serving"}
      BY <2>2, Zenon DEF DaemonFrame, DaemonHears
    <3>2. UNCHANGED <<own, exit>> \/ own' = "closing"
      BY <2>2, Zenon DEF DaemonFrame, StartClosing
    <3> QED BY <3>1, <3>2
  <2>3. CASE DaemonStop
    BY <2>3 DEF DaemonStop, StartConfirming
  <2> QED BY <1>10, <2>1, <2>2, <2>3 DEF DaemonSteps
<1> QED
  BY <1>1, <1>2, <1>3, <1>4, <1>5, <1>6, <1>7, <1>8, <1>9, <1>10 DEF Next, OwnerSteps, Finished

\* Who touches what was collected.
LEMMA GotFrame ==
  ASSUME [Next]_vars
  PROVE  \/ UNCHANGED <<req, got>>
         \/ RunSteps /\ \E overflow \in BOOLEAN : RunOutput(overflow)
         \/ req.mode = "stream" /\ (StreamOutput \/ StreamStderr \/ StreamExit)
         \/ req.mode = "daemon" /\ DaemonFrame
<1>1. CASE UNCHANGED vars
  BY <1>1 DEF vars, ownerVars
<1>2. CASE (ShimSteps \/ GuardSteps) /\ UNCHANGED ownerVars
  <2>1. GuardSteps => UNCHANGED req
    BY Zenon DEF GuardSteps, PortEnds, GuardEnds, GuardRelay, GuardDown
  <2>2. ShimSteps => UNCHANGED req
    BY Zenon DEF ShimSteps, SpawnChild, SpawnFails, ChildExit, ShimEof, ShimCredit, ShimKill,
                 ShimTimeout, ShimReap, ShimReport, ShimLeft, ShimHearsClose, ShimCrash,
                 ChildWrite, PumpEof, PumpForward
  <2> QED BY <1>2, <2>1, <2>2 DEF ownerVars
<1>3. Drain \/ DrainTimeout \/ OwnerDies \/ ConfirmFrame \/ ConfirmTimeout
        => UNCHANGED <<req, got>>
  BY Zenon DEF Drain, DrainTimeout, OwnerDies, ConfirmFrame, ConfirmTimeout, ownerVars
<1>4. RunDeadline \/ RunBackstop \/ RunDiscards \/ RunExit \/ RunLost => UNCHANGED <<req, got>>
  BY Zenon DEF RunDeadline, RunBackstop, RunDiscards, RunExit, RunLost, RunReturns
<1>5. Demand \/ StreamNext \/ StreamEnds \/ StreamHalt \/ StreamLost \/ StreamTimeout
        => UNCHANGED <<req, got>>
  BY Zenon DEF Demand, StreamNext, StreamEnds, StreamHalt, StreamLost, StreamTimeout, ownerVars
<1>6. DaemonReady \/ DaemonStop => UNCHANGED <<req, got>>
  BY Zenon DEF DaemonReady, DaemonStop, ownerVars
<1> QED
  BY <1>1, <1>2, <1>3, <1>4, <1>5, <1>6, Zenon
     DEF Next, OwnerSteps, Finished, RunSteps, StreamSteps, DaemonSteps

LEMMA LimitStep ==
  ASSUME TypeInv, LimitInv, [Next]_vars
  PROVE  LimitInv'
<1>0. got \in [Channels -> Seq(Nat)] /\ rest \in Seq(Nat) /\ mailbox \in Seq(Message)
      /\ req.max \in Nat /\ req.maxErr \in Nat
  BY RequestFacts DEF TypeInv, OwnerType, PortType
<1>1. CASE UNCHANGED <<req, got>>
  BY <1>1 DEF LimitInv, Collected, Gated
<1>2. ASSUME RunSteps, NEW overflow \in BOOLEAN, RunOutput(overflow) PROVE LimitInv'
  <2> DEFINE frame == Head(mailbox)
             kept == Kept(frame)
  <2>1. frame \in Message /\ frame.kind = "data" /\ req' = req /\ req.mode = "run"
    BY <1>2, ConsumeType DEF RunOutput, Arrived, RunSteps
  <2>2. frame.channel \in Channels /\ frame.bytes \in Seq(Nat) /\ Len(frame.bytes) \in Nat
    BY <2>1, MessageFacts
  <2>3. kept \in 0..Len(frame.bytes) /\ (Gated => Collected + kept <= req.max)
    BY <2>1, KeptBound DEF LimitInv
  <2>4. got' = [got EXCEPT ![frame.channel] = got[frame.channel] \o SubSeq(frame.bytes, 1, kept)]
    BY <1>2 DEF RunOutput
  <2> HIDE DEF kept, frame
  <2>5. SubSeq(frame.bytes, 1, kept) \in Seq(Nat) /\ Len(SubSeq(frame.bytes, 1, kept)) = kept
    BY <2>2, <2>3, SubType
  <2>6. Len(got'[frame.channel]) = Len(got[frame.channel]) + kept
    BY <1>0, <2>2, <2>4, <2>5, ConcatProperties
  <2>7. \A c \in Channels : c # frame.channel => got'[c] = got[c]
    BY <1>0, <2>2, <2>4
  <2>8. Len(got["out"]) \in Nat /\ Len(got["err"]) \in Nat
    BY <1>0 DEF Channels
  <2>9. Collected' = Collected + kept
    <3> DEFINE outs == Len(got["out"])
               errs == Len(got["err"])
    <3>1. Collected = outs + errs /\ Collected' = outs' + errs'
      BY DEF Collected
    <3>2. \/ outs' = outs + kept /\ errs' = errs
          \/ outs' = outs /\ errs' = errs + kept
      BY <2>2, <2>6, <2>7 DEF Channels
    <3>3. outs \in Nat /\ errs \in Nat /\ kept \in Nat
      BY <2>2, <2>3, <2>8
    <3> HIDE DEF outs, errs
    <3> QED BY <3>1, <3>2, <3>3
  <2> QED BY <2>1, <2>3, <2>9 DEF LimitInv, Gated
<1>3. CASE req.mode = "stream" /\ (StreamOutput \/ StreamExit)
  <2>1. req' = req /\ got'["err"] = got["err"]
    <3>1. CASE StreamOutput
      BY <1>0, <3>1 DEF StreamOutput, Channels
    <3>2. CASE StreamExit
      BY <1>0, <3>2 DEF StreamExit, Channels
    <3> QED BY <1>3, <3>1, <3>2
  <2> QED BY <1>3, <2>1 DEF LimitInv, Gated
<1>4. CASE req.mode = "stream" /\ StreamStderr
  <2> DEFINE frame == Head(mailbox)
             size == Len(frame.bytes)
             room == req.maxErr - Len(got["err"])
             over == Gated /\ size > room
             kept == IF over THEN room ELSE size
  <2>1. frame \in Message /\ frame.kind = "data" /\ req' = req
    BY <1>4, HeardType DEF StreamStderr
  <2>2. frame.bytes \in Seq(Nat) /\ size \in Nat
    BY <2>1, MessageFacts
  <2>3. Len(got["err"]) \in Nat
    BY <1>0 DEF Channels
  <2>4. kept \in 0..size /\ (Gated => Len(got["err"]) + kept <= req.maxErr)
    BY <1>0, <1>4, <2>2, <2>3 DEF LimitInv
  <2>5. got' = [got EXCEPT !["err"] = got["err"] \o SubSeq(frame.bytes, 1, kept)]
    BY <1>4 DEF StreamStderr
  <2> HIDE DEF frame, size, kept
  <2>6. SubSeq(frame.bytes, 1, kept) \in Seq(Nat) /\ Len(SubSeq(frame.bytes, 1, kept)) = kept
    BY <2>2, <2>4, SubType DEF size
  <2>7. Len(got'["err"]) = Len(got["err"]) + kept
    BY <1>0, <2>5, <2>6, ConcatProperties DEF Channels
  <2> QED BY <1>4, <2>1, <2>4, <2>7 DEF LimitInv, Gated
<1>5. CASE req.mode = "daemon" /\ DaemonFrame
  BY <1>5 DEF DaemonFrame, LimitInv
<1> QED BY <1>1, <1>2, <1>3, <1>4, <1>5, GotFrame

CoreInv == TypeInv /\ LimitInv /\ PlaceInv /\ EofInv

LEMMA CoreInit == Init => CoreInv
<1> SUFFICES ASSUME Init PROVE CoreInv
  OBVIOUS
<1>1. /\ req.mode \in {"run", "stream", "daemon"}
      /\ req.window \in Nat /\ req.max \in Nat /\ req.maxErr \in Nat
      /\ req.out \in Seq({"x", "n"}) /\ req.err \in Seq({"x", "n"})
  BY RequestAssumption DEF Init, Request
<1>2. ShimType
  <2>1. doomed \in BOOLEAN /\ discard \in BOOLEAN /\ timedOut \in BOOLEAN /\ crashed \in BOOLEAN
    BY Zenon DEF Init
  <2>2. req \in Requests /\ child = "none" /\ shim = "new" /\ eof = {}
        /\ said = Zero /\ read = Zero /\ avail = Zero
    BY DEF Init
  <2>3. Zero \in [Channels -> Nat] /\ \A c \in Channels : Zero[c] = 0
    BY DEF Zero
  <2> QED BY <1>1, <2>1, <2>2, <2>3 DEF ShimType, Script
<1>3. PortType
  <2>1. FirstCredit \in Seq(Command)
    <3>1. \A c \in Channels, n \in Nat : Credit(c, n) \in Command
      BY CommandFacts
    <3>2. Credit("out", req.window) \in Command /\ Credit("err", req.window) \in Command
          /\ Credit("err", req.maxErr + 1) \in Command
      BY <1>1, <3>1 DEF Channels
    <3> QED BY <3>2 DEF FirstCredit
  <2>2. <<Eof>> \o FirstCredit \in Seq(Command)
    <3>1. <<Eof>> \in Seq(Command)
      BY CommandFacts
    <3> QED BY <2>1, <3>1, ConcatProperties
  <2>3. reported \in BOOLEAN
    BY Zenon DEF Init
  <2>4. inbox \in Seq(Command)
    BY <2>2 DEF Init
  <2>5. port = "open" /\ guard = "relay" /\ wire = <<>> /\ mailbox = <<>>
    BY DEF Init
  <2> QED BY <2>3, <2>4, <2>5 DEF PortType
<1>4. OwnerType
  <2>1. lossy \in BOOLEAN
    BY Zenon DEF Init
  <2>2. own \in {"collecting", "idle", "polling"}
    BY <1>1 DEF Init
  <2>3. exit = "none" /\ reason = "none" /\ after = "none" /\ closed = "none"
        /\ got = [c \in Channels |-> <<>>] /\ rest = <<>> /\ outstanding = 0
    BY DEF Init
  <2>4. outstanding \in 0..req.window /\ got \in [Channels -> Seq(Nat)] /\ rest \in Seq(Nat)
    BY <1>1, <2>3
  <2> QED BY <2>1, <2>2, <2>3, <2>4 DEF OwnerType
<1>5. own # "confirming"
  BY DEF Init
<1>6. LimitInv
  BY <1>1 DEF Init, LimitInv, Collected, Channels
<1>7. PlaceInv /\ EofInv
  BY <1>1 DEF Init, PlaceInv, EofInv
<1> QED BY <1>2, <1>3, <1>4, <1>5, <1>6, <1>7 DEF CoreInv, TypeInv

LEMMA CoreStep == CoreInv /\ [Next]_vars => CoreInv'
<1> SUFFICES ASSUME CoreInv, [Next]_vars PROVE CoreInv'
  OBVIOUS
<1>1. PlaceInv' /\ EofInv' /\ LimitInv'
  BY PlaceStep, EofStep, LimitStep DEF CoreInv
<1>2. TypeInv'
  <2>1. CASE UNCHANGED vars
    BY <2>1 DEF CoreInv, TypeInv, ShimType, PortType, OwnerType, Script, vars, shimVars,
                portVars, guardVars, ownerVars
  <2>2. CASE Drain \/ DrainTimeout \/ OwnerDies \/ ConfirmFrame \/ ConfirmTimeout
    BY <2>2, TypeEnding DEF CoreInv
  <2>3. CASE RunSteps
    <3>1. Gated => Collected <= req.max
      BY <2>3 DEF CoreInv, LimitInv, RunSteps
    <3> QED BY <2>3, <3>1, TypeRun DEF CoreInv
  <2>4. CASE StreamSteps
    <3>1. Gated /\ req.mode = "stream" => Len(got["err"]) <= req.maxErr
      BY DEF CoreInv, LimitInv
    <3> QED BY <2>4, <3>1, TypeStream DEF CoreInv
  <2>5. CASE DaemonSteps
    BY <2>5, TypeDaemon DEF CoreInv
  <2> QED
    BY <2>1, <2>2, <2>3, <2>4, <2>5, TypeShim, TypeGuard DEF CoreInv, Next, OwnerSteps, Finished
<1> QED BY <1>1, <1>2 DEF CoreInv

LEMMA CoreInductive == Spec => []CoreInv
BY CoreInit, CoreStep, PTL DEF Spec

LEMMA CoreTyped == CoreInv => TypeOK
<1> SUFFICES ASSUME CoreInv PROVE TypeOK
  OBVIOUS
<1>1. ShimType /\ PortType /\ OwnerType /\ LimitInv
  BY DEF CoreInv, TypeInv
<1>2. \A c \in Channels : said[c] \in 0..Len(Script(c)) /\ read[c] \in 0..said[c]
  <2>1. \A c \in Channels : Len(Script(c)) \in Nat
    BY RequestFacts DEF CoreInv
  <2> QED BY <1>1, <2>1 DEF ShimType
<1>3. {discard, timedOut, crashed, reported, lossy} \subseteq BOOLEAN
  BY <1>1, Zenon DEF ShimType, PortType, OwnerType
<1> QED BY <1>1, <1>2, <1>3 DEF TypeOK, ShimType, PortType, OwnerType, LimitInv

-----------------------------------------------------------------------------
(* Traffic: what a step does to the wire and to the mailbox.               *)

Bytes(m, c) == IF m.kind = "data" /\ m.channel = c THEN m.bytes ELSE <<>>

\* A report that nothing was cut off.
Final(m) == m.kind = "exit" /\ ~m.truncated

\* What the shim writes, if it writes: the next bytes of a pipe not yet at its
\* end, or a report, final only when both pipes are.
Written(m) ==
  /\ m.kind \in {"data", "exit", "error"} /\ (Final(m) => eof = Channels)
  /\ \A c \in Channels :
       /\ read'[c] = read[c] + Len(Bytes(m, c))
       /\ \A b \in 1..Len(Bytes(m, c)) : Bytes(m, c)[b] = read[c] + b
       /\ Len(Bytes(m, c)) = 0 \/ c \notin eof

LEMMA ShimWrites ==
  ASSUME TypeInv, ShimSteps
  PROVE  /\ UNCHANGED <<port, guard, mailbox, own>> /\ eof \subseteq eof'
         /\ \/ UNCHANGED <<wire, read>>
            \/ port = "open" /\ \E m \in Message : wire' = Append(wire, m) /\ Written(m)
<1> USE DEF portVars, guardVars
<1>0. \A c \in Channels : read[c] \in Nat
  BY DEF TypeInv, ShimType
<1>1. CASE SpawnFails
  <2>1. [kind |-> "error"] \in Message
    BY MessageMade
  <2>2. UNCHANGED <<port, guard, mailbox, own, read, eof>> /\ port = "open"
        /\ wire' = Append(wire, [kind |-> "error"])
    BY <1>1 DEF SpawnFails
  <2>3. Written([kind |-> "error"])
    BY <1>0, <2>2 DEF Written, Bytes, Final
  <2> QED BY <2>1, <2>2, <2>3
<1>2. CASE ShimReport
  <2> DEFINE cut == shim = "cut" /\ (Gated \/ eof # Channels)
  <2>1. PICK clean \in BOOLEAN :
          wire' = Append(wire, [kind |-> "exit", clean |-> clean, timedOut |-> timedOut,
                                truncated |-> cut])
    BY <1>2, Zenon DEF ShimReport
  <2>2. cut \in BOOLEAN /\ (~cut => eof = Channels)
    BY <1>2 DEF ShimReport
  <2>4. UNCHANGED <<port, guard, mailbox, own, read, eof>> /\ port = "open"
    BY <1>2 DEF ShimReport
  <2> HIDE DEF cut
  <2> DEFINE m == [kind |-> "exit", clean |-> clean, timedOut |-> timedOut, truncated |-> cut]
  <2>3. m \in Message
    BY <2>2, MessageMade DEF TypeInv, ShimType
  <2>5. Written(m)
    BY <1>0, <2>2, <2>4 DEF Written, Bytes, Final
  <2> QED BY <2>1, <2>3, <2>4, <2>5
<1>3. ASSUME NEW d \in Channels, NEW k \in {1, 2}, PumpForward(d, k)
      PROVE  /\ UNCHANGED <<port, guard, mailbox, own, eof>> /\ port = "open"
             /\ \E m \in Message : wire' = Append(wire, m) /\ Written(m)
  <2> DEFINE bytes == [i \in 1..k |-> read[d] + i]
             m == [kind |-> "data", channel |-> d, bytes |-> bytes]
  <2>1. bytes \in Seq(Nat) /\ Len(bytes) = k /\ \A i \in 1..k : bytes[i] = read[d] + i
    BY DEF TypeInv, ShimType
  <2>2. m \in Message
    BY <2>1, MessageMade
  <2>3. /\ UNCHANGED <<port, guard, mailbox, own, eof>> /\ port = "open" /\ d \notin eof
        /\ wire' = Append(wire, m) /\ read' = [read EXCEPT ![d] = read[d] + k]
    BY <1>3 DEF PumpForward
  <2> HIDE DEF bytes
  <2>4. m.kind = "data" /\ \A c \in Channels : Bytes(m, c) = (IF c = d THEN bytes ELSE <<>>)
    BY DEF Bytes
  <2> HIDE DEF m
  <2>5. ASSUME NEW c \in Channels
        PROVE  /\ read'[c] = read[c] + Len(Bytes(m, c))
               /\ \A b \in 1..Len(Bytes(m, c)) : Bytes(m, c)[b] = read[c] + b
               /\ Len(Bytes(m, c)) = 0 \/ c \notin eof
    <3>1. CASE c = d
      <4>1. Bytes(m, c) = bytes
        BY <2>4, <3>1
      <4>2. read'[c] = read[c] + k
        BY <2>3, <3>1 DEF TypeInv, ShimType
      <4> QED BY <2>1, <2>3, <3>1, <4>1, <4>2
    <3>2. CASE c # d
      <4>1. Bytes(m, c) = <<>>
        BY <2>4, <3>2
      <4>2. read'[c] = read[c]
        BY <2>3, <3>2 DEF TypeInv, ShimType
      <4> QED BY <1>0, <4>1, <4>2
    <3> QED BY <3>1, <3>2
  <2>6. Written(m)
    BY <2>4, <2>5 DEF Written, Final
  <2> QED BY <2>2, <2>3, <2>6
<1>4. SpawnChild \/ ChildExit \/ ShimEof \/ ShimCredit \/ ShimKill \/ ShimTimeout \/ ShimReap
        \/ ShimLeft \/ ShimHearsClose \/ ShimCrash
        => UNCHANGED <<port, wire, guard, mailbox, own, read, eof>>
  BY Zenon DEF SpawnChild, ChildExit, ShimEof, ShimCredit, ShimKill, ShimTimeout, ShimReap,
               ShimLeft, ShimHearsClose, ShimCrash, shimVars
<1>5. \A c \in Channels :
        ChildWrite(c) => UNCHANGED <<port, wire, guard, mailbox, own, read, eof>>
  BY Zenon DEF ChildWrite
<1>6. \A c \in Channels :
        PumpEof(c) => UNCHANGED <<port, wire, guard, mailbox, own, read>> /\ eof \subseteq eof'
  BY DEF PumpEof
<1> QED BY <1>1, <1>2, <1>3, <1>4, <1>5, <1>6 DEF ShimSteps

\* An owner closes its port or leaves it.
LEMMA OwnerWire == OwnerSteps => UNCHANGED portVars \/ CloseGuardedPort
<1>1. Drain \/ DrainTimeout \/ OwnerDies => UNCHANGED portVars
  BY Zenon DEF Drain, DrainTimeout, OwnerDies
<1>2. ConfirmFrame \/ ConfirmTimeout => UNCHANGED portVars \/ CloseGuardedPort
  BY Zenon DEF ConfirmFrame, ConfirmTimeout, Confirmed, StartClosing, portVars
<1>3. RunSteps => UNCHANGED portVars \/ CloseGuardedPort
  BY Zenon DEF RunSteps, RunDeadline, RunBackstop, RunDiscards, RunExit, RunLost, RunOutput,
               RunReturns, StartClosing, portVars
<1>4. StreamSteps => UNCHANGED portVars \/ CloseGuardedPort
  BY Zenon DEF StreamSteps, Demand, StreamNext, StreamEnds, StreamHalt, StreamOutput,
               StreamStderr, StreamExit, StreamLost, StreamTimeout, StartClosing, portVars
<1>5. DaemonSteps => UNCHANGED portVars \/ CloseGuardedPort
  BY Zenon DEF DaemonSteps, DaemonReady, DaemonFrame, DaemonStop, StartClosing, portVars
<1> QED BY <1>1, <1>2, <1>3, <1>4, <1>5 DEF OwnerSteps

\* An owner reads its mailbox in order, or dies.
LEMMA OwnerMail ==
  OwnerSteps => \/ UNCHANGED mailbox
                \/ mailbox # <<>> /\ Consume
                \/ mailbox' = <<>> /\ own' = "dead"
<1>1. Drain \/ DrainTimeout \/ OwnerDies \/ ConfirmFrame \/ ConfirmTimeout
        => \/ UNCHANGED mailbox
           \/ mailbox # <<>> /\ Consume
           \/ mailbox' = <<>> /\ own' = "dead"
  BY Zenon DEF Drain, DrainTimeout, OwnerDies, ConfirmFrame, ConfirmTimeout, guardVars
<1>2. RunSteps => UNCHANGED mailbox \/ (mailbox # <<>> /\ Consume)
  BY Zenon DEF RunSteps, RunDeadline, RunBackstop, RunDiscards, RunExit, RunLost, RunOutput,
               Arrived, guardVars
<1>3. StreamSteps => UNCHANGED mailbox \/ (mailbox # <<>> /\ Consume)
  BY Zenon DEF StreamSteps, Demand, StreamNext, StreamEnds, StreamHalt, StreamOutput,
               StreamStderr, StreamExit, StreamLost, StreamTimeout, StreamHas, Arrived, guardVars
<1>4. DaemonSteps => UNCHANGED mailbox \/ (mailbox # <<>> /\ Consume)
  BY Zenon DEF DaemonSteps, DaemonReady, DaemonFrame, DaemonStop, DaemonHears, guardVars
<1> QED BY <1>1, <1>2, <1>3, <1>4 DEF OwnerSteps

\* Only the drain confirms a close, at the guard's last message.
LEMMA OwnerClosed ==
  OwnerSteps =>
    \/ closed' = closed
    \/ closed' = "timeout"
    \/ /\ mailbox # <<>> /\ Consume /\ Head(mailbox).kind = "guard_closed"
<1>1. Drain => \/ closed' = closed
               \/ mailbox # <<>> /\ Consume /\ Head(mailbox).kind = "guard_closed"
  BY Zenon DEF Drain
<1>2. DrainTimeout \/ OwnerDies \/ ConfirmFrame \/ ConfirmTimeout
        => closed' = closed \/ closed' = "timeout"
  BY Zenon DEF DrainTimeout, OwnerDies, ConfirmFrame, ConfirmTimeout, ownerVars
<1>3. RunSteps => closed' = closed
  BY Zenon DEF RunSteps, RunDeadline, RunBackstop, RunDiscards, RunExit, RunLost, RunOutput,
               RunReturns
<1>4. StreamSteps => closed' = closed
  BY Zenon DEF StreamSteps, Demand, StreamNext, StreamEnds, StreamHalt, StreamOutput,
               StreamStderr, StreamExit, StreamLost, StreamTimeout, ownerVars
<1>5. DaemonSteps => closed' = closed
  BY Zenon DEF DaemonSteps, DaemonReady, DaemonFrame, DaemonStop, ownerVars
<1> QED BY <1>1, <1>2, <1>3, <1>4, <1>5 DEF OwnerSteps

-----------------------------------------------------------------------------
(* Endings: the link of a port breaks last, and guard_closed is the last   *)
(* message of its guard.                                                   *)

WireEnds ==
  \A i \in 1..Len(wire) :
    /\ wire[i].kind # "guard_closed"
    /\ wire[i].kind = "EXIT" => i = Len(wire) /\ port = "closed"

MailEnds ==
  \A i \in 1..Len(mailbox) :
    mailbox[i].kind = "guard_closed" => i = Len(mailbox) /\ guard = "gone"

LinkInv ==
  /\ WireEnds /\ MailEnds
  /\ closed = "ok" => mailbox = <<>> /\ guard = "gone"

LEMMA ClosingEnds ==
  ASSUME NEW prefix \in Seq(Message), NEW why, Closing(prefix, why),
         \A i \in 1..Len(prefix) : prefix[i].kind \notin {"guard_closed", "EXIT"}
  PROVE  WireEnds'
<1> DEFINE normal == why = "normal"
           last == [kind |-> "EXIT", normal |-> normal]
<1>1. wire' = Append(prefix, last) /\ port' = "closed"
  BY Zenon DEF Closing
<1>2. last.kind = "EXIT"
  OBVIOUS
<1> HIDE DEF last
<1>3. Len(wire') = Len(prefix) + 1 /\ wire'[Len(prefix) + 1] = last
      /\ \A i \in 1..Len(prefix) : wire'[i] = prefix[i]
  BY <1>1, AppendProperties
<1> QED BY <1>1, <1>2, <1>3 DEF WireEnds

LEMMA CloseEnds ==
  ASSUME PortType, WireEnds, CloseGuardedPort
  PROVE  WireEnds'
<1>1. CASE port = "closed"
  BY <1>1 DEF CloseGuardedPort, portVars, WireEnds
<1>2. CASE port # "closed"
  <2>1. PICK n \in 0..Len(wire) : Closing(SubSeq(wire, 1, n), "killed")
    BY <1>2, Zenon DEF CloseGuardedPort
  <2>2. SubSeq(wire, 1, n) \in Seq(Message) /\ Len(SubSeq(wire, 1, n)) = n
        /\ \A i \in 1..n : SubSeq(wire, 1, n)[i] = wire[i]
    BY SubType DEF PortType
  <2>3. \A i \in 1..n : wire[i].kind \notin {"guard_closed", "EXIT"}
    BY <1>2 DEF WireEnds, PortType
  <2> QED BY <2>1, <2>2, <2>3, ClosingEnds
<1> QED BY <1>1, <1>2

LEMMA LinkStep ==
  ASSUME TypeInv, LinkInv, [Next]_vars
  PROVE  LinkInv'
<1>0. PortType /\ wire \in Seq(Message) /\ mailbox \in Seq(Message)
  BY DEF TypeInv, PortType
<1>1. CASE UNCHANGED vars
  BY <1>1 DEF vars, portVars, guardVars, ownerVars, LinkInv, WireEnds, MailEnds
<1>2. CASE ShimSteps /\ UNCHANGED ownerVars
  <2>1. MailEnds' /\ closed' = closed /\ UNCHANGED <<port, guard, mailbox>>
    BY <1>2, ShimWrites DEF MailEnds, LinkInv, ownerVars
  <2>2. WireEnds'
    <3>1. CASE UNCHANGED wire
      BY <2>1, <3>1 DEF WireEnds, LinkInv
    <3>2. CASE wire' # wire
      <4>1. PICK m \in Message : port = "open" /\ wire' = Append(wire, m)
                                 /\ m.kind \in {"data", "exit", "error"}
        BY <1>2, <3>2, ShimWrites DEF Written
      <4>2. Len(wire') = Len(wire) + 1 /\ wire'[Len(wire) + 1] = m
            /\ \A i \in 1..Len(wire) : wire'[i] = wire[i]
        BY <1>0, <4>1, AppendProperties
      <4> QED BY <1>0, <2>1, <4>1, <4>2 DEF WireEnds, LinkInv
    <3> QED BY <3>1, <3>2
  <2> QED BY <2>1, <2>2 DEF LinkInv
<1>3. CASE PortEnds /\ UNCHANGED ownerVars
  <2>1. port = "open" /\ UNCHANGED guardVars
    BY <1>3 DEF PortEnds
  <2>2. \A i \in 1..Len(wire) : wire[i].kind \notin {"guard_closed", "EXIT"}
    BY <2>1 DEF LinkInv, WireEnds
  <2>3. WireEnds'
    <3>1. CASE Closing(Append(wire, [kind |-> "exit_status"]), "normal")
      <4> DEFINE m == [kind |-> "exit_status"]
      <4>1. m \in Message /\ m.kind = "exit_status"
        BY MessageMade
      <4> HIDE DEF m
      <4>2. Append(wire, m) \in Seq(Message) /\ Len(Append(wire, m)) = Len(wire) + 1
            /\ Append(wire, m)[Len(wire) + 1] = m
            /\ \A i \in 1..Len(wire) : Append(wire, m)[i] = wire[i]
        BY <1>0, <4>1, AppendProperties
      <4>3. \A i \in 1..Len(Append(wire, m)) :
              Append(wire, m)[i].kind \notin {"guard_closed", "EXIT"}
        BY <1>0, <2>2, <4>1, <4>2
      <4> QED BY <3>1, <4>2, <4>3, ClosingEnds DEF m
    <3>2. ASSUME NEW n \in 0..Len(wire), Closing(SubSeq(wire, 1, n), "epipe") PROVE WireEnds'
      <4>1. SubSeq(wire, 1, n) \in Seq(Message) /\ Len(SubSeq(wire, 1, n)) = n
            /\ \A i \in 1..n : SubSeq(wire, 1, n)[i] = wire[i]
        BY <1>0, SubType
      <4>2. \A i \in 1..Len(SubSeq(wire, 1, n)) :
              SubSeq(wire, 1, n)[i].kind \notin {"guard_closed", "EXIT"}
        BY <1>0, <2>2, <4>1
      <4> QED BY <3>2, <4>1, <4>2, ClosingEnds
    <3> QED BY <1>3, <3>1, <3>2 DEF PortEnds
  <2> QED BY <1>3, <2>1, <2>3 DEF LinkInv, MailEnds, guardVars, ownerVars
<1>4. CASE GuardEnds /\ UNCHANGED ownerVars
  <2> DEFINE before == IF Head(wire).normal \/ reported THEN <<>> ELSE <<[kind |-> "exit_status"]>>
             last == [kind |-> "guard_closed"]
  <2>1. guard = "relay" /\ wire # <<>> /\ wire' = Tail(wire) /\ guard' = "gone" /\ port' = port
        /\ Send(before \o <<last>>)
    BY <1>4, Zenon DEF GuardEnds
  <2>2. WireEnds'
    BY <1>0, <2>1 DEF LinkInv, WireEnds
  <2>3. \A i \in 1..Len(mailbox) : mailbox[i].kind # "guard_closed"
    BY <2>1 DEF LinkInv, MailEnds
  <2>4. MailEnds'
    <3>1. CASE own = "dead"
      BY <2>1, <3>1 DEF Send, MailEnds
    <3>2. CASE own # "dead"
      <4>1. mailbox' = mailbox \o (before \o <<last>>)
        BY <2>1, <3>2 DEF Send
      <4>2. CASE before = <<>>
        BY <1>0, <2>1, <2>3, <4>1, <4>2 DEF MailEnds
      <4>3. CASE before = <<[kind |-> "exit_status"]>>
        BY <1>0, <2>1, <2>3, <4>1, <4>3 DEF MailEnds
      <4> QED BY <4>2, <4>3
    <3> QED BY <3>1, <3>2
  <2>5. closed' # "ok"
    BY <1>4, <2>1 DEF LinkInv, ownerVars
  <2> QED BY <2>2, <2>4, <2>5 DEF LinkInv
<1>5. CASE GuardRelay /\ UNCHANGED ownerVars
  <2>1. guard = "relay" /\ wire # <<>> /\ wire' = Tail(wire) /\ UNCHANGED <<guard, port>>
        /\ Send(<<Head(wire)>>)
    BY <1>5, Zenon DEF GuardRelay
  <2>2. WireEnds'
    BY <1>0, <2>1 DEF LinkInv, WireEnds
  <2>3. Head(wire).kind # "guard_closed" /\ Head(wire) \in Message
    BY <1>0, <2>1 DEF LinkInv, WireEnds
  <2>4. \A i \in 1..Len(mailbox) : mailbox[i].kind # "guard_closed"
    BY <2>1 DEF LinkInv, MailEnds
  <2>5. MailEnds'
    <3>1. CASE own = "dead"
      BY <2>1, <3>1 DEF Send, MailEnds
    <3>2. CASE own # "dead"
      BY <1>0, <2>1, <2>3, <2>4, <3>2 DEF Send, MailEnds
    <3> QED BY <3>1, <3>2
  <2>6. closed' # "ok"
    BY <1>5, <2>1 DEF LinkInv, ownerVars
  <2> QED BY <2>2, <2>5, <2>6 DEF LinkInv
<1>6. CASE GuardDown /\ UNCHANGED ownerVars
  <2>1. CloseGuardedPort /\ guard' = "gone" /\ mailbox' = mailbox
    BY <1>6 DEF GuardDown
  <2>2. WireEnds'
    BY <1>0, <2>1, CloseEnds DEF LinkInv
  <2> QED BY <1>6, <2>1, <2>2 DEF LinkInv, MailEnds, ownerVars
<1>7. CASE OwnerSteps
  <2>1. WireEnds'
    <3>1. CASE UNCHANGED portVars
      BY <3>1 DEF LinkInv, WireEnds, portVars
    <3> QED BY <1>0, <1>7, <3>1, OwnerWire, CloseEnds DEF LinkInv
  <2>2. guard' = guard
    BY <1>7, OwnerFrame
  <2>3. MailEnds'
    <3>1. CASE UNCHANGED mailbox
      BY <2>2, <3>1 DEF LinkInv, MailEnds
    <3>2. CASE mailbox # <<>> /\ Consume
      BY <1>0, <2>2, <3>2 DEF LinkInv, MailEnds, Consume
    <3>3. CASE mailbox' = <<>>
      BY <3>3 DEF MailEnds
    <3> QED BY <1>7, <3>1, <3>2, <3>3, OwnerMail
  <2>4. closed' = "ok" => mailbox' = <<>> /\ guard' = "gone"
    <3>1. CASE closed' = closed
      <4>1. mailbox = <<>> => mailbox' = <<>>
        BY <1>7, OwnerMail
      <4> QED BY <2>2, <3>1, <4>1 DEF LinkInv
    <3>2. CASE mailbox # <<>> /\ Consume /\ Head(mailbox).kind = "guard_closed"
      <4>0. 1 \in 1..Len(mailbox) /\ Head(mailbox) = mailbox[1]
        BY <1>0, <3>2
      <4>1. Len(mailbox) = 1 /\ guard = "gone"
        BY <3>2, <4>0 DEF LinkInv, MailEnds
      <4>2. mailbox' = <<>>
        BY <1>0, <3>2, <4>1 DEF Consume
      <4> QED BY <2>2, <4>1, <4>2
    <3> QED BY <1>7, <3>1, <3>2, OwnerClosed
  <2> QED BY <2>1, <2>3, <2>4 DEF LinkInv
<1> QED
  BY <1>1, <1>2, <1>3, <1>4, <1>5, <1>6, <1>7 DEF Next, GuardSteps, Finished

\* A close that did not time out leaves no message of the port behind, and none
\* will come: guard_closed is the last word of a guard that broke its link last
\* (shim.ex close, guard_open).
THEOREM CloseIsFinal == Spec => []NothingLeftBehind
<1>1. Init => CoreInv /\ LinkInv
  BY CoreInit DEF Init, LinkInv, WireEnds, MailEnds
<1>2. CoreInv /\ LinkInv /\ [Next]_vars => CoreInv' /\ LinkInv'
  BY CoreStep, LinkStep DEF CoreInv
<1>3. LinkInv => NothingLeftBehind
  BY DEF LinkInv, NothingLeftBehind
<1> QED BY <1>1, <1>2, <1>3, PTL DEF Spec

-----------------------------------------------------------------------------
(* Budgets.                                                                *)

CreditSize(f, c) == IF f.kind = "credit" /\ f.channel = c THEN f.bytes ELSE 0
DataSize(f, c) == IF f.kind = "data" /\ f.channel = c THEN Len(f.bytes) ELSE 0

Granted(c) == Total(CreditSizes(inbox, c))
OnWire(c) == Total(DataSizes(wire, c))
InMail(c) == Total(DataSizes(mailbox, c))

\* A stream tops its budget up to the window: what it has not received is
\* what it still counts as outstanding.
Allowance(c) == IF req.mode = "stream" /\ c = "out" THEN outstanding ELSE Window(c)

BudgetInv ==
  Gated => \A c \in Channels : avail[c] + Granted(c) + OnWire(c) + InMail(c) <= Allowance(c)

LEMMA DataSizesFacts ==
  ASSUME NEW q \in Seq(Message), NEW c \in Channels
  PROVE  /\ DataSizes(q, c) \in Seq(Nat) /\ Len(DataSizes(q, c)) = Len(q)
         /\ \A i \in 1..Len(q) : DataSizes(q, c)[i] = DataSize(q[i], c)
<1>1. \A m \in Message : DataSize(m, c) \in Nat
  BY MessageFacts DEF DataSize
<1>2. \A i \in 1..Len(q) : q[i] \in Message
  OBVIOUS
<1>3. DataSizes(q, c) = [i \in 1..Len(q) |-> DataSize(q[i], c)]
  BY DEF DataSizes, DataSize
<1>4. \A i \in 1..Len(q) : DataSize(q[i], c) \in Nat
  BY <1>1, <1>2
<1> QED BY <1>3, <1>4

LEMMA CreditSizesFacts ==
  ASSUME NEW q \in Seq(Command), NEW c \in Channels
  PROVE  /\ CreditSizes(q, c) \in Seq(Nat) /\ Len(CreditSizes(q, c)) = Len(q)
         /\ \A i \in 1..Len(q) : CreditSizes(q, c)[i] = CreditSize(q[i], c)
<1>1. \A f \in Command : CreditSize(f, c) \in Nat
  BY CommandFacts DEF CreditSize
<1>2. \A i \in 1..Len(q) : q[i] \in Command
  OBVIOUS
<1>3. CreditSizes(q, c) = [i \in 1..Len(q) |-> CreditSize(q[i], c)]
  BY DEF CreditSizes, CreditSize
<1>4. \A i \in 1..Len(q) : CreditSize(q[i], c) \in Nat
  BY <1>1, <1>2
<1> QED BY <1>3, <1>4

\* Two sequences of the same elements are the same.
LEMMA SameElements ==
  ASSUME NEW s \in Seq(Nat), NEW t \in Seq(Nat), Len(s) = Len(t),
         \A i \in 1..Len(s) : s[i] = t[i]
  PROVE  s = t
BY SeqEqual

\* The bytes of a queue, as messages join and leave it.
LEMMA DataGrows ==
  ASSUME NEW q \in Seq(Message), NEW m \in Message, NEW c \in Channels
  PROVE  Total(DataSizes(Append(q, m), c)) = Total(DataSizes(q, c)) + DataSize(m, c)
<1> DEFINE longer == Append(q, m)
<1>1. longer \in Seq(Message) /\ Len(longer) = Len(q) + 1 /\ longer[Len(q) + 1] = m
      /\ \A i \in 1..Len(q) : longer[i] = q[i]
  BY AppendProperties
<1> HIDE DEF longer
<1>2. DataSize(m, c) \in Nat
  BY MessageFacts DEF DataSize
<1>3. DataSizes(longer, c) = Append(DataSizes(q, c), DataSize(m, c))
  <2> DEFINE s == DataSizes(longer, c)
             t == Append(DataSizes(q, c), DataSize(m, c))
  <2>1. s \in Seq(Nat) /\ Len(s) = Len(q) + 1
        /\ \A i \in 1..Len(longer) : s[i] = DataSize(longer[i], c)
    BY <1>1, DataSizesFacts
  <2>2. t \in Seq(Nat) /\ Len(t) = Len(q) + 1 /\ t[Len(q) + 1] = DataSize(m, c)
        /\ \A i \in 1..Len(q) : t[i] = DataSize(q[i], c)
    BY <1>2, DataSizesFacts, AppendProperties
  <2> HIDE DEF s, t
  <2>3. \A i \in 1..Len(s) : s[i] = t[i]
    <3>1. \A i \in 1..Len(q) : s[i] = t[i]
      <4>1. \A i \in 1..Len(q) : i \in 1..Len(longer)
        BY <1>1
      <4> QED BY <1>1, <2>1, <2>2, <4>1
    <3>2. s[Len(q) + 1] = t[Len(q) + 1]
      <4>1. Len(q) + 1 \in 1..Len(longer)
        BY <1>1
      <4> QED BY <1>1, <2>1, <2>2, <4>1
    <3>3. \A i \in 1..Len(s) : i \in 1..Len(q) \/ i = Len(q) + 1
      BY <2>1
    <3> QED BY <3>1, <3>2, <3>3
  <2>4. s = t
    BY <2>1, <2>2, <2>3, SameElements
  <2> QED BY <2>4 DEF s, t
<1> QED BY <1>2, <1>3, DataSizesFacts, TotalAppend DEF longer

LEMMA DataLeaves ==
  ASSUME NEW q \in Seq(Message), q # <<>>, NEW c \in Channels
  PROVE  Total(DataSizes(q, c)) = DataSize(Head(q), c) + Total(DataSizes(Tail(q), c))
<1> DEFINE s == DataSizes(q, c)
           t == DataSizes(Tail(q), c)
<1>1. Tail(q) \in Seq(Message) /\ Len(Tail(q)) = Len(q) - 1 /\ Head(q) = q[1]
      /\ Len(q) \in Nat \ {0} /\ \A i \in 1..Len(Tail(q)) : Tail(q)[i] = q[i + 1]
  BY HeadTailProperties, EmptySeq
<1>2. s \in Seq(Nat) /\ Len(s) = Len(q) /\ \A i \in 1..Len(q) : s[i] = DataSize(q[i], c)
  BY DataSizesFacts
<1>3. t \in Seq(Nat) /\ Len(t) = Len(q) - 1
      /\ \A i \in 1..Len(Tail(q)) : t[i] = DataSize(Tail(q)[i], c)
  BY <1>1, DataSizesFacts
<1> HIDE DEF s, t
<1>4. s # <<>> /\ Head(s) = DataSize(Head(q), c)
  BY <1>1, <1>2
<1>5. Tail(s) \in Seq(Nat) /\ Len(Tail(s)) = Len(s) - 1
      /\ \A i \in 1..Len(Tail(s)) : Tail(s)[i] = s[i + 1]
  BY <1>2, <1>4, HeadTailProperties
<1>6. Tail(s) = t
  <2>1. \A i \in 1..Len(t) : Tail(s)[i] = t[i]
    BY <1>1, <1>2, <1>3, <1>5
  <2> QED BY <1>2, <1>3, <1>5, <2>1, SameElements
<1>7. Total(s) = Head(s) + Total(Tail(s))
  BY <1>2, <1>4, TotalTail
<1> QED BY <1>4, <1>6, <1>7 DEF s, t

LEMMA DataCut ==
  ASSUME NEW q \in Seq(Message), NEW n \in 0..Len(q), NEW c \in Channels
  PROVE  Total(DataSizes(SubSeq(q, 1, n), c)) <= Total(DataSizes(q, c))
<1> DEFINE s == DataSizes(q, c)
           cut == SubSeq(q, 1, n)
           t == DataSizes(cut, c)
<1>1. s \in Seq(Nat) /\ Len(s) = Len(q) /\ \A i \in 1..Len(q) : s[i] = DataSize(q[i], c)
  BY DataSizesFacts
<1>2. cut \in Seq(Message) /\ Len(cut) = n /\ \A i \in 1..n : cut[i] = q[i]
  BY SubType
<1>3. t \in Seq(Nat) /\ Len(t) = n /\ \A i \in 1..Len(cut) : t[i] = DataSize(cut[i], c)
  BY <1>2, DataSizesFacts
<1> HIDE DEF s, cut, t
<1>4. SubSeq(s, 1, n) \in Seq(Nat) /\ Len(SubSeq(s, 1, n)) = n
      /\ \A i \in 1..n : SubSeq(s, 1, n)[i] = s[i]
  BY <1>1, SubType
<1>5. SubSeq(s, 1, n) = t
  <2>1. \A i \in 1..Len(t) : SubSeq(s, 1, n)[i] = t[i]
    BY <1>1, <1>2, <1>3, <1>4
  <2> QED BY <1>3, <1>4, <2>1, SameElements
<1>6. Total(SubSeq(s, 1, n)) <= Total(s)
  BY <1>1, TotalPrefix
<1> QED BY <1>5, <1>6 DEF s, t, cut

LEMMA CreditGrows ==
  ASSUME NEW q \in Seq(Command), NEW f \in Command, NEW c \in Channels
  PROVE  Total(CreditSizes(Append(q, f), c)) = Total(CreditSizes(q, c)) + CreditSize(f, c)
<1> DEFINE longer == Append(q, f)
<1>1. longer \in Seq(Command) /\ Len(longer) = Len(q) + 1 /\ longer[Len(q) + 1] = f
      /\ \A i \in 1..Len(q) : longer[i] = q[i]
  BY AppendProperties
<1> HIDE DEF longer
<1>2. CreditSize(f, c) \in Nat
  BY CommandFacts DEF CreditSize
<1>3. CreditSizes(longer, c) = Append(CreditSizes(q, c), CreditSize(f, c))
  <2> DEFINE s == CreditSizes(longer, c)
             t == Append(CreditSizes(q, c), CreditSize(f, c))
  <2>1. s \in Seq(Nat) /\ Len(s) = Len(q) + 1
        /\ \A i \in 1..Len(longer) : s[i] = CreditSize(longer[i], c)
    BY <1>1, CreditSizesFacts
  <2>2. t \in Seq(Nat) /\ Len(t) = Len(q) + 1 /\ t[Len(q) + 1] = CreditSize(f, c)
        /\ \A i \in 1..Len(q) : t[i] = CreditSize(q[i], c)
    BY <1>2, CreditSizesFacts, AppendProperties
  <2> HIDE DEF s, t
  <2>3. \A i \in 1..Len(s) : s[i] = t[i]
    <3>1. \A i \in 1..Len(q) : s[i] = t[i]
      <4>1. \A i \in 1..Len(q) : i \in 1..Len(longer)
        BY <1>1
      <4> QED BY <1>1, <2>1, <2>2, <4>1
    <3>2. s[Len(q) + 1] = t[Len(q) + 1]
      <4>1. Len(q) + 1 \in 1..Len(longer)
        BY <1>1
      <4> QED BY <1>1, <2>1, <2>2, <4>1
    <3>3. \A i \in 1..Len(s) : i \in 1..Len(q) \/ i = Len(q) + 1
      BY <2>1
    <3> QED BY <3>1, <3>2, <3>3
  <2>4. s = t
    BY <2>1, <2>2, <2>3, SameElements
  <2> QED BY <2>4 DEF s, t
<1> QED BY <1>2, <1>3, CreditSizesFacts, TotalAppend DEF longer

LEMMA CreditLeaves ==
  ASSUME NEW q \in Seq(Command), q # <<>>, NEW c \in Channels
  PROVE  Total(CreditSizes(q, c)) = CreditSize(Head(q), c) + Total(CreditSizes(Tail(q), c))
<1> DEFINE s == CreditSizes(q, c)
           t == CreditSizes(Tail(q), c)
<1>1. Tail(q) \in Seq(Command) /\ Len(Tail(q)) = Len(q) - 1 /\ Head(q) = q[1]
      /\ Len(q) \in Nat \ {0} /\ \A i \in 1..Len(Tail(q)) : Tail(q)[i] = q[i + 1]
  BY HeadTailProperties, EmptySeq
<1>2. s \in Seq(Nat) /\ Len(s) = Len(q) /\ \A i \in 1..Len(q) : s[i] = CreditSize(q[i], c)
  BY CreditSizesFacts
<1>3. t \in Seq(Nat) /\ Len(t) = Len(q) - 1
      /\ \A i \in 1..Len(Tail(q)) : t[i] = CreditSize(Tail(q)[i], c)
  BY <1>1, CreditSizesFacts
<1> HIDE DEF s, t
<1>4. s # <<>> /\ Head(s) = CreditSize(Head(q), c)
  BY <1>1, <1>2
<1>5. Tail(s) \in Seq(Nat) /\ Len(Tail(s)) = Len(s) - 1
      /\ \A i \in 1..Len(Tail(s)) : Tail(s)[i] = s[i + 1]
  BY <1>2, <1>4, HeadTailProperties
<1>6. Tail(s) = t
  <2>1. \A i \in 1..Len(t) : Tail(s)[i] = t[i]
    BY <1>1, <1>2, <1>3, <1>5
  <2> QED BY <1>2, <1>3, <1>5, <2>1, SameElements
<1>7. Total(s) = Head(s) + Total(Tail(s))
  BY <1>2, <1>4, TotalTail
<1> QED BY <1>4, <1>6, <1>7 DEF s, t

LEMMA NothingIn ==
  ASSUME NEW c \in Channels
  PROVE  Total(CreditSizes(<<>>, c)) = 0 /\ Total(DataSizes(<<>>, c)) = 0
<1>1. CreditSizes(<<>>, c) = <<>> /\ DataSizes(<<>>, c) = <<>>
  BY DEF CreditSizes, DataSizes
<1> QED BY <1>1, TotalEmpty

LEMMA SumsTyped ==
  ASSUME PortType, NEW c \in Channels
  PROVE  Granted(c) \in Nat /\ OnWire(c) \in Nat /\ InMail(c) \in Nat
BY DataSizesFacts, CreditSizesFacts, UnitsFinite DEF PortType, Granted, OnWire, InMail

LEMMA ClosingSum ==
  ASSUME NEW prefix \in Seq(Message), NEW why, Closing(prefix, why), NEW c \in Channels
  PROVE  OnWire(c)' = Total(DataSizes(prefix, c))
<1> DEFINE normal == why = "normal"
           last == [kind |-> "EXIT", normal |-> normal]
<1>1. wire' = Append(prefix, last)
  BY Zenon DEF Closing
<1>2. normal \in BOOLEAN
  OBVIOUS
<1> HIDE DEF normal
<1>3. last \in Message /\ last.kind = "EXIT"
  BY <1>2, MessageMade
<1> HIDE DEF last
<1>4. DataSize(last, c) = 0
  BY <1>3 DEF DataSize
<1>5. Total(DataSizes(Append(prefix, last), c)) = Total(DataSizes(prefix, c)) + DataSize(last, c)
  BY <1>3, DataGrows
<1>6. Total(DataSizes(prefix, c)) \in Nat
  BY DataSizesFacts, UnitsFinite
<1>7. OnWire(c)' = Total(DataSizes(wire', c))
  BY DEF OnWire, DataSizes, Total
<1> QED BY <1>1, <1>4, <1>5, <1>6, <1>7

LEMMA CloseSum ==
  ASSUME PortType, CloseGuardedPort, NEW c \in Channels
  PROVE  OnWire(c)' <= OnWire(c)
<1>0. wire \in Seq(Message) /\ OnWire(c) \in Nat
  BY SumsTyped DEF PortType
<1>1. CASE port = "closed"
  BY <1>0, <1>1 DEF CloseGuardedPort, portVars, OnWire
<1>2. CASE port # "closed"
  <2>1. PICK n \in 0..Len(wire) : Closing(SubSeq(wire, 1, n), "killed")
    BY <1>2, Zenon DEF CloseGuardedPort
  <2>2. SubSeq(wire, 1, n) \in Seq(Message)
    BY <1>0, SubType
  <2>3. OnWire(c)' = Total(DataSizes(SubSeq(wire, 1, n), c))
    BY <2>1, <2>2, ClosingSum
  <2> QED BY <1>0, <2>3, DataCut DEF OnWire
<1> QED BY <1>1, <1>2

LEMMA SendSum ==
  ASSUME PortType, NEW f \in Command, SendFrames(<<f>>), NEW c \in Channels
  PROVE  Granted(c)' <= Granted(c) + CreditSize(f, c)
<1>1. inbox \in Seq(Command) /\ Granted(c) \in Nat /\ CreditSize(f, c) \in Nat
  BY SumsTyped, CommandFacts DEF PortType, CreditSize
<1>2. CASE port = "open"
  <2>1. inbox' = Append(inbox, f)
    BY <1>1, <1>2 DEF SendFrames
  <2>2. Granted(c)' = Total(CreditSizes(inbox', c))
    BY DEF Granted, CreditSizes, Total
  <2>3. Granted(c)' = Granted(c) + CreditSize(f, c)
    BY <1>1, <2>1, <2>2, CreditGrows DEF Granted
  <2> QED BY <1>1, <2>3
<1>3. CASE port # "open"
  BY <1>1, <1>3 DEF SendFrames, Granted
<1> QED BY <1>2, <1>3

LEMMA KillSum ==
  ASSUME PortType, UNCHANGED inbox \/ SendFrames(<<Kill>>), NEW c \in Channels
  PROVE  Granted(c)' <= Granted(c)
<1>1. Granted(c) \in Nat
  BY SumsTyped
<1>2. CASE UNCHANGED inbox
  BY <1>1, <1>2 DEF Granted
<1>3. CASE SendFrames(<<Kill>>)
  <2>1. Kill \in Command /\ CreditSize(Kill, c) = 0
    BY CommandFacts DEF Kill, CreditSize
  <2>2. Granted(c)' <= Granted(c) + CreditSize(Kill, c)
    BY <1>3, <2>1, SendSum
  <2> QED BY <1>1, <2>1, <2>2
<1> QED BY <1>2, <1>3

LEMMA ConsumeSum ==
  ASSUME PortType, mailbox # <<>>, Consume, NEW c \in Channels
  PROVE  InMail(c) = DataSize(Head(mailbox), c) + InMail(c)'
         /\ DataSize(Head(mailbox), c) \in Nat /\ InMail(c)' \in Nat
<1>1. mailbox \in Seq(Message) /\ Tail(mailbox) \in Seq(Message) /\ Head(mailbox) \in Message
  BY TailType DEF PortType
<1>2. InMail(c)' = Total(DataSizes(Tail(mailbox), c))
  BY DEF InMail, Consume, DataSizes, Total
<1>3. DataSize(Head(mailbox), c) \in Nat
  BY <1>1, MessageFacts DEF DataSize
<1>4. Total(DataSizes(Tail(mailbox), c)) \in Nat
  BY <1>1, DataSizesFacts, UnitsFinite
<1> QED BY <1>1, <1>2, <1>3, <1>4, DataLeaves DEF InMail

\* An owner never adds to what is on its way to it.
LEMMA OwnerSums ==
  ASSUME PortType, OwnerSteps, NEW c \in Channels
  PROVE  OnWire(c)' <= OnWire(c) /\ InMail(c)' <= InMail(c)
<1>1. OnWire(c) \in Nat /\ InMail(c) \in Nat
  BY SumsTyped
<1>2. OnWire(c)' <= OnWire(c)
  <2>1. CASE UNCHANGED portVars
    BY <1>1, <2>1 DEF portVars, OnWire
  <2> QED BY <2>1, OwnerWire, CloseSum
<1>3. InMail(c)' <= InMail(c)
  <2>1. CASE UNCHANGED mailbox
    BY <1>1, <2>1 DEF InMail
  <2>2. CASE mailbox # <<>> /\ Consume
    BY <1>1, <2>2, ConsumeSum
  <2>3. CASE mailbox' = <<>>
    <3>1. InMail(c)' = Total(DataSizes(mailbox', c))
      BY DEF InMail, DataSizes, Total
    <3> QED BY <1>1, <2>3, <3>1, NothingIn
  <2> QED BY <2>1, <2>2, <2>3, OwnerMail
<1> QED BY <1>2, <1>3

\* Who grants credit, and who keeps count of it.
LEMMA OwnerCredit ==
  OwnerSteps =>
    \/ req.mode = "run" /\ \E overflow \in BOOLEAN : RunOutput(overflow)
    \/ req.mode = "stream" /\ (StreamNext \/ StreamOutput)
    \/ outstanding' = outstanding /\ (UNCHANGED inbox \/ SendFrames(<<Kill>>))
<1> DEFINE Quiet == outstanding' = outstanding /\ (UNCHANGED inbox \/ SendFrames(<<Kill>>))
<1>1. Drain \/ DrainTimeout \/ OwnerDies \/ ConfirmFrame \/ ConfirmTimeout => Quiet
  BY Zenon DEF Drain, DrainTimeout, OwnerDies, ConfirmFrame, ConfirmTimeout, ownerVars
<1>2. RunDeadline \/ RunBackstop \/ RunDiscards \/ RunExit \/ RunLost => Quiet
  BY Zenon DEF RunDeadline, RunBackstop, RunDiscards, RunExit, RunLost, RunReturns
<1>3. Demand \/ StreamEnds \/ StreamHalt \/ StreamStderr \/ StreamExit \/ StreamLost
        \/ StreamTimeout => Quiet
  BY Zenon DEF Demand, StreamEnds, StreamHalt, StreamStderr, StreamExit, StreamLost,
               StreamTimeout, StartConfirming, ownerVars
<1>4. DaemonSteps => Quiet
  BY Zenon DEF DaemonSteps, DaemonReady, DaemonFrame, DaemonStop, StartConfirming, ownerVars
<1> HIDE DEF Quiet
<1>5. OwnerSteps =>
        \/ req.mode = "run" /\ \E overflow \in BOOLEAN : RunOutput(overflow)
        \/ req.mode = "stream" /\ (StreamNext \/ StreamOutput)
        \/ Quiet
  BY <1>1, <1>2, <1>3, <1>4, Zenon DEF OwnerSteps, RunSteps, StreamSteps
<1> QED BY <1>5 DEF Quiet

\* The shim turns granted credit into budget, and budget into bytes on the wire.
LEMMA ShimSums ==
  ASSUME TypeInv, ShimSteps, Gated, NEW c \in Channels
  PROVE  /\ avail'[c] + Granted(c)' + OnWire(c)' <= avail[c] + Granted(c) + OnWire(c)
         /\ avail'[c] \in Nat /\ Granted(c)' \in Nat /\ OnWire(c)' \in Nat
<1> USE DEF portVars, guardVars
<1>0. PortType /\ inbox \in Seq(Command) /\ wire \in Seq(Message)
      /\ avail \in [Channels -> Nat] /\ avail[c] \in Nat
      /\ Granted(c) \in Nat /\ OnWire(c) \in Nat
  BY SumsTyped DEF TypeInv, ShimType, PortType
<1>1. ASSUME UNCHANGED wire PROVE OnWire(c)' = OnWire(c)
  BY <1>1 DEF OnWire
<1>2. ASSUME UNCHANGED inbox PROVE Granted(c)' = Granted(c)
  BY <1>2 DEF Granted
<1>3. ASSUME inbox # <<>>, inbox' = Tail(inbox)
      PROVE  /\ Granted(c) = CreditSize(Head(inbox), c) + Granted(c)'
             /\ CreditSize(Head(inbox), c) \in Nat /\ Granted(c)' \in Nat
  <2>1. Tail(inbox) \in Seq(Command) /\ Head(inbox) \in Command
    BY <1>0, <1>3, TailType
  <2>2. Granted(c)' = Total(CreditSizes(Tail(inbox), c))
    BY <1>3 DEF Granted, CreditSizes, Total
  <2>3. CreditSize(Head(inbox), c) \in Nat
    BY <2>1, CommandFacts DEF CreditSize
  <2>4. Total(CreditSizes(Tail(inbox), c)) \in Nat
    BY <2>1, CreditSizesFacts, UnitsFinite
  <2> QED BY <1>0, <1>3, <2>2, <2>3, <2>4, CreditLeaves DEF Granted
<1>4. ASSUME NEW m \in Message, wire' = Append(wire, m)
      PROVE  OnWire(c)' = OnWire(c) + DataSize(m, c) /\ DataSize(m, c) \in Nat
  <2>1. OnWire(c)' = Total(DataSizes(wire', c))
    BY DEF OnWire, DataSizes, Total
  <2>2. DataSize(m, c) \in Nat
    BY MessageFacts DEF DataSize
  <2> QED BY <1>0, <1>4, <2>1, <2>2, DataGrows DEF OnWire
<1>5. ASSUME Cancel PROVE avail'[c] \in 0..avail[c]
  BY <1>0, <1>5 DEF Cancel
<1>6. CASE UNCHANGED <<avail, inbox, wire>>
  BY <1>0, <1>1, <1>2, <1>6
<1>7. CASE ShimEof
  BY <1>0, <1>1, <1>3, <1>7 DEF ShimEof, shimVars
<1>8. CASE ShimCredit
  <2>1. inbox # <<>> /\ inbox' = Tail(inbox) /\ wire' = wire /\ Head(inbox).kind = "credit"
    BY <1>8 DEF ShimCredit
  <2>2. Head(inbox) \in Command
    BY <1>0, <2>1, TailType
  <2>3. Head(inbox).channel \in Channels /\ Head(inbox).bytes \in Nat
    BY <2>1, <2>2, CommandFacts
  <2>4. avail'[c] \in {avail[c], avail[c] + CreditSize(Head(inbox), c)}
    <3>1. CASE UNCHANGED avail
      BY <3>1
    <3>2. CASE avail' = [avail EXCEPT ![Head(inbox).channel] =
                           avail[Head(inbox).channel] + Head(inbox).bytes]
      <4>1. CASE c = Head(inbox).channel
        BY <1>0, <2>1, <3>2, <4>1 DEF CreditSize
      <4>2. CASE c # Head(inbox).channel
        BY <1>0, <3>2, <4>2
      <4> QED BY <4>1, <4>2
    <3> QED BY <1>8, <3>1, <3>2 DEF ShimCredit
  <2> QED BY <1>0, <1>1, <1>3, <2>1, <2>4
<1>9. CASE ShimKill
  <2>1. inbox # <<>> /\ inbox' = Tail(inbox) /\ wire' = wire /\ (avail' = avail \/ Cancel)
    BY <1>9, Zenon DEF ShimKill
  <2>2. avail'[c] \in 0..avail[c]
    BY <1>0, <1>5, <2>1
  <2> QED BY <1>0, <1>1, <1>3, <2>1, <2>2, SMTT(30)
<1>10. CASE ShimReap
  <2>1. inbox' = inbox /\ wire' = wire /\ (avail' = avail \/ Cancel)
    BY <1>10, Zenon DEF ShimReap
  <2>2. avail'[c] \in 0..avail[c]
    BY <1>0, <1>5, <2>1
  <2> QED BY <1>0, <1>1, <1>2, <2>1, <2>2
<1>11. CASE SpawnFails
  <2>1. wire' = Append(wire, [kind |-> "error"]) /\ inbox' = inbox /\ avail' = avail
    BY <1>11 DEF SpawnFails
  <2>2. [kind |-> "error"] \in Message /\ DataSize([kind |-> "error"], c) = 0
    BY MessageMade DEF DataSize
  <2> QED BY <1>0, <1>2, <1>4, <2>1, <2>2
<1>12. CASE ShimReport
  <2> DEFINE cut == shim = "cut" /\ (Gated \/ eof # Channels)
  <2>1. PICK clean \in BOOLEAN :
          wire' = Append(wire, [kind |-> "exit", clean |-> clean, timedOut |-> timedOut,
                                truncated |-> cut])
    BY <1>12, Zenon DEF ShimReport
  <2>2. cut \in BOOLEAN
    OBVIOUS
  <2> HIDE DEF cut
  <2> DEFINE m == [kind |-> "exit", clean |-> clean, timedOut |-> timedOut, truncated |-> cut]
  <2>3. m \in Message
    BY <2>2, MessageMade DEF TypeInv, ShimType
  <2>4. DataSize(m, c) = 0
    BY DEF DataSize
  <2>5. inbox' = inbox /\ avail' = avail /\ wire' = Append(wire, m)
    BY <1>12, <2>1 DEF ShimReport
  <2> HIDE DEF m
  <2> QED BY <1>0, <1>2, <1>4, <2>3, <2>4, <2>5
<1>13. ASSUME NEW d \in Channels, NEW k \in {1, 2}, PumpForward(d, k)
       PROVE  /\ avail'[c] + Granted(c)' + OnWire(c)' <= avail[c] + Granted(c) + OnWire(c)
              /\ avail'[c] \in Nat /\ Granted(c)' \in Nat /\ OnWire(c)' \in Nat
  <2> DEFINE m == [kind |-> "data", channel |-> d, bytes |-> [i \in 1..k |-> read[d] + i]]
  <2>1. wire' = Append(wire, m) /\ inbox' = inbox
    BY <1>13 DEF PumpForward
  <2>2. [i \in 1..k |-> read[d] + i] \in Seq(Nat) /\ Len([i \in 1..k |-> read[d] + i]) = k
    BY DEF TypeInv, ShimType
  <2>3. m \in Message /\ DataSize(m, c) = (IF c = d THEN k ELSE 0)
    BY <2>2, MessageMade DEF DataSize
  <2> HIDE DEF m
  <2>4. k <= avail[d]
        /\ \/ avail' = [avail EXCEPT ![d] = 0]
           \/ avail' = [avail EXCEPT ![d] = avail[d] - k]
    BY <1>13 DEF PumpForward
  <2>5. avail'[c] \in Nat /\ avail'[c] + DataSize(m, c) <= avail[c]
    <3>1. CASE c = d
      BY <1>0, <2>3, <2>4, <3>1
    <3>2. CASE c # d
      BY <1>0, <2>3, <2>4, <3>2
    <3> QED BY <3>1, <3>2
  <2>6. OnWire(c)' = OnWire(c) + DataSize(m, c) /\ DataSize(m, c) \in Nat
    BY <1>4, <2>1, <2>3
  <2>7. Granted(c)' = Granted(c)
    BY <1>2, <2>1
  <2> QED BY <1>0, <2>5, <2>6, <2>7
<1>14. SpawnChild \/ ChildExit \/ ShimTimeout \/ ShimLeft \/ ShimHearsClose \/ ShimCrash
         => UNCHANGED <<avail, inbox, wire>>
  BY Zenon DEF SpawnChild, ChildExit, ShimTimeout, ShimLeft, ShimHearsClose, ShimCrash
<1>15. \A d \in Channels : ChildWrite(d) \/ PumpEof(d) => UNCHANGED <<avail, inbox, wire>>
  BY Zenon DEF ChildWrite, PumpEof
<1> QED
  BY <1>6, <1>7, <1>8, <1>9, <1>10, <1>11, <1>12, <1>13, <1>14, <1>15 DEF ShimSteps

\* The guard passes bytes on and adds none.
LEMMA GuardSums ==
  ASSUME TypeInv, LinkInv, GuardSteps, NEW c \in Channels
  PROVE  /\ OnWire(c)' + InMail(c)' <= OnWire(c) + InMail(c)
         /\ OnWire(c)' \in Nat /\ InMail(c)' \in Nat
         /\ UNCHANGED <<req, avail, inbox, own>>
<1>0. PortType /\ wire \in Seq(Message) /\ mailbox \in Seq(Message)
      /\ OnWire(c) \in Nat /\ InMail(c) \in Nat
  BY SumsTyped DEF TypeInv, PortType
<1>1. UNCHANGED <<req, avail, inbox, own>>
  BY Zenon DEF GuardSteps, PortEnds, GuardEnds, GuardRelay, GuardDown, shimVars
<1>2. OnWire(c)' = Total(DataSizes(wire', c)) /\ InMail(c)' = Total(DataSizes(mailbox', c))
  BY DEF OnWire, InMail, DataSizes, Total
<1>3. ASSUME wire # <<>>, wire' = Tail(wire)
      PROVE  /\ OnWire(c) = DataSize(Head(wire), c) + OnWire(c)'
             /\ DataSize(Head(wire), c) \in Nat /\ OnWire(c)' \in Nat
  <2>1. Tail(wire) \in Seq(Message) /\ Head(wire) \in Message
    BY <1>0, <1>3, TailType
  <2>2. DataSize(Head(wire), c) \in Nat
    BY <2>1, MessageFacts DEF DataSize
  <2>3. Total(DataSizes(Tail(wire), c)) \in Nat
    BY <2>1, DataSizesFacts, UnitsFinite
  <2> QED BY <1>0, <1>2, <1>3, <2>2, <2>3, DataLeaves DEF OnWire
<1>4. ASSUME own = "dead", NEW message, Send(message) PROVE InMail(c)' = 0
  <2>1. mailbox' = <<>>
    BY <1>4 DEF Send
  <2> QED BY <1>2, <2>1, NothingIn
<1>5. \A k \in {"exit_status", "guard_closed"} :
        [kind |-> k] \in Message /\ DataSize([kind |-> k], c) = 0
  BY MessageMade DEF DataSize
<1>6. \A n \in 0..Len(wire) : SubSeq(wire, 1, n) \in Seq(Message)
                              /\ Total(DataSizes(SubSeq(wire, 1, n), c)) \in Nat
                              /\ Total(DataSizes(SubSeq(wire, 1, n), c)) <= OnWire(c)
  <2> TAKE n \in 0..Len(wire)
  <2>1. SubSeq(wire, 1, n) \in Seq(Message)
    BY <1>0, SubType
  <2>2. Total(DataSizes(SubSeq(wire, 1, n), c)) \in Nat
    BY <2>1, DataSizesFacts, UnitsFinite
  <2> QED BY <1>0, <2>1, <2>2, DataCut DEF OnWire
<1>7. CASE PortEnds
  <2>1. InMail(c)' = InMail(c)
    BY <1>7 DEF PortEnds, guardVars, InMail
  <2>2. OnWire(c)' \in Nat /\ OnWire(c)' <= OnWire(c)
    <3>1. CASE Closing(Append(wire, [kind |-> "exit_status"]), "normal")
      <4> DEFINE m == [kind |-> "exit_status"]
      <4>1. m \in Message /\ DataSize(m, c) = 0
        BY <1>5
      <4> HIDE DEF m
      <4>2. Append(wire, m) \in Seq(Message)
        BY <1>0, <4>1, AppendType
      <4>3. OnWire(c)' = Total(DataSizes(Append(wire, m), c))
        BY <3>1, <4>2, ClosingSum DEF m
      <4>4. Total(DataSizes(Append(wire, m), c)) = OnWire(c) + DataSize(m, c)
        BY <1>0, <4>1, DataGrows DEF OnWire
      <4> QED BY <1>0, <4>1, <4>3, <4>4
    <3>2. ASSUME NEW n \in 0..Len(wire), Closing(SubSeq(wire, 1, n), "epipe")
          PROVE  OnWire(c)' \in Nat /\ OnWire(c)' <= OnWire(c)
      BY <1>6, <3>2, ClosingSum
    <3> QED BY <1>7, <3>1, <3>2 DEF PortEnds
  <2> QED BY <1>0, <1>1, <2>1, <2>2
<1>8. CASE GuardRelay
  <2>1. wire # <<>> /\ wire' = Tail(wire) /\ Send(<<Head(wire)>>)
    BY <1>8 DEF GuardRelay
  <2>2. InMail(c)' \in Nat /\ InMail(c)' <= InMail(c) + DataSize(Head(wire), c)
    <3>1. CASE own = "dead"
      BY <1>0, <1>3, <1>4, <2>1, <3>1
    <3>2. CASE own # "dead"
      <4>1. Head(wire) \in Message
        BY <1>0, <2>1, TailType
      <4>2. mailbox' = Append(mailbox, Head(wire))
        BY <1>0, <2>1, <3>2 DEF Send
      <4> QED BY <1>0, <1>2, <1>3, <2>1, <4>1, <4>2, DataGrows DEF InMail
    <3> QED BY <3>1, <3>2
  <2> QED BY <1>0, <1>1, <1>3, <2>1, <2>2
<1>9. CASE GuardEnds
  <2> DEFINE status == [kind |-> "exit_status"]
             last == [kind |-> "guard_closed"]
             before == IF Head(wire).normal \/ reported THEN <<>> ELSE <<status>>
  <2>1. wire # <<>> /\ wire' = Tail(wire) /\ Send(before \o <<last>>)
    BY <1>9, Zenon DEF GuardEnds
  <2>2. status \in Message /\ DataSize(status, c) = 0 /\ last \in Message /\ DataSize(last, c) = 0
    BY <1>5
  <2>3. InMail(c)' \in Nat /\ InMail(c)' <= InMail(c)
    <3>1. CASE own = "dead"
      BY <1>0, <1>4, <2>1, <3>1
    <3>2. CASE own # "dead"
      <4>1. mailbox' = mailbox \o (before \o <<last>>)
        BY <2>1, <3>2 DEF Send
      <4>2. before = <<>> \/ before = <<status>>
        OBVIOUS
      <4> HIDE DEF status, last, before
      <4>3. mailbox' = Append(mailbox, last) \/ mailbox' = Append(Append(mailbox, status), last)
        BY <1>0, <2>2, <4>1, <4>2
      <4>4. Append(mailbox, status) \in Seq(Message)
        BY <1>0, <2>2, AppendType
      <4>5. \A q \in Seq(Message) :
              /\ Total(DataSizes(Append(q, last), c)) = Total(DataSizes(q, c)) + 0
              /\ Total(DataSizes(Append(q, status), c)) = Total(DataSizes(q, c)) + 0
        BY <2>2, DataGrows
      <4>6. InMail(c)' = InMail(c)
        <5>1. Total(DataSizes(mailbox, c)) = InMail(c)
          BY DEF InMail
        <5>2. Total(DataSizes(Append(mailbox, status), c)) = InMail(c)
          BY <1>0, <4>5, <5>1
        <5>3. CASE mailbox' = Append(mailbox, last)
          BY <1>0, <1>2, <4>5, <5>1, <5>3
        <5>4. CASE mailbox' = Append(Append(mailbox, status), last)
          <6>1. InMail(c)' = Total(DataSizes(Append(mailbox, status), c)) + 0
            BY <1>2, <4>4, <4>5, <5>4
          <6> QED BY <1>0, <5>2, <6>1
        <5> QED BY <4>3, <5>3, <5>4
      <4> QED BY <1>0, <4>6
    <3> QED BY <3>1, <3>2
  <2> QED BY <1>0, <1>1, <1>3, <2>1, <2>3
<1>10. CASE GuardDown
  <2>1. InMail(c)' = InMail(c) /\ CloseGuardedPort
    BY <1>10 DEF GuardDown, InMail
  <2>2. wire' \in Seq(Message)
    BY <1>0, <2>1, CloseType
  <2>3. OnWire(c)' \in Nat
    BY <1>2, <2>2, DataSizesFacts, UnitsFinite
  <2> QED BY <1>0, <1>1, <2>1, <2>3, CloseSum
<1> QED BY <1>7, <1>8, <1>9, <1>10 DEF GuardSteps

\* One channel's budget, whatever an owner does.
LEMMA OwnerBudget ==
  ASSUME CoreInv, Gated, OwnerSteps, NEW c \in Channels,
         avail[c] + Granted(c) + OnWire(c) + InMail(c) <= Allowance(c)
  PROVE  avail'[c] + Granted(c)' + OnWire(c)' + InMail(c)' <= Allowance(c)'
<1>0. PortType /\ mailbox \in Seq(Message) /\ avail[c] \in Nat
      /\ Granted(c) \in Nat /\ OnWire(c) \in Nat /\ InMail(c) \in Nat
      /\ outstanding \in Nat /\ outstanding <= req.window /\ req.window \in Nat
      /\ Window(c) \in Nat
  <2>1. TypeInv /\ PortType /\ outstanding \in 0..req.window /\ avail \in [Channels -> Nat]
    BY DEF CoreInv, TypeInv, ShimType, OwnerType
  <2>2. req.window \in Nat /\ Window(c) \in Nat
    BY <2>1, RequestFacts
  <2> QED BY <2>1, <2>2, SumsTyped DEF PortType
<1>1. /\ Granted(c)' \in Nat /\ OnWire(c)' \in Nat /\ InMail(c)' \in Nat
      /\ OnWire(c)' <= OnWire(c) /\ InMail(c)' <= InMail(c)
      /\ avail'[c] = avail[c]
  <2>1. PortType'
    BY CoreStep DEF Next, CoreInv, TypeInv
  <2>2. Granted(c)' \in Nat /\ OnWire(c)' \in Nat /\ InMail(c)' \in Nat
    <3>1. inbox' \in Seq(Command) /\ wire' \in Seq(Message) /\ mailbox' \in Seq(Message)
      BY <2>1 DEF PortType
    <3>2. /\ Granted(c)' = Total(CreditSizes(inbox', c)) /\ OnWire(c)' = Total(DataSizes(wire', c))
          /\ InMail(c)' = Total(DataSizes(mailbox', c))
      BY DEF Granted, OnWire, InMail, CreditSizes, DataSizes, Total
    <3> QED BY <3>1, <3>2, CreditSizesFacts, DataSizesFacts, UnitsFinite
  <2>3. avail'[c] = avail[c]
    BY OwnerFrame DEF shimVars
  <2>4. OnWire(c)' <= OnWire(c) /\ InMail(c)' <= InMail(c)
    BY <1>0, OwnerSums
  <2> QED BY <2>2, <2>3, <2>4
<1>6. req' = req /\ Window(c)' = Window(c)
  BY OwnerFrame DEF Window
<1>2. ASSUME outstanding' = outstanding, UNCHANGED inbox \/ SendFrames(<<Kill>>)
      PROVE  avail'[c] + Granted(c)' + OnWire(c)' + InMail(c)' <= Allowance(c)'
  <2>1. Granted(c)' <= Granted(c)
    BY <1>0, <1>2, KillSum
  <2>2. Allowance(c)' = Allowance(c) /\ Allowance(c) \in Nat
    BY <1>0, <1>2, <1>6 DEF Allowance
  <2> QED BY <1>0, <1>1, <2>1, <2>2, SMTT(30)
<1>3. ASSUME req.mode = "run", NEW overflow \in BOOLEAN, RunOutput(overflow)
      PROVE  avail'[c] + Granted(c)' + OnWire(c)' + InMail(c)' <= Allowance(c)'
  <2> DEFINE frame == Head(mailbox)
             size == DataSize(frame, c)
  <2>1. mailbox # <<>> /\ Consume /\ frame \in Message /\ frame.kind = "data"
    BY <1>0, <1>3, TailType DEF RunOutput, Arrived
  <2>2. frame.channel \in Channels /\ frame.bytes \in Seq(Nat) /\ Len(frame.bytes) \in Nat
    BY <2>1, MessageFacts
  <2>3. InMail(c) = size + InMail(c)' /\ size \in Nat
    BY <1>0, <2>1, ConsumeSum
  <2>4. Granted(c)' <= Granted(c) + size
    <3>1. \/ UNCHANGED inbox \/ SendFrames(<<Kill>>)
          \/ SendFrames(<<Credit(frame.channel, Len(frame.bytes))>>)
      BY <1>3, Zenon DEF RunOutput
    <3>2. CASE SendFrames(<<Credit(frame.channel, Len(frame.bytes))>>)
      <4>1. Credit(frame.channel, Len(frame.bytes)) \in Command
        BY <2>2, CommandFacts
      <4>2. CreditSize(Credit(frame.channel, Len(frame.bytes)), c) = size
        BY <2>1 DEF CreditSize, DataSize, Credit
      <4> QED BY <1>0, <3>2, <4>1, <4>2, SendSum
    <3>3. CASE UNCHANGED inbox \/ SendFrames(<<Kill>>)
      <4>1. Granted(c)' <= Granted(c)
        BY <1>0, <3>3, KillSum
      <4> HIDE DEF size
      <4> QED BY <1>0, <1>1, <2>3, <4>1
    <3> QED BY <3>1, <3>2, <3>3
  <2>5. Allowance(c) = Window(c) /\ Allowance(c)' = Window(c)
    BY <1>3, <1>6 DEF Allowance
  <2> HIDE DEF size
  <2> QED BY <1>0, <1>1, <2>3, <2>4, <2>5, SMTT(30)
<1>4. ASSUME req.mode = "stream", StreamNext
      PROVE  avail'[c] + Granted(c)' + OnWire(c)' + InMail(c)' <= Allowance(c)'
  <2>1. outstanding' = req.window
        /\ \/ outstanding < req.window /\ SendFrames(<<Credit("out", req.window - outstanding)>>)
           \/ outstanding = req.window /\ UNCHANGED inbox
    BY <1>0, <1>4 DEF StreamNext
  <2>2. CASE c = "out"
    <3>1. Allowance(c) = outstanding /\ Allowance(c)' = req.window
      BY <1>4, <1>6, <2>1, <2>2 DEF Allowance
    <3>2. Granted(c)' <= Granted(c) + (req.window - outstanding)
      <4>1. CASE outstanding < req.window /\ SendFrames(<<Credit("out", req.window - outstanding)>>)
        <5>1. req.window - outstanding \in Nat
          BY <1>0, <4>1
        <5>2. Credit("out", req.window - outstanding) \in Command
              /\ CreditSize(Credit("out", req.window - outstanding), c) = req.window - outstanding
          BY <2>2, <5>1, CommandFacts DEF Channels, CreditSize, Credit
        <5> QED BY <1>0, <4>1, <5>2, SendSum
      <4>2. CASE outstanding = req.window /\ UNCHANGED inbox
        BY <1>0, <4>2 DEF Granted
      <4> QED BY <2>1, <4>1, <4>2
    <3> QED BY <1>0, <1>1, <3>1, <3>2, SMTT(30)
  <2>3. CASE c # "out"
    <3>1. Allowance(c) = Window(c) /\ Allowance(c)' = Window(c)
      BY <1>6, <2>3 DEF Allowance
    <3>2. Granted(c)' <= Granted(c)
      <4>1. CASE outstanding < req.window /\ SendFrames(<<Credit("out", req.window - outstanding)>>)
        <5>1. req.window - outstanding \in Nat
          BY <1>0, <4>1
        <5>2. Credit("out", req.window - outstanding) \in Command
              /\ CreditSize(Credit("out", req.window - outstanding), c) = 0
          BY <2>3, <5>1, CommandFacts DEF Channels, CreditSize, Credit
        <5>3. Granted(c)' <= Granted(c) + 0
          BY <1>0, <4>1, <5>2, SendSum
        <5> QED BY <1>0, <5>3
      <4>2. CASE UNCHANGED inbox
        BY <1>0, <4>2 DEF Granted
      <4> QED BY <2>1, <4>1, <4>2
    <3> QED BY <1>0, <1>1, <3>1, <3>2, SMTT(30)
  <2> QED BY <2>2, <2>3
<1>5. ASSUME req.mode = "stream", StreamOutput
      PROVE  avail'[c] + Granted(c)' + OnWire(c)' + InMail(c)' <= Allowance(c)'
  <2> DEFINE frame == Head(mailbox)
             size == Len(frame.bytes)
  <2>1. mailbox # <<>> /\ Consume /\ frame \in Message /\ frame.kind = "data"
        /\ frame.channel = "out" /\ outstanding' = Charged(size)
    BY <1>0, <1>5, TailType DEF StreamOutput, StreamHas, Arrived
  <2>2. size \in Nat
    BY <2>1, MessageFacts
  <2>3. Granted(c)' <= Granted(c)
    <3>1. UNCHANGED inbox \/ SendFrames(<<Kill>>)
      BY <1>5, Zenon DEF StreamOutput, StartConfirming
    <3> QED BY <1>0, <3>1, KillSum
  <2>4. CASE c = "out"
    <3>1. InMail(c) = size + InMail(c)'
      <4>1. DataSize(frame, c) = size
        BY <2>1, <2>4 DEF DataSize
      <4> QED BY <1>0, <2>1, <4>1, ConsumeSum
    <3>2. Allowance(c) = outstanding /\ Allowance(c)' = Charged(size)
      BY <1>5, <1>6, <2>1, <2>4 DEF Allowance
    <3> HIDE DEF size
    <3>3. size <= outstanding
      BY <1>0, <1>1, <2>2, <3>1, <3>2
    <3>4. Charged(size) = outstanding - size
      BY <1>0, <2>2, <3>3 DEF Charged
    <3> QED BY <1>0, <1>1, <2>2, <2>3, <3>1, <3>2, <3>4, SMTT(30)
  <2>5. CASE c # "out"
    <3>1. Allowance(c) = Window(c) /\ Allowance(c)' = Window(c)
      BY <1>6, <2>5 DEF Allowance
    <3> QED BY <1>0, <1>1, <2>3, <3>1
  <2> QED BY <2>4, <2>5
<1> QED BY <1>2, <1>3, <1>4, <1>5, OwnerCredit

LEMMA BudgetStep ==
  ASSUME CoreInv, LinkInv, BudgetInv, [Next]_vars
  PROVE  BudgetInv'
<1>0. TypeInv /\ PortType
  BY DEF CoreInv, TypeInv
<1>1. CASE UNCHANGED vars
  BY <1>1 DEF vars, shimVars, portVars, guardVars, ownerVars, BudgetInv, Granted, OnWire, InMail,
              Allowance, Window, Gated
<1>2. CASE ShimSteps /\ UNCHANGED ownerVars
  <2>1. req' = req /\ UNCHANGED <<mailbox, outstanding>>
    <3>1. ShimSteps => UNCHANGED req
      BY Zenon DEF ShimSteps, SpawnChild, SpawnFails, ChildExit, ShimEof, ShimCredit, ShimKill,
                   ShimTimeout, ShimReap, ShimReport, ShimLeft, ShimHearsClose, ShimCrash,
                   ChildWrite, PumpEof, PumpForward
    <3> QED BY <1>0, <1>2, <3>1, ShimWrites DEF ownerVars
  <2> SUFFICES ASSUME Gated, NEW c \in Channels
               PROVE  avail'[c] + Granted(c)' + OnWire(c)' + InMail(c)' <= Allowance(c)'
    BY <2>1 DEF BudgetInv, Gated
  <2>2. InMail(c)' = InMail(c) /\ Allowance(c)' = Allowance(c)
    BY <2>1 DEF InMail, Allowance, Window
  <2>3. /\ avail[c] \in Nat /\ Granted(c) \in Nat /\ OnWire(c) \in Nat /\ InMail(c) \in Nat
        /\ Allowance(c) \in Nat
    BY <1>0, SumsTyped, RequestFacts DEF TypeInv, ShimType, OwnerType, Allowance
  <2>4. avail[c] + Granted(c) + OnWire(c) + InMail(c) <= Allowance(c)
    BY DEF BudgetInv
  <2>5. /\ avail'[c] + Granted(c)' + OnWire(c)' <= avail[c] + Granted(c) + OnWire(c)
        /\ avail'[c] \in Nat /\ Granted(c)' \in Nat /\ OnWire(c)' \in Nat
    BY <1>0, <1>2, ShimSums
  <2> QED BY <2>2, <2>3, <2>4, <2>5
<1>3. CASE GuardSteps /\ UNCHANGED ownerVars
  <2>1. UNCHANGED <<req, avail, inbox>>
    BY <1>3, Zenon DEF GuardSteps, PortEnds, GuardEnds, GuardRelay, GuardDown, shimVars
  <2> SUFFICES ASSUME Gated, NEW c \in Channels
               PROVE  avail'[c] + Granted(c)' + OnWire(c)' + InMail(c)' <= Allowance(c)'
    BY <2>1 DEF BudgetInv, Gated
  <2>2. Granted(c)' = Granted(c) /\ Allowance(c)' = Allowance(c)
    BY <1>3, <2>1 DEF Granted, Allowance, Window, ownerVars
  <2>3. /\ avail[c] \in Nat /\ Granted(c) \in Nat /\ OnWire(c) \in Nat /\ InMail(c) \in Nat
        /\ Allowance(c) \in Nat
    BY <1>0, SumsTyped, RequestFacts DEF TypeInv, ShimType, OwnerType, Allowance
  <2>4. avail[c] + Granted(c) + OnWire(c) + InMail(c) <= Allowance(c)
    BY DEF BudgetInv
  <2>5. /\ OnWire(c)' + InMail(c)' <= OnWire(c) + InMail(c)
        /\ OnWire(c)' \in Nat /\ InMail(c)' \in Nat
    BY <1>0, <1>3, GuardSums
  <2> QED BY <2>1, <2>2, <2>3, <2>4, <2>5
<1>4. CASE OwnerSteps
  <2>1. req' = req
    BY <1>4, OwnerFrame
  <2> QED BY <1>4, <2>1, OwnerBudget DEF BudgetInv, Gated
<1> QED BY <1>1, <1>2, <1>3, <1>4 DEF Next, Finished

LEMMA BudgetInit == Init => BudgetInv
<1> SUFFICES ASSUME Init, Gated, NEW c \in Channels
             PROVE  avail[c] + Granted(c) + OnWire(c) + InMail(c) <= Allowance(c)
  BY DEF BudgetInv
<1>1. avail[c] = 0 /\ OnWire(c) = 0 /\ InMail(c) = 0
  BY NothingIn DEF Init, Zero, OnWire, InMail
<1>2. TypeInv /\ req.window \in Nat /\ req.maxErr \in Nat /\ Window(c) \in Nat
  BY CoreInit, RequestFacts DEF CoreInv
<1>3. Granted(c) <= Allowance(c) /\ Granted(c) \in Nat /\ Allowance(c) \in Nat
  <2>1. Granted(c) \in Nat /\ Allowance(c) \in Nat
    BY <1>2, SumsTyped DEF TypeInv, OwnerType, Allowance
  <2>2. \A q \in Seq(Command), f \in Command :
          Total(CreditSizes(Append(q, f), c)) = Total(CreditSizes(q, c)) + CreditSize(f, c)
    BY CreditGrows
  <2>3. Total(CreditSizes(<<>>, c)) = 0
    BY NothingIn
  <2>4. Eof \in Command /\ CreditSize(Eof, c) = 0
    BY CommandFacts DEF CreditSize, Eof
  <2>5. \A d \in Channels, n \in Nat :
          Credit(d, n) \in Command /\ CreditSize(Credit(d, n), c) = (IF c = d THEN n ELSE 0)
    BY CommandFacts DEF CreditSize, Credit
  <2>6. Append(<<>>, Eof) \in Seq(Command) /\ Total(CreditSizes(Append(<<>>, Eof), c)) = 0
    <3>1. <<>> \in Seq(Command)
      OBVIOUS
    <3>2. Append(<<>>, Eof) \in Seq(Command)
      BY <2>4, <3>1, AppendType
    <3>3. Total(CreditSizes(Append(<<>>, Eof), c)) = Total(CreditSizes(<<>>, c)) + CreditSize(Eof, c)
      BY <2>2, <2>4, <3>1
    <3> QED BY <2>3, <2>4, <3>2, <3>3
  <2>7. "out" \in Channels /\ "err" \in Channels
    BY DEF Channels
  <2>8. CASE req.mode = "run"
    <3> DEFINE a == Credit("out", req.window)
               b == Credit("err", req.window)
    <3>1. inbox = Append(Append(Append(<<>>, Eof), a), b)
      <4>1. inbox = <<Eof>> \o <<a, b>>
        BY <2>8 DEF Init, FirstCredit
      <4> HIDE DEF a, b
      <4> QED BY <4>1
    <3>2. a \in Command /\ CreditSize(a, c) = (IF c = "out" THEN req.window ELSE 0)
          /\ b \in Command /\ CreditSize(b, c) = (IF c = "err" THEN req.window ELSE 0)
      BY <1>2, <2>5, <2>7
    <3> HIDE DEF a, b
    <3>3. Append(Append(<<>>, Eof), a) \in Seq(Command)
          /\ Total(CreditSizes(Append(Append(<<>>, Eof), a), c)) = 0 + CreditSize(a, c)
      <4>1. Append(Append(<<>>, Eof), a) \in Seq(Command)
        BY <2>6, <3>2, AppendType
      <4>2. Total(CreditSizes(Append(Append(<<>>, Eof), a), c))
              = Total(CreditSizes(Append(<<>>, Eof), c)) + CreditSize(a, c)
        BY <2>2, <2>6, <3>2
      <4> QED BY <2>6, <4>1, <4>2
    <3>4. Granted(c) = (0 + CreditSize(a, c)) + CreditSize(b, c)
      <4>1. Granted(c) = Total(CreditSizes(Append(Append(Append(<<>>, Eof), a), b), c))
        BY <3>1 DEF Granted
      <4>2. Total(CreditSizes(Append(Append(Append(<<>>, Eof), a), b), c))
              = Total(CreditSizes(Append(Append(<<>>, Eof), a), c)) + CreditSize(b, c)
        BY <2>2, <3>2, <3>3
      <4> QED BY <3>3, <4>1, <4>2
    <3>5. Granted(c) = req.window
      BY <1>2, <3>2, <3>4 DEF Channels
    <3>6. Allowance(c) = req.window
      BY <2>8 DEF Allowance, Window
    <3> QED BY <1>2, <2>1, <3>5, <3>6
  <2>9. CASE req.mode = "stream"
    <3> DEFINE b == Credit("err", req.maxErr + 1)
    <3>1. inbox = Append(Append(<<>>, Eof), b)
      <4>1. inbox = <<Eof>> \o <<b>>
        BY <2>9 DEF Init, FirstCredit
      <4> HIDE DEF b
      <4> QED BY <4>1
    <3>2. b \in Command /\ CreditSize(b, c) = (IF c = "err" THEN req.maxErr + 1 ELSE 0)
      BY <1>2, <2>5, <2>7
    <3> HIDE DEF b
    <3>3. Granted(c) = 0 + CreditSize(b, c)
      <4>1. Granted(c) = Total(CreditSizes(Append(Append(<<>>, Eof), b), c))
        BY <3>1 DEF Granted
      <4>2. Total(CreditSizes(Append(Append(<<>>, Eof), b), c))
              = Total(CreditSizes(Append(<<>>, Eof), c)) + CreditSize(b, c)
        BY <2>2, <2>6, <3>2
      <4> QED BY <2>6, <4>1, <4>2
    <3>4. CASE c = "err"
      BY <1>2, <2>1, <2>9, <3>2, <3>3, <3>4 DEF Allowance, Window
    <3>5. CASE c # "err"
      BY <1>2, <2>1, <3>2, <3>3, <3>5
    <3> QED BY <3>4, <3>5
  <2>10. CASE req.mode = "daemon"
    <3>1. inbox = <<>>
      BY <2>10 DEF Init
    <3> QED BY <2>1, <2>3, <3>1 DEF Granted
  <2> QED BY <1>2, <2>8, <2>9, <2>10, RequestFacts
<1> QED BY <1>1, <1>3

\* Whatever is in flight, and whoever stops reading or granting, a bounded run
\* or stream keeps no more than its limits, and between the pipe and the owner
\* there is never more than one window per channel (run.ex grant,
\* stream.ex grant_credit, account_stdout).
THEOREM BoundsAreKept == Spec => []BoundsKept
<1>1. Init => CoreInv /\ LinkInv /\ BudgetInv
  BY CoreInit, BudgetInit DEF Init, LinkInv, WireEnds, MailEnds
<1>2. CoreInv /\ LinkInv /\ BudgetInv /\ [Next]_vars => CoreInv' /\ LinkInv' /\ BudgetInv'
  BY CoreStep, LinkStep, BudgetStep DEF CoreInv
<1>3. CoreInv /\ BudgetInv => WindowKept
  <2> SUFFICES ASSUME CoreInv, BudgetInv, Gated, NEW c \in Channels
               PROVE  avail[c] + Granted(c) + OnWire(c) + InMail(c) <= Window(c)
    BY DEF WindowKept, Granted, OnWire, InMail
  <2>1. /\ avail[c] \in Nat /\ Granted(c) \in Nat /\ OnWire(c) \in Nat /\ InMail(c) \in Nat
        /\ Allowance(c) \in Nat /\ Window(c) \in Nat
    BY SumsTyped, RequestFacts DEF CoreInv, TypeInv, ShimType, OwnerType, Allowance
  <2>2. Allowance(c) <= Window(c)
    BY <2>1, RequestFacts DEF CoreInv, TypeInv, OwnerType, Allowance, Window
  <2>3. avail[c] + Granted(c) + OnWire(c) + InMail(c) <= Allowance(c)
    BY DEF BudgetInv
  <2> QED BY <2>1, <2>2, <2>3
<1> QED BY <1>1, <1>2, <1>3, CoreTyped, PTL DEF Spec, BoundsKept

-----------------------------------------------------------------------------
(* The route of a byte, from its pipe to its owner.                        *)

\* mark[i] counts the bytes of c before message i of q: they continue each
\* other, and a final report comes after all of them.
Marked(q, c, mark, all) ==
  \A i \in 1..Len(q) :
    /\ mark[i + 1] = mark[i] + Len(Bytes(q[i], c))
    /\ \A b \in 1..Len(Bytes(q[i], c)) : Bytes(q[i], c)[b] = mark[i] + b
    /\ Final(q[i]) => mark[i] = all

Chain(q, c, from, to, all) ==
  \E mark \in [1..(Len(q) + 1) -> Nat] :
    Marked(q, c, mark, all) /\ mark[1] = from /\ mark[Len(q) + 1] = to

LEMMA BytesType ==
  ASSUME NEW m \in Message, NEW c \in Channels
  PROVE  Bytes(m, c) \in Seq(Nat) /\ Len(Bytes(m, c)) \in Nat
<1>1. Bytes(m, c) \in Seq(Nat)
  BY MessageFacts DEF Bytes
<1> QED BY <1>1

LEMMA ChainEmpty ==
  ASSUME NEW c \in Channels, NEW from \in Nat, NEW all
  PROVE  Chain(<<>>, c, from, from, all)
<1> DEFINE mark == [i \in 1..1 |-> from]
<1>1. mark \in [1..(Len(<<>>) + 1) -> Nat] /\ mark[1] = from /\ mark[Len(<<>>) + 1] = from
  OBVIOUS
<1>2. Marked(<<>>, c, mark, all)
  BY DEF Marked
<1> HIDE DEF mark
<1> QED BY <1>1, <1>2 DEF Chain

LEMMA ChainEnds ==
  ASSUME NEW q \in Seq(Message), NEW c, NEW from, NEW to, NEW all, Chain(q, c, from, to, all)
  PROVE  from \in Nat /\ to \in Nat
BY DEF Chain

LEMMA ChainAppend ==
  ASSUME NEW q \in Seq(Message), NEW m \in Message, NEW c \in Channels,
         NEW from, NEW to, NEW all, Chain(q, c, from, to, all),
         \A b \in 1..Len(Bytes(m, c)) : Bytes(m, c)[b] = to + b,
         Final(m) => to = all
  PROVE  Chain(Append(q, m), c, from, to + Len(Bytes(m, c)), all)
<1> DEFINE longer == Append(q, m)
           size == Len(Bytes(m, c))
<1>1. longer \in Seq(Message) /\ Len(longer) = Len(q) + 1 /\ longer[Len(q) + 1] = m
      /\ (\A i \in 1..Len(q) : longer[i] = q[i]) /\ Len(q) \in Nat
  BY AppendProperties
<1>2. PICK mark \in [1..(Len(q) + 1) -> Nat] :
        Marked(q, c, mark, all) /\ mark[1] = from /\ mark[Len(q) + 1] = to
  BY DEF Chain
<1>3. size \in Nat /\ to \in Nat
  BY <1>2, BytesType, SMTT(30)
<1> HIDE DEF longer, size
<1> DEFINE more == [i \in 1..(Len(q) + 2) |-> IF i <= Len(q) + 1 THEN mark[i] ELSE to + size]
<1>4. more \in [1..(Len(longer) + 1) -> Nat]
  BY <1>1, <1>2, <1>3
<1>5. more[1] = from /\ more[Len(longer) + 1] = to + size
      /\ \A i \in 1..(Len(q) + 1) : more[i] = mark[i]
  BY <1>1, <1>2
<1> HIDE DEF more
<1>6. Marked(longer, c, more, all)
  <2> SUFFICES ASSUME NEW i \in 1..Len(longer)
               PROVE  /\ more[i + 1] = more[i] + Len(Bytes(longer[i], c))
                      /\ \A b \in 1..Len(Bytes(longer[i], c)) :
                           Bytes(longer[i], c)[b] = more[i] + b
                      /\ Final(longer[i]) => more[i] = all
    BY DEF Marked
  <2>1. CASE i \in 1..Len(q)
    <3>1. longer[i] = q[i] /\ more[i] = mark[i] /\ more[i + 1] = mark[i + 1]
      BY <1>1, <1>5, <2>1
    <3>2. /\ mark[i + 1] = mark[i] + Len(Bytes(q[i], c))
          /\ \A b \in 1..Len(Bytes(q[i], c)) : Bytes(q[i], c)[b] = mark[i] + b
          /\ Final(q[i]) => mark[i] = all
      BY <1>2, <2>1 DEF Marked
    <3> QED BY <3>1, <3>2
  <2>2. CASE i = Len(q) + 1
    <3>1. longer[i] = m /\ more[i] = to /\ more[i + 1] = to + size
      BY <1>1, <1>2, <1>5, <2>2
    <3> QED BY <3>1 DEF size
  <2> QED BY <1>1, <2>1, <2>2
<1> QED BY <1>4, <1>5, <1>6 DEF Chain, longer, size

LEMMA ChainTail ==
  ASSUME NEW q \in Seq(Message), q # <<>>, NEW c \in Channels,
         NEW from, NEW to, NEW all, Chain(q, c, from, to, all)
  PROVE  /\ Chain(Tail(q), c, from + Len(Bytes(Head(q), c)), to, all)
         /\ \A b \in 1..Len(Bytes(Head(q), c)) : Bytes(Head(q), c)[b] = from + b
         /\ Final(Head(q)) => from = all
<1> DEFINE less == Tail(q)
           size == Len(Bytes(Head(q), c))
<1>1. less \in Seq(Message) /\ Len(less) = Len(q) - 1 /\ Head(q) = q[1]
      /\ Len(q) \in Nat \ {0} /\ \A i \in 1..Len(less) : less[i] = q[i + 1]
  BY HeadTailProperties, EmptySeq
<1>2. PICK mark \in [1..(Len(q) + 1) -> Nat] :
        Marked(q, c, mark, all) /\ mark[1] = from /\ mark[Len(q) + 1] = to
  BY DEF Chain
<1>3. /\ mark[2] = from + size
      /\ \A b \in 1..size : Bytes(Head(q), c)[b] = from + b
      /\ Final(Head(q)) => from = all
  <2>1. 1 \in 1..Len(q) /\ 1 + 1 = 2
    BY <1>1
  <2> QED BY <1>1, <1>2, <2>1 DEF Marked
<1> HIDE DEF less, size
<1> DEFINE fewer == [i \in 1..Len(q) |-> mark[i + 1]]
<1>4. fewer \in [1..(Len(less) + 1) -> Nat] /\ fewer[1] = from + size
      /\ fewer[Len(less) + 1] = to
  BY <1>1, <1>2, <1>3
<1>5. \A i \in 1..Len(q) : fewer[i] = mark[i + 1]
  OBVIOUS
<1> HIDE DEF fewer
<1>6. Marked(less, c, fewer, all)
  <2> SUFFICES ASSUME NEW i \in 1..Len(less)
               PROVE  /\ fewer[i + 1] = fewer[i] + Len(Bytes(less[i], c))
                      /\ \A b \in 1..Len(Bytes(less[i], c)) :
                           Bytes(less[i], c)[b] = fewer[i] + b
                      /\ Final(less[i]) => fewer[i] = all
    BY DEF Marked
  <2> DEFINE j == i + 1
  <2>1. j \in 1..Len(q) /\ i \in 1..Len(q) /\ less[i] = q[j]
    BY <1>1
  <2>2. fewer[i] = mark[j] /\ fewer[i + 1] = mark[j + 1]
    BY <1>5, <2>1
  <2> HIDE DEF j
  <2>3. /\ mark[j + 1] = mark[j] + Len(Bytes(q[j], c))
        /\ \A b \in 1..Len(Bytes(q[j], c)) : Bytes(q[j], c)[b] = mark[j] + b
        /\ Final(q[j]) => mark[j] = all
    BY <1>2, <2>1 DEF Marked
  <2> QED BY <2>1, <2>2, <2>3
<1> QED BY <1>3, <1>4, <1>6 DEF Chain, less, size

LEMMA ChainCut ==
  ASSUME NEW q \in Seq(Message), NEW n \in 0..Len(q), NEW c \in Channels,
         NEW from, NEW to, NEW all, Chain(q, c, from, to, all)
  PROVE  \E end \in Nat : Chain(SubSeq(q, 1, n), c, from, end, all)
<1> DEFINE cut == SubSeq(q, 1, n)
<1>1. cut \in Seq(Message) /\ Len(cut) = n /\ (\A i \in 1..n : cut[i] = q[i])
      /\ n \in Nat /\ n <= Len(q) /\ Len(q) \in Nat
  BY SubType
<1>2. PICK mark \in [1..(Len(q) + 1) -> Nat] :
        Marked(q, c, mark, all) /\ mark[1] = from /\ mark[Len(q) + 1] = to
  BY DEF Chain
<1> HIDE DEF cut
<1> DEFINE fewer == [i \in 1..(n + 1) |-> mark[i]]
<1>3. fewer \in [1..(Len(cut) + 1) -> Nat] /\ fewer[1] = from
      /\ fewer[Len(cut) + 1] \in Nat
  BY <1>1, <1>2
<1>4. \A i \in 1..(n + 1) : fewer[i] = mark[i]
  OBVIOUS
<1> HIDE DEF fewer
<1>5. Marked(cut, c, fewer, all)
  <2> SUFFICES ASSUME NEW i \in 1..n
               PROVE  /\ fewer[i + 1] = fewer[i] + Len(Bytes(cut[i], c))
                      /\ \A b \in 1..Len(Bytes(cut[i], c)) :
                           Bytes(cut[i], c)[b] = fewer[i] + b
                      /\ Final(cut[i]) => fewer[i] = all
    BY <1>1 DEF Marked
  <2>1. i \in 1..Len(q) /\ cut[i] = q[i] /\ fewer[i] = mark[i] /\ fewer[i + 1] = mark[i + 1]
    BY <1>1, <1>4
  <2>2. /\ mark[i + 1] = mark[i] + Len(Bytes(q[i], c))
        /\ \A b \in 1..Len(Bytes(q[i], c)) : Bytes(q[i], c)[b] = mark[i] + b
        /\ Final(q[i]) => mark[i] = all
    BY <1>2, <2>1 DEF Marked
  <2> QED BY <2>1, <2>2
<1>6. Chain(cut, c, from, fewer[Len(cut) + 1], all)
  BY <1>3, <1>5 DEF Chain
<1> QED BY <1>3, <1>6 DEF cut

\* Without a final report it does not matter how much there is.
LEMMA ChainGrows ==
  ASSUME NEW q \in Seq(Message), NEW c \in Channels,
         NEW from, NEW to, NEW all, Chain(q, c, from, to, all),
         \A i \in 1..Len(q) : ~Final(q[i]),
         NEW more
  PROVE  Chain(q, c, from, to, more)
BY DEF Chain, Marked

-----------------------------------------------------------------------------
(* The whole route: what an owner holds, what its mailbox holds and what   *)
(* the wire holds continue each other up to what was read from the pipe.   *)

FinalIn(q) == \E i \in 1..Len(q) : Final(q[i])

InOrder(s) == \A i \in 1..Len(s) : s[i] = i

\* An owner that receives and has thrown nothing away.
Faithful ==
  /\ own \in {"collecting", "idle", "next", "pulling", "polling", "serving"}
  /\ ~lossy /\ exit # "error"

Held(c) == IF c = "out" THEN got["out"] \o rest ELSE got["err"]

Route(c, from) ==
  \E mid \in Nat, to \in Nat :
    /\ Chain(mailbox, c, from, mid, read[c]) /\ Chain(wire, c, mid, to, read[c])
    /\ port = "open" => to = read[c]

RouteInv ==
  /\ FinalIn(mailbox) \/ FinalIn(wire) => eof = Channels
  /\ \A c \in Channels : \E from \in Nat :
       Route(c, from) /\ (Faithful => from = Len(Held(c)) /\ InOrder(Held(c)))

LEMMA ClosingChain ==
  ASSUME NEW prefix \in Seq(Message), NEW why, Closing(prefix, why)
  PROVE  /\ port' = "closed" /\ (FinalIn(wire') => FinalIn(prefix))
         /\ \A c \in Channels : \A from, to, all :
              Chain(prefix, c, from, to, all) => Chain(wire', c, from, to, all)
<1> DEFINE normal == why = "normal"
           last == [kind |-> "EXIT", normal |-> normal]
<1>1. wire' = Append(prefix, last) /\ port' = "closed"
  BY Zenon DEF Closing
<1>2. normal \in BOOLEAN
  OBVIOUS
<1> HIDE DEF normal
<1>3. last \in Message /\ last.kind = "EXIT"
  BY <1>2, MessageMade
<1> HIDE DEF last
<1>4. ~Final(last) /\ \A c : Bytes(last, c) = <<>>
  BY <1>3 DEF Final, Bytes
<1>5. FinalIn(wire') => FinalIn(prefix)
  BY <1>1, <1>3, <1>4, AppendProperties DEF FinalIn
<1>6. ASSUME NEW c \in Channels, NEW from, NEW to, NEW all, Chain(prefix, c, from, to, all)
      PROVE  Chain(wire', c, from, to, all)
  <2>1. to \in Nat
    BY <1>6, ChainEnds
  <2>2. Len(Bytes(last, c)) = 0
    BY <1>4
  <2>3. Chain(Append(prefix, last), c, from, to + Len(Bytes(last, c)), all)
    BY <1>3, <1>4, <1>6, <2>2, ChainAppend
  <2> QED BY <1>1, <2>1, <2>2, <2>3
<1> QED BY <1>1, <1>5, <1>6

LEMMA CloseChain ==
  ASSUME PortType, CloseGuardedPort
  PROVE  /\ FinalIn(wire') => FinalIn(wire)
         /\ \A c \in Channels : \A from, to, all :
              Chain(wire, c, from, to, all) /\ (port = "open" => to = all) =>
                \E end \in Nat : Chain(wire', c, from, end, all) /\ (port' = "open" => end = all)
<1>0. wire \in Seq(Message)
  BY DEF PortType
<1>1. CASE port = "closed"
  <2>1. UNCHANGED <<port, wire>>
    BY <1>1 DEF CloseGuardedPort, portVars
  <2> QED BY <1>0, <2>1, ChainEnds
<1>2. CASE port # "closed"
  <2>1. PICK n \in 0..Len(wire) : Closing(SubSeq(wire, 1, n), "killed")
    BY <1>2, Zenon DEF CloseGuardedPort
  <2> DEFINE cut == SubSeq(wire, 1, n)
  <2>2. cut \in Seq(Message) /\ Len(cut) = n /\ \A i \in 1..n : cut[i] = wire[i]
    BY <1>0, SubType
  <2>3. FinalIn(cut) => FinalIn(wire)
    BY <1>0, <2>2 DEF FinalIn
  <2>4. \A c \in Channels : \A from, to, all :
          Chain(wire, c, from, to, all) => \E end \in Nat : Chain(cut, c, from, end, all)
    BY <1>0, ChainCut
  <2> HIDE DEF cut
  <2>5. /\ port' = "closed" /\ (FinalIn(wire') => FinalIn(cut))
        /\ \A c \in Channels : \A from, to, all :
             Chain(cut, c, from, to, all) => Chain(wire', c, from, to, all)
    BY <2>1, <2>2, ClosingChain DEF cut
  <2> QED BY <2>3, <2>4, <2>5
<1> QED BY <1>1, <1>2

\* What an owner holds depends on nobody else.
LEMMA HeldAlone ==
  ASSUME UNCHANGED <<own, ownerVars>>
  PROVE  Faithful' = Faithful /\ \A c : Held(c)' = Held(c)
BY DEF ownerVars, Faithful, Held

LEMMA RouteShim ==
  ASSUME TypeInv, RouteInv, ShimSteps, UNCHANGED ownerVars, eof' \subseteq Channels
  PROVE  RouteInv'
<1>0. wire \in Seq(Message) /\ mailbox \in Seq(Message) /\ eof \subseteq Channels
  BY DEF TypeInv, ShimType, PortType
<1>1. UNCHANGED <<port, guard, mailbox, own>> /\ eof \subseteq eof'
  BY ShimWrites
<1>2. Faithful' = Faithful /\ \A c : Held(c)' = Held(c)
  BY <1>1, HeldAlone
<1>3. CASE UNCHANGED <<wire, read>>
  <2>1. FinalIn(mailbox') \/ FinalIn(wire') => eof' = Channels
    BY <1>0, <1>1, <1>3 DEF RouteInv
  <2>2. \A c, from : Route(c, from)' = Route(c, from)
    BY <1>1, <1>3 DEF Route
  <2> QED BY <1>2, <2>1, <2>2 DEF RouteInv
<1>4. ASSUME NEW m \in Message, port = "open", wire' = Append(wire, m), Written(m)
      PROVE  RouteInv'
  <2>1. FinalIn(wire') => FinalIn(wire) \/ Final(m)
    BY <1>0, <1>4, AppendProperties DEF FinalIn
  <2>2. FinalIn(mailbox') \/ FinalIn(wire') => eof' = Channels
    BY <1>0, <1>1, <1>4, <2>1 DEF RouteInv, Written
  <2>3. ASSUME NEW c \in Channels, NEW from \in Nat, Route(c, from) PROVE Route(c, from)'
    <3>1. PICK mid \in Nat, to \in Nat :
            Chain(mailbox, c, from, mid, read[c]) /\ Chain(wire, c, mid, to, read[c])
            /\ (port = "open" => to = read[c])
      BY <2>3 DEF Route
    <3>2. to = read[c]
      BY <1>4, <3>1
    <3>3. /\ read'[c] = read[c] + Len(Bytes(m, c))
          /\ \A b \in 1..Len(Bytes(m, c)) : Bytes(m, c)[b] = read[c] + b
          /\ Len(Bytes(m, c)) = 0 \/ c \notin eof
      BY <1>4 DEF Written
    <3>4. read[c] \in Nat /\ Len(Bytes(m, c)) \in Nat
      BY BytesType DEF TypeInv, ShimType
    <3>5. /\ Chain(mailbox, c, from, mid, read'[c]) /\ Chain(wire, c, mid, to, read'[c])
          /\ Final(m) => to = read'[c]
      <4>1. CASE Len(Bytes(m, c)) = 0
        <5>1. read'[c] = read[c]
          BY <3>3, <3>4, <4>1
        <5> QED BY <3>1, <3>2, <5>1
      <4>2. CASE c \notin eof
        <5>1. ~FinalIn(mailbox) /\ ~FinalIn(wire) /\ ~Final(m)
          BY <1>4, <4>2 DEF RouteInv, Written
        <5>2. (\A i \in 1..Len(mailbox) : ~Final(mailbox[i]))
              /\ \A i \in 1..Len(wire) : ~Final(wire[i])
          BY <5>1 DEF FinalIn
        <5> QED BY <1>0, <3>1, <5>1, <5>2, ChainGrows
      <4> QED BY <3>3, <4>1, <4>2
    <3>6. Chain(Append(wire, m), c, mid, to + Len(Bytes(m, c)), read'[c])
      BY <1>0, <3>2, <3>3, <3>5, ChainAppend
    <3>7. Chain(wire', c, mid, read'[c], read'[c]) /\ Chain(mailbox', c, from, mid, read'[c])
          /\ read'[c] \in Nat
      BY <1>1, <1>4, <3>2, <3>3, <3>4, <3>5, <3>6
    <3> QED BY <3>7 DEF Route
  <2> QED BY <1>2, <2>2, <2>3 DEF RouteInv
<1> QED BY <1>3, <1>4, ShimWrites

LEMMA RouteGuard ==
  ASSUME TypeInv, LinkInv, RouteInv, GuardSteps, UNCHANGED ownerVars
  PROVE  RouteInv'
<1>0. /\ PortType /\ wire \in Seq(Message) /\ mailbox \in Seq(Message)
  BY DEF TypeInv, PortType
<1>1. UNCHANGED <<own, read, eof>>
  BY Zenon DEF GuardSteps, PortEnds, GuardEnds, GuardRelay, GuardDown, shimVars
<1>2. Faithful' = Faithful /\ \A c : Held(c)' = Held(c)
  BY <1>1, HeldAlone
<1>3. \A k \in {"exit_status", "guard_closed"} :
        [kind |-> k] \in Message /\ ~Final([kind |-> k])
        /\ \A c : Bytes([kind |-> k], c) = <<>>
  BY MessageMade DEF Final, Bytes
<1>4. CASE PortEnds
  <2>1. mailbox' = mailbox
    BY <1>4 DEF PortEnds, guardVars
  <2>2. /\ port' = "closed" /\ (FinalIn(wire') => FinalIn(wire))
        /\ \A c \in Channels : \A from, to, all :
             Chain(wire, c, from, to, all) => \E end \in Nat : Chain(wire', c, from, end, all)
    <3>1. CASE Closing(Append(wire, [kind |-> "exit_status"]), "normal")
      <4> DEFINE m == [kind |-> "exit_status"]
      <4>1. m \in Message /\ ~Final(m) /\ \A c : Bytes(m, c) = <<>>
        BY <1>3
      <4>2. Closing(Append(wire, m), "normal")
        BY <3>1
      <4> HIDE DEF m
      <4>3. Append(wire, m) \in Seq(Message)
        BY <1>0, <4>1, AppendType
      <4>4. FinalIn(Append(wire, m)) => FinalIn(wire)
        BY <1>0, <4>1, AppendProperties DEF FinalIn
      <4>5. /\ port' = "closed" /\ (FinalIn(wire') => FinalIn(Append(wire, m)))
            /\ \A c \in Channels : \A from, to, all :
                 Chain(Append(wire, m), c, from, to, all) => Chain(wire', c, from, to, all)
        BY <4>2, <4>3, ClosingChain
      <4>6. ASSUME NEW c \in Channels, NEW from, NEW to, NEW all, Chain(wire, c, from, to, all)
            PROVE  \E end \in Nat : Chain(wire', c, from, end, all)
        <5>1. Chain(Append(wire, m), c, from, to + Len(Bytes(m, c)), all)
          BY <1>0, <4>1, <4>6, ChainAppend
        <5>2. to + Len(Bytes(m, c)) \in Nat
          BY <1>0, <4>1, <4>6, ChainEnds
        <5> QED BY <4>5, <5>1, <5>2
      <4> QED BY <4>4, <4>5, <4>6
    <3>2. ASSUME NEW n \in 0..Len(wire), Closing(SubSeq(wire, 1, n), "epipe")
          PROVE  /\ port' = "closed" /\ (FinalIn(wire') => FinalIn(wire))
                 /\ \A c \in Channels : \A from, to, all :
                      Chain(wire, c, from, to, all) =>
                        \E end \in Nat : Chain(wire', c, from, end, all)
      <4> DEFINE cut == SubSeq(wire, 1, n)
      <4>1. cut \in Seq(Message) /\ Len(cut) = n /\ \A i \in 1..n : cut[i] = wire[i]
        BY <1>0, SubType
      <4>2. FinalIn(cut) => FinalIn(wire)
        BY <1>0, <4>1 DEF FinalIn
      <4>3. \A c \in Channels : \A from, to, all :
              Chain(wire, c, from, to, all) => \E end \in Nat : Chain(cut, c, from, end, all)
        BY <1>0, ChainCut
      <4>4. Closing(cut, "epipe")
        BY <3>2
      <4> HIDE DEF cut
      <4>5. /\ port' = "closed" /\ (FinalIn(wire') => FinalIn(cut))
            /\ \A c \in Channels : \A from, to, all :
                 Chain(cut, c, from, to, all) => Chain(wire', c, from, to, all)
        BY <4>1, <4>4, ClosingChain
      <4> QED BY <4>2, <4>3, <4>5
    <3> QED BY <1>4, <3>1, <3>2 DEF PortEnds
  <2>3. ASSUME NEW c \in Channels, NEW from \in Nat, Route(c, from) PROVE Route(c, from)'
    BY <1>1, <2>1, <2>2, <2>3 DEF Route
  <2>4. FinalIn(mailbox') \/ FinalIn(wire') => eof' = Channels
    BY <1>1, <2>1, <2>2 DEF RouteInv
  <2> QED BY <1>2, <2>3, <2>4 DEF RouteInv
<1>5. CASE GuardDown
  <2>1. mailbox' = mailbox /\ CloseGuardedPort
    BY <1>5 DEF GuardDown
  <2>2. /\ FinalIn(wire') => FinalIn(wire)
        /\ \A c \in Channels : \A from, to, all :
             Chain(wire, c, from, to, all) /\ (port = "open" => to = all) =>
               \E end \in Nat : Chain(wire', c, from, end, all) /\ (port' = "open" => end = all)
    BY <1>0, <2>1, CloseChain
  <2>3. ASSUME NEW c \in Channels, NEW from \in Nat, Route(c, from) PROVE Route(c, from)'
    BY <1>1, <2>1, <2>2, <2>3 DEF Route
  <2>4. FinalIn(mailbox') \/ FinalIn(wire') => eof' = Channels
    BY <1>1, <2>1, <2>2 DEF RouteInv
  <2> QED BY <1>2, <2>3, <2>4 DEF RouteInv
<1>6. CASE GuardRelay
  <2>1. wire # <<>> /\ wire' = Tail(wire) /\ Send(<<Head(wire)>>) /\ port' = port
    BY <1>6, Zenon DEF GuardRelay
  <2> DEFINE m == Head(wire)
  <2>2. m \in Message /\ (Final(m) => FinalIn(wire)) /\ (FinalIn(wire') => FinalIn(wire))
    BY <1>0, <2>1 DEF FinalIn
  <2>3. CASE own = "dead"
    <3>1. mailbox' = <<>>
      BY <2>1, <2>3 DEF Send
    <3>2. FinalIn(mailbox') \/ FinalIn(wire') => eof' = Channels
      BY <1>1, <2>2, <3>1 DEF RouteInv, FinalIn
    <3>3. ~Faithful'
      BY <1>2, <2>3 DEF Faithful
    <3>4. ASSUME NEW c \in Channels PROVE \E from \in Nat : Route(c, from)'
      <4>1. PICK mid \in Nat, to \in Nat :
              Chain(wire, c, mid, to, read[c]) /\ (port = "open" => to = read[c])
        BY DEF RouteInv, Route
      <4>2. Chain(wire', c, mid + Len(Bytes(m, c)), to, read[c])
        BY <1>0, <2>1, <4>1, ChainTail
      <4>3. mid + Len(Bytes(m, c)) \in Nat
        BY <2>2, BytesType
      <4> HIDE DEF m
      <4>4. Chain(mailbox', c, mid + Len(Bytes(m, c)), mid + Len(Bytes(m, c)), read[c])
        BY <3>1, <4>3, ChainEmpty
      <4> QED BY <1>1, <2>1, <4>1, <4>2, <4>3, <4>4 DEF Route
    <3> QED BY <3>2, <3>3, <3>4 DEF RouteInv
  <2>4. CASE own # "dead"
    <3>1. mailbox' = Append(mailbox, m)
      BY <1>0, <2>1, <2>4 DEF Send
    <3>2. FinalIn(mailbox') => FinalIn(mailbox) \/ Final(m)
      BY <1>0, <2>2, <3>1, AppendProperties DEF FinalIn
    <3>3. FinalIn(mailbox') \/ FinalIn(wire') => eof' = Channels
      BY <1>1, <2>2, <3>2 DEF RouteInv
    <3> HIDE DEF m
    <3>4. ASSUME NEW c \in Channels, NEW from \in Nat, Route(c, from) PROVE Route(c, from)'
      <4>1. PICK mid \in Nat, to \in Nat :
              Chain(mailbox, c, from, mid, read[c]) /\ Chain(wire, c, mid, to, read[c])
              /\ (port = "open" => to = read[c])
        BY <3>4 DEF Route
      <4>2. /\ Chain(wire', c, mid + Len(Bytes(m, c)), to, read[c])
            /\ \A b \in 1..Len(Bytes(m, c)) : Bytes(m, c)[b] = mid + b
            /\ Final(m) => mid = read[c]
        BY <1>0, <2>1, <4>1, ChainTail DEF m
      <4>3. Chain(mailbox', c, from, mid + Len(Bytes(m, c)), read[c])
        BY <1>0, <2>2, <3>1, <4>1, <4>2, ChainAppend
      <4>4. mid + Len(Bytes(m, c)) \in Nat
        BY <2>2, BytesType
      <4> QED BY <1>1, <2>1, <4>1, <4>2, <4>3, <4>4 DEF Route
    <3> QED BY <1>2, <3>3, <3>4 DEF RouteInv
  <2> QED BY <2>3, <2>4
<1>7. CASE GuardEnds
  <2> DEFINE status == [kind |-> "exit_status"]
             last == [kind |-> "guard_closed"]
             before == IF Head(wire).normal \/ reported THEN <<>> ELSE <<status>>
  <2>1. wire # <<>> /\ wire' = Tail(wire) /\ Send(before \o <<last>>) /\ port' = port
        /\ Head(wire).kind = "EXIT"
    BY <1>7, Zenon DEF GuardEnds
  <2>2. /\ status \in Message /\ ~Final(status) /\ (\A c : Bytes(status, c) = <<>>)
        /\ last \in Message /\ ~Final(last) /\ (\A c : Bytes(last, c) = <<>>)
    BY <1>3
  <2>3. FinalIn(wire') => FinalIn(wire)
    BY <1>0, <2>1 DEF FinalIn
  <2>4. before = <<>> \/ before = <<status>>
    OBVIOUS
  <2> HIDE DEF status, last, before
  <2>5. \A c \in Channels : \A from, to, all :
          Chain(wire, c, from, to, all) => Chain(wire', c, from, to, all)
    <3> SUFFICES ASSUME NEW c \in Channels, NEW from, NEW to, NEW all,
                        Chain(wire, c, from, to, all)
                 PROVE  Chain(wire', c, from, to, all)
      OBVIOUS
    <3>1. Len(Bytes(Head(wire), c)) = 0 /\ from \in Nat
      BY <1>0, <2>1, ChainEnds DEF Bytes
    <3>2. Chain(wire', c, from + Len(Bytes(Head(wire), c)), to, all)
      BY <1>0, <2>1, ChainTail
    <3> QED BY <3>1, <3>2
  <2>6. ASSUME NEW q \in Seq(Message), NEW m \in {status, last}
        PROVE  /\ Append(q, m) \in Seq(Message)
               /\ FinalIn(Append(q, m)) => FinalIn(q)
               /\ \A c \in Channels : \A from, to, all :
                    Chain(q, c, from, to, all) => Chain(Append(q, m), c, from, to, all)
    <3>1. m \in Message /\ ~Final(m) /\ \A c : Bytes(m, c) = <<>>
      BY <2>2
    <3>2. Append(q, m) \in Seq(Message) /\ (FinalIn(Append(q, m)) => FinalIn(q))
      BY <3>1, AppendProperties DEF FinalIn
    <3>3. ASSUME NEW c \in Channels, NEW from, NEW to, NEW all, Chain(q, c, from, to, all)
          PROVE  Chain(Append(q, m), c, from, to, all)
      <4>1. Len(Bytes(m, c)) = 0 /\ to \in Nat
        BY <3>1, <3>3, ChainEnds
      <4>2. Chain(Append(q, m), c, from, to + Len(Bytes(m, c)), all)
        BY <3>1, <3>3, <4>1, ChainAppend
      <4> QED BY <4>1, <4>2
    <3> QED BY <3>2, <3>3
  <2>7. CASE own = "dead"
    <3>1. mailbox' = <<>>
      BY <2>1, <2>7 DEF Send
    <3>2. FinalIn(mailbox') \/ FinalIn(wire') => eof' = Channels
      BY <1>1, <2>3, <3>1 DEF RouteInv, FinalIn
    <3>3. ~Faithful'
      BY <1>2, <2>7 DEF Faithful
    <3>4. ASSUME NEW c \in Channels PROVE \E from \in Nat : Route(c, from)'
      <4>1. PICK mid \in Nat, to \in Nat :
              Chain(wire, c, mid, to, read[c]) /\ (port = "open" => to = read[c])
        BY DEF RouteInv, Route
      <4>2. Chain(wire', c, mid, to, read[c])
        BY <2>5, <4>1
      <4>3. Chain(mailbox', c, mid, mid, read[c])
        BY <3>1, ChainEmpty
      <4> QED BY <1>1, <2>1, <4>1, <4>2, <4>3 DEF Route
    <3> QED BY <3>2, <3>3, <3>4 DEF RouteInv
  <2>8. CASE own # "dead"
    <3>1. mailbox' = mailbox \o (before \o <<last>>)
      BY <2>1, <2>8 DEF Send
    <3>2. mailbox' = Append(mailbox, last) \/ mailbox' = Append(Append(mailbox, status), last)
      BY <1>0, <2>2, <2>4, <3>1
    <3>3. /\ FinalIn(mailbox') => FinalIn(mailbox)
          /\ \A c \in Channels : \A from, to, all :
               Chain(mailbox, c, from, to, all) => Chain(mailbox', c, from, to, all)
      <4>1. CASE mailbox' = Append(mailbox, last)
        BY <1>0, <2>6, <4>1
      <4>2. CASE mailbox' = Append(Append(mailbox, status), last)
        <5> DEFINE q == Append(mailbox, status)
        <5>1. /\ q \in Seq(Message) /\ (FinalIn(q) => FinalIn(mailbox))
              /\ \A c \in Channels : \A from, to, all :
                   Chain(mailbox, c, from, to, all) => Chain(q, c, from, to, all)
          BY <1>0, <2>6
        <5>2. mailbox' = Append(q, last)
          BY <4>2
        <5> HIDE DEF q
        <5> QED BY <2>6, <5>1, <5>2
      <4> QED BY <3>2, <4>1, <4>2
    <3>4. FinalIn(mailbox') \/ FinalIn(wire') => eof' = Channels
      BY <1>1, <2>3, <3>3 DEF RouteInv
    <3>5. ASSUME NEW c \in Channels, NEW from \in Nat, Route(c, from) PROVE Route(c, from)'
      BY <1>1, <2>1, <2>5, <3>3, <3>5 DEF Route
    <3> QED BY <1>2, <3>4, <3>5 DEF RouteInv
  <2> QED BY <2>7, <2>8
<1> QED BY <1>4, <1>5, <1>6, <1>7 DEF GuardSteps

\* What a faithful owner takes from its mailbox, it holds.
Takes ==
  /\ mailbox # <<>> /\ Consume
  /\ \A c \in Channels : Held(c)' = Held(c) \o Bytes(Head(mailbox), c)

LEMMA TakesNothing ==
  ASSUME TypeInv, mailbox # <<>>, Consume, Head(mailbox).kind # "data",
         \A c \in Channels : Held(c)' = Held(c)
  PROVE  Takes
<1>1. \A c \in Channels : Held(c) \in Seq(Nat)
  BY ConcatProperties DEF TypeInv, OwnerType, Held, Channels
<1>2. \A c \in Channels : Bytes(Head(mailbox), c) = <<>>
  BY DEF Bytes
<1> QED BY <1>1, <1>2, ConcatEmptySeq DEF Takes

\* A frame that a run keeps in full and that a daemon emits.
LEMMA TakesFrame ==
  ASSUME TypeInv, mailbox # <<>>, Consume, Head(mailbox).kind = "data", rest = <<>>, rest' = <<>>,
         got' = [got EXCEPT ![Head(mailbox).channel] =
                   got[Head(mailbox).channel] \o Head(mailbox).bytes]
  PROVE  Takes
<1> DEFINE m == Head(mailbox)
<1>1. m \in Message
  BY ConsumeType
<1>2. m.channel \in Channels /\ m.bytes \in Seq(Nat)
  BY <1>1, MessageFacts
<1>3. got \in [Channels -> Seq(Nat)]
  BY DEF TypeInv, OwnerType
<1> HIDE DEF m
<1>4. \A c \in Channels : got'[c] = got[c] \o Bytes(m, c)
  <2> TAKE c \in Channels
  <2>1. CASE c = m.channel
    BY <1>2, <1>3, <2>1 DEF Bytes, m
  <2>2. CASE c # m.channel
    <3>1. Bytes(m, c) = <<>> /\ got'[c] = got[c] /\ got[c] \in Seq(Nat)
      BY <1>3, <2>2 DEF Bytes, m
    <3> QED BY <3>1, ConcatEmptySeq
  <2> QED BY <2>1, <2>2
<1>5. \A c \in Channels : got'[c] \in Seq(Nat)
  <2> TAKE c \in Channels
  <2>1. Bytes(m, c) \in Seq(Nat)
    BY <1>2 DEF Bytes
  <2>2. got[c] \in Seq(Nat)
    BY <1>3
  <2>3. got[c] \o Bytes(m, c) \in Seq(Nat)
    BY <2>1, <2>2, ConcatProperties
  <2> QED BY <1>4, <2>3
<1>6. \A c \in Channels : Held(c) = got[c] /\ Held(c)' = got'[c]
  <2>1. "out" \in Channels /\ "err" \in Channels /\ \A c \in Channels : c # "out" => c = "err"
    BY DEF Channels
  <2>2. got["out"] \o rest = got["out"] /\ got'["out"] \o rest' = got'["out"]
    BY <1>3, <1>5, <2>1, ConcatEmptySeq
  <2> QED BY <2>1, <2>2 DEF Held
<1> QED BY <1>4, <1>6 DEF Takes, m

\* Cut in two and joined again, a sequence is what it was.
LEMMA CutRejoins ==
  ASSUME NEW b \in Seq(Nat), NEW n \in 0..Len(b)
  PROVE  SubSeq(b, 1, n) \o SubSeq(b, n + 1, Len(b)) = b
<1> DEFINE s == SubSeq(b, 1, n)
           t == SubSeq(b, n + 1, Len(b))
<1>0. Len(b) \in Nat /\ n \in Nat /\ n <= Len(b)
  OBVIOUS
<1>1. s \in Seq(Nat) /\ Len(s) = n /\ \A i \in 1..n : s[i] = b[i]
  BY SubType
<1>2. t \in Seq(Nat) /\ Len(t) = Len(b) - n /\ \A i \in 1..(Len(b) - n) : t[i] = b[n + i]
  OBVIOUS
<1> HIDE DEF s, t
<1>3. /\ s \o t \in Seq(Nat) /\ Len(s \o t) = n + (Len(b) - n)
      /\ \A i \in 1..(n + (Len(b) - n)) : (s \o t)[i] = IF i <= n THEN s[i] ELSE t[i - n]
  BY <1>1, <1>2, ConcatProperties, SMTT(30)
<1>4. Len(s \o t) = Len(b)
  BY <1>0, <1>3
<1>5. \A i \in 1..Len(b) : (s \o t)[i] = b[i]
  <2> SUFFICES ASSUME NEW i \in 1..Len(b) PROVE (s \o t)[i] = b[i]
    OBVIOUS
  <2>1. (s \o t)[i] = IF i <= n THEN s[i] ELSE t[i - n]
    BY <1>0, <1>3
  <2>2. CASE i <= n
    BY <1>0, <1>1, <2>1, <2>2
  <2>3. CASE ~(i <= n)
    <3>1. i - n \in 1..(Len(b) - n) /\ n + (i - n) = i
      BY <1>0, <2>3
    <3>2. t[i - n] = b[n + (i - n)]
      BY <1>2, <3>1
    <3> QED BY <2>1, <2>3, <3>1, <3>2
  <2> QED BY <2>2, <2>3
<1>6. s \o t = b
  BY <1>3, <1>4, <1>5, SameElements
<1> QED BY <1>6 DEF s, t

LEMMA JoinedTwice == \A s, t, u \in Seq(Nat) : (s \o t) \o u = s \o (t \o u)
BY ConcatAssociative, SMTT(30)

LEMMA HeldStep ==
  ASSUME CoreInv, OwnerSteps, Faithful'
  PROVE  Faithful /\ ((UNCHANGED mailbox /\ \A c \in Channels : Held(c)' = Held(c)) \/ Takes)
<1> DEFINE Still == UNCHANGED mailbox /\ \A c \in Channels : Held(c)' = Held(c)
<1>0. TypeInv /\ PlaceInv /\ PortType /\ OwnerType
  BY DEF CoreInv, TypeInv
<1>1. ASSUME Drain \/ DrainTimeout \/ OwnerDies PROVE FALSE
  BY <1>1 DEF Drain, DrainTimeout, OwnerDies, Faithful
<1>2. ASSUME ConfirmFrame \/ ConfirmTimeout PROVE FALSE
  <2>1. own = "confirming" /\ exit' = exit
        /\ own' \in {"confirming", "closing", after} /\ (own' = after => after \in {"next", "idle"})
    BY <1>0, <1>2 DEF ConfirmFrame, ConfirmTimeout, Confirmed, StartClosing, ownerVars, OwnerType,
                      Faithful
  <2> QED BY <1>0, <2>1 DEF Faithful, PlaceInv
<1>3. CASE RunSteps
  <2>1. req.mode = "run"
    BY <1>3 DEF RunSteps
  <2>2. ASSUME RunBackstop \/ RunExit \/ RunLost PROVE FALSE
    <3>1. own' = "closing"
      BY <2>2, Zenon DEF RunBackstop, RunExit, RunLost, RunReturns, StartClosing
    <3> QED BY <3>1 DEF Faithful
  <2>3. ASSUME RunDiscards PROVE FALSE
    BY <2>3 DEF RunDiscards, Faithful
  <2>4. CASE RunDeadline
    <3>1. UNCHANGED <<own, lossy, exit, got, rest, mailbox>>
      BY <2>4, Zenon DEF RunDeadline, guardVars
    <3> QED BY <3>1 DEF Faithful, Held
  <2>5. ASSUME NEW overflow \in BOOLEAN, RunOutput(overflow)
        PROVE  Faithful /\ Takes
    <3> DEFINE m == Head(mailbox)
    <3>1. /\ own = "collecting" /\ reason = "none" /\ mailbox # <<>> /\ Consume /\ m.kind = "data"
          /\ UNCHANGED <<own, exit, rest>>
      BY <2>5, Zenon DEF RunOutput, Collecting, Arrived
    <3>2. lossy' = (Kept(m) < Len(m.bytes) \/ overflow)
      BY <2>5, Zenon DEF RunOutput
    <3>3. ~(Kept(m) < Len(m.bytes))
      BY <3>2 DEF Faithful
    <3>4. m \in Message /\ m.bytes \in Seq(Nat) /\ m.channel \in Channels /\ Len(m.bytes) \in Nat
      BY <1>0, <3>1, ConsumeType, MessageFacts
    <3>5. Kept(m) \in 0..Len(m.bytes)
      BY <1>0, <2>1, <3>1, <3>4, KeptBound DEF CoreInv, LimitInv
    <3>6. Kept(m) = Len(m.bytes)
      BY <3>3, <3>4, <3>5
    <3>7. got' = [got EXCEPT ![m.channel] = got[m.channel] \o SubSeq(m.bytes, 1, Kept(m))]
      BY <2>5 DEF RunOutput
    <3>8. SubSeq(m.bytes, 1, Len(m.bytes)) = m.bytes
      BY <3>4, SubSeqFull
    <3>9. got' = [got EXCEPT ![m.channel] = got[m.channel] \o m.bytes]
      BY <3>6, <3>7, <3>8
    <3>10. rest = <<>>
      BY <1>0, <2>1 DEF PlaceInv
    <3>11. Faithful
      BY <1>0, <3>1 DEF Faithful, PlaceInv
    <3>12. Takes
      BY <1>0, <3>1, <3>9, <3>10, TakesFrame
    <3> QED BY <3>11, <3>12
  <2> QED BY <1>3, <2>2, <2>3, <2>4, <2>5 DEF RunSteps
<1>4. CASE StreamSteps
  <2>1. req.mode = "stream" /\ ~lossy
    BY <1>0, <1>4 DEF StreamSteps, PlaceInv
  <2>2. CASE Demand
    BY <2>2 DEF Demand, ownerVars, guardVars, Faithful, Held
  <2>3. CASE StreamNext
    BY <2>1, <2>3 DEF StreamNext, guardVars, Faithful, Held
  <2>4. ASSUME StreamEnds \/ StreamHalt PROVE FALSE
    BY <2>4 DEF StreamEnds, StreamHalt, StartClosing, StartConfirming, Faithful
  <2>5. ASSUME StreamLost \/ StreamTimeout PROVE FALSE
    BY <2>5 DEF StreamLost, StreamTimeout, Faithful
  <2>6. ASSUME NEW kind, StreamHas(kind)
        PROVE  /\ Faithful /\ mailbox # <<>> /\ Consume /\ Head(mailbox).kind = kind
               /\ Head(mailbox) \in Message
    <3>1. own = "pulling" /\ mailbox # <<>> /\ Consume /\ Head(mailbox).kind = kind
      BY <2>6 DEF StreamHas, Arrived
    <3> QED BY <1>0, <2>1, <3>1, ConsumeType DEF Faithful, PlaceInv
  <2>7. CASE StreamOutput
    <3> DEFINE m == Head(mailbox)
               b == rest \o m.bytes
               over == Gated /\ (Overlong(b) # {} \/ Len(b) - LastEnd(b) > req.max)
               n == IF Gated /\ Overlong(b) # {} THEN BeforeOverlong(b) ELSE LastEnd(b)
    <3>1. /\ Faithful /\ mailbox # <<>> /\ Consume /\ m.kind = "data" /\ m \in Message
          /\ m.channel = "out"
      BY <2>6, <2>7 DEF StreamOutput
    <3>2. m.bytes \in Seq(Nat) /\ rest \in Seq(Nat) /\ got \in [Channels -> Seq(Nat)]
      BY <1>0, <3>1, MessageFacts DEF OwnerType
    <3>3. b \in Seq(Nat)
      BY <3>2, ConcatProperties
    <3>4. n \in 0..Len(b)
      <4> HIDE DEF b
      <4> QED BY <3>3, LastEndBound, BeforeOverlongBound
    <3>5. got' = [got EXCEPT !["out"] = got["out"] \o SubSeq(b, 1, n)]
      BY <2>7 DEF StreamOutput
    <3>6. rest' = (IF over THEN <<>> ELSE SubSeq(b, n + 1, Len(b)))
      BY <2>7 DEF StreamOutput
    <3>7. ~over
      <4>1. over => own' = "confirming"
        BY <2>7 DEF StreamOutput, StartConfirming
      <4> QED BY <4>1 DEF Faithful
    <3> HIDE DEF b, over, n, m
    <3>8. SubSeq(b, 1, n) \in Seq(Nat) /\ SubSeq(b, n + 1, Len(b)) \in Seq(Nat)
          /\ SubSeq(b, 1, n) \o SubSeq(b, n + 1, Len(b)) = b
      <4>1. SubSeq(b, 1, n) \in Seq(Nat) /\ SubSeq(b, n + 1, Len(b)) \in Seq(Nat)
        BY <3>3, <3>4, StreamCut
      <4>2. SubSeq(b, 1, n) \o SubSeq(b, n + 1, Len(b)) = b
        BY <3>3, <3>4, CutRejoins
      <4> QED BY <4>1, <4>2
    <3>9. got["out"] \in Seq(Nat) /\ got'["out"] = got["out"] \o SubSeq(b, 1, n)
          /\ got'["err"] = got["err"]
      BY <3>2, <3>5 DEF Channels
    <3>10. Held("out")' = Held("out") \o m.bytes
      <4>1. Held("out")' = (got["out"] \o SubSeq(b, 1, n)) \o SubSeq(b, n + 1, Len(b))
        BY <3>6, <3>7, <3>9 DEF Held
      <4>2. Held("out")' = got["out"] \o b
        <5>1. (got["out"] \o SubSeq(b, 1, n)) \o SubSeq(b, n + 1, Len(b))
                = got["out"] \o (SubSeq(b, 1, n) \o SubSeq(b, n + 1, Len(b)))
          BY <3>8, <3>9, JoinedTwice
        <5> QED BY <3>8, <4>1, <5>1
      <4>3. Held("out") \o m.bytes = got["out"] \o b
        <5>1. (got["out"] \o rest) \o m.bytes = got["out"] \o (rest \o m.bytes)
          BY <3>2, <3>9, JoinedTwice
        <5> QED BY <5>1 DEF Held, b
      <4> QED BY <4>2, <4>3
    <3>11. Held("err")' = Held("err") \o Bytes(m, "err")
      <4>1. Held("err")' = got["err"] /\ Held("err") = got["err"] /\ got["err"] \in Seq(Nat)
        BY <3>2, <3>9 DEF Held, Channels
      <4>2. Bytes(m, "err") = <<>>
        BY <3>1 DEF Bytes
      <4> QED BY <4>1, <4>2, ConcatEmptySeq
    <3>12. Bytes(m, "out") = m.bytes
      BY <3>1 DEF Bytes
    <3> QED BY <3>1, <3>10, <3>11, <3>12 DEF Takes, Channels, m
  <2>8. CASE StreamStderr
    <3> DEFINE m == Head(mailbox)
               size == Len(m.bytes)
               room == req.maxErr - Len(got["err"])
               over == Gated /\ size > room
    <3>1. /\ Faithful /\ mailbox # <<>> /\ Consume /\ m.kind = "data" /\ m \in Message
          /\ m.channel = "err"
      BY <2>6, <2>8 DEF StreamStderr
    <3>2. m.bytes \in Seq(Nat) /\ rest \in Seq(Nat) /\ got \in [Channels -> Seq(Nat)]
      BY <1>0, <3>1, MessageFacts DEF OwnerType
    <3>3. got' = [got EXCEPT !["err"] =
                    got["err"] \o SubSeq(m.bytes, 1, IF over THEN room ELSE size)]
      BY <2>8 DEF StreamStderr
    <3>4. IF over THEN own' = "confirming" ELSE rest' = rest
      BY <2>8, Zenon DEF StreamStderr, StartConfirming
    <3>5. ~over
      BY <3>4 DEF Faithful
    <3>6. SubSeq(m.bytes, 1, size) = m.bytes
      BY <3>2, SubSeqFull
    <3> HIDE DEF over, room, size, m
    <3>7. got'["err"] = got["err"] \o m.bytes /\ got'["out"] = got["out"] /\ rest' = rest
      BY <3>2, <3>3, <3>4, <3>5, <3>6 DEF Channels
    <3>8. Held("err")' = Held("err") \o Bytes(m, "err")
      BY <3>1, <3>7 DEF Held, Bytes
    <3>9. Held("out")' = Held("out") \o Bytes(m, "out")
      <4>1. Held("out")' = Held("out") /\ Held("out") \in Seq(Nat)
        BY <3>2, <3>7, ConcatProperties DEF Held, Channels
      <4>2. Bytes(m, "out") = <<>>
        BY <3>1 DEF Bytes
      <4> QED BY <4>1, <4>2, ConcatEmptySeq
    <3> QED BY <3>1, <3>8, <3>9 DEF Takes, Channels, m
  <2>9. CASE StreamExit
    <3>1. /\ Faithful /\ mailbox # <<>> /\ Consume /\ Head(mailbox).kind = "exit"
      BY <2>6, <2>9 DEF StreamExit
    <3>2. rest \in Seq(Nat) /\ got \in [Channels -> Seq(Nat)]
      BY <1>0 DEF OwnerType
    <3>3. got' = [got EXCEPT !["out"] = got["out"] \o rest] /\ rest' = <<>>
      BY <2>9 DEF StreamExit
    <3>4. got'["out"] = got["out"] \o rest /\ got'["err"] = got["err"]
          /\ got["out"] \o rest \in Seq(Nat)
      BY <3>2, <3>3, ConcatProperties DEF Channels
    <3>5. Held("out")' = Held("out") /\ Held("err")' = Held("err")
      BY <3>3, <3>4, ConcatEmptySeq DEF Held
    <3> QED BY <1>0, <3>1, <3>5, TakesNothing DEF Channels
  <2> QED
    BY <1>4, <2>2, <2>3, <2>4, <2>5, <2>7, <2>8, <2>9 DEF StreamSteps
<1>5. CASE DaemonSteps
  <2>1. req.mode = "daemon" /\ rest = <<>> /\ ~lossy
    BY <1>0, <1>5 DEF DaemonSteps, PlaceInv
  <2>2. CASE DaemonReady
    BY <2>2 DEF DaemonReady, ownerVars, guardVars, Faithful, Held
  <2>3. ASSUME DaemonStop PROVE FALSE
    BY <2>3 DEF DaemonStop, StartConfirming, Faithful
  <2>4. CASE DaemonFrame
    <3>1. own \in {"polling", "serving"} /\ mailbox # <<>> /\ Consume /\ rest' = rest
      BY <2>4, Zenon DEF DaemonFrame, DaemonHears
    <3>2. Head(mailbox).kind = "data"
      <4>1. Head(mailbox).kind # "data" => own' = "closing"
        BY <2>4, Zenon DEF DaemonFrame, StartClosing
      <4> QED BY <4>1 DEF Faithful
    <3>3. got' = [got EXCEPT ![Head(mailbox).channel] =
                    got[Head(mailbox).channel] \o Head(mailbox).bytes]
      BY <2>4, <3>2 DEF DaemonFrame
    <3>4. Faithful
      BY <1>0, <2>1, <3>1 DEF Faithful, PlaceInv
    <3> QED BY <1>0, <2>1, <3>1, <3>2, <3>3, <3>4, TakesFrame
  <2> QED BY <1>5, <2>2, <2>3, <2>4 DEF DaemonSteps
<1> QED BY <1>1, <1>2, <1>3, <1>4, <1>5 DEF OwnerSteps

LEMMA OrderGrows ==
  ASSUME NEW s \in Seq(Nat), NEW t \in Seq(Nat), InOrder(s),
         \A b \in 1..Len(t) : t[b] = Len(s) + b
  PROVE  Len(s \o t) = Len(s) + Len(t) /\ InOrder(s \o t)
<1>1. /\ Len(s \o t) = Len(s) + Len(t) /\ Len(s) \in Nat /\ Len(t) \in Nat
      /\ \A i \in 1..(Len(s) + Len(t)) : (s \o t)[i] = IF i <= Len(s) THEN s[i] ELSE t[i - Len(s)]
  BY ConcatProperties
<1>2. ASSUME NEW i \in 1..(Len(s) + Len(t)) PROVE (s \o t)[i] = i
  <2>1. CASE i <= Len(s)
    BY <1>1, <2>1 DEF InOrder
  <2>2. CASE ~(i <= Len(s))
    <3>1. i - Len(s) \in 1..Len(t) /\ Len(s) + (i - Len(s)) = i
      BY <1>1, <2>2
    <3>2. (s \o t)[i] = t[i - Len(s)]
      BY <1>1, <2>2
    <3> QED BY <3>1, <3>2
  <2> QED BY <2>1, <2>2
<1> QED BY <1>1, <1>2 DEF InOrder

\* An owner that reads its mailbox shortens the route by what it takes.
LEMMA RouteOwner ==
  ASSUME CoreInv, RouteInv, OwnerSteps
  PROVE  RouteInv'
<1>0. /\ PortType /\ wire \in Seq(Message) /\ mailbox \in Seq(Message)
  BY DEF CoreInv, TypeInv, PortType
<1>1. UNCHANGED <<read, eof>>
  BY OwnerFrame DEF shimVars
<1>2. mailbox # <<>> => /\ Tail(mailbox) # mailbox /\ Head(mailbox) \in Message
                        /\ \A i \in 1..Len(Tail(mailbox)) : Tail(mailbox)[i] = mailbox[i + 1]
                        /\ Len(Tail(mailbox)) = Len(mailbox) - 1 /\ Len(mailbox) \in Nat
  BY <1>0, HeadTailProperties, EmptySeq
<1>3. /\ FinalIn(wire') => FinalIn(wire)
      /\ \A c \in Channels : \A from, to, all :
           Chain(wire, c, from, to, all) /\ (port = "open" => to = all) =>
             \E end \in Nat : Chain(wire', c, from, end, all) /\ (port' = "open" => end = all)
  <2>1. CASE UNCHANGED portVars
    BY <1>0, <2>1, ChainEnds DEF portVars
  <2>2. CASE CloseGuardedPort
    BY <1>0, <2>2, CloseChain
  <2> QED BY <2>1, <2>2, OwnerWire
<1>4. FinalIn(mailbox') => FinalIn(mailbox)
  <2>1. CASE mailbox # <<>> /\ Consume
    <3> SUFFICES ASSUME NEW i \in 1..Len(mailbox'), Final(mailbox'[i]) PROVE FinalIn(mailbox)
      BY DEF FinalIn
    <3>1. i + 1 \in 1..Len(mailbox) /\ mailbox'[i] = mailbox[i + 1]
      BY <1>2, <2>1 DEF Consume
    <3> QED BY <3>1 DEF FinalIn
  <2>2. CASE mailbox' = <<>>
    BY <2>2 DEF FinalIn
  <2> QED BY <2>1, <2>2, OwnerMail
<1>5. FinalIn(mailbox') \/ FinalIn(wire') => eof' = Channels
  BY <1>1, <1>3, <1>4 DEF RouteInv
<1>6. ASSUME NEW c \in Channels
      PROVE  \E from \in Nat :
               Route(c, from)' /\ (Faithful' => from = Len(Held(c)') /\ InOrder(Held(c)'))
  <2>1. PICK from \in Nat :
          Route(c, from) /\ (Faithful => from = Len(Held(c)) /\ InOrder(Held(c)))
    BY DEF RouteInv
  <2>2. PICK mid \in Nat, to \in Nat :
          Chain(mailbox, c, from, mid, read[c]) /\ Chain(wire, c, mid, to, read[c])
          /\ (port = "open" => to = read[c])
    BY <2>1 DEF Route
  <2>3. PICK end \in Nat :
          Chain(wire', c, mid, end, read[c]) /\ (port' = "open" => end = read[c])
    BY <1>3, <2>2
  <2>4. CASE UNCHANGED mailbox
    <3>1. Route(c, from)'
      BY <1>1, <2>2, <2>3, <2>4 DEF Route
    <3>2. ASSUME Faithful' PROVE Faithful /\ Held(c)' = Held(c)
      BY <1>2, <2>4, <3>2, HeldStep DEF Takes, Consume
    <3> QED BY <2>1, <3>1, <3>2
  <2>5. CASE mailbox # <<>> /\ Consume
    <3> DEFINE m == Head(mailbox)
    <3>1. m \in Message
      BY <1>2, <2>5
    <3> HIDE DEF m
    <3>2. Bytes(m, c) \in Seq(Nat) /\ Len(Bytes(m, c)) \in Nat
      BY <3>1, BytesType
    <3>3. PICK next \in Nat : next = from + Len(Bytes(m, c))
      BY <3>2
    <3>4. /\ Chain(mailbox', c, next, mid, read[c])
          /\ \A b \in 1..Len(Bytes(m, c)) : Bytes(m, c)[b] = from + b
      BY <1>0, <2>2, <2>5, <3>3, ChainTail DEF Consume, m
    <3>5. Route(c, next)'
      BY <1>1, <2>3, <3>4 DEF Route
    <3>6. ASSUME Faithful' PROVE next = Len(Held(c)') /\ InOrder(Held(c)')
      <4>1. Faithful /\ Held(c)' = Held(c) \o Bytes(m, c)
        BY <1>2, <2>5, <3>6, HeldStep DEF Takes, Consume, m
      <4>2. Held(c) \in Seq(Nat)
        BY ConcatProperties DEF CoreInv, TypeInv, OwnerType, Held, Channels
      <4>3. from = Len(Held(c)) /\ InOrder(Held(c))
        BY <2>1, <4>1
      <4>4. Len(Held(c) \o Bytes(m, c)) = Len(Held(c)) + Len(Bytes(m, c))
            /\ InOrder(Held(c) \o Bytes(m, c))
        BY <3>2, <3>4, <4>2, <4>3, OrderGrows
      <4> QED BY <3>3, <4>1, <4>3, <4>4
    <3> QED BY <3>5, <3>6
  <2>6. CASE mailbox' = <<>> /\ own' = "dead"
    <3>1. Route(c, mid)'
      BY <1>1, <2>3, <2>6, ChainEmpty DEF Route
    <3> QED BY <2>6, <3>1 DEF Faithful
  <2> QED BY <2>4, <2>5, <2>6, OwnerMail
<1> QED BY <1>5, <1>6 DEF RouteInv

LEMMA RouteStep ==
  CoreInv /\ LinkInv /\ RouteInv /\ [Next]_vars => RouteInv'
<1> SUFFICES ASSUME CoreInv, LinkInv, RouteInv, [Next]_vars PROVE RouteInv'
  OBVIOUS
<1>1. CASE UNCHANGED vars
  <2>1. UNCHANGED <<own, read, eof, port, wire, mailbox>> /\ UNCHANGED ownerVars
    BY <1>1 DEF vars, shimVars, portVars, guardVars
  <2>2. Faithful' = Faithful /\ \A c : Held(c)' = Held(c)
    BY <2>1, HeldAlone
  <2>3. \A c, from : Route(c, from)' = Route(c, from)
    BY <2>1 DEF Route
  <2> QED BY <2>1, <2>2, <2>3 DEF RouteInv
<1>2. CASE ShimSteps /\ UNCHANGED ownerVars
  <2>1. eof' \subseteq Channels
    BY CoreStep DEF CoreInv, TypeInv, ShimType
  <2> QED BY <1>2, <2>1, RouteShim DEF CoreInv
<1>3. CASE GuardSteps /\ UNCHANGED ownerVars
  BY <1>3, RouteGuard DEF CoreInv
<1>4. CASE OwnerSteps
  BY <1>4, RouteOwner
<1> QED BY <1>1, <1>2, <1>3, <1>4 DEF Next, Finished

LEMMA RouteInit == Init => RouteInv
<1> SUFFICES ASSUME Init PROVE RouteInv
  OBVIOUS
<1>1. wire = <<>> /\ mailbox = <<>> /\ got = [c \in Channels |-> <<>>] /\ rest = <<>>
      /\ \A c \in Channels : read[c] = 0
  BY DEF Init, Zero
<1>2. ~FinalIn(mailbox) /\ ~FinalIn(wire)
  BY <1>1 DEF FinalIn
<1>3. ASSUME NEW c \in Channels PROVE Route(c, 0) /\ Held(c) = <<>>
  <2>1. Chain(<<>>, c, 0, 0, read[c])
    BY ChainEmpty
  <2>2. Route(c, 0)
    BY <1>1, <2>1 DEF Route
  <2>3. Held(c) = <<>>
    BY <1>1 DEF Held, Channels
  <2> QED BY <2>2, <2>3
<1> QED BY <1>2, <1>3 DEF RouteInv, InOrder

-----------------------------------------------------------------------------
(* Evidence: what a final report tells, no later step takes back.          *)

Whole ==
  /\ eof = Channels
  /\ \A c \in Channels : Len(got[c]) = said[c] /\ InOrder(got[c])

Over == own \in {"closing", "returned", "dead"}

EvidenceInv ==
  /\ result.output = "complete" => Over /\ Whole
  /\ req.mode = "stream" /\ exit = "ok" => Whole

\* A faithful owner that receives a final report holds all there ever was.
LEMMA FinalTells ==
  ASSUME CoreInv, RouteInv, Faithful, mailbox # <<>>, Final(Head(mailbox))
  PROVE  /\ eof = Channels
         /\ \A c \in Channels : Len(Held(c)) = said[c] /\ InOrder(Held(c))
<1>1. mailbox \in Seq(Message) /\ mailbox[1] = Head(mailbox) /\ 1 \in 1..Len(mailbox)
  BY EmptySeq DEF CoreInv, TypeInv, PortType
<1>2. FinalIn(mailbox)
  BY <1>1 DEF FinalIn
<1>3. eof = Channels
  BY <1>2 DEF RouteInv
<1>4. ASSUME NEW c \in Channels PROVE Len(Held(c)) = said[c] /\ InOrder(Held(c))
  <2>1. PICK from \in Nat : Route(c, from) /\ from = Len(Held(c)) /\ InOrder(Held(c))
    BY DEF RouteInv
  <2>2. PICK mid \in Nat : Chain(mailbox, c, from, mid, read[c])
    BY <2>1 DEF Route
  <2>3. from = read[c]
    BY <1>1, <2>2, ChainTail
  <2>4. read[c] = said[c]
    BY <1>3 DEF CoreInv, EofInv
  <2> QED BY <2>1, <2>3, <2>4
<1> QED BY <1>3, <1>4

\* Once the pipes are at their end nothing more is written or read.
LEMMA SaidIsSaid ==
  ASSUME CoreInv, eof = Channels, [Next]_vars
  PROVE  UNCHANGED <<said, eof>>
<1>1. child # "run" /\ shim # "new"
  BY DEF CoreInv, EofInv, Channels
<1>2. CASE UNCHANGED vars \/ Finished
  BY <1>2 DEF Finished, vars, shimVars
<1>3. CASE ShimSteps
  <2>1. ASSUME NEW c \in Channels PROVE ~ChildWrite(c) /\ ~PumpEof(c)
    BY <1>1 DEF ChildWrite, PumpEof
  <2> QED
    BY <1>3, <2>1, Zenon
       DEF ShimSteps, SpawnChild, SpawnFails, ChildExit, ShimEof, ShimCredit, ShimKill,
           ShimTimeout, ShimReap, ShimReport, ShimLeft, ShimHearsClose, ShimCrash, PumpForward,
           shimVars
<1>4. CASE GuardSteps
  BY <1>4, Zenon DEF GuardSteps, PortEnds, GuardEnds, GuardRelay, GuardDown, shimVars
<1>5. CASE OwnerSteps
  BY <1>5, OwnerFrame DEF shimVars
<1> QED BY <1>2, <1>3, <1>4, <1>5 DEF Next

LEMMA WholeStays ==
  ASSUME CoreInv, Whole, [Next]_vars, UNCHANGED got
  PROVE  Whole'
BY SaidIsSaid DEF Whole

\* An owner that is over keeps its result and what it holds.
LEMMA OverStays ==
  ASSUME CoreInv, Over, [Next]_vars
  PROVE  Over' /\ UNCHANGED <<result, got>>
<1>1. CASE UNCHANGED vars \/ Finished
  BY <1>1 DEF Finished, vars, ownerVars, Over
<1>2. CASE (ShimSteps \/ GuardSteps) /\ UNCHANGED ownerVars
  <2>1. GuardSteps => UNCHANGED own
    BY Zenon DEF GuardSteps, PortEnds, GuardEnds, GuardRelay, GuardDown
  <2>2. ShimSteps => UNCHANGED own
    BY ShimWrites DEF CoreInv
  <2> QED BY <1>2, <2>1, <2>2 DEF Over, ownerVars
<1>3. CASE Drain \/ DrainTimeout \/ OwnerDies
  <2>1. UNCHANGED <<result, got>>
    BY <1>3, Zenon DEF Drain, DrainTimeout, OwnerDies, ownerVars
  <2>2. own' = own \/ own' \in {"returned", "dead"}
    BY <1>3, Zenon DEF Drain, DrainTimeout, OwnerDies
  <2> QED BY <2>1, <2>2 DEF Over
<1>4. ~ConfirmFrame /\ ~ConfirmTimeout
  BY DEF ConfirmFrame, ConfirmTimeout, Over
<1>5. ~RunSteps
  BY DEF RunSteps, RunDeadline, RunBackstop, RunDiscards, RunExit, RunLost, RunOutput,
         Collecting, Over
<1>6. ~StreamSteps
  BY DEF StreamSteps, Demand, StreamNext, StreamEnds, StreamHalt, StreamOutput, StreamStderr,
         StreamExit, StreamLost, StreamTimeout, StreamHas, Over
<1>7. ~DaemonSteps
  BY DEF DaemonSteps, DaemonReady, DaemonFrame, DaemonStop, DaemonHears, Over
<1> QED BY <1>1, <1>2, <1>3, <1>4, <1>5, <1>6, <1>7 DEF Next, OwnerSteps

\* A result comes from a report, or says nothing of completeness.
LEMMA ResultMade ==
  ASSUME CoreInv, RouteInv, EvidenceInv, ~Over, OwnerSteps, result'.output = "complete"
  PROVE  result' = result \/ (Over' /\ Whole')
<1>0. OwnerSteps => [Next]_vars
  BY DEF Next
<1>1. CASE Drain \/ DrainTimeout \/ OwnerDies \/ ConfirmFrame \/ ConfirmTimeout
  BY <1>1, Zenon DEF Drain, DrainTimeout, OwnerDies, ConfirmFrame, ConfirmTimeout, ownerVars
<1>2. CASE RunSteps
  <2>1. CASE RunExit
    <3> DEFINE report == Head(mailbox)
               output == IF lossy \/ report.truncated THEN "truncated" ELSE "complete"
    <3>1. own = "collecting" /\ mailbox # <<>> /\ report.kind = "exit"
          /\ own' = "closing" /\ UNCHANGED <<got, said, eof>>
      BY <2>1, Zenon DEF RunExit, RunReturns, Collecting, Arrived, StartClosing, shimVars
    <3>2. \E outcome : result' = [outcome |-> outcome, output |-> output]
      BY <2>1, Zenon DEF RunExit, RunReturns
    <3>3. output = "complete"
      <4> HIDE DEF output
      <4> QED BY <3>2
    <3>4. Faithful /\ Final(report)
      BY <3>1, <3>3 DEF CoreInv, PlaceInv, Faithful, Final
    <3>5. \A c \in Channels : Held(c) = got[c]
      <4>1. rest = <<>> /\ got \in [Channels -> Seq(Nat)]
        BY <3>1 DEF CoreInv, PlaceInv, TypeInv, OwnerType
      <4> QED BY <4>1, ConcatEmptySeq DEF Held, Channels
    <3> QED BY <3>1, <3>4, <3>5, FinalTells DEF Over, Whole
  <2>2. CASE RunBackstop \/ RunLost
    <3>1. \E outcome : result' = [outcome |-> outcome, output |-> Evidence]
      BY <2>2, Zenon DEF RunBackstop, RunLost, RunReturns
    <3> QED BY <3>1 DEF Evidence
  <2>3. CASE RunDeadline \/ RunDiscards \/ \E overflow \in BOOLEAN : RunOutput(overflow)
    BY <2>3, Zenon DEF RunDeadline, RunDiscards, RunOutput
  <2> QED BY <1>2, <2>1, <2>2, <2>3 DEF RunSteps
<1>3. CASE StreamSteps
  <2>1. CASE StreamEnds
    <3>1. own' = "closing" /\ got' = got
          /\ result' = (IF exit = "ok" THEN [outcome |-> "ok", output |-> "complete"]
                        ELSE [outcome |-> "error", output |-> "unknown"])
      BY <2>1 DEF StreamEnds, StartClosing
    <3>2. exit = "ok" /\ req.mode = "stream"
      BY <1>3, <3>1 DEF StreamSteps
    <3>3. Whole
      BY <3>2 DEF EvidenceInv
    <3> QED BY <1>0, <3>1, <3>3, WholeStays DEF Over
  <2>2. CASE ~StreamEnds
    BY <1>3, <2>2, Zenon DEF StreamSteps, Demand, StreamNext, StreamHalt, StreamOutput,
       StreamStderr, StreamExit, StreamLost, StreamTimeout, ownerVars
  <2> QED BY <2>1, <2>2
<1>4. CASE DaemonSteps
  <2>1. CASE DaemonFrame /\ Head(mailbox).kind # "data"
    <3> DEFINE report == Head(mailbox)
               output == IF report.kind = "exit" /\ ~report.truncated
                         THEN "complete" ELSE "unknown"
    <3>1. own \in {"polling", "serving"} /\ mailbox # <<>> /\ own' = "closing"
          /\ UNCHANGED <<got, said, eof>>
      BY <2>1, Zenon DEF DaemonFrame, DaemonHears, StartClosing, shimVars
    <3>2. \E outcome : result' = [outcome |-> outcome, output |-> output]
      BY <2>1, Zenon DEF DaemonFrame
    <3>3. output = "complete"
      <4> HIDE DEF output
      <4> QED BY <3>2
    <3>4. Faithful /\ Final(report)
      BY <1>4, <3>1, <3>3 DEF CoreInv, PlaceInv, Faithful, Final, DaemonSteps
    <3>5. \A c \in Channels : Held(c) = got[c]
      <4>1. rest = <<>> /\ got \in [Channels -> Seq(Nat)]
        BY <3>1 DEF CoreInv, PlaceInv, TypeInv, OwnerType
      <4> QED BY <4>1, ConcatEmptySeq DEF Held, Channels
    <3> QED BY <3>1, <3>4, <3>5, FinalTells DEF Over, Whole
  <2>2. CASE DaemonReady \/ DaemonStop \/ (DaemonFrame /\ Head(mailbox).kind = "data")
    BY <2>2, Zenon DEF DaemonReady, DaemonStop, DaemonFrame, ownerVars
  <2> QED BY <1>4, <2>1, <2>2 DEF DaemonSteps
<1> QED BY <1>1, <1>2, <1>3, <1>4 DEF OwnerSteps

\* A stream ends well only by a report, with all that was held given out.
LEMMA ExitMade ==
  ASSUME CoreInv, RouteInv, EvidenceInv, OwnerSteps, req.mode = "stream", exit' = "ok"
  PROVE  Whole'
<1>1. CASE exit = "ok"
  <2>1. Whole
    BY <1>1 DEF EvidenceInv
  <2>2. own # "pulling"
    BY <1>1 DEF CoreInv, PlaceInv
  <2>3. UNCHANGED got
    <3>1. ~StreamOutput /\ ~StreamStderr /\ ~StreamExit
      BY <2>2 DEF StreamOutput, StreamStderr, StreamExit, StreamHas
    <3>2. ~RunSteps
      BY DEF RunSteps
    <3> QED BY <3>1, <3>2, GotFrame DEF Next
  <2> QED BY <2>1, <2>3, WholeStays DEF Next
<1>2. CASE exit # "ok"
  <2>1. ~RunSteps /\ ~DaemonSteps
    BY DEF RunSteps, DaemonSteps
  <2>2. Drain \/ DrainTimeout \/ OwnerDies \/ ConfirmFrame \/ ConfirmTimeout => exit' = exit
    BY Zenon DEF Drain, DrainTimeout, OwnerDies, ConfirmFrame, ConfirmTimeout, ownerVars
  <2>3. StreamExit
    <3>1. Demand \/ StreamNext \/ StreamEnds \/ StreamHalt => exit' = exit
      BY Zenon DEF Demand, StreamNext, StreamEnds, StreamHalt, ownerVars
    <3>2. StreamLost \/ StreamTimeout => exit' = "error"
      BY Zenon DEF StreamLost, StreamTimeout
    <3>3. StreamOutput \/ StreamStderr => exit' = "error" \/ exit' = exit
      BY Zenon DEF StreamOutput, StreamStderr
    <3> QED BY <1>2, <2>1, <2>2, <3>1, <3>2, <3>3 DEF OwnerSteps, StreamSteps
  <2>4. own = "pulling" /\ mailbox # <<>> /\ Head(mailbox).kind = "exit"
        /\ UNCHANGED <<said, eof>>
    BY <2>3, Zenon DEF StreamExit, StreamHas, Arrived, shimVars
  <2>5. exit' = IF Head(mailbox).clean /\ ~Head(mailbox).timedOut /\ ~Head(mailbox).truncated
                THEN "ok" ELSE "error"
    BY <2>3, Zenon DEF StreamExit
  <2>6. Faithful /\ Final(Head(mailbox))
    BY <2>4, <2>5 DEF CoreInv, PlaceInv, Faithful, Final
  <2>7. \A c \in Channels : got'[c] = Held(c)
    <3>1. got' = [got EXCEPT !["out"] = got["out"] \o rest]
      BY <2>3 DEF StreamExit
    <3>2. got \in [Channels -> Seq(Nat)]
      BY DEF CoreInv, TypeInv, OwnerType
    <3> QED BY <3>1, <3>2 DEF Held, Channels
  <2> QED BY <2>4, <2>6, <2>7, FinalTells DEF Whole
<1> QED BY <1>1, <1>2

LEMMA EvidenceStep ==
  CoreInv /\ RouteInv /\ EvidenceInv /\ [Next]_vars => EvidenceInv'
<1> SUFFICES ASSUME CoreInv, RouteInv, EvidenceInv, [Next]_vars PROVE EvidenceInv'
  OBVIOUS
<1>1. CASE OwnerSteps
  <2>1. req' = req
    BY <1>1, OwnerFrame
  <2>2. ASSUME result'.output = "complete" PROVE Over' /\ Whole'
    <3>1. CASE Over
      <4>1. Over' /\ UNCHANGED <<result, got>>
        BY <3>1, OverStays
      <4>2. Whole
        BY <2>2, <4>1 DEF EvidenceInv
      <4> QED BY <4>1, <4>2, WholeStays
    <3>2. CASE ~Over
      <4>1. result' # result
        BY <2>2, <3>2 DEF EvidenceInv
      <4> QED BY <1>1, <2>2, <3>2, <4>1, ResultMade
    <3> QED BY <3>1, <3>2
  <2>3. req'.mode = "stream" /\ exit' = "ok" => Whole'
    BY <1>1, <2>1, ExitMade
  <2> QED BY <2>2, <2>3 DEF EvidenceInv
<1>2. CASE UNCHANGED <<req, own, ownerVars>>
  <2>1. UNCHANGED <<result, exit, got>> /\ Over' = Over
    BY <1>2 DEF ownerVars, Over
  <2>2. Whole => Whole'
    BY <2>1, WholeStays
  <2> QED BY <1>2, <2>1, <2>2 DEF EvidenceInv
<1>3. CASE UNCHANGED vars \/ Finished
  BY <1>2, <1>3 DEF Finished, vars
<1>4. CASE (ShimSteps \/ GuardSteps) /\ UNCHANGED ownerVars
  <2>1. GuardSteps => UNCHANGED <<req, own>>
    BY Zenon DEF GuardSteps, PortEnds, GuardEnds, GuardRelay, GuardDown
  <2>2. ShimSteps => UNCHANGED <<req, own>>
    BY Zenon DEF ShimSteps, SpawnChild, SpawnFails, ChildExit, ShimEof, ShimCredit, ShimKill,
                 ShimTimeout, ShimReap, ShimReport, ShimLeft, ShimHearsClose, ShimCrash,
                 ChildWrite, PumpEof, PumpForward
  <2> QED BY <1>2, <1>4, <2>1, <2>2
<1> QED BY <1>1, <1>3, <1>4 DEF Next

\* A run that calls its output complete, a daemon that does, and a stream that
\* ends without an exception hold every byte the child ever wrote, in order,
\* whatever was cancelled, lost, cut off or late on the way (run.ex
\* report_evidence, stream.ex handle_exit, daemon.ex absorb_frames).
THEOREM CompleteIsWhole == Spec => []CompleteMeansWhole
<1>1. Init => CoreInv /\ LinkInv /\ RouteInv /\ EvidenceInv
  <2>1. Init => LinkInv
    BY DEF Init, LinkInv, WireEnds, MailEnds
  <2>2. Init => EvidenceInv
    BY DEF Init, EvidenceInv, NoResult
  <2> QED BY <2>1, <2>2, CoreInit, RouteInit
<1>2. CoreInv /\ LinkInv /\ RouteInv /\ EvidenceInv /\ [Next]_vars
        => CoreInv' /\ LinkInv' /\ RouteInv' /\ EvidenceInv'
  BY CoreStep, LinkStep, RouteStep, EvidenceStep DEF CoreInv
<1>3. CoreInv /\ EvidenceInv => CompleteMeansWhole
  <2> SUFFICES ASSUME CoreInv, EvidenceInv, result.output = "complete", NEW c \in Channels
               PROVE  got[c] = [i \in 1..said[c] |-> i]
    BY DEF CompleteMeansWhole
  <2>1. got[c] \in Seq(Nat) /\ Len(got[c]) = said[c] /\ InOrder(got[c]) /\ said[c] \in Nat
    BY DEF CoreInv, TypeInv, ShimType, OwnerType, EvidenceInv, Whole
  <2> DEFINE all == [i \in 1..said[c] |-> i]
  <2>2. all \in Seq(Nat) /\ Len(all) = said[c] /\ \A i \in 1..said[c] : all[i] = i
    BY <2>1
  <2> HIDE DEF all
  <2>3. got[c] = all
    BY <2>1, <2>2, SameElements DEF InOrder
  <2> QED BY <2>3 DEF all
<1> QED BY <1>1, <1>2, <1>3, PTL DEF Spec

=============================================================================
