---------------------------- MODULE DuplexProofs ----------------------------
(***************************************************************************)
(* Theorems about a duplex session, for any callers, streams, scripts and  *)
(* windows: its recv calls and output first, its input queue at the end.   *)
(*                                                                         *)
(* Core says what the server, its callers, the shim and the two wires      *)
(* between them know of one another.  RestInv, that an unfinished line has *)
(* no newline, carries the lines; ReadInv, what is true when the session   *)
(* publishes its end, carries the evidence; CreditInv, where each granted  *)
(* byte is, carries the refinement of CreditFlow.                          *)
(***************************************************************************)
EXTENDS PullSession, DuplexInput, FiniteSetTheorems, SequenceTheorems, WellFoundedInduction, TLAPS

-----------------------------------------------------------------------------
(* Sets of numbers, and listing them.                                      *)

LEMMA LeastExists ==
  ASSUME NEW S \in SUBSET Nat, S # {}
  PROVE  \E i \in S : \A j \in S : i <= j
<1> DEFINE R == StrictSubsetOrdering(Nat)
           T == {1..i : i \in S}
<1>1. IsWellFoundedOn(R, FiniteSubsetsOf(Nat))
  BY FS_StrictSubsetOrderingWellFounded
<1>6. \A i \in S : 1..i \in FiniteSubsetsOf(Nat)
  BY FS_Interval DEF FiniteSubsetsOf
<1>2. T \subseteq FiniteSubsetsOf(Nat) /\ T # {}
  BY <1>6
<1>3. PICK x \in T : \A y \in T : ~(<<y, x>> \in R)
  <2> HIDE DEF R, T
  <2> QED BY <1>1, <1>2, WFMin
<1>4. PICK i \in S : x = 1..i
  BY <1>3
<1>5. ASSUME NEW j \in S, j < i PROVE FALSE
  <2>1. 1..j \in SUBSET Nat /\ 1..i \in SUBSET Nat
    OBVIOUS
  <2>2. 1..j \subseteq 1..i /\ i \in 1..i /\ i \notin 1..j
    BY <1>5
  <2>3. <<1..j, 1..i>> \in R
    BY <2>1, <2>2 DEF StrictSubsetOrdering
  <2> QED BY <1>3, <1>4, <2>3
<1> QED BY <1>5

LEMMA GreatestExists ==
  ASSUME NEW n \in Nat, NEW S \in SUBSET (0..n), S # {}
  PROVE  \E i \in S : \A j \in S : j <= i
<1> DEFINE U == {u \in Nat : \A j \in S : j <= u}
<1>1. n \in U
  OBVIOUS
<1>2. PICK u \in U : \A v \in U : u <= v
  BY <1>1, LeastExists
<1>3. CASE u \in S
  BY <1>2, <1>3
<1>4. CASE u \notin S
  <2>1. u # 0
    <3>1. PICK j \in S : TRUE
      OBVIOUS
    <3>2. j \in 0..n /\ j <= u /\ j # u
      BY <1>2, <1>4, <3>1
    <3> QED BY <3>2
  <2>2. u - 1 \in U
    BY <1>2, <1>4, <2>1
  <2> QED BY <1>2, <2>2
<1> QED BY <1>3, <1>4

LEMMA MaxOf ==
  ASSUME NEW n \in Nat, NEW S \in SUBSET (0..n), S # {}
  PROVE  Max(S) \in S /\ \A j \in S : j <= Max(S)
BY GreatestExists DEF Max

LEMMA BoundedIsFinite ==
  ASSUME NEW n \in Nat, NEW S \in SUBSET (0..n)
  PROVE  IsFiniteSet(S) /\ Cardinality(S) \in Nat
<1>1. IsFiniteSet(0..n)
  <2>1. 0 \in Int /\ n \in Int
    OBVIOUS
  <2> QED BY <2>1, FS_Interval
<1>2. IsFiniteSet(S)
  BY <1>1, FS_Subset
<1> QED BY <1>2, FS_CardinalityType

\* A list of the elements of S, the smallest first.
Lists(e, S) ==
  /\ e \in [1..Cardinality(S) -> S]
  /\ \A i, j \in 1..Cardinality(S) : i < j => e[i] < e[j]

\* The counterexample with the fewest elements would lose its greatest one.
LEMMA ListExists ==
  ASSUME NEW n \in Nat, NEW S \in SUBSET (0..n)
  PROVE  \E e : Lists(e, S)
<1> DEFINE Bad == {k \in Nat : \E T \in SUBSET (0..n) :
                                 Cardinality(T) = k /\ ~ \E e : Lists(e, T)}
<1>1. \A T \in SUBSET (0..n) : IsFiniteSet(T) /\ Cardinality(T) \in Nat
  BY BoundedIsFinite
<1>2. SUFFICES ASSUME Bad # {} PROVE FALSE
  <2>1. CASE \E e : Lists(e, S)
    BY <2>1
  <2>2. CASE ~ \E e : Lists(e, S)
    <3>1. Cardinality(S) \in Bad
      BY <1>1, <2>2
    <3> QED BY <3>1
  <2> QED BY <2>1, <2>2
<1>3. PICK k \in Bad : \A j \in Bad : k <= j
  BY <1>2, LeastExists
<1>4. PICK T \in SUBSET (0..n) : Cardinality(T) = k /\ ~ \E e : Lists(e, T)
  BY <1>3
<1>5. T # {}
  <2> SUFFICES ASSUME T = {} PROVE FALSE
    OBVIOUS
  <2>1. Cardinality(T) = 0
    BY FS_EmptySet
  <2>2. Lists(<<>>, T)
    BY <2>1 DEF Lists
  <2> QED BY <1>4, <2>2
<1>6. PICK m \in T : \A j \in T : j <= m
  BY <1>5, GreatestExists
<1> DEFINE R == T \ {m}
<1>7. Cardinality(R) = k - 1 /\ R \in SUBSET (0..n) /\ k \in Nat \ {0}
  <2>1. Cardinality(R) = Cardinality(T) - 1
    BY <1>1, FS_RemoveElement
  <2>2. Cardinality(T) # 0
    BY <1>1, <1>5, FS_EmptySet
  <2> QED BY <1>1, <1>4, <2>1, <2>2
<1>8. PICK e : Lists(e, R)
  <2>1. ~(k <= k - 1) /\ k - 1 \in Nat
    BY <1>7
  <2>2. k - 1 \notin Bad
    BY <1>3, <2>1
  <2> QED BY <1>7, <2>1, <2>2
<1> DEFINE f == [i \in 1..k |-> IF i < k THEN e[i] ELSE m]
<1>9. e \in [1..(k - 1) -> R] /\ \A i, j \in 1..(k - 1) : i < j => e[i] < e[j]
  BY <1>7, <1>8 DEF Lists
<1>10. f \in [1..k -> T]
  BY <1>7, <1>9
<1>11. ASSUME NEW i \in 1..k, NEW j \in 1..k, i < j PROVE f[i] < f[j]
  <2>1. i \in 1..(k - 1) /\ f[i] = e[i]
    BY <1>7, <1>11
  <2>2. CASE j < k
    <3>1. j \in 1..(k - 1) /\ f[j] = e[j]
      BY <1>7, <2>2
    <3> QED BY <1>9, <1>11, <2>1, <3>1
  <2>3. CASE j = k
    <3>1. f[j] = m
      BY <1>7, <2>3
    <3>2. e[i] \in T /\ e[i] # m /\ e[i] <= m /\ e[i] \in 0..n /\ m \in 0..n
      BY <1>6, <1>9, <2>1
    <3> QED BY <2>1, <3>1, <3>2
  <2> QED BY <1>7, <2>2, <2>3
<1>12. Lists(f, T)
  BY <1>4, <1>10, <1>11 DEF Lists
<1> QED BY <1>4, <1>12

\* Every element is in the list, and once.
LEMMA AscendingLists ==
  ASSUME NEW n \in Nat, NEW S \in SUBSET (0..n)
  PROVE  /\ Cardinality(S) \in Nat
         /\ Ascending(S) \in [1..Cardinality(S) -> S]
         /\ \A i, j \in 1..Cardinality(S) : i < j => Ascending(S)[i] < Ascending(S)[j]
         /\ \A x \in S : \E i \in 1..Cardinality(S) : Ascending(S)[i] = x
<1> DEFINE k == Cardinality(S)
<1>1. IsFiniteSet(S) /\ k \in Nat
  BY BoundedIsFinite
<1>2. Lists(Ascending(S), S)
  <2>1. PICK e : Lists(e, S)
    BY ListExists
  <2> QED BY <2>1 DEF Lists, Ascending
<1> DEFINE a == Ascending(S)
<1>3. a \in [1..k -> S] /\ \A i, j \in 1..k : i < j => a[i] < a[j]
  BY <1>2 DEF Lists
<1> HIDE DEF a
<1>4. \A i, j \in 1..k : a[i] = a[j] => i = j
  <2> SUFFICES ASSUME NEW i \in 1..k, NEW j \in 1..k, a[i] = a[j], i # j PROVE FALSE
    OBVIOUS
  <2>1. i < j \/ j < i
    BY <1>1
  <2>2. a[i] \in 0..n /\ a[j] \in 0..n
    BY <1>3
  <2> QED BY <1>3, <2>1, <2>2
<1>5. a \in Injection(1..k, S)
  BY <1>3, <1>4 DEF Injection, IsInjective
<1>6. IsFiniteSet(1..k) /\ Cardinality(1..k) = k
  BY <1>1, FS_Interval
<1>7. a \in Surjection(1..k, S)
  BY <1>1, <1>5, <1>6, FS_Injection
<1>8. \A x \in S : \E i \in 1..k : a[i] = x
  BY <1>7 DEF Surjection
<1> QED BY <1>1, <1>3, <1>8 DEF a

\* Each stream of S is listed, and once.
LEMMA InOrderLists ==
  ASSUME NEW S \in SUBSET Streams
  PROVE  /\ InOrder(S) \in Seq(S)
         /\ \A i, j \in 1..Len(InOrder(S)) : InOrder(S)[i] = InOrder(S)[j] => i = j
         /\ \A s \in S : \E i \in 1..Len(InOrder(S)) : InOrder(S)[i] = s
<1> DEFINE n == Len(StreamOrder)
           P == {i \in 1..n : StreamOrder[i] \in S}
           k == Cardinality(P)
           a == Ascending(P)
           o == [i \in 1..k |-> StreamOrder[a[i]]]
<1>1. StreamOrder \in [1..n -> Streams] /\ n \in Nat /\ P \in SUBSET (0..n)
  BY ScriptAssumption
<1>2. /\ k \in Nat /\ a \in [1..k -> P]
      /\ \A i, j \in 1..k : i < j => a[i] < a[j]
      /\ \A x \in P : \E i \in 1..k : a[i] = x
  BY <1>1, AscendingLists
<1>3. InOrder(S) = o
  BY DEF InOrder
<1> HIDE DEF k, a
<1>4. o \in [1..k -> S]
  BY <1>2
<1>5. o \in Seq(S) /\ Len(o) = k
  BY <1>2, <1>4
<1>6. ASSUME NEW i \in 1..k, NEW j \in 1..k, o[i] = o[j] PROVE i = j
  <2>1. a[i] \in 1..n /\ a[j] \in 1..n /\ StreamOrder[a[i]] = StreamOrder[a[j]]
    BY <1>2, <1>6
  <2>2. a[i] = a[j]
    BY <1>1, <2>1, ScriptAssumption DEF IsInjective
  <2>3. a[i] \in Nat /\ a[j] \in Nat
    BY <2>1
  <2>4. ~(i < j) /\ ~(j < i)
    BY <1>2, <2>2, <2>3
  <2> QED BY <1>2, <2>4
<1>7. ASSUME NEW s \in S PROVE \E i \in 1..k : o[i] = s
  <2>1. PICK x \in 1..n : StreamOrder[x] = s
    BY <1>1, ScriptAssumption DEF Range
  <2>2. x \in P
    BY <2>1
  <2>3. PICK i \in 1..k : a[i] = x
    BY <1>2, <2>2
  <2> QED BY <2>1, <2>3
<1> HIDE DEF o
<1> QED BY <1>3, <1>5, <1>6, <1>7

-----------------------------------------------------------------------------
(* The lines a frame completes.                                            *)

LEMMA RestOf ==
  ASSUME NEW s \in Streams, NEW to \in Nat, start[s] \in Nat, start[s] <= to
  PROVE  /\ Newlines(s, to) \in SUBSET (0..to)
         /\ RestFrom(s, to) \in Newlines(s, to) \cup {start[s]}
         /\ RestFrom(s, to) \in Nat /\ start[s] <= RestFrom(s, to) /\ RestFrom(s, to) <= to
         /\ \A p \in Newlines(s, to) : start[s] < p /\ p <= RestFrom(s, to)
         /\ (RestFrom(s, to) = start[s] <=> Newlines(s, to) = {})
<1> DEFINE N == Newlines(s, to)
           b == start[s]
           r == RestFrom(s, to)
<1>1. N \in SUBSET (0..to) /\ \A p \in N : b < p
  BY DEF Newlines
<1>2. N \cup {b} \in SUBSET (0..to) /\ N \cup {b} # {}
  BY <1>1
<1>3. r = Max(N \cup {b})
  BY DEF RestFrom
<1> HIDE DEF N, b, r
<1>4. r \in N \cup {b} /\ \A j \in N \cup {b} : j <= r
  BY <1>2, <1>3, MaxOf
<1>5. b \in Nat /\ b <= to
  BY DEF b
<1>6. r \in Nat /\ b <= r /\ r <= to
  BY <1>2, <1>4
<1>7. r = b <=> N = {}
  BY <1>1, <1>4, <1>5, <1>6
<1> QED BY <1>1, <1>4, <1>6, <1>7 DEF N, b, r

\* The lines cover what lies between the two rests, each up to its newline.
LEMMA LinesOfFrame ==
  ASSUME NEW s \in Streams, NEW to \in Nat, start[s] \in Nat, start[s] <= to
  PROVE  LET L == LinesOf(s, to) IN
         /\ L \in Seq(Range3)
         /\ \A i \in 1..Len(L) :
              /\ L[i].stream = s
              /\ L[i].from < L[i].to /\ start[s] <= L[i].from
              /\ L[i].to \in Newlines(s, to)
              /\ \A p \in (L[i].from + 1)..(L[i].to - 1) : p \notin Newlines(s, to)
         /\ \A i, j \in 1..Len(L) : i < j => L[i].to <= L[j].from
         /\ Covered(Range(L)) = (start[s] + 1)..RestFrom(s, to)
         /\ (L = <<>> <=> RestFrom(s, to) = start[s])
<1> DEFINE N == Newlines(s, to)
           b == start[s]
           r == RestFrom(s, to)
           k == Cardinality(N)
           a == Ascending(N)
           before(i) == IF i = 1 THEN b ELSE a[i - 1]
           L == LinesOf(s, to)
<1>1. /\ N \in SUBSET (0..to) /\ r \in N \cup {b} /\ r \in Nat /\ b <= r
      /\ \A p \in N : b < p /\ p <= r
      /\ (r = b <=> N = {})
  BY RestOf
<1>2. /\ k \in Nat /\ a \in [1..k -> N]
      /\ \A i, j \in 1..k : i < j => a[i] < a[j]
      /\ \A x \in N : \E i \in 1..k : a[i] = x
  BY <1>1, AscendingLists
<1>3. L = [i \in 1..k |-> [stream |-> s, from |-> before(i), to |-> a[i]]]
  BY DEF LinesOf
<1>4. b \in Nat
  OBVIOUS
<1>0. k = 0 <=> N = {}
  BY <1>1, BoundedIsFinite, FS_EmptySet
<1> HIDE DEF N, b, r, k, a, L
<1>5. \A i \in 1..k : a[i] \in N /\ a[i] \in Nat
  <2>1. \A i \in 1..k : a[i] \in N
    BY <1>2
  <2>2. N \subseteq Nat
    BY <1>1
  <2> QED BY <2>1, <2>2
<1>6. ASSUME NEW i \in 1..k
      PROVE  before(i) \in Nat /\ b <= before(i) /\ before(i) < a[i]
  <2>1. CASE i = 1
    BY <1>1, <1>4, <1>5, <2>1
  <2>2. CASE i # 1
    <3>1. i - 1 \in 1..k /\ i - 1 < i
      BY <1>2, <2>2
    <3>2. a[i - 1] < a[i] /\ a[i - 1] \in N
      BY <1>2, <1>5, <3>1
    <3> QED BY <1>1, <1>4, <1>5, <2>2, <3>1, <3>2
  <2> QED BY <2>1, <2>2
<1>7. ASSUME NEW i \in 1..k, NEW j \in 1..k, i < j PROVE a[i] <= before(j)
  <2>1. j # 1 /\ j - 1 \in 1..k /\ (i = j - 1 \/ i < j - 1)
    BY <1>7, <1>2
  <2>2. before(j) = a[j - 1]
    BY <2>1
  <2> QED BY <1>2, <1>5, <2>1, <2>2
<1>8. ASSUME NEW i \in 1..k, NEW p \in (before(i) + 1)..(a[i] - 1) PROVE p \notin N
  <2> SUFFICES ASSUME p \in N PROVE FALSE
    OBVIOUS
  <2>1. PICK j \in 1..k : a[j] = p
    BY <1>2
  <2>2. before(i) < a[j] /\ a[j] < a[i]
    BY <1>5, <1>6, <2>1
  <2>3. ~(j < i)
    <3> SUFFICES ASSUME j < i PROVE FALSE
      OBVIOUS
    <3> HIDE DEF before
    <3>1. a[j] <= before(i)
      BY <1>7
    <3> QED BY <1>5, <1>6, <2>2, <3>1
  <2>4. i < j \/ i = j
    BY <1>2, <2>3
  <2> QED BY <1>2, <1>5, <2>2, <2>4
<1> HIDE DEF before
<1>9. L \in Seq(Range3) /\ Len(L) = k
  <2>1. L \in [1..k -> Range3]
    BY <1>3, <1>5, <1>6 DEF Range3
  <2>2. DOMAIN L = 1..k
    BY <1>3
  <2> QED BY <1>2, <2>1, <2>2
<1>10. \A i \in 1..k : L[i].stream = s /\ L[i].from = before(i) /\ L[i].to = a[i]
  BY <1>3
<1>11. Covered(Range(L)) = (b + 1)..r
  <2>1. ASSUME NEW p \in Covered(Range(L)) PROVE p \in (b + 1)..r
    <3>1. PICK l \in Range(L) : p \in (l.from + 1)..l.to
      BY <2>1 DEF Covered
    <3>2. PICK i \in 1..k : l = L[i]
      BY <1>3, <3>1 DEF Range
    <3>3. p \in (before(i) + 1)..a[i]
      BY <1>10, <3>1, <3>2
    <3> QED BY <1>1, <1>4, <1>5, <1>6, <3>3
  <2>2. ASSUME NEW p \in (b + 1)..r PROVE p \in Covered(Range(L))
    <3> DEFINE W == {i \in 1..k : p <= a[i]}
    <3>1. r # b /\ r \in N
      BY <1>1, <1>4, <2>2
    <3>2. PICK last \in 1..k : a[last] = r
      BY <1>2, <3>1
    <3>3. last \in W /\ W \in SUBSET Nat
      BY <2>2, <3>2
    <3>4. PICK i \in W : \A j \in W : i <= j
      BY <3>3, LeastExists
    <3>5. before(i) < p
      <4>1. CASE i = 1
        BY <1>4, <2>2, <4>1 DEF before
      <4>2. CASE i # 1
        <5>1. i - 1 \in 1..k /\ ~(i <= i - 1)
          BY <1>2, <4>2
        <5>2. i - 1 \notin W
          BY <3>4, <5>1
        <5> QED BY <1>1, <1>4, <1>5, <2>2, <4>2, <5>1, <5>2 DEF before
      <4> QED BY <4>1, <4>2
    <3>6. p \in (before(i) + 1)..a[i]
      BY <1>1, <1>4, <1>5, <1>6, <2>2, <3>4, <3>5
    <3>7. L[i] \in Range(L) /\ p \in (L[i].from + 1)..L[i].to
      BY <1>3, <1>10, <3>4, <3>6 DEF Range
    <3> QED BY <3>7 DEF Covered
  <2> QED BY <2>1, <2>2
<1>12. L = <<>> <=> r = b
  BY <1>0, <1>1, <1>2, <1>9
<1>13. \A i \in 1..k : L[i].to \in N
  BY <1>5, <1>10
<1>14. \A i, j \in 1..k : i < j => L[i].to <= L[j].from
  BY <1>7, <1>10
<1>15. \A i \in 1..k : L[i].from < L[i].to /\ b <= L[i].from
  BY <1>6, <1>10
<1>16. \A i \in 1..k : \A p \in (L[i].from + 1)..(L[i].to - 1) : p \notin N
  BY <1>8, <1>10
<1> QED BY <1>9, <1>10, <1>11, <1>12, <1>13, <1>14, <1>15, <1>16, Zenon DEF L, b, r, N

-----------------------------------------------------------------------------
(* Sequences of lines, frames and requests.                                *)

LEMMA RangeOf ==
  ASSUME NEW S, NEW q \in Seq(S)
  PROVE  /\ \A x : x \in Range(q) <=> \E i \in 1..Len(q) : q[i] = x
         /\ Range(q) \subseteq S
BY DEF Range

LEMMA Joined ==
  ASSUME NEW S, NEW q \in Seq(S), NEW r \in Seq(S)
  PROVE  /\ q \o r \in Seq(S) /\ Len(q \o r) = Len(q) + Len(r)
         /\ \A i \in 1..Len(q) : (q \o r)[i] = q[i]
         /\ \A i \in 1..Len(r) : (q \o r)[Len(q) + i] = r[i]
         /\ \A i \in 1..Len(q \o r) :
              i \in 1..Len(q) \/ \E j \in 1..Len(r) : i = Len(q) + j
         /\ Range(q \o r) = Range(q) \cup Range(r)
<1>1. q \o r \in Seq(S) /\ Len(q \o r) = Len(q) + Len(r)
  OBVIOUS
<1>2. \A i \in 1..Len(q) : (q \o r)[i] = q[i]
  OBVIOUS
<1>3. \A i \in 1..Len(r) : (q \o r)[Len(q) + i] = r[i]
  OBVIOUS
<1>4. ASSUME NEW i \in 1..Len(q \o r), i \notin 1..Len(q)
      PROVE  \E j \in 1..Len(r) : i = Len(q) + j
  <2>1. i - Len(q) \in 1..Len(r) /\ i = Len(q) + (i - Len(q))
    BY <1>1, <1>4
  <2> QED BY <2>1
<1>5. ASSUME NEW x PROVE x \in Range(q \o r) <=> x \in Range(q) \cup Range(r)
  <2> DEFINE w == q \o r
  <2>1. x \in Range(w) <=> \E i \in 1..Len(w) : w[i] = x
    BY <1>1, RangeOf
  <2>2. x \in Range(q) <=> \E i \in 1..Len(q) : q[i] = x
    BY RangeOf
  <2>3. x \in Range(r) <=> \E i \in 1..Len(r) : r[i] = x
    BY RangeOf
  <2>4. \A i \in 1..Len(q) : i \in 1..Len(w)
    BY <1>1
  <2>5. \A i \in 1..Len(r) : Len(q) + i \in 1..Len(w)
    BY <1>1
  <2> HIDE DEF w
  <2>6. ASSUME NEW i \in 1..Len(w), w[i] = x PROVE x \in Range(q) \cup Range(r)
    <3>1. CASE i \in 1..Len(q)
      BY <1>2, <2>2, <2>6, <3>1 DEF w
    <3>2. CASE i \notin 1..Len(q)
      BY <1>3, <1>4, <2>3, <2>6, <3>2 DEF w
    <3> QED BY <3>1, <3>2
  <2>7. x \in Range(q) => x \in Range(w)
    BY <1>2, <2>1, <2>2, <2>4 DEF w
  <2>8. x \in Range(r) => x \in Range(w)
    BY <1>3, <2>1, <2>3, <2>5 DEF w
  <2> QED BY <2>1, <2>6, <2>7, <2>8 DEF w
<1> QED BY <1>1, <1>2, <1>3, <1>4, <1>5

LEMMA Appended ==
  ASSUME NEW S, NEW q \in Seq(S), NEW e \in S
  PROVE  /\ Append(q, e) \in Seq(S) /\ Len(Append(q, e)) = Len(q) + 1
         /\ \A i \in 1..Len(q) : Append(q, e)[i] = q[i]
         /\ Append(q, e)[Len(q) + 1] = e
         /\ Range(Append(q, e)) = Range(q) \cup {e}
<1>1. /\ Append(q, e) \in Seq(S) /\ Len(Append(q, e)) = Len(q) + 1
      /\ \A i \in 1..Len(q) : Append(q, e)[i] = q[i]
      /\ Append(q, e)[Len(q) + 1] = e
  OBVIOUS
<1>2. ASSUME NEW x PROVE x \in Range(Append(q, e)) <=> x \in Range(q) \cup {e}
  <2> DEFINE w == Append(q, e)
  <2>1. x \in Range(w) <=> \E i \in 1..Len(w) : w[i] = x
    BY <1>1, RangeOf
  <2>2. x \in Range(q) <=> \E i \in 1..Len(q) : q[i] = x
    BY RangeOf
  <2>3. 1..Len(w) = 1..Len(q) \cup {Len(q) + 1}
    BY <1>1
  <2> QED BY <1>1, <2>1, <2>2, <2>3
<1> QED BY <1>1, <1>2

LEMMA Taken ==
  ASSUME NEW S, NEW q \in Seq(S), q # <<>>
  PROVE  /\ Head(q) \in S /\ Head(q) = q[1] /\ Len(q) \in Nat \ {0}
         /\ Tail(q) \in Seq(S) /\ Len(Tail(q)) = Len(q) - 1
         /\ \A i \in 1..Len(Tail(q)) : Tail(q)[i] = q[i + 1] /\ i + 1 \in 1..Len(q)
         /\ Range(q) = Range(Tail(q)) \cup {Head(q)}
<1>1. /\ Head(q) \in S /\ Head(q) = q[1] /\ Len(q) \in Nat \ {0}
      /\ Tail(q) \in Seq(S) /\ Len(Tail(q)) = Len(q) - 1
  OBVIOUS
<1>2. \A i \in 1..Len(Tail(q)) : Tail(q)[i] = q[i + 1] /\ i + 1 \in 1..Len(q)
  OBVIOUS
<1>3. ASSUME NEW x PROVE x \in Range(q) <=> x \in Range(Tail(q)) \cup {Head(q)}
  <2> DEFINE w == Tail(q)
  <2>0. w \in Seq(S)
    BY <1>1
  <2>1. x \in Range(w) <=> \E i \in 1..Len(w) : w[i] = x
    <3> HIDE DEF w
    <3> QED BY <2>0, RangeOf
  <2>2. x \in Range(q) <=> \E i \in 1..Len(q) : q[i] = x
    BY RangeOf
  <2>3. 1 \in 1..Len(q)
    BY <1>1
  <2>4. ASSUME NEW i \in 1..Len(q), i # 1 PROVE \E j \in 1..Len(w) : w[j] = q[i]
    <3>1. i - 1 \in 1..Len(w) /\ (i - 1) + 1 = i
      BY <1>1, <2>4
    <3> QED BY <1>2, <3>1
  <2> HIDE DEF w
  <2> QED BY <1>1, <1>2, <2>1, <2>2, <2>3, <2>4 DEF w
<1> QED BY <1>1, <1>2, <1>3

\* What was handed out and what is queued, when the head of the queue moves.
LEMMA Moved ==
  ASSUME NEW S, NEW d \in Seq(S), NEW q \in Seq(S), q # <<>>
  PROVE  Append(d, Head(q)) \o Tail(q) = d \o q
<1> DEFINE a == Append(d, Head(q)) \o Tail(q)
           b == d \o q
<1>1. a \in Seq(S) /\ b \in Seq(S)
  OBVIOUS
<1>2. Len(a) = Len(b)
  OBVIOUS
<1>3. ASSUME NEW i \in 1..Len(a) PROVE a[i] = b[i]
  OBVIOUS
<1> HIDE DEF a, b
<1>4. a = b
  BY <1>1, <1>2, <1>3, SeqEqual
<1> QED BY <1>4 DEF a, b

\* Each unfinished line is flushed, and once.
LEMMA FlushedOf ==
  ASSUME got \in [Streams -> Nat], start \in [Streams -> Nat]
  PROVE  /\ FlushedLines \in Seq(Range3)
         /\ \A i \in 1..Len(FlushedLines) :
              LET l == FlushedLines[i] IN
              l.stream \in Unfinished /\ l.from = start[l.stream] /\ l.to = got[l.stream]
         /\ \A i, j \in 1..Len(FlushedLines) :
              FlushedLines[i].stream = FlushedLines[j].stream => i = j
         /\ \A s \in Unfinished : \E i \in 1..Len(FlushedLines) : FlushedLines[i].stream = s
<1> DEFINE o == InOrder(Unfinished)
           n == Len(o)
           F == FlushedLines
<1>1. Unfinished \in SUBSET Streams
  BY DEF Unfinished
<1>2. /\ o \in Seq(Unfinished)
      /\ \A i, j \in 1..n : o[i] = o[j] => i = j
      /\ \A s \in Unfinished : \E i \in 1..n : o[i] = s
  BY <1>1, InOrderLists
<1>3. F = [i \in 1..n |-> [stream |-> o[i], from |-> start[o[i]], to |-> got[o[i]]]]
  BY DEF FlushedLines
<1>4. n \in Nat /\ \A i \in 1..n : o[i] \in Unfinished /\ o[i] \in Streams
  BY <1>1, <1>2
<1> HIDE DEF o, n, F
<1>5. F \in [1..n -> Range3]
  BY <1>3, <1>4 DEF Range3
<1>6. F \in Seq(Range3) /\ Len(F) = n
  <2>1. DOMAIN F = 1..n
    BY <1>3
  <2> QED BY <1>4, <1>5, <2>1
<1>7. \A i \in 1..n : F[i].stream = o[i] /\ F[i].from = start[o[i]] /\ F[i].to = got[o[i]]
  BY <1>3
<1>8. \A i \in 1..Len(F) :
        F[i].stream \in Unfinished /\ F[i].from = start[F[i].stream]
        /\ F[i].to = got[F[i].stream]
  BY <1>4, <1>6, <1>7
<1>9. ASSUME NEW i \in 1..Len(F), NEW j \in 1..Len(F), F[i].stream = F[j].stream
      PROVE  i = j
  <2>1. i \in 1..n /\ j \in 1..n
    BY <1>6
  <2>2. o[i] = o[j]
    BY <1>7, <1>9, <2>1
  <2> QED
    BY <1>2, <2>1, <2>2
<1>10. ASSUME NEW s \in Unfinished PROVE \E i \in 1..Len(F) : F[i].stream = s
  <2>1. PICK i \in 1..n : o[i] = s
    BY <1>2
  <2>2. i \in 1..Len(F) /\ F[i].stream = s
    BY <1>6, <1>7, <2>1
  <2> QED BY <2>2
<1> QED BY <1>6, <1>8, <1>9, <1>10 DEF F

-----------------------------------------------------------------------------
(* The invariant.                                                          *)

Frames ==
  [kind : {"data"}, stream : Streams, from : Nat, to : Nat]
    \cup [kind : {"exit"}, truncated : BOOLEAN] \cup [kind : {"exit_status"}]
Requests == [kind : {"credit"}, stream : Streams, bytes : Nat] \cup [kind : {"kill"}]
Waiters == [caller : Callers, ref : 1..MaxCalls, timer : {"off", "armed", "fired"}]
Shims == {"loop", "kill", "drain", "cut", "linger", "gone"}

\* The types, by who keeps the state; they say of the sequences what TypeOK
\* says of their elements.
ChildTypes ==
  script \in [Streams -> Seq({"x", "n"})] /\ script \in Scripts
  /\ child \in {"run", "exited"} /\ written \in [Streams -> Nat]
ShimTypes ==
  read \in [Streams -> Nat] /\ avail \in [Streams -> Nat]
  /\ eof \in SUBSET Streams /\ shim \in Shims
WireTypes ==
  toBeam \in Seq(Frames) /\ toShim \in Seq(Requests) /\ port \in {"open", "closed"}
ServerTypes ==
  /\ server \in {"up", "settling", "down"} /\ exit \in {"none", "exited", "lost"}
  /\ limit \in BOOLEAN
  /\ reported \in Terminals \cup {NoTerminal} /\ terminal \in Terminals \cup {NoTerminal}
LineTypes ==
  /\ got \in [Streams -> Nat] /\ start \in [Streams -> Nat]
  /\ outstanding \in [Streams -> 0..MaxPending] /\ queue \in Seq(Range3)
RecvTypes == waiter \in Waiters \cup {NoWaiter} /\ late \in SUBSET (1..MaxCalls)
CallTypes ==
  /\ call \in [Callers -> {"idle", "sent", "held"}]
  /\ ticket \in [Callers -> 0..MaxCalls] /\ calls \in 0..MaxCalls
  /\ answer \in [Callers -> Answers] /\ delivered \in Seq(Range3)
Types ==
  ChildTypes /\ ShimTypes /\ WireTypes /\ ServerTypes /\ LineTypes /\ RecvTypes /\ CallTypes

\* A call has a ticket of its own, and what the timers sent is of past calls,
\* none of them patient.
TicketInv ==
  /\ \A c \in Callers : ticket[c] <= calls /\ (call[c] # "idle" => ticket[c] > 0)
  /\ \A c, d \in Callers : ticket[c] = ticket[d] /\ c # d => ticket[c] = 0
  /\ \A r \in late : r <= calls
  /\ \A c \in Patient : ticket[c] \notin late

\* A recv is held only while there is nothing to answer it with.
WaiterInv ==
  Up /\ waiter # NoWaiter =>
    /\ waiter.ref = ticket[waiter.caller]
    /\ (waiter.timer = "off" <=> waiter.caller \in Patient)
    /\ queue = <<>> /\ exit = "none"

\* Evidence of the end is recorded with the end and published with the stop.
EvidenceInv ==
  /\ Up => limit = FALSE
  /\ server # "down" => \A c \in Callers : answer[c].kind # "done"
  /\ server = "settling" => exit = "none"
  /\ (server = "down" => terminal \in Terminals)
  /\ exit = "exited" => reported = Evidence("exit", "complete")
  /\ exit = "lost" => reported = Evidence("nil", "unknown")

\* Nobody is ahead of who comes before him, and a pump at the end of its file
\* has forwarded it all.
OutputInv ==
  /\ \A s \in Streams : /\ start[s] <= got[s] /\ got[s] <= read[s]
                        /\ read[s] <= written[s] /\ written[s] <= Len(script[s])
  /\ \A s \in eof : child = "exited" /\ read[s] = written[s]

\* While the session serves, the shim was not told to kill, and what it says
\* of the end comes after everything else.
EndInv ==
  Up =>
    /\ shim \in {"loop", "drain", "linger", "gone"}
    /\ \A i \in 1..Len(toShim) : toShim[i].kind # "kill"
    /\ shim = "linger" => eof = Streams
    /\ exit # "none" => start = got
    /\ exit = "exited" => shim \in {"linger", "gone"} /\ eof = Streams /\ got = read
    /\ exit = "lost" => shim = "gone"
EndFramesInv ==
  Up =>
    /\ \A i \in 1..Len(toBeam) :
         /\ toBeam[i].kind = "exit" => ~toBeam[i].truncated /\ eof = Streams
                                       /\ shim \in {"linger", "gone"} /\ exit = "none"
         /\ toBeam[i].kind = "exit_status" => shim = "gone" /\ i = Len(toBeam) /\ exit # "lost"
         /\ toBeam[i].kind = "data" => exit = "none"
    /\ \A i, j \in 1..Len(toBeam) :
         i < j /\ toBeam[i].kind = "exit" => toBeam[j].kind = "exit_status"

FramesIn(q, s) == {m \in Range(q) : m.kind = "data" /\ m.stream = s}

\* The data frames of q are not empty, and those of a stream are in order.
InSequence(q) ==
  /\ \A i \in 1..Len(q) : q[i].kind = "data" => q[i].from < q[i].to
  /\ \A i, j \in 1..Len(q) :
       i < j /\ q[i].kind = "data" /\ q[j].kind = "data" /\ q[i].stream = q[j].stream
         => q[i].to <= q[j].from

\* While the session serves, the wire holds what was read and not received,
\* in order.
DataInv ==
  Up => InSequence(toBeam)
        /\ \A s \in Streams : Covered(FramesIn(toBeam, s)) = (got[s] + 1)..read[s]

Consistent == StopsWhenDrained /\ HeldCallIsWaiter /\ AnswersAgree

Core ==
  /\ Types /\ TicketInv /\ WaiterInv /\ EvidenceInv /\ OutputInv
  /\ EndInv /\ EndFramesInv /\ DataInv /\ Consistent

LEMMA TypesAreRight ==
  ASSUME Types PROVE TypeOK
<1> USE DEF Types, ChildTypes, ShimTypes, WireTypes, ServerTypes, LineTypes, RecvTypes,
            CallTypes
<1>1. \A f \in {written, read, avail, got, start} : f \in [Streams -> Nat]
  OBVIOUS
<1>2. Range(queue) \cup Range(delivered) \subseteq Range3
  BY RangeOf
<1>3. limit \in BOOLEAN
  BY Zenon
<1>4. {reported, terminal} \subseteq Terminals \cup {NoTerminal}
  BY Zenon
<1> QED BY <1>1, <1>2, <1>3, <1>4 DEF TypeOK, Shims

LEMMA CoreInit ==
  ASSUME Init PROVE Core
<1> USE DEF Init
<1>1. Types
  <2>1. ChildTypes
    BY ScriptAssumption DEF ChildTypes, Zero
  <2>2. ShimTypes /\ WireTypes
    BY DEF ShimTypes, WireTypes, Zero, Shims
  <2>3. ServerTypes
    BY DEF ServerTypes
  <2>4. LineTypes
    BY WindowAssumption DEF LineTypes, Zero
  <2>5. RecvTypes
    BY DEF RecvTypes
  <2>6. CallTypes
    <3>1. answer \in [Callers -> Answers]
      BY DEF Answers
    <3> QED BY <3>1, CallAssumption DEF CallTypes
  <2> QED BY <2>1, <2>2, <2>3, <2>4, <2>5, <2>6 DEF Types
<1>2. TicketInv /\ WaiterInv /\ Consistent
  BY CallAssumption DEF TicketInv, WaiterInv, Consistent, StopsWhenDrained, HeldCallIsWaiter,
                        AnswersAgree
<1>3. EvidenceInv
  BY DEF EvidenceInv
<1>4. OutputInv
  BY <1>1 DEF OutputInv, Zero, Types, ChildTypes
<1>5. EndInv /\ EndFramesInv
  BY DEF EndInv, EndFramesInv
<1>6. DataInv
  <2>1. \A s \in Streams : FramesIn(toBeam, s) = {}
    BY DEF FramesIn, Range
  <2>2. Covered({}) = {}
    BY DEF Covered
  <2>3. \A s \in Streams : (got[s] + 1)..read[s] = {}
    BY DEF Zero
  <2>4. Len(toBeam) = 0
    OBVIOUS
  <2>5. \A s \in Streams : Covered(FramesIn(toBeam, s)) = (got[s] + 1)..read[s]
    BY <2>1, <2>2, <2>3, Zenon
  <2> HIDE DEF Init
  <2> QED BY <2>4, <2>5 DEF DataInv, InSequence
<1> QED BY <1>1, <1>2, <1>3, <1>4, <1>5, <1>6 DEF Core

-----------------------------------------------------------------------------
(* What the head of the wire is.                                           *)

LEMMA HeadFrame ==
  ASSUME Types, toBeam # <<>>
  PROVE  /\ Head(toBeam) \in Frames /\ Head(toBeam) = toBeam[1] /\ 1 \in 1..Len(toBeam)
         /\ Tail(toBeam) \in Seq(Frames) /\ Len(Tail(toBeam)) = Len(toBeam) - 1
         /\ \A i \in 1..Len(Tail(toBeam)) :
              Tail(toBeam)[i] = toBeam[i + 1] /\ i + 1 \in 1..Len(toBeam)
         /\ Head(toBeam).kind = "data" =>
              Head(toBeam).stream \in Streams /\ Head(toBeam).from \in Nat
              /\ Head(toBeam).to \in Nat
         /\ Head(toBeam).kind = "exit" => Head(toBeam).truncated \in BOOLEAN
<1>1. toBeam \in Seq(Frames)
  BY DEF Types, WireTypes
<1>2. /\ Head(toBeam) \in Frames /\ Head(toBeam) = toBeam[1] /\ 1 \in 1..Len(toBeam)
      /\ Tail(toBeam) \in Seq(Frames) /\ Len(Tail(toBeam)) = Len(toBeam) - 1
      /\ \A i \in 1..Len(Tail(toBeam)) :
           Tail(toBeam)[i] = toBeam[i + 1] /\ i + 1 \in 1..Len(toBeam)
  BY <1>1, Taken
<1>3. ASSUME NEW m \in Frames
      PROVE  /\ m.kind = "data" => m.stream \in Streams /\ m.from \in Nat /\ m.to \in Nat
             /\ m.kind = "exit" => m.truncated \in BOOLEAN
  BY DEF Frames
<1> QED BY <1>2, <1>3

LEMMA DataFrameTypes ==
  ASSUME NEW q \in Seq(Frames), NEW i \in 1..Len(q), q[i].kind = "data"
  PROVE  q[i].stream \in Streams /\ q[i].from \in Nat /\ q[i].to \in Nat
<1>1. q[i] \in Frames
  OBVIOUS
<1> QED BY <1>1 DEF Frames

\* The frame at the head starts with the first byte not yet received.
LEMMA HeadIsNext ==
  ASSUME Core, Up, Arrived("data")
  PROVE  LET m == Head(toBeam) IN
         /\ m.stream \in Streams /\ m.to \in Nat
         /\ m.from = got[m.stream] /\ m.from < m.to /\ m.to <= read[m.stream]
         /\ exit = "none"
<1> DEFINE m == Head(toBeam)
           s == m.stream
<1>1. /\ toBeam # <<>> /\ m.kind = "data"
      /\ m = toBeam[1] /\ 1 \in 1..Len(toBeam)
      /\ s \in Streams /\ m.from \in Nat /\ m.to \in Nat
  BY HeadFrame DEF Arrived, Core
<1>2. m.from < m.to /\ exit = "none"
  BY <1>1 DEF Core, DataInv, InSequence, EndFramesInv
<1>3. got[s] \in Nat /\ read[s] \in Nat
  BY <1>1 DEF Core, Types, LineTypes, ShimTypes
<1>4. Covered(FramesIn(toBeam, s)) = (got[s] + 1)..read[s]
  BY <1>1 DEF Core, DataInv
<1>5. \A l : l \in FramesIn(toBeam, s) <=>
        \E i \in 1..Len(toBeam) : l = toBeam[i] /\ l.kind = "data" /\ l.stream = s
  <2>1. toBeam \in Seq(Frames)
    BY DEF Core, Types, WireTypes
  <2>2. \A x : x \in Range(toBeam) <=> \E i \in 1..Len(toBeam) : toBeam[i] = x
    BY <2>1, RangeOf
  <2> HIDE DEF m, s
  <2> QED BY <2>2 DEF FramesIn
<1>6. m \in FramesIn(toBeam, s)
  BY <1>1, <1>5
<1>7. m.to \in Covered(FramesIn(toBeam, s)) /\ m.from + 1 \in Covered(FramesIn(toBeam, s))
  <2>1. m.to \in (m.from + 1)..m.to /\ m.from + 1 \in (m.from + 1)..m.to
    BY <1>1, <1>2
  <2> HIDE DEF m, s
  <2> QED BY <1>6, <2>1 DEF Covered
<1>8. m.to <= read[s] /\ got[s] <= m.from /\ got[s] < m.to
  BY <1>1, <1>2, <1>3, <1>4, <1>7
<1>9. ~(got[s] < m.from)
  <2> SUFFICES ASSUME got[s] < m.from PROVE FALSE
    OBVIOUS
  <2>1. got[s] + 1 \in Covered(FramesIn(toBeam, s))
    BY <1>1, <1>3, <1>4, <1>8
  <2>2. PICK l \in FramesIn(toBeam, s) : got[s] + 1 \in (l.from + 1)..l.to
    <3> HIDE DEF m, s
    <3> QED BY <2>1 DEF Covered
  <2>3. PICK i \in 1..Len(toBeam) : l = toBeam[i] /\ l.kind = "data" /\ l.stream = s
    BY <1>5, <2>2
  <2>4. l.from \in Nat /\ l.to \in Nat
    <3>1. toBeam \in Seq(Frames)
      BY DEF Core, Types, WireTypes
    <3> HIDE DEF m, s
    <3> QED BY <2>3, <3>1, DataFrameTypes
  <2>5. l.from < m.from
    BY <1>1, <1>3, <2>2, <2>4
  <2>6. i # 1
    BY <1>1, <2>3, <2>5
  <2>7. m.to <= l.from
    <3>1. 1 < i
      BY <1>1, <2>6
    <3> HIDE DEF s
    <3> QED BY <1>1, <2>3, <3>1 DEF Core, DataInv, InSequence, s
  <2> QED BY <1>1, <1>2, <2>4, <2>5, <2>7
<1>10. m.from = got[s]
  BY <1>1, <1>3, <1>8, <1>9
<1> QED BY <1>1, <1>2, <1>8, <1>10

-----------------------------------------------------------------------------
(* Types.                                                                  *)

LEMMA ReplyTypes ==
  ASSUME CallTypes, NEW c \in Callers, NEW a \in Answers, Reply(c, a)
  PROVE  /\ call' \in [Callers -> {"idle", "sent", "held"}]
         /\ answer' \in [Callers -> Answers]
BY DEF Reply, CallTypes

LEMMA AnswerTypes ==
  /\ Line \in Answers /\ Timeout \in Answers /\ Busy \in Answers
  /\ \A t \in Terminals : Done(t) \in Answers /\ t # NoTerminal
  /\ \A x \in {"complete", "truncated"} : Evidence("exit", x) \in Terminals
  /\ Evidence("nil", "unknown") \in Terminals
  /\ \A b : OutputEvidence(b) \in {"complete", "truncated"}
<1>1. Line \in Answers /\ Timeout \in Answers /\ Busy \in Answers
  BY DEF Line, Timeout, Busy, Answers
<1>2. \A t \in Terminals : Done(t) \in Answers
  BY DEF Done, Answers
<1>3. \A t \in Terminals : t # NoTerminal
  BY DEF Terminals, NoTerminal
<1>4. \A x \in {"complete", "truncated"} : Evidence("exit", x) \in Terminals
  BY DEF Evidence, Terminals
<1>5. Evidence("nil", "unknown") \in Terminals
  BY DEF Evidence, Terminals
<1>6. \A b : OutputEvidence(b) \in {"complete", "truncated"}
  BY DEF OutputEvidence
<1> QED BY <1>1, <1>2, <1>3, <1>4, <1>5, <1>6

LEMMA FinishTypes ==
  ASSUME NEW t \in Terminals, NEW held
  PROVE  FinishOutput(t, held) \in Terminals
BY DEF FinishOutput, Terminals

\* What publishing leaves behind.
LEMMA PublishTypes ==
  ASSUME NEW t \in Terminals, NEW held, Publish(t, held)
  PROVE  /\ server' = "down" /\ port' = "closed" /\ toBeam' = <<>> /\ late' = {}
         /\ terminal' \in Terminals
BY FinishTypes DEF Publish

LEMMA DeliverTypes ==
  ASSUME CallTypes, NEW c \in Callers, NEW q \in Seq(Range3), q # <<>>, Deliver(c, q)
  PROVE  /\ call' \in [Callers -> {"idle", "sent", "held"}]
         /\ answer' \in [Callers -> Answers]
         /\ delivered' \in Seq(Range3) /\ queue' \in Seq(Range3)
<1>1. Reply(c, Line) /\ delivered' = Append(delivered, Head(q)) /\ queue' = Tail(q)
  BY DEF Deliver
<1>2. delivered' \in Seq(Range3) /\ queue' \in Seq(Range3)
  BY <1>1, Taken, Appended DEF CallTypes
<1> QED BY <1>1, <1>2, AnswerTypes, ReplyTypes

LEMMA ServeTypes ==
  ASSUME CallTypes, RecvTypes, NEW q \in Seq(Range3), ServeWaiter(q)
  PROVE  /\ call' \in [Callers -> {"idle", "sent", "held"}]
         /\ answer' \in [Callers -> Answers]
         /\ delivered' \in Seq(Range3) /\ queue' \in Seq(Range3)
         /\ waiter' \in Waiters \cup {NoWaiter}
<1>1. CASE waiter # NoWaiter /\ q # <<>>
  <2>1. waiter.caller \in Callers
    BY <1>1 DEF RecvTypes, Waiters
  <2>2. Deliver(waiter.caller, q) /\ waiter' = NoWaiter
    BY <1>1 DEF ServeWaiter
  <2> QED BY <1>1, <2>1, <2>2, DeliverTypes
<1>2. CASE ~(waiter # NoWaiter /\ q # <<>>)
  BY <1>2 DEF ServeWaiter, CallTypes, RecvTypes
<1> QED BY <1>1, <1>2

LEMMA GrantsTypes ==
  ASSUME outstanding \in [Streams -> 0..MaxPending]
  PROVE  Grants \in Seq(Requests) /\ \A i \in 1..Len(Grants) : Grants[i].kind = "credit"
<1> DEFINE o == InOrder({s \in Streams : outstanding[s] < MaxPending})
<1>1. o \in Seq(Streams)
  <2>1. o \in Seq({s \in Streams : outstanding[s] < MaxPending})
    BY InOrderLists
  <2> HIDE DEF o
  <2> QED BY <2>1
<1>2. \A i \in 1..Len(o) : o[i] \in Streams /\ MaxPending - outstanding[o[i]] \in Nat
  <2> HIDE DEF o
  <2> QED BY <1>1, WindowAssumption
<1>3. Grants = [i \in 1..Len(o) |-> [kind |-> "credit", stream |-> o[i],
                                     bytes |-> MaxPending - outstanding[o[i]]]]
  BY DEF Grants
<1> HIDE DEF o
<1>4. Len(o) \in Nat /\ DOMAIN Grants = 1..Len(o)
  BY <1>1, <1>3
<1>5. Grants \in [1..Len(o) -> Requests]
  BY <1>2, <1>3 DEF Requests
<1>6. \A i \in 1..Len(o) : Grants[i].kind = "credit"
  BY <1>3
<1> QED BY <1>4, <1>5, <1>6

\* What recording the end does, with the evidence t.
LEMMA EndedTypes ==
  ASSUME Core, NEW ex \in {"exited", "lost"}, NEW t \in Terminals, toBeam # <<>>, Ended(ex, t)
  PROVE  Types'
<1> DEFINE q == queue \o FlushedLines
<1>1. q \in Seq(Range3)
  <2>1. FlushedLines \in Seq(Range3)
    BY FlushedOf DEF Core, Types, LineTypes
  <2> QED BY <2>1, Joined DEF Core, Types, LineTypes
<1> HIDE DEF q
<1>2. /\ exit' = ex /\ reported' = t /\ start' = got /\ limit' = limit
      /\ UNCHANGED <<childVars, shimVars, toShim, got, outstanding, ticket, calls>>
  BY DEF Ended
<1>3. /\ call' \in [Callers -> {"idle", "sent", "held"}]
      /\ answer' \in [Callers -> Answers]
      /\ delivered' \in Seq(Range3) /\ queue' \in Seq(Range3)
      /\ waiter' \in Waiters \cup {NoWaiter}
  <2>1. CASE waiter # NoWaiter /\ q = <<>>
    <3>1. Reply(waiter.caller, Done(t)) /\ waiter' = NoWaiter /\ UNCHANGED <<queue, delivered>>
      BY <2>1 DEF Ended, q
    <3>2. waiter.caller \in Callers
      BY <2>1 DEF Core, Types, RecvTypes, Waiters
    <3> QED BY <3>1, <3>2, AnswerTypes, ReplyTypes DEF Core, Types, CallTypes, LineTypes
  <2>2. CASE ~(waiter # NoWaiter /\ q = <<>>)
    <3>1. ServeWaiter(q)
      BY <2>2 DEF Ended, q
    <3> QED BY <1>1, <3>1, ServeTypes DEF Core, Types
  <2> QED BY <2>1, <2>2
<1>4. ChildTypes' /\ ShimTypes'
  BY <1>2 DEF Core, Types, ChildTypes, ShimTypes, childVars, shimVars
<1>5. LineTypes' /\ CallTypes'
  BY <1>2, <1>3 DEF Core, Types, LineTypes, CallTypes
<1>6. WireTypes' /\ ServerTypes' /\ RecvTypes'
  <2>1. CASE queue' = <<>>
    <3>1. Publish(t, FALSE)
      BY <2>1 DEF Ended
    <3>2. /\ server' = "down" /\ port' = "closed" /\ toBeam' = <<>> /\ late' = {}
          /\ terminal' \in Terminals
      BY <3>1, PublishTypes, Zenon
    <3>3. WireTypes' /\ RecvTypes'
      BY <1>2, <1>3, <3>2 DEF Core, Types, WireTypes, RecvTypes
    <3>4. ServerTypes'
      BY <1>2, <3>2 DEF Core, Types, ServerTypes
    <3> QED BY <3>3, <3>4
  <2>2. CASE queue' # <<>>
    <3>1. toBeam' = Tail(toBeam) /\ UNCHANGED <<server, port, terminal, late>>
      BY <2>2 DEF Ended
    <3> QED BY <1>2, <1>3, <3>1, HeadFrame DEF Core, Types, WireTypes, ServerTypes, RecvTypes
  <2> QED BY <2>1, <2>2
<1> QED BY <1>4, <1>5, <1>6 DEF Types

LEMMA ArrivesTypes ==
  ASSUME Core, DataArrives
  PROVE  Types'
<1>1. PICK m : m = Head(toBeam)
  OBVIOUS
<1>2. /\ Up /\ Arrived("data") /\ toBeam' = Tail(toBeam)
      /\ got' = [got EXCEPT ![m.stream] = m.to]
      /\ start' = [start EXCEPT ![m.stream] = RestFrom(m.stream, m.to)]
      /\ outstanding' = [outstanding EXCEPT ![m.stream] =
                           IF @ > m.to - m.from THEN @ - (m.to - m.from) ELSE 0]
      /\ ServeWaiter(queue \o LinesOf(m.stream, m.to))
      /\ UNCHANGED <<childVars, shimVars, toShim, port, serverVars, late, ticket, calls>>
  BY <1>1 DEF DataArrives
<1>3. /\ m.stream \in Streams /\ m.to \in Nat
      /\ m.from = got[m.stream] /\ m.from < m.to
  BY <1>1, <1>2, HeadIsNext
<1>4. start[m.stream] \in Nat /\ start[m.stream] <= m.to /\ m.from \in Nat
  BY <1>3 DEF Core, OutputInv, Types, LineTypes
<1>5. RestFrom(m.stream, m.to) \in Nat
  BY <1>3, <1>4, RestOf
<1>6. queue \o LinesOf(m.stream, m.to) \in Seq(Range3)
  <2>1. LinesOf(m.stream, m.to) \in Seq(Range3)
    BY <1>3, <1>4, LinesOfFrame
  <2> QED BY <2>1, Joined DEF Core, Types, LineTypes
<1>7. /\ call' \in [Callers -> {"idle", "sent", "held"}]
      /\ answer' \in [Callers -> Answers]
      /\ delivered' \in Seq(Range3) /\ queue' \in Seq(Range3)
      /\ waiter' \in Waiters \cup {NoWaiter}
  BY <1>2, <1>6, ServeTypes DEF Core, Types
<1>8. toBeam' \in Seq(Frames)
  BY <1>2, HeadFrame DEF Core, Arrived
<1>9. outstanding' \in [Streams -> 0..MaxPending]
  <2>1. outstanding \in [Streams -> 0..MaxPending]
    BY DEF Core, Types, LineTypes
  <2> QED BY <1>2, <1>3, <1>4, <2>1, WindowAssumption
<1>10. ChildTypes' /\ ShimTypes'
  BY <1>2 DEF Core, Types, ChildTypes, ShimTypes, childVars, shimVars
<1>11. WireTypes' /\ RecvTypes'
  BY <1>2, <1>7, <1>8 DEF Core, Types, WireTypes, RecvTypes
<1>12. ServerTypes'
  BY <1>2, Zenon DEF Core, Types, ServerTypes, serverVars
<1>13. LineTypes' /\ CallTypes'
  BY <1>2, <1>3, <1>5, <1>7, <1>9 DEF Core, Types, LineTypes, CallTypes
<1> QED BY <1>10, <1>11, <1>12, <1>13 DEF Types

LEMMA ChildStepTypes ==
  ASSUME Core, Child PROVE Types'
<1>1. UNCHANGED <<script, shimVars, wireVars, serverVars, lineVars, recvVars, callVars>>
  BY DEF Child, ChildExit, ChildWrite, childVars
<1>2. ChildTypes'
  <2>1. CASE ChildExit
    BY <2>1 DEF ChildExit, Core, Types, ChildTypes
  <2>2. ASSUME NEW s \in Streams, ChildWrite(s) PROVE ChildTypes'
    BY <2>2 DEF ChildWrite, Core, Types, ChildTypes
  <2> QED BY <2>1, <2>2 DEF Child
<1>3. ShimTypes' /\ WireTypes' /\ LineTypes' /\ RecvTypes' /\ CallTypes'
  BY <1>1 DEF Core, Types, ShimTypes, WireTypes, LineTypes, RecvTypes, CallTypes,
              shimVars, wireVars, lineVars, recvVars, callVars
<1>4. ServerTypes'
  BY <1>1, Zenon DEF Core, Types, ServerTypes, serverVars
<1> QED BY <1>2, <1>3, <1>4 DEF Types

LEMMA ShimStepTypes ==
  ASSUME Core, Shim \/ ShimCrash PROVE Types'
<1>1. UNCHANGED <<script, written, serverVars, lineVars, recvVars, callVars>>
  BY DEF Shim, ShimCrash, ShimCredit, ShimKill, ShimReap, ShimDrained, ShimCut, ShimLeft,
         PumpEof, PumpForward, WriteExit, childVars
<1>2. LineTypes' /\ RecvTypes' /\ CallTypes'
  BY <1>1 DEF Core, Types, LineTypes, RecvTypes, CallTypes, lineVars, recvVars, callVars
<1>3. ServerTypes'
  BY <1>1, Zenon DEF Core, Types, ServerTypes, serverVars
<1>4. ChildTypes'
  <2>1. child' = child \/ child' = "exited"
    BY DEF Shim, ShimCrash, ShimCredit, ShimKill, ShimReap, ShimDrained, ShimCut, ShimLeft,
           PumpEof, PumpForward, WriteExit, childVars
  <2> QED BY <1>1, <2>1 DEF Core, Types, ChildTypes
<1>5. ShimTypes' /\ WireTypes'
  <2>0. ShimTypes /\ WireTypes
    BY DEF Core, Types
  <2>1. CASE ShimCredit
    <3>1. Head(toShim) \in Requests /\ Tail(toShim) \in Seq(Requests)
          /\ Head(toShim).kind = "credit" /\ toShim' = Tail(toShim)
      BY <2>0, <2>1, Taken DEF ShimCredit, WireTypes
    <3>2. Head(toShim).stream \in Streams /\ Head(toShim).bytes \in Nat
      BY <3>1 DEF Requests
    <3>3. avail' \in [Streams -> Nat]
      BY <2>0, <2>1, <3>2 DEF ShimCredit, ShimTypes
    <3> QED BY <2>0, <2>1, <3>1, <3>3 DEF ShimCredit, ShimTypes, WireTypes
  <2>2. ASSUME Cancel PROVE avail' \in [Streams -> Nat]
    BY <2>0, <2>2 DEF Cancel, ShimTypes
  <2>3. CASE ShimKill
    <3>1. Tail(toShim) \in Seq(Requests) /\ toShim' = Tail(toShim)
      BY <2>0, <2>3, Taken DEF ShimKill, WireTypes
    <3>2. avail' \in [Streams -> Nat]
      BY <2>0, <2>2, <2>3 DEF ShimKill, ShimTypes
    <3>3. shim' \in Shims
      BY <2>0, <2>3 DEF ShimKill, ShimTypes, Shims
    <3> QED BY <2>0, <2>3, <3>1, <3>2, <3>3 DEF ShimKill, ShimTypes, WireTypes
  <2>4. CASE ShimReap
    <3>2. avail' \in [Streams -> Nat]
      BY <2>0, <2>2, <2>4 DEF ShimReap, ShimTypes
    <3>3. shim' \in Shims
      BY <2>0, <2>4 DEF ShimReap, ShimTypes, Shims
    <3> QED BY <2>0, <2>4, <3>2, <3>3 DEF ShimReap, ShimTypes, WireTypes, wireVars
  <2>5. ASSUME NEW b \in BOOLEAN, WriteExit(b) PROVE ShimTypes' /\ WireTypes'
    <3>1. [kind |-> "exit", truncated |-> b] \in Frames
      BY DEF Frames
    <3>2. toBeam' \in Seq(Frames)
      BY <2>0, <2>5, <3>1, Appended DEF WriteExit, WireTypes
    <3> QED BY <2>0, <2>5, <3>2 DEF WriteExit, ShimTypes, WireTypes, Shims
  <2>6. CASE ShimLeft
    BY <2>0, <2>6 DEF ShimLeft, ShimTypes, WireTypes, Shims, wireVars
  <2>7. CASE ShimCrash
    <3>1. [kind |-> "exit_status"] \in Frames
      BY DEF Frames
    <3>2. toBeam' \in Seq(Frames)
      BY <2>0, <2>7, <3>1, Appended DEF ShimCrash, WireTypes
    <3> QED BY <2>0, <2>7, <3>2 DEF ShimCrash, ShimTypes, WireTypes, Shims
  <2>8. ASSUME NEW s \in Streams, PumpEof(s) PROVE ShimTypes' /\ WireTypes'
    BY <2>0, <2>8 DEF PumpEof, ShimTypes, WireTypes, wireVars
  <2>9. ASSUME NEW s \in Streams, NEW k \in 1..FrameMax, PumpForward(s, k)
        PROVE  ShimTypes' /\ WireTypes'
    <3>0. k \in Nat
      BY LimitAssumption
    <3>1. [kind |-> "data", stream |-> s, from |-> read[s], to |-> read[s] + k] \in Frames
      BY <2>0, <3>0 DEF Frames, ShimTypes
    <3>2. toBeam' \in Seq(Frames)
      BY <2>0, <2>9, <3>1, Appended DEF PumpForward, WireTypes
    <3>3. read' \in [Streams -> Nat] /\ avail' \in [Streams -> Nat]
      BY <2>0, <2>9, <3>0 DEF PumpForward, ShimTypes
    <3> QED BY <2>0, <2>9, <3>2, <3>3 DEF PumpForward, ShimTypes, WireTypes
  <2> QED BY <2>1, <2>3, <2>4, <2>5, <2>6, <2>7, <2>8, <2>9 DEF Shim, ShimDrained, ShimCut
<1> QED BY <1>2, <1>3, <1>4, <1>5 DEF Types

\* The steps of a call that is answered, and of one that is made.
LEMMA CallStepTypes ==
  ASSUME Core,
         \/ \E c \in Callers : RecvBusy(c) \/ TerminalReply(c) \/ RecvCall(c) \/ RecvHold(c)
         \/ TimerFire \/ \E r \in late : RecvTimeout(r)
  PROVE  Types'
<1>0. /\ ChildTypes /\ ShimTypes /\ WireTypes /\ ServerTypes /\ LineTypes /\ RecvTypes
      /\ CallTypes
  BY DEF Core, Types
<1>1. UNCHANGED <<childVars, shimVars, toBeam, port, serverVars, got, start, queue, delivered>>
  BY DEF RecvBusy, TerminalReply, RecvCall, RecvHold, TimerFire, RecvTimeout, wireVars,
         lineVars, callVars, Reply
<1>2. ChildTypes' /\ ShimTypes'
  BY <1>0, <1>1 DEF ChildTypes, ShimTypes, childVars, shimVars
<1>3. ServerTypes'
  BY <1>0, <1>1, Zenon DEF ServerTypes, serverVars
<1>4. ASSUME NEW c \in Callers, RecvBusy(c) \/ TerminalReply(c) \/ RecvCall(c)
      PROVE  WireTypes' /\ LineTypes' /\ RecvTypes' /\ CallTypes'
  <2>1. UNCHANGED <<wireVars, lineVars, recvVars, delivered>>
    BY <1>4 DEF RecvBusy, TerminalReply, RecvCall
  <2>2. CallTypes'
    <3>1. CASE RecvBusy(c)
      <4>1. Reply(c, Busy) /\ UNCHANGED <<ticket, calls, delivered>>
        BY <3>1 DEF RecvBusy
      <4> QED BY <1>0, <4>1, AnswerTypes, ReplyTypes DEF CallTypes
    <3>2. CASE TerminalReply(c)
      <4>1. Reply(c, Done(terminal)) /\ UNCHANGED <<ticket, calls, delivered>> /\ server = "down"
        BY <3>2 DEF TerminalReply
      <4>2. Done(terminal) \in Answers
        BY <4>1, AnswerTypes DEF Core, EvidenceInv
      <4> QED BY <1>0, <4>1, <4>2, ReplyTypes DEF CallTypes
    <3>3. CASE RecvCall(c)
      BY <1>0, <3>3, CallAssumption DEF RecvCall, CallTypes
    <3> QED BY <1>4, <3>1, <3>2, <3>3
  <2> QED BY <1>0, <2>1, <2>2 DEF WireTypes, LineTypes, RecvTypes, wireVars, lineVars, recvVars
<1>5. ASSUME NEW c \in Callers, RecvHold(c)
      PROVE  WireTypes' /\ LineTypes' /\ RecvTypes' /\ CallTypes'
  <2>1. ticket[c] \in 1..MaxCalls
    <3>1. call[c] # "idle" /\ ticket[c] \in 0..MaxCalls
      BY <1>0, <1>5 DEF RecvHold, CallTypes
    <3>2. ticket[c] > 0
      BY <3>1 DEF Core, TicketInv
    <3> QED BY <3>1, <3>2, CallAssumption
  <2>2. waiter' \in Waiters
    BY <1>5, <2>1 DEF RecvHold, Waiters
  <2>3. toShim' \in Seq(Requests)
    <3>1. Grants \in Seq(Requests)
      BY <1>0, GrantsTypes DEF LineTypes
    <3> QED BY <1>0, <1>5, <3>1, Joined DEF RecvHold, WireTypes
  <2>4. outstanding' \in [Streams -> 0..MaxPending]
    BY <1>5, WindowAssumption DEF RecvHold
  <2>5. CallTypes'
    BY <1>0, <1>5 DEF RecvHold, CallTypes
  <2> QED BY <1>0, <1>1, <1>5, <2>2, <2>3, <2>4, <2>5
          DEF RecvHold, WireTypes, LineTypes, RecvTypes
<1>6. ASSUME TimerFire PROVE WireTypes' /\ LineTypes' /\ RecvTypes' /\ CallTypes'
  <2>1. waiter \in Waiters
    BY <1>0, <1>6 DEF TimerFire, RecvTypes
  <2>2. waiter' \in Waiters /\ waiter.ref \in 1..MaxCalls
    BY <1>6, <2>1 DEF TimerFire, Waiters
  <2> QED BY <1>0, <1>6, <2>2
          DEF TimerFire, WireTypes, LineTypes, RecvTypes, CallTypes, wireVars, lineVars, callVars
<1>7. ASSUME NEW r \in late, RecvTimeout(r)
      PROVE  WireTypes' /\ LineTypes' /\ RecvTypes' /\ CallTypes'
  <2>1. UNCHANGED <<wireVars, lineVars, ticket, calls, delivered>> /\ late' = late \ {r}
    BY <1>7 DEF RecvTimeout
  <2>2. CASE Own(r)
    <3>1. waiter.caller \in Callers
      BY <1>0, <2>2 DEF Own, RecvTypes, Waiters
    <3>2. Reply(waiter.caller, Timeout) /\ waiter' = NoWaiter
      BY <1>7, <2>2 DEF RecvTimeout
    <3>3. CallTypes'
      BY <1>0, <2>1, <3>1, <3>2, AnswerTypes, ReplyTypes DEF CallTypes
    <3> QED BY <1>0, <2>1, <3>2, <3>3 DEF WireTypes, LineTypes, RecvTypes, wireVars, lineVars
  <2>3. CASE ~Own(r)
    <3>1. UNCHANGED <<call, answer, waiter>>
      BY <1>7, <2>3 DEF RecvTimeout
    <3> QED BY <1>0, <2>1, <3>1
            DEF WireTypes, LineTypes, RecvTypes, CallTypes, wireVars, lineVars
  <2> QED BY <2>2, <2>3
<1>8. WireTypes' /\ LineTypes' /\ RecvTypes' /\ CallTypes'
  BY <1>4, <1>5, <1>6, <1>7
<1> QED BY <1>2, <1>3, <1>8 DEF Types

LEMMA LineStepTypes ==
  ASSUME Core, NEW c \in Callers, RecvLine(c)
  PROVE  Types'
<1>0. /\ ChildTypes /\ ShimTypes /\ WireTypes /\ ServerTypes /\ LineTypes /\ RecvTypes
      /\ CallTypes
  BY DEF Core, Types
<1>1. /\ Deliver(c, queue) /\ queue # <<>> /\ limit' = limit
      /\ UNCHANGED <<childVars, shimVars, toShim, exit, reported, got, start,
                     outstanding, waiter, ticket, calls>>
  BY DEF RecvLine
<1>2. /\ call' \in [Callers -> {"idle", "sent", "held"}]
      /\ answer' \in [Callers -> Answers]
      /\ delivered' \in Seq(Range3) /\ queue' \in Seq(Range3)
  BY <1>0, <1>1, DeliverTypes DEF LineTypes
<1>3. ChildTypes' /\ ShimTypes' /\ LineTypes' /\ CallTypes'
  BY <1>0, <1>1, <1>2 DEF ChildTypes, ShimTypes, LineTypes, CallTypes, childVars, shimVars
<1>4. WireTypes' /\ ServerTypes' /\ RecvTypes'
  <2>1. CASE exit # "none" /\ Len(queue) = 1
    <3>1. Publish(reported, FALSE)
      BY <2>1 DEF RecvLine
    <3>2. reported \in Terminals
      BY <1>0, <2>1, AnswerTypes DEF Core, EvidenceInv, ServerTypes
    <3>3. /\ server' = "down" /\ port' = "closed" /\ toBeam' = <<>> /\ late' = {}
          /\ terminal' \in Terminals
      BY <3>1, <3>2, PublishTypes, Zenon
    <3>4. WireTypes' /\ RecvTypes'
      BY <1>0, <1>1, <3>3 DEF WireTypes, RecvTypes
    <3>5. ServerTypes'
      BY <1>0, <1>1, <3>3, Zenon DEF ServerTypes
    <3> QED BY <3>4, <3>5
  <2>2. CASE ~(exit # "none" /\ Len(queue) = 1)
    <3>1. UNCHANGED <<server, port, terminal, toBeam, late>>
      BY <2>2 DEF RecvLine
    <3>2. ServerTypes'
      BY <1>0, <1>1, <3>1, Zenon DEF ServerTypes
    <3> QED BY <1>0, <1>1, <3>1, <3>2 DEF WireTypes, RecvTypes
  <2> QED BY <2>1, <2>2
<1> QED BY <1>3, <1>4 DEF Types

\* Stopping, from any state of the session.
LEMMA StopStepTypes ==
  ASSUME Core, LimitExceeded \/ Stop \/ SettleData \/ SettleExit \/ SettleLost \/ SettleTimeout
  PROVE  Types'
<1>0. /\ ChildTypes /\ ShimTypes /\ WireTypes /\ ServerTypes /\ LineTypes /\ RecvTypes
      /\ CallTypes
  BY DEF Core, Types
<1>1. UNCHANGED <<childVars, shimVars, exit, reported, lineVars, waiter, callVars>>
  BY DEF LimitExceeded, Stop, SettleData, SettleExit, SettleLost, SettleTimeout, Settle,
         serverVars, recvVars
<1>2. ChildTypes' /\ ShimTypes' /\ LineTypes' /\ CallTypes'
  BY <1>0, <1>1 DEF ChildTypes, ShimTypes, LineTypes, CallTypes, childVars, shimVars, lineVars,
                    callVars
<1>3. ASSUME StartSettling, toBeam' \in Seq(Frames), limit' \in BOOLEAN
      PROVE  WireTypes' /\ ServerTypes' /\ RecvTypes'
  <2>1. [kind |-> "kill"] \in Requests
    BY DEF Requests
  <2>2. toShim' \in Seq(Requests)
    BY <1>0, <1>3, <2>1, Appended DEF StartSettling, WireTypes
  <2>3. ServerTypes'
    BY <1>0, <1>1, <1>3, Zenon DEF StartSettling, ServerTypes
  <2> QED BY <1>0, <1>1, <1>3, <2>2, <2>3 DEF StartSettling, WireTypes, RecvTypes
<1>4. ASSUME NEW t \in Terminals, NEW held, Publish(t, held), UNCHANGED <<toShim, limit>>
      PROVE  WireTypes' /\ ServerTypes' /\ RecvTypes'
  <2>1. /\ server' = "down" /\ port' = "closed" /\ toBeam' = <<>> /\ late' = {}
        /\ terminal' \in Terminals
    BY <1>4, PublishTypes, Zenon
  <2>2. WireTypes' /\ RecvTypes'
    BY <1>0, <1>1, <1>4, <2>1 DEF WireTypes, RecvTypes
  <2>3. ServerTypes'
    BY <1>0, <1>1, <1>4, <2>1, Zenon DEF ServerTypes
  <2> QED BY <2>2, <2>3
<1>5. CASE LimitExceeded
  <2>1. StartSettling /\ limit' = TRUE
    BY <1>5 DEF LimitExceeded
  <2>2. toBeam' \in Seq(Frames)
    BY <1>0, <1>5, Taken DEF LimitExceeded, Arrived, WireTypes
  <2> QED BY <1>2, <1>3, <2>1, <2>2 DEF Types
<1>6. CASE Stop
  <2>0. limit' = limit /\ limit \in BOOLEAN
    <3>1. limit' = limit
      BY <1>6 DEF Stop
    <3> QED BY <1>0, <3>1, Zenon DEF ServerTypes
  <2>1. CASE exit = "none"
    <3>1. StartSettling /\ toBeam' = toBeam
      BY <1>6, <2>1 DEF Stop
    <3> QED BY <1>0, <1>2, <1>3, <2>0, <3>1 DEF Types, WireTypes
  <2>2. CASE exit # "none"
    <3>1. Publish(reported, queue # <<>> \/ Unfinished # {}) /\ toShim' = toShim
      BY <1>6, <2>2 DEF Stop
    <3>2. reported \in Terminals
      BY <1>0, <2>2, AnswerTypes DEF Core, EvidenceInv, ServerTypes
    <3> QED BY <1>2, <1>4, <2>0, <3>1, <3>2 DEF Types
  <2> QED BY <2>1, <2>2
<1>7. CASE SettleData
  <2>1. toBeam' \in Seq(Frames) /\ UNCHANGED <<toShim, port, serverVars, recvVars>>
    BY <1>0, <1>7, Taken DEF SettleData, Arrived, WireTypes
  <2>2. ServerTypes'
    BY <1>0, <2>1, Zenon DEF ServerTypes, serverVars
  <2>3. RecvTypes'
    BY <1>0, <2>1 DEF RecvTypes, recvVars
  <2>4. WireTypes'
    BY <1>0, <2>1 DEF WireTypes
  <2> QED BY <1>2, <2>2, <2>3, <2>4 DEF Types
<1>8. ASSUME NEW t \in Terminals, Settle(t) PROVE Types'
  <2>1. Publish(t, queue # <<>> \/ Unfinished # {}) /\ UNCHANGED <<toShim, limit>>
    BY <1>8 DEF Settle
  <2> QED BY <1>2, <1>4, <2>1 DEF Types
<1>9. SettleExit \/ SettleLost \/ SettleTimeout => \E t \in Terminals : Settle(t)
  BY AnswerTypes DEF SettleExit, SettleLost, SettleTimeout
<1> QED BY <1>5, <1>6, <1>7, <1>8, <1>9

LEMMA TypesStep ==
  ASSUME Core, [Next]_vars
  PROVE  Types'
<1>1. CASE ExitArrives
  <2>1. toBeam # <<>>
    BY <1>1 DEF ExitArrives, Arrived
  <2>2. \E t \in Terminals : Ended("exited", t)
    BY <1>1, AnswerTypes DEF ExitArrives
  <2> QED BY <2>1, <2>2, EndedTypes
<1>2. CASE ShimLost
  <2>1. toBeam # <<>> /\ Ended("lost", Evidence("nil", "unknown"))
    BY <1>2 DEF ShimLost, Arrived
  <2> QED BY <2>1, AnswerTypes, EndedTypes
<1>3. CASE UNCHANGED vars
  <2>1. /\ ChildTypes /\ ShimTypes /\ WireTypes /\ ServerTypes /\ LineTypes /\ RecvTypes
        /\ CallTypes
    BY DEF Core, Types
  <2>2. ServerTypes'
    BY <1>3, <2>1, Zenon DEF vars, serverVars, ServerTypes
  <2>3. ChildTypes' /\ ShimTypes' /\ WireTypes' /\ LineTypes' /\ RecvTypes' /\ CallTypes'
    BY <1>3, <2>1 DEF vars, childVars, shimVars, wireVars, lineVars, recvVars, callVars,
                      ChildTypes, ShimTypes, WireTypes, LineTypes, RecvTypes, CallTypes
  <2> QED BY <2>2, <2>3 DEF Types
<1>4. CASE Over
  BY <1>3, <1>4 DEF Over
<1> QED BY <1>1, <1>2, <1>3, <1>4, ChildStepTypes, ShimStepTypes, CallStepTypes, LineStepTypes,
           StopStepTypes, ArrivesTypes DEF Next, Server

-----------------------------------------------------------------------------
(* Calls, their answers and the evidence.                                  *)

LEMMA ReplyEffect ==
  ASSUME Types, NEW c \in Callers, NEW a, Reply(c, a)
  PROVE  /\ call'[c] = "idle" /\ answer'[c] = a
         /\ \A d \in Callers : d # c => call'[d] = call[d] /\ answer'[d] = answer[d]
BY DEF Reply, Types, CallTypes

LEMMA WaiterIsCaller ==
  ASSUME Types, waiter # NoWaiter
  PROVE  waiter \in Waiters /\ waiter.caller \in Callers /\ waiter.ref \in 1..MaxCalls
BY DEF Types, RecvTypes, Waiters

\* Serving answers the held recv with the first line, or changes nothing.
LEMMA ServeEffect ==
  ASSUME Types, NEW q \in Seq(Range3), ServeWaiter(q)
  PROVE  \/ /\ waiter # NoWaiter /\ q # <<>> /\ waiter.caller \in Callers
            /\ Deliver(waiter.caller, q) /\ Reply(waiter.caller, Line)
            /\ waiter' = NoWaiter /\ queue' = Tail(q)
            /\ delivered' = Append(delivered, Head(q))
         \/ /\ waiter = NoWaiter \/ q = <<>>
            /\ queue' = q /\ UNCHANGED <<call, answer, delivered, waiter>>
BY WaiterIsCaller, Zenon DEF ServeWaiter, Deliver

LEMMA PublishEffect ==
  ASSUME NEW t, NEW held \in BOOLEAN, limit' = FALSE, Publish(t, held)
  PROVE  /\ server' = "down" /\ port' = "closed" /\ toBeam' = <<>> /\ late' = {}
         /\ terminal' = IF held THEN [t EXCEPT !.output = "truncated"] ELSE t
BY DEF Publish, FinishOutput

\* After the end is recorded nobody is held, and the session stays up for
\* lines only.
LEMMA EndedEffect ==
  ASSUME Core, Up, toBeam # <<>>, NEW ex, NEW t \in Terminals, Ended(ex, t)
  PROVE  LET q == queue \o FlushedLines IN
         /\ q \in Seq(Range3)
         /\ exit' = ex /\ reported' = t /\ start' = got /\ waiter' = NoWaiter
         /\ limit' = FALSE
         /\ UNCHANGED <<childVars, shimVars, toShim, got, outstanding, ticket, calls>>
         /\ \/ waiter # NoWaiter /\ q = <<>> /\ waiter.caller \in Callers
               /\ Reply(waiter.caller, Done(t)) /\ UNCHANGED <<queue, delivered>>
            \/ waiter # NoWaiter /\ q # <<>> /\ waiter.caller \in Callers
               /\ Reply(waiter.caller, Line)
               /\ queue' = Tail(q) /\ delivered' = Append(delivered, Head(q))
            \/ waiter = NoWaiter /\ queue' = q /\ UNCHANGED <<call, answer, delivered>>
         /\ \/ queue' = <<>> /\ server' = "down" /\ terminal' = t
               /\ toBeam' = <<>> /\ port' = "closed" /\ late' = {}
            \/ queue' # <<>> /\ toBeam' = Tail(toBeam)
               /\ UNCHANGED <<server, port, terminal, late>>
<1> DEFINE q == queue \o FlushedLines
<1>1. q \in Seq(Range3)
  <2>1. FlushedLines \in Seq(Range3)
    BY FlushedOf DEF Core, Types, LineTypes
  <2> QED BY <2>1, Joined DEF Core, Types, LineTypes
<1>2. /\ exit' = ex /\ reported' = t /\ start' = got
      /\ IF waiter # NoWaiter /\ q = <<>>
         THEN /\ Reply(waiter.caller, Done(t))
              /\ waiter' = NoWaiter
              /\ UNCHANGED <<queue, delivered>>
         ELSE ServeWaiter(q)
      /\ UNCHANGED limit
      /\ IF queue' = <<>> THEN Publish(t, FALSE)
         ELSE toBeam' = Tail(toBeam) /\ UNCHANGED <<server, port, terminal, late>>
      /\ UNCHANGED <<childVars, shimVars, toShim, got, outstanding, ticket, calls>>
  BY Zenon DEF Ended
<1> HIDE DEF q
<1>3. limit' = FALSE
  BY <1>2, Zenon DEF Core, EvidenceInv
<1>4. waiter # NoWaiter => queue = <<>>
  BY DEF Core, WaiterInv
<1>5. /\ waiter' = NoWaiter
      /\ \/ waiter # NoWaiter /\ q = <<>> /\ waiter.caller \in Callers
            /\ Reply(waiter.caller, Done(t)) /\ UNCHANGED <<queue, delivered>>
         \/ waiter # NoWaiter /\ q # <<>> /\ waiter.caller \in Callers
            /\ Reply(waiter.caller, Line)
            /\ queue' = Tail(q) /\ delivered' = Append(delivered, Head(q))
         \/ waiter = NoWaiter /\ queue' = q /\ UNCHANGED <<call, answer, delivered>>
  <2>1. CASE waiter # NoWaiter /\ q = <<>>
    BY <1>2, <2>1, WaiterIsCaller, Zenon DEF Core
  <2>2. CASE ~(waiter # NoWaiter /\ q = <<>>)
    <3>1. ServeWaiter(q)
      BY <1>2, <2>2, Zenon
    <3> QED BY <1>1, <2>2, <3>1, ServeEffect, Zenon DEF Core
  <2> QED BY <2>1, <2>2, Zenon
<1>6. \/ queue' = <<>> /\ server' = "down" /\ terminal' = t
         /\ toBeam' = <<>> /\ port' = "closed" /\ late' = {}
      \/ queue' # <<>> /\ toBeam' = Tail(toBeam)
         /\ UNCHANGED <<server, port, terminal, late>>
  <2>1. CASE queue' = <<>>
    <3>1. Publish(t, FALSE)
      BY <1>2, <2>1, Zenon
    <3> QED BY <1>3, <2>1, <3>1, PublishEffect
  <2>2. CASE queue' # <<>>
    BY <1>2, <2>2, Zenon
  <2> QED BY <2>1, <2>2, Zenon
<1> QED BY <1>1, <1>2, <1>3, <1>5, <1>6, Zenon DEF q

\* The same of the two messages that end the session.
LEMMA EndEvidence ==
  ASSUME Core, ExitArrives \/ ShimLost
  PROVE  \E ex \in {"exited", "lost"} : \E t \in Terminals :
           /\ Up /\ toBeam # <<>> /\ Ended(ex, t)
           /\ ex = "exited" => t = Evidence("exit", "complete") /\ Head(toBeam).kind = "exit"
           /\ ex = "lost" => t = Evidence("nil", "unknown") /\ Head(toBeam).kind = "exit_status"
<1>1. CASE ExitArrives
  <2>1. Up /\ toBeam # <<>> /\ Head(toBeam).kind = "exit"
    BY <1>1 DEF ExitArrives, Arrived
  <2>2. ~Head(toBeam).truncated
    BY <2>1, HeadFrame DEF Core, EndFramesInv
  <2>3. OutputEvidence(Head(toBeam).truncated) = "complete"
    BY <2>2 DEF OutputEvidence
  <2>4. Ended("exited", Evidence("exit", "complete"))
    BY <1>1, <2>3, Zenon DEF ExitArrives
  <2>5. Evidence("exit", "complete") \in Terminals
    BY AnswerTypes
  <2>6. "exited" # "lost"
    OBVIOUS
  <2> QED BY <2>1, <2>4, <2>5, <2>6, Zenon
<1>2. CASE ShimLost
  <2>1. Up /\ toBeam # <<>> /\ Head(toBeam).kind = "exit_status"
        /\ Ended("lost", Evidence("nil", "unknown"))
    BY <1>2, Zenon DEF ShimLost, Arrived
  <2>2. Evidence("nil", "unknown") \in Terminals /\ "exited" # "lost"
    BY AnswerTypes
  <2> QED BY <2>1, <2>2, Zenon
<1> QED BY <1>1, <1>2

\* The steps that leave the server's state and its callers alone.
LEMMA QuietSteps ==
  ASSUME Child \/ Shim \/ ShimCrash \/ SettleData \/ Over \/ UNCHANGED vars
  PROVE  UNCHANGED <<serverVars, lineVars, recvVars, callVars>>
BY DEF Child, ChildExit, ChildWrite, Shim, ShimCrash, ShimCredit, ShimKill, ShimReap,
       ShimDrained, ShimCut, ShimLeft, PumpEof, PumpForward, WriteExit, SettleData, Over, vars

LEMMA QuietKeeps ==
  ASSUME Core, UNCHANGED <<serverVars, lineVars, recvVars, callVars>>
  PROVE  TicketInv' /\ WaiterInv' /\ EvidenceInv' /\ Consistent'
<1> USE DEF Core, serverVars, lineVars, recvVars, callVars
<1>1. TicketInv' /\ WaiterInv'
  BY DEF TicketInv, WaiterInv, Up
<1>2. EvidenceInv'
  BY DEF EvidenceInv, Up
<1>3. Consistent'
  BY DEF Consistent, StopsWhenDrained, HeldCallIsWaiter, AnswersAgree, Up
<1> QED BY <1>1, <1>2, <1>3

LEMMA TicketStep ==
  ASSUME Core, [Next]_vars
  PROVE  TicketInv'
<1>0. /\ \A c \in Callers : ticket[c] \in 0..MaxCalls
      /\ call \in [Callers -> {"idle", "sent", "held"}] /\ ticket \in [Callers -> 0..MaxCalls]
      /\ calls \in 0..MaxCalls /\ late \in SUBSET (1..MaxCalls) /\ MaxCalls \in Nat
      /\ Types /\ TicketInv
  BY CallAssumption DEF Core, Types, CallTypes, RecvTypes
<1> DEFINE Quiet == /\ UNCHANGED <<ticket, calls>> /\ late' \subseteq late
                    /\ \A c \in Callers : call'[c] # "idle" => call[c] # "idle"
<1>1. ASSUME Quiet PROVE TicketInv'
  BY <1>0, <1>1 DEF TicketInv
<1>2. ASSUME NEW c \in Callers, NEW a, Reply(c, a), UNCHANGED <<ticket, calls>>,
             late' \subseteq late
      PROVE  TicketInv'
  <2>1. \A d \in Callers : call'[d] # "idle" => call[d] # "idle"
    BY <1>0, <1>2, ReplyEffect
  <2> QED BY <1>1, <1>2, <2>1
<1>3. ASSUME NEW c \in Callers, RecvBusy(c) \/ TerminalReply(c) PROVE TicketInv'
  <2>1. /\ \E a : Reply(c, a)
        /\ UNCHANGED <<ticket, calls>> /\ late' = late
    BY <1>3, Zenon DEF RecvBusy, TerminalReply, recvVars
  <2> QED BY <1>2, <2>1
<1>4. ASSUME NEW c \in Callers, RecvLine(c) PROVE TicketInv'
  <2>1. Reply(c, Line) /\ UNCHANGED <<ticket, calls>>
    BY <1>4, Zenon DEF RecvLine, Deliver
  <2>2. late' = late \/ late' = {}
    BY <1>4, Zenon DEF RecvLine, Publish
  <2> QED BY <1>2, <2>1, <2>2
<1>5. ASSUME NEW c \in Callers, RecvHold(c) PROVE TicketInv'
  <2>1. UNCHANGED <<ticket, calls, late>> /\ call[c] = "sent"
        /\ call' = [call EXCEPT ![c] = "held"]
    BY <1>5 DEF RecvHold
  <2> QED BY <1>0, <1>1, <2>1
<1>6. ASSUME NEW c \in Callers, RecvCall(c) PROVE TicketInv'
  <2>1. /\ call' = [call EXCEPT ![c] = "sent"] /\ late' = late
        /\ calls' = calls + 1 /\ ticket' = [ticket EXCEPT ![c] = calls + 1]
    BY <1>6 DEF RecvCall, recvVars
  <2>2. calls + 1 \notin late
    BY <1>0 DEF TicketInv
  <2>3. \A d \in Callers : ticket'[d] <= calls' /\ (call'[d] # "idle" => ticket'[d] > 0)
    BY <1>0, <2>1 DEF TicketInv
  <2>4. \A d, e \in Callers : ticket'[d] = ticket'[e] /\ d # e => ticket'[d] = 0
    <3> SUFFICES ASSUME NEW d \in Callers, NEW e \in Callers, ticket'[d] = ticket'[e], d # e
                 PROVE  ticket'[d] = 0
      OBVIOUS
    <3>1. \A x \in Callers : x # c => ticket'[x] = ticket[x] /\ ticket[x] # calls + 1
      BY <1>0, <2>1 DEF TicketInv
    <3>2. ticket'[c] = calls + 1
      BY <1>0, <2>1
    <3>3. d # c /\ e # c
      BY <3>1, <3>2
    <3> QED BY <1>0, <3>1, <3>3 DEF TicketInv
  <2>5. \A r \in late' : r <= calls'
    BY <1>0, <2>1 DEF TicketInv
  <2>6. \A d \in Patient : ticket'[d] \notin late'
    BY <1>0, <2>1, <2>2, CallAssumption DEF TicketInv
  <2> QED BY <2>3, <2>4, <2>5, <2>6 DEF TicketInv
<1>7. ASSUME TimerFire PROVE TicketInv'
  <2>1. /\ late' = late \cup {waiter.ref} /\ UNCHANGED <<call, ticket, calls>>
        /\ Up /\ waiter # NoWaiter /\ waiter.timer = "armed"
    BY <1>7 DEF TimerFire, callVars
  <2>2. waiter.caller \in Callers /\ waiter.ref \in 1..MaxCalls
    BY <1>0, <2>1, WaiterIsCaller
  <2>3. waiter.ref = ticket[waiter.caller] /\ waiter.caller \notin Patient
    BY <2>1 DEF Core, WaiterInv
  <2>4. \A d \in Patient : ticket[d] # waiter.ref
    BY <1>0, <2>2, <2>3, CallAssumption DEF TicketInv
  <2> QED BY <1>0, <2>1, <2>2, <2>3, <2>4 DEF TicketInv
<1>8. ASSUME NEW r \in late, RecvTimeout(r) PROVE TicketInv'
  <2>1. late' \subseteq late /\ UNCHANGED <<ticket, calls>>
    BY <1>8 DEF RecvTimeout
  <2>2. CASE Own(r)
    <3>1. Reply(waiter.caller, Timeout) /\ waiter # NoWaiter
      BY <1>8, <2>2, Zenon DEF RecvTimeout, Own
    <3> QED BY <1>0, <1>2, <2>1, <3>1, WaiterIsCaller
  <2>3. CASE ~Own(r)
    <3>1. call' = call
      BY <1>8, <2>3, Zenon DEF RecvTimeout
    <3> QED BY <1>1, <2>1, <3>1
  <2> QED BY <2>2, <2>3
<1>9. CASE DataArrives
  <2>1. PICK q : ServeWaiter(q) /\ UNCHANGED <<late, ticket, calls>>
    BY <1>9, Zenon DEF DataArrives
  <2>2. CASE waiter # NoWaiter /\ q # <<>>
    <3>1. Reply(waiter.caller, Line)
      BY <2>1, <2>2, Zenon DEF ServeWaiter, Deliver
    <3> QED BY <1>0, <1>2, <2>1, <2>2, <3>1, WaiterIsCaller
  <2>3. CASE ~(waiter # NoWaiter /\ q # <<>>)
    <3>1. call' = call
      BY <2>1, <2>3, Zenon DEF ServeWaiter
    <3> QED BY <1>1, <2>1, <3>1
  <2> QED BY <2>2, <2>3
<1>10. ASSUME ExitArrives \/ ShimLost PROVE TicketInv'
  <2>1. PICK ex \in {"exited", "lost"} : \E t \in Terminals :
                Up /\ toBeam # <<>> /\ Ended(ex, t)
    BY <1>10, EndEvidence, Zenon
  <2>2. PICK t \in Terminals : Up /\ toBeam # <<>> /\ Ended(ex, t)
    BY <2>1
  <2>3. UNCHANGED <<ticket, calls>> /\ (late' = late \/ late' = {})
    BY <2>2, EndedEffect
  <2>4. \/ \E a : waiter.caller \in Callers /\ Reply(waiter.caller, a)
        \/ call' = call
    BY <2>2, EndedEffect
  <2> QED BY <1>1, <1>2, <2>3, <2>4
<1>11. ASSUME LimitExceeded \/ Stop \/ SettleExit \/ SettleLost \/ SettleTimeout
       PROVE TicketInv'
  <2>1. UNCHANGED <<call, ticket, calls>>
    BY <1>11 DEF LimitExceeded, Stop, SettleExit, SettleLost, SettleTimeout, Settle, callVars
  <2>2. late' = late \/ late' = {}
    BY <1>11, Zenon DEF LimitExceeded, Stop, SettleExit, SettleLost, SettleTimeout, Settle,
                 StartSettling, Publish
  <2> QED BY <1>1, <2>1, <2>2
<1> HIDE DEF Quiet
<1> QED BY <1>3, <1>4, <1>5, <1>6, <1>7, <1>8, <1>9, <1>10, <1>11, QuietSteps, QuietKeeps
        DEF Next, Server

SessionKept == WaiterInv /\ EvidenceInv /\ Consistent

LEMMA KindOfAnswer ==
  /\ Line.kind = "line" /\ Timeout.kind = "timeout" /\ Busy.kind = "busy"
  /\ \A t : Done(t).kind = "done" /\ Done(t).terminal = t
BY DEF Line, Timeout, Busy, Done

LEMMA BusyKeeps ==
  ASSUME Core, NEW c \in Callers, RecvBusy(c)
  PROVE  SessionKept'
<1>1. /\ Up /\ call[c] = "sent" /\ Reply(c, Busy)
      /\ UNCHANGED <<serverVars, lineVars, recvVars, ticket>>
  BY DEF RecvBusy
<1>2. /\ call'[c] = "idle" /\ answer'[c] = Busy
      /\ \A d \in Callers : d # c => call'[d] = call[d] /\ answer'[d] = answer[d]
  BY <1>1, ReplyEffect DEF Core
<1> USE DEF serverVars, lineVars, recvVars, Up
<1>3. WaiterInv'
  BY <1>1 DEF Core, WaiterInv
<1>4. \A d \in Callers : answer'[d] = answer[d] \/ answer'[d].kind # "done"
  BY <1>2, KindOfAnswer
<1>5. EvidenceInv'
  BY <1>1, <1>4 DEF Core, EvidenceInv
<1>6. StopsWhenDrained' /\ AnswersAgree'
  BY <1>1, <1>4 DEF Core, Consistent, StopsWhenDrained, AnswersAgree
<1>7. HeldCallIsWaiter'
  BY <1>1, <1>2 DEF Core, Consistent, HeldCallIsWaiter
<1> QED BY <1>3, <1>5, <1>6, <1>7 DEF SessionKept, Consistent

LEMMA OverReplyKeeps ==
  ASSUME Core, NEW c \in Callers, TerminalReply(c)
  PROVE  SessionKept'
<1>1. /\ server = "down" /\ Reply(c, Done(terminal))
      /\ UNCHANGED <<serverVars, lineVars, recvVars, ticket>>
  BY DEF TerminalReply
<1>2. /\ answer'[c] = Done(terminal)
      /\ \A d \in Callers : d # c => answer'[d] = answer[d]
  BY <1>1, ReplyEffect DEF Core
<1> USE DEF serverVars, lineVars, recvVars, Up
<1>3. WaiterInv' /\ StopsWhenDrained' /\ HeldCallIsWaiter'
  BY <1>1 DEF WaiterInv, StopsWhenDrained, HeldCallIsWaiter
<1>4. EvidenceInv'
  BY <1>1 DEF Core, EvidenceInv
<1>5. AnswersAgree'
  BY <1>1, <1>2, KindOfAnswer DEF Core, Consistent, AnswersAgree
<1> QED BY <1>3, <1>4, <1>5 DEF SessionKept, Consistent

LEMMA HoldKeeps ==
  ASSUME Core, NEW c \in Callers, RecvHold(c)
  PROVE  SessionKept'
<1>1. /\ Up /\ call[c] = "sent" /\ waiter = NoWaiter /\ queue = <<>>
      /\ waiter' = [caller |-> c, ref |-> ticket[c],
                    timer |-> IF c \in Patient THEN "off" ELSE "armed"]
      /\ call' = [call EXCEPT ![c] = "held"]
      /\ UNCHANGED <<serverVars, queue, ticket, answer>>
  BY DEF RecvHold
<1>2. exit = "none"
  BY <1>1 DEF Core, Consistent, StopsWhenDrained
<1>3. /\ waiter'.caller = c /\ waiter'.ref = ticket[c]
      /\ (waiter'.timer = "off" <=> c \in Patient)
  BY <1>1
<1>4. waiter' # NoWaiter
  BY <1>1 DEF NoWaiter
<1> USE DEF serverVars, Up
<1>5. WaiterInv'
  BY <1>1, <1>2, <1>3 DEF WaiterInv
<1>6. EvidenceInv' /\ AnswersAgree'
  BY <1>1 DEF Core, EvidenceInv, Consistent, AnswersAgree
<1>7. StopsWhenDrained'
  BY <1>1, <1>2 DEF StopsWhenDrained
<1>8. HeldCallIsWaiter'
  <2>1. call \in [Callers -> {"idle", "sent", "held"}]
    BY DEF Core, Types, CallTypes
  <2> QED BY <1>1, <1>3, <1>4, <2>1 DEF Core, Consistent, HeldCallIsWaiter
<1> QED BY <1>5, <1>6, <1>7, <1>8 DEF SessionKept, Consistent

LEMMA CallKeeps ==
  ASSUME Core, NEW c \in Callers, RecvCall(c)
  PROVE  SessionKept'
<1>1. /\ call[c] = "idle" /\ call' = [call EXCEPT ![c] = "sent"]
      /\ ticket' = [ticket EXCEPT ![c] = calls + 1]
      /\ UNCHANGED <<serverVars, lineVars, recvVars, answer>>
  BY DEF RecvCall
<1>2. call \in [Callers -> {"idle", "sent", "held"}] /\ ticket \in [Callers -> 0..MaxCalls]
  BY DEF Core, Types, CallTypes
<1> USE DEF serverVars, lineVars, recvVars, Up
<1>3. HeldCallIsWaiter'
  BY <1>1, <1>2 DEF Core, Consistent, HeldCallIsWaiter
<1>4. WaiterInv'
  <2> SUFFICES ASSUME Up, waiter # NoWaiter PROVE WaiterInv'
    BY <1>1 DEF WaiterInv
  <2>1. waiter.caller \in Callers /\ call[waiter.caller] = "held"
    BY WaiterIsCaller DEF Core, Consistent, HeldCallIsWaiter
  <2>2. ticket'[waiter.caller] = ticket[waiter.caller]
    BY <1>1, <1>2, <2>1
  <2> QED BY <1>1, <2>2 DEF Core, WaiterInv
<1>5. EvidenceInv' /\ AnswersAgree' /\ StopsWhenDrained'
  BY <1>1 DEF Core, EvidenceInv, Consistent, AnswersAgree, StopsWhenDrained
<1> QED BY <1>3, <1>4, <1>5 DEF SessionKept, Consistent

LEMMA TimerKeeps ==
  ASSUME Core, TimerFire
  PROVE  SessionKept'
<1>1. /\ Up /\ waiter # NoWaiter /\ waiter.timer = "armed"
      /\ waiter' = [waiter EXCEPT !.timer = "fired"]
      /\ UNCHANGED <<serverVars, lineVars, callVars>>
  BY DEF TimerFire
<1>2. waiter \in Waiters
  BY <1>1, WaiterIsCaller DEF Core
<1>3. waiter'.caller = waiter.caller /\ waiter'.ref = waiter.ref /\ waiter'.timer = "fired"
  BY <1>1, <1>2 DEF Waiters
<1>4. waiter' # NoWaiter
  BY <1>1, <1>2 DEF Waiters, NoWaiter
<1> USE DEF serverVars, lineVars, callVars, Up
<1>5. WaiterInv'
  BY <1>1, <1>3 DEF Core, WaiterInv
<1>6. EvidenceInv' /\ AnswersAgree'
  BY <1>1 DEF Core, EvidenceInv, Consistent, AnswersAgree
<1>7. StopsWhenDrained' /\ HeldCallIsWaiter'
  BY <1>1, <1>3, <1>4 DEF Core, Consistent, StopsWhenDrained, HeldCallIsWaiter
<1> QED BY <1>5, <1>6, <1>7 DEF SessionKept, Consistent

LEMMA TimeoutKeeps ==
  ASSUME Core, NEW r \in late, RecvTimeout(r)
  PROVE  SessionKept'
<1>1. Up /\ UNCHANGED <<serverVars, lineVars, ticket>>
  BY DEF RecvTimeout
<1> USE DEF serverVars, lineVars, Up
<1>2. CASE Own(r)
  <2>1. waiter # NoWaiter /\ Reply(waiter.caller, Timeout) /\ waiter' = NoWaiter
    BY <1>2, Zenon DEF RecvTimeout, Own
  <2>2. PICK c \in Callers : c = waiter.caller
    BY <2>1, WaiterIsCaller DEF Core
  <2>3. /\ call'[c] = "idle" /\ answer'[c] = Timeout
        /\ \A d \in Callers : d # c => call'[d] = call[d] /\ answer'[d] = answer[d]
    BY <2>1, <2>2, ReplyEffect DEF Core
  <2>4. \A d \in Callers : answer'[d] = answer[d] \/ answer'[d].kind # "done"
    BY <2>3, KindOfAnswer
  <2>5. WaiterInv' /\ EvidenceInv'
    BY <1>1, <2>1, <2>4 DEF Core, WaiterInv, EvidenceInv
  <2>6. StopsWhenDrained' /\ AnswersAgree'
    BY <1>1, <2>1, <2>4 DEF Core, Consistent, StopsWhenDrained, AnswersAgree
  <2>7. HeldCallIsWaiter'
    BY <1>1, <2>1, <2>2, <2>3 DEF Core, Consistent, HeldCallIsWaiter
  <2> QED BY <2>5, <2>6, <2>7 DEF SessionKept, Consistent
<1>3. CASE ~Own(r)
  <2>1. UNCHANGED <<call, answer, waiter>>
    BY <1>3, Zenon DEF RecvTimeout
  <2>2. WaiterInv' /\ EvidenceInv'
    BY <1>1, <2>1 DEF Core, WaiterInv, EvidenceInv
  <2>3. Consistent'
    BY <1>1, <2>1 DEF Core, Consistent, StopsWhenDrained, HeldCallIsWaiter, AnswersAgree
  <2> QED BY <2>2, <2>3 DEF SessionKept
<1> QED BY <1>2, <1>3

LEMMA LineKeeps ==
  ASSUME Core, NEW c \in Callers, RecvLine(c)
  PROVE  SessionKept'
<1>1. /\ Up /\ call[c] = "sent" /\ waiter = NoWaiter /\ queue # <<>>
      /\ Reply(c, Line) /\ queue' = Tail(queue) /\ limit' = limit
      /\ UNCHANGED <<exit, reported, waiter, ticket>>
  BY Zenon DEF RecvLine, Deliver
<1>2. /\ call'[c] = "idle" /\ answer'[c] = Line
      /\ \A d \in Callers : d # c => call'[d] = call[d] /\ answer'[d] = answer[d]
  BY <1>1, ReplyEffect DEF Core
<1>3. \A d \in Callers : answer'[d] = answer[d] \/ answer'[d].kind # "done"
  BY <1>2, KindOfAnswer
<1>4. \A d \in Callers : answer[d].kind # "done"
  BY <1>1 DEF Core, EvidenceInv, Up
<1>5. \A d \in Callers : answer'[d].kind # "done"
  BY <1>3, <1>4
<1>6. WaiterInv' /\ AnswersAgree'
  BY <1>1, <1>5 DEF WaiterInv, AnswersAgree
<1>7. HeldCallIsWaiter'
  BY <1>1, <1>2 DEF Core, Consistent, HeldCallIsWaiter, Up
<1>8. CASE exit # "none" /\ Len(queue) = 1
  <2>1. Publish(reported, FALSE)
    BY <1>8 DEF RecvLine
  <2>2. reported \in Terminals
    BY <1>8, AnswerTypes DEF Core, Types, EvidenceInv, ServerTypes
  <2>3. server' = "down" /\ terminal' \in Terminals
    BY <2>1, <2>2, PublishTypes
  <2>4. EvidenceInv'
    BY <1>1, <2>3 DEF Core, EvidenceInv, Up
  <2>5. StopsWhenDrained'
    BY <2>3 DEF StopsWhenDrained, Up
  <2> QED BY <1>6, <1>7, <2>4, <2>5 DEF SessionKept, Consistent
<1>9. CASE ~(exit # "none" /\ Len(queue) = 1)
  <2>1. UNCHANGED <<server, terminal>>
    BY <1>9 DEF RecvLine
  <2>2. EvidenceInv'
    BY <1>1, <1>5, <2>1 DEF Core, EvidenceInv, Up
  <2>3. StopsWhenDrained'
    <3> SUFFICES ASSUME exit # "none" PROVE queue' # <<>>
      BY <1>1 DEF StopsWhenDrained
    <3>1. Len(queue) # 1
      BY <1>9
    <3>2. Len(queue) \in Nat \ {0} /\ Len(Tail(queue)) = Len(queue) - 1
      BY <1>1, Taken DEF Core, Types, LineTypes
    <3> QED BY <1>1, <3>1, <3>2
  <2> QED BY <1>6, <1>7, <2>2, <2>3 DEF SessionKept, Consistent
<1> QED BY <1>8, <1>9

LEMMA ArrivesKeeps ==
  ASSUME Core, DataArrives
  PROVE  SessionKept'
<1>1. PICK m : m = Head(toBeam)
  OBVIOUS
<1>2. PICK q : q = queue \o LinesOf(m.stream, m.to)
  OBVIOUS
<1>3. Up /\ Arrived("data") /\ ServeWaiter(q) /\ UNCHANGED <<serverVars, late, ticket>>
  BY <1>1, <1>2, Zenon DEF DataArrives
<1>4. q \in Seq(Range3) /\ exit = "none"
  <2>1. /\ m.stream \in Streams /\ m.to \in Nat /\ exit = "none"
        /\ m.from = got[m.stream] /\ m.from < m.to
    BY <1>1, <1>3, HeadIsNext
  <2>2. start[m.stream] \in Nat /\ start[m.stream] <= m.to
    BY <2>1 DEF Core, OutputInv, Types, LineTypes
  <2>3. LinesOf(m.stream, m.to) \in Seq(Range3)
    BY <2>1, <2>2, LinesOfFrame
  <2> QED BY <1>2, <2>1, <2>3, Joined DEF Core, Types, LineTypes
<1> USE DEF serverVars, Up
<1>5. StopsWhenDrained'
  BY <1>3, <1>4 DEF StopsWhenDrained
<1>6. CASE waiter # NoWaiter /\ q # <<>>
  <2>1. /\ waiter.caller \in Callers /\ Reply(waiter.caller, Line) /\ waiter' = NoWaiter
    BY <1>3, <1>4, <1>6, ServeEffect DEF Core
  <2>2. PICK c \in Callers : c = waiter.caller
    BY <2>1
  <2>3. /\ call'[c] = "idle" /\ answer'[c] = Line
        /\ \A d \in Callers : d # c => call'[d] = call[d] /\ answer'[d] = answer[d]
    BY <2>1, <2>2, ReplyEffect DEF Core
  <2>4. \A d \in Callers : answer'[d] = answer[d] \/ answer'[d].kind # "done"
    BY <2>3, KindOfAnswer
  <2>5. WaiterInv' /\ EvidenceInv'
    BY <1>3, <2>1, <2>4 DEF Core, WaiterInv, EvidenceInv
  <2>6. AnswersAgree'
    BY <1>3, <2>1, <2>4 DEF Core, Consistent, AnswersAgree
  <2>7. HeldCallIsWaiter'
    BY <1>3, <1>6, <2>1, <2>2, <2>3 DEF Core, Consistent, HeldCallIsWaiter
  <2> QED BY <1>5, <2>5, <2>6, <2>7 DEF SessionKept, Consistent
<1>7. CASE ~(waiter # NoWaiter /\ q # <<>>)
  <2>1. queue' = q /\ UNCHANGED <<call, answer, waiter>>
    BY <1>3, <1>7, Zenon DEF ServeWaiter
  <2>2. WaiterInv' /\ EvidenceInv'
    BY <1>3, <1>4, <1>7, <2>1 DEF Core, WaiterInv, EvidenceInv
  <2>3. AnswersAgree' /\ HeldCallIsWaiter'
    BY <1>3, <2>1 DEF Core, Consistent, AnswersAgree, HeldCallIsWaiter
  <2> QED BY <1>5, <2>2, <2>3 DEF SessionKept, Consistent
<1> QED BY <1>6, <1>7

LEMMA EndKeeps ==
  ASSUME Core, ExitArrives \/ ShimLost
  PROVE  SessionKept'
<1>1. PICK ex \in {"exited", "lost"} : \E t \in Terminals :
           /\ Up /\ toBeam # <<>> /\ Ended(ex, t)
           /\ ex = "exited" => t = Evidence("exit", "complete")
           /\ ex = "lost" => t = Evidence("nil", "unknown")
  BY EndEvidence, Zenon
<1>2. PICK t \in Terminals :
           /\ Up /\ toBeam # <<>> /\ Ended(ex, t)
           /\ ex = "exited" => t = Evidence("exit", "complete")
           /\ ex = "lost" => t = Evidence("nil", "unknown")
  BY <1>1
<1>3. PICK q : q = queue \o FlushedLines
  OBVIOUS
<1>4. /\ exit' = ex /\ reported' = t /\ waiter' = NoWaiter /\ limit' = FALSE
      /\ UNCHANGED <<ticket, calls>>
      /\ \/ waiter # NoWaiter /\ q = <<>> /\ waiter.caller \in Callers
            /\ Reply(waiter.caller, Done(t)) /\ UNCHANGED <<queue, delivered>>
         \/ waiter # NoWaiter /\ q # <<>> /\ waiter.caller \in Callers
            /\ Reply(waiter.caller, Line)
            /\ queue' = Tail(q) /\ delivered' = Append(delivered, Head(q))
         \/ waiter = NoWaiter /\ queue' = q /\ UNCHANGED <<call, answer, delivered>>
      /\ \/ queue' = <<>> /\ server' = "down" /\ terminal' = t
         \/ queue' # <<>> /\ UNCHANGED <<server, terminal>>
  BY <1>2, <1>3, EndedEffect
<1>5. \A c \in Callers : answer[c].kind # "done"
  BY <1>2 DEF Core, EvidenceInv, Up
<1>6. WaiterInv' /\ StopsWhenDrained'
  BY <1>4 DEF WaiterInv, StopsWhenDrained, Up
<1>7. CASE waiter = NoWaiter
  <2>1. UNCHANGED <<call, answer>>
    BY <1>4, <1>7
  <2>2. AnswersAgree'
    BY <1>5, <2>1 DEF AnswersAgree
  <2>3. HeldCallIsWaiter'
    BY <1>2, <1>4, <1>7, <2>1 DEF Core, Consistent, HeldCallIsWaiter, Up
  <2>4. EvidenceInv'
    BY <1>2, <1>4, <1>5, <2>1 DEF EvidenceInv, Up
  <2> QED BY <1>6, <2>2, <2>3, <2>4 DEF SessionKept, Consistent
<1>8. CASE waiter # NoWaiter
  <2>1. PICK c \in Callers : c = waiter.caller
    BY <1>8, WaiterIsCaller DEF Core
  <2>2. PICK a : Reply(c, a) /\ (a = Line \/ (a = Done(t) /\ q = <<>>))
    BY <1>4, <1>8, <2>1
  <2>3. /\ call'[c] = "idle" /\ answer'[c] = a
        /\ \A d \in Callers : d # c => call'[d] = call[d] /\ answer'[d] = answer[d]
    BY <2>2, ReplyEffect DEF Core
  <2>4. HeldCallIsWaiter'
    BY <1>2, <1>4, <1>8, <2>1, <2>3 DEF Core, Consistent, HeldCallIsWaiter, Up
  <2>5. CASE a = Line
    <3>1. \A d \in Callers : answer'[d].kind # "done"
      BY <1>5, <2>3, <2>5, KindOfAnswer
    <3>2. AnswersAgree'
      BY <3>1 DEF AnswersAgree
    <3>3. EvidenceInv'
      BY <1>2, <1>4, <3>1 DEF EvidenceInv, Up
    <3> QED BY <1>6, <2>4, <3>2, <3>3 DEF SessionKept, Consistent
  <2>6. CASE a = Done(t) /\ q = <<>>
    <3>1. queue = <<>> /\ queue' = <<>>
      BY <1>2, <1>4, <1>8, <2>6 DEF Core, WaiterInv
    <3>2. server' = "down" /\ terminal' = t
      BY <1>4, <3>1
    <3>3. \A d \in Callers : answer'[d].kind = "done" => answer'[d].terminal = t
      BY <1>5, <2>3, <2>6, KindOfAnswer
    <3>4. AnswersAgree'
      BY <3>2, <3>3 DEF AnswersAgree
    <3>5. EvidenceInv'
      BY <1>2, <1>4, <3>2 DEF EvidenceInv, Up
    <3> QED BY <1>6, <2>4, <3>4, <3>5 DEF SessionKept, Consistent
  <2> QED BY <2>2, <2>5, <2>6
<1> QED BY <1>7, <1>8

LEMMA StopKeeps ==
  ASSUME Core, LimitExceeded \/ Stop \/ SettleExit \/ SettleLost \/ SettleTimeout
  PROVE  SessionKept'
<1>1. UNCHANGED <<exit, reported, queue, waiter, callVars>>
  BY DEF LimitExceeded, Stop, SettleExit, SettleLost, SettleTimeout, Settle, lineVars
<1>2. server # "down" /\ \A c \in Callers : answer[c].kind # "done"
  <2>1. server # "down"
    BY DEF LimitExceeded, Stop, SettleExit, SettleLost, SettleTimeout, Up
  <2> QED BY <2>1 DEF Core, EvidenceInv
<1>3. \/ server' = "settling" /\ exit = "none"
      \/ server' = "down" /\ terminal' \in Terminals
  <2>1. CASE LimitExceeded
    BY <2>1, HeadIsNext DEF LimitExceeded, StartSettling
  <2>2. CASE Stop
    <3>1. CASE exit = "none"
      BY <2>2, <3>1 DEF Stop, StartSettling
    <3>2. CASE exit # "none"
      <4>1. reported \in Terminals
        BY <3>2, AnswerTypes DEF Core, Types, EvidenceInv, ServerTypes
      <4>2. Publish(reported, queue # <<>> \/ Unfinished # {})
        BY <2>2, <3>2 DEF Stop
      <4> QED BY <4>1, <4>2, PublishTypes
    <3> QED BY <3>1, <3>2
  <2>3. ASSUME NEW t \in Terminals, Settle(t)
        PROVE  server' = "down" /\ terminal' \in Terminals
    BY <2>3, PublishTypes DEF Settle
  <2>4. SettleExit \/ SettleLost \/ SettleTimeout => \E t \in Terminals : Settle(t)
    BY AnswerTypes DEF SettleExit, SettleLost, SettleTimeout
  <2> QED BY <2>1, <2>2, <2>3, <2>4
<1>4. ~Up'
  BY <1>3 DEF Up
<1>5. WaiterInv' /\ StopsWhenDrained' /\ HeldCallIsWaiter'
  BY <1>4 DEF WaiterInv, StopsWhenDrained, HeldCallIsWaiter
<1>6. AnswersAgree'
  BY <1>1, <1>2 DEF AnswersAgree, callVars
<1>7. EvidenceInv'
  BY <1>1, <1>2, <1>3, <1>4 DEF Core, EvidenceInv, callVars
<1> QED BY <1>5, <1>6, <1>7 DEF SessionKept, Consistent

LEMMA SessionStep ==
  ASSUME Core, [Next]_vars
  PROVE  WaiterInv' /\ EvidenceInv' /\ Consistent'
<1>1. SessionKept'
  <2>1. UNCHANGED <<serverVars, lineVars, recvVars, callVars>> => SessionKept'
    BY QuietKeeps DEF SessionKept
  <2> QED
    BY <2>1, QuietSteps, BusyKeeps, OverReplyKeeps, HoldKeeps, CallKeeps, TimerKeeps, TimeoutKeeps,
       LineKeeps, ArrivesKeeps, EndKeeps, StopKeeps DEF Next, Server
<1> QED BY <1>1 DEF SessionKept

-----------------------------------------------------------------------------
(* The output on its way.                                                  *)

LEMMA OutputStep ==
  ASSUME Core, [Next]_vars
  PROVE  OutputInv'
<1>0. /\ script \in [Streams -> Seq({"x", "n"})] /\ written \in [Streams -> Nat]
      /\ read \in [Streams -> Nat] /\ got \in [Streams -> Nat] /\ start \in [Streams -> Nat]
      /\ OutputInv
  BY DEF Core, Types, ChildTypes, ShimTypes, LineTypes
<1>1. ASSUME UNCHANGED <<childVars, read, eof, got, start>> PROVE OutputInv'
  BY <1>0, <1>1 DEF OutputInv, childVars
<1>2. CASE Child
  <2>1. CASE ChildExit
    BY <1>0, <2>1 DEF ChildExit, OutputInv, shimVars, lineVars
  <2>2. ASSUME NEW s \in Streams, ChildWrite(s) PROVE OutputInv'
    BY <1>0, <2>2 DEF ChildWrite, OutputInv, shimVars, lineVars
  <2> QED BY <1>2, <2>1, <2>2 DEF Child
<1>3. CASE Shim \/ ShimCrash
  <2>1. ASSUME NEW s \in Streams, PumpEof(s) PROVE OutputInv'
    BY <1>0, <2>1 DEF PumpEof, OutputInv, childVars, lineVars
  <2>2. ASSUME NEW s \in Streams, NEW k \in 1..FrameMax, PumpForward(s, k) PROVE OutputInv'
    BY <1>0, <2>2, LimitAssumption DEF PumpForward, OutputInv, childVars, lineVars
  <2>3. CASE ShimLeft
    BY <1>0, <2>3 DEF ShimLeft, OutputInv, lineVars
  <2>4. CASE ShimCredit \/ ShimKill \/ ShimReap \/ ShimDrained \/ ShimCut \/ ShimCrash
    BY <1>1, <2>4 DEF ShimCredit, ShimKill, ShimReap, ShimDrained, ShimCut, ShimCrash,
                      WriteExit, lineVars
  <2> QED BY <1>3, <2>1, <2>2, <2>3, <2>4 DEF Shim
<1>4. CASE DataArrives
  <2>1. PICK m : m = Head(toBeam)
    OBVIOUS
  <2>2. /\ Up /\ Arrived("data") /\ UNCHANGED <<childVars, shimVars>>
        /\ got' = [got EXCEPT ![m.stream] = m.to]
        /\ start' = [start EXCEPT ![m.stream] = RestFrom(m.stream, m.to)]
    BY <1>4, <2>1 DEF DataArrives
  <2>3. /\ m.stream \in Streams /\ m.to \in Nat /\ m.from = got[m.stream] /\ m.from < m.to
        /\ m.to <= read[m.stream]
    BY <2>1, <2>2, HeadIsNext
  <2>4. start[m.stream] \in Nat /\ start[m.stream] <= m.to
    BY <1>0, <2>3 DEF OutputInv
  <2>5. RestFrom(m.stream, m.to) \in Nat /\ RestFrom(m.stream, m.to) <= m.to
    BY <2>3, <2>4, RestOf
  <2> QED BY <1>0, <2>2, <2>3, <2>5 DEF OutputInv, childVars, shimVars
<1>5. CASE ExitArrives \/ ShimLost
  <2>1. PICK ex \in {"exited", "lost"} : \E t \in Terminals :
                Up /\ toBeam # <<>> /\ Ended(ex, t)
    BY <1>5, EndEvidence, Zenon
  <2>2. start' = got /\ UNCHANGED <<childVars, shimVars, got>>
    BY <2>1, EndedEffect
  <2> QED BY <1>0, <2>2 DEF OutputInv, childVars, shimVars
<1>6. CASE \E c \in Callers : RecvBusy(c) \/ RecvLine(c) \/ RecvHold(c) \/ TerminalReply(c)
                              \/ RecvCall(c)
  BY <1>1, <1>6 DEF RecvBusy, RecvLine, RecvHold, TerminalReply, RecvCall, lineVars, shimVars
<1>7. CASE TimerFire \/ \E r \in late : RecvTimeout(r)
  BY <1>1, <1>7 DEF TimerFire, RecvTimeout, lineVars, shimVars
<1>8. CASE LimitExceeded \/ Stop \/ SettleData \/ SettleExit \/ SettleLost \/ SettleTimeout
  BY <1>1, <1>8 DEF LimitExceeded, Stop, SettleData, SettleExit, SettleLost, SettleTimeout,
                    Settle, lineVars, shimVars
<1>9. CASE Over \/ UNCHANGED vars
  BY <1>1, <1>9 DEF Over, vars, lineVars, shimVars
<1> QED BY <1>2, <1>3, <1>4, <1>5, <1>6, <1>7, <1>8, <1>9 DEF Next, Server

\* The session never comes back up.
LEMMA UpBefore ==
  ASSUME Core, [Next]_vars, Up' PROVE Up
<1> USE DEF Up
<1>1. ASSUME server' = server PROVE Up
  BY <1>1
<1>2. CASE Child \/ Shim \/ ShimCrash \/ SettleData \/ Over \/ UNCHANGED vars
  BY <1>2, QuietSteps DEF serverVars
<1>3. CASE \E c \in Callers : RecvBusy(c) \/ RecvLine(c) \/ RecvHold(c) \/ TerminalReply(c)
                              \/ RecvCall(c)
  BY <1>3 DEF RecvBusy, RecvLine, RecvHold, TerminalReply, RecvCall, serverVars
<1>4. CASE TimerFire \/ \E r \in late : RecvTimeout(r)
  BY <1>4 DEF TimerFire, RecvTimeout, serverVars
<1>5. CASE DataArrives \/ LimitExceeded \/ Stop \/ ExitArrives \/ ShimLost
  BY <1>5 DEF DataArrives, LimitExceeded, Stop, ExitArrives, ShimLost
<1>6. CASE SettleExit \/ SettleLost \/ SettleTimeout
  BY <1>6 DEF SettleExit, SettleLost, SettleTimeout, Settle, Publish
<1> QED BY <1>2, <1>3, <1>4, <1>5, <1>6 DEF Next, Server

LEMMA CoveredOf ==
  ASSUME NEW A, NEW l
  PROVE  /\ Covered(A \cup {l}) = Covered(A) \cup ((l.from + 1)..l.to)
         /\ \A p : p \in Covered(A) <=> \E m \in A : p \in (m.from + 1)..m.to
<1>1. \A S : \A p : p \in Covered(S) <=> \E m \in S : p \in (m.from + 1)..m.to
  BY Zenon DEF Covered
<1>2. Covered(A \cup {l}) = Covered(A) \cup ((l.from + 1)..l.to)
  <2> DEFINE ofL == (l.from + 1)..l.to
  <2>1. ASSUME NEW p PROVE p \in Covered(A \cup {l}) <=> p \in Covered(A) \cup ofL
    <3>1. p \in Covered(A \cup {l}) <=> \E m \in A \cup {l} : p \in (m.from + 1)..m.to
      BY <1>1, Zenon
    <3>2. p \in Covered(A) <=> \E m \in A : p \in (m.from + 1)..m.to
      BY <1>1, Zenon
    <3> QED BY <3>1, <3>2, Zenon
  <2> HIDE DEF ofL
  <2>2. Covered(A \cup {l}) = Covered(A) \cup ofL
    BY <2>1
  <2> QED BY <2>2 DEF ofL
<1> QED BY <1>1, <1>2, Zenon

LEMMA CoversMember ==
  ASSUME NEW A, NEW l \in A, NEW p \in (l.from + 1)..l.to
  PROVE  p \in Covered(A)
BY Zenon DEF Covered

LEMMA FramesInOf ==
  /\ \A s : FramesOf(s) = FramesIn(toBeam, s)
  /\ \A q \in Seq(Frames) : \A s : \A l :
       l \in FramesIn(q, s) <=>
         \E i \in 1..Len(q) : l = q[i] /\ l.kind = "data" /\ l.stream = s
<1>1. \A s : FramesOf(s) = FramesIn(toBeam, s)
  BY DEF FramesOf, FramesIn
<1>2. ASSUME NEW q \in Seq(Frames), NEW s, NEW l
      PROVE  l \in FramesIn(q, s) <=>
               \E i \in 1..Len(q) : l = q[i] /\ l.kind = "data" /\ l.stream = s
  <2>1. \A x : x \in Range(q) <=> \E i \in 1..Len(q) : q[i] = x
    BY RangeOf
  <2> QED BY <2>1 DEF FramesIn
<1> QED BY <1>1, <1>2

LEMMA AppendOther ==
  ASSUME NEW q \in Seq(Frames), NEW m \in Frames, m.kind # "data", InSequence(q)
  PROVE  /\ InSequence(Append(q, m))
         /\ \A s : FramesIn(Append(q, m), s) = FramesIn(q, s)
<1> DEFINE w == Append(q, m)
<1>1. /\ w \in Seq(Frames) /\ Len(w) = Len(q) + 1
      /\ \A i \in 1..Len(q) : w[i] = q[i]
      /\ w[Len(q) + 1] = m /\ Range(w) = Range(q) \cup {m}
  BY Appended
<1> HIDE DEF w
<1>2. \A i \in 1..Len(w) : w[i].kind = "data" => i \in 1..Len(q) /\ w[i] = q[i]
  <2>1. \A i \in 1..Len(w) : i \in 1..Len(q) \/ i = Len(q) + 1
    BY <1>1
  <2> QED BY <1>1, <2>1
<1>3. InSequence(w)
  BY <1>2 DEF InSequence
<1>4. \A s : FramesIn(w, s) = FramesIn(q, s)
  BY <1>1 DEF FramesIn
<1> QED BY <1>3, <1>4 DEF w

LEMMA AppendData ==
  ASSUME NEW q \in Seq(Frames), NEW m \in Frames, m.kind = "data", InSequence(q),
         m.from < m.to,
         \A i \in 1..Len(q) : q[i].kind = "data" /\ q[i].stream = m.stream => q[i].to <= m.from
  PROVE  /\ InSequence(Append(q, m))
         /\ FramesIn(Append(q, m), m.stream) = FramesIn(q, m.stream) \cup {m}
         /\ \A s : s # m.stream => FramesIn(Append(q, m), s) = FramesIn(q, s)
<1> DEFINE w == Append(q, m)
           n == Len(q)
<1>1. /\ w \in Seq(Frames) /\ Len(w) = n + 1 /\ n \in Nat
      /\ \A i \in 1..n : w[i] = q[i]
      /\ w[n + 1] = m /\ Range(w) = Range(q) \cup {m}
  BY Appended
<1> HIDE DEF w, n
<1>2. \A i \in 1..Len(w) : i \in 1..n \/ i = n + 1
  BY <1>1
<1>3. InSequence(w)
  <2>1. ASSUME NEW i \in 1..Len(w), w[i].kind = "data" PROVE w[i].from < w[i].to
    BY <1>1, <1>2, <2>1 DEF InSequence, n
  <2>2. ASSUME NEW i \in 1..Len(w), NEW j \in 1..Len(w), i < j, w[i].kind = "data",
               w[j].kind = "data", w[i].stream = w[j].stream
        PROVE  w[i].to <= w[j].from
    <3>1. i \in 1..n
      BY <1>1, <2>2
    <3>2. CASE j \in 1..n
      BY <1>1, <2>2, <3>1, <3>2 DEF InSequence, n
    <3>3. CASE j = n + 1
      BY <1>1, <2>2, <3>1, <3>3 DEF n
    <3> QED BY <1>2, <3>2, <3>3
  <2> QED BY <2>1, <2>2 DEF InSequence
<1>4. FramesIn(w, m.stream) = FramesIn(q, m.stream) \cup {m}
  BY <1>1 DEF FramesIn
<1>5. \A s : s # m.stream => FramesIn(w, s) = FramesIn(q, s)
  BY <1>1 DEF FramesIn
<1> QED BY <1>3, <1>4, <1>5 DEF w

LEMMA TailFrames ==
  ASSUME NEW q \in Seq(Frames), q # <<>>, InSequence(q)
  PROVE  /\ InSequence(Tail(q))
         /\ \A s : Head(q).kind # "data" \/ Head(q).stream # s =>
                     FramesIn(Tail(q), s) = FramesIn(q, s)
         /\ Head(q).kind = "data" =>
              /\ FramesIn(q, Head(q).stream) = FramesIn(Tail(q), Head(q).stream) \cup {Head(q)}
              /\ \A l \in FramesIn(Tail(q), Head(q).stream) : Head(q).to <= l.from
<1> DEFINE w == Tail(q)
           h == Head(q)
<1>1. /\ h \in Frames /\ h = q[1] /\ 1 \in 1..Len(q)
      /\ w \in Seq(Frames) /\ Len(w) = Len(q) - 1 /\ Len(q) \in Nat
      /\ \A i \in 1..Len(w) : w[i] = q[i + 1] /\ i + 1 \in 1..Len(q)
      /\ Range(q) = Range(w) \cup {h}
  BY Taken
<1> HIDE DEF w, h
<1>2. InSequence(w)
  <2>1. \A i, j \in 1..Len(w) : i < j => i + 1 < j + 1
    BY <1>1
  <2> QED BY <1>1, <2>1 DEF InSequence
<1>3. \A s : h.kind # "data" \/ h.stream # s => FramesIn(w, s) = FramesIn(q, s)
  BY <1>1 DEF FramesIn
<1>4. ASSUME h.kind = "data"
      PROVE  /\ FramesIn(q, h.stream) = FramesIn(w, h.stream) \cup {h}
             /\ \A l \in FramesIn(w, h.stream) : h.to <= l.from
  <2>1. FramesIn(q, h.stream) = FramesIn(w, h.stream) \cup {h}
    BY <1>1, <1>4 DEF FramesIn
  <2>2. ASSUME NEW l \in FramesIn(w, h.stream) PROVE h.to <= l.from
    <3>1. PICK i \in 1..Len(w) : l = w[i] /\ l.kind = "data" /\ l.stream = h.stream
      BY <1>1, <2>2, FramesInOf
    <3>2. i + 1 \in 1..Len(q) /\ w[i] = q[i + 1] /\ 1 < i + 1
      BY <1>1, <3>1
    <3> QED BY <1>1, <1>4, <3>1, <3>2 DEF InSequence
  <2> QED BY <2>1, <2>2
<1> QED BY <1>2, <1>3, <1>4 DEF w, h

LEMMA DataStep ==
  ASSUME Core, [Next]_vars
  PROVE  DataInv'
<1> SUFFICES ASSUME Up' PROVE DataInv'
  BY DEF DataInv
<1>0. /\ Up /\ InSequence(toBeam) /\ toBeam \in Seq(Frames)
      /\ \A s \in Streams : Covered(FramesIn(toBeam, s)) = (got[s] + 1)..read[s]
      /\ read \in [Streams -> Nat] /\ got \in [Streams -> Nat]
  BY UpBefore DEF Core, DataInv, Types, WireTypes, ShimTypes, LineTypes
<1>1. ASSUME UNCHANGED <<toBeam, got, read>> PROVE DataInv'
  BY <1>0, <1>1 DEF DataInv
<1>2. ASSUME NEW m \in Frames, m.kind # "data", toBeam' = Append(toBeam, m),
             UNCHANGED <<got, read>>
      PROVE  DataInv'
  BY <1>0, <1>2, AppendOther DEF DataInv
<1>3. ASSUME NEW s \in Streams, NEW k \in 1..FrameMax, PumpForward(s, k) PROVE DataInv'
  <2>0. k \in Nat \ {0}
    BY LimitAssumption
  <2>1. PICK m : m = [kind |-> "data", stream |-> s, from |-> read[s], to |-> read[s] + k]
    OBVIOUS
  <2>2. /\ toBeam' = Append(toBeam, m) /\ got' = got
        /\ read' = [read EXCEPT ![s] = @ + k]
    BY <1>3, <2>1 DEF PumpForward, lineVars
  <2>3. /\ m \in Frames /\ m.kind = "data" /\ m.stream = s
        /\ m.from = read[s] /\ m.to = read[s] + k /\ m.from < m.to
    BY <1>0, <2>0, <2>1 DEF Frames
  <2>4. ASSUME NEW i \in 1..Len(toBeam), toBeam[i].kind = "data", toBeam[i].stream = s
        PROVE  toBeam[i].to <= read[s]
    <3>1. toBeam[i].from \in Nat /\ toBeam[i].to \in Nat /\ toBeam[i].from < toBeam[i].to
      BY <1>0, <2>4, DataFrameTypes DEF InSequence
    <3>2. toBeam[i] \in FramesIn(toBeam, s)
      BY <1>0, <2>4, FramesInOf
    <3>3. toBeam[i].to \in (toBeam[i].from + 1)..toBeam[i].to
      BY <3>1
    <3>4. toBeam[i].to \in (got[s] + 1)..read[s]
      <4>1. toBeam[i].to \in Covered(FramesIn(toBeam, s))
        BY <3>2, <3>3, CoversMember, Zenon
      <4> QED BY <1>0, <4>1
    <3> QED BY <1>0, <3>4
  <2>5. /\ InSequence(toBeam')
        /\ FramesIn(toBeam', s) = FramesIn(toBeam, s) \cup {m}
        /\ \A x : x # s => FramesIn(toBeam', x) = FramesIn(toBeam, x)
    BY <1>0, <2>2, <2>3, <2>4, AppendData
  <2>6. Covered(FramesIn(toBeam', s)) = (got[s] + 1)..(read[s] + k)
    <3>1. Covered(FramesIn(toBeam', s)) = (got[s] + 1)..read[s] \cup (read[s] + 1)..(read[s] + k)
      <4>1. Covered(FramesIn(toBeam', s)) =
              Covered(FramesIn(toBeam, s)) \cup ((m.from + 1)..m.to)
        BY <2>5, CoveredOf, Zenon
      <4> QED BY <1>0, <2>3, <4>1
    <3>2. got[s] <= read[s]
      BY DEF Core, OutputInv
    <3> QED BY <1>0, <2>0, <3>1, <3>2
  <2>7. ASSUME NEW x \in Streams
        PROVE  Covered(FramesIn(toBeam', x)) = (got'[x] + 1)..read'[x]
    <3>1. CASE x = s
      BY <1>0, <2>2, <2>6, <3>1
    <3>2. CASE x # s
      BY <1>0, <2>2, <2>5, <3>2
    <3> QED BY <3>1, <3>2
  <2> QED BY <2>5, <2>7 DEF DataInv
<1>4. CASE Shim \/ ShimCrash
  <2>1. ASSUME NEW b \in BOOLEAN, WriteExit(b) PROVE DataInv'
    <3>1. PICK m : m = [kind |-> "exit", truncated |-> b]
      OBVIOUS
    <3>2. m \in Frames /\ m.kind # "data" /\ toBeam' = Append(toBeam, m)
          /\ UNCHANGED <<got, read>>
      BY <2>1, <3>1 DEF WriteExit, Frames, lineVars
    <3> QED BY <1>2, <3>2
  <2>2. CASE ShimCrash
    <3>1. PICK m : m = [kind |-> "exit_status"]
      OBVIOUS
    <3>2. m \in Frames /\ m.kind # "data" /\ toBeam' = Append(toBeam, m)
          /\ UNCHANGED <<got, read>>
      BY <2>2, <3>1 DEF ShimCrash, Frames, lineVars
    <3> QED BY <1>2, <3>2
  <2>3. CASE ShimCredit \/ ShimKill \/ ShimReap \/ ShimLeft \/ \E s \in Streams : PumpEof(s)
    BY <1>1, <2>3 DEF ShimCredit, ShimKill, ShimReap, ShimLeft, PumpEof, lineVars, wireVars
  <2> QED BY <1>3, <1>4, <2>1, <2>2, <2>3 DEF Shim, ShimDrained, ShimCut
<1>5. CASE DataArrives
  <2>1. PICK m : m = Head(toBeam)
    OBVIOUS
  <2>2. /\ Arrived("data") /\ toBeam' = Tail(toBeam) /\ read' = read
        /\ got' = [got EXCEPT ![m.stream] = m.to]
    BY <1>5, <2>1 DEF DataArrives, shimVars
  <2>3. /\ toBeam # <<>> /\ m.kind = "data"
        /\ m.stream \in Streams /\ m.to \in Nat /\ m.from = got[m.stream] /\ m.from < m.to
        /\ m.to <= read[m.stream]
    BY <1>0, <2>1, <2>2, HeadIsNext DEF Arrived
  <2>4. PICK s \in Streams : s = m.stream
    BY <2>3
  <2>5. /\ InSequence(toBeam')
        /\ \A x : x # s => FramesIn(toBeam', x) = FramesIn(toBeam, x)
        /\ FramesIn(toBeam, s) = FramesIn(toBeam', s) \cup {m}
        /\ \A l \in FramesIn(toBeam', s) : m.to <= l.from
    BY <1>0, <2>1, <2>2, <2>3, <2>4, TailFrames
  <2>6. toBeam' \in Seq(Frames)
    BY <1>0, <2>2, <2>3, Taken
  <2>7. Covered(FramesIn(toBeam', s)) = (m.to + 1)..read[s]
    <3> DEFINE C == Covered(FramesIn(toBeam', s))
    <3>1. C \cup (m.from + 1)..m.to = (got[s] + 1)..read[s]
      <4>1. Covered(FramesIn(toBeam, s)) = C \cup ((m.from + 1)..m.to)
        BY <2>5, CoveredOf, Zenon
      <4> QED BY <1>0, <4>1
    <3>2. ASSUME NEW p \in C PROVE p > m.to /\ p \in Nat
      <4>1. PICK l \in FramesIn(toBeam', s) : p \in (l.from + 1)..l.to
        BY CoveredOf
      <4>2. PICK i \in 1..Len(toBeam') : l = toBeam'[i] /\ l.kind = "data"
        BY <2>6, <4>1, FramesInOf
      <4>3. l.from \in Nat /\ l.to \in Nat
        BY <2>6, <4>2, DataFrameTypes
      <4> QED BY <2>3, <2>5, <4>1, <4>3
    <3> HIDE DEF C
    <3>3. ASSUME NEW p \in C PROVE p \in (m.to + 1)..read[s]
      <4>1. p \in (got[s] + 1)..read[s]
        BY <3>1
      <4> QED BY <2>3, <3>2, <4>1
    <3>4. ASSUME NEW p \in (m.to + 1)..read[s] PROVE p \in C
      <4>1. p \in (got[s] + 1)..read[s] /\ p \notin (m.from + 1)..m.to
        BY <1>0, <2>3, <2>4
      <4> QED BY <3>1, <4>1
    <3>5. C = (m.to + 1)..read[s]
      BY <3>3, <3>4
    <3> QED BY <3>5 DEF C
  <2>8. ASSUME NEW x \in Streams
        PROVE  Covered(FramesIn(toBeam', x)) = (got'[x] + 1)..read'[x]
    <3>1. CASE x = s
      BY <1>0, <2>2, <2>4, <2>7, <3>1
    <3>2. CASE x # s
      BY <1>0, <2>2, <2>4, <2>5, <3>2
    <3> QED BY <3>1, <3>2
  <2> QED BY <2>5, <2>8 DEF DataInv
<1>6. CASE ExitArrives \/ ShimLost
  <2>1. PICK ex \in {"exited", "lost"} : \E t \in Terminals :
                Up /\ toBeam # <<>> /\ Ended(ex, t) /\ Head(toBeam).kind # "data"
    <3>1. ExitArrives \/ ShimLost => Head(toBeam).kind # "data"
      BY DEF ExitArrives, ShimLost, Arrived
    <3> QED BY <1>6, <3>1, EndEvidence, Zenon
  <2>2. /\ UNCHANGED <<shimVars, got>>
        /\ server' = "down" \/ toBeam' = Tail(toBeam)
    BY <2>1, EndedEffect
  <2>3. toBeam' = Tail(toBeam)
    BY <2>2 DEF Up
  <2>4. /\ InSequence(toBeam')
        /\ \A x : FramesIn(toBeam', x) = FramesIn(toBeam, x)
    BY <1>0, <2>1, <2>3, TailFrames
  <2> QED BY <1>0, <2>2, <2>4 DEF DataInv, shimVars
<1>7. CASE Child
  BY <1>1, <1>7 DEF Child, ChildExit, ChildWrite, shimVars, wireVars, lineVars
<1>8. CASE \E c \in Callers : RecvBusy(c) \/ RecvHold(c) \/ TerminalReply(c) \/ RecvCall(c)
  BY <1>1, <1>8 DEF RecvBusy, RecvHold, TerminalReply, RecvCall, lineVars, shimVars, wireVars
<1>9. ASSUME NEW c \in Callers, RecvLine(c) PROVE DataInv'
  <2>1. UNCHANGED <<got, read>> /\ (server' = "down" \/ toBeam' = toBeam)
    BY <1>9 DEF RecvLine, Publish, shimVars
  <2> QED BY <1>1, <2>1 DEF Up
<1>10. CASE TimerFire \/ \E r \in late : RecvTimeout(r)
  BY <1>1, <1>10 DEF TimerFire, RecvTimeout, lineVars, shimVars, wireVars
<1>11. CASE LimitExceeded \/ Stop \/ SettleData \/ SettleExit \/ SettleLost \/ SettleTimeout
  <2>1. server' # "up"
    BY <1>11 DEF LimitExceeded, Stop, SettleData, SettleExit, SettleLost, SettleTimeout,
                 Settle, Publish, StartSettling, serverVars
  <2> QED BY <2>1 DEF Up
<1>12. CASE Over \/ UNCHANGED vars
  BY <1>1, <1>12 DEF Over, vars, lineVars, shimVars, wireVars
<1> QED BY <1>4, <1>5, <1>6, <1>7, <1>8, <1>9, <1>10, <1>11, <1>12 DEF Next, Server

-----------------------------------------------------------------------------
(* The end.                                                                *)

LEMMA EndWhole ==
  ASSUME Core, Up, toBeam # <<>>, Head(toBeam).kind = "exit"
  PROVE  got = read
<1>1. /\ toBeam \in Seq(Frames) /\ Head(toBeam) = toBeam[1] /\ 1 \in 1..Len(toBeam)
      /\ got \in [Streams -> Nat] /\ read \in [Streams -> Nat]
  BY HeadFrame DEF Core, Types, WireTypes, LineTypes, ShimTypes
<1>2. \A i \in 1..Len(toBeam) : toBeam[i].kind # "data"
  <2>1. ASSUME NEW i \in 1..Len(toBeam) PROVE toBeam[i].kind # "data"
    <3>1. i = 1 \/ 1 < i
      OBVIOUS
    <3>2. i # 1 => toBeam[i].kind = "exit_status"
      BY <1>1, <3>1 DEF Core, EndFramesInv
    <3> QED BY <1>1, <3>2
  <2> QED BY <2>1
<1>3. ASSUME NEW s \in Streams PROVE got[s] = read[s]
  <2>1. FramesIn(toBeam, s) = {}
    BY <1>1, <1>2, FramesInOf
  <2>2. Covered({}) = {}
    BY DEF Covered
  <2>3. (got[s] + 1)..read[s] = {}
    BY <2>1, <2>2 DEF Core, DataInv
  <2>4. got[s] \in Nat /\ read[s] \in Nat /\ got[s] <= read[s]
    BY <1>1 DEF Core, OutputInv
  <2>5. read[s] \notin (got[s] + 1)..read[s]
    BY <2>3
  <2> QED BY <2>4, <2>5
<1> QED BY <1>1, <1>3

LEMMA EndKeepsEnd ==
  ASSUME Core, ExitArrives \/ ShimLost, Up'
  PROVE  EndInv' /\ EndFramesInv'
<1>1. PICK ex \in {"exited", "lost"} : \E t \in Terminals :
        /\ Up /\ toBeam # <<>> /\ Ended(ex, t)
        /\ ex = "exited" => Head(toBeam).kind = "exit"
        /\ ex = "lost" => Head(toBeam).kind = "exit_status"
  BY EndEvidence, Zenon
<1>2. /\ exit' = ex /\ start' = got /\ UNCHANGED <<shimVars, toShim, got>>
      /\ server' = "down" \/ toBeam' = Tail(toBeam)
  BY <1>1, EndedEffect
<1>3. /\ toBeam' = Tail(toBeam) /\ UNCHANGED <<read, eof, shim, toShim, got>>
  BY <1>2 DEF Up, shimVars
<1>4. /\ Head(toBeam) = toBeam[1] /\ 1 \in 1..Len(toBeam)
      /\ toBeam' \in Seq(Frames) /\ Len(toBeam') = Len(toBeam) - 1
      /\ \A i \in 1..Len(toBeam') : toBeam'[i] = toBeam[i + 1] /\ i + 1 \in 1..Len(toBeam)
  BY <1>1, <1>3, HeadFrame DEF Core
<1>5. EndInv /\ EndFramesInv
  BY DEF Core
<1>6. CASE ex = "exited"
  <2>1. toBeam[1].kind = "exit" /\ shim \in {"linger", "gone"} /\ eof = Streams
    BY <1>1, <1>4, <1>5, <1>6 DEF EndFramesInv
  <2>2. got = read
    BY <1>1, <1>6, EndWhole
  <2>3. EndInv'
    BY <1>1, <1>2, <1>3, <1>5, <1>6, <2>1, <2>2 DEF EndInv
  <2>4. ASSUME NEW i \in 1..Len(toBeam')
        PROVE  /\ toBeam'[i].kind = "exit_status" /\ shim = "gone" /\ i = Len(toBeam')
    <3>1. 1 < i + 1 /\ i + 1 \in 1..Len(toBeam)
      BY <1>4
    <3>2. toBeam[i + 1].kind = "exit_status"
      BY <1>1, <1>4, <1>5, <2>1, <3>1 DEF EndFramesInv
    <3>3. shim = "gone" /\ i + 1 = Len(toBeam)
      BY <1>1, <1>5, <3>1, <3>2 DEF EndFramesInv
    <3> QED BY <1>4, <3>2, <3>3
  <2>5. EndFramesInv'
    BY <1>2, <1>3, <1>6, <2>4 DEF EndFramesInv
  <2> QED BY <2>3, <2>5
<1>7. CASE ex = "lost"
  <2>1. shim = "gone" /\ 1 = Len(toBeam)
    BY <1>1, <1>4, <1>5, <1>7 DEF EndFramesInv
  <2>2. EndInv'
    BY <1>1, <1>2, <1>3, <1>5, <1>7, <2>1 DEF EndInv
  <2>3. 1..Len(toBeam') = {}
    <3>1. Len(toBeam') = 0
      <4>1. Len(toBeam') = Len(toBeam) - 1
        BY <1>4
      <4> QED BY <2>1, <4>1
    <3> QED BY <3>1
  <2>4. EndFramesInv'
    BY <2>3 DEF EndFramesInv
  <2> QED BY <2>2, <2>4
<1> QED BY <1>6, <1>7

LEMMA ShimKeepsEnd ==
  ASSUME Core, Up, UNCHANGED <<exit, got, start>>, Shim \/ ShimCrash
  PROVE  EndInv' /\ EndFramesInv'
<1>0. /\ EndInv /\ EndFramesInv /\ toBeam \in Seq(Frames) /\ toShim \in Seq(Requests)
      /\ eof \in SUBSET Streams
  BY DEF Core, Types, WireTypes, ShimTypes
<1>1. CASE ShimCredit \/ ShimKill
  <2>1. toShim # <<>> /\ toShim' = Tail(toShim) /\ UNCHANGED <<toBeam, read, eof>>
    BY <1>1 DEF ShimCredit, ShimKill
  <2>2. /\ Head(toShim) = toShim[1] /\ 1 \in 1..Len(toShim)
        /\ \A i \in 1..Len(toShim') : toShim'[i] = toShim[i + 1] /\ i + 1 \in 1..Len(toShim)
    BY <1>0, <2>1, Taken
  <2>3. Head(toShim).kind # "kill"
    BY <1>0, <2>2 DEF EndInv
  <2>4. shim' = shim
    BY <1>1, <2>3 DEF ShimCredit, ShimKill
  <2>5. \A i \in 1..Len(toShim') : toShim'[i].kind # "kill"
    BY <1>0, <2>2 DEF EndInv
  <2>6. EndInv'
    BY <1>0, <2>1, <2>4, <2>5 DEF EndInv
  <2>7. EndFramesInv'
    BY <1>0, <2>1, <2>4 DEF EndFramesInv
  <2> QED BY <2>6, <2>7
<1>2. CASE ShimReap
  <2>1. shim = "loop" /\ shim' = "drain" /\ UNCHANGED <<toBeam, toShim, read, eof>>
    BY <1>0, <1>2 DEF ShimReap, EndInv, wireVars
  <2>2. EndInv'
    BY <1>0, <2>1 DEF EndInv
  <2>3. EndFramesInv'
    BY <1>0, <2>1 DEF EndFramesInv
  <2> QED BY <2>2, <2>3
<1>3. CASE ShimLeft
  <2>1. shim' = "gone" /\ UNCHANGED <<toBeam, toShim, read, eof>>
    BY <1>3 DEF ShimLeft, wireVars
  <2>2. EndInv'
    BY <1>0, <2>1 DEF EndInv
  <2>3. EndFramesInv'
    BY <1>0, <2>1 DEF EndFramesInv
  <2> QED BY <2>2, <2>3
<1>4. ASSUME NEW s \in Streams, PumpEof(s) PROVE EndInv' /\ EndFramesInv'
  <2>1. eof' = eof \cup {s} /\ UNCHANGED <<toBeam, toShim, read, shim>>
    BY <1>4 DEF PumpEof, wireVars
  <2>2. eof = Streams => eof' = Streams
    BY <2>1
  <2>3. EndInv'
    BY <1>0, <2>1, <2>2 DEF EndInv
  <2>4. EndFramesInv'
    BY <1>0, <2>1, <2>2 DEF EndFramesInv
  <2> QED BY <2>3, <2>4
<1>5. ASSUME NEW m \in Frames, toBeam' = Append(toBeam, m),
             UNCHANGED <<eof, toShim>>, shim # "gone",
             \/ m.kind = "data" /\ exit = "none" /\ shim' = shim /\ eof # Streams
             \/ m.kind = "exit" /\ ~m.truncated /\ eof = Streams /\ shim = "drain"
                  /\ shim' = "linger" /\ read' = read
             \/ m.kind = "exit_status" /\ shim' = "gone" /\ read' = read
      PROVE  EndInv' /\ EndFramesInv'
  <2> DEFINE n == Len(toBeam)
  <2>1. /\ Len(toBeam') = n + 1 /\ n \in Nat
        /\ \A i \in 1..n : toBeam'[i] = toBeam[i]
        /\ toBeam'[n + 1] = m
    BY <1>0, <1>5, Appended
  <2>2. \A i \in 1..Len(toBeam') : i \in 1..n \/ i = n + 1
    BY <2>1
  <2>3. EndInv'
    BY <1>0, <1>5 DEF EndInv
  <2>4. /\ \A i \in 1..n : toBeam[i].kind # "exit_status"
        /\ shim = "drain" \/ eof # Streams => \A i \in 1..n : toBeam[i].kind # "exit"
        /\ shim = "drain" => exit = "none"
        /\ exit # "lost"
    <3>1. /\ exit = "lost" => shim = "gone"
          /\ exit = "exited" => shim \in {"linger", "gone"}
          /\ exit \in {"none", "exited", "lost"}
      BY <1>0 DEF EndInv, Core, Types, ServerTypes
    <3>2. \A i \in 1..n : toBeam[i].kind = "exit_status" => shim = "gone"
      BY <1>0 DEF EndFramesInv
    <3>3. \A i \in 1..n : toBeam[i].kind = "exit" => eof = Streams /\ shim # "drain"
      BY <1>0 DEF EndFramesInv
    <3>4. shim # "gone"
      BY <1>5
    <3> HIDE DEF n
    <3> QED BY <3>1, <3>2, <3>3, <3>4
  <2> HIDE DEF n
  <2>5. ASSUME NEW i \in 1..(n + 1)
        PROVE  /\ toBeam'[i].kind = "exit" =>
                    ~toBeam'[i].truncated /\ eof' = Streams
                      /\ shim' \in {"linger", "gone"} /\ exit' = "none"
               /\ toBeam'[i].kind = "exit_status" =>
                    shim' = "gone" /\ i = Len(toBeam') /\ exit' # "lost"
               /\ toBeam'[i].kind = "data" => exit' = "none"
    <3>1. CASE i = n + 1
      BY <1>5, <2>1, <2>4, <3>1
    <3>2. CASE i \in 1..n
      <4>1. /\ toBeam[i].kind = "exit" => ~toBeam[i].truncated /\ eof = Streams
                                          /\ shim \in {"linger", "gone"} /\ exit = "none"
            /\ toBeam[i].kind = "data" => exit = "none"
        BY <1>0, <3>2 DEF EndFramesInv, n
      <4> QED BY <1>5, <2>1, <2>4, <3>2, <4>1
    <3> QED BY <2>1, <2>2, <3>1, <3>2
  <2>6. ASSUME NEW i \in 1..(n + 1), NEW j \in 1..(n + 1), i < j, toBeam'[i].kind = "exit"
        PROVE  toBeam'[j].kind = "exit_status"
    <3>1. i \in 1..n
      BY <2>1, <2>6
    <3>2. toBeam[i].kind = "exit" /\ eof = Streams /\ shim # "drain"
      BY <2>1, <2>4, <2>6, <3>1, <1>0 DEF EndFramesInv, n
    <3>3. m.kind = "exit_status"
      BY <1>5, <3>2
    <3>4. CASE j = n + 1
      BY <2>1, <3>3, <3>4
    <3>5. CASE j \in 1..n
      BY <1>0, <2>1, <2>6, <3>1, <3>2, <3>5 DEF EndFramesInv, n
    <3> QED BY <2>1, <2>2, <3>4, <3>5
  <2> QED BY <2>1, <2>3, <2>5, <2>6 DEF EndFramesInv
<1>6. ASSUME NEW s \in Streams, NEW k \in 1..FrameMax, PumpForward(s, k)
      PROVE  EndInv' /\ EndFramesInv'
  <2>1. PICK m : m = [kind |-> "data", stream |-> s, from |-> read[s], to |-> read[s] + k]
    OBVIOUS
  <2>2. /\ toBeam' = Append(toBeam, m) /\ UNCHANGED <<eof, shim, toShim>>
        /\ shim # "gone" /\ s \notin eof
    BY <1>6, <2>1 DEF PumpForward, Alive
  <2>3. m \in Frames /\ m.kind = "data"
    <3>1. k \in Nat /\ read[s] \in Nat
      BY LimitAssumption DEF Core, Types, ShimTypes
    <3> QED BY <2>1, <3>1 DEF Frames
  <2>4. eof # Streams /\ exit = "none"
    BY <1>0, <2>2 DEF EndInv, Core, Types, ServerTypes
  <2> QED BY <1>5, <2>2, <2>3, <2>4
<1>7. CASE ShimDrained
  <2>1. PICK m : m = [kind |-> "exit", truncated |-> FALSE]
    OBVIOUS
  <2>2. m \in Frames /\ m.kind = "exit" /\ ~m.truncated
    BY <2>1 DEF Frames
  <2>3. /\ toBeam' = Append(toBeam, m) /\ UNCHANGED <<eof, toShim, read>>
        /\ shim = "drain" /\ shim' = "linger" /\ eof = Streams
    BY <1>7, <2>1 DEF ShimDrained, WriteExit
  <2> QED BY <1>5, <2>2, <2>3
<1>8. CASE ShimCrash
  <2>1. PICK m : m = [kind |-> "exit_status"]
    OBVIOUS
  <2>2. m \in Frames /\ m.kind = "exit_status"
    BY <2>1 DEF Frames
  <2>3. /\ toBeam' = Append(toBeam, m) /\ UNCHANGED <<eof, toShim, read>>
        /\ shim # "gone" /\ shim' = "gone"
    BY <1>8, <2>1 DEF ShimCrash, Alive
  <2> QED BY <1>5, <2>2, <2>3
<1>9. ~ShimCut
  BY <1>0 DEF ShimCut, EndInv
<1> QED BY <1>1, <1>2, <1>3, <1>4, <1>6, <1>7, <1>8, <1>9 DEF Shim

LEMMA EndStep ==
  ASSUME Core, [Next]_vars
  PROVE  EndInv' /\ EndFramesInv'
<1> SUFFICES ASSUME Up' PROVE EndInv' /\ EndFramesInv'
  BY DEF EndInv, EndFramesInv
<1>0. Up /\ EndInv /\ EndFramesInv
  BY UpBefore DEF Core
<1>1. ASSUME UNCHANGED <<toBeam, shim, eof, exit, got, start, read>>,
             \A i \in 1..Len(toShim') : toShim'[i].kind # "kill"
      PROVE  EndInv' /\ EndFramesInv'
  <2>1. EndInv'
    BY <1>0, <1>1 DEF EndInv
  <2>2. EndFramesInv'
    BY <1>0, <1>1 DEF EndFramesInv
  <2> QED BY <2>1, <2>2
<1>2. ASSUME UNCHANGED <<toBeam, toShim, shim, eof, exit, got, start, read>>
      PROVE  EndInv' /\ EndFramesInv'
  <2>1. \A i \in 1..Len(toShim') : toShim'[i].kind # "kill"
    BY <1>0, <1>2 DEF EndInv
  <2> QED BY <1>1, <1>2, <2>1
<1>3. CASE Shim \/ ShimCrash
  <2>1. UNCHANGED <<exit, got, start>>
    BY <1>3, QuietSteps DEF serverVars, lineVars
  <2> QED BY <1>0, <1>3, <2>1, ShimKeepsEnd
<1>4. CASE ExitArrives \/ ShimLost
  BY <1>4, EndKeepsEnd
<1>5. CASE DataArrives
  <2>1. PICK m : m = Head(toBeam)
    OBVIOUS
  <2>2. /\ Arrived("data") /\ toBeam' = Tail(toBeam)
        /\ UNCHANGED <<shimVars, toShim, exit>>
    BY <1>5 DEF DataArrives, serverVars
  <2>3. exit = "none" /\ toBeam # <<>>
    BY <1>0, <2>2, HeadIsNext DEF Arrived
  <2>4. EndInv'
    BY <1>0, <2>2, <2>3 DEF EndInv, shimVars
  <2>5. /\ Len(toBeam') = Len(toBeam) - 1
        /\ \A i \in 1..Len(toBeam') : toBeam'[i] = toBeam[i + 1] /\ i + 1 \in 1..Len(toBeam)
        /\ Len(toBeam) \in Nat
    BY <2>2, <2>3, HeadFrame DEF Core, Types, WireTypes
  <2>6. \A i, j \in 1..Len(toBeam') : i < j => i + 1 < j + 1
    BY <2>5
  <2>7. \A i \in 1..Len(toBeam') : i + 1 = Len(toBeam) => i = Len(toBeam')
    BY <2>5
  <2>8. UNCHANGED <<shim, eof, exit>>
    BY <2>2 DEF shimVars
  <2>9. EndFramesInv'
    <3>1. Up
      BY <1>0
    <3>2. ASSUME NEW i \in 1..Len(toBeam'), NEW j \in 1..Len(toBeam'), i < j,
                 toBeam'[i].kind = "exit"
          PROVE  toBeam'[j].kind = "exit_status"
      BY <1>0, <2>5, <2>6, <3>1, <3>2 DEF EndFramesInv
    <3>3. ASSUME NEW i \in 1..Len(toBeam')
          PROVE  /\ toBeam'[i].kind = "exit" => ~toBeam'[i].truncated /\ eof' = Streams
                                       /\ shim' \in {"linger", "gone"} /\ exit' = "none"
                 /\ toBeam'[i].kind = "exit_status" =>
                      shim' = "gone" /\ i = Len(toBeam') /\ exit' # "lost"
                 /\ toBeam'[i].kind = "data" => exit' = "none"
      <4>1. toBeam'[i] = toBeam[i + 1] /\ i + 1 \in 1..Len(toBeam)
        BY <2>5
      <4> QED BY <1>0, <2>3, <2>7, <2>8, <3>1, <4>1 DEF EndFramesInv
    <3> QED BY <3>2, <3>3 DEF EndFramesInv
  <2> QED BY <2>4, <2>9
<1>6. CASE Child
  BY <1>2, <1>6 DEF Child, ChildExit, ChildWrite, shimVars, wireVars, serverVars, lineVars
<1>7. CASE \E c \in Callers : RecvBusy(c) \/ TerminalReply(c) \/ RecvCall(c)
  BY <1>2, <1>7 DEF RecvBusy, TerminalReply, RecvCall, lineVars, shimVars, wireVars, serverVars
<1>8. ASSUME NEW c \in Callers, RecvLine(c) PROVE EndInv' /\ EndFramesInv'
  <2>1. /\ UNCHANGED <<got, start, read, eof, shim, exit, toShim>>
        /\ (server' = "down" \/ toBeam' = toBeam)
    BY <1>8 DEF RecvLine, Publish, shimVars
  <2> QED BY <1>2, <2>1 DEF Up
<1>9. ASSUME NEW c \in Callers, RecvHold(c) PROVE EndInv' /\ EndFramesInv'
  <2>1. /\ UNCHANGED <<toBeam, shim, eof, exit, got, start, read>>
        /\ toShim' = toShim \o Grants
    BY <1>9 DEF RecvHold, shimVars, serverVars
  <2>2. Grants \in Seq(Requests) /\ toShim \in Seq(Requests)
        /\ \A i \in 1..Len(Grants) : Grants[i].kind = "credit"
    BY GrantsTypes DEF Core, Types, WireTypes, LineTypes
  <2>3. \A i \in 1..Len(toShim') : toShim'[i].kind # "kill"
    <3>1. ASSUME NEW i \in 1..Len(toShim') PROVE toShim'[i].kind # "kill"
      <4>1. Len(toShim') = Len(toShim) + Len(Grants) /\ Len(toShim) \in Nat
            /\ Len(Grants) \in Nat
        BY <2>1, <2>2, Joined
      <4>2. CASE i \in 1..Len(toShim)
        BY <1>0, <2>1, <2>2, <4>2, Joined DEF EndInv
      <4>3. CASE i - Len(toShim) \in 1..Len(Grants)
        <5>1. PICK j \in 1..Len(Grants) : i = Len(toShim) + j
          BY <4>1, <4>3
        <5>2. toShim'[i] = Grants[j]
          BY <2>1, <2>2, <5>1, Joined
        <5> QED BY <2>2, <5>2
      <4> QED BY <4>1, <4>2, <4>3
    <3> QED BY <3>1
  <2> QED BY <1>1, <2>1, <2>3
<1>10. CASE TimerFire \/ \E r \in late : RecvTimeout(r)
  BY <1>2, <1>10 DEF TimerFire, RecvTimeout, lineVars, shimVars, wireVars, serverVars
<1>11. CASE LimitExceeded \/ Stop \/ SettleData \/ SettleExit \/ SettleLost \/ SettleTimeout
  <2>1. server' # "up"
    BY <1>11 DEF LimitExceeded, Stop, SettleData, SettleExit, SettleLost, SettleTimeout,
                 Settle, Publish, StartSettling, serverVars
  <2> QED BY <2>1 DEF Up
<1>12. CASE Over \/ UNCHANGED vars
  BY <1>2, <1>12 DEF Over, vars, lineVars, shimVars, wireVars, serverVars
<1> QED BY <1>3, <1>4, <1>5, <1>6, <1>7, <1>8, <1>9, <1>10, <1>11, <1>12 DEF Next, Server

LEMMA CoreInductive ==
  ASSUME Core, [Next]_vars PROVE Core'
BY TypesStep, TicketStep, SessionStep, OutputStep, EndStep, DataStep DEF Core

LEMMA CoreHolds ==
  Spec => []Core
<1>1. Init => Core
  BY CoreInit
<1>2. Core /\ [Next]_vars => Core'
  BY CoreInductive
<1> QED BY <1>1, <1>2, PTL DEF Spec

\* The server, its held call and its callers agree at every moment.
THEOREM SessionIsConsistent ==
  Spec => []SessionConsistent
<1>1. Core => SessionConsistent
  BY TypesAreRight DEF Core, Consistent, SessionConsistent
<1> QED BY <1>1, CoreHolds, PTL

\* A recv times out by its own timer only, and never with an infinite timeout.
THEOREM TimeoutsAreOwn ==
  Spec => NoForeignTimeout
<1>1. Core /\ [Next]_vars =>
        [\A c \in Callers :
           call[c] = "held" /\ call'[c] = "idle" /\ answer'[c] = Timeout =>
             c \notin Patient /\ ticket[c] \in late]_vars
  <2> SUFFICES ASSUME Core, Next, NEW c \in Callers, call[c] = "held", call'[c] = "idle",
                      answer'[c] = Timeout
               PROVE  c \notin Patient /\ ticket[c] \in late
    BY Zenon
  <2>0. Types /\ WaiterInv /\ TicketInv /\ HeldCallIsWaiter /\ EvidenceInv
    BY DEF Core, Consistent
  <2>1. ASSUME NEW d, NEW a, Reply(d, a) PROVE d = c /\ a = Timeout
    BY <2>0, <2>1 DEF Reply, Types, CallTypes
  <2>2. call' # call
    OBVIOUS
  <2>3. CASE \E r \in late : RecvTimeout(r)
    <3>1. PICK r \in late : RecvTimeout(r)
      BY <2>3
    <3>2. Up /\ Own(r) /\ Reply(waiter.caller, Timeout)
      BY <2>2, <3>1, Zenon DEF RecvTimeout
    <3>3. waiter # NoWaiter /\ waiter.ref = r /\ waiter.caller = c
      BY <2>1, <3>2 DEF Own
    <3>4. ticket[c] = r
      BY <2>0, <3>2, <3>3 DEF WaiterInv
    <3> QED BY <2>0, <3>4 DEF TicketInv
  <2>4. ASSUME NEW q, ServeWaiter(q) PROVE FALSE
    <3>1. Reply(waiter.caller, Line)
      BY <2>2, <2>4, Zenon DEF ServeWaiter, Deliver
    <3> QED BY <2>1, <3>1, KindOfAnswer
  <2>5. ~DataArrives
    BY <2>4, Zenon DEF DataArrives
  <2>6. ASSUME ExitArrives \/ ShimLost PROVE FALSE
    <3>1. PICK ex, t : Ended(ex, t)
      BY <2>6, Zenon DEF ExitArrives, ShimLost
    <3>2. Reply(waiter.caller, Done(t)) \/ \E q : ServeWaiter(q)
      BY <3>1, Zenon DEF Ended
    <3> QED BY <2>1, <2>4, <3>2, KindOfAnswer
  <2>7. ASSUME NEW d \in Callers, RecvBusy(d) \/ RecvLine(d) \/ TerminalReply(d) PROVE FALSE
    <3>1. Reply(d, Busy) \/ Reply(d, Line) \/ Reply(d, Done(terminal))
      BY <2>7 DEF RecvBusy, RecvLine, TerminalReply, Deliver
    <3> QED BY <2>1, <3>1, KindOfAnswer
  <2>8. ASSUME NEW d \in Callers, RecvHold(d) \/ RecvCall(d) PROVE FALSE
    BY <2>0, <2>8 DEF RecvHold, RecvCall, Types, CallTypes
  <2>9. ~(Child \/ Shim \/ ShimCrash \/ SettleData \/ Over)
    BY <2>2, QuietSteps DEF callVars
  <2>10. ~(TimerFire \/ LimitExceeded \/ Stop \/ SettleExit \/ SettleLost \/ SettleTimeout)
    BY <2>2 DEF TimerFire, LimitExceeded, Stop, SettleExit, SettleLost, SettleTimeout, Settle,
                callVars
  <2>11. ~Server \/ \E r \in late : RecvTimeout(r)
    BY <2>5, <2>6, <2>7, <2>8, <2>9, <2>10, Zenon DEF Server
  <2>12. Next => Server
    BY <2>8, <2>9, <2>10, Zenon DEF Next
  <2> QED BY <2>3, <2>11, <2>12, Zenon
<1> QED BY <1>1, CoreHolds, PTL DEF Spec, NoForeignTimeout

-----------------------------------------------------------------------------
(* The lines.                                                              *)

\* What is received and in no line yet has no newline.
RestInv == \A s \in Streams : \A p \in (start[s] + 1)..got[s] : script[s][p] = "x"

Ordered(lines) ==
  /\ \A i \in 1..Len(lines) : lines[i].from < lines[i].to
  /\ \A i, j \in 1..Len(lines) :
       i < j /\ lines[i].stream = lines[j].stream => lines[i].to <= lines[j].from

\* A line has no newline before its end, and one there unless the end ex of
\* the output came first.
LineRight(l, text, ex, end) ==
  /\ \A p \in (l.from + 1)..(l.to - 1) : text[l.stream][p] = "x"
  /\ text[l.stream][l.to] = "x" => ex # "none" /\ l.to = end[l.stream]

\* LinesIntact of these lines, when the output is text, its end ex, and end and
\* rest are what is received and what is in lines.
IntactLines(lines, text, ex, end, rest) ==
  /\ \A s \in Streams : Addresses(lines, s) = 1..rest[s]
  /\ Ordered(lines)
  /\ \A i \in 1..Len(lines) : LineRight(lines[i], text, ex, end)

\* The same lines and N after them, which make up what got whole.
GrowsBy(N) ==
  /\ script' = script
  /\ delivered' \o queue' = (delivered \o queue) \o N
  /\ exit # "none" => exit' # "none" /\ got' = got
  /\ Ordered(N)
  /\ \A s \in Streams : start[s] <= start'[s] /\ Addresses(N, s) = (start[s] + 1)..start'[s]
  /\ \A i \in 1..Len(N) : LineRight(N[i], script, exit', got')

LEMMA OrderedOf ==
  ASSUME NEW w \in Seq(Range3)
  PROVE  Ordered(w) <=>
           \A i \in 1..Len(w) :
             /\ w[i].from < w[i].to
             /\ \A j \in 1..(i - 1) : w[j].stream = w[i].stream => w[j].to <= w[i].from
<1>1. \A i \in 1..Len(w) : \A j \in 1..(i - 1) : j \in 1..Len(w) /\ j < i
  OBVIOUS
<1>2. \A i, j \in 1..Len(w) : i < j => i \in 1..(j - 1)
  OBVIOUS
<1> QED BY <1>1, <1>2 DEF Ordered

LEMMA IntactIs ==
  /\ delivered \o queue \in Seq(Range3) =>
       (LinesIntact <=> IntactLines(delivered \o queue, script, exit, got, start))
  /\ (delivered \o queue)' \in Seq(Range3) =>
       (LinesIntact' <=> IntactLines((delivered \o queue)', script', exit', got', start'))
<1>1. ASSUME (delivered \o queue) \in Seq(Range3)
      PROVE  LinesIntact <=> IntactLines((delivered \o queue), script, exit, got, start)
  <2>1. PICK w \in Seq(Range3) : w = (delivered \o queue)
    BY <1>1
  <2>2. LinesIntact <=>
          /\ \A s \in Streams : Addresses(w, s) = 1..start[s]
          /\ \A i \in 1..Len(w) :
               LET l == w[i] IN
               /\ l.from < l.to
               /\ \A j \in 1..(i - 1) : w[j].stream = l.stream => w[j].to <= l.from
               /\ \A p \in (l.from + 1)..(l.to - 1) : script[l.stream][p] = "x"
               /\ script[l.stream][l.to] = "x" => exit # "none" /\ l.to = got[l.stream]
    BY <2>1, Zenon DEF LinesIntact
  <2>3. Ordered(w) <=>
          \A i \in 1..Len(w) :
            /\ w[i].from < w[i].to
            /\ \A j \in 1..(i - 1) : w[j].stream = w[i].stream => w[j].to <= w[i].from
    BY OrderedOf
  <2>4. ASSUME LinesIntact PROVE IntactLines(w, script, exit, got, start)
    <3>1. Ordered(w)
      BY <2>2, <2>3, <2>4, Zenon
    <3>2. \A i \in 1..Len(w) : LineRight(w[i], script, exit, got)
      BY <2>2, <2>4, Zenon DEF LineRight
    <3> QED BY <2>2, <2>4, <3>1, <3>2, Zenon DEF IntactLines
  <2>5. ASSUME IntactLines(w, script, exit, got, start) PROVE LinesIntact
    <3>1. \A i \in 1..Len(w) : LineRight(w[i], script, exit, got)
      BY <2>5, Zenon DEF IntactLines
    <3> QED BY <2>2, <2>3, <2>5, <3>1, Zenon DEF IntactLines, LineRight
  <2> QED BY <2>1, <2>4, <2>5
<1>2. ASSUME (delivered \o queue)' \in Seq(Range3)
      PROVE  LinesIntact' <=> IntactLines((delivered \o queue)', script', exit', got', start')
  <2>1. PICK w \in Seq(Range3) : w = (delivered \o queue)'
    BY <1>2
  <2>2. LinesIntact' <=>
          /\ \A s \in Streams : Addresses(w, s) = 1..start'[s]
          /\ \A i \in 1..Len(w) :
               LET l == w[i] IN
               /\ l.from < l.to
               /\ \A j \in 1..(i - 1) : w[j].stream = l.stream => w[j].to <= l.from
               /\ \A p \in (l.from + 1)..(l.to - 1) : script'[l.stream][p] = "x"
               /\ script'[l.stream][l.to] = "x" => exit' # "none" /\ l.to = got'[l.stream]
    BY <2>1, Zenon DEF LinesIntact
  <2>3. Ordered(w) <=>
          \A i \in 1..Len(w) :
            /\ w[i].from < w[i].to
            /\ \A j \in 1..(i - 1) : w[j].stream = w[i].stream => w[j].to <= w[i].from
    BY OrderedOf
  <2>4. ASSUME LinesIntact' PROVE IntactLines(w, script', exit', got', start')
    <3>1. Ordered(w)
      BY <2>2, <2>3, <2>4, Zenon
    <3>2. \A i \in 1..Len(w) : LineRight(w[i], script', exit', got')
      BY <2>2, <2>4, Zenon DEF LineRight
    <3> QED BY <2>2, <2>4, <3>1, <3>2, Zenon DEF IntactLines
  <2>5. ASSUME IntactLines(w, script', exit', got', start') PROVE LinesIntact'
    <3>1. \A i \in 1..Len(w) : LineRight(w[i], script', exit', got')
      BY <2>5, Zenon DEF IntactLines
    <3> QED BY <2>2, <2>3, <2>5, <3>1, Zenon DEF IntactLines, LineRight
  <2> QED BY <2>1, <2>4, <2>5
<1> QED BY <1>1, <1>2

LEMMA AddressOf ==
  ASSUME NEW w \in Seq(Range3), NEW s, NEW p
  PROVE  p \in Addresses(w, s) <=>
           \E i \in 1..Len(w) : w[i].stream = s /\ p \in (w[i].from + 1)..w[i].to
<1>1. p \in Addresses(w, s) <=> \E l \in Range(w) : l.stream = s /\ p \in (l.from + 1)..l.to
  BY Zenon DEF Addresses, Covered
<1>2. \A x : x \in Range(w) <=> \E i \in 1..Len(w) : w[i] = x
  BY RangeOf
<1> QED BY <1>1, <1>2, Zenon

LEMMA AddressesJoined ==
  ASSUME NEW v \in Seq(Range3), NEW w \in Seq(Range3), NEW s
  PROVE  Addresses(v \o w, s) = Addresses(v, s) \cup Addresses(w, s)
<1>1. Range(v \o w) = Range(v) \cup Range(w)
  BY Joined
<1>2. ASSUME NEW p
      PROVE  p \in Addresses(v \o w, s) <=> p \in Addresses(v, s) \/ p \in Addresses(w, s)
  <2>1. \A u : p \in Addresses(u, s) <=>
                \E l \in Range(u) : l.stream = s /\ p \in (l.from + 1)..l.to
    BY Zenon DEF Addresses, Covered
  <2> QED BY <1>1, <2>1, Zenon
<1> QED BY <1>2

LEMMA LineTypesOf ==
  ASSUME NEW w \in Seq(Range3), NEW i \in 1..Len(w)
  PROVE  w[i].stream \in Streams /\ w[i].from \in Nat /\ w[i].to \in Nat
<1>1. w[i] \in Range3
  OBVIOUS
<1> QED BY <1>1 DEF Range3

LEMMA GrowthIsIntact ==
  ASSUME Core, Core', LinesIntact, NEW N \in Seq(Range3), GrowsBy(N)
  PROVE  LinesIntact'
<1> DEFINE v == delivered \o queue
           w == delivered' \o queue'
           n == Len(v)
<1>0. Types /\ Types'
  BY DEF Core
<1>1. v \in Seq(Range3) /\ n \in Nat /\ w = v \o N
  BY <1>0, Joined DEF GrowsBy, Types, LineTypes, CallTypes
<1>2. /\ w \in Seq(Range3) /\ Len(w) = n + Len(N) /\ Len(N) \in Nat
      /\ \A i \in 1..n : w[i] = v[i]
      /\ \A i \in 1..Len(N) : w[n + i] = N[i]
      /\ \A i \in 1..Len(w) : i \in 1..n \/ \E j \in 1..Len(N) : i = n + j
  <2> HIDE DEF v, w
  <2> QED BY <1>1, Joined
<1>3. /\ \A s \in Streams : Addresses(v, s) = 1..start[s]
      /\ Ordered(v)
      /\ \A i \in 1..n : LineRight(v[i], script, exit, got)
  BY <1>1, IntactIs, Zenon DEF IntactLines
<1>4. start \in [Streams -> Nat] /\ start' \in [Streams -> Nat]
  BY <1>0 DEF Types, LineTypes
<1>5. LinesIntact' <=> IntactLines(w, script', exit', got', start')
  BY <1>2, IntactIs, Zenon
<1> HIDE DEF v, w, n
<1>6. ASSUME NEW s \in Streams PROVE Addresses(w, s) = 1..start'[s]
  <2>1. Addresses(w, s) = Addresses(v, s) \cup Addresses(N, s)
    BY <1>1, AddressesJoined
  <2>2. Addresses(w, s) = 1..start[s] \cup (start[s] + 1)..start'[s]
    BY <1>3, <2>1 DEF GrowsBy
  <2>3. start[s] <= start'[s]
    BY DEF GrowsBy
  <2> QED BY <1>4, <2>2, <2>3
<1>7. ASSUME NEW i \in 1..n, NEW j \in 1..Len(N), v[i].stream = N[j].stream
      PROVE  v[i].to <= N[j].from
  <2>1. PICK s \in Streams : s = v[i].stream
    BY <1>1, LineTypesOf DEF n
  <2>2. /\ v[i].from \in Nat /\ v[i].to \in Nat /\ v[i].from < v[i].to
        /\ N[j].from \in Nat /\ N[j].to \in Nat /\ N[j].from < N[j].to
    BY <1>1, <1>3, LineTypesOf DEF n, Ordered, GrowsBy
  <2>3. v[i].to \in (v[i].from + 1)..v[i].to /\ N[j].from + 1 \in (N[j].from + 1)..N[j].to
    BY <2>2
  <2>4. v[i].to \in Addresses(v, s)
    BY <1>1, <2>1, <2>3, AddressOf DEF n
  <2>5. N[j].from + 1 \in Addresses(N, s)
    BY <1>7, <2>1, <2>3, AddressOf
  <2>6. v[i].to \in 1..start[s]
    BY <1>3, <2>4
  <2>7. N[j].from + 1 \in (start[s] + 1)..start'[s]
    BY <2>5 DEF GrowsBy
  <2> QED BY <1>4, <2>2, <2>6, <2>7
<1>8. Ordered(w)
  <2>1. ASSUME NEW i \in 1..Len(w) PROVE w[i].from < w[i].to
    BY <1>2, <1>3 DEF Ordered, GrowsBy, n
  <2>2. ASSUME NEW i \in 1..Len(w), NEW j \in 1..Len(w), i < j, w[i].stream = w[j].stream
        PROVE  w[i].to <= w[j].from
    <3>1. CASE i \in 1..n /\ j \in 1..n
      BY <1>2, <1>3, <2>2, <3>1 DEF Ordered, n
    <3>2. ASSUME NEW k \in 1..Len(N), i \in 1..n, j = n + k PROVE w[i].to <= w[j].from
      BY <1>2, <1>7, <2>2, <3>2
    <3>3. ASSUME NEW h \in 1..Len(N), NEW k \in 1..Len(N), i = n + h, j = n + k
          PROVE  w[i].to <= w[j].from
      <4>1. h < k
        BY <1>1, <2>2, <3>3
      <4> QED BY <1>2, <2>2, <3>3, <4>1 DEF Ordered, GrowsBy
    <3>4. ASSUME NEW h \in 1..Len(N), i = n + h, j \in 1..n PROVE FALSE
      BY <1>1, <2>2, <3>4
    <3> QED BY <1>2, <3>1, <3>2, <3>3, <3>4
  <2> QED BY <2>1, <2>2 DEF Ordered
<1>9. ASSUME NEW i \in 1..Len(w) PROVE LineRight(w[i], script', exit', got')
  <2>1. script' = script
    BY DEF GrowsBy
  <2>2. CASE i \in 1..n
    <3>1. w[i] = v[i] /\ LineRight(v[i], script, exit, got)
      BY <1>2, <1>3, <2>2
    <3>2. exit # "none" => exit' # "none" /\ got' = got
      BY DEF GrowsBy
    <3> QED BY <2>1, <3>1, <3>2, Zenon DEF LineRight
  <2>3. ASSUME NEW j \in 1..Len(N), i = n + j PROVE LineRight(w[i], script', exit', got')
    <3>1. w[i] = N[j] /\ LineRight(N[j], script, exit', got')
      BY <1>2, <2>3 DEF GrowsBy
    <3> QED BY <2>1, <3>1
  <2> QED BY <1>2, <2>2, <2>3
<1> QED BY <1>5, <1>6, <1>8, <1>9, Zenon DEF IntactLines

LEMMA NoAddress ==
  ASSUME NEW w \in Seq(Range3), NEW s, NEW n \in Nat,
         \A i \in 1..Len(w) : w[i].stream # s
  PROVE  Addresses(w, s) = (n + 1)..n
<1>1. \A p : p \notin Addresses(w, s)
  BY AddressOf
<1>2. \A p : p \notin (n + 1)..n
  OBVIOUS
<1> QED BY <1>1, <1>2, Zenon

LEMMA GrowsByNothing ==
  ASSUME Types, script' = script, start' = start,
         delivered' \o queue' = delivered \o queue,
         exit # "none" => exit' # "none" /\ got' = got
  PROVE  GrowsBy(<<>>)
<1>1. (delivered \o queue) \o <<>> = delivered \o queue
  <2>1. delivered \o queue \in Seq(Range3)
    BY Joined DEF Types, LineTypes, CallTypes
  <2> QED BY <2>1
<1>2. Len(<<>>) = 0 /\ 1..0 = {} /\ <<>> \in Seq(Range3)
  OBVIOUS
<1>3. ASSUME NEW s \in Streams
      PROVE  start[s] <= start'[s] /\ Addresses(<<>>, s) = (start[s] + 1)..start'[s]
  <2>1. start[s] \in Nat
    BY DEF Types, LineTypes
  <2>2. Addresses(<<>>, s) = (start[s] + 1)..start[s]
    BY <1>2, <2>1, NoAddress
  <2> QED BY <2>1, <2>2
<1>4. Ordered(<<>>)
  BY <1>2 DEF Ordered
<1> QED BY <1>1, <1>2, <1>3, <1>4, Zenon DEF GrowsBy

LEMMA ArrivesGrow ==
  ASSUME Core, RestInv, DataArrives
  PROVE  LET N == LinesOf(Head(toBeam).stream, Head(toBeam).to) IN
         RestInv' /\ N \in Seq(Range3) /\ GrowsBy(N)
<1>1. PICK m : m = Head(toBeam)
  OBVIOUS
<1>2. PICK N : N = LinesOf(m.stream, m.to)
  OBVIOUS
<1>3. /\ Up /\ Arrived("data") /\ UNCHANGED <<childVars, serverVars>>
      /\ got' = [got EXCEPT ![m.stream] = m.to]
      /\ start' = [start EXCEPT ![m.stream] = RestFrom(m.stream, m.to)]
      /\ ServeWaiter(queue \o N)
  BY <1>1, <1>2, Zenon DEF DataArrives
<1>4. script' = script /\ exit' = exit
  BY <1>3 DEF childVars, serverVars
<1>5. /\ m.stream \in Streams /\ m.to \in Nat /\ m.from = got[m.stream] /\ m.from < m.to
      /\ m.to <= read[m.stream] /\ exit = "none"
  BY <1>1, <1>3, HeadIsNext
<1>6. PICK s \in Streams : s = m.stream
  BY <1>5
<1>7. PICK to \in Nat : to = m.to
  BY <1>5
<1>8. /\ start \in [Streams -> Nat] /\ got \in [Streams -> Nat] /\ queue \in Seq(Range3)
      /\ delivered \in Seq(Range3) /\ read \in [Streams -> Nat] /\ written \in [Streams -> Nat]
      /\ script \in [Streams -> Seq({"x", "n"})] /\ Types /\ OutputInv
  BY DEF Core, Types, LineTypes, CallTypes, ShimTypes, ChildTypes
<1>9. start[s] <= to /\ to <= Len(script[s])
  BY <1>5, <1>6, <1>7, <1>8 DEF OutputInv
<1>10. /\ N \in Seq(Range3)
       /\ \A i \in 1..Len(N) :
            /\ N[i].stream = s
            /\ N[i].from < N[i].to /\ start[s] <= N[i].from
            /\ N[i].to \in Newlines(s, to)
            /\ \A p \in (N[i].from + 1)..(N[i].to - 1) : p \notin Newlines(s, to)
       /\ \A i, j \in 1..Len(N) : i < j => N[i].to <= N[j].from
       /\ Covered(Range(N)) = (start[s] + 1)..RestFrom(s, to)
  <2>1. N = LinesOf(s, to) /\ start[s] \in Nat
    BY <1>2, <1>6, <1>7, <1>8
  <2>2. LET L == LinesOf(s, to) IN
        /\ L \in Seq(Range3)
        /\ \A i \in 1..Len(L) :
             /\ L[i].stream = s
             /\ L[i].from < L[i].to /\ start[s] <= L[i].from
             /\ L[i].to \in Newlines(s, to)
             /\ \A p \in (L[i].from + 1)..(L[i].to - 1) : p \notin Newlines(s, to)
        /\ \A i, j \in 1..Len(L) : i < j => L[i].to <= L[j].from
        /\ Covered(Range(L)) = (start[s] + 1)..RestFrom(s, to)
    BY <1>9, <2>1, LinesOfFrame
  <2> QED BY <2>1, <2>2
<1>11. /\ RestFrom(s, to) \in Nat /\ start[s] <= RestFrom(s, to) /\ RestFrom(s, to) <= to
       /\ \A p \in Newlines(s, to) : start[s] < p /\ p <= RestFrom(s, to)
       /\ Newlines(s, to) \in SUBSET (0..to)
  BY <1>8, <1>9, RestOf
<1>12. \A p \in (start[s] + 1)..to : p \notin Newlines(s, to) => script[s][p] = "x"
  <2>1. ASSUME NEW p \in (start[s] + 1)..to, p \notin Newlines(s, to) PROVE script[s][p] = "x"
    <3>1. p \in 1..Len(script[s])
      BY <1>8, <1>9
    <3>2. script[s][p] \in {"x", "n"}
      BY <1>8, <3>1
    <3>3. script[s][p] # "n"
      BY <2>1 DEF Newlines
    <3> QED BY <3>2, <3>3
  <2> QED BY <2>1
<1>13. RestInv'
  <2>1. ASSUME NEW x \in Streams, NEW p \in (start'[x] + 1)..got'[x] PROVE script[x][p] = "x"
    <3>1. CASE x = s
      <4>1. start'[s] = RestFrom(s, to) /\ got'[s] = to
        BY <1>3, <1>6, <1>7, <1>8
      <4>2. p \in (start[s] + 1)..to /\ p \notin Newlines(s, to)
        BY <1>8, <1>11, <2>1, <3>1, <4>1
      <4> QED BY <1>12, <3>1, <4>2
    <3>2. CASE x # s
      <4>1. start'[x] = start[x] /\ got'[x] = got[x]
        BY <1>3, <1>6, <1>8, <3>2
      <4> QED BY <2>1, <4>1 DEF RestInv
    <3> QED BY <3>1, <3>2
  <2> QED BY <1>4, <2>1 DEF RestInv
<1>14. delivered' \o queue' = (delivered \o queue) \o N
  <2>1. PICK q \in Seq(Range3) : q = queue \o N
    BY <1>8, <1>10, Joined
  <2>2. delivered \o q = (delivered \o queue) \o N
    <3>1. N \in Seq(Range3) /\ queue \in Seq(Range3) /\ delivered \in Seq(Range3)
      BY <1>8, <1>10
    <3> QED BY <2>1, <3>1, ConcatAssociative
  <2>3. CASE queue' = Tail(q) /\ delivered' = Append(delivered, Head(q)) /\ q # <<>>
    BY <1>8, <2>1, <2>2, <2>3, Moved
  <2>4. CASE queue' = q /\ delivered' = delivered
    BY <2>2, <2>4
  <2> QED BY <1>3, <1>8, <2>1, <2>3, <2>4, ServeEffect, Zenon
<1>15. Ordered(N)
  BY <1>10 DEF Ordered
<1>16. ASSUME NEW x \in Streams
       PROVE  start[x] <= start'[x] /\ Addresses(N, x) = (start[x] + 1)..start'[x]
  <2>1. CASE x = s
    <3>1. start'[s] = RestFrom(s, to)
      BY <1>3, <1>6, <1>7, <1>8
    <3>2. {l \in Range(N) : l.stream = s} = Range(N)
      BY <1>10, RangeOf
    <3>3. Addresses(N, s) = Covered(Range(N))
      BY <3>2, Zenon DEF Addresses
    <3> QED BY <1>10, <1>11, <2>1, <3>1, <3>3
  <2>2. CASE x # s
    <3>1. start'[x] = start[x] /\ start[x] \in Nat
      BY <1>3, <1>6, <1>8, <2>2
    <3>2. N \in Seq(Range3) /\ \A i \in 1..Len(N) : N[i].stream # x
      BY <1>10, <2>2
    <3>3. Addresses(N, x) = (start[x] + 1)..start[x]
      BY <3>1, <3>2, NoAddress
    <3> QED BY <3>1, <3>3
  <2> QED BY <2>1, <2>2
<1>17. ASSUME NEW i \in 1..Len(N) PROVE LineRight(N[i], script, exit', got')
  <2>1. /\ N[i].stream = s /\ N[i].from \in Nat /\ N[i].to \in Nat
        /\ start[s] <= N[i].from /\ N[i].to <= to
    BY <1>10, <1>11, LineTypesOf
  <2>2. script[s][N[i].to] = "n"
    BY <1>10 DEF Newlines
  <2>3. ASSUME NEW p \in (N[i].from + 1)..(N[i].to - 1) PROVE script[s][p] = "x"
    <3>1. p \in (start[s] + 1)..to
      <4>1. start[s] \in Nat /\ to \in Nat
        BY <1>8
      <4> QED BY <2>1, <4>1
    <3>2. p \notin Newlines(s, to)
      BY <1>10
    <3> QED BY <1>12, <3>1, <3>2
  <2> QED BY <2>1, <2>2, <2>3 DEF LineRight
<1>18. GrowsBy(N)
  BY <1>4, <1>5, <1>14, <1>15, <1>16, <1>17, Zenon DEF GrowsBy
<1> QED BY <1>1, <1>2, <1>10, <1>13, <1>18, Zenon

LEMMA EndGrow ==
  ASSUME Core, RestInv, ExitArrives \/ ShimLost
  PROVE  RestInv' /\ FlushedLines \in Seq(Range3) /\ GrowsBy(FlushedLines)
<1>1. PICK ex \in {"exited", "lost"} : \E t \in Terminals : Up /\ toBeam # <<>> /\ Ended(ex, t)
  BY EndEvidence, Zenon
<1>2. PICK N : N = FlushedLines
  OBVIOUS
<1>3. PICK q : q = queue \o N
  OBVIOUS
<1>4. /\ q \in Seq(Range3) /\ exit' = ex /\ start' = got /\ UNCHANGED <<childVars, got>>
      /\ \/ q = <<>> /\ UNCHANGED <<queue, delivered>>
         \/ q # <<>> /\ queue' = Tail(q) /\ delivered' = Append(delivered, Head(q))
         \/ queue' = q /\ delivered' = delivered
  BY <1>1, <1>2, <1>3, EndedEffect, Zenon
<1>5. /\ start \in [Streams -> Nat] /\ got \in [Streams -> Nat] /\ queue \in Seq(Range3)
      /\ delivered \in Seq(Range3) /\ OutputInv
  BY DEF Core, Types, LineTypes, CallTypes
<1>6. /\ N \in Seq(Range3)
      /\ \A i \in 1..Len(N) :
           N[i].stream \in Unfinished /\ N[i].from = start[N[i].stream]
             /\ N[i].to = got[N[i].stream]
      /\ \A i, j \in 1..Len(N) : N[i].stream = N[j].stream => i = j
      /\ \A s \in Unfinished : \E i \in 1..Len(N) : N[i].stream = s
  BY <1>2, <1>5, FlushedOf, Zenon
<1>7. \A s \in Unfinished : s \in Streams /\ start[s] < got[s]
  BY <1>5 DEF Unfinished
<1>8. RestInv'
  BY <1>4, <1>5 DEF RestInv
<1>9. delivered' \o queue' = (delivered \o queue) \o N
  <2>1. delivered \o q = (delivered \o queue) \o N
    BY <1>3, <1>5, <1>6
  <2>2. CASE q = <<>> /\ UNCHANGED <<queue, delivered>>
    <3>1. Len(queue) + Len(N) = 0
      <4>1. Len(queue \o N) = Len(queue) + Len(N)
        BY <1>5, <1>6, Joined
      <4>2. Len(q) = 0
        BY <2>2
      <4> QED BY <1>3, <4>1, <4>2
    <3>2. queue = <<>>
      <4>1. Len(queue) \in Nat /\ Len(N) \in Nat
        BY <1>5, <1>6
      <4>2. Len(queue) = 0
        BY <3>1, <4>1
      <4> QED BY <1>5, <4>2
    <3> QED BY <2>1, <2>2, <3>2
  <2>3. CASE q # <<>> /\ queue' = Tail(q) /\ delivered' = Append(delivered, Head(q))
    BY <1>4, <1>5, <2>1, <2>3, Moved
  <2>4. CASE queue' = q /\ delivered' = delivered
    BY <2>1, <2>4
  <2> QED BY <1>4, <2>2, <2>3, <2>4
<1>10. Ordered(N)
  <2>1. \A i \in 1..Len(N) : N[i].from < N[i].to
    BY <1>6, <1>7
  <2>2. \A i, j \in 1..Len(N) : ~(i < j /\ N[i].stream = N[j].stream)
    BY <1>6
  <2> QED BY <2>1, <2>2 DEF Ordered
<1>11. ASSUME NEW s \in Streams
       PROVE  start[s] <= start'[s] /\ Addresses(N, s) = (start[s] + 1)..start'[s]
  <2>1. start[s] <= got[s] /\ start'[s] = got[s] /\ start[s] \in Nat /\ got[s] \in Nat
    BY <1>4, <1>5 DEF OutputInv
  <2>2. CASE s \in Unfinished
    <3>1. PICK i \in 1..Len(N) : N[i].stream = s
      BY <1>6, <2>2
    <3>2. \A j \in 1..Len(N) : N[j].stream = s => j = i
      BY <1>6, <3>1
    <3>3. N[i].from = start[s] /\ N[i].to = got[s]
      BY <1>6, <3>1
    <3>4. \A p : p \in Addresses(N, s) <=> p \in (start[s] + 1)..got[s]
      BY <1>6, <3>1, <3>2, <3>3, AddressOf
    <3> QED BY <2>1, <3>4
  <2>3. CASE s \notin Unfinished
    <3>1. start[s] = got[s]
      BY <2>1, <2>3 DEF Unfinished
    <3>2. Addresses(N, s) = (start[s] + 1)..start[s]
      BY <1>6, <2>1, <2>3, NoAddress
    <3> QED BY <2>1, <3>1, <3>2
  <2> QED BY <2>2, <2>3
<1>12. ASSUME NEW i \in 1..Len(N) PROVE LineRight(N[i], script, exit', got')
  <2>1. PICK s \in Streams : s = N[i].stream
    BY <1>6, <1>7
  <2>2. N[i].from = start[s] /\ N[i].to = got[s] /\ start[s] \in Nat /\ got[s] \in Nat
    BY <1>5, <1>6, <2>1
  <2>3. \A p \in (N[i].from + 1)..(N[i].to - 1) : p \in (start[s] + 1)..got[s]
    BY <2>2
  <2> QED BY <1>4, <2>1, <2>2, <2>3 DEF LineRight, RestInv
<1>13. script' = script
  BY <1>4 DEF childVars
<1>14. ex # "none"
  OBVIOUS
<1>15. GrowsBy(N)
  BY <1>4, <1>9, <1>10, <1>11, <1>12, <1>13, <1>14, Zenon DEF GrowsBy
<1> QED BY <1>2, <1>6, <1>8, <1>15, Zenon

LEMMA LinesGrow ==
  ASSUME Core, RestInv, [Next]_vars
  PROVE  RestInv' /\ \E N \in Seq(Range3) : GrowsBy(N)
<1>0. Types
  BY DEF Core
<1>1. ASSUME UNCHANGED <<script, exit, got, start>>, delivered' \o queue' = delivered \o queue
      PROVE  RestInv' /\ \E N \in Seq(Range3) : GrowsBy(N)
  <2>1. RestInv'
    BY <1>1 DEF RestInv
  <2>2. GrowsBy(<<>>)
    BY <1>0, <1>1, GrowsByNothing
  <2>3. <<>> \in Seq(Range3)
    OBVIOUS
  <2> QED BY <2>1, <2>2, <2>3, Zenon
<1>2. CASE Child \/ Shim \/ ShimCrash \/ SettleData \/ Over \/ UNCHANGED vars
  <2>1. UNCHANGED <<serverVars, lineVars, callVars>>
    BY <1>2, QuietSteps
  <2>2. script' = script
    BY <1>2 DEF Child, ChildExit, ChildWrite, Shim, ShimCrash, ShimCredit, ShimKill, ShimReap,
                ShimDrained, ShimCut, ShimLeft, PumpEof, PumpForward, WriteExit, SettleData, Over,
                vars, childVars
  <2> QED BY <1>1, <2>1, <2>2 DEF serverVars, lineVars, callVars
<1>3. ASSUME NEW c \in Callers, RecvLine(c)
      PROVE  RestInv' /\ \E N \in Seq(Range3) : GrowsBy(N)
  <2>1. /\ queue # <<>> /\ queue' = Tail(queue) /\ delivered' = Append(delivered, Head(queue))
        /\ UNCHANGED <<childVars, exit, got, start>>
    BY <1>3 DEF RecvLine, Deliver
  <2>2. delivered' \o queue' = delivered \o queue
    BY <1>0, <2>1, Moved DEF Types, LineTypes, CallTypes
  <2> QED BY <1>1, <2>1, <2>2 DEF childVars
<1>4. CASE \E c \in Callers : RecvBusy(c) \/ RecvHold(c) \/ TerminalReply(c) \/ RecvCall(c)
  BY <1>1, <1>4 DEF RecvBusy, RecvHold, TerminalReply, RecvCall, serverVars, lineVars, childVars
<1>5. CASE TimerFire \/ \E r \in late : RecvTimeout(r)
  BY <1>1, <1>5 DEF TimerFire, RecvTimeout, serverVars, lineVars, childVars, callVars
<1>6. CASE LimitExceeded \/ Stop \/ SettleExit \/ SettleLost \/ SettleTimeout
  BY <1>1, <1>6 DEF LimitExceeded, Stop, SettleExit, SettleLost, SettleTimeout, Settle,
                    lineVars, childVars, callVars
<1>7. CASE DataArrives
  BY <1>7, ArrivesGrow, Zenon
<1>8. CASE ExitArrives \/ ShimLost
  BY <1>8, EndGrow, Zenon
<1> QED BY <1>2, <1>3, <1>4, <1>5, <1>6, <1>7, <1>8 DEF Next, Server

LEMMA IntactInit ==
  ASSUME Init PROVE RestInv /\ LinesIntact
<1>1. Types /\ RestInv
  <2>1. \A s \in Streams : (start[s] + 1)..got[s] = {}
    BY DEF Init, Zero
  <2> QED BY <2>1, CoreInit DEF Core, RestInv
<1>2. /\ delivered \o queue \in Seq(Range3) /\ Len(delivered \o queue) = 0
      /\ 1..0 = {} /\ \A s \in Streams : start[s] = 0
  BY DEF Init, Zero
<1>3. PICK w : w = delivered \o queue
  OBVIOUS
<1>4. \A s \in Streams : Addresses(w, s) = 1..start[s]
  <2>1. \A s : \A p : p \notin Addresses(w, s)
    BY <1>2, <1>3, AddressOf
  <2> QED BY <1>2, <2>1
<1>5. IntactLines(w, script, exit, got, start)
  BY <1>2, <1>3, <1>4 DEF IntactLines, Ordered
<1> QED BY <1>1, <1>2, <1>3, <1>5, IntactIs, Zenon

LEMMA IntactInductive ==
  ASSUME Core, RestInv, LinesIntact, [Next]_vars
  PROVE  RestInv' /\ LinesIntact'
BY CoreInductive, LinesGrow, GrowthIsIntact

\* However the output was cut into frames and whoever took the lines, the lines
\* handed out and queued are the child's, whole, in order, none lost or twice.
THEOREM LinesAreIntact ==
  Spec => []LinesIntact
<1> DEFINE Inv == Core /\ RestInv /\ LinesIntact
<1>1. Init => Inv
  BY CoreInit, IntactInit
<1>2. Inv /\ [Next]_vars => Inv'
  BY CoreInductive, IntactInductive
<1> QED BY <1>1, <1>2, PTL DEF Spec

-----------------------------------------------------------------------------
(* Evidence of complete output.                                            *)

ReadInv ==
  /\ server # "down" => terminal = NoTerminal
  /\ server = "down" /\ exit # "none" /\ terminal.output = "complete" =>
       AllDelivered /\ (child = "exited" \/ Streams = {})

\* With nothing queued, and all the child wrote in lines, callers had it all.
LEMMA AllIsDelivered ==
  ASSUME Core', LinesIntact', queue' = <<>>, \A s \in Streams : start'[s] = written'[s]
  PROVE  AllDelivered'
<1>1. delivered' \in Seq(Range3)
  BY DEF Core, Types, CallTypes
<1>2. (delivered \o queue)' = delivered'
  BY <1>1
<1>3. IntactLines((delivered \o queue)', script', exit', got', start')
  BY <1>1, <1>2, IntactIs
<1>4. \A s \in Streams : Addresses(delivered', s) = 1..start'[s]
  BY <1>2, <1>3 DEF IntactLines
<1> QED BY <1>4 DEF AllDelivered

LEMMA ReadKept ==
  ASSUME Core, ReadInv, UNCHANGED <<server, terminal, exit, delivered, written>>,
         child = "exited" => child' = "exited"
  PROVE  ReadInv'
<1>1. AllDelivered => AllDelivered'
  BY DEF AllDelivered
<1> QED BY <1>1 DEF ReadInv

LEMMA ReadStep ==
  ASSUME Core, LinesIntact, RestInv, ReadInv, [Next]_vars
  PROVE  ReadInv'
<1>0. Core' /\ LinesIntact'
  BY CoreInductive, IntactInductive
<1>1. \A s \in eof : child = "exited" /\ read[s] = written[s]
  BY DEF Core, OutputInv
<1>2. ASSUME Up, server' # "down", terminal' = terminal PROVE ReadInv'
  BY <1>2 DEF ReadInv, Up
<1>3. CASE Child \/ Shim \/ ShimCrash \/ SettleData \/ Over \/ UNCHANGED vars
  <2>1. UNCHANGED <<serverVars, callVars>>
    BY <1>3, QuietSteps
  <2>2. CASE \E s \in Streams : ChildWrite(s)
    <3>1. child = "run" /\ Streams # {}
      BY <2>2 DEF ChildWrite
    <3>2. child # "exited"
      BY <3>1
    <3>3. UNCHANGED <<server, terminal, exit>>
      BY <2>1 DEF serverVars
    <3> QED BY <3>1, <3>2, <3>3, Zenon DEF ReadInv
  <2>3. CASE ~ \E s \in Streams : ChildWrite(s)
    <3>1. written' = written /\ (child = "exited" => child' = "exited")
      BY <1>3, <2>3 DEF Child, ChildExit, Shim, ShimCrash, ShimCredit, ShimKill, ShimReap,
                  ShimDrained, ShimCut, ShimLeft, PumpEof, PumpForward, WriteExit, SettleData,
                  Over, vars, childVars
    <3> QED BY <2>1, <3>1, ReadKept DEF serverVars, callVars
  <2> QED BY <2>2, <2>3
<1>4. ASSUME NEW c \in Callers, RecvBusy(c) \/ RecvHold(c) \/ TerminalReply(c) \/ RecvCall(c)
      PROVE  ReadInv'
  <2>1. UNCHANGED <<server, terminal, exit, delivered, written, child>>
    BY <1>4 DEF RecvBusy, RecvHold, TerminalReply, RecvCall, serverVars, childVars
  <2> QED BY <2>1, ReadKept
<1>5. CASE TimerFire \/ \E r \in late : RecvTimeout(r)
  <2>1. UNCHANGED <<server, terminal, exit, delivered, written, child>>
    BY <1>5 DEF TimerFire, RecvTimeout, serverVars, childVars, callVars
  <2> QED BY <2>1, ReadKept
<1>6. ASSUME NEW c \in Callers, RecvLine(c) PROVE ReadInv'
  <2>1. /\ Up /\ queue # <<>> /\ queue' = Tail(queue) /\ limit' = limit
        /\ UNCHANGED <<childVars, exit, start>>
    BY <1>6 DEF RecvLine, Deliver
  <2>2. CASE exit # "none" /\ Len(queue) = 1
    <3>1. Publish(reported, FALSE)
      BY <1>6, <2>2, Zenon DEF RecvLine
    <3>2. limit' = FALSE
      BY <2>1, Zenon DEF Core, EvidenceInv
    <3>3. server' = "down" /\ terminal' = reported
      BY <3>1, <3>2, PublishEffect
    <3>4. ASSUME reported.output = "complete"
          PROVE  AllDelivered' /\ (child' = "exited" \/ Streams = {})
      <4>1. exit = "exited"
        BY <2>2, <3>4 DEF Core, EvidenceInv, Types, ServerTypes, Evidence
      <4>2. start = got /\ got = read /\ eof = Streams
        BY <2>1, <2>2, <4>1 DEF Core, EndInv
      <4>3. \A s \in Streams : start'[s] = written'[s]
        BY <1>1, <2>1, <4>2 DEF childVars
      <4>4. queue' = <<>>
        <5>1. queue \in Seq(Range3)
          BY DEF Core, Types, LineTypes
        <5> QED BY <2>1, <2>2, <5>1
      <4>5. child' = "exited" \/ Streams = {}
        BY <1>1, <2>1, <4>2 DEF childVars
      <4> QED BY <1>0, <4>3, <4>4, <4>5, AllIsDelivered
    <3> QED BY <3>3, <3>4 DEF ReadInv
  <2>3. CASE ~(exit # "none" /\ Len(queue) = 1)
    <3>1. UNCHANGED <<server, terminal>>
      BY <1>6, <2>3 DEF RecvLine
    <3> QED BY <1>2, <2>1, <3>1 DEF Up
  <2> QED BY <2>2, <2>3
<1>7. CASE DataArrives
  BY <1>2, <1>7 DEF DataArrives, serverVars, Up
<1>8. CASE LimitExceeded
  <2>1. Up /\ server' # "down" /\ terminal' = terminal
    BY <1>8 DEF LimitExceeded, StartSettling
  <2> QED BY <1>2, <2>1
<1>9. CASE ExitArrives \/ ShimLost
  <2>1. PICK ex \in {"exited", "lost"} : \E u \in Terminals :
          /\ Up /\ toBeam # <<>> /\ Ended(ex, u)
          /\ ex = "exited" => u = Evidence("exit", "complete") /\ Head(toBeam).kind = "exit"
          /\ ex = "lost" => u = Evidence("nil", "unknown")
    BY <1>9, EndEvidence, Zenon
  <2>2. PICK t \in Terminals :
          /\ Up /\ toBeam # <<>> /\ Ended(ex, t)
          /\ ex = "exited" => t = Evidence("exit", "complete") /\ Head(toBeam).kind = "exit"
          /\ ex = "lost" => t = Evidence("nil", "unknown")
    BY <2>1
  <2>3. /\ start' = got /\ UNCHANGED childVars
        /\ \/ queue' = <<>> /\ server' = "down" /\ terminal' = t
           \/ UNCHANGED <<server, terminal>>
    BY <2>2, EndedEffect
  <2>4. CASE UNCHANGED <<server, terminal>>
    BY <1>2, <2>2, <2>4 DEF Up
  <2>5. CASE queue' = <<>> /\ server' = "down" /\ terminal' = t
    <3>1. ASSUME t.output = "complete"
          PROVE  AllDelivered' /\ (child' = "exited" \/ Streams = {})
      <4>1. ex = "exited" /\ Head(toBeam).kind = "exit"
        BY <2>2, <3>1 DEF Evidence
      <4>2. got = read
        BY <2>2, <4>1, EndWhole
      <4>3. eof = Streams /\ shim \in {"linger", "gone"}
        BY <2>2, <4>1, HeadFrame DEF Core, EndFramesInv
      <4>4. \A s \in Streams : start'[s] = written'[s]
        BY <1>1, <2>3, <4>2, <4>3 DEF childVars
      <4>5. child' = "exited" \/ Streams = {}
        BY <1>1, <2>3, <4>3 DEF childVars
      <4> QED BY <1>0, <2>5, <4>4, <4>5, AllIsDelivered
    <3> QED BY <2>5, <3>1 DEF ReadInv
  <2> QED BY <2>3, <2>4, <2>5
<1>10. CASE Stop
  <2>1. Up /\ limit' = limit /\ exit' = exit
    BY <1>10 DEF Stop
  <2>2. CASE exit = "none"
    <3>1. server' # "down" /\ terminal' = terminal
      BY <1>10, <2>2 DEF Stop, StartSettling
    <3> QED BY <1>2, <2>1, <3>1
  <2>3. CASE exit # "none"
    <3>1. queue # <<>>
      BY <2>1, <2>3 DEF Core, Consistent, StopsWhenDrained
    <3>2. Publish(reported, queue # <<>> \/ Unfinished # {})
      BY <1>10, <2>3, Zenon DEF Stop
    <3>3. Publish(reported, TRUE)
      <4>1. (queue # <<>> \/ Unfinished # {}) = TRUE
        BY <3>1
      <4> QED BY <3>2, <4>1
    <3>4. limit' = FALSE
      BY <2>1, Zenon DEF Core, EvidenceInv
    <3>5. server' = "down" /\ terminal' = [reported EXCEPT !.output = "truncated"]
      BY <3>3, <3>4, PublishEffect
    <3>6. reported \in Terminals
      BY <2>3, AnswerTypes DEF Core, Types, EvidenceInv, ServerTypes
    <3>7. terminal'.output = "truncated"
      BY <3>5, <3>6 DEF Terminals
    <3> QED BY <3>5, <3>7 DEF ReadInv
  <2> QED BY <2>2, <2>3
<1>11. CASE SettleExit \/ SettleLost \/ SettleTimeout
  <2>1. server = "settling" /\ exit' = exit /\ server' = "down"
    BY <1>11 DEF SettleExit, SettleLost, SettleTimeout, Settle, Publish
  <2>2. exit = "none"
    BY <2>1 DEF Core, EvidenceInv
  <2> QED BY <2>1, <2>2 DEF ReadInv
<1> QED BY <1>3, <1>4, <1>5, <1>6, <1>7, <1>8, <1>9, <1>10, <1>11 DEF Next, Server

\* Evidence of complete output, recorded while the session serves, means that
\* the callers were handed every byte the child wrote.
THEOREM CompleteIsRead ==
  Spec => []CompleteMeansRead
<1> DEFINE Inv == Core /\ RestInv /\ LinesIntact /\ ReadInv
<1>1. Init => Inv
  <2>1. Init => ReadInv
    BY DEF Init, ReadInv
  <2> QED BY <2>1, CoreInit, IntactInit
<1>2. Inv /\ [Next]_vars => Inv'
  BY CoreInductive, IntactInductive, ReadStep
<1>3. Inv => CompleteMeansRead
  BY DEF ReadInv, CompleteMeansRead, NoTerminal
<1> QED BY <1>1, <1>2, <1>3, PTL DEF Spec

-----------------------------------------------------------------------------
(* The permits on their way to the shim.                                   *)

IsCredit(m, s) == m.kind = "credit" /\ m.stream = s
Permits(q, s) == UNION {{i} \X (1..q[i].bytes) : i \in {j \in DOMAIN q : IsCredit(q[j], s)}}
Granted(q, s) == Cardinality(Permits(q, s))

LEMMA CreditTypes ==
  ASSUME NEW q \in Seq(Requests), NEW s, NEW i \in 1..Len(q), IsCredit(q[i], s)
  PROVE  q[i].bytes \in Nat
<1>1. q[i] \in Requests /\ q[i].kind = "credit"
  BY DEF IsCredit
<1> QED BY <1>1 DEF Requests

LEMMA PermitsOf ==
  ASSUME NEW q \in Seq(Requests), NEW s
  PROVE  \A u : u \in Permits(q, s) <=>
           \E i \in 1..Len(q) : IsCredit(q[i], s) /\ \E k \in 1..q[i].bytes : u = <<i, k>>
<1>1. DOMAIN q = 1..Len(q)
  OBVIOUS
<1> QED BY <1>1 DEF Permits

LEMMA ColumnSize ==
  ASSUME NEW i, NEW n \in Nat
  PROVE  IsFiniteSet({i} \X (1..n)) /\ Cardinality({i} \X (1..n)) = n
<1>1. IsFiniteSet(1..n) /\ Cardinality(1..n) = n
  BY FS_Interval
<1>2. IsFiniteSet({i}) /\ Cardinality({i}) = 1
  BY FS_Singleton
<1>3. /\ IsFiniteSet({i} \X (1..n))
      /\ Cardinality({i} \X (1..n)) = Cardinality({i}) * Cardinality(1..n)
  BY <1>1, <1>2, FS_Product
<1> QED BY <1>1, <1>2, <1>3

LEMMA PermitsFinite ==
  ASSUME NEW q \in Seq(Requests), NEW s
  PROVE  IsFiniteSet(Permits(q, s)) /\ Granted(q, s) \in Nat
<1> DEFINE I == {j \in DOMAIN q : IsCredit(q[j], s)}
           column(i) == {i} \X (1..q[i].bytes)
           columns == {column(i) : i \in I}
           f == [i \in I |-> column(i)]
<1>1. I \subseteq 1..Len(q)
  OBVIOUS
<1>2. IsFiniteSet(I)
  <2>1. IsFiniteSet(1..Len(q))
    BY FS_Interval
  <2> QED BY <1>1, <2>1, FS_Subset
<1>3. f \in Surjection(I, columns)
  BY DEF Surjection
<1>4. IsFiniteSet(columns)
  BY <1>2, <1>3, FS_Surjection
<1>5. ASSUME NEW T \in columns PROVE IsFiniteSet(T)
  <2>1. PICK i \in I : T = column(i)
    OBVIOUS
  <2>2. q[i].bytes \in Nat
    BY <1>1, CreditTypes
  <2> QED BY <2>1, <2>2, ColumnSize
<1>6. IsFiniteSet(UNION columns)
  BY <1>4, <1>5, FS_UNION
<1>7. Permits(q, s) = UNION columns
  BY DEF Permits
<1> QED BY <1>6, <1>7, FS_CardinalityType DEF Granted

\* The permits of the second sequence come after those of the first.
LEMMA PermitsJoined ==
  ASSUME NEW q \in Seq(Requests), NEW r \in Seq(Requests), NEW s
  PROVE  Granted(q \o r, s) = Granted(q, s) + Granted(r, s)
<1> DEFINE w == q \o r
           n == Len(q)
           moved == {<<n + u[1], u[2]>> : u \in Permits(r, s)}
<1>1. /\ w \in Seq(Requests) /\ Len(w) = n + Len(r) /\ n \in Nat /\ Len(r) \in Nat
      /\ \A i \in 1..n : w[i] = q[i]
      /\ \A i \in 1..Len(r) : w[n + i] = r[i] /\ n + i \in 1..Len(w)
      /\ \A i \in 1..Len(w) : i \in 1..n \/ \E j \in 1..Len(r) : i = n + j
  BY Joined
<1>2. n = Len(q)
  OBVIOUS
<1> HIDE DEF w, n
<1>3. \A u \in Permits(r, s) : u[1] \in 1..Len(r) /\ u = <<u[1], u[2]>>
  BY PermitsOf
<1>4. Permits(w, s) = Permits(q, s) \cup moved
  <2>1. ASSUME NEW u \in Permits(w, s) PROVE u \in Permits(q, s) \cup moved
    <3>1. PICK i \in 1..Len(w) : IsCredit(w[i], s) /\ \E k \in 1..w[i].bytes : u = <<i, k>>
      <4>1. w \in Seq(Requests)
        BY <1>1
      <4>2. \A v : v \in Permits(w, s) =>
              \E i \in 1..Len(w) : IsCredit(w[i], s) /\ \E k \in 1..w[i].bytes : v = <<i, k>>
        BY <4>1, PermitsOf
      <4> QED BY <2>1, <4>2, Zenon
    <3>2. PICK k \in 1..w[i].bytes : u = <<i, k>>
      BY <3>1
    <3>3. CASE i \in 1..n
      <4>1. w[i] = q[i] /\ i \in 1..Len(q)
        BY <1>1, <1>2, <3>3
      <4>2. u \in Permits(q, s)
        BY <3>1, <3>2, <4>1, PermitsOf
      <4> QED BY <4>2
    <3>4. ASSUME NEW j \in 1..Len(r), i = n + j PROVE u \in moved
      <4>1. w[i] = r[j]
        BY <1>1, <3>4
      <4>2. <<j, k>> \in Permits(r, s)
        BY <3>1, <3>2, <4>1, PermitsOf
      <4>3. u = <<n + <<j, k>>[1], <<j, k>>[2]>>
        BY <3>2, <3>4
      <4> QED BY <4>2, <4>3
    <3> HIDE DEF moved
    <3> QED BY <1>1, <3>3, <3>4
  <2>2. ASSUME NEW u \in Permits(q, s) PROVE u \in Permits(w, s)
    <3>1. PICK i \in 1..Len(q) : IsCredit(q[i], s) /\ \E k \in 1..q[i].bytes : u = <<i, k>>
      BY <2>2, PermitsOf
    <3>2. w[i] = q[i] /\ i \in 1..Len(w)
      BY <1>1, <1>2
    <3> QED BY <1>1, <3>1, <3>2, PermitsOf
  <2>3. ASSUME NEW u \in moved PROVE u \in Permits(w, s)
    <3>1. PICK v \in Permits(r, s) : u = <<n + v[1], v[2]>>
      BY <2>3
    <3>2. PICK j \in 1..Len(r) : IsCredit(r[j], s) /\ \E k \in 1..r[j].bytes : v = <<j, k>>
      BY <3>1, PermitsOf
    <3>3. PICK k \in 1..r[j].bytes : v = <<j, k>>
      BY <3>2
    <3>4. w[n + j] = r[j] /\ n + j \in 1..Len(w)
      BY <1>1
    <3>5. u = <<n + j, k>>
      BY <3>1, <3>3
    <3>6. \E x \in 1..Len(w) : IsCredit(w[x], s) /\ \E y \in 1..w[x].bytes : u = <<x, y>>
      BY <3>2, <3>3, <3>4, <3>5
    <3> QED BY <1>1, <3>6, PermitsOf
  <2> HIDE DEF moved
  <2> QED BY <2>1, <2>2, <2>3
<1>5. IsFiniteSet(moved) /\ Cardinality(moved) = Granted(r, s)
  <2> DEFINE f == [u \in Permits(r, s) |-> <<n + u[1], u[2]>>]
  <2>1. f \in Surjection(Permits(r, s), moved)
    BY DEF Surjection
  <2>2. \A u, v \in Permits(r, s) : f[u] = f[v] => u = v
    <3> SUFFICES ASSUME NEW u \in Permits(r, s), NEW v \in Permits(r, s), f[u] = f[v]
                 PROVE  u = v
      OBVIOUS
    <3>1. n + u[1] = n + v[1] /\ u[2] = v[2]
      OBVIOUS
    <3>2. u[1] = v[1]
      BY <1>1, <1>3, <3>1
    <3> QED BY <1>3, <3>1, <3>2
  <2>3. f \in Bijection(Permits(r, s), moved)
    <3> HIDE DEF f
    <3>1. f \in [Permits(r, s) -> moved]
      BY <2>1 DEF Surjection
    <3>2. f \in Injection(Permits(r, s), moved)
      BY <2>2, <3>1 DEF Injection, IsInjective
    <3> QED BY <2>1, <3>2 DEF Bijection
  <2> QED BY <2>3, PermitsFinite, FS_Bijection DEF ExistsBijection, Granted
<1>6. Permits(q, s) \cap moved = {}
  <2> SUFFICES ASSUME NEW u \in Permits(q, s), u \in moved PROVE FALSE
    OBVIOUS
  <2>1. PICK i \in 1..n : u[1] = i
    BY <1>2, PermitsOf
  <2>2. PICK v \in Permits(r, s) : u = <<n + v[1], v[2]>>
    OBVIOUS
  <2>3. u[1] = n + v[1] /\ v[1] \in 1..Len(r)
    BY <1>3, <2>2
  <2> QED BY <1>1, <2>1, <2>3
<1> HIDE DEF moved
<1>7. Cardinality(Permits(q, s) \cap moved) = 0
  BY <1>6, FS_EmptySet
<1>8. Cardinality(Permits(w, s)) =
        Cardinality(Permits(q, s)) + Cardinality(moved) - Cardinality(Permits(q, s) \cap moved)
  BY <1>4, <1>5, PermitsFinite, FS_Union
<1> QED BY <1>5, <1>7, <1>8, PermitsFinite DEF Granted, w

LEMMA PermitsOfOne ==
  ASSUME NEW m \in Requests, NEW s
  PROVE  Granted(<<m>>, s) = IF IsCredit(m, s) THEN m.bytes ELSE 0
<1>1. <<m>> \in Seq(Requests) /\ Len(<<m>>) = 1 /\ <<m>>[1] = m
  OBVIOUS
<1> DEFINE w == <<m>>
<1> HIDE DEF w
<1>2. \A u : u \in Permits(w, s) <=> IsCredit(m, s) /\ \E k \in 1..m.bytes : u = <<1, k>>
  <2>1. \A u : u \in Permits(w, s) <=>
          \E i \in 1..Len(w) : IsCredit(w[i], s) /\ \E k \in 1..w[i].bytes : u = <<i, k>>
    BY <1>1, PermitsOf DEF w
  <2>2. 1..Len(w) = {1}
    BY <1>1 DEF w
  <2> QED BY <1>1, <2>1, <2>2 DEF w
<1>3. CASE IsCredit(m, s)
  <2>1. m.bytes \in Nat
    BY <1>3 DEF IsCredit, Requests
  <2>2. Permits(w, s) = {1} \X (1..m.bytes)
    BY <1>2, <1>3
  <2> QED BY <1>3, <2>1, <2>2, ColumnSize DEF Granted, w
<1>4. CASE ~IsCredit(m, s)
  <2>1. Permits(w, s) = {}
    BY <1>2, <1>4
  <2> QED BY <1>4, <2>1, FS_EmptySet DEF Granted, w
<1> QED BY <1>3, <1>4

LEMMA PermitsTaken ==
  ASSUME NEW q \in Seq(Requests), q # <<>>, NEW s
  PROVE  Granted(q, s) =
           (IF IsCredit(Head(q), s) THEN Head(q).bytes ELSE 0) + Granted(Tail(q), s)
<1>1. Head(q) \in Requests /\ Tail(q) \in Seq(Requests)
  BY HeadTailProperties
<1>2. q = <<Head(q)>> \o Tail(q)
  BY HeadTailProperties
<1>3. <<Head(q)>> \in Seq(Requests)
  BY <1>1
<1>4. Granted(<<Head(q)>> \o Tail(q), s) = Granted(<<Head(q)>>, s) + Granted(Tail(q), s)
  BY <1>1, <1>3, PermitsJoined
<1> QED BY <1>1, <1>2, <1>4, PermitsOfOne

\* One demand tops a window up by what is missing of it.
LEMMA GrantsTopUp ==
  ASSUME outstanding \in [Streams -> 0..MaxPending], NEW s \in Streams
  PROVE  Granted(Grants, s) = MaxPending - outstanding[s]
<1> DEFINE needy == {x \in Streams : outstanding[x] < MaxPending}
           o == InOrder(needy)
<1>1. /\ o \in Seq(needy)
      /\ \A i, j \in 1..Len(o) : o[i] = o[j] => i = j
      /\ \A x \in needy : \E i \in 1..Len(o) : o[i] = x
  BY InOrderLists
<1>2. Grants = [i \in 1..Len(o) |-> [kind |-> "credit", stream |-> o[i],
                                     bytes |-> MaxPending - outstanding[o[i]]]]
  BY DEF Grants
<1> HIDE DEF o
<1>3. Len(o) \in Nat /\ \A i \in 1..Len(o) : o[i] \in needy
  BY <1>1
<1>4. PICK g \in Seq(Requests) : g = Grants
  BY GrantsTypes
<1>5. Len(g) = Len(o)
  <2>1. DOMAIN g = 1..Len(o)
    BY <1>2, <1>4
  <2> QED BY <1>3, <2>1
<1>6. \A i \in 1..Len(g) : /\ IsCredit(g[i], s) <=> o[i] = s
                           /\ g[i].bytes = MaxPending - outstanding[o[i]]
  BY <1>2, <1>4, <1>5 DEF IsCredit
<1>7. CASE s \in needy
  <2>1. PICK i \in 1..Len(o) : o[i] = s
    BY <1>1, <1>7
  <2>2. \A j \in 1..Len(g) : IsCredit(g[j], s) <=> j = i
    BY <1>1, <1>5, <1>6, <2>1
  <2>3. PICK n \in Nat : n = MaxPending - outstanding[s]
    BY <1>7, WindowAssumption
  <2>4. g[i].bytes = n /\ i \in 1..Len(g)
    BY <1>5, <1>6, <2>1, <2>3
  <2>5. \A u : u \in Permits(g, s) <=> \E k \in 1..n : u = <<i, k>>
    <3>1. \A u : u \in Permits(g, s) <=>
            \E j \in 1..Len(g) : IsCredit(g[j], s) /\ \E k \in 1..g[j].bytes : u = <<j, k>>
      BY PermitsOf
    <3> QED BY <2>2, <2>4, <3>1, Zenon
  <2>6. Permits(g, s) = {i} \X (1..n)
    BY <2>5
  <2> QED BY <1>4, <2>3, <2>6, ColumnSize DEF Granted
<1>8. CASE s \notin needy
  <2>1. \A j \in 1..Len(g) : ~IsCredit(g[j], s)
    BY <1>3, <1>5, <1>6, <1>8
  <2>2. Permits(g, s) = {}
    BY <2>1, PermitsOf
  <2>3. outstanding[s] = MaxPending
    BY <1>8, WindowAssumption
  <2> QED BY <1>4, <2>2, <2>3, FS_EmptySet, WindowAssumption DEF Granted
<1> QED BY <1>7, <1>8

-----------------------------------------------------------------------------
(* Credit: the refinement of CreditFlow.                                   *)

\* While the session serves, what was granted and not received is what the
\* shim may still read, what is on its way to it and what it has read; and an
\* unfinished line is within its limit.
CreditInv ==
  Up => \A s \in Streams :
    /\ got[s] - start[s] <= MaxLine
    /\ read[s] - got[s] <= outstanding[s]
    /\ shim \in {"loop", "drain"} =>
         avail[s] + Granted(toShim, s) = outstanding[s] - (read[s] - got[s])

LEMMA CreditInit ==
  ASSUME Init PROVE CreditInv
<1>1. ASSUME NEW s \in Streams PROVE Granted(toShim, s) = 0
  <2>1. Permits(<<>>, s) = {}
    BY DEF Permits
  <2> QED BY <2>1, FS_EmptySet DEF Init, Granted
<1>2. \A s \in Streams : got[s] = 0 /\ start[s] = 0 /\ read[s] = 0 /\ avail[s] = 0
                         /\ outstanding[s] = 0
  BY DEF Init, Zero
<1> QED BY <1>1, <1>2, WindowAssumption DEF CreditInv

LEMMA ArrivesCredit ==
  ASSUME Core, CreditInv, DataArrives
  PROVE  LET m == Head(toBeam) IN
         /\ got' = [got EXCEPT ![m.stream] = m.to]
         /\ start' = [start EXCEPT ![m.stream] = RestFrom(m.stream, m.to)]
         /\ outstanding' = [outstanding EXCEPT ![m.stream] = @ - (m.to - m.from)]
         /\ m.to - RestFrom(m.stream, m.to) <= MaxLine
         /\ ServeWaiter(queue \o LinesOf(m.stream, m.to))
<1>1. PICK m : m = Head(toBeam)
  OBVIOUS
<1>2. /\ Up /\ Arrived("data")
      /\ ~OverLimit(m.stream, m.to)
      /\ got' = [got EXCEPT ![m.stream] = m.to]
      /\ start' = [start EXCEPT ![m.stream] = RestFrom(m.stream, m.to)]
      /\ outstanding' = [outstanding EXCEPT ![m.stream] =
                           IF @ > m.to - m.from THEN @ - (m.to - m.from) ELSE 0]
      /\ ServeWaiter(queue \o LinesOf(m.stream, m.to))
  BY <1>1, Zenon DEF DataArrives
<1>3. /\ m.stream \in Streams /\ m.to \in Nat /\ m.from = got[m.stream] /\ m.from < m.to
      /\ m.to <= read[m.stream]
  BY <1>1, <1>2, HeadIsNext
<1>4. PICK s \in Streams : s = m.stream
  BY <1>3
<1>5. /\ outstanding \in [Streams -> 0..MaxPending] /\ got \in [Streams -> Nat]
      /\ read \in [Streams -> Nat] /\ start \in [Streams -> Nat]
      /\ start[s] <= got[s]
  BY DEF Core, Types, LineTypes, ShimTypes, OutputInv
<1>6. read[s] - got[s] <= outstanding[s] /\ outstanding[s] \in Nat
  BY <1>2, <1>5, WindowAssumption DEF CreditInv
<1>7. m.to - m.from <= outstanding[s]
  BY <1>3, <1>4, <1>5, <1>6
<1>8. outstanding' = [outstanding EXCEPT ![m.stream] = @ - (m.to - m.from)]
  <2>1. outstanding[s] > m.to - m.from \/ outstanding[s] - (m.to - m.from) = 0
    BY <1>3, <1>4, <1>5, <1>6, <1>7
  <2> QED BY <1>2, <1>4, <1>5, <2>1
<1>9. m.to - RestFrom(m.stream, m.to) <= MaxLine
  <2>1. start[s] <= m.to
    BY <1>3, <1>4, <1>5
  <2>2. RestFrom(s, m.to) \in Nat
    BY <1>3, <1>5, <2>1, RestOf
  <2>3. ~(m.to - RestFrom(m.stream, m.to) > MaxLine)
    BY <1>2, Zenon DEF OverLimit
  <2> QED BY <1>3, <1>4, <2>2, <2>3, WindowAssumption
<1> QED BY <1>1, <1>2, <1>8, <1>9, Zenon

LEMMA CreditStep ==
  ASSUME Core, CreditInv, [Next]_vars
  PROVE  CreditInv'
<1> SUFFICES ASSUME Up' PROVE CreditInv'
  BY DEF CreditInv
<1>0. /\ Up /\ Types /\ Types' /\ OutputInv /\ EndInv /\ EndInv'
      /\ read \in [Streams -> Nat] /\ got \in [Streams -> Nat] /\ start \in [Streams -> Nat]
      /\ avail \in [Streams -> Nat] /\ outstanding \in [Streams -> 0..MaxPending]
      /\ toShim \in Seq(Requests) /\ MaxPending \in Nat
      /\ \A s \in Streams : outstanding[s] \in Nat
  <2>1. Up /\ Core'
    BY UpBefore, CoreInductive
  <2>2. \A s \in Streams : outstanding[s] \in 0..MaxPending
    BY DEF Core, Types, LineTypes
  <2> QED BY <2>1, <2>2, WindowAssumption DEF Core, Types, ShimTypes, LineTypes, WireTypes
<1>1. /\ \A s \in Streams : Granted(toShim, s) \in Nat
      /\ \A s \in Streams :
           /\ got[s] - start[s] <= MaxLine
           /\ read[s] - got[s] <= outstanding[s]
           /\ shim \in {"loop", "drain"} =>
                avail[s] + Granted(toShim, s) = outstanding[s] - (read[s] - got[s])
      /\ shim \in {"loop", "drain", "linger", "gone"}
      /\ \A i \in 1..Len(toShim) : toShim[i].kind # "kill"
      /\ shim = "linger" => eof = Streams
  BY <1>0, PermitsFinite DEF CreditInv, EndInv
<1>2. ASSUME UNCHANGED <<read, got, start, outstanding, avail, toShim>>,
             shim' \in {"loop", "drain"} => shim \in {"loop", "drain"}
      PROVE  CreditInv'
  BY <1>1, <1>2 DEF CreditInv
<1>3. ASSUME UNCHANGED <<read, got, outstanding, avail, toShim, shim>>, start' = got
      PROVE  CreditInv'
  <2>1. \A s \in Streams : got'[s] - start'[s] <= MaxLine
    BY <1>0, <1>3, WindowAssumption
  <2> QED BY <1>1, <1>3, <2>1 DEF CreditInv
<1>4. CASE Child
  BY <1>2, <1>4 DEF Child, ChildExit, ChildWrite, shimVars, wireVars, lineVars
<1>5. ASSUME NEW s \in Streams, NEW k \in 1..FrameMax, PumpForward(s, k) PROVE CreditInv'
  <2>1. /\ Alive /\ s \notin eof /\ k <= avail[s]
        /\ read' = [read EXCEPT ![s] = @ + k]
        /\ avail' = [avail EXCEPT ![s] = IF shim \in {"cut", "linger"} THEN 0 ELSE @ - k]
        /\ UNCHANGED <<shim, toShim, got, start, outstanding>>
    BY <1>5 DEF PumpForward, lineVars
  <2>2. shim \in {"loop", "drain"}
    BY <1>1, <2>1 DEF Alive
  <2>3. k \in Nat \ {0}
    BY LimitAssumption
  <2>4. avail' = [avail EXCEPT ![s] = @ - k]
    BY <2>1, <2>2
  <2>5. read'[s] - got[s] <= outstanding[s]
        /\ avail'[s] + Granted(toShim, s) = outstanding[s] - (read'[s] - got[s])
    <3>1. /\ avail[s] + Granted(toShim, s) = outstanding[s] - (read[s] - got[s])
          /\ Granted(toShim, s) \in Nat
      BY <1>1, <2>2
    <3>2. read'[s] = read[s] + k /\ avail'[s] = avail[s] - k /\ k <= avail[s]
      BY <1>0, <2>1, <2>4
    <3>3. avail[s] \in Nat /\ read[s] \in Nat /\ got[s] \in Nat /\ outstanding[s] \in Nat
      BY <1>0
    <3> QED BY <2>3, <3>1, <3>2, <3>3
  <2>6. \A x \in Streams : x # s => read'[x] = read[x] /\ avail'[x] = avail[x]
    BY <1>0, <2>1, <2>4
  <2>7. ASSUME NEW x \in Streams
        PROVE  read'[x] - got[x] <= outstanding[x]
               /\ avail'[x] + Granted(toShim, x) = outstanding[x] - (read'[x] - got[x])
    BY <1>1, <2>2, <2>5, <2>6
  <2> QED BY <1>1, <2>1, <2>7 DEF CreditInv
<1>6. CASE ShimCredit
  <2>1. /\ toShim # <<>> /\ Head(toShim).kind = "credit" /\ toShim' = Tail(toShim)
        /\ avail' = IF shim \in {"loop", "kill", "drain"}
                    THEN [avail EXCEPT ![Head(toShim).stream] = @ + Head(toShim).bytes]
                    ELSE avail
        /\ UNCHANGED <<shim, read, got, start, outstanding>>
    BY <1>6 DEF ShimCredit, lineVars
  <2>2. PICK m \in Requests : m = Head(toShim)
    BY <1>0, <2>1, HeadTailProperties
  <2>3. m.kind = "credit" /\ m.stream \in Streams /\ m.bytes \in Nat
    BY <2>1, <2>2 DEF Requests
  <2>4. toShim' \in Seq(Requests)
    BY <1>0 DEF Types, WireTypes
  <2>5. ASSUME NEW x \in Streams
        PROVE  Granted(toShim', x) \in Nat
               /\ Granted(toShim, x) = (IF x = m.stream THEN m.bytes ELSE 0) + Granted(toShim', x)
    <3>1. Granted(toShim, x) = (IF IsCredit(m, x) THEN m.bytes ELSE 0) + Granted(toShim', x)
      BY <1>0, <2>1, <2>2, PermitsTaken
    <3>2. Granted(toShim', x) \in Nat
      BY <2>4, PermitsFinite
    <3> QED BY <2>3, <3>1, <3>2 DEF IsCredit
  <2>6. ASSUME shim \in {"loop", "drain"}, NEW x \in Streams
        PROVE  avail'[x] + Granted(toShim', x) = outstanding[x] - (read[x] - got[x])
    <3>1. avail' = [avail EXCEPT ![m.stream] = @ + m.bytes]
      BY <2>1, <2>2, <2>6
    <3>2. avail'[x] = avail[x] + (IF x = m.stream THEN m.bytes ELSE 0)
      BY <1>0, <2>3, <3>1
    <3>3. avail[x] \in Nat
      BY <1>0
    <3> QED BY <1>1, <2>3, <2>5, <2>6, <3>2, <3>3
  <2> QED BY <1>1, <2>1, <2>6 DEF CreditInv
<1>7. CASE ShimKill
  <2>1. toShim # <<>> /\ Head(toShim).kind = "kill"
    BY <1>7 DEF ShimKill
  <2>2. Head(toShim) = toShim[1] /\ 1 \in 1..Len(toShim)
    BY <1>0, <2>1
  <2> QED BY <1>1, <2>1, <2>2
<1>8. CASE ShimReap
  <2>1. UNCHANGED <<read, got, start, outstanding, avail, toShim>> /\ shim = "loop"
    BY <1>1, <1>8 DEF ShimReap, lineVars, wireVars
  <2> QED BY <1>2, <2>1
<1>9. CASE ShimDrained \/ ShimCut \/ ShimLeft \/ ShimCrash
  <2>1. UNCHANGED <<read, got, start, outstanding, avail, toShim>>
        /\ shim' \in {"linger", "gone"}
    BY <1>9 DEF ShimDrained, ShimCut, ShimLeft, ShimCrash, WriteExit, lineVars, wireVars
  <2> QED BY <1>2, <2>1
<1>10. CASE \E s \in Streams : PumpEof(s)
  BY <1>2, <1>10 DEF PumpEof, lineVars, wireVars
<1>11. ASSUME NEW c \in Callers, RecvHold(c) PROVE CreditInv'
  <2>1. /\ toShim' = toShim \o Grants /\ outstanding' = [s \in Streams |-> MaxPending]
        /\ UNCHANGED <<shim, read, avail, got, start>>
    BY <1>11 DEF RecvHold, shimVars
  <2>2. PICK g \in Seq(Requests) : g = Grants
    BY <1>0, GrantsTypes
  <2>3. ASSUME NEW x \in Streams
        PROVE  /\ Granted(toShim', x) = Granted(toShim, x) + (MaxPending - outstanding[x])
               /\ outstanding'[x] = MaxPending /\ outstanding[x] <= MaxPending
               /\ avail[x] \in Nat /\ read[x] \in Nat /\ got[x] \in Nat
               /\ outstanding[x] \in Nat /\ Granted(toShim, x) \in Nat
    <3>1. Granted(toShim \o g, x) = Granted(toShim, x) + Granted(g, x)
      BY <1>0, PermitsJoined
    <3>2. Granted(g, x) = MaxPending - outstanding[x]
      BY <1>0, <2>2, GrantsTopUp
    <3> QED BY <1>0, <1>1, <2>1, <2>2, <3>1, <3>2
  <2>4. ASSUME NEW x \in Streams PROVE read[x] - got[x] <= outstanding'[x]
    BY <1>0, <1>1, <2>3
  <2>5. ASSUME shim \in {"loop", "drain"}, NEW x \in Streams
        PROVE  avail[x] + Granted(toShim', x) = outstanding'[x] - (read[x] - got[x])
    <3>1. avail[x] + Granted(toShim, x) = outstanding[x] - (read[x] - got[x])
      BY <1>1, <2>5
    <3>2. /\ Granted(toShim', x) = Granted(toShim, x) + (MaxPending - outstanding[x])
          /\ outstanding'[x] = MaxPending /\ outstanding[x] \in Nat /\ Granted(toShim, x) \in Nat
          /\ avail[x] \in Nat /\ read[x] \in Nat /\ got[x] \in Nat
      BY <2>3
    <3>3. PICK b \in Nat : b = Granted(toShim, x)
      BY <3>2
    <3>4. PICK w \in Nat : w = outstanding[x]
      BY <3>2
    <3>5. Granted(toShim', x) = b + (MaxPending - w) /\ outstanding'[x] = MaxPending
      BY <3>2, <3>3, <3>4
    <3>6. PICK a \in Nat : a = avail[x]
      BY <3>2
    <3>7. PICK t \in Int : t = read[x] - got[x]
      BY <3>2
    <3>8. a + b = w - t
      BY <3>1, <3>3, <3>4, <3>6, <3>7
    <3>9. a + (b + (MaxPending - w)) = MaxPending - t
      BY <3>8, WindowAssumption
    <3> QED BY <3>5, <3>6, <3>7, <3>9
  <2> QED BY <1>1, <2>1, <2>4, <2>5 DEF CreditInv
<1>12. ASSUME NEW c \in Callers, RecvLine(c) PROVE CreditInv'
  BY <1>2, <1>12 DEF RecvLine, shimVars
<1>13. CASE \E c \in Callers : RecvBusy(c) \/ TerminalReply(c) \/ RecvCall(c)
  BY <1>2, <1>13 DEF RecvBusy, TerminalReply, RecvCall, lineVars, shimVars, wireVars
<1>14. CASE TimerFire \/ \E r \in late : RecvTimeout(r)
  BY <1>2, <1>14 DEF TimerFire, RecvTimeout, lineVars, shimVars, wireVars
<1>15. CASE DataArrives
  <2>1. PICK m : m = Head(toBeam)
    OBVIOUS
  <2>2. /\ got' = [got EXCEPT ![m.stream] = m.to]
        /\ start' = [start EXCEPT ![m.stream] = RestFrom(m.stream, m.to)]
        /\ outstanding' = [outstanding EXCEPT ![m.stream] = @ - (m.to - m.from)]
        /\ m.to - RestFrom(m.stream, m.to) <= MaxLine
    BY <1>15, <2>1, ArrivesCredit, Zenon
  <2>3. Arrived("data") /\ UNCHANGED <<shim, read, avail, toShim>>
    BY <1>15, Zenon DEF DataArrives, shimVars
  <2>4. /\ m.stream \in Streams /\ m.to \in Nat /\ m.from = got[m.stream] /\ m.from < m.to
    BY <1>0, <2>1, <2>3, HeadIsNext
  <2>5. PICK s \in Streams : s = m.stream
    BY <2>4
  <2>6. /\ got'[s] = m.to /\ outstanding'[s] = outstanding[s] - (m.to - got[s])
        /\ start'[s] = RestFrom(m.stream, m.to)
        /\ \A x \in Streams : x # s => got'[x] = got[x] /\ outstanding'[x] = outstanding[x]
                                       /\ start'[x] = start[x]
    BY <1>0, <2>2, <2>4, <2>5
  <2>7. read[s] - m.to <= outstanding'[s]
        /\ outstanding'[s] - (read[s] - m.to) = outstanding[s] - (read[s] - got[s])
    <3>1. read[s] - got[s] <= outstanding[s] /\ outstanding'[s] = outstanding[s] - (m.to - got[s])
      BY <1>1, <2>3, <2>6
    <3>2. read[s] \in Nat /\ got[s] \in Nat /\ outstanding[s] \in Nat /\ m.to \in Nat
      BY <1>0, <2>4
    <3> QED BY <3>1, <3>2
  <2>8. ASSUME NEW x \in Streams
        PROVE  /\ got'[x] - start'[x] <= MaxLine
               /\ read[x] - got'[x] <= outstanding'[x]
               /\ outstanding'[x] - (read[x] - got'[x]) = outstanding[x] - (read[x] - got[x])
    <3>1. CASE x = s
      BY <2>2, <2>6, <2>7, <3>1
    <3>2. CASE x # s
      BY <1>1, <2>6, <3>2
    <3> QED BY <3>1, <3>2
  <2> QED BY <1>1, <2>3, <2>8 DEF CreditInv
<1>16. CASE ExitArrives \/ ShimLost
  <2>1. PICK ex \in {"exited", "lost"} : \E t \in Terminals :
                Up /\ toBeam # <<>> /\ Ended(ex, t)
    BY <1>16, EndEvidence, Zenon
  <2>2. start' = got /\ UNCHANGED <<shimVars, toShim, got, outstanding>>
    BY <2>1, EndedEffect
  <2> QED BY <1>3, <2>2 DEF shimVars
<1>17. CASE LimitExceeded \/ Stop \/ SettleData \/ SettleExit \/ SettleLost \/ SettleTimeout
  <2>1. server' # "up"
    BY <1>17 DEF LimitExceeded, Stop, SettleData, SettleExit, SettleLost, SettleTimeout,
                 Settle, Publish, StartSettling, serverVars
  <2> QED BY <2>1 DEF Up
<1>18. CASE Over \/ UNCHANGED vars
  BY <1>2, <1>18 DEF Over, vars, lineVars, shimVars, wireVars
<1> QED BY <1>4, <1>5, <1>6, <1>7, <1>8, <1>9, <1>10, <1>11, <1>12, <1>13, <1>14, <1>15, <1>16,
           <1>17, <1>18 DEF Next, Server, Shim

\* The bytes of stream s in these lines.
Held(lines, s) == Cardinality(Addresses(lines, s))

LEMMA HeldInterval ==
  ASSUME NEW w, NEW s, NEW a \in Nat, NEW b \in Nat, a <= b, Addresses(w, s) = (a + 1)..b
  PROVE  Held(w, s) = b - a
<1>1. a + 1 \in Int /\ b \in Int
  OBVIOUS
<1>2. Cardinality((a + 1)..b) = IF a + 1 > b THEN 0 ELSE b - (a + 1) + 1
  BY <1>1, FS_Interval
<1>3. Held(w, s) = IF a + 1 > b THEN 0 ELSE b - (a + 1) + 1
  BY <1>2 DEF Held
<1> QED BY <1>3

\* Lines in order have no byte in common.
LEMMA HeldJoined ==
  ASSUME NEW v \in Seq(Range3), NEW w \in Seq(Range3), NEW s, NEW n \in Nat,
         Ordered(v \o w), Addresses(v \o w, s) \subseteq 0..n
  PROVE  /\ Held(v \o w, s) = Held(v, s) + Held(w, s)
         /\ Held(v, s) \in Nat /\ Held(w, s) \in Nat
         /\ Ordered(w) /\ Addresses(w, s) \subseteq 0..n
<1> DEFINE u == v \o w
           k == Len(v)
           A == Addresses(v, s)
           B == Addresses(w, s)
<1>1. /\ u \in Seq(Range3) /\ Len(u) = k + Len(w) /\ k \in Nat /\ Len(w) \in Nat
      /\ \A i \in 1..k : u[i] = v[i] /\ i \in 1..Len(u)
      /\ \A i \in 1..Len(w) : u[k + i] = w[i] /\ k + i \in 1..Len(u)
  BY Joined
<1>2. Addresses(u, s) = A \cup B
  BY AddressesJoined
<1>3. Ordered(u)
  OBVIOUS
<1>4. k = Len(v)
  OBVIOUS
<1> HIDE DEF u, k
<1>5. Ordered(w)
  <2>1. \A i \in 1..Len(w) : w[i].from < w[i].to
    BY <1>1, <1>3 DEF Ordered
  <2>2. ASSUME NEW i \in 1..Len(w), NEW j \in 1..Len(w), i < j, w[i].stream = w[j].stream
        PROVE  w[i].to <= w[j].from
    <3>1. k + i < k + j
      BY <1>1, <2>2
    <3> QED BY <1>1, <1>3, <2>2, <3>1 DEF Ordered
  <2> QED BY <2>1, <2>2 DEF Ordered
<1>6. A \cap B = {}
  <2> SUFFICES ASSUME NEW p \in A, p \in B PROVE FALSE
    OBVIOUS
  <2>1. PICK i \in 1..k : v[i].stream = s /\ p \in (v[i].from + 1)..v[i].to
    BY <1>4, AddressOf
  <2>2. PICK j \in 1..Len(w) : w[j].stream = s /\ p \in (w[j].from + 1)..w[j].to
    BY AddressOf
  <2>3. i < k + j
    BY <1>1
  <2>4. v[i].to <= w[j].from
    BY <1>1, <1>3, <2>1, <2>2, <2>3 DEF Ordered
  <2>5. v[i].from \in Nat /\ v[i].to \in Nat /\ w[j].from \in Nat /\ w[j].to \in Nat
    BY <1>4, LineTypesOf
  <2> QED BY <2>1, <2>2, <2>4, <2>5
<1>7. A \in SUBSET (0..n) /\ B \in SUBSET (0..n)
  BY <1>2 DEF u
<1> HIDE DEF A, B
<1>8. /\ IsFiniteSet(A) /\ IsFiniteSet(B)
      /\ Cardinality(A) \in Nat /\ Cardinality(B) \in Nat
  BY <1>7, BoundedIsFinite
<1>9. Cardinality(A \cup B) = Cardinality(A) + Cardinality(B) - Cardinality(A \cap B)
  BY <1>8, FS_Union
<1>10. Cardinality(A \cap B) = 0
  BY <1>6, FS_EmptySet
<1>11. Cardinality(A \cup B) = Cardinality(A) + Cardinality(B)
  BY <1>8, <1>9, <1>10
<1> QED BY <1>2, <1>5, <1>7, <1>8, <1>11 DEF A, B, u, Held

LEMMA HeldTaken ==
  ASSUME NEW w \in Seq(Range3), w # <<>>, NEW s, NEW n \in Nat,
         Ordered(w), Addresses(w, s) \subseteq 0..n
  PROVE  /\ Held(w, s) = (IF Head(w).stream = s THEN Head(w).to - Head(w).from ELSE 0)
                         + Held(Tail(w), s)
         /\ Held(Tail(w), s) \in Nat
         /\ Head(w).stream \in Streams /\ Head(w).from \in Nat /\ Head(w).to \in Nat
         /\ Head(w).from < Head(w).to
<1>1. PICK l \in Range3 : l = Head(w)
  BY HeadTailProperties
<1>2. PICK v \in Seq(Range3) : v = <<l>> /\ Len(v) = 1 /\ v[1] = l
  <2>1. <<l>> \in Seq(Range3)
    OBVIOUS
  <2> QED BY <2>1
<1>3. PICK r \in Seq(Range3) : r = Tail(w)
  BY HeadTailProperties
<1>4. w = v \o r
  BY <1>1, <1>2, <1>3, HeadTailProperties
<1>9. Held(w, s) = Held(v, s) + Held(r, s) /\ Held(r, s) \in Nat
  <2>1. Ordered(v \o r) /\ Addresses(v \o r, s) \subseteq 0..n
    BY <1>4
  <2>2. Held(v \o r, s) = Held(v, s) + Held(r, s) /\ Held(r, s) \in Nat
    BY <2>1, HeldJoined
  <2> QED BY <1>4, <2>2
<1>5. l.stream \in Streams /\ l.from \in Nat /\ l.to \in Nat
  BY DEF Range3
<1>6. l.from < l.to
  <2>1. l = w[1] /\ 1 \in 1..Len(w)
    BY <1>1
  <2> QED BY <2>1 DEF Ordered
<1>7. \A p : p \in Addresses(v, s) <=> l.stream = s /\ p \in (l.from + 1)..l.to
  <2>1. \A p : p \in Addresses(v, s) <=>
          \E i \in 1..Len(v) : v[i].stream = s /\ p \in (v[i].from + 1)..v[i].to
    BY AddressOf
  <2>2. 1..Len(v) = {1}
    BY <1>2
  <2> QED BY <1>2, <2>1, <2>2
<1>8. Held(v, s) = IF l.stream = s THEN l.to - l.from ELSE 0
  <2>1. CASE l.stream = s
    <3>1. Addresses(v, s) = (l.from + 1)..l.to
      BY <1>7, <2>1
    <3> QED BY <1>5, <1>6, <2>1, <3>1, HeldInterval
  <2>2. CASE l.stream # s
    <3>1. Addresses(v, s) = {}
      BY <1>7, <2>2
    <3> QED BY <2>2, <3>1, FS_EmptySet DEF Held
  <2> QED BY <2>1, <2>2
<1> QED BY <1>1, <1>3, <1>5, <1>6, <1>8, <1>9

LEMMA HeldNothing ==
  ASSUME NEW s PROVE Held(<<>>, s) = 0
<1>1. Range(<<>>) = {}
  BY DEF Range
<1>2. Addresses(<<>>, s) = {}
  BY <1>1 DEF Addresses, Covered
<1> QED BY <1>2, FS_EmptySet DEF Held

\* What is queued is in order and part of the lines there are.
LEMMA QueueInOrder ==
  Core /\ LinesIntact =>
    /\ Ordered(queue)
    /\ \A s \in Streams : Addresses(queue, s) \subseteq 0..start[s] /\ Held(queue, s) \in Nat
<1> SUFFICES ASSUME Core, LinesIntact
             PROVE  /\ Ordered(queue)
                    /\ \A s \in Streams : /\ Addresses(queue, s) \subseteq 0..start[s]
                                          /\ Held(queue, s) \in Nat
  OBVIOUS
<1>1. /\ queue \in Seq(Range3) /\ delivered \in Seq(Range3)
      /\ \A s \in Streams : start[s] \in Nat
  BY DEF Core, Types, LineTypes, CallTypes
<1>2. delivered \o queue \in Seq(Range3)
  BY <1>1
<1>3. /\ \A s \in Streams : Addresses(delivered \o queue, s) = 1..start[s]
      /\ Ordered(delivered \o queue)
  BY <1>2, IntactIs, Zenon DEF IntactLines
<1>4. ASSUME NEW s \in Streams
      PROVE  /\ Ordered(queue)
             /\ Addresses(queue, s) \subseteq 0..start[s] /\ Held(queue, s) \in Nat
  <2>1. Addresses(delivered \o queue, s) \subseteq 0..start[s]
    BY <1>1, <1>3
  <2>2. start[s] \in Nat
    BY <1>1
  <2> QED BY <1>1, <1>3, <2>1, <2>2, HeldJoined
<1>5. CASE Streams = {}
  <2>1. \A i \in 1..Len(queue) : queue[i].stream \in Streams
    BY <1>1, LineTypesOf
  <2>2. 1..Len(queue) = {}
    BY <1>5, <2>1
  <2> QED BY <1>5, <2>2 DEF Ordered
<1> QED BY <1>4, <1>5

LEMMA QueueStays ==
  (Core /\ LinesIntact =>
    /\ Ordered(queue)
    /\ \A s \in Streams : Addresses(queue, s) \subseteq 0..start[s] /\ Held(queue, s) \in Nat)'
BY QueueInOrder, PTL

-----------------------------------------------------------------------------
(* What CreditFlow sees of a session.                                      *)

\* The mapped state while the session serves.
Shown ==
  /\ WhileUp(outstanding) = outstanding
  /\ WhileUp([s \in Streams |-> Budget(s)]) =
       [s \in Streams |-> outstanding[s] - (read[s] - got[s])]
  /\ WhileUp([s \in Streams |-> InTransit(s)]) = [s \in Streams |-> read[s] - got[s]]
  /\ WhileUp([s \in Streams |-> got[s] - start[s]]) = [s \in Streams |-> got[s] - start[s]]
  /\ WhileUp([s \in Streams |-> Cardinality(Addresses(queue, s))]) =
       [s \in Streams |-> Held(queue, s)]

LEMMA Shows ==
  Core /\ CreditInv /\ Up => Shown
<1> SUFFICES ASSUME Core, CreditInv, Up PROVE Shown
  OBVIOUS
<1>1. \A f : WhileUp(f) = f
  BY DEF WhileUp
<1>2. ASSUME NEW s \in Streams PROVE InTransit(s) = read[s] - got[s]
  <2>1. Covered(FramesOf(s)) = (got[s] + 1)..read[s]
    BY FramesInOf DEF Core, DataInv
  <2>2. got[s] \in Nat /\ read[s] \in Nat /\ got[s] <= read[s]
    BY DEF Core, Types, LineTypes, ShimTypes, OutputInv
  <2>3. got[s] + 1 \in Int /\ read[s] \in Int
    BY <2>2
  <2>4. Cardinality((got[s] + 1)..read[s]) = IF got[s] + 1 > read[s] THEN 0
                                             ELSE read[s] - (got[s] + 1) + 1
    BY <2>3, FS_Interval
  <2>5. InTransit(s) = IF got[s] + 1 > read[s] THEN 0 ELSE read[s] - (got[s] + 1) + 1
    BY <2>1, <2>4 DEF InTransit
  <2> QED BY <2>2, <2>5
<1>3. ASSUME NEW s \in Streams PROVE Budget(s) = outstanding[s] - (read[s] - got[s])
  <2>1. OnTheWay(s) = Granted(toShim, s)
    BY DEF OnTheWay, Granted, Permits, IsCredit
  <2>2. shim \in {"loop", "drain", "linger", "gone"}
    BY DEF Core, EndInv
  <2>3. CASE shim \in {"loop", "drain"}
    <3>1. Budget(s) = avail[s] + OnTheWay(s)
      BY <2>3 DEF Budget
    <3> QED BY <2>1, <2>3, <3>1 DEF CreditInv
  <2>4. CASE shim \notin {"loop", "drain"}
    <3>1. Budget(s) = outstanding[s] - InTransit(s)
      BY <2>2, <2>4 DEF Budget
    <3> QED BY <1>2, <3>1
  <2> QED BY <2>3, <2>4
<1>4. \A s \in Streams : Cardinality(Addresses(queue, s)) = Held(queue, s)
  BY DEF Held
<1> QED BY <1>1, <1>2, <1>3, <1>4, Zenon DEF Shown

LEMMA ShowsAgain ==
  (Core /\ CreditInv /\ Up => Shown)'
BY Shows, PTL

\* The same numbers as far as they matter, as numbers.
Numbers ==
  /\ got \in [Streams -> Nat] /\ start \in [Streams -> Nat] /\ read \in [Streams -> Nat]
  /\ outstanding \in [Streams -> 0..MaxPending]
  /\ \A s \in Streams : /\ outstanding[s] \in Nat /\ outstanding[s] <= MaxPending
                        /\ start[s] <= got[s] /\ got[s] <= read[s]
                        /\ read[s] - got[s] <= outstanding[s]
                        /\ got[s] - start[s] <= MaxLine

LEMMA NumbersAre ==
  Core /\ CreditInv /\ Up => Numbers
<1> SUFFICES ASSUME Core, CreditInv, Up PROVE Numbers
  OBVIOUS
<1>1. /\ got \in [Streams -> Nat] /\ start \in [Streams -> Nat] /\ read \in [Streams -> Nat]
      /\ outstanding \in [Streams -> 0..MaxPending]
  BY DEF Core, Types, LineTypes, ShimTypes
<1> QED BY <1>1, WindowAssumption DEF Numbers, Core, OutputInv, CreditInv

LEMMA NumbersStay ==
  (Core /\ CreditInv /\ Up => Numbers)'
BY NumbersAre, PTL

\* A step that changes none of the numbers.
LEMMA FlowStutters ==
  ASSUME Shown, Shown', Up' = Up, UNCHANGED <<outstanding, read, got, start, queue>>,
         waiter' = NoWaiter <=> waiter = NoWaiter
  PROVE  UNCHANGED Flow!vars
<1>1. (Up /\ waiter # NoWaiter)' = (Up /\ waiter # NoWaiter)
  BY Zenon
<1>2. UNCHANGED <<WhileUp(outstanding), WhileUp([s \in Streams |-> Budget(s)]),
                  WhileUp([s \in Streams |-> InTransit(s)]),
                  WhileUp([s \in Streams |-> got[s] - start[s]]),
                  WhileUp([s \in Streams |-> Cardinality(Addresses(queue, s))])>>
  BY DEF Shown
<1> QED BY <1>1, <1>2, Zenon DEF Flow!vars

LEMMA ShutStutters ==
  ASSUME ~Up, ~Up' PROVE UNCHANGED Flow!vars
<1>1. (Up /\ waiter # NoWaiter)' = (Up /\ waiter # NoWaiter) /\ Up' = Up
  BY DEF Up
<1>2. UNCHANGED <<WhileUp(outstanding), WhileUp([s \in Streams |-> Budget(s)]),
                  WhileUp([s \in Streams |-> InTransit(s)]),
                  WhileUp([s \in Streams |-> got[s] - start[s]]),
                  WhileUp([s \in Streams |-> Cardinality(Addresses(queue, s))])>>
  BY Zenon DEF WhileUp, Zero
<1> QED BY <1>1, <1>2, Zenon DEF Flow!vars

LEMMA StoppingCloses ==
  ASSUME Up, ~Up' PROVE Flow!Close
<1>1. Up' = FALSE /\ (Up /\ waiter # NoWaiter)' = FALSE
  BY DEF Up
<1>2. Zero = Flow!Zero /\ Zero' = Zero
  BY DEF Zero, Flow!Zero
<1>3. /\ WhileUp(outstanding)' = Zero
      /\ WhileUp([s \in Streams |-> Budget(s)])' = Zero
      /\ WhileUp([s \in Streams |-> InTransit(s)])' = Zero
      /\ WhileUp([s \in Streams |-> got[s] - start[s]])' = Zero
      /\ WhileUp([s \in Streams |-> Cardinality(Addresses(queue, s))])' = Zero
  BY <1>2, Zenon DEF WhileUp
<1> QED BY <1>1, <1>2, <1>3, Zenon DEF Flow!Close

LEMMA ForwardReads ==
  ASSUME Numbers, Numbers', Shown, Shown', Up, Up', NEW s \in Streams, NEW k \in 1..FrameMax,
         PumpForward(s, k)
  PROVE  Flow!Next
<1>1. /\ read' = [read EXCEPT ![s] = @ + k]
      /\ UNCHANGED <<outstanding, got, start, queue, waiter>>
  BY DEF PumpForward, lineVars, recvVars
<1>2. k \in Nat \ {0}
  BY LimitAssumption
<1>3. PICK b : b = WhileUp([x \in Streams |-> Budget(x)])
  OBVIOUS
<1>4. PICK t : t = WhileUp([x \in Streams |-> InTransit(x)])
  OBVIOUS
<1>5. b = [x \in Streams |-> outstanding[x] - (read[x] - got[x])]
      /\ t = [x \in Streams |-> read[x] - got[x]]
  BY <1>3, <1>4, Zenon DEF Shown
<1>6. WhileUp([x \in Streams |-> Budget(x)])' = [b EXCEPT ![s] = @ - k]
  <2>1. WhileUp([x \in Streams |-> Budget(x)])' =
          [x \in Streams |-> outstanding[x] - (read'[x] - got[x])]
    BY <1>1 DEF Shown
  <2>2. ASSUME NEW x \in Streams
        PROVE  outstanding[x] - (read'[x] - got[x]) = [b EXCEPT ![s] = @ - k][x]
    BY <1>1, <1>2, <1>5 DEF Numbers
  <2>3. [b EXCEPT ![s] = @ - k] = [x \in Streams |-> [b EXCEPT ![s] = @ - k][x]]
    BY <1>5
  <2> QED BY <2>1, <2>2, <2>3
<1>7. WhileUp([x \in Streams |-> InTransit(x)])' = [t EXCEPT ![s] = @ + k]
  <2>1. WhileUp([x \in Streams |-> InTransit(x)])' = [x \in Streams |-> read'[x] - got[x]]
    BY <1>1 DEF Shown
  <2>2. ASSUME NEW x \in Streams PROVE read'[x] - got[x] = [t EXCEPT ![s] = @ + k][x]
    BY <1>1, <1>2, <1>5 DEF Numbers
  <2>3. [t EXCEPT ![s] = @ + k] = [x \in Streams |-> [t EXCEPT ![s] = @ + k][x]]
    BY <1>5
  <2> QED BY <2>1, <2>2, <2>3
<1>8. k \in 1..b[s]
  <2>1. read'[s] - got[s] <= outstanding[s] /\ read'[s] = read[s] + k
    BY <1>1 DEF Numbers
  <2>2. b[s] = outstanding[s] - (read[s] - got[s])
    BY <1>5
  <2>3. read[s] \in Nat /\ got[s] \in Nat /\ outstanding[s] \in Nat
    BY DEF Numbers
  <2> QED BY <1>2, <2>1, <2>2, <2>3
<1>9. UNCHANGED <<WhileUp(outstanding), WhileUp([x \in Streams |-> got[x] - start[x]]),
                  WhileUp([x \in Streams |-> Cardinality(Addresses(queue, x))])>>
  BY <1>1 DEF Shown
<1>10. (Up /\ waiter # NoWaiter)' = (Up /\ waiter # NoWaiter) /\ Up' = Up
  BY <1>1, Zenon
<1>11. Flow!Read(s, k)
  BY <1>3, <1>4, <1>6, <1>7, <1>8, <1>9, <1>10, Zenon DEF Flow!Read
<1> QED BY <1>3, <1>8, <1>11, Zenon DEF Flow!Next

LEMMA HoldDemands ==
  ASSUME Numbers, Shown, Shown', Up, Up', NEW c \in Callers, RecvHold(c)
  PROVE  Flow!Next
<1>1. /\ waiter = NoWaiter /\ queue = <<>> /\ waiter' # NoWaiter
      /\ outstanding' = [s \in Streams |-> MaxPending]
      /\ UNCHANGED <<read, got, start, queue>>
  BY DEF RecvHold, NoWaiter, shimVars
<1>2. \A s \in Streams : Held(queue, s) = 0
  BY <1>1, HeldNothing
<1>3. [s \in Streams |-> Held(queue, s)] = [s \in Streams |-> 0]
  BY <1>2
<1>4. (Up /\ waiter # NoWaiter)' = TRUE /\ ~(Up /\ waiter # NoWaiter) /\ Up' = Up
  BY <1>1, Zenon
<1>5. WhileUp([s \in Streams |-> Cardinality(Addresses(queue, s))]) = Flow!Zero
  BY <1>3, Zenon DEF Shown, Flow!Zero
<1>6. WhileUp(outstanding)' = [s \in Streams |-> MaxPending]
  BY <1>1, Zenon DEF Shown
<1>7. WhileUp([s \in Streams |-> Budget(s)])'
         = [s \in Streams |->
              WhileUp([x \in Streams |-> Budget(x)])[s] + (MaxPending - WhileUp(outstanding)[s])]
  <2>1. WhileUp([s \in Streams |-> Budget(s)])' =
          [s \in Streams |-> MaxPending - (read[s] - got[s])]
    BY <1>1 DEF Shown
  <2>2. PICK b : b = WhileUp([s \in Streams |-> Budget(s)])
    OBVIOUS
  <2>3. b = [s \in Streams |-> outstanding[s] - (read[s] - got[s])]
    BY <2>2, Zenon DEF Shown
  <2>4. WhileUp(outstanding) = outstanding
    BY DEF Shown
  <2>5. \A s \in Streams : MaxPending - (read[s] - got[s]) = b[s] + (MaxPending - outstanding[s])
    BY <2>3, WindowAssumption DEF Numbers
  <2>6. [s \in Streams |-> MaxPending - (read[s] - got[s])] =
          [s \in Streams |-> b[s] + (MaxPending - outstanding[s])]
    BY <2>5
  <2> QED BY <2>1, <2>2, <2>4, <2>6, Zenon
<1>8. UNCHANGED <<WhileUp([s \in Streams |-> InTransit(s)]),
                  WhileUp([s \in Streams |-> got[s] - start[s]]),
                  WhileUp([s \in Streams |-> Cardinality(Addresses(queue, s))])>>
  BY <1>1, <1>4 DEF Shown
<1> QED BY <1>1, <1>4, <1>5, <1>6, <1>7, <1>8, Zenon DEF Flow!Demand, Flow!Next

LEMMA TimeoutWithdraws ==
  ASSUME Shown, Shown', Up, Up', NEW r \in late, RecvTimeout(r)
  PROVE  Flow!Next \/ UNCHANGED Flow!vars
<1>1. UNCHANGED <<outstanding, read, got, start, queue>> /\ Up' = Up
  <2>1. UNCHANGED <<lineVars, read>>
    BY DEF RecvTimeout, shimVars
  <2>2. Up' = Up
    BY DEF Up
  <2> QED BY <2>1, <2>2 DEF lineVars
<1>2. CASE Own(r)
  <2>1. waiter # NoWaiter /\ waiter' = NoWaiter
    BY <1>2, Zenon DEF RecvTimeout, Own
  <2>2. (Up /\ waiter # NoWaiter) /\ (Up /\ waiter # NoWaiter)' = FALSE
    BY <2>1, Zenon
  <2>3. UNCHANGED <<WhileUp(outstanding), WhileUp([s \in Streams |-> Budget(s)]),
                    WhileUp([s \in Streams |-> InTransit(s)]),
                    WhileUp([s \in Streams |-> got[s] - start[s]]),
                    WhileUp([s \in Streams |-> Cardinality(Addresses(queue, s))])>>
    BY <1>1 DEF Shown
  <2> QED BY <1>1, <2>2, <2>3, Zenon DEF Flow!Withdraw, Flow!Next
<1>3. CASE ~Own(r)
  <2>1. waiter' = waiter
    BY <1>3, Zenon DEF RecvTimeout
  <2> QED BY <1>1, <2>1, FlowStutters
<1> QED BY <1>2, <1>3

LEMMA LineTakes ==
  ASSUME Core, LinesIntact, Numbers, Shown, Shown', Up, Up', NEW c \in Callers, RecvLine(c)
  PROVE  Flow!Next
<1>1. /\ waiter = NoWaiter /\ waiter' = NoWaiter /\ queue # <<>> /\ queue' = Tail(queue)
      /\ UNCHANGED <<outstanding, read, got, start>>
  BY DEF RecvLine, Deliver, shimVars
<1>2. queue \in Seq(Range3) /\ Ordered(queue)
      /\ \A x \in Streams : Addresses(queue, x) \subseteq 0..start[x] /\ start[x] \in Nat
  BY QueueInOrder DEF Core, Types, LineTypes
<1>3. PICK h \in Range3 : h = Head(queue)
  BY <1>1, <1>2, HeadTailProperties
<1>4. PICK s \in Streams : s = h.stream
  BY DEF Range3
<1>5. PICK l \in Nat : l = h.to - h.from /\ l > 0
  <2>1. h.from \in Nat /\ h.to \in Nat /\ h.from < h.to
    BY <1>1, <1>2, <1>3, <1>4, HeldTaken
  <2> QED BY <2>1
<1>6. ASSUME NEW x \in Streams
      PROVE  Held(queue, x) = (IF x = s THEN l ELSE 0) + Held(queue', x)
             /\ Held(queue', x) \in Nat
  <2>1. /\ Held(queue, x) = (IF Head(queue).stream = x THEN Head(queue).to - Head(queue).from
                             ELSE 0) + Held(Tail(queue), x)
        /\ Held(Tail(queue), x) \in Nat
    BY <1>1, <1>2, HeldTaken
  <2> QED BY <1>1, <1>3, <1>4, <1>5, <2>1
<1>7. PICK q : q = WhileUp([x \in Streams |-> Cardinality(Addresses(queue, x))])
  OBVIOUS
<1>8. q = [x \in Streams |-> Held(queue, x)]
  BY <1>7, Zenon DEF Shown
<1>9. WhileUp([x \in Streams |-> Cardinality(Addresses(queue, x))])' = [q EXCEPT ![s] = @ - l]
  <2>1. WhileUp([x \in Streams |-> Cardinality(Addresses(queue, x))])' =
          [x \in Streams |-> Held(queue', x)]
    BY Zenon DEF Shown
  <2>2. ASSUME NEW x \in Streams PROVE Held(queue', x) = [q EXCEPT ![s] = @ - l][x]
    BY <1>5, <1>6, <1>8
  <2>3. [q EXCEPT ![s] = @ - l] = [x \in Streams |-> [q EXCEPT ![s] = @ - l][x]]
    BY <1>8
  <2> QED BY <2>1, <2>2, <2>3
<1>10. l \in 1..q[s]
  BY <1>5, <1>6, <1>8
<1>11. UNCHANGED <<WhileUp(outstanding), WhileUp([x \in Streams |-> Budget(x)]),
                   WhileUp([x \in Streams |-> InTransit(x)]),
                   WhileUp([x \in Streams |-> got[x] - start[x]])>>
  BY <1>1 DEF Shown
<1>12. (Up /\ waiter # NoWaiter)' = (Up /\ waiter # NoWaiter) /\ Up' = Up
  BY <1>1 DEF Up
<1>13. Flow!Take(s, l)
  BY <1>7, <1>9, <1>10, <1>11, <1>12, Zenon DEF Flow!Take
<1> QED BY <1>7, <1>10, <1>13, Zenon DEF Flow!Next

\* The new lines add what they have of each stream to what is queued.
LEMMA GrowthHeld ==
  ASSUME Core, Core', NEW N \in Seq(Range3), GrowsBy(N), LinesIntact'
  PROVE  /\ \A x \in Streams : /\ Held(N, x) = start'[x] - start[x]
                               /\ start[x] \in Nat /\ start'[x] \in Nat /\ start[x] <= start'[x]
         /\ queue' = queue \o N =>
              \A x \in Streams : Held(queue', x) = Held(queue, x) + Held(N, x)
         /\ N # <<>> => \A x \in Streams :
              /\ Held(N, x) = (IF Head(N).stream = x THEN Head(N).to - Head(N).from ELSE 0)
                              + Held(Tail(N), x)
              /\ Held(Tail(N), x) \in Nat
         /\ N # <<>> => /\ Head(N) \in Range3 /\ Head(N).stream \in Streams
                        /\ Head(N).to - Head(N).from \in Nat \ {0}
         /\ N = <<>> => \A x \in Streams : start'[x] = start[x]
<1>1. ASSUME NEW x \in Streams
      PROVE  /\ Held(N, x) = start'[x] - start[x]
             /\ start[x] \in Nat /\ start'[x] \in Nat /\ start[x] <= start'[x]
             /\ Addresses(N, x) \subseteq 0..start'[x]
  <2>1. start[x] <= start'[x] /\ Addresses(N, x) = (start[x] + 1)..start'[x]
    BY DEF GrowsBy
  <2>2. start[x] \in Nat /\ start'[x] \in Nat
    BY DEF Core, Types, LineTypes
  <2>3. Held(N, x) = start'[x] - start[x]
    BY <2>1, <2>2, HeldInterval
  <2>4. Addresses(N, x) \subseteq 0..start'[x]
    BY <2>1, <2>2
  <2> QED BY <2>1, <2>2, <2>3, <2>4
<1>2. ASSUME queue' = queue \o N, NEW x \in Streams
      PROVE  Held(queue', x) = Held(queue, x) + Held(N, x)
  <2>1. Ordered(queue') /\ Addresses(queue', x) \subseteq 0..start'[x]
    BY QueueStays
  <2>2. queue \in Seq(Range3)
    BY DEF Core, Types, LineTypes
  <2>3. Ordered(queue \o N) /\ Addresses(queue \o N, x) \subseteq 0..start'[x]
    BY <1>2, <2>1
  <2>4. Held(queue \o N, x) = Held(queue, x) + Held(N, x)
    BY <1>1, <2>2, <2>3, HeldJoined
  <2> QED BY <1>2, <2>4
<1>3. Ordered(N)
  BY DEF GrowsBy
<1>4. ASSUME N # <<>>, NEW x \in Streams
      PROVE  /\ Held(N, x) = (IF Head(N).stream = x THEN Head(N).to - Head(N).from ELSE 0)
                              + Held(Tail(N), x)
             /\ Held(Tail(N), x) \in Nat
  BY <1>1, <1>3, <1>4, HeldTaken
<1>5. ASSUME N # <<>>
      PROVE  /\ Head(N) \in Range3 /\ Head(N).stream \in Streams
             /\ Head(N).to - Head(N).from \in Nat \ {0}
  <2>1. Head(N) = N[1] /\ 1 \in 1..Len(N) /\ Head(N) \in Range3
    BY <1>5
  <2>2. Head(N).from < Head(N).to
    BY <1>3, <2>1 DEF Ordered
  <2>3. Head(N).from \in Nat /\ Head(N).to \in Nat /\ Head(N).stream \in Streams
    BY <2>1 DEF Range3
  <2> QED BY <2>1, <2>2, <2>3
<1>6. ASSUME N = <<>>, NEW x \in Streams PROVE start'[x] = start[x]
  BY <1>1, <1>6, HeldNothing
<1> QED BY <1>1, <1>2, <1>4, <1>5, <1>6

\* A joined sequence is empty if both parts are.
LEMMA JoinedEmpty ==
  ASSUME NEW S, NEW v \in Seq(S), NEW w \in Seq(S)
  PROVE  /\ v \o w = <<>> <=> v = <<>> /\ w = <<>>
         /\ v = <<>> => v \o w = w
<1>1. Len(v \o w) = Len(v) + Len(w) /\ v \o w \in Seq(S)
  OBVIOUS
<1>2. Len(v) \in Nat /\ Len(w) \in Nat
  OBVIOUS
<1>3. \A u \in Seq(S) : u = <<>> <=> Len(u) = 0
  OBVIOUS
<1>4. v = <<>> => v \o w = w
  OBVIOUS
<1> QED BY <1>1, <1>2, <1>3, <1>4

LEMMA ArrivalReceives ==
  ASSUME Core, Core', CreditInv, RestInv, LinesIntact, LinesIntact', Numbers, Numbers',
         Shown, Shown', Up, Up', DataArrives
  PROVE  Flow!Next
<1>1. PICK m : m = Head(toBeam)
  OBVIOUS
<1>2. PICK N \in Seq(Range3) : N = LinesOf(m.stream, m.to) /\ GrowsBy(N)
  BY <1>1, ArrivesGrow, Zenon
<1>3. /\ got' = [got EXCEPT ![m.stream] = m.to]
      /\ start' = [start EXCEPT ![m.stream] = RestFrom(m.stream, m.to)]
      /\ outstanding' = [outstanding EXCEPT ![m.stream] = @ - (m.to - m.from)]
      /\ ServeWaiter(queue \o N)
  BY <1>1, <1>2, ArrivesCredit, Zenon
<1>4. read' = read /\ Arrived("data")
  BY DEF DataArrives, shimVars
<1>5. /\ m.stream \in Streams /\ m.to \in Nat /\ m.from = got[m.stream] /\ m.from < m.to
      /\ m.to <= read[m.stream]
  BY <1>1, <1>4, HeadIsNext
<1>6. PICK s \in Streams : s = m.stream
  BY <1>5
<1>7. PICK k \in Nat \ {0} : k = m.to - m.from
  BY <1>5, <1>6 DEF Numbers
<1>8. /\ got'[s] = got[s] + k /\ outstanding'[s] = outstanding[s] - k /\ k <= read[s] - got[s]
      /\ \A x \in Streams : x # s =>
           got'[x] = got[x] /\ outstanding'[x] = outstanding[x] /\ start'[x] = start[x]
  <2>1. /\ got' = [got EXCEPT ![s] = m.to]
        /\ start' = [start EXCEPT ![s] = RestFrom(m.stream, m.to)]
        /\ outstanding' = [outstanding EXCEPT ![s] = @ - k]
    BY <1>3, <1>6, <1>7
  <2>2. /\ got'[s] = m.to /\ outstanding'[s] = outstanding[s] - k
        /\ \A x \in Streams : x # s =>
             got'[x] = got[x] /\ outstanding'[x] = outstanding[x] /\ start'[x] = start[x]
    BY <2>1 DEF Numbers
  <2>3. got[s] \in Nat /\ read[s] \in Nat
    BY DEF Numbers
  <2>4. k = m.to - got[s]
    BY <1>5, <1>6, <1>7
  <2>5. m.to = got[s] + k /\ k <= read[s] - got[s]
    BY <1>5, <1>6, <1>7, <2>3, <2>4
  <2> QED BY <2>2, <2>5
<1>9. PICK r \in Nat : r = got'[s] - start'[s] /\ r <= MaxLine
  BY WindowAssumption DEF Numbers
<1>10. /\ \A x \in Streams : /\ Held(N, x) = start'[x] - start[x]
                             /\ start[x] \in Nat /\ start'[x] \in Nat /\ start[x] <= start'[x]
       /\ queue' = queue \o N =>
            \A x \in Streams : Held(queue', x) = Held(queue, x) + Held(N, x)
       /\ N # <<>> => \A x \in Streams :
            /\ Held(N, x) = (IF Head(N).stream = x THEN Head(N).to - Head(N).from ELSE 0)
                            + Held(Tail(N), x)
            /\ Held(Tail(N), x) \in Nat
       /\ N # <<>> => /\ Head(N) \in Range3 /\ Head(N).stream \in Streams
                      /\ Head(N).to - Head(N).from \in Nat \ {0}
       /\ N = <<>> => \A x \in Streams : start'[x] = start[x]
  BY <1>2, GrowthHeld
<1>11. PICK p : p = WhileUp([x \in Streams |-> got[x] - start[x]])
  OBVIOUS
<1>12. PICK t : t = WhileUp([x \in Streams |-> InTransit(x)])
  OBVIOUS
<1>13. PICK q : q = WhileUp([x \in Streams |-> Cardinality(Addresses(queue, x))])
  OBVIOUS
<1>14. /\ p = [x \in Streams |-> got[x] - start[x]]
       /\ t = [x \in Streams |-> read[x] - got[x]]
       /\ q = [x \in Streams |-> Held(queue, x)]
  BY <1>11, <1>12, <1>13, Zenon DEF Shown
<1>15. /\ p[s] + k - r = start'[s] - start[s] /\ p[s] \in Nat /\ r <= p[s] + k
       /\ k \in 1..t[s]
       /\ r < p[s] + k <=> start'[s] # start[s]
  <2>1. got'[s] = got[s] + k /\ k <= read[s] - got[s]
    BY <1>8
  <2>2. p[s] = got[s] - start[s] /\ t[s] = read[s] - got[s]
    BY <1>14
  <2>3. /\ got[s] \in Nat /\ start[s] \in Nat /\ read[s] \in Nat /\ start[s] <= got[s]
        /\ start'[s] \in Nat /\ start[s] <= start'[s]
    BY <1>10 DEF Numbers
  <2>4. r = got[s] + k - start'[s]
    BY <1>7, <1>9, <2>1, <2>3
  <2>5. p[s] + k - r = start'[s] - start[s] /\ p[s] \in Nat
    BY <1>7, <1>9, <2>2, <2>3, <2>4
  <2>6. r <= p[s] + k /\ (r < p[s] + k <=> start'[s] # start[s])
    BY <1>7, <1>9, <2>3, <2>5
  <2>7. k \in 1..t[s]
    BY <1>7, <2>1, <2>2, <2>3
  <2> QED BY <2>5, <2>6, <2>7
<1>16. WhileUp([x \in Streams |-> InTransit(x)])' = [t EXCEPT ![s] = @ - k]
  <2>1. WhileUp([x \in Streams |-> InTransit(x)])' = [x \in Streams |-> read[x] - got'[x]]
    BY <1>4 DEF Shown
  <2>2. ASSUME NEW x \in Streams PROVE read[x] - got'[x] = [t EXCEPT ![s] = @ - k][x]
    <3>1. read[x] \in Nat /\ got[x] \in Nat /\ t[x] = read[x] - got[x]
      BY <1>14 DEF Numbers
    <3>2. [t EXCEPT ![s] = @ - k][x] = IF x = s THEN t[x] - k ELSE t[x]
      BY <1>14
    <3>3. got'[x] = IF x = s THEN got[x] + k ELSE got[x]
      BY <1>8
    <3> QED BY <1>7, <3>1, <3>2, <3>3
  <2>3. [t EXCEPT ![s] = @ - k] = [x \in Streams |-> [t EXCEPT ![s] = @ - k][x]]
    BY <1>14
  <2> QED BY <2>1, <2>2, <2>3
<1>17. WhileUp(outstanding)' = [WhileUp(outstanding) EXCEPT ![s] = @ - k]
  BY <1>3, <1>6, <1>7 DEF Shown
<1>18. WhileUp([x \in Streams |-> got[x] - start[x]])' = [p EXCEPT ![s] = r]
  <2>1. WhileUp([x \in Streams |-> got[x] - start[x]])' = [x \in Streams |-> got'[x] - start'[x]]
    BY DEF Shown
  <2>2. ASSUME NEW x \in Streams PROVE got'[x] - start'[x] = [p EXCEPT ![s] = r][x]
    BY <1>8, <1>9, <1>14
  <2>3. [p EXCEPT ![s] = r] = [x \in Streams |-> [p EXCEPT ![s] = r][x]]
    BY <1>14
  <2> QED BY <2>1, <2>2, <2>3
<1>19. WhileUp([x \in Streams |-> Budget(x)])' = WhileUp([x \in Streams |-> Budget(x)])
  <2>1. WhileUp([x \in Streams |-> Budget(x)])' =
          [x \in Streams |-> outstanding'[x] - (read[x] - got'[x])]
    BY <1>4 DEF Shown
  <2>2. ASSUME NEW x \in Streams
        PROVE  outstanding'[x] - (read[x] - got'[x]) = outstanding[x] - (read[x] - got[x])
    <3>1. outstanding[x] \in Nat /\ read[x] \in Nat /\ got[x] \in Nat
      BY DEF Numbers
    <3>2. CASE x = s
      BY <1>7, <1>8, <3>1, <3>2
    <3>3. CASE x # s
      BY <1>8, <3>3
    <3> QED BY <3>2, <3>3
  <2>3. WhileUp([x \in Streams |-> Budget(x)]) =
          [x \in Streams |-> outstanding[x] - (read[x] - got[x])]
    BY DEF Shown
  <2> QED BY <2>1, <2>2, <2>3
<1>20. WhileUp([x \in Streams |-> Cardinality(Addresses(queue, x))])' =
         [x \in Streams |-> Held(queue', x)]
  BY Zenon DEF Shown
<1>21. queue \in Seq(Range3) /\ queue \o N \in Seq(Range3) /\ Types
  BY <1>2, Joined DEF Core, Types, LineTypes
<1>22. ASSUME NEW l \in 0..(p[s] + k - r),
              IF (Up /\ waiter # NoWaiter) /\ r < p[s] + k THEN l \in 1..(p[s] + k - r)
              ELSE l = 0,
              (Up /\ waiter # NoWaiter)' = ((Up /\ waiter # NoWaiter) /\ l = 0),
              \A x \in Streams :
                Held(queue', x) = IF x = s THEN Held(queue, s) + (p[s] + k - r) - l
                                  ELSE Held(queue, x)
       PROVE  Flow!Next
  <2>1. [x \in Streams |-> Held(queue', x)] = [q EXCEPT ![s] = @ + (p[s] + k - r) - l]
    <3>1. ASSUME NEW x \in Streams
          PROVE  Held(queue', x) = [q EXCEPT ![s] = @ + (p[s] + k - r) - l][x]
      BY <1>14, <1>22
    <3>2. [q EXCEPT ![s] = @ + (p[s] + k - r) - l] =
            [x \in Streams |-> [q EXCEPT ![s] = @ + (p[s] + k - r) - l][x]]
      BY <1>14
    <3> QED BY <3>1, <3>2
  <2>2. r \in 0..MaxLine /\ r <= p[s] + k /\ r \in 0..(p[s] + k)
    BY <1>7, <1>9, <1>15, WindowAssumption
  <2>3. Up' = Up
    BY DEF Up
  <2>4. k \in 1..t[s]
    BY <1>15
  <2>5. Flow!Receive(s, k, r, l)
    BY <1>11, <1>12, <1>13, <1>16, <1>17, <1>18, <1>19, <1>20, <1>22, <2>1, <2>2, <2>3, <2>4,
       Zenon DEF Flow!Receive
  <2> QED BY <1>11, <1>12, <2>2, <2>4, <2>5, Zenon DEF Flow!Next
<1>23. CASE waiter # NoWaiter /\ queue \o N # <<>>
  <2>1. queue = <<>> /\ queue \o N = N
    BY <1>2, <1>21, <1>23, JoinedEmpty DEF Core, WaiterInv
  <2>2. waiter' = NoWaiter /\ queue' = Tail(N) /\ N # <<>>
    BY <1>3, <1>21, <1>23, <2>1, ServeEffect, Zenon
  <2>3. PICK h : h = Head(N)
    OBVIOUS
  <2>4. PICK l \in Nat \ {0} : l = h.to - h.from
    BY <1>10, <2>2, <2>3
  <2>5. h.stream = s
    <3> SUFFICES ASSUME h.stream # s PROVE FALSE
      OBVIOUS
    <3>1. PICK y \in Streams : y = h.stream
      BY <1>10, <2>2, <2>3
    <3>2. Held(N, y) = l + Held(Tail(N), y) /\ Held(Tail(N), y) \in Nat
      BY <1>10, <2>2, <2>3, <2>4, <3>1
    <3>3. Held(N, y) = 0
      BY <1>8, <1>10, <3>1
    <3> QED BY <3>2, <3>3
  <2>6. /\ start'[s] - start[s] = l + Held(queue', s) /\ Held(queue', s) \in Nat
        /\ \A x \in Streams : x # s => Held(queue', x) = 0
    <3>1. Held(N, s) = l + Held(queue', s) /\ Held(queue', s) \in Nat
      BY <1>10, <2>2, <2>3, <2>4, <2>5
    <3>2. Held(N, s) = start'[s] - start[s]
      BY <1>10
    <3>3. ASSUME NEW x \in Streams, x # s PROVE Held(queue', x) = 0
      <4>1. Held(N, x) = 0 + Held(queue', x) /\ Held(queue', x) \in Nat
        BY <1>10, <2>2, <2>3, <2>5, <3>3
      <4>2. Held(N, x) = 0
        BY <1>8, <1>10, <3>3
      <4> QED BY <4>1, <4>2
    <3> QED BY <3>1, <3>2, <3>3
  <2>7. \A x \in Streams : Held(queue, x) = 0
    BY <2>1, HeldNothing
  <2>8. l \in 1..(p[s] + k - r) /\ l \in 0..(p[s] + k - r)
    BY <1>15, <2>6
  <2>9. (Up /\ waiter # NoWaiter)' = ((Up /\ waiter # NoWaiter) /\ l = 0)
    <3>1. l # 0
      OBVIOUS
    <3> QED BY <2>2, <3>1, Zenon
  <2>10. \A x \in Streams : Held(queue', x) = IF x = s THEN Held(queue, s) + (p[s] + k - r) - l
                                              ELSE Held(queue, x)
    BY <1>15, <2>6, <2>7
  <2>11. IF (Up /\ waiter # NoWaiter) /\ r < p[s] + k THEN l \in 1..(p[s] + k - r) ELSE l = 0
    <3>1. r < p[s] + k
      <4>1. start'[s] # start[s]
        BY <1>10, <2>6
      <4> QED BY <1>15, <4>1
    <3> QED BY <1>23, <2>8, <3>1, Zenon
  <2> QED BY <1>22, <2>8, <2>9, <2>10, <2>11
<1>24. CASE ~(waiter # NoWaiter /\ queue \o N # <<>>)
  <2>6. queue' = queue \o N /\ waiter' = waiter
    BY <1>3, <1>21, <1>24, ServeEffect, Zenon
  <2>7. queue \o N = <<>> => N = <<>>
    BY <1>2, JoinedEmpty DEF Core, Types, LineTypes
  <2>1. queue' = queue \o N /\ waiter' = waiter /\ (waiter = NoWaiter \/ N = <<>>)
    BY <1>24, <2>6, <2>7, Zenon
  <2>2. (Up /\ waiter # NoWaiter)' = ((Up /\ waiter # NoWaiter) /\ 0 = 0)
    BY <2>1, Zenon
  <2>3. 0 \in 0..(p[s] + k - r)
    BY <1>10, <1>15
  <2>4. \A x \in Streams : Held(queue', x) = IF x = s THEN Held(queue, s) + (p[s] + k - r) - 0
                                             ELSE Held(queue, x)
    <3>1. \A x \in Streams : Held(queue', x) = Held(queue, x) + Held(N, x)
      BY <1>10, <2>1
    <3>2. \A x \in Streams : Held(queue, x) \in Nat
      BY QueueInOrder
    <3>3. \A x \in Streams : x # s => Held(N, x) = 0
      BY <1>8, <1>10
    <3>4. Held(queue', s) = Held(queue, s) + (p[s] + k - r) - 0
      <4>1. Held(N, s) = p[s] + k - r /\ p[s] + k - r \in Nat
        BY <1>10, <1>15
      <4> QED BY <3>1, <3>2, <4>1
    <3>5. ASSUME NEW x \in Streams, x # s PROVE Held(queue', x) = Held(queue, x)
      BY <3>1, <3>2, <3>3, <3>5
    <3> QED BY <3>4, <3>5
  <2>5. ~((Up /\ waiter # NoWaiter) /\ r < p[s] + k)
    BY <1>10, <1>15, <2>1
  <2> QED BY <1>22, <2>2, <2>3, <2>4, <2>5
<1> QED BY <1>23, <1>24

\* The end of the output makes every unfinished line a line.
LEMMA EndFlushes ==
  ASSUME Core, Core', RestInv, LinesIntact, LinesIntact', Numbers, Shown, Shown', Up, Up',
         ExitArrives \/ ShimLost
  PROVE  Flow!Next
<1>1. PICK ex \in {"exited", "lost"} : \E t \in Terminals : Up /\ toBeam # <<>> /\ Ended(ex, t)
  BY EndEvidence, Zenon
<1>2. PICK F \in Seq(Range3) : F = FlushedLines /\ GrowsBy(F)
  BY EndGrow, Zenon
<1>3. queue \in Seq(Range3) /\ got \in [Streams -> Nat] /\ start \in [Streams -> Nat]
  BY DEF Core, Types, LineTypes
<1>4. /\ start' = got /\ waiter' = NoWaiter /\ UNCHANGED <<got, outstanding, read>>
      /\ \/ waiter # NoWaiter /\ queue \o F = <<>> /\ UNCHANGED queue
         \/ waiter # NoWaiter /\ queue \o F # <<>> /\ queue' = Tail(queue \o F)
         \/ waiter = NoWaiter /\ queue' = queue \o F
      /\ queue' = <<>> => server' = "down"
  <2>1. /\ start' = got /\ waiter' = NoWaiter /\ UNCHANGED <<shimVars, got, outstanding>>
        /\ \/ waiter # NoWaiter /\ queue \o F = <<>> /\ UNCHANGED queue
           \/ waiter # NoWaiter /\ queue \o F # <<>> /\ queue' = Tail(queue \o F)
           \/ waiter = NoWaiter /\ queue' = queue \o F
        /\ queue' = <<>> => server' = "down"
    BY <1>1, <1>2, EndedEffect, Zenon
  <2> QED BY <2>1 DEF shimVars
<1>5. queue' # <<>>
  BY <1>4 DEF Up
<1>6. /\ \A x \in Streams : /\ Held(F, x) = start'[x] - start[x]
                            /\ start[x] \in Nat /\ start'[x] \in Nat /\ start[x] <= start'[x]
      /\ queue' = queue \o F =>
           \A x \in Streams : Held(queue', x) = Held(queue, x) + Held(F, x)
      /\ F # <<>> => \A x \in Streams :
           /\ Held(F, x) = (IF Head(F).stream = x THEN Head(F).to - Head(F).from ELSE 0)
                           + Held(Tail(F), x)
           /\ Held(Tail(F), x) \in Nat
      /\ F # <<>> => /\ Head(F) \in Range3 /\ Head(F).stream \in Streams
                     /\ Head(F).to - Head(F).from \in Nat \ {0}
  BY <1>2, GrowthHeld
<1>7. PICK p : p = WhileUp([x \in Streams |-> got[x] - start[x]])
  OBVIOUS
<1>8. PICK q : q = WhileUp([x \in Streams |-> Cardinality(Addresses(queue, x))])
  OBVIOUS
<1>9. p = [x \in Streams |-> got[x] - start[x]] /\ q = [x \in Streams |-> Held(queue, x)]
  BY <1>7, <1>8, Zenon DEF Shown
<1>10. \A x \in Streams : Held(F, x) = p[x] /\ p[x] \in Nat
  BY <1>4, <1>6, <1>9
<1>11. WhileUp([x \in Streams |-> got[x] - start[x]])' = Flow!Zero
  <2>1. WhileUp([x \in Streams |-> got[x] - start[x]])' = [x \in Streams |-> got'[x] - start'[x]]
    BY Zenon DEF Shown
  <2>2. \A x \in Streams : got'[x] - start'[x] = 0
    BY <1>3, <1>4
  <2>3. [x \in Streams |-> got'[x] - start'[x]] = [x \in Streams |-> 0]
    BY <2>2
  <2> QED BY <2>1, <2>3 DEF Flow!Zero
<1>12. WhileUp([x \in Streams |-> Cardinality(Addresses(queue, x))])' =
         [x \in Streams |-> Held(queue', x)]
  BY Zenon DEF Shown
<1>13. UNCHANGED <<WhileUp(outstanding), WhileUp([x \in Streams |-> Budget(x)]),
                   WhileUp([x \in Streams |-> InTransit(x)])>>
  BY <1>4 DEF Shown
<1>14. Up' = Up /\ (Up /\ waiter # NoWaiter)' = FALSE
  <2>1. Up' = Up
    BY DEF Up
  <2>2. (Up /\ waiter # NoWaiter)' = FALSE
    BY <1>4, Zenon
  <2> QED BY <2>1, <2>2
<1>15. CASE waiter = NoWaiter
  <2>1. queue' = queue \o F
    BY <1>4, <1>15
  <2>2. [x \in Streams |-> Held(queue', x)] = [x \in Streams |-> q[x] + p[x]]
    <3>1. \A x \in Streams : Held(queue', x) = q[x] + p[x]
      BY <1>6, <1>9, <1>10, <2>1
    <3> QED BY <3>1
  <2>3. ~(Up /\ waiter # NoWaiter)
    BY <1>15
  <2>4. (Up /\ waiter # NoWaiter)' = (Up /\ waiter # NoWaiter)
    BY <1>14, <2>3, Zenon
  <2>5. Flow!Flush
    BY <1>7, <1>8, <1>11, <1>12, <1>13, <1>14, <2>2, <2>3, <2>4, Zenon DEF Flow!Flush
  <2> QED BY <2>5, Zenon DEF Flow!Next
<1>16. CASE waiter # NoWaiter
  <2>1. queue = <<>> /\ queue \o F = F
    BY <1>2, <1>3, <1>16, JoinedEmpty DEF Core, WaiterInv
  <2>2. F # <<>> /\ queue' = Tail(F)
    BY <1>4, <1>5, <1>16, <2>1
  <2>3. PICK h \in Range3 : h = Head(F)
    BY <1>6, <2>2
  <2>4. PICK s \in Streams : s = h.stream
    BY <1>6, <2>2, <2>3
  <2>5. h.from = start[s] /\ h.to = got[s]
    <3>1. \A i \in 1..Len(F) : F[i].from = start[F[i].stream] /\ F[i].to = got[F[i].stream]
      BY <1>2, <1>3, FlushedOf, Zenon
    <3>2. h = F[1] /\ 1 \in 1..Len(F)
      BY <2>2, <2>3
    <3> QED BY <2>4, <3>1, <3>2
  <2>6. h.to - h.from = p[s] /\ p[s] \in Nat \ {0}
    BY <1>6, <1>9, <2>2, <2>3, <2>5
  <2>7. ASSUME NEW x \in Streams PROVE Held(queue', x) = [p EXCEPT ![s] = 0][x]
    <3>1. p[x] = (IF s = x THEN p[s] ELSE 0) + Held(queue', x) /\ Held(queue', x) \in Nat
      BY <1>6, <1>10, <2>2, <2>3, <2>4, <2>6
    <3>2. p[x] \in Nat /\ p[s] \in Nat
      BY <1>10
    <3>3. Held(queue', x) = IF s = x THEN 0 ELSE p[x]
      BY <3>1, <3>2
    <3>4. [p EXCEPT ![s] = 0][x] = IF s = x THEN 0 ELSE p[x]
      BY <1>9
    <3> QED BY <3>3, <3>4
  <2>8. [x \in Streams |-> Held(queue', x)] = [p EXCEPT ![s] = 0]
    <3>1. [p EXCEPT ![s] = 0] = [x \in Streams |-> [p EXCEPT ![s] = 0][x]]
      BY <1>9
    <3> QED BY <2>7, <3>1
  <2>9. p[s] > 0
    BY <2>6
  <2>10. Flow!FlushAnswer(s)
    BY <1>7, <1>11, <1>12, <1>13, <1>14, <1>16, <2>8, <2>9, Zenon DEF Flow!FlushAnswer
  <2> QED BY <2>10, Zenon DEF Flow!Next
<1> QED BY <1>15, <1>16

LEMMA FlowInit ==
  ASSUME Init PROVE Flow!Init
<1>1. Core /\ CreditInv /\ Up
  BY CoreInit, CreditInit DEF Init, Up
<1>2. Shown
  BY <1>1, Shows
<1>3. /\ outstanding = [s \in Streams |-> 0]
      /\ [s \in Streams |-> outstanding[s] - (read[s] - got[s])] = [s \in Streams |-> 0]
      /\ [s \in Streams |-> read[s] - got[s]] = [s \in Streams |-> 0]
      /\ [s \in Streams |-> got[s] - start[s]] = [s \in Streams |-> 0]
      /\ queue = <<>> /\ waiter = NoWaiter
  BY DEF Init, Zero
<1>4. [s \in Streams |-> Held(queue, s)] = [s \in Streams |-> 0]
  BY <1>3, HeldNothing
<1>5. (Up /\ waiter # NoWaiter) = FALSE /\ Up = TRUE
  BY <1>1, <1>3, Zenon
<1> QED BY <1>2, <1>3, <1>4, <1>5, Zenon DEF Shown, Flow!Init, Flow!Zero

LEMMA FlowStep ==
  ASSUME Core, Core', RestInv, CreditInv, CreditInv', LinesIntact, LinesIntact', [Next]_vars
  PROVE  [Flow!Next]_(Flow!vars)
<1>1. CASE ~Up /\ ~Up'
  BY <1>1, ShutStutters
<1>2. CASE Up /\ ~Up'
  BY <1>2, StoppingCloses, Zenon DEF Flow!Next
<1>3. CASE ~Up /\ Up'
  BY <1>3, UpBefore
<1>4. CASE Up /\ Up'
  <2>1. Shown /\ Shown' /\ Numbers /\ Numbers' /\ Up /\ Up'
    BY <1>4, Shows, ShowsAgain, NumbersAre, NumbersStay, Zenon
  <2>2. Up' = Up
    BY <1>4 DEF Up
  <2>3. ASSUME UNCHANGED <<outstanding, read, got, start, queue>>,
               waiter' = NoWaiter <=> waiter = NoWaiter
        PROVE  [Flow!Next]_(Flow!vars)
    BY <2>1, <2>2, <2>3, FlowStutters
  <2>4. CASE Child \/ ShimCrash \/ Over \/ UNCHANGED vars
    <3>1. UNCHANGED <<outstanding, read, got, start, queue, waiter>>
      BY <2>4 DEF Child, ChildExit, ChildWrite, ShimCrash, Over, vars, shimVars, lineVars, recvVars
    <3> QED BY <2>3, <3>1
  <2>5. CASE Shim
    <3>1. ASSUME NEW s \in Streams, NEW k \in 1..FrameMax, PumpForward(s, k)
          PROVE  [Flow!Next]_(Flow!vars)
      BY <2>1, <3>1, ForwardReads
    <3>2. CASE ShimCredit \/ ShimKill \/ ShimReap \/ ShimDrained \/ ShimCut \/ ShimLeft
               \/ \E s \in Streams : PumpEof(s)
      <4>1. UNCHANGED <<outstanding, read, got, start, queue, waiter>>
        BY <3>2 DEF ShimCredit, ShimKill, ShimReap, ShimDrained, ShimCut, ShimLeft, PumpEof,
                    WriteExit, lineVars, recvVars
      <4> QED BY <2>3, <4>1
    <3> QED BY <2>5, <3>1, <3>2 DEF Shim
  <2>6. ASSUME NEW c \in Callers, RecvLine(c) PROVE [Flow!Next]_(Flow!vars)
    BY <2>1, <2>6, LineTakes
  <2>7. ASSUME NEW c \in Callers, RecvHold(c) PROVE [Flow!Next]_(Flow!vars)
    BY <2>1, <2>7, HoldDemands
  <2>8. ASSUME NEW c \in Callers, RecvBusy(c) \/ TerminalReply(c) \/ RecvCall(c)
        PROVE  [Flow!Next]_(Flow!vars)
    <3>1. UNCHANGED <<outstanding, read, got, start, queue, waiter>>
      BY <2>8 DEF RecvBusy, TerminalReply, RecvCall, shimVars, lineVars, recvVars
    <3> QED BY <2>3, <3>1
  <2>9. CASE TimerFire
    <3>1. /\ waiter # NoWaiter /\ waiter' = [waiter EXCEPT !.timer = "fired"]
          /\ UNCHANGED <<outstanding, read, got, start, queue>>
      BY <2>9 DEF TimerFire, shimVars, lineVars
    <3>2. waiter' # NoWaiter
      <4>1. waiter \in Waiters
        BY <3>1 DEF Core, Types, RecvTypes
      <4>2. waiter'.timer = "fired" /\ DOMAIN waiter' # DOMAIN NoWaiter
        BY <3>1, <4>1 DEF Waiters, NoWaiter
      <4> QED BY <4>2
    <3> QED BY <2>3, <3>1, <3>2
  <2>10. ASSUME NEW r \in late, RecvTimeout(r) PROVE [Flow!Next]_(Flow!vars)
    BY <2>1, <2>10, TimeoutWithdraws
  <2>11. CASE DataArrives
    BY <2>1, <2>11, ArrivalReceives
  <2>12. CASE ExitArrives \/ ShimLost
    BY <2>1, <2>12, EndFlushes
  <2>13. CASE LimitExceeded \/ Stop \/ SettleData \/ SettleExit \/ SettleLost \/ SettleTimeout
    <3>1. server' # "up"
      BY <2>13 DEF LimitExceeded, Stop, SettleData, SettleExit, SettleLost, SettleTimeout,
                   Settle, Publish, StartSettling, serverVars
    <3> QED BY <1>4, <3>1 DEF Up
  <2> QED BY <2>4, <2>5, <2>6, <2>7, <2>8, <2>9, <2>10, <2>11, <2>12, <2>13 DEF Next, Server
<1> QED BY <1>1, <1>2, <1>3, <1>4

\* A pull session with its frames, lines, wires and callers keeps the credit
\* discipline: every step is a step of CreditFlow or none that it sees.
THEOREM PullImplementsCreditFlow ==
  Spec => ImplementsCreditFlow
<1> DEFINE Inv == Core /\ RestInv /\ LinesIntact /\ CreditInv
<1>1. Init => Inv /\ Flow!Init
  BY CoreInit, IntactInit, CreditInit, FlowInit
<1>2. Inv /\ [Next]_vars => Inv'
  BY CoreInductive, IntactInductive, CreditStep
<1>3. Inv /\ Inv' /\ [Next]_vars => [Flow!Next]_(Flow!vars)
  BY FlowStep
<1> HIDE DEF Inv
<1> QED BY <1>1, <1>2, <1>3, PTL DEF Spec, ImplementsCreditFlow, Flow!Spec

-----------------------------------------------------------------------------
(***************************************************************************)
(* The input queue of the session keeps the promises of OrderedInput, for  *)
(* any calls, any of them patient, and any capacity of the port.           *)
(*                                                                         *)
(* What makes it work is where an EOF can be: once taken it is the last of *)
(* the queue, once sent nothing waits, and stdin is only reopened when the *)
(* one EOF that closed it leaves the queue unsent.                         *)
(***************************************************************************)
\* Those who wait are the held calls, each once; an EOF is the end of the input.
QueueInv ==
  /\ \A i \in 1..Len(pending) : sendCall[pending[i]] = "held"
  /\ \A i, j \in 1..Len(pending) : pending[i] = pending[j] => i = j
  /\ \A i \in 1..Len(pending) : kind[pending[i]] = "eof" => i = Len(pending) /\ ~stdinOpen
  /\ \A i \in 1..Len(sent) : kind[sent[i]] = "eof" => pending = <<>> /\ ~stdinOpen

InputInv == InputTypeOK /\ QueueInv

-----------------------------------------------------------------------------
(* Parts of a queue.                                                       *)

LEMMA Prefix ==
  ASSUME NEW s \in Seq(Sends), NEW k \in 0..Len(s)
  PROVE  /\ SubSeq(s, 1, k) \in Seq(Sends) /\ Len(SubSeq(s, 1, k)) = k
         /\ \A i \in 1..k : SubSeq(s, 1, k)[i] = s[i]
         /\ \A c : Contains(SubSeq(s, 1, k), c) <=> \E i \in 1..k : s[i] = c
  BY DEF Contains

LEMMA Suffix ==
  ASSUME NEW s \in Seq(Sends), NEW k \in 0..Len(s)
  PROVE  /\ SubSeq(s, k + 1, Len(s)) \in Seq(Sends)
         /\ Len(SubSeq(s, k + 1, Len(s))) = Len(s) - k
         /\ \A i \in 1..(Len(s) - k) : SubSeq(s, k + 1, Len(s))[i] = s[i + k]
  OBVIOUS

LEMMA CallsJoined ==
  ASSUME NEW s \in Seq(Sends), NEW t \in Seq(Sends)
  PROVE  /\ s \o t \in Seq(Sends) /\ Len(s \o t) = Len(s) + Len(t)
         /\ \A i \in 1..Len(s) : (s \o t)[i] = s[i]
         /\ \A i \in 1..Len(t) : (s \o t)[i + Len(s)] = t[i]
         /\ \A i \in 1..Len(s \o t) :
              i \in 1..Len(s) \/ (i - Len(s) \in 1..Len(t) /\ (s \o t)[i] = t[i - Len(s)])
  OBVIOUS

LEMMA Without ==
  ASSUME NEW s \in Seq(Sends), NEW k \in 1..Len(s)
  PROVE  /\ RemoveAt(s, k) \in Seq(Sends) /\ Len(RemoveAt(s, k)) = Len(s) - 1
         /\ \A i \in 1..(Len(s) - 1) : RemoveAt(s, k)[i] = IF i < k THEN s[i] ELSE s[i + 1]
<1> DEFINE a == SubSeq(s, 1, k - 1)
           b == SubSeq(s, k + 1, Len(s))
<1>1. a \in Seq(Sends) /\ Len(a) = k - 1 /\ \A i \in 1..(k - 1) : a[i] = s[i]
  BY k - 1 \in 0..Len(s), Prefix
<1>2. b \in Seq(Sends) /\ Len(b) = Len(s) - k /\ \A i \in 1..(Len(s) - k) : b[i] = s[i + k]
  BY k \in 0..Len(s), Suffix
<1>3. RemoveAt(s, k) = a \o b
  BY DEF RemoveAt
<1> HIDE DEF a, b
<1>4. a \o b \in Seq(Sends) /\ Len(a \o b) = Len(s) - 1
  <2>1. a \o b \in Seq(Sends) /\ Len(a \o b) = Len(a) + Len(b)
    BY <1>1, <1>2, CallsJoined
  <2>2. (k - 1) + (Len(s) - k) = Len(s) - 1
    OBVIOUS
  <2> QED
    BY <1>1, <1>2, <2>1, <2>2
<1>5. ASSUME NEW i \in 1..(Len(s) - 1), i < k PROVE (a \o b)[i] = s[i]
  BY <1>1, <1>2, <1>5, CallsJoined
<1>6. ASSUME NEW i \in 1..(Len(s) - 1), ~(i < k) PROVE (a \o b)[i] = s[i + 1]
  <2>1. i - (k - 1) \in 1..(Len(s) - k) /\ (i - (k - 1)) + k = i + 1
    BY <1>6
  <2>2. i \in 1..Len(a \o b) /\ i \notin 1..Len(a)
    BY <1>1, <1>4, <1>6
  <2>3. (a \o b)[i] = b[i - Len(a)]
    BY <1>1, <1>2, <2>2, CallsJoined
  <2> QED
    BY <1>1, <1>2, <2>1, <2>3
<1> QED
  BY <1>3, <1>4, <1>5, <1>6

LEMMA CallAppended ==
  ASSUME NEW S, NEW s \in Seq(S), NEW e \in S
  PROVE  Append(s, e) \in Seq(S)
OBVIOUS

LEMMA Consumed ==
  ASSUME NEW S, NEW s \in Seq(S), s # <<>>
  PROVE  Tail(s) \in Seq(S)
OBVIOUS

-----------------------------------------------------------------------------
(* Types.                                                                  *)

LEMMA TypeInit ==
  InputInit => InputTypeOK
<1> SUFFICES ASSUME InputInit PROVE InputTypeOK
  OBVIOUS
<1>1. kind \in [Sends -> {"line", "eof"}] /\ unread \in 0..HighWater
  BY KindAssumption DEF InputInit
<1>2. sendCall \in [Sends -> {"idle", "asked", "held"} \cup SendAnswers]
  BY DEF InputInit
<1>3. sendTimer \in [Sends -> {"off", "armed", "fired"}]
  BY DEF InputInit
<1>4. pending \in Seq(Sends) /\ sent \in Seq(Sends) /\ fromShim \in Seq({"exit", "exit_status"})
  BY DEF InputInit
<1> QED
  BY <1>1, <1>2, <1>3, <1>4 DEF InputInit, InputTypeOK

\* What the actions of the end and of failing calls do to the calls.
LEMMA FailPendingTypes ==
  ASSUME InputTypeOK, FailPending
  PROVE  /\ sendCall' \in [Sends -> {"idle", "asked", "held"} \cup SendAnswers]
         /\ sendTimer' \in [Sends -> {"off", "armed", "fired"}]
         /\ pending' \in Seq(Sends)
BY DEF InputTypeOK, FailPending, Cancelled, SendAnswers

LEMMA FlushTypes ==
  ASSUME InputTypeOK, FlushSends
  PROVE  InputTypeOK'
<1>1. Fit \in 0..Len(pending) /\ unread + Fit \in 0..HighWater
  BY HighWaterAssumption DEF Fit, Minimum, InputTypeOK
<1>2. /\ SubSeq(pending, 1, Fit) \in Seq(Sends)
      /\ SubSeq(pending, Fit + 1, Len(pending)) \in Seq(Sends)
  BY <1>1, Prefix, Suffix DEF InputTypeOK
<1>3. sent' \in Seq(Sends) /\ pending' \in Seq(Sends) /\ unread' \in 0..HighWater
  BY <1>1, <1>2, CallsJoined DEF FlushSends, InputTypeOK
<1>4. /\ sendCall' \in [Sends -> {"idle", "asked", "held"} \cup SendAnswers]
      /\ sendTimer' \in [Sends -> {"off", "armed", "fired"}]
  BY DEF FlushSends, InputTypeOK, Cancelled, SendAnswers
<1>5. flushTimer' \in {"off", "armed", "fired"}
  BY DEF FlushSends, NextFlush
<1> QED
  BY <1>3, <1>4, <1>5 DEF FlushSends, InputTypeOK, endVars, reportVars

LEMMA TypeStep ==
  ASSUME InputTypeOK, [InputNext]_inputVars
  PROVE  InputTypeOK'
<1> USE DEF InputTypeOK, SendAnswers
<1>1. ASSUME NEW c \in Sends, Ask(c) PROVE InputTypeOK'
  BY <1>1 DEF Ask, queueVars, endVars, frameVars, reportVars
<1>2. ASSUME NEW c \in Sends, AskNobody(c) \/ RefuseSend(c) PROVE InputTypeOK'
  BY <1>2 DEF AskNobody, RefuseSend, Answer, queueVars, endVars,
              frameVars, reportVars
<1>3. ASSUME NEW c \in Sends, TakeSend(c) PROVE InputTypeOK'
  <2>1. stdinOpen' \in BOOLEAN
    BY <1>3 DEF TakeSend
  <2>2. ASSUME HasRoom, Accept(c), UNCHANGED <<sendTimer, pending, flushTimer>>
        PROVE  InputTypeOK'
    <3>1. unread' \in 0..HighWater /\ sent' \in Seq(Sends)
      BY <2>2, HighWaterAssumption DEF HasRoom, Accept
    <3> QED
      BY <1>3, <2>1, <2>2, <3>1
        DEF TakeSend, Accept, Answer, endVars, reportVars
  <2>3. ASSUME Answer(c, "closed"),
               UNCHANGED <<sent, unread, sendTimer, pending, flushTimer>>
        PROVE  InputTypeOK'
    BY <1>3, <2>1, <2>3 DEF TakeSend, Answer, endVars, reportVars
  <2>4. ASSUME Enqueue(c) PROVE InputTypeOK'
    <3>1. pending' \in Seq(Sends) /\ flushTimer' \in {"off", "armed", "fired"}
      BY <2>4 DEF Enqueue
    <3> QED
      BY <1>3, <2>1, <2>4, <3>1 DEF TakeSend, Enqueue, endVars, reportVars
  <2> QED
    BY <1>3, <2>2, <2>3, <2>4 DEF TakeSend, Submit
<1>4. ASSUME NEW c \in Sends, SendTimerFires(c) PROVE InputTypeOK'
  BY <1>4 DEF SendTimerFires, queueVars, endVars, frameVars, reportVars
<1>5. ASSUME NEW c \in Sends, Expire(c) PROVE InputTypeOK'
  <2>1. pending' \in Seq(Sends)
    BY <1>5, Without DEF Expire
  <2>2. stdinOpen' \in BOOLEAN
    BY <1>5 DEF Expire, Reopens
  <2> QED
    BY <1>5, <2>1, <2>2
      DEF Expire, Answer, endVars, frameVars, reportVars
<1>6. CASE FlushTimerFires \/ DeadlinePasses
  BY <1>6 DEF FlushTimerFires, DeadlinePasses, sendVars, queueVars,
              endVars, frameVars, reportVars
<1>7. CASE InputShim
  <2>1. CASE ShimReads
    BY <2>1, HighWaterAssumption
      DEF ShimReads, sendVars, queueVars, endVars, reportVars
  <2>2. ASSUME ShimKills \/ ChildExits PROVE InputTypeOK'
    <3>1. fromShim' \in Seq({"exit", "exit_status"})
      <4> "exit" \in {"exit", "exit_status"}
        OBVIOUS
      <4> QED
        BY <2>2, CallAppended DEF ShimKills, ChildExits, Ends
    <3> QED
      BY <2>2, <3>1 DEF ShimKills, ChildExits, Ends, sendVars,
                        queueVars, endVars, frameVars
  <2>3. ASSUME ShimLeaves PROVE InputTypeOK'
    <3>1. fromShim' \in Seq({"exit", "exit_status"}) /\ inputPort' \in {"open", "closed"}
      <4> "exit_status" \in {"exit", "exit_status"}
        OBVIOUS
      <4> QED
        BY <2>3, CallAppended DEF ShimLeaves
    <3> QED
      BY <2>3, <3>1 DEF ShimLeaves, sendVars, queueVars, endVars
  <2> QED
    BY <1>7, <2>1, <2>2, <2>3 DEF InputShim
<1>8. CASE FlushStep
  BY <1>8, FlushTypes, FailPendingTypes
    DEF FlushStep, FlushClosed, endVars, frameVars, reportVars
<1>9. CASE ShimEnded
  BY <1>9, FailPendingTypes DEF ShimEnded, ClosePort
<1>10. CASE EndInput
  BY <1>10, FailPendingTypes DEF EndInput, ClosePort, reportVars
<1>11. CASE SendKill \/ AwaitExit
  <2>1. CASE SendKill
    BY <2>1 DEF SendKill, ClosePort, sendVars, queueVars, reportVars
  <2>2. CASE AwaitExit
    <3>1. fromShim' \in Seq({"exit", "exit_status"})
      <4>1. \/ fromShim # <<>> /\ fromShim' = Tail(fromShim)
            \/ fromShim' = fromShim
        BY <2>2, Zenon DEF AwaitExit
      <4> QED BY <4>1, Consumed
    <3> QED
      BY <2>2, <3>1 DEF AwaitExit, ClosePort, sendVars, queueVars
  <2> QED BY <1>11, <2>1, <2>2
<1>12. CASE Finished \/ UNCHANGED inputVars
  BY <1>12 DEF Finished, inputVars, sendVars, queueVars, endVars,
               frameVars, reportVars
<1> QED
  BY <1>1, <1>2, <1>3, <1>4, <1>5, <1>6, <1>7, <1>8, <1>9, <1>10, <1>11, <1>12 DEF InputNext

\* Every variable of the input queue keeps its type, whatever the timers, the
\* shim and the callers do, and the port never holds more than it may.
THEOREM InputTypeCorrect ==
  InputSpec => []InputTypeOK
<1>1. InputInit => InputTypeOK
  BY TypeInit
<1>2. InputTypeOK /\ [InputNext]_inputVars => InputTypeOK'
  BY TypeStep
<1> QED
  BY <1>1, <1>2, PTL DEF InputSpec

-----------------------------------------------------------------------------
(* Where an EOF can be.                                                    *)

LEMMA QueueInit ==
  InputInit => QueueInv
BY DEF InputInit, QueueInv

LEMMA SameQueue ==
  ASSUME QueueInv, UNCHANGED <<kind, pending, sent, stdinOpen>>,
         \A i \in 1..Len(pending) : sendCall'[pending[i]] = "held"
  PROVE  QueueInv'
BY DEF QueueInv

LEMMA EmptiedQueue ==
  ASSUME QueueInv, UNCHANGED <<kind, sent, stdinOpen>>, pending' = <<>>
  PROVE  QueueInv'
BY DEF QueueInv

\* Nothing of an EOF was sent while stdin is open or anything waits.
LEMMA NotEnded ==
  ASSUME InputTypeOK, QueueInv, stdinOpen \/ pending # <<>>
  PROVE  ~Promise!Ended
BY DEF InputTypeOK, QueueInv, Promise!Ended

LEMMA TakeSendQueue ==
  ASSUME InputTypeOK, QueueInv, NEW c \in Sends, TakeSend(c)
  PROVE  QueueInv'
<1>1. /\ kind' = kind /\ kind[c] \in {"line", "eof"}
      /\ stdinOpen /\ (stdinOpen' <=> kind[c] = "line")
  BY DEF TakeSend, InputTypeOK
<1>2. \A i \in 1..Len(sent) : kind[sent[i]] # "eof"
  BY <1>1 DEF QueueInv
<1>3. \A i \in 1..Len(pending) : kind[pending[i]] # "eof"
  BY <1>1 DEF QueueInv
<1>4. ASSUME pending = <<>>, Accept(c), pending' = pending PROVE QueueInv'
  <2>1. \A i \in 1..Len(sent') : sent'[i] = c \/ (i \in 1..Len(sent) /\ sent'[i] = sent[i])
    BY <1>4 DEF Accept, InputTypeOK
  <2> QED
    BY <1>1, <1>2, <1>4, <2>1 DEF QueueInv
<1>5. ASSUME Answer(c, "closed"), pending = <<>>, UNCHANGED <<sent, pending>>
      PROVE  QueueInv'
  BY <1>1, <1>2, <1>5 DEF QueueInv
<1>6. ASSUME Enqueue(c) PROVE QueueInv'
  <2>1. /\ Len(pending') = Len(pending) + 1 /\ Len(pending) \in Nat
        /\ \A i \in 1..Len(pending) : pending'[i] = pending[i]
        /\ pending'[Len(pending) + 1] = c
    BY <1>6 DEF Enqueue, InputTypeOK
  <2>2. /\ sendCall[c] = "asked" /\ sendCall'[c] = "held"
        /\ \A d \in Sends \ {c} : sendCall'[d] = sendCall[d]
    BY <1>6 DEF TakeSend, Enqueue, InputTypeOK
  <2>3. \A i \in 1..Len(pending) : pending[i] \in Sends \ {c}
    BY <2>2 DEF QueueInv, InputTypeOK
  <2>4. \A i \in 1..Len(pending') : sendCall'[pending'[i]] = "held"
    BY <2>1, <2>2, <2>3 DEF QueueInv
  <2>5. \A i, j \in 1..Len(pending') : pending'[i] = pending'[j] => i = j
    BY <2>1, <2>3 DEF QueueInv
  <2>6. \A i \in 1..Len(pending') : kind[pending'[i]] = "eof" => i = Len(pending') /\ ~stdinOpen'
    BY <1>1, <1>3, <2>1
  <2>7. sent' = sent
    BY <1>6 DEF Enqueue
  <2> QED
    BY <1>1, <1>2, <2>4, <2>5, <2>6, <2>7 DEF QueueInv
<1> QED
  BY <1>4, <1>5, <1>6 DEF TakeSend, Submit

LEMMA FitRange ==
  ASSUME InputTypeOK
  PROVE  Fit \in 0..Len(pending)
BY HighWaterAssumption DEF Fit, Minimum, InputTypeOK

LEMMA FlushQueue ==
  ASSUME InputTypeOK, QueueInv, FlushSends
  PROVE  QueueInv'
<1> DEFINE k == Fit
           p == SubSeq(pending, 1, k)
           r == SubSeq(pending, k + 1, Len(pending))
<1>1. k \in 0..Len(pending) /\ Len(pending) \in Nat
  BY FitRange DEF InputTypeOK
<1>2. /\ p \in Seq(Sends) /\ Len(p) = k /\ \A i \in 1..k : p[i] = pending[i]
      /\ \A c : Contains(p, c) <=> \E i \in 1..k : pending[i] = c
  BY <1>1, Prefix DEF InputTypeOK
<1>3. /\ r \in Seq(Sends) /\ Len(r) = Len(pending) - k
      /\ \A i \in 1..(Len(pending) - k) : r[i] = pending[i + k]
  BY <1>1, Suffix DEF InputTypeOK
<1>4. /\ sent' = sent \o p /\ pending' = r /\ kind' = kind /\ stdinOpen' = stdinOpen
      /\ \A c \in Sends : sendCall'[c] = IF Contains(p, c) THEN "ok" ELSE sendCall[c]
  BY DEF FlushSends
<1> HIDE DEF k, p, r
<1>5. ASSUME NEW i \in 1..Len(r) PROVE sendCall'[r[i]] = "held"
  <2>1. i + k \in 1..Len(pending) /\ r[i] = pending[i + k] /\ r[i] \in Sends
    BY <1>1, <1>3
  <2>2. ~Contains(p, r[i])
    BY <1>1, <1>2, <2>1 DEF QueueInv
  <2> QED
    BY <1>4, <2>1, <2>2 DEF QueueInv
<1>6. ASSUME NEW i \in 1..Len(r), NEW j \in 1..Len(r), r[i] = r[j] PROVE i = j
  <2>1. /\ i + k \in 1..Len(pending) /\ r[i] = pending[i + k]
        /\ j + k \in 1..Len(pending) /\ r[j] = pending[j + k]
    BY <1>1, <1>3
  <2>2. i + k = j + k
    BY <1>6, <2>1 DEF QueueInv
  <2> QED BY <1>1, <2>2
<1>7. ASSUME NEW i \in 1..Len(r), kind[r[i]] = "eof" PROVE i = Len(r) /\ ~stdinOpen
  <2>1. i + k \in 1..Len(pending) /\ r[i] = pending[i + k]
    BY <1>1, <1>3
  <2>2. kind[pending[i + k]] = "eof"
    BY <1>7, <2>1
  <2>3. i + k = Len(pending) /\ ~stdinOpen
    BY <2>1, <2>2 DEF QueueInv
  <2>4. i = Len(pending) - k
    BY <1>1, <2>1, <2>3
  <2> QED
    BY <1>3, <2>3, <2>4
<1>8. ASSUME NEW i \in 1..Len(sent \o p), kind[(sent \o p)[i]] = "eof"
      PROVE  r = <<>> /\ ~stdinOpen
  <2>1. CASE i \in 1..Len(sent)
    <3>1. pending = <<>> /\ ~stdinOpen
      BY <1>2, <1>8, <2>1, CallsJoined DEF QueueInv, InputTypeOK
    <3> QED
      BY <3>1, <1>1, <1>3
  <2>2. CASE i - Len(sent) \in 1..Len(p) /\ (sent \o p)[i] = p[i - Len(sent)]
    <3>1. i - Len(sent) \in 1..k /\ i - Len(sent) \in 1..Len(pending)
      BY <1>1, <1>2, <2>2
    <3>2. kind[pending[i - Len(sent)]] = "eof"
      BY <1>2, <1>8, <2>2, <3>1
    <3>3. i - Len(sent) = Len(pending) /\ ~stdinOpen
      BY <3>1, <3>2 DEF QueueInv
    <3> QED
      BY <1>1, <1>3, <3>1, <3>3
  <2> QED
    BY <1>2, <2>1, <2>2, CallsJoined DEF InputTypeOK
<1> QED
  BY <1>4, <1>5, <1>6, <1>7, <1>8 DEF QueueInv

LEMMA ExpireQueue ==
  ASSUME InputTypeOK, QueueInv, NEW c \in Sends, Expire(c)
  PROVE  QueueInv'
<1>1. CASE Contains(pending, c)
  <2>1. PICK k \in 1..Len(pending) : pending[k] = c /\ pending' = RemoveAt(pending, k)
    BY <1>1 DEF Expire, InputTypeOK
  <2>2. /\ Len(pending') = Len(pending) - 1 /\ Len(pending) \in Nat
        /\ \A i \in 1..(Len(pending) - 1) :
             pending'[i] = IF i < k THEN pending[i] ELSE pending[i + 1]
    <3> pending \in Seq(Sends) /\ Len(pending) \in Nat
      BY DEF InputTypeOK
    <3> QED
      BY <2>1, Without
  <2>3. /\ kind' = kind /\ sent' = sent /\ (stdinOpen' <=> (stdinOpen \/ kind[c] = "eof"))
        /\ \A d \in Sends \ {c} : sendCall'[d] = sendCall[d]
    BY <1>1 DEF Expire, Answer, Reopens, frameVars, InputTypeOK
  <2>4. \A i \in 1..Len(pending') : \E j \in 1..Len(pending) : j # k /\ pending'[i] = pending[j]
    <3> SUFFICES ASSUME NEW i \in 1..Len(pending')
                 PROVE  \E j \in 1..Len(pending) : j # k /\ pending'[i] = pending[j]
      OBVIOUS
    <3>1. CASE i < k
      BY <2>2, <3>1
    <3>2. CASE ~(i < k)
      <4>1. i + 1 \in 1..Len(pending) /\ i + 1 # k /\ pending'[i] = pending[i + 1]
        BY <2>2, <3>2
      <4> QED
        BY <4>1
    <3> QED
      BY <3>1, <3>2
  <2>5. \A i \in 1..Len(pending') : sendCall'[pending'[i]] = "held"
    <3> SUFFICES ASSUME NEW i \in 1..Len(pending') PROVE sendCall'[pending'[i]] = "held"
      OBVIOUS
    <3>1. PICK j \in 1..Len(pending) : j # k /\ pending'[i] = pending[j]
      BY <2>4
    <3>2. pending[j] \in Sends \ {c}
      BY <2>1, <3>1 DEF QueueInv, InputTypeOK
    <3> QED
      BY <2>3, <3>1, <3>2 DEF QueueInv
  <2>6. \A i, j \in 1..Len(pending') : pending'[i] = pending'[j] => i = j
    <3> SUFFICES ASSUME NEW i \in 1..Len(pending'), NEW j \in 1..Len(pending'),
                        pending'[i] = pending'[j]
                 PROVE  i = j
      OBVIOUS
    <3> DEFINE Was(n) == IF n < k THEN n ELSE n + 1
    <3>1. /\ Was(i) \in 1..Len(pending) /\ Was(j) \in 1..Len(pending)
          /\ pending'[i] = pending[Was(i)] /\ pending'[j] = pending[Was(j)]
      BY <2>2
    <3>2. Was(i) = Was(j)
      BY <3>1 DEF QueueInv
    <3> QED
      BY <2>2, <3>2
  <2>7. ASSUME NEW i \in 1..Len(pending'), kind[pending'[i]] = "eof"
        PROVE  i = Len(pending') /\ ~stdinOpen /\ kind[c] # "eof"
    <3>1. CASE i < k
      <4>1. i \in 1..Len(pending) /\ pending'[i] = pending[i] /\ i # Len(pending)
        BY <2>2, <3>1
      <4> QED
        BY <2>7, <4>1 DEF QueueInv
    <3>2. CASE ~(i < k)
      <4>1. i + 1 \in 1..Len(pending) /\ pending'[i] = pending[i + 1] /\ k # Len(pending)
        BY <2>2, <3>2
      <4>2. i + 1 = Len(pending) /\ ~stdinOpen
        BY <2>7, <4>1 DEF QueueInv
      <4>3. kind[c] # "eof"
        BY <2>1, <4>1 DEF QueueInv
      <4> QED
        BY <2>2, <4>2, <4>3
    <3> QED
      BY <3>1, <3>2
  <2>8. \A i \in 1..Len(sent) : kind[sent[i]] # "eof"
    BY <2>1 DEF QueueInv, InputTypeOK
  <2> QED
    BY <2>3, <2>5, <2>6, <2>7, <2>8 DEF QueueInv
<1>2. CASE ~Contains(pending, c)
  BY <1>2, SameQueue DEF Expire, frameVars, QueueInv
<1> QED
  BY <1>1, <1>2

LEMMA QueueStep ==
  ASSUME InputTypeOK, QueueInv, [InputNext]_inputVars
  PROVE  QueueInv'
<1>1. ASSUME NEW c \in Sends, sendCall[c] # "held",
             \A d \in Sends \ {c} : sendCall'[d] = sendCall[d],
             UNCHANGED <<kind, pending, sent, stdinOpen>>
      PROVE  QueueInv'
  BY <1>1, SameQueue DEF QueueInv, InputTypeOK
<1>2. ASSUME \/ UNCHANGED <<sendVars, queueVars, sent>>
             \/ UNCHANGED <<kind, sendCall, pending, stdinOpen, sent>>
      PROVE  QueueInv'
  BY <1>2, SameQueue DEF QueueInv, sendVars, queueVars
<1>3. ASSUME NEW c \in Sends, Ask(c) \/ AskNobody(c) \/ RefuseSend(c)
      PROVE  QueueInv'
  <2>1. /\ sendCall[c] # "held" /\ \A d \in Sends \ {c} : sendCall'[d] = sendCall[d]
        /\ UNCHANGED <<kind, pending, sent, stdinOpen>>
    BY <1>3 DEF Ask, AskNobody, RefuseSend, Answer, InputTypeOK,
                queueVars, frameVars
  <2> QED
    BY <1>1, <2>1
<1>4. ASSUME NEW c \in Sends, SendTimerFires(c) PROVE QueueInv'
  BY <1>2, <1>4 DEF SendTimerFires, queueVars, frameVars
<1>5. CASE FlushTimerFires \/ DeadlinePasses
  BY <1>2, <1>5 DEF FlushTimerFires, DeadlinePasses, sendVars, frameVars
<1>6. CASE InputShim
  BY <1>2, <1>6 DEF InputShim, ShimReads, ShimKills, ChildExits,
                    ShimLeaves, frameVars
<1>7. CASE FlushStep
  BY <1>7, FlushQueue, EmptiedQueue
    DEF FlushStep, FlushClosed, FailPending, frameVars
<1>8. CASE ShimEnded \/ EndInput
  BY <1>8, EmptiedQueue DEF ShimEnded, EndInput, FailPending
<1>9. CASE SendKill \/ AwaitExit
  BY <1>2, <1>9 DEF SendKill, AwaitExit
<1>10. CASE Finished \/ UNCHANGED inputVars
  BY <1>2, <1>10 DEF Finished, inputVars, frameVars
<1> QED
  BY <1>3, <1>4, <1>5, <1>6, <1>7, <1>8, <1>9, <1>10, TakeSendQueue, ExpireQueue DEF InputNext

-----------------------------------------------------------------------------
(* Every step of the session is a step of OrderedInput, or none.           *)

Told == [c \in Sends |-> IF sendCall[c] \in SendAnswers THEN sendCall[c] ELSE "none"]

LEMMA OneAnswer ==
  ASSUME InputTypeOK, NEW c \in Sends, NEW r \in SendAnswers,
         sendCall' = [sendCall EXCEPT ![c] = r]
  PROVE  Told' = [Told EXCEPT ![c] = r]
BY DEF InputTypeOK, Told

LEMMA NoAnswer ==
  ASSUME InputTypeOK, NEW c \in Sends, NEW r \in {"idle", "asked", "held"},
         sendCall[c] \notin SendAnswers, sendCall' = [sendCall EXCEPT ![c] = r]
  PROVE  Told' = Told
BY DEF InputTypeOK, Told, SendAnswers

\* A call in the mailbox is new to the session.
LEMMA AskedIsNew ==
  ASSUME InputTypeOK, QueueInv, NEW c \in Sends, sendCall[c] = "asked"
  PROVE  Promise!New(c) /\ sendCall[c] \notin SendAnswers
<1>1. sendCall[c] \notin SendAnswers /\ sendCall[c] # "held"
  BY DEF SendAnswers
<1>2. ~Contains(pending, c)
  BY <1>1 DEF InputTypeOK, QueueInv, Contains
<1> QED
  BY <1>1, <1>2 DEF Promise!New, Contains, Promise!Contains

LEMMA TakeSendRefines ==
  ASSUME InputTypeOK, QueueInv, NEW c \in Sends, TakeSend(c)
  PROVE  Promise!Next
<1>1. Promise!New(c) /\ sendCall[c] \notin SendAnswers
  BY AskedIsNew DEF TakeSend
<1>2. kind' = kind
  BY DEF TakeSend
<1>3. ASSUME pending = <<>>, Accept(c), pending' = pending PROVE Promise!SendNew(c)
  <2>1. Told' = [Told EXCEPT ![c] = "ok"]
    BY <1>3, OneAnswer DEF Accept, Answer, SendAnswers
  <2>2. ~Promise!Ended
    BY NotEnded DEF TakeSend
  <2> QED
    BY <1>1, <1>2, <1>3, <2>1, <2>2 DEF Promise!SendNew, Accept, Told
<1>4. ASSUME Answer(c, "closed"), UNCHANGED <<sent, pending>> PROVE Promise!Refuse(c)
  <2>1. Told' = [Told EXCEPT ![c] = "closed"]
    BY <1>4, OneAnswer DEF Answer, SendAnswers
  <2> QED
    BY <1>1, <1>2, <1>4, <2>1 DEF Promise!Refuse, Told
<1>5. ASSUME Enqueue(c) PROVE Promise!Queue(c)
  <2>1. Told' = Told
    BY <1>1, <1>5, NoAnswer DEF Enqueue
  <2> QED
    BY <1>1, <1>2, <1>5, <2>1 DEF Promise!Queue, Enqueue, Told
<1> QED
  BY <1>3, <1>4, <1>5 DEF TakeSend, Submit, Promise!Next

LEMMA RefusalRefines ==
  ASSUME InputTypeOK, QueueInv, NEW c \in Sends, RefuseSend(c) \/ AskNobody(c)
  PROVE  Promise!Next
<1>1. Promise!New(c)
  BY AskedIsNew DEF RefuseSend, AskNobody
<1>2. Told' = [Told EXCEPT ![c] = "closed"]
  BY OneAnswer DEF RefuseSend, AskNobody, Answer, SendAnswers
<1>3. Promise!Refuse(c)
  BY <1>1, <1>2 DEF RefuseSend, AskNobody, queueVars, frameVars,
                    Promise!Refuse, Told
<1> QED
  BY <1>3 DEF Promise!Next

LEMMA FlushRefines ==
  ASSUME InputTypeOK, QueueInv, FlushSends
  PROVE  [Promise!Next]_(Promise!vars)
<1>1. Fit \in 0..Len(pending) /\ Len(pending) \in Nat
  BY FitRange DEF InputTypeOK
<1>2. CASE Fit = 0
  <2>1. /\ SubSeq(pending, 1, Fit) = <<>>
        /\ SubSeq(pending, Fit + 1, Len(pending)) = pending
    <3>1. SubSeq(pending, 1, 0) = <<>> /\ SubSeq(pending, 1, Len(pending)) = pending
      BY DEF InputTypeOK
    <3> QED
      BY <1>2, <3>1
  <2>2. sent' = sent /\ pending' = pending
    <3>1. sent' = sent \o <<>> /\ pending' = pending
      BY <2>1 DEF FlushSends
    <3> QED
      BY <3>1 DEF InputTypeOK
  <2>3. sendCall' = sendCall
    <3>1. \A c : ~Contains(SubSeq(pending, 1, Fit), c)
      <4>1. \A c : ~Contains(<<>>, c)
        BY DEF Contains
      <4> QED
        BY <2>1, <4>1
    <3> QED
      BY <3>1 DEF FlushSends, InputTypeOK
  <2> QED
    BY <2>2, <2>3 DEF FlushSends, Promise!vars
<1>3. CASE Fit # 0
  <2>1. Fit \in 1..Len(pending)
    BY <1>1, <1>3
  <2>2. pending # <<>> /\ ~Promise!Ended
    BY <2>1, NotEnded
  <2>3. \A i \in 1..(Fit - 1) : kind[pending[i]] = "line"
    <3> SUFFICES ASSUME NEW i \in 1..(Fit - 1) PROVE kind[pending[i]] = "line"
      OBVIOUS
    <3>1. i \in 1..Len(pending) /\ i # Len(pending)
      BY <1>1, <2>1
    <3> QED
      BY <3>1 DEF QueueInv, InputTypeOK
  <2>4. Told' = [c \in Sends |->
                  IF Contains(SubSeq(pending, 1, Fit), c) THEN "ok" ELSE Told[c]]
    BY DEF FlushSends, Told, SendAnswers
  <2>5. PICK k \in 1..Len(pending) : k = Fit
    BY <2>1
  <2>6. Promise!SendWaiting(k)
    BY <2>2, <2>3, <2>4, <2>5
       DEF FlushSends, Promise!SendWaiting, Told, Contains,
           Promise!Contains
  <2> QED
    BY <2>6 DEF Promise!Next
<1> QED
  BY <1>2, <1>3

LEMMA FailureRefines ==
  ASSUME InputTypeOK, QueueInv, FailPending, UNCHANGED <<kind, sent>>
  PROVE  [Promise!Next]_(Promise!vars)
<1>1. CASE pending = <<>>
  <2>1. sendCall' = sendCall /\ pending' = pending
    BY <1>1 DEF FailPending, InputTypeOK, Contains
  <2> QED
    BY <2>1 DEF Promise!vars
<1>2. CASE pending # <<>>
  <2>1. Told' = [c \in Sends |-> IF Contains(pending, c) THEN "closed" ELSE Told[c]]
    BY DEF FailPending, Told, SendAnswers
  <2>2. Promise!Close
    BY <1>2, <2>1
      DEF FailPending, Promise!Close, Told, Contains, Promise!Contains
  <2> QED
    BY <2>2 DEF Promise!Next
<1> QED
  BY <1>1, <1>2

LEMMA ExpiryRefines ==
  ASSUME InputTypeOK, QueueInv, NEW c \in Sends, Expire(c)
  PROVE  [Promise!Next]_(Promise!vars)
<1>1. kind' = kind /\ sent' = sent
  BY DEF Expire, frameVars
<1>2. CASE Contains(pending, c)
  <2>1. Told' = [Told EXCEPT ![c] = "busy"]
    BY <1>2, OneAnswer DEF Expire, Answer, SendAnswers
  <2>2. Promise!Expire(c)
    BY <1>1, <1>2, <2>1
      DEF Expire, Promise!Expire, Told, RemoveAt, Promise!RemoveAt
  <2> QED
    BY <2>2 DEF Promise!Next
<1>3. CASE ~Contains(pending, c)
  BY <1>1, <1>3 DEF Expire, Promise!vars
<1> QED
  BY <1>2, <1>3

LEMMA StepRefines ==
  ASSUME InputTypeOK, QueueInv, [InputNext]_inputVars
  PROVE  [Promise!Next]_(Promise!vars)
<1>1. ASSUME UNCHANGED <<kind, sendCall, pending, sent>> PROVE UNCHANGED Promise!vars
  BY <1>1 DEF Promise!vars
<1>2. ASSUME NEW c \in Sends, Ask(c) PROVE UNCHANGED Promise!vars
  <2>1. Told' = Told
    BY <1>2, NoAnswer DEF Ask, SendAnswers
  <2> QED
    BY <1>2, <2>1 DEF Ask, queueVars, frameVars, Told, Promise!vars
<1>3. ASSUME NEW c \in Sends, SendTimerFires(c) PROVE UNCHANGED Promise!vars
  BY <1>1, <1>3 DEF SendTimerFires, queueVars, frameVars
<1>4. CASE FlushTimerFires \/ DeadlinePasses
  BY <1>1, <1>4 DEF FlushTimerFires, DeadlinePasses, sendVars,
                    queueVars, frameVars
<1>5. CASE InputShim
  BY <1>1, <1>5 DEF InputShim, ShimReads, ShimKills, ChildExits,
                    ShimLeaves, sendVars, queueVars, frameVars
<1>6. CASE FlushStep
  BY <1>6, FlushRefines, FailureRefines DEF FlushStep, FlushClosed, frameVars
<1>7. CASE ShimEnded \/ EndInput
  BY <1>7, FailureRefines DEF ShimEnded, EndInput
<1>8. CASE SendKill \/ AwaitExit
  BY <1>1, <1>8 DEF SendKill, AwaitExit, sendVars, queueVars
<1>9. CASE Finished \/ UNCHANGED inputVars
  BY <1>1, <1>9 DEF Finished, inputVars, sendVars, queueVars, frameVars
<1> QED
  BY <1>2, <1>3, <1>4, <1>5, <1>6, <1>7, <1>8, <1>9, TakeSendRefines, RefusalRefines,
     ExpiryRefines DEF InputNext

LEMMA InitRefines ==
  InputInit => Promise!Init
<1> SUFFICES ASSUME InputInit PROVE Promise!Init
  OBVIOUS
<1>1. Told = [c \in Sends |-> "none"]
  BY DEF InputInit, Told, SendAnswers
<1> QED
  BY <1>1, KindAssumption DEF InputInit, Promise!Init, Told

\* Where an EOF can be: the last that waits, or sent with nothing behind it, and
\* only with stdin closed.
THEOREM EofIsTheEnd ==
  InputSpec => []QueueInv
<1>1. InputInit => InputTypeOK /\ QueueInv
  BY TypeInit, QueueInit
<1>2. (InputTypeOK /\ QueueInv) /\ [InputNext]_inputVars => (InputTypeOK /\ QueueInv)'
  BY TypeStep, QueueStep
<1> QED
  BY <1>1, <1>2, PTL DEF InputSpec

\* The input queue keeps the order of the calls, sends no line it refused or
\* gave up, refuses none it sent, and lets nothing follow an EOF, though an
\* EOF that expires opens stdin again.
THEOREM InputImplementsOrder ==
  InputSpec => ImplementsOrderedInput
<1>1. InputInit => Promise!Init
  BY InitRefines
<1>2. InputTypeOK /\ QueueInv /\ [InputNext]_inputVars
        => [Promise!Next]_(Promise!vars)
  BY StepRefines
<1> QED
  BY <1>1, <1>2, InputTypeCorrect, EofIsTheEnd, PTL
    DEF InputSpec, ImplementsOrderedInput, Promise!Spec
=============================================================================
