----------------------------- MODULE ListProofs -----------------------------
(***************************************************************************)
(* Safety of the linked list of c/utils for any set of addresses, as long  *)
(* as list_remove_if is not asked to remove the last node.  The nodes of   *)
(* the list form a sequence, which the proof names and the program does    *)
(* not have: every pointer of the list, the nodes and the calls is a       *)
(* function of this sequence and of a place in it.                         *)
(***************************************************************************)
EXTENDS List, Sequences, FiniteSetTheorems, FunctionTheorems, SequenceTheorems,
        WellFoundedInduction, TLAPS

\* The node after the first i of s.
After(s, i) == IF i < Len(s) THEN s[i + 1] ELSE NULL

Distinct(s) == \A i, j \in 1 .. Len(s) : s[i] = s[j] => i = j

\* The chain from h through nx is s.
Chain(s, h, nx) == /\ h = After(s, 0)
                   /\ \A i \in 1 .. Len(s) : nx[s[i]] = After(s, i)

\* The nodes of s from place j on.
Rest(s, j) == {s[i] : i \in j .. Len(s)}

\* The list is s.
Shape(s) ==
    /\ Distinct(s) /\ Chain(s, head, next) /\ count = Len(s)
    /\ tail = IF Len(s) = 0 THEN NULL ELSE s[Len(s)]

\* The call under way is at place j of s.
Place(s, j) ==
    /\ j \in 1 .. Len(s) + 1
    /\ op # "destroy" => alloc = Rest(s, 1)
    /\ op = "destroy" => alloc = Rest(s, j)
    /\ op = "idle" => current = NULL
    /\ op # "idle" => current = After(s, j - 1)
    /\ op \in {"remove", "find", "foreach"} => j = 1
    /\ op # "remove_if" \/ j = 1 => previous = NULL
    /\ op = "remove_if" /\ j > 1 => previous = s[j - 1]

Types ==
    /\ live \in BOOLEAN /\ count \in Nat
    /\ head \in Pointers /\ tail \in Pointers /\ previous \in Pointers
    /\ current \in Pointers
    /\ next \in [Nodes -> Pointers] /\ alloc \in SUBSET Nodes
    /\ op \in {"idle", "remove", "find", "foreach", "remove_if", "destroy"}

IInv ==
    /\ Types
    /\ ~live => op = "idle" /\ alloc = {} /\ previous = NULL /\ current = NULL
    /\ live => \E s \in Seq(Nodes) : Shape(s) /\ \E j \in 1 .. Len(s) + 1 : Place(s, j)

-----------------------------------------------------------------------------
(* Walking a chain.                                                        *)

LEMMA LeastNat ==
    ASSUME NEW T, T \subseteq Nat, T # {}
    PROVE  \E n \in T : \A m \in T : n <= m
<1> DEFINE R == OpToRel(<, Nat)
<1>1. IsWellFoundedOn(R, Nat) BY NatLessThanWellFounded
<1>2. \A x, y \in Nat : x < y => <<x, y>> \in R BY DEF OpToRel
<1> HIDE DEF R
<1>3. PICK n \in T : \A m \in T : ~(<<m, n>> \in R) BY <1>1, WFMin
<1>4. ASSUME NEW m \in T PROVE n <= m
  <2>1. m \in Nat /\ n \in Nat /\ ~(m < n) BY <1>2, <1>3
  <2> QED BY <2>1
<1> QED BY <1>4

\* Distinct nodes: a sequence of them is no longer than there are addresses.
LEMMA Fits ==
    ASSUME NEW s \in Seq(Nodes), Distinct(s)
    PROVE  Len(s) <= Cardinality(Nodes) /\ Cardinality(Nodes) \in Nat
<1>1. IsFiniteSet(Nodes) BY NodesAssumption
<1>2. s \in [1 .. Len(s) -> Nodes] /\ Len(s) \in Nat OBVIOUS
<1>3. s \in Injection(1 .. Len(s), Nodes) BY <1>2 DEF Distinct, Injection, IsInjective
<1>4. Cardinality(1 .. Len(s)) <= Cardinality(Nodes) BY <1>1, <1>3, FS_Injection
<1>5. Cardinality(1 .. Len(s)) = Len(s)
  <2>1. ASSUME NEW n \in Nat PROVE Cardinality(1 .. n) = n
    <3>1. Cardinality(1 .. n) = IF 1 > n THEN 0 ELSE n - 1 + 1 BY FS_Interval
    <3> QED BY <3>1
  <2> QED BY <1>2, <2>1
<1>6. Cardinality(Nodes) \in Nat BY <1>1, FS_CardinalityType
<1> QED BY <1>4, <1>5, <1>6

\* What Walk computes from head h and links nx, one round of its recursion, and
\* Walk itself.
WalkRound(h, nx, w) ==
    [k \in 0 .. Cardinality(Nodes) |->
        IF k = 0 THEN h ELSE IF w[k - 1] = NULL THEN NULL ELSE nx[w[k - 1]]]
WalkOf(h, nx) == CHOOSE w : w = WalkRound(h, nx, w)

LEMMA WalkIs == Walk = WalkOf(head, next)
BY DEF Walk, WalkOf, WalkRound

\* A walk along the chain s meets the nodes of s and then NULL.
LEMMA Walked ==
    ASSUME NEW s \in Seq(Nodes), Distinct(s), NEW h, NEW nx, Chain(s, h, nx)
    PROVE  \A k \in 0 .. Len(s) : WalkOf(h, nx)[k] = After(s, k)
<1> DEFINE N == Cardinality(Nodes)
           v == [k \in 0 .. N |-> After(s, k)]
           w == WalkOf(h, nx)
<1>1. Len(s) <= N /\ N \in Nat /\ Len(s) \in Nat BY Fits
<1> HIDE DEF N
<1>2. \A k \in 1 .. N :
         After(s, k) = IF After(s, k - 1) = NULL THEN NULL ELSE nx[After(s, k - 1)]
  <2> TAKE k \in 1 .. N
  <2>1. CASE k - 1 < Len(s)
    <3>1. k \in 1 .. Len(s) /\ (k - 1) + 1 = k BY <1>1, <2>1
    <3>2. After(s, k - 1) = s[k] BY <2>1, <3>1 DEF After
    <3>3. s[k] # NULL BY <3>1, NodesAssumption
    <3> QED BY <3>1, <3>2, <3>3 DEF Chain
  <2>2. CASE ~(k - 1 < Len(s))
    <3>1. ~(k < Len(s)) BY <1>1, <2>2
    <3> QED BY <2>2, <3>1 DEF After
  <2> QED BY <2>1, <2>2
<1>3. v = WalkRound(h, nx, v)
  <2> DEFINE u == WalkRound(h, nx, v)
  <2>1. \A k \in 0 .. N : u[k] = IF k = 0 THEN h
                                  ELSE IF v[k - 1] = NULL THEN NULL ELSE nx[v[k - 1]]
    BY DEF WalkRound, N
  <2>2. ASSUME NEW k \in 0 .. N PROVE u[k] = v[k]
    <3>1. CASE k = 0 BY <2>1, <3>1 DEF Chain
    <3>2. CASE k # 0
      <4>1. k \in 1 .. N /\ k - 1 \in 0 .. N BY <1>1, <3>2
      <4>2. v[k - 1] = After(s, k - 1) /\ v[k] = After(s, k) BY <4>1
      <4> HIDE DEF v, u
      <4> QED BY <1>2, <2>1, <3>2, <4>1, <4>2
    <3> QED BY <3>1, <3>2
  <2>3. u = [k \in 0 .. N |-> u[k]] BY DEF WalkRound, N
  <2>4. v = [k \in 0 .. N |-> v[k]] OBVIOUS
  <2> HIDE DEF u, v
  <2>5. u = v BY <2>2, <2>3, <2>4
  <2> QED BY <2>5 DEF u
<1> HIDE DEF v
<1>4. w = WalkRound(h, nx, w) BY <1>3 DEF WalkOf
<1> HIDE DEF w
<1>5. \A k \in 0 .. N : w[k] = IF k = 0 THEN h
                                ELSE IF w[k - 1] = NULL THEN NULL ELSE nx[w[k - 1]]
  BY <1>4 DEF WalkRound, N
<1>6. \A k \in 0 .. N : w[k] = After(s, k)
  <2> DEFINE T == {k \in 0 .. N : w[k] # After(s, k)}
  <2> SUFFICES ASSUME T # {} PROVE FALSE OBVIOUS
  <2>1. T \subseteq Nat BY <1>1
  <2>2. PICK n \in T : \A m \in T : n <= m BY <2>1, LeastNat
  <2>3. n \in 0 .. N /\ w[n] # After(s, n) BY <2>2
  <2>4. n # 0 BY <1>1, <1>5, <2>3 DEF Chain
  <2>5. n \in 1 .. N /\ n - 1 \in 0 .. N /\ ~(n <= n - 1) BY <1>1, <2>3, <2>4
  <2>6. w[n - 1] = After(s, n - 1) BY <2>2, <2>5
  <2> QED BY <1>2, <1>5, <2>3, <2>4, <2>5, <2>6
<1> QED BY <1>1, <1>6 DEF w

-----------------------------------------------------------------------------
(* Adding and removing a node.                                             *)

\* s without its node at place j.
Without(s, j) == [i \in 1 .. Len(s) - 1 |-> IF i < j THEN s[i] ELSE s[i + 1]]

LEMMA WithoutIs ==
    ASSUME NEW s \in Seq(Nodes), Distinct(s), NEW j \in 1 .. Len(s)
    PROVE  /\ Without(s, j) \in Seq(Nodes) /\ Len(Without(s, j)) = Len(s) - 1
           /\ Distinct(Without(s, j))
           /\ Rest(Without(s, j), 1) = Rest(s, 1) \ {s[j]}
           /\ \A i \in 1 .. Len(s) - 1 :
                 Without(s, j)[i] = IF i < j THEN s[i] ELSE s[i + 1]
<1> DEFINE t == Without(s, j)
<1>0. Len(s) \in Nat /\ j \in Nat /\ Len(s) - 1 \in Nat OBVIOUS
<1>1. t \in Seq(Nodes) /\ Len(t) = Len(s) - 1 BY <1>0 DEF Without
<1>2. \A i \in 1 .. Len(s) - 1 : t[i] = IF i < j THEN s[i] ELSE s[i + 1]
  BY DEF Without
<1> HIDE DEF t
<1>3. Distinct(t)
  <2> SUFFICES ASSUME NEW a \in 1 .. Len(t), NEW b \in 1 .. Len(t), t[a] = t[b]
               PROVE  a = b
    BY DEF Distinct
  <2> DEFINE x == IF a < j THEN a ELSE a + 1
             y == IF b < j THEN b ELSE b + 1
  <2>1. x \in 1 .. Len(s) /\ y \in 1 .. Len(s) BY <1>0, <1>1
  <2>2. t[a] = s[x] /\ t[b] = s[y] BY <1>1, <1>2
  <2>3. x = y
    <3> HIDE DEF x, y
    <3> QED BY <2>1, <2>2 DEF Distinct
  <2> QED BY <1>0, <1>1, <2>3
<1>4. Rest(t, 1) = Rest(s, 1) \ {s[j]}
  <2>1. ASSUME NEW n \in Rest(t, 1) PROVE n \in Rest(s, 1) /\ n # s[j]
    <3>1. PICK i \in 1 .. Len(t) : n = t[i] BY <2>1 DEF Rest
    <3> DEFINE x == IF i < j THEN i ELSE i + 1
    <3>2. x \in 1 .. Len(s) /\ x # j BY <1>0, <1>1
    <3>3. n = s[x] BY <1>1, <1>2, <3>1
    <3> HIDE DEF x
    <3> QED BY <3>2, <3>3 DEF Rest, Distinct
  <2>2. ASSUME NEW n \in Rest(s, 1), n # s[j] PROVE n \in Rest(t, 1)
    <3>1. PICK i \in 1 .. Len(s) : n = s[i] BY <2>2 DEF Rest
    <3>2. i # j BY <2>2, <3>1
    <3>3. CASE i < j
      <4>1. i \in 1 .. Len(t) /\ t[i] = s[i] BY <1>0, <1>1, <1>2, <3>3
      <4> QED BY <3>1, <4>1 DEF Rest
    <3>4. CASE i > j
      <4>1. i - 1 \in 1 .. Len(t) /\ ~(i - 1 < j) /\ (i - 1) + 1 = i
        BY <1>0, <1>1, <3>4
      <4>2. t[i - 1] = s[i] BY <1>1, <1>2, <4>1
      <4> QED BY <3>1, <4>1, <4>2 DEF Rest
    <3> QED BY <1>0, <3>2, <3>3, <3>4
  <2> QED BY <2>1, <2>2
<1> QED BY <1>1, <1>2, <1>3, <1>4 DEF t

\* Unlinking the node at place j leaves the list without it, unless it was the
\* last of several and tail has not been moved.
LEMMA Unlinked ==
    ASSUME NEW s \in Seq(Nodes), Shape(s), NEW j \in 1 .. Len(s),
           next \in [Nodes -> Pointers], count' = count - 1,
           head' = IF j = 1 THEN After(s, 1) ELSE head,
           next' = IF j = 1 THEN next ELSE [next EXCEPT ![s[j - 1]] = After(s, j)],
           \/ Len(s) = 1 /\ tail' = NULL
           \/ Len(s) > 1 /\ tail' = tail /\ (j < Len(s))
    PROVE  Shape(Without(s, j))'
<1> DEFINE t == Without(s, j)
<1>0. Len(s) \in Nat /\ j \in Nat /\ Len(s) - 1 \in Nat OBVIOUS
<1>1. /\ Distinct(s) /\ Chain(s, head, next) /\ count = Len(s)
      /\ tail = IF Len(s) = 0 THEN NULL ELSE s[Len(s)]
  BY DEF Shape
<1>2. /\ t \in Seq(Nodes) /\ Len(t) = Len(s) - 1 /\ Distinct(t)
      /\ \A i \in 1 .. Len(s) - 1 : t[i] = IF i < j THEN s[i] ELSE s[i + 1]
  BY <1>1, WithoutIs
<1>3. \A i \in 1 .. Len(s) : s[i] \in Nodes OBVIOUS
<1> HIDE DEF t
<1>4. After(t, 0) = IF j = 1 THEN After(s, 1) ELSE After(s, 0)
  <2>1. CASE Len(s) = 1 BY <1>2, <2>1 DEF After
  <2>2. CASE Len(s) > 1
    <3>1. 1 \in 1 .. Len(s) - 1 /\ 0 < Len(t) BY <1>0, <1>2, <2>2
    <3> QED BY <1>0, <1>2, <2>2, <3>1 DEF After
  <2> QED BY <1>0, <2>1, <2>2
<1>5. head' = After(t, 0) BY <1>1, <1>4 DEF Chain
<1>6. ASSUME NEW i \in 1 .. Len(t) PROVE next'[t[i]] = After(t, i)
  <2>0. i \in Nat /\ i >= 1 /\ i <= Len(s) - 1 /\ i + 1 \in 1 .. Len(s) BY <1>0, <1>2
  <2>1. After(t, i) = IF i + 1 < Len(s) THEN t[i + 1] ELSE NULL
    BY <1>0, <1>2, <2>0 DEF After
  <2>2. CASE ~(i < j)
    <3>1. t[i] = s[i + 1] BY <1>2, <2>0, <2>2
    <3>2. After(t, i) = After(s, i + 1)
      <4>1. CASE i + 1 < Len(s)
        <5>1. i + 1 \in 1 .. Len(s) - 1 /\ ~(i + 1 < j) BY <1>0, <2>0, <2>2, <4>1
        <5> QED BY <1>2, <2>1, <4>1, <5>1 DEF After
      <4>2. CASE ~(i + 1 < Len(s)) BY <2>1, <4>2 DEF After
      <4> QED BY <4>1, <4>2
    <3>3. next'[s[i + 1]] = next[s[i + 1]]
      <4>1. CASE j = 1 BY <4>1
      <4>2. CASE j # 1
        <5>1. j - 1 \in 1 .. Len(s) /\ j - 1 # i + 1 BY <1>0, <2>0, <2>2, <4>2
        <5>2. s[j - 1] # s[i + 1] BY <1>1, <2>0, <5>1 DEF Distinct
        <5> QED BY <1>3, <2>0, <4>2, <5>1, <5>2
      <4> QED BY <4>1, <4>2
    <3> QED BY <1>1, <2>0, <3>1, <3>2, <3>3 DEF Chain
  <2>3. CASE i < j /\ i # j - 1
    <3>0. j # 1 /\ i + 1 < j /\ j - 1 \in 1 .. Len(s) /\ i \in 1 .. Len(s)
      BY <1>0, <2>0, <2>3
    <3>1. t[i] = s[i] BY <1>2, <2>0, <2>3
    <3>2. i + 1 \in 1 .. Len(s) - 1 /\ i + 1 < Len(s) /\ i < Len(s)
      BY <1>0, <2>0, <3>0
    <3>3. After(t, i) = s[i + 1] BY <1>2, <2>1, <3>0, <3>2
    <3>4. s[i] # s[j - 1] BY <1>1, <2>3, <3>0 DEF Distinct
    <3>5. next'[s[i]] = next[s[i]] BY <1>3, <3>0, <3>4
    <3> QED BY <1>1, <3>0, <3>1, <3>2, <3>3, <3>5 DEF Chain, After
  <2>4. CASE i = j - 1
    <3>0. j # 1 /\ i < j /\ j - 1 \in 1 .. Len(s) /\ i + 1 = j BY <1>0, <2>0, <2>4
    <3>1. t[i] = s[j - 1] BY <1>2, <2>0, <2>4, <3>0
    <3>2. next'[t[i]] = After(s, j) BY <1>3, <3>0, <3>1
    <3>3. After(t, i) = After(s, j)
      <4>1. CASE j < Len(s)
        <5>1. j \in 1 .. Len(s) - 1 /\ ~(j < j) BY <1>0, <4>1
        <5>2. t[j] = s[j + 1] BY <1>2, <5>1
        <5> QED BY <2>1, <3>0, <4>1, <5>2 DEF After
      <4>2. CASE ~(j < Len(s)) BY <2>1, <3>0, <4>2 DEF After
      <4> QED BY <4>1, <4>2
    <3> QED BY <3>2, <3>3
  <2> QED BY <1>0, <2>0, <2>2, <2>3, <2>4
<1>7. tail' = IF Len(t) = 0 THEN NULL ELSE t[Len(t)]
  <2>1. CASE Len(s) = 1 BY <1>2, <2>1
  <2>2. CASE Len(s) > 1
    <3>1. j < Len(s) /\ tail' = s[Len(s)] BY <1>1, <1>0, <2>2
    <3>2. /\ Len(s) - 1 \in 1 .. Len(s) - 1 /\ ~(Len(s) - 1 < j)
          /\ (Len(s) - 1) + 1 = Len(s) /\ Len(s) - 1 # 0
      BY <1>0, <2>2, <3>1
    <3>3. t[Len(s) - 1] = s[Len(s)] BY <1>2, <3>2
    <3> QED BY <1>2, <3>1, <3>2, <3>3
  <2> QED BY <1>0, <2>1, <2>2
<1>8. count' = Len(t) BY <1>1, <1>2
<1> QED BY <1>2, <1>5, <1>6, <1>7, <1>8 DEF t, Shape, Chain

LEMMA Appending ==
    ASSUME NEW s \in Seq(Nodes), NEW n \in Nodes
    PROVE  /\ Append(s, n) \in Seq(Nodes) /\ Len(Append(s, n)) = Len(s) + 1
           /\ Append(s, n)[Len(s) + 1] = n
           /\ \A k \in 1 .. Len(s) : Append(s, n)[k] = s[k]
OBVIOUS

\* list_add puts a node that is not in use behind the last one.
LEMMA Added ==
    ASSUME NEW s \in Seq(Nodes), Shape(s), NEW n \in Nodes, n \notin Rest(s, 1),
           next \in [Nodes -> Pointers], count' = count + 1, tail' = n,
           IF tail # NULL
             THEN next' = [[next EXCEPT ![n] = NULL] EXCEPT ![tail] = n] /\ head' = head
             ELSE next' = [next EXCEPT ![n] = NULL] /\ head' = n
    PROVE  /\ Shape(Append(s, n))'
           /\ Rest(Append(s, n), 1) = Rest(s, 1) \cup {n}
<1> DEFINE t == Append(s, n)
<1>0. Len(s) \in Nat OBVIOUS
<1>1. /\ Distinct(s) /\ Chain(s, head, next) /\ count = Len(s)
      /\ tail = IF Len(s) = 0 THEN NULL ELSE s[Len(s)]
  BY DEF Shape
<1>2. /\ t \in Seq(Nodes) /\ Len(t) = Len(s) + 1 /\ t[Len(s) + 1] = n
      /\ \A k \in 1 .. Len(s) : t[k] = s[k]
  BY Appending
<1> HIDE DEF t
<1>3. \A i \in 1 .. Len(s) : s[i] \in Nodes /\ s[i] # n /\ s[i] # NULL
  BY NodesAssumption DEF Rest
<1>4. \A i \in 1 .. Len(t) : i \in 1 .. Len(s) \/ i = Len(s) + 1 BY <1>0, <1>2
<1>5. Distinct(t)
  <2> SUFFICES ASSUME NEW a \in 1 .. Len(t), NEW b \in 1 .. Len(t), t[a] = t[b]
               PROVE  a = b
    BY DEF Distinct
  <2> QED BY <1>1, <1>2, <1>3, <1>4 DEF Distinct
<1>6. Rest(t, 1) = Rest(s, 1) \cup {n}
  <2>1. \A i \in 1 .. Len(s) : i \in 1 .. Len(t) BY <1>0, <1>2
  <2>2. Len(s) + 1 \in 1 .. Len(t) BY <1>0, <1>2
  <2> QED BY <1>2, <1>4, <2>1, <2>2 DEF Rest
<1>7. tail' = IF Len(t) = 0 THEN NULL ELSE t[Len(t)] BY <1>0, <1>2
<1>8. count' = Len(t) BY <1>1, <1>2
<1>9. CASE Len(s) = 0
  <2>1. tail = NULL BY <1>1, <1>9
  <2>2. head' = n /\ next' = [next EXCEPT ![n] = NULL] BY <2>1
  <2>3. Len(t) = 1 /\ t[1] = n BY <1>2, <1>9
  <2>4. After(t, 0) = n /\ After(t, 1) = NULL BY <2>3 DEF After
  <2>5. \A i \in 1 .. Len(t) : i = 1 BY <2>3
  <2>6. next'[n] = NULL BY <2>2
  <2>7. Chain(t, head', next') BY <2>2, <2>3, <2>4, <2>5, <2>6 DEF Chain
  <2> QED BY <1>5, <1>6, <1>7, <1>8, <2>7 DEF Shape, t
<1>10. CASE Len(s) # 0
  <2>1. Len(s) \in 1 .. Len(s) /\ 0 < Len(s) BY <1>0, <1>10
  <2>2. tail = s[Len(s)] /\ tail \in Nodes /\ tail # n /\ tail # NULL
    BY <1>1, <1>3, <1>10, <2>1
  <2>3. head' = head /\ next' = [[next EXCEPT ![n] = NULL] EXCEPT ![tail] = n]
    BY <2>2
  <2>4. /\ next'[n] = NULL /\ next'[tail] = n
        /\ \A m \in Nodes : m # n /\ m # tail => next'[m] = next[m]
    BY <2>2, <2>3
  <2>5. head' = After(t, 0)
    <3>1. 1 \in 1 .. Len(s) /\ 0 < Len(t) BY <1>0, <1>2, <1>10
    <3>2. head = s[1] BY <1>1, <2>1 DEF Chain, After
    <3> QED BY <1>2, <2>3, <3>1, <3>2 DEF After
  <2>6. ASSUME NEW i \in 1 .. Len(t) PROVE next'[t[i]] = After(t, i)
    <3>1. CASE i = Len(s) + 1
      <4>1. ~(i < Len(t)) BY <1>0, <1>2, <3>1
      <4> QED BY <1>2, <2>4, <3>1, <4>1 DEF After
    <3>2. CASE i = Len(s)
      <4>1. i < Len(t) /\ i + 1 = Len(s) + 1 BY <1>0, <1>2, <3>2
      <4>2. After(t, i) = n BY <1>2, <4>1 DEF After
      <4> QED BY <1>2, <2>1, <2>2, <2>4, <3>2, <4>2
    <3>3. CASE i \in 1 .. Len(s) /\ i # Len(s)
      <4>1. i < Len(s) /\ i < Len(t) /\ i + 1 \in 1 .. Len(s) BY <1>0, <1>2, <3>3
      <4>2. After(t, i) = s[i + 1] /\ After(s, i) = s[i + 1]
        BY <1>2, <4>1 DEF After
      <4>3. s[i] # tail BY <1>1, <2>1, <2>2, <3>3 DEF Distinct
      <4>4. next'[s[i]] = next[s[i]] BY <1>3, <2>4, <3>3, <4>3
      <4> QED BY <1>1, <1>2, <3>3, <4>2, <4>4 DEF Chain
    <3> QED BY <1>4, <3>1, <3>2, <3>3
  <2>7. Chain(t, head', next') BY <2>5, <2>6 DEF Chain
  <2> QED BY <1>5, <1>6, <1>7, <1>8, <2>7 DEF Shape, t
<1> QED BY <1>9, <1>10

-----------------------------------------------------------------------------
(* Every step keeps the invariant and changes the sequence as it may.      *)

\* What a step may do to the nodes of the list: none, one more at the end, one
\* less, or all of them gone at once.
Changes(s, t) == \/ t = s
                 \/ \E n \in Nodes \ Rest(s, 1) : t = Append(s, n)
                 \/ \E j \in 1 .. Len(s) : t = Without(s, j)

Effect == \/ ~live' \/ op' = "destroy" \/ Shape(<<>>)'
          \/ /\ live /\ op # "destroy"
             /\ \E s, t \in Seq(Nodes) : Shape(s) /\ Shape(t)' /\ Changes(s, t)

LEMMA InitInv == Init => IInv
<1> SUFFICES ASSUME Init PROVE IInv OBVIOUS
<1>1. alloc \in SUBSET Nodes /\ next \in [Nodes -> Pointers] BY DEF Init, Pointers
<1>2. Types BY <1>1 DEF Init, Types, Pointers
<1> QED BY <1>2 DEF IInv, Init

\* A call that leaves the list alone, and comes to or stays at a place of it.
LEMMA Keeps ==
    ASSUME IInv, live, UNCHANGED <<listVars, heapVars>>, op # "destroy",
           NEW s \in Seq(Nodes), Shape(s), NEW j \in 1 .. Len(s) + 1, Place(s, j),
           NEW k \in 1 .. Len(s) + 1,
           op' \in {"idle", "remove", "find", "foreach", "remove_if", "destroy"},
           op' = "destroy" => k = 1,
           op' = "idle" => current' = NULL,
           op' # "idle" => current' = After(s, k - 1),
           op' \in {"remove", "find", "foreach"} => k = 1,
           op' # "remove_if" \/ k = 1 => previous' = NULL,
           op' = "remove_if" /\ k > 1 => previous' = s[k - 1]
    PROVE  IInv' /\ Effect
<1> USE DEF listVars, heapVars
<1>0. Len(s) \in Nat /\ \A i \in 1 .. Len(s) : s[i] \in Nodes OBVIOUS
<1>1. alloc = Rest(s, 1) BY DEF Place
<1>2. Place(s, k)' BY <1>1 DEF Place
<1>3. Shape(s)' BY DEF Shape
<1>4. previous' \in Pointers
  <2>1. CASE k = 1 \/ op' # "remove_if" BY <2>1 DEF Pointers
  <2>2. CASE k # 1 /\ op' = "remove_if"
    <3>1. k > 1 /\ k - 1 \in 1 .. Len(s) BY <1>0, <2>2
    <3> QED BY <1>0, <2>2, <3>1 DEF Pointers
  <2> QED BY <2>1, <2>2
<1>5. current' \in Pointers
  <2>1. CASE k - 1 < Len(s)
    <3>1. (k - 1) + 1 \in 1 .. Len(s) BY <1>0, <2>1
    <3> QED BY <1>0, <3>1 DEF After, Pointers
  <2>2. CASE ~(k - 1 < Len(s)) BY <2>2 DEF After, Pointers
  <2> QED BY <2>1, <2>2
<1>6. Types' BY <1>4, <1>5 DEF IInv, Types
<1>7. live' BY DEF Types
<1>8. Effect BY <1>3 DEF Effect, Changes
<1> QED BY <1>2, <1>3, <1>6, <1>7, <1>8 DEF IInv

\* The list and the place in it of the call under way.
LEMMA Placed ==
    ASSUME IInv, live
    PROVE  \E s \in Seq(Nodes) : Shape(s) /\ \E j \in 1 .. Len(s) + 1 : Place(s, j)
BY DEF IInv

LEMMA CreateInv == IInv /\ list_create => IInv' /\ Effect
<1> SUFFICES ASSUME IInv, list_create PROVE IInv' /\ Effect OBVIOUS
<1> USE DEF list_create, heapVars, callVars
<1>0. <<>> \in Seq(Nodes) /\ Len(<<>>) = 0 OBVIOUS
<1>1. \A i \in 1 .. 0 : FALSE OBVIOUS
<1>2. Distinct(<<>>) /\ Chain(<<>>, NULL, next) /\ After(<<>>, 0) = NULL
  BY <1>0, <1>1 DEF Distinct, Chain, After
<1>3. Shape(<<>>)' BY <1>0, <1>2 DEF Shape
<1>4. Rest(<<>>, 1) = {} BY <1>0, <1>1 DEF Rest
<1>5. alloc = {} /\ previous = NULL /\ current = NULL /\ op = "idle" BY DEF IInv
<1>6. 1 \in 1 .. Len(<<>>) + 1 BY <1>0
<1>7. Place(<<>>, 1)' BY <1>4, <1>5, <1>6 DEF Place
<1>8. Types' BY <1>5 DEF IInv, Types, Pointers
<1>9. \E t \in Seq(Nodes) : Shape(t)' /\ \E j \in 1 .. Len(t) + 1 : Place(t, j)'
  BY <1>0, <1>3, <1>6, <1>7
<1> QED BY <1>3, <1>8, <1>9 DEF IInv, Effect

LEMMA AddInv == IInv /\ list_add => IInv' /\ Effect
<1> SUFFICES ASSUME IInv, list_add PROVE IInv' /\ Effect OBVIOUS
<1> USE DEF Idle
<1>0. live /\ op = "idle" BY DEF list_add
<1>1. PICK s \in Seq(Nodes) : Shape(s) /\ \E j \in 1 .. Len(s) + 1 : Place(s, j)
  BY <1>0, Placed
<1>2. alloc = Rest(s, 1) /\ previous = NULL /\ current = NULL BY <1>0, <1>1 DEF Place
<1>3. PICK n \in Nodes \ alloc :
         /\ alloc' = alloc \cup {n} /\ tail' = n
         /\ IF tail # NULL
              THEN next' = [[next EXCEPT ![n] = NULL] EXCEPT ![tail] = n] /\ head' = head
              ELSE next' = [next EXCEPT ![n] = NULL] /\ head' = n
  BY DEF list_add
<1>4. next \in [Nodes -> Pointers] /\ count' = count + 1 BY DEF IInv, Types, list_add
<1>5. n \notin Rest(s, 1) BY <1>2, <1>3
<1>6. Shape(Append(s, n))' /\ Rest(Append(s, n), 1) = Rest(s, 1) \cup {n}
  BY <1>1, <1>3, <1>4, <1>5, Added
<1>7. Append(s, n) \in Seq(Nodes) /\ 1 \in 1 .. Len(Append(s, n)) + 1
  BY <1>3, Appending
<1>8. UNCHANGED <<live, op, previous, current>> BY DEF list_add, callVars
<1>9. Place(Append(s, n), 1)'
  BY <1>0, <1>2, <1>3, <1>6, <1>7, <1>8 DEF Place
<1>10. Types'
  <2>1. next' \in [Nodes -> Pointers] BY <1>3, <1>4 DEF Pointers
  <2>2. head' \in Pointers /\ tail' \in Pointers /\ alloc' \in SUBSET Nodes
    BY <1>3 DEF Pointers, IInv, Types
  <2> QED BY <1>4, <1>8, <2>1, <2>2 DEF IInv, Types
<1>11. Effect
  <2>1. Changes(s, Append(s, n)) BY <1>3, <1>5 DEF Changes
  <2> QED BY <1>0, <1>1, <1>6, <1>7, <2>1 DEF Effect
<1>12. \E t \in Seq(Nodes) : Shape(t)' /\ \E j \in 1 .. Len(t) + 1 : Place(t, j)'
  BY <1>6, <1>7, <1>9
<1> QED BY <1>0, <1>8, <1>10, <1>11, <1>12 DEF IInv

\* A call starts at the head.
LEMMA StartInv ==
    ASSUME IInv, Idle, NEW call \in {"remove", "find", "foreach", "remove_if", "destroy"},
           NEW h, Walks(call, h)
    PROVE  IInv' /\ Effect
<1> USE DEF Idle, Walks
<1>1. PICK s \in Seq(Nodes) : Shape(s) /\ \E j \in 1 .. Len(s) + 1 : Place(s, j)
  BY Placed
<1>2. PICK j \in 1 .. Len(s) + 1 : Place(s, j) BY <1>1
<1>3. 1 \in 1 .. Len(s) + 1 BY <1>1
<1>4. head = After(s, 1 - 1) BY <1>1 DEF Shape, Chain
<1> QED BY <1>1, <1>2, <1>3, <1>4, Keeps

\* A call returns without having changed anything.
LEMMA ReturnInv ==
    ASSUME IInv, op \notin {"idle", "destroy"}, Returns, UNCHANGED <<listVars, heapVars>>
    PROVE  IInv' /\ Effect
<1> USE DEF Returns
<1>0. live BY DEF IInv
<1>1. PICK s \in Seq(Nodes) : Shape(s) /\ \E j \in 1 .. Len(s) + 1 : Place(s, j)
  BY <1>0, Placed
<1>2. PICK j \in 1 .. Len(s) + 1 : Place(s, j) BY <1>1
<1>3. 1 \in 1 .. Len(s) + 1 BY <1>1
<1> QED BY <1>0, <1>1, <1>2, <1>3, Keeps

LEMMA StutterInv == IInv /\ UNCHANGED vars => IInv' /\ Effect
<1> SUFFICES ASSUME IInv, UNCHANGED vars PROVE IInv' /\ Effect OBVIOUS
<1> USE DEF vars, listVars, heapVars, callVars
<1>1. Types' BY DEF IInv, Types
<1>2. \A s : Shape(s)' <=> Shape(s) BY DEF Shape
<1>3. \A s, j : Place(s, j)' <=> Place(s, j) BY DEF Place
<1>4. IInv' BY <1>1, <1>2, <1>3 DEF IInv
<1>5. live /\ op # "destroy" => Effect BY <1>2, Placed DEF Effect, Changes
<1> QED BY <1>4, <1>5 DEF Effect

\* A node is unlinked and freed; the call goes on at the same place, where its
\* successor now is, or returns.
LEMMA FreedInv ==
    ASSUME IInv, live, op \in {"remove", "remove_if"}, UNCHANGED live,
           NEW s \in Seq(Nodes), Shape(s), NEW j \in 1 .. Len(s), Place(s, j),
           alloc' = alloc \ {s[j]}, count' = count - 1,
           head' = IF j = 1 THEN After(s, 1) ELSE head,
           next' = IF j = 1 THEN next ELSE [next EXCEPT ![s[j - 1]] = After(s, j)],
           \/ Len(s) = 1 /\ tail' = NULL
           \/ Len(s) > 1 /\ tail' = tail /\ (j < Len(s)),
           \/ op' = "idle" /\ previous' = NULL /\ current' = NULL
           \/ op' = "remove_if" /\ op = "remove_if" /\ current' = After(s, j)
              /\ UNCHANGED previous
    PROVE  IInv' /\ Effect
<1> DEFINE t == Without(s, j)
<1>0. Len(s) \in Nat /\ j \in Nat /\ \A i \in 1 .. Len(s) : s[i] \in Nodes OBVIOUS
<1>1. /\ t \in Seq(Nodes) /\ Len(t) = Len(s) - 1 /\ Rest(t, 1) = Rest(s, 1) \ {s[j]}
      /\ \A i \in 1 .. Len(s) - 1 : t[i] = IF i < j THEN s[i] ELSE s[i + 1]
  BY WithoutIs DEF Shape
<1>t. next \in [Nodes -> Pointers] BY DEF IInv, Types
<1>2. Shape(t)' BY <1>t, Unlinked
<1>e. Changes(s, t) BY DEF Changes
<1> HIDE DEF t
<1>3. Effect BY <1>1, <1>2, <1>e DEF Effect
<1>4. alloc' = Rest(t, 1) BY <1>1 DEF Place
<1>5. After(t, j - 1) = After(s, j)
  <2>1. CASE j < Len(s)
    <3>1. j \in 1 .. Len(s) - 1 /\ j - 1 < Len(t) /\ (j - 1) + 1 = j BY <1>0, <1>1, <2>1
    <3>2. t[j] = s[j + 1] BY <1>1, <3>1
    <3> QED BY <2>1, <3>1, <3>2 DEF After
  <2>2. CASE ~(j < Len(s))
    <3>1. ~(j - 1 < Len(t)) BY <1>0, <1>1, <2>2
    <3> QED BY <2>2, <3>1 DEF After
  <2> QED BY <2>1, <2>2
<1>6. j \in 1 .. Len(t) + 1 /\ 1 \in 1 .. Len(t) + 1 BY <1>0, <1>1
<1>7. \E k \in 1 .. Len(t) + 1 : Place(t, k)'
  <2>1. CASE op' = "idle" /\ previous' = NULL /\ current' = NULL
    <3>1. Place(t, 1)' BY <1>4, <1>6, <2>1 DEF Place
    <3> QED BY <1>6, <3>1
  <2>2. CASE op' = "remove_if" /\ op = "remove_if" /\ current' = After(s, j)
              /\ UNCHANGED previous
    <3>1. j = 1 => previous' = NULL BY <2>2 DEF Place
    <3>2. ASSUME j > 1 PROVE previous' = t[j - 1]
      <4>1. j - 1 \in 1 .. Len(s) - 1 /\ j - 1 < j BY <1>0, <3>2
      <4>2. t[j - 1] = s[j - 1] BY <1>1, <4>1
      <4> QED BY <2>2, <3>2, <4>2 DEF Place
    <3>3. Place(t, j)' BY <1>4, <1>5, <1>6, <2>2, <3>1, <3>2 DEF Place
    <3> QED BY <1>6, <3>3
  <2> QED BY <2>1, <2>2
<1>8. \A i \in 0 .. Len(s) : After(s, i) \in Pointers
  <2> TAKE i \in 0 .. Len(s)
  <2>1. CASE i < Len(s)
    <3>1. i + 1 \in 1 .. Len(s) BY <1>0, <2>1
    <3> QED BY <1>0, <2>1, <3>1 DEF After, Pointers
  <2>2. CASE ~(i < Len(s)) BY <2>2 DEF After, Pointers
  <2> QED BY <2>1, <2>2
<1>9. j \in 0 .. Len(s) /\ 1 \in 0 .. Len(s) BY <1>0
<1>10. After(s, j) \in Pointers /\ After(s, 1) \in Pointers BY <1>8, <1>9
<1>11. next' \in [Nodes -> Pointers] BY <1>t, <1>10
<1>12. /\ head' \in Pointers /\ tail' \in Pointers /\ previous' \in Pointers
       /\ current' \in Pointers
  BY <1>10 DEF IInv, Types, Pointers
<1>13. count' \in Nat BY <1>0 DEF Shape
<1>14. alloc' \in SUBSET Nodes BY DEF IInv, Types
<1>15. Types' BY <1>11, <1>12, <1>13, <1>14 DEF IInv, Types
<1>16. \E u \in Seq(Nodes) : Shape(u)' /\ \E k \in 1 .. Len(u) + 1 : Place(u, k)'
  BY <1>1, <1>2, <1>7
<1> QED BY <1>3, <1>15, <1>16 DEF IInv

\* A pointer of the chain that is not NULL is a node of it.
LEMMA Inside ==
    ASSUME NEW s \in Seq(Nodes), NEW j \in 1 .. Len(s) + 1, After(s, j - 1) # NULL
    PROVE  j \in 1 .. Len(s) /\ After(s, j - 1) = s[j]
<1>0. Len(s) \in Nat OBVIOUS
<1>1. j - 1 < Len(s) BY DEF After
<1>2. (j - 1) + 1 = j /\ j \in 1 .. Len(s) BY <1>0, <1>1
<1> QED BY <1>1, <1>2 DEF After

LEMMA RemoveRoundInv == IInv /\ RemoveRound => IInv' /\ Effect
<1> SUFFICES ASSUME IInv, RemoveRound PROVE IInv' /\ Effect OBVIOUS
<1>1. CASE UNCHANGED vars BY <1>1, StutterInv
<1>2. CASE ~UNCHANGED vars
  <2>0. live /\ op = "remove" /\ current # NULL BY DEF IInv, RemoveRound
  <2>1. PICK s \in Seq(Nodes) : Shape(s) /\ \E j \in 1 .. Len(s) + 1 : Place(s, j)
    BY <2>0, Placed
  <2>2. PICK j \in 1 .. Len(s) + 1 : Place(s, j) BY <2>1
  <2>3. j = 1 /\ previous = NULL /\ current = After(s, j - 1) BY <2>0, <2>2 DEF Place
  <2>4. j \in 1 .. Len(s) /\ current = s[j] BY <2>0, <2>3, Inside
  <2>5. /\ head' = next[current] /\ tail' = (IF tail = current THEN NULL ELSE tail)
        /\ next' = next /\ alloc' = alloc \ {current} /\ count' = count - 1
        /\ UNCHANGED live /\ op' = "idle" /\ previous' = NULL /\ current' = NULL
    BY <1>2, <2>3 DEF RemoveRound, Returns
  <2>6. next[current] = After(s, 1) BY <2>1, <2>3, <2>4 DEF Shape, Chain
  <2>7. \/ Len(s) = 1 /\ tail' = NULL
        \/ Len(s) > 1 /\ tail' = tail /\ (j < Len(s))
    <3>0. Len(s) \in Nat /\ Len(s) >= 1 /\ Len(s) # 0 BY <2>4
    <3>1. tail = s[Len(s)] BY <2>1, <3>0 DEF Shape
    <3>2. CASE Len(s) = 1 BY <2>3, <2>4, <2>5, <3>1, <3>2
    <3>3. CASE Len(s) # 1
      <4>0. ASSUME NEW n \in Nat, n >= 1, n # 1
            PROVE  n > 1 /\ 1 \in 1 .. n /\ n \in 1 .. n
        BY <4>0
      <4>1. Len(s) > 1 /\ 1 \in 1 .. Len(s) /\ Len(s) \in 1 .. Len(s) /\ j < Len(s)
        <5>1. Len(s) > 1 /\ 1 \in 1 .. Len(s) /\ Len(s) \in 1 .. Len(s)
          BY <3>0, <3>3, <4>0, Zenon
        <5>2. 1 < Len(s) BY <3>0, <5>1
        <5> QED BY <2>3, <5>1, <5>2, Zenon
      <4>2. tail # current BY <2>1, <2>3, <2>4, <3>1, <3>3, <4>1 DEF Shape, Distinct
      <4> QED BY <2>5, <4>1, <4>2
    <3> QED BY <3>2, <3>3
  <2> QED BY <2>0, <2>1, <2>2, <2>3, <2>4, <2>5, <2>6, <2>7, FreedInv
<1> QED BY <1>1, <1>2

LEMMA RemoveIfRoundInv ==
    ASSUME IInv, RemoveIfRound, ~MatchLast PROVE IInv' /\ Effect
<1>0. live /\ op = "remove_if" /\ current # NULL BY DEF IInv, RemoveIfRound
<1>1. PICK s \in Seq(Nodes) : Shape(s) /\ \E j \in 1 .. Len(s) + 1 : Place(s, j)
  BY <1>0, Placed
<1>2. PICK j \in 1 .. Len(s) + 1 : Place(s, j) BY <1>1
<1>3. current = After(s, j - 1) BY <1>0, <1>2 DEF Place
<1>4. j \in 1 .. Len(s) /\ current = s[j] BY <1>0, <1>3, Inside
<1>5. next[current] = After(s, j) BY <1>1, <1>4 DEF Shape, Chain
<1>6. Len(s) \in Nat /\ j \in Nat /\ j >= 1 BY <1>4
<1>7. current' = After(s, j) /\ UNCHANGED <<live, tail, op>> BY <1>5 DEF RemoveIfRound
<1>8. /\ j = 1 => previous = NULL
      /\ j > 1 => previous = s[j - 1] /\ previous # NULL
  <2>1. j > 1 => j - 1 \in 1 .. Len(s) BY <1>4, <1>6
  <2> QED BY <1>0, <1>2, <2>1, NodesAssumption DEF Place
<1>9. CASE /\ next[current] # NULL
           /\ IF previous = NULL
                THEN head' = next[head] /\ next' = next
                ELSE next' = [next EXCEPT ![previous] = next[current]] /\ head' = head
           /\ alloc' = alloc \ {current} /\ count' = count - 1
           /\ UNCHANGED previous
  <2>1. j < Len(s) BY <1>5, <1>9 DEF After
  <2>2. Len(s) > 1 BY <1>6, <2>1
  <2>3. j = 1 => head = current BY <1>1, <1>3 DEF Shape, Chain
  <2>4. head' = IF j = 1 THEN After(s, 1) ELSE head BY <1>5, <1>6, <1>8, <1>9, <2>3
  <2>5. next' = IF j = 1 THEN next ELSE [next EXCEPT ![s[j - 1]] = After(s, j)]
    BY <1>5, <1>6, <1>8, <1>9
  <2>6. op' = "remove_if" /\ alloc' = alloc \ {s[j]} /\ tail' = tail
    BY <1>0, <1>4, <1>7, <1>9
  <2> QED BY <1>0, <1>1, <1>2, <1>4, <1>7, <1>9, <2>1, <2>2, <2>4, <2>5, <2>6, FreedInv
<1>10. CASE previous' = current /\ UNCHANGED <<head, next, alloc, count>>
  <2>1. j + 1 \in 1 .. Len(s) + 1 /\ (j + 1) - 1 = j /\ j + 1 # 1 BY <1>4, <1>6
  <2>2. UNCHANGED <<listVars, heapVars>> BY <1>7, <1>10 DEF listVars, heapVars
  <2>3. op # "destroy" /\ op' = "remove_if" BY <1>0, <1>7
  <2>4. current' = After(s, (j + 1) - 1) /\ previous' = s[(j + 1) - 1]
    BY <1>4, <1>7, <1>10, <2>1
  <2> QED BY <1>0, <1>1, <1>2, <2>1, <2>2, <2>3, <2>4, Keeps
<1> QED BY <1>9, <1>10 DEF RemoveIfRound

LEMMA DestroyRoundInv == IInv /\ DestroyRound => IInv' /\ Effect
<1> SUFFICES ASSUME IInv, DestroyRound PROVE IInv' /\ Effect OBVIOUS
<1>0. live /\ op = "destroy" /\ current # NULL BY DEF IInv, DestroyRound
<1>1. PICK s \in Seq(Nodes) : Shape(s) /\ \E j \in 1 .. Len(s) + 1 : Place(s, j)
  BY <1>0, Placed
<1>2. PICK j \in 1 .. Len(s) + 1 : Place(s, j) BY <1>1
<1>3. j \in 1 .. Len(s) /\ current = s[j] BY <1>0, <1>2, Inside DEF Place
<1>4. next[current] = After(s, j) BY <1>1, <1>3 DEF Shape, Chain
<1>5. Len(s) \in Nat /\ j \in Nat BY <1>3
<1>6. /\ current' = After(s, j) /\ alloc' = alloc \ {s[j]}
      /\ UNCHANGED <<listVars, next, op, previous>>
  BY <1>3, <1>4 DEF DestroyRound
<1>7. Rest(s, j) \ {s[j]} = Rest(s, j + 1)
  <2>1. \A i \in j .. Len(s) : i \in 1 .. Len(s) /\ (i = j \/ i \in j + 1 .. Len(s))
    BY <1>3, <1>5
  <2>2. \A i \in j + 1 .. Len(s) : i \in j .. Len(s) /\ i # j BY <1>5
  <2>3. \A i \in j + 1 .. Len(s) : s[i] # s[j]
    BY <1>1, <1>3, <2>1, <2>2 DEF Shape, Distinct
  <2> QED BY <2>1, <2>2, <2>3 DEF Rest
<1>8. j + 1 \in 1 .. Len(s) + 1 /\ (j + 1) - 1 = j BY <1>3, <1>5
<1>9. Place(s, j + 1)' BY <1>0, <1>2, <1>6, <1>7, <1>8 DEF Place
<1>10. Shape(s)' BY <1>1, <1>6 DEF Shape, listVars
<1>11. next[current] \in Pointers BY <1>3 DEF IInv, Types
<1>12. Types' BY <1>4, <1>6, <1>11 DEF IInv, Types, listVars
<1>13. op' = "destroy" /\ live' BY <1>0, <1>6 DEF listVars
<1> QED BY <1>8, <1>9, <1>10, <1>12, <1>13 DEF IInv, Effect

LEMMA DestroyReturnsInv == IInv /\ DestroyReturns => IInv' /\ Effect
<1> SUFFICES ASSUME IInv, DestroyReturns PROVE IInv' /\ Effect OBVIOUS
<1>0. live /\ op = "destroy" /\ current = NULL BY DEF IInv, DestroyReturns
<1>1. PICK s \in Seq(Nodes) : Shape(s) /\ \E j \in 1 .. Len(s) + 1 : Place(s, j)
  BY <1>0, Placed
<1>2. PICK j \in 1 .. Len(s) + 1 : Place(s, j) BY <1>1
<1>3. After(s, j - 1) = NULL /\ alloc = Rest(s, j) BY <1>0, <1>2 DEF Place
<1>4. Len(s) \in Nat /\ j \in Nat /\ j >= 1 OBVIOUS
<1>5. ~(j <= Len(s))
  <2> SUFFICES ASSUME j <= Len(s) PROVE FALSE OBVIOUS
  <2>1. j - 1 < Len(s) /\ (j - 1) + 1 = j /\ j \in 1 .. Len(s) BY <1>4
  <2>2. s[j] = NULL BY <1>3, <2>1 DEF After
  <2> QED BY <2>1, <2>2, NodesAssumption
<1>6. \A i \in j .. Len(s) : FALSE BY <1>4, <1>5
<1>7. alloc = {} BY <1>3, <1>6 DEF Rest
<1>8. /\ live' = FALSE /\ op' = "idle" /\ previous' = NULL /\ current' = NULL
      /\ UNCHANGED <<count, head, tail, next, alloc>>
  BY DEF DestroyReturns, Returns, heapVars
<1>9. Types' BY <1>8 DEF IInv, Types, Pointers
<1> QED BY <1>7, <1>8, <1>9 DEF IInv, Effect

LEMMA StepInv ==
    ASSUME IInv, [Next]_vars, ~MatchLast PROVE IInv' /\ Effect
<1>1. CASE UNCHANGED vars BY <1>1, StutterInv
<1>2. CASE list_create BY <1>2, CreateInv
<1>3. CASE list_add BY <1>3, AddInv
<1>4. CASE list_remove \/ list_find \/ list_foreach \/ list_remove_if \/ list_destroy
  BY <1>4, StartInv DEF list_remove, list_find, list_foreach, list_remove_if,
                        list_destroy
<1>5. CASE RemoveRound BY <1>5, RemoveRoundInv
<1>6. CASE RemoveReturns \/ FindReturns \/ ForeachReturns \/ RemoveIfReturns
  BY <1>6, ReturnInv DEF RemoveReturns, FindReturns, ForeachReturns, RemoveIfReturns
<1>7. CASE FindRound \/ ForeachRound
  BY <1>7, ReturnInv, StutterInv DEF FindRound, ForeachRound
<1>8. CASE RemoveIfRound BY <1>8, RemoveIfRoundInv
<1>9. CASE DestroyRound BY <1>9, DestroyRoundInv
<1>10. CASE DestroyReturns BY <1>10, DestroyReturnsInv
<1> QED
  BY <1>1, <1>2, <1>3, <1>4, <1>5, <1>6, <1>7, <1>8, <1>9, <1>10 DEF Next, Call, Round

\* While ~MatchLast, the nodes of an existing list form a sequence that count,
\* head, tail and every next agree with, and each call of list.c is at a place
\* of it.
THEOREM Invariance == ASSUME ~MatchLast PROVE Spec => []IInv
<1>1. Init => IInv BY InitInv
<1>2. IInv /\ [Next]_vars => IInv' BY StepInv
<1> QED BY <1>1, <1>2, PTL DEF Spec

\* What the invariant leaves open: the count of a list that exists no more, and
\* the locals that no other state depends on.
Locals ==
    /\ count \in 0 .. Cardinality(Nodes)
    /\ handle \in Pointers /\ go \in BOOLEAN

LEMMA LocalsInv == ASSUME IInv, IInv', Locals, [Next]_vars PROVE Locals'
<1>1. handle' \in Pointers /\ go' \in BOOLEAN
  BY DEF Locals, Pointers, Next, Call, Round, vars, listVars, heapVars, callVars,
         list_create, list_add, list_remove, list_find, list_foreach, list_remove_if,
         list_destroy, RemoveRound, RemoveReturns, FindRound, FindReturns, ForeachRound,
         ForeachReturns, RemoveIfRound, RemoveIfReturns, DestroyRound, DestroyReturns,
         Walks, Returns
<1>2. CASE live'
  <2>1. PICK s \in Seq(Nodes) : Distinct(s) /\ count' = Len(s)
    BY <1>2 DEF IInv, Shape
  <2>2. Len(s) \in Nat /\ Len(s) <= Cardinality(Nodes) /\ Cardinality(Nodes) \in Nat
    BY <2>1, Fits
  <2> QED BY <1>1, <2>1, <2>2 DEF Locals
<1>3. CASE ~live'
  <2>1. ~live => op = "idle" BY DEF IInv
  <2>2. count' = count
    BY <1>3, <2>1 DEF Next, Call, Round, vars, listVars, heapVars, callVars, Idle,
         list_create, list_add, list_remove, list_find, list_foreach, list_remove_if,
         list_destroy, RemoveRound, RemoveReturns, FindRound, FindReturns, ForeachRound,
         ForeachReturns, RemoveIfRound, RemoveIfReturns, DestroyRound, DestroyReturns,
         Walks, Returns
  <2> QED BY <1>1, <2>2 DEF Locals
<1> QED BY <1>2, <1>3

\* Every variable of the list has its type: head, tail, the links and the locals
\* of each call stay addresses or NULL, and count is never negative nor more
\* than there are addresses, whatever is removed.
THEOREM TypeCorrect == ASSUME ~MatchLast PROVE Spec => []TypeOK
<1>1. Init => Locals
  <2>1. Cardinality(Nodes) \in Nat BY NodesAssumption, FS_CardinalityType
  <2> QED BY <2>1 DEF Init, Locals, Pointers
<1>2. IInv /\ IInv' /\ Locals /\ [Next]_vars => Locals' BY LocalsInv
<1>3. IInv /\ Locals => TypeOK BY DEF IInv, Types, Locals, TypeOK
<1> QED BY <1>1, <1>2, <1>3, Invariance, PTL DEF Spec

-----------------------------------------------------------------------------
(* What the callers see.                                                   *)

LEMMA WellFormedInv == IInv => WellFormed
<1> SUFFICES ASSUME IInv PROVE WellFormed OBVIOUS
<1>1. ~live => alloc = {} BY DEF IInv
<1>2. ASSUME Idle
      PROVE  /\ \A k \in 0 .. count : Walk[k] = NULL <=> k = count
             /\ tail = (IF count = 0 THEN NULL ELSE Walk[count - 1])
             /\ alloc = {Walk[k] : k \in 0 .. (count - 1)}
  <2>1. PICK s \in Seq(Nodes) : Shape(s) /\ \E j \in 1 .. Len(s) + 1 : Place(s, j)
    BY <1>2 DEF Idle, IInv
  <2>2. PICK j \in 1 .. Len(s) + 1 : Place(s, j) BY <2>1
  <2>3. alloc = Rest(s, 1) BY <1>2, <2>2 DEF Idle, Place
  <2>4. count = Len(s) /\ Len(s) \in Nat BY <2>1 DEF Shape
  <2>5. \A k \in 0 .. Len(s) : Walk[k] = After(s, k)
    BY <2>1, WalkIs, Walked DEF Shape
  <2>6. \A k \in 0 .. Len(s) - 1 :
           k \in 0 .. Len(s) /\ k # Len(s) /\ k + 1 \in 1 .. Len(s) /\ k < Len(s)
    BY <2>4
  <2>7. \A k \in 0 .. Len(s) - 1 : Walk[k] = s[k + 1] /\ Walk[k] # NULL
    <3> TAKE k \in 0 .. Len(s) - 1
    <3>1. Walk[k] = s[k + 1] BY <2>5, <2>6 DEF After
    <3>2. s[k + 1] \in Nodes BY <2>6
    <3> QED BY <3>1, <3>2, NodesAssumption
  <2>8. Walk[Len(s)] = NULL
    <3>1. Len(s) \in 0 .. Len(s) /\ ~(Len(s) < Len(s)) BY <2>4
    <3> QED BY <2>5, <3>1 DEF After
  <2>9. \A k \in 0 .. Len(s) : k = Len(s) \/ k \in 0 .. Len(s) - 1 BY <2>4
  <2>10. \A k \in 0 .. count : Walk[k] = NULL <=> k = count
    BY <2>4, <2>7, <2>8, <2>9, Zenon
  <2>11. tail = (IF count = 0 THEN NULL ELSE Walk[count - 1])
    <3>1. Len(s) # 0 => Len(s) - 1 \in 0 .. Len(s) - 1 /\ (Len(s) - 1) + 1 = Len(s)
      BY <2>4
    <3>2. Len(s) # 0 => Walk[Len(s) - 1] = s[Len(s)] BY <2>7, <3>1
    <3>3. tail = IF Len(s) = 0 THEN NULL ELSE s[Len(s)] BY <2>1 DEF Shape
    <3> QED BY <2>4, <3>2, <3>3
  <2>12. alloc = {Walk[k] : k \in 0 .. (count - 1)}
    <3>1. \A i \in 1 .. Len(s) : i - 1 \in 0 .. Len(s) - 1 /\ (i - 1) + 1 = i BY <2>4
    <3>2. ASSUME NEW n \in Rest(s, 1) PROVE \E k \in 0 .. Len(s) - 1 : n = Walk[k]
      <4>1. PICK i \in 1 .. Len(s) : n = s[i] BY <3>2 DEF Rest
      <4>2. n = Walk[i - 1] BY <2>7, <3>1, <4>1
      <4> QED BY <3>1, <4>2
    <3>3. ASSUME NEW k \in 0 .. Len(s) - 1 PROVE Walk[k] \in Rest(s, 1)
      BY <2>6, <2>7 DEF Rest
    <3>4. Rest(s, 1) = {Walk[k] : k \in 0 .. Len(s) - 1} BY <3>2, <3>3
    <3> QED BY <2>3, <2>4, <3>4
  <2> QED BY <2>10, <2>11, <2>12
<1> QED BY <1>1, <1>2 DEF WellFormed

\* Between calls, walking list_get_next_node from list_get_head_node meets
\* `count' distinct nodes, the last of them is the tail, and no other node is
\* allocated; list_destroy has freed every node.
THEOREM WellFormedAlways == ASSUME ~MatchLast PROVE Spec => []WellFormed
BY Invariance, WellFormedInv, PTL

LEMMA NoDanglingInv == IInv => NoDanglingPointer
<1> SUFFICES ASSUME IInv, live, op # "destroy"
             PROVE  /\ {head, tail, previous, current} \subseteq alloc \cup {NULL}
                    /\ \A n \in alloc : next[n] \in alloc \cup {NULL}
  BY DEF NoDanglingPointer
<1>1. PICK s \in Seq(Nodes) : Shape(s) /\ \E j \in 1 .. Len(s) + 1 : Place(s, j)
  BY DEF IInv
<1>2. PICK j \in 1 .. Len(s) + 1 : Place(s, j) BY <1>1
<1>3. alloc = Rest(s, 1) /\ Len(s) \in Nat BY <1>2 DEF Place
<1>4. \A i \in 1 .. Len(s) : s[i] \in alloc BY <1>3 DEF Rest
<1>5. \A i \in 0 .. Len(s) : After(s, i) \in alloc \cup {NULL}
  <2> TAKE i \in 0 .. Len(s)
  <2>1. i < Len(s) => i + 1 \in 1 .. Len(s) BY <1>3
  <2> QED BY <1>4, <2>1 DEF After
<1>6. head \in alloc \cup {NULL}
  <2>1. 0 \in 0 .. Len(s) BY <1>3
  <2> QED BY <1>1, <1>5, <2>1 DEF Shape, Chain
<1>7. tail \in alloc \cup {NULL}
  <2>1. Len(s) # 0 => Len(s) \in 1 .. Len(s) BY <1>3
  <2> QED BY <1>1, <1>4, <2>1 DEF Shape
<1>8. current \in alloc \cup {NULL}
  <2>1. j - 1 \in 0 .. Len(s) BY <1>3
  <2> QED BY <1>2, <1>5, <2>1 DEF Place
<1>9. previous \in alloc \cup {NULL}
  <2>0. j \in Nat /\ j >= 1 /\ j <= Len(s) + 1 BY <1>3
  <2>1. j = 1 \/ (j > 1 /\ j - 1 \in 1 .. Len(s)) BY <1>3, <2>0
  <2> QED BY <1>2, <1>4, <2>1 DEF Place
<1>10. ASSUME NEW n \in alloc PROVE next[n] \in alloc \cup {NULL}
  <2>1. PICK i \in 1 .. Len(s) : n = s[i] BY <1>3 DEF Rest
  <2>2. i \in 0 .. Len(s) BY <1>3
  <2> QED BY <1>1, <1>5, <2>1, <2>2 DEF Shape, Chain
<1> QED BY <1>6, <1>7, <1>8, <1>9, <1>10

\* In every round of every call but list_destroy, head, tail, the locals of the
\* call and the next field of each node in use lead to nodes in use.
THEOREM NoDangling == ASSUME ~MatchLast PROVE Spec => []NoDanglingPointer
BY Invariance, NoDanglingInv, PTL

-----------------------------------------------------------------------------
(* The list implements NodeSequence.                                       *)

\* list_get_next_node from the head reads the sequence of the list, before a
\* step and after it.
LEMMA Reads ==
    ASSUME NEW s \in Seq(Nodes), NEW h, NEW nx, Distinct(s), Chain(s, h, nx)
    PROVE  [k \in 1 .. Len(s) |-> WalkOf(h, nx)[k - 1]] = s
<1> DEFINE v == [k \in 1 .. Len(s) |-> WalkOf(h, nx)[k - 1]]
<1>1. Len(s) \in Nat OBVIOUS
<1>2. \A k \in 1 .. Len(s) : k - 1 \in 0 .. Len(s) /\ k - 1 < Len(s) /\ (k - 1) + 1 = k
  BY <1>1
<1>3. \A k \in 1 .. Len(s) : WalkOf(h, nx)[k - 1] = After(s, k - 1) BY <1>2, Walked
<1>4. \A k \in 1 .. Len(s) : v[k] = s[k] BY <1>2, <1>3 DEF After
<1>5. v = [k \in 1 .. Len(s) |-> v[k]] OBVIOUS
<1>6. s = [k \in 1 .. Len(s) |-> s[k]] OBVIOUS
<1> HIDE DEF v
<1>7. v = s BY <1>4, <1>5, <1>6
<1> QED BY <1>7 DEF v

LEMMA ContentsAre == ASSUME NEW s \in Seq(Nodes), Shape(s) PROVE Contents = s
BY Reads, WalkIs DEF Shape, Contents

LEMMA NewContentsAre == ASSUME NEW s \in Seq(Nodes), Shape(s)' PROVE Contents' = s
<1>1. Walk' = WalkOf(head', next') BY DEF Walk, WalkOf, WalkRound
<1>2. Distinct(s) /\ Chain(s, head', next') /\ count' = Len(s) BY DEF Shape
<1>3. [k \in 1 .. Len(s) |-> WalkOf(head', next')[k - 1]] = s BY <1>2, Reads
<1>4. Contents' = [k \in 1 .. count' |-> Walk'[k - 1]] BY DEF Contents
<1> QED BY <1>1, <1>2, <1>3, <1>4

\* NodeSequence removes as the list does.
LEMMA RemovesAlike ==
    ASSUME NEW s \in Seq(Nodes), NEW j \in 1 .. Len(s)
    PROVE  Sequence!RemoveAt(s, j) = Without(s, j)
<1> DEFINE a == SubSeq(s, 1, j - 1)
           b == SubSeq(s, j + 1, Len(s))
<1>0. Len(s) \in Nat /\ j \in Nat /\ j >= 1 /\ j <= Len(s) OBVIOUS
<1>1. a \in Seq(Nodes) /\ Len(a) = j - 1 /\ \A i \in 1 .. j - 1 : a[i] = s[i]
  BY <1>0
<1>2. /\ b \in Seq(Nodes) /\ Len(b) = Len(s) - j
      /\ \A i \in 1 .. Len(s) - j : b[i] = s[i + j]
  BY <1>0
<1>3. Sequence!RemoveAt(s, j) = a \o b BY DEF Sequence!RemoveAt
<1> HIDE DEF a, b
<1>4. a \o b \in Seq(Nodes) /\ Len(a \o b) = Len(s) - 1
  <2>1. a \o b \in Seq(Nodes) /\ Len(a \o b) = Len(a) + Len(b)
    <3>1. a \in Seq(Nodes) /\ b \in Seq(Nodes) BY <1>1, <1>2
    <3> QED BY <3>1, ConcatProperties
  <2>2. (j - 1) + (Len(s) - j) = Len(s) - 1 BY <1>0
  <2> QED BY <1>1, <1>2, <2>1, <2>2
<1>5. ASSUME NEW i \in 1 .. Len(s) - 1
      PROVE  (a \o b)[i] = IF i < j THEN s[i] ELSE s[i + 1]
  <2>1. CASE i < j
    <3>1. i \in 1 .. j - 1 /\ i \in 1 .. Len(a) BY <1>0, <1>1, <2>1
    <3>2. (a \o b)[i] = a[i] BY <1>1, <1>2, <3>1
    <3> QED BY <1>1, <2>1, <3>1, <3>2
  <2>2. CASE ~(i < j)
    <3>1. i - (j - 1) \in 1 .. Len(s) - j /\ (i - (j - 1)) + j = i + 1 BY <1>0, <2>2
    <3>2. (a \o b)[i] = b[i - (j - 1)] BY <1>0, <1>1, <1>2, <2>2
    <3> QED BY <1>2, <2>2, <3>1, <3>2
  <2> QED BY <2>1, <2>2
<1> DEFINE c == a \o b
<1> HIDE DEF c
<1>6. c = [i \in 1 .. Len(s) - 1 |-> c[i]]
  <2>1. c \in Seq(Nodes) /\ Len(c) = Len(s) - 1 BY <1>4 DEF c
  <2>2. c = [i \in 1 .. Len(c) |-> c[i]] BY <2>1
  <2> QED BY <2>1, <2>2
<1>7. c = Without(s, j) BY <1>5, <1>6 DEF c, Without
<1> QED BY <1>3, <1>7 DEF c

LEMMA StepMaps ==
    ASSUME IInv, IInv', Effect
    PROVE  [Sequence!Next]_(IF live /\ op # "destroy" THEN Contents ELSE <<>>)
<1> DEFINE items == IF live /\ op # "destroy" THEN Contents ELSE <<>>
<1>1. CASE ~live' \/ op' = "destroy"
  <2>1. items' = <<>> BY <1>1
  <2> QED BY <2>1 DEF Sequence!Next, Sequence!Clear
<1>2. CASE live' /\ op' # "destroy" /\ Shape(<<>>)'
  <2>0. <<>> \in Seq(Nodes) OBVIOUS
  <2>1. Contents' = <<>> BY <1>2, <2>0, NewContentsAre
  <2>2. items' = <<>> BY <2>1
  <2> QED BY <2>2 DEF Sequence!Next, Sequence!Clear
<1>3. CASE /\ live' /\ op' # "destroy" /\ live /\ op # "destroy"
           /\ \E s, t \in Seq(Nodes) : Shape(s) /\ Shape(t)' /\ Changes(s, t)
  <2>1. PICK s, t \in Seq(Nodes) : Shape(s) /\ Shape(t)' /\ Changes(s, t) BY <1>3
  <2>2. Contents = s /\ Contents' = t BY <2>1, ContentsAre, NewContentsAre
  <2>3. items = s /\ items' = t BY <1>3, <2>2
  <2> HIDE DEF items
  <2>4. CASE t = s BY <2>3, <2>4 DEF items
  <2>5. CASE \E n \in Nodes \ Rest(s, 1) : t = Append(s, n)
    <3>1. PICK n \in Nodes \ Rest(s, 1) : t = Append(s, n) BY <2>5
    <3>2. Sequence!ToSet(s) = Rest(s, 1) BY DEF Sequence!ToSet, Rest
    <3>3. Sequence!Append1(n) BY <2>3, <3>1, <3>2 DEF Sequence!Append1, items
    <3> QED BY <3>3 DEF Sequence!Next
  <2>6. CASE \E j \in 1 .. Len(s) : t = Without(s, j)
    <3>1. PICK j \in 1 .. Len(s) : t = Without(s, j) BY <2>6
    <3>2. t = Sequence!RemoveAt(s, j) BY <3>1, RemovesAlike
    <3>3. j \in DOMAIN items BY <2>3
    <3>4. Sequence!Delete(j) BY <2>3, <3>2 DEF Sequence!Delete, items
    <3> QED BY <3>3, <3>4 DEF Sequence!Next, items
  <2> QED BY <2>1, <2>4, <2>5, <2>6 DEF Changes, items
<1> QED BY <1>1, <1>2, <1>3 DEF Effect

\* For its callers the list of list.c is a sequence: list_add puts one node at
\* the end, list_remove and each round of list_remove_if take out at most one and
\* leave the order of the others alone, and list_destroy drops them all.
THEOREM Refinement == ASSUME ~MatchLast PROVE Spec => ImplementsSequence
<1>1. Init => Sequence!Init BY DEF Init, Sequence!Init
<1>2. IInv /\ [Next]_vars =>
        [Sequence!Next]_(IF live /\ op # "destroy" THEN Contents ELSE <<>>)
  BY StepInv, StepMaps
<1> QED BY <1>1, <1>2, Invariance, PTL DEF Spec, ImplementsSequence, Sequence!Spec
=============================================================================
