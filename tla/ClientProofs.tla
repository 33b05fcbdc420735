---------------------------- MODULE ClientProofs ----------------------------
(***************************************************************************)
(* Proofs about the messages that a wallet's vault executes, for every     *)
(* list of instructions, every list of lookup tables and everything these  *)
(* may hold: what the program runs is what the client was given.           *)
(*                                                                         *)
(* The lists are of any length, so most lemmas are inductions over them.   *)
(* An induction over a list is an induction over a set (SetInduction), the *)
(* set of the lists for which the statement holds; a fold is unrolled once *)
(* for each operator that is one (SumRun, OnlyRun, ...), and then known by *)
(* what it does to a list with one more element (SumAppend, ...).          *)
(***************************************************************************)
EXTENDS MCClient, FiniteSetTheorems, WellFoundedInduction, TLAPS

-----------------------------------------------------------------------------
(* Induction on sequences.                                                 *)

\* Induction, for a set: provers can cite it where they could not instantiate
\* a predicate.
LEMMA SetInduction ==
  ASSUME NEW T, 0 \in T, \A n \in Nat : n \in T => n + 1 \in T
  PROVE  Nat \subseteq T
<1> DEFINE Z == Nat \ T
           V == OpToRel(<, Nat)
<1>1. SUFFICES ASSUME Z # {} PROVE FALSE
  OBVIOUS
<1>2. IsWellFoundedOn(V, Nat)
  BY NatLessThanWellFounded
<1>3. PICK x \in Z : \A y \in Z : <<y, x>> \notin V
  BY <1>1, <1>2, WFMin
<1>4. x # 0 /\ x - 1 \in Nat /\ x - 1 \notin Z
  <2>1. x # 0 OBVIOUS
  <2>2. x - 1 \in Nat BY <2>1
  <2>3. <<x - 1, x>> \in V BY <2>2 DEF OpToRel
  <2> QED BY <2>1, <2>2, <2>3, <1>3
<1> QED BY <1>4

LEMMA SameSequence ==
  ASSUME NEW X, NEW s \in Seq(X), NEW t \in Seq(X), Len(s) = Len(t),
         \A i \in 1..Len(s) : s[i] = t[i]
  PROVE  s = t
OBVIOUS

LEMMA FrontAndLast ==
  ASSUME NEW X, NEW s \in Seq(X), NEW n \in Nat, Len(s) = n + 1
  PROVE  /\ SubSeq(s, 1, n) \in Seq(X) /\ Len(SubSeq(s, 1, n)) = n
         /\ s[n + 1] \in X
         /\ Append(SubSeq(s, 1, n), s[n + 1]) = s
<1> DEFINE t == SubSeq(s, 1, n)
<1>1. t \in Seq(X) /\ Len(t) = n /\ (\A i \in 1..n : t[i] = s[i]) /\ s[n + 1] \in X
  OBVIOUS
<1> HIDE DEF t
<1>2. /\ Append(t, s[n + 1]) \in Seq(X)
      /\ Len(Append(t, s[n + 1])) = n + 1
      /\ \A i \in 1..(n + 1) : Append(t, s[n + 1])[i] = s[i]
  BY <1>1
<1>3. Append(t, s[n + 1]) = s
  BY <1>2, SameSequence
<1> QED BY <1>1, <1>3 DEF t

\* A sequence is built by appending.
LEMMA SeqInduction ==
  ASSUME NEW X, NEW T, << >> \in T, \A s \in Seq(X), x \in X : s \in T => Append(s, x) \in T
  PROVE  Seq(X) \subseteq T
<1> DEFINE N == {n \in Nat : \A s \in Seq(X) : Len(s) = n => s \in T}
<1>1. 0 \in N
  <2>1. \A s \in Seq(X) : Len(s) = 0 => s = << >>
    OBVIOUS
  <2> QED BY ONLY <2>1, << >> \in T
<1>2. \A n \in Nat : n \in N => n + 1 \in N
  <2> SUFFICES ASSUME NEW n \in Nat, n \in N, NEW s \in Seq(X), Len(s) = n + 1
               PROVE  s \in T
    OBVIOUS
  <2>1. /\ SubSeq(s, 1, n) \in Seq(X) /\ Len(SubSeq(s, 1, n)) = n
        /\ s[n + 1] \in X /\ Append(SubSeq(s, 1, n), s[n + 1]) = s
    BY FrontAndLast
  <2>2. SubSeq(s, 1, n) \in T
    BY <2>1
  <2> HIDE DEF N
  <2>3. Append(SubSeq(s, 1, n), s[n + 1]) \in T
    BY <2>1, <2>2
  <2> QED BY <2>1, <2>3
<1> HIDE DEF N
<1>3. Nat \subseteq N
  BY <1>1, <1>2, SetInduction
<1> QED BY <1>3 DEF N

-----------------------------------------------------------------------------
(* Folds.                                                                  *)

\* A set of the first numbers has a greatest one.
LEMMA MaxIn ==
  ASSUME NEW n \in Nat, NEW T \in SUBSET (1..n), T # {}
  PROVE  Max(T) \in T /\ \A y \in T : Max(T) >= y
<1> DEFINE N == {m \in Nat : \A Z \in SUBSET (1..m) : Z # {} => \E x \in Z : \A y \in Z : x >= y}
<1>1. 0 \in N
  <2>1. 1..0 = {}
    OBVIOUS
  <2> QED BY <2>1
<1>2. \A m \in Nat : m \in N => m + 1 \in N
  <2> SUFFICES ASSUME NEW m \in Nat, m \in N, NEW Z \in SUBSET (1..(m + 1)), Z # {}
               PROVE  \E x \in Z : \A y \in Z : x >= y
    OBVIOUS
  <2>1. CASE m + 1 \in Z
    BY <2>1
  <2>2. CASE m + 1 \notin Z
    <3>1. Z \in SUBSET (1..m)
      BY <2>2
    <3> QED BY <3>1
  <2> QED BY <2>1, <2>2
<1> HIDE DEF N
<1>3. n \in N
  BY <1>1, <1>2, SetInduction
<1>4. \E x \in T : \A y \in T : x >= y
  BY <1>3 DEF N
<1> QED BY <1>4 DEF Max

\* The function that a fold over the numbers up to n is defined with.
IsFold(h, n, base, F) ==
  \A T \in SUBSET (1..n) :
    h[T] = IF T = {} THEN base ELSE F[<<h[T \ {Max(T)}], Max(T)>>]

LEMMA FoldExists ==
  ASSUME NEW n \in Nat, NEW V, NEW base \in V, NEW F \in [V \X (1..n) -> V]
  PROVE  \E h \in [SUBSET (1..n) -> V] : IsFold(h, n, base, F)
<1> DEFINE H(m) == m <= n => \E h \in [SUBSET (1..m) -> V] : IsFold(h, m, base, F)
           N == {m \in Nat : H(m)}
<1>1. H(0)
  <2> DEFINE h == [T \in SUBSET (1..0) |-> base]
  <2>1. 1..0 = {}
    OBVIOUS
  <2>2. IsFold(h, 0, base, F) /\ h \in [SUBSET (1..0) -> V]
    BY <2>1 DEF IsFold
  <2> QED BY <2>2
<1>2. ASSUME NEW m \in Nat, H(m) PROVE H(m + 1)
  <2> SUFFICES ASSUME m + 1 <= n
               PROVE  \E h \in [SUBSET (1..(m + 1)) -> V] : IsFold(h, m + 1, base, F)
    OBVIOUS
  <2>1. PICK h \in [SUBSET (1..m) -> V] : IsFold(h, m, base, F)
    <3>1. m <= n
      OBVIOUS
    <3> QED BY <1>2, <3>1
  <2> DEFINE k == [T \in SUBSET (1..(m + 1)) |->
                     IF m + 1 \in T THEN F[<<h[T \ {m + 1}], m + 1>>] ELSE h[T]]
  <2>2. ASSUME NEW T \in SUBSET (1..(m + 1))
        PROVE  /\ k[T] \in V
               /\ k[T] = IF T = {} THEN base ELSE F[<<k[T \ {Max(T)}], Max(T)>>]
    <3>1. CASE m + 1 \in T
      <4>1. T \ {m + 1} \in SUBSET (1..m)
        <5>1. \A x \in 1..(m + 1) : x # m + 1 => x \in 1..m
          OBVIOUS
        <5> QED BY <5>1
      <4>2. Max(T) = m + 1
        <5>1. Max(T) \in T /\ Max(T) >= m + 1
          <6>1. T # {} /\ m + 1 \in Nat
            BY <3>1
          <6> QED BY <3>1, <6>1, MaxIn, Zenon
        <5>2. Max(T) \in 1..(m + 1)
          BY <5>1
        <5> QED BY <5>1, <5>2
      <4>3. k[T \ {m + 1}] = h[T \ {m + 1}] /\ h[T \ {m + 1}] \in V
        BY <4>1
      <4>4. k[T] = F[<<h[T \ {m + 1}], m + 1>>] /\ m + 1 \in 1..n
        BY <3>1
      <4> HIDE DEF k
      <4> QED BY <3>1, <4>2, <4>3, <4>4
    <3>2. CASE m + 1 \notin T
      <4>1. T \in SUBSET (1..m)
        BY <3>2
      <4>2. k[T] = h[T] /\ h[T] \in V
        BY <3>2, <4>1
      <4>3. CASE T = {}
        BY <2>1, <4>1, <4>2, <4>3 DEF IsFold
      <4>4. CASE T # {}
        <5>0. Max(T) \in T
          BY <4>1, <4>4, MaxIn, Zenon
        <5>1. Max(T) \in 1..m /\ T \ {Max(T)} \in SUBSET (1..m) /\ m + 1 \notin T \ {Max(T)}
          BY <3>2, <4>1, <5>0
        <5>2. k[T \ {Max(T)}] = h[T \ {Max(T)}]
          BY <5>1
        <5>3. h[T] = F[<<h[T \ {Max(T)}], Max(T)>>]
          BY <2>1, <4>1, <4>4 DEF IsFold
        <5> HIDE DEF k
        <5> QED BY <4>2, <4>4, <5>2, <5>3
      <4> QED BY <4>3, <4>4
    <3> QED BY <3>1, <3>2
  <2>3. k \in [SUBSET (1..(m + 1)) -> V]
    BY <2>2
  <2> HIDE DEF k
  <2>4. IsFold(k, m + 1, base, F)
    BY <2>2 DEF IsFold
  <2> QED BY <2>3, <2>4
<1> HIDE DEF H
<1>3. 0 \in N /\ \A m \in Nat : m \in N => m + 1 \in N
  BY <1>1, <1>2
<1> HIDE DEF N
<1>4. n \in N
  BY <1>3, SetInduction
<1>5. H(n)
  BY <1>4 DEF N
<1>6. n <= n
  OBVIOUS
<1> QED BY <1>5, <1>6 DEF H

\* What is left after the first i steps of a fold.
LEMMA MaxOfFirst ==
  ASSUME NEW i \in Nat \ {0}
  PROVE  Max(1..i) = i /\ (1..i) \ {Max(1..i)} = 1..(i - 1)
<1> DEFINE T == 1..i
<1>1. T \in SUBSET (1..i) /\ T # {} /\ i \in T
  OBVIOUS
<1> HIDE DEF T
<1>2. Max(T) \in T /\ \A y \in T : Max(T) >= y
  BY <1>1, MaxIn, Zenon
<1>3. Max(1..i) \in 1..i /\ Max(1..i) >= i
  BY <1>1, <1>2 DEF T
<1> QED BY <1>3

\* Two runs that take the same steps.
LEMMA SameSteps ==
  ASSUME NEW n \in Nat, NEW g, NEW h, g[0] = h[0],
         \A i \in 1..n : g[i - 1] = h[i - 1] => g[i] = h[i]
  PROVE  g[n] = h[n]
<1> DEFINE N == {m \in Nat : m <= n => g[m] = h[m]}
<1>1. 0 \in N
  OBVIOUS
<1>2. \A m \in Nat : m \in N => m + 1 \in N
  <2> SUFFICES ASSUME NEW m \in Nat, m \in N, m + 1 <= n PROVE g[m + 1] = h[m + 1]
    OBVIOUS
  <2>1. m + 1 \in 1..n /\ (m + 1) - 1 = m /\ g[m] = h[m]
    OBVIOUS
  <2> QED BY <2>1
<1> HIDE DEF N
<1>3. n \in N
  BY <1>1, <1>2, SetInduction
<1> QED BY <1>3 DEF N

LEMMA Appended ==
  ASSUME NEW X, NEW s \in Seq(X), NEW x \in X
  PROVE  /\ Append(s, x) \in Seq(X)
         /\ Len(Append(s, x)) = Len(s) + 1 /\ Len(s) \in Nat
         /\ \A i \in 1..Len(s) : Append(s, x)[i] = s[i]
         /\ Append(s, x)[Len(s) + 1] = x
OBVIOUS

\* The steps of a sum.
SumRun(g, s) ==
  /\ g[0] = 0
  /\ \A i \in 1..Len(s) : g[i] = g[i - 1] + s[i]
  /\ SumOf(s) = g[Len(s)]

LEMMA SumRuns ==
  ASSUME NEW s \in Seq(Nat)
  PROVE  \E g : SumRun(g, s)
<1> DEFINE n == Len(s)
           F == [p \in Nat \X (1..n) |-> p[1] + s[p[2]]]
           Step(h, T) == IF T = {} THEN 0 ELSE h[T \ {Max(T)}] + s[Max(T)]
           iter == CHOOSE h : h = [T \in SUBSET DOMAIN s |-> Step(h, T)]
           g == [i \in 0..n |-> iter[1..i]]
<1>1. n \in Nat /\ DOMAIN s = 1..n /\ \A i \in 1..n : s[i] \in Nat
  OBVIOUS
<1>2. \E h : h = [T \in SUBSET DOMAIN s |-> Step(h, T)]
  <2>1. F \in [Nat \X (1..n) -> Nat]
    BY <1>1
  <2> HIDE DEF F
  <2>2. PICK h \in [SUBSET (1..n) -> Nat] : IsFold(h, n, 0, F)
    BY <1>1, <2>1, FoldExists, 0 \in Nat
  <2>3. ASSUME NEW T \in SUBSET (1..n) PROVE h[T] = Step(h, T)
    <3>1. CASE T = {}
      BY <2>2, <3>1 DEF IsFold
    <3>2. CASE T # {}
      <4>1. Max(T) \in 1..n
        BY <1>1, <3>2, MaxIn, Zenon
      <4>2. h[T \ {Max(T)}] \in Nat
        OBVIOUS
      <4>3. F[<<h[T \ {Max(T)}], Max(T)>>] = h[T \ {Max(T)}] + s[Max(T)]
        BY <4>1, <4>2 DEF F
      <4> QED BY <2>2, <3>2, <4>3 DEF IsFold
    <3> QED BY <3>1, <3>2
  <2> HIDE DEF Step
  <2>4. h = [T \in SUBSET DOMAIN s |-> Step(h, T)]
    BY <1>1, <2>3
  <2> QED BY <2>4
<1>3. iter = [T \in SUBSET DOMAIN s |-> Step(iter, T)]
  BY <1>2, Zenon
<1>4. SumOf(s) = iter[DOMAIN s]
  BY Zenon DEF SumOf, FoldLeft, MapThenFoldSet
<1> HIDE DEF iter
<1>5. g[0] = 0 /\ g[n] = iter[DOMAIN s]
  BY <1>1, <1>3
<1>6. ASSUME NEW i \in 1..n PROVE g[i] = g[i - 1] + s[i]
  <2>1. Max(1..i) = i /\ (1..i) \ {Max(1..i)} = 1..(i - 1) /\ 1..i # {}
    BY MaxOfFirst
  <2>2. 1..i \in SUBSET DOMAIN s /\ g[i] = iter[1..i] /\ g[i - 1] = iter[1..(i - 1)]
    BY <1>1
  <2>3. iter[1..i] = Step(iter, 1..i)
    BY <1>3, <2>2, Zenon
  <2> QED BY <2>1, <2>2, <2>3
<1> HIDE DEF g
<1>7. SumRun(g, s)
  BY <1>4, <1>5, <1>6 DEF SumRun
<1> QED BY <1>7

LEMMA SumAppend ==
  /\ SumOf(<< >>) = 0
  /\ \A s \in Seq(Nat), x \in Nat :
       SumOf(Append(s, x)) = SumOf(s) + x
<1>1. SumOf(<< >>) = 0
  <2>1. << >> \in Seq(Nat) /\ Len(<< >>) = 0
    OBVIOUS
  <2>2. PICK g : SumRun(g, << >>)
    BY <2>1, SumRuns
  <2> QED BY <2>1, <2>2 DEF SumRun
<1>2. ASSUME NEW s \in Seq(Nat), NEW x \in Nat
      PROVE  SumOf(Append(s, x)) = SumOf(s) + x
  <2> DEFINE n == Len(s)
             t == Append(s, x)
  <2>1. /\ t \in Seq(Nat) /\ Len(t) = n + 1 /\ n \in Nat
        /\ t[n + 1] = x /\ \A i \in 1..n : t[i] = s[i]
    OBVIOUS
  <2> HIDE DEF n, t
  <2>2. PICK g : SumRun(g, s)
    BY SumRuns
  <2>3. PICK h : SumRun(h, t)
    BY <2>1, SumRuns
  <2>4. g[n] = h[n]
    <3>1. \A i \in 1..n : i \in 1..Len(t) /\ i \in 1..Len(s)
      BY <2>1 DEF n
    <3>2. \A i \in 1..n : g[i - 1] = h[i - 1] => g[i] = h[i]
      BY <2>1, <2>2, <2>3, <3>1 DEF SumRun
    <3>3. g[0] = h[0]
      BY <2>2, <2>3 DEF SumRun
    <3> QED BY <2>1, <3>2, <3>3, SameSteps
  <2>5. h[n + 1] = h[n] + x
    <3>1. n + 1 \in 1..Len(t) /\ (n + 1) - 1 = n
      BY <2>1
    <3> QED BY <2>1, <2>3, <3>1 DEF SumRun
  <2>6. SumOf(s) = g[n] /\ SumOf(t) = h[n + 1]
    BY <2>1, <2>2, <2>3 DEF SumRun, n
  <2> QED BY <2>4, <2>5, <2>6 DEF t
<1> QED BY <1>1, <1>2

\* The steps of a filter.
OnlyRun(g, s, Z) ==
  /\ g[0] = << >>
  /\ \A i \in 1..Len(s) : g[i] = IF s[i] \in Z THEN Append(g[i - 1], s[i]) ELSE g[i - 1]
  /\ Only(s, Z) = g[Len(s)]

LEMMA OnlyRuns ==
  ASSUME NEW X, NEW Z, NEW s \in Seq(X)
  PROVE  \E g : OnlyRun(g, s, Z)
<1> DEFINE n == Len(s)
           F == [p \in Seq(X) \X (1..n) |-> IF s[p[2]] \in Z THEN Append(p[1], s[p[2]]) ELSE p[1]]
           Step(h, T) == IF T = {} THEN << >>
                   ELSE IF s[Max(T)] \in Z THEN Append(h[T \ {Max(T)}], s[Max(T)])
                   ELSE h[T \ {Max(T)}]
           iter == CHOOSE h : h = [T \in SUBSET DOMAIN s |-> Step(h, T)]
           g == [i \in 0..n |-> iter[1..i]]
<1>1. n \in Nat /\ DOMAIN s = 1..n /\ \A i \in 1..n : s[i] \in X
  OBVIOUS
<1>2. \E h : h = [T \in SUBSET DOMAIN s |-> Step(h, T)]
  <2>1. F \in [Seq(X) \X (1..n) -> Seq(X)]
    BY <1>1
  <2> HIDE DEF F
  <2>2. PICK h \in [SUBSET (1..n) -> Seq(X)] : IsFold(h, n, << >>, F)
    BY <1>1, <2>1, FoldExists, << >> \in Seq(X)
  <2>3. ASSUME NEW T \in SUBSET (1..n) PROVE h[T] = Step(h, T)
    <3>1. CASE T = {}
      BY <2>2, <3>1 DEF IsFold
    <3>2. CASE T # {}
      <4>1. Max(T) \in 1..n
        BY <1>1, <3>2, MaxIn, Zenon
      <4>2. h[T \ {Max(T)}] \in Seq(X)
        OBVIOUS
      <4>3. F[<<h[T \ {Max(T)}], Max(T)>>]
              = IF s[Max(T)] \in Z THEN Append(h[T \ {Max(T)}], s[Max(T)])
              ELSE h[T \ {Max(T)}]
        BY <4>1, <4>2 DEF F
      <4> QED BY <2>2, <3>2, <4>3 DEF IsFold
    <3> QED BY <3>1, <3>2
  <2> HIDE DEF Step
  <2>4. h = [T \in SUBSET DOMAIN s |-> Step(h, T)]
    BY <1>1, <2>3
  <2> QED BY <2>4
<1>3. iter = [T \in SUBSET DOMAIN s |-> Step(iter, T)]
  BY <1>2, Zenon
<1>4. Only(s, Z) = iter[DOMAIN s]
  BY Zenon DEF Only, FoldLeft, MapThenFoldSet
<1> HIDE DEF iter
<1>5. g[0] = << >> /\ g[n] = iter[DOMAIN s]
  BY <1>1, <1>3
<1>6. ASSUME NEW i \in 1..n PROVE g[i] = IF s[i] \in Z THEN Append(g[i - 1], s[i]) ELSE g[i - 1]
  <2>1. Max(1..i) = i /\ (1..i) \ {Max(1..i)} = 1..(i - 1) /\ 1..i # {}
    BY MaxOfFirst
  <2>2. 1..i \in SUBSET DOMAIN s /\ g[i] = iter[1..i] /\ g[i - 1] = iter[1..(i - 1)]
    BY <1>1
  <2>3. iter[1..i] = Step(iter, 1..i)
    BY <1>3, <2>2, Zenon
  <2> QED BY <2>1, <2>2, <2>3
<1> HIDE DEF g
<1>7. OnlyRun(g, s, Z)
  BY <1>4, <1>5, <1>6 DEF OnlyRun
<1> QED BY <1>7

LEMMA OnlyAppend ==
  ASSUME NEW X, NEW Z
  PROVE  /\ Only(<< >>, Z) = << >>
         /\ \A s \in Seq(X), x \in X :
              Only(Append(s, x), Z) = IF x \in Z THEN Append(Only(s, Z), x) ELSE Only(s, Z)
<1>1. Only(<< >>, Z) = << >>
  <2>1. << >> \in Seq(X) /\ Len(<< >>) = 0
    OBVIOUS
  <2>2. PICK g : OnlyRun(g, << >>, Z)
    BY <2>1, OnlyRuns
  <2> QED BY <2>1, <2>2 DEF OnlyRun
<1>2. ASSUME NEW s \in Seq(X), NEW x \in X
      PROVE  Only(Append(s, x), Z) = IF x \in Z THEN Append(Only(s, Z), x) ELSE Only(s, Z)
  <2> DEFINE n == Len(s)
             t == Append(s, x)
  <2>1. /\ t \in Seq(X) /\ Len(t) = n + 1 /\ n \in Nat
        /\ t[n + 1] = x /\ \A i \in 1..n : t[i] = s[i]
    OBVIOUS
  <2> HIDE DEF n, t
  <2>2. PICK g : OnlyRun(g, s, Z)
    BY OnlyRuns
  <2>3. PICK h : OnlyRun(h, t, Z)
    BY <2>1, OnlyRuns
  <2>4. g[n] = h[n]
    <3>1. \A i \in 1..n : i \in 1..Len(t) /\ i \in 1..Len(s)
      BY <2>1 DEF n
    <3>2. \A i \in 1..n : g[i - 1] = h[i - 1] => g[i] = h[i]
      BY <2>1, <2>2, <2>3, <3>1 DEF OnlyRun
    <3>3. g[0] = h[0]
      BY <2>2, <2>3 DEF OnlyRun
    <3> QED BY <2>1, <3>2, <3>3, SameSteps
  <2>5. h[n + 1] = IF x \in Z THEN Append(h[n], x) ELSE h[n]
    <3>1. n + 1 \in 1..Len(t) /\ (n + 1) - 1 = n
      BY <2>1
    <3> QED BY <2>1, <2>3, <3>1 DEF OnlyRun
  <2>6. Only(s, Z) = g[n] /\ Only(t, Z) = h[n + 1]
    BY <2>1, <2>2, <2>3 DEF OnlyRun, n
  <2> QED BY <2>4, <2>5, <2>6 DEF t
<1> QED BY <1>1, <1>2

\* 
FirstOnlyRun(g, s) ==
  /\ g[0] = << >>
  /\ \A i \in 1..Len(s) : g[i] = IF Contains(g[i - 1], s[i]) THEN g[i - 1]
          ELSE Append(g[i - 1], s[i])
  /\ FirstOnly(s) = g[Len(s)]

LEMMA FirstOnlyRuns ==
  ASSUME NEW X, NEW s \in Seq(X)
  PROVE  \E g : FirstOnlyRun(g, s)
<1> DEFINE n == Len(s)
           F == [p \in Seq(X) \X (1..n) |-> IF Contains(p[1], s[p[2]]) THEN p[1]
                   ELSE Append(p[1], s[p[2]])]
           Step(h, T) == IF T = {} THEN << >>
                   ELSE IF Contains(h[T \ {Max(T)}], s[Max(T)]) THEN h[T \ {Max(T)}]
                   ELSE Append(h[T \ {Max(T)}], s[Max(T)])
           iter == CHOOSE h : h = [T \in SUBSET DOMAIN s |-> Step(h, T)]
           g == [i \in 0..n |-> iter[1..i]]
<1>1. n \in Nat /\ DOMAIN s = 1..n /\ \A i \in 1..n : s[i] \in X
  OBVIOUS
<1>2. \E h : h = [T \in SUBSET DOMAIN s |-> Step(h, T)]
  <2>1. F \in [Seq(X) \X (1..n) -> Seq(X)]
    BY <1>1
  <2> HIDE DEF F
  <2>2. PICK h \in [SUBSET (1..n) -> Seq(X)] : IsFold(h, n, << >>, F)
    BY <1>1, <2>1, FoldExists, << >> \in Seq(X)
  <2>3. ASSUME NEW T \in SUBSET (1..n) PROVE h[T] = Step(h, T)
    <3>1. CASE T = {}
      BY <2>2, <3>1 DEF IsFold
    <3>2. CASE T # {}
      <4>1. Max(T) \in 1..n
        BY <1>1, <3>2, MaxIn, Zenon
      <4>2. h[T \ {Max(T)}] \in Seq(X)
        OBVIOUS
      <4>3. F[<<h[T \ {Max(T)}], Max(T)>>]
              = IF Contains(h[T \ {Max(T)}], s[Max(T)]) THEN h[T \ {Max(T)}]
              ELSE Append(h[T \ {Max(T)}], s[Max(T)])
        BY <4>1, <4>2 DEF F
      <4> QED BY <2>2, <3>2, <4>3 DEF IsFold
    <3> QED BY <3>1, <3>2
  <2> HIDE DEF Step
  <2>4. h = [T \in SUBSET DOMAIN s |-> Step(h, T)]
    BY <1>1, <2>3
  <2> QED BY <2>4
<1>3. iter = [T \in SUBSET DOMAIN s |-> Step(iter, T)]
  BY <1>2, Zenon
<1>4. FirstOnly(s) = iter[DOMAIN s]
  BY Zenon DEF FirstOnly, FoldLeft, MapThenFoldSet
<1> HIDE DEF iter
<1>5. g[0] = << >> /\ g[n] = iter[DOMAIN s]
  BY <1>1, <1>3
<1>6. ASSUME NEW i \in 1..n PROVE g[i] = IF Contains(g[i - 1], s[i]) THEN g[i - 1]
        ELSE Append(g[i - 1], s[i])
  <2>1. Max(1..i) = i /\ (1..i) \ {Max(1..i)} = 1..(i - 1) /\ 1..i # {}
    BY MaxOfFirst
  <2>2. 1..i \in SUBSET DOMAIN s /\ g[i] = iter[1..i] /\ g[i - 1] = iter[1..(i - 1)]
    BY <1>1
  <2>3. iter[1..i] = Step(iter, 1..i)
    BY <1>3, <2>2, Zenon
  <2> QED BY <2>1, <2>2, <2>3
<1> HIDE DEF g
<1>7. FirstOnlyRun(g, s)
  BY <1>4, <1>5, <1>6 DEF FirstOnlyRun
<1> QED BY <1>7

LEMMA FirstOnlyAppend ==
  ASSUME NEW X
  PROVE  /\ FirstOnly(<< >>) = << >>
         /\ \A s \in Seq(X), x \in X :
              FirstOnly(Append(s, x)) = IF Contains(FirstOnly(s), x) THEN FirstOnly(s)
                      ELSE Append(FirstOnly(s), x)
<1>1. FirstOnly(<< >>) = << >>
  <2>1. << >> \in Seq(X) /\ Len(<< >>) = 0
    OBVIOUS
  <2>2. PICK g : FirstOnlyRun(g, << >>)
    BY <2>1, FirstOnlyRuns
  <2> QED BY <2>1, <2>2 DEF FirstOnlyRun
<1>2. ASSUME NEW s \in Seq(X), NEW x \in X
      PROVE  FirstOnly(Append(s, x)) = IF Contains(FirstOnly(s), x) THEN FirstOnly(s)
              ELSE Append(FirstOnly(s), x)
  <2> DEFINE n == Len(s)
             t == Append(s, x)
  <2>1. /\ t \in Seq(X) /\ Len(t) = n + 1 /\ n \in Nat
        /\ t[n + 1] = x /\ \A i \in 1..n : t[i] = s[i]
    OBVIOUS
  <2> HIDE DEF n, t
  <2>2. PICK g : FirstOnlyRun(g, s)
    BY FirstOnlyRuns
  <2>3. PICK h : FirstOnlyRun(h, t)
    BY <2>1, FirstOnlyRuns
  <2>4. g[n] = h[n]
    <3>1. \A i \in 1..n : i \in 1..Len(t) /\ i \in 1..Len(s)
      BY <2>1 DEF n
    <3>2. \A i \in 1..n : g[i - 1] = h[i - 1] => g[i] = h[i]
      BY <2>1, <2>2, <2>3, <3>1 DEF FirstOnlyRun
    <3>3. g[0] = h[0]
      BY <2>2, <2>3 DEF FirstOnlyRun
    <3> QED BY <2>1, <3>2, <3>3, SameSteps
  <2>5. h[n + 1] = IF Contains(h[n], x) THEN h[n] ELSE Append(h[n], x)
    <3>1. n + 1 \in 1..Len(t) /\ (n + 1) - 1 = n
      BY <2>1
    <3> QED BY <2>1, <2>3, <3>1 DEF FirstOnlyRun
  <2>6. FirstOnly(s) = g[n] /\ FirstOnly(t) = h[n + 1]
    BY <2>1, <2>2, <2>3 DEF FirstOnlyRun, n
  <2> QED BY <2>4, <2>5, <2>6 DEF t
<1> QED BY <1>1, <1>2

FlattenRun(g, ss) ==
  /\ g[0] = << >>
  /\ \A i \in 1..Len(ss) : g[i] = g[i - 1] \o ss[i]
  /\ FlattenSeq(ss) = g[Len(ss)]

LEMMA FlattenRuns ==
  ASSUME NEW X, NEW ss \in Seq(Seq(X))
  PROVE  \E g : FlattenRun(g, ss)
<1> DEFINE n == Len(ss)
           F == [p \in Seq(X) \X (1..n) |-> p[1] \o ss[p[2]]]
           Step(f, i) == IF i = 1 THEN ss[i] ELSE f[i - 1] \o ss[i]
           flatten == CHOOSE f : f = [i \in 1..n |-> Step(f, i)]
           g == [i \in 0..n |-> IF i = 0 THEN << >> ELSE flatten[i]]
<1>1. n \in Nat /\ \A i \in 1..n : ss[i] \in Seq(X)
  OBVIOUS
<1>2. CASE n = 0
  <2>1. ss = << >>
    BY <1>2
  <2>2. FlattenSeq(ss) = << >>
    BY <1>2, <2>1 DEF FlattenSeq
  <2>3. g[0] = << >> /\ 1..Len(ss) = {}
    BY <1>2
  <2> HIDE DEF g
  <2>4. FlattenRun(g, ss)
    BY <1>2, <2>2, <2>3 DEF FlattenRun
  <2> QED BY <2>4
<1>3. CASE n > 0
  <2>1. \E f : f = [i \in 1..n |-> Step(f, i)]
    <3>1. F \in [Seq(X) \X (1..n) -> Seq(X)]
      BY <1>1
    <3> HIDE DEF F
    <3>2. PICK h \in [SUBSET (1..n) -> Seq(X)] : IsFold(h, n, << >>, F)
      BY <1>1, <3>1, FoldExists, << >> \in Seq(X)
    <3> DEFINE f == [i \in 1..n |-> h[1..i]]
    <3>3. h[{}] = << >>
      BY <3>2 DEF IsFold
    <3>4. ASSUME NEW i \in 1..n PROVE f[i] = Step(f, i)
      <4>1. Max(1..i) = i /\ (1..i) \ {Max(1..i)} = 1..(i - 1) /\ 1..i # {}
        BY MaxOfFirst
      <4>2. 1..i \in SUBSET (1..n) /\ 1..(i - 1) \in SUBSET (1..n)
        BY <1>1
      <4>3. h[1..i] = F[<<h[1..(i - 1)], i>>]
        BY <3>2, <4>1, <4>2 DEF IsFold
      <4>4. h[1..(i - 1)] \in Seq(X)
        BY <4>2
      <4>5. h[1..i] = h[1..(i - 1)] \o ss[i]
        BY <4>3, <4>4 DEF F
      <4>6. CASE i = 1
        <5>1. 1..(i - 1) = {}
          BY <4>6
        <5>2. ss[i] \in Seq(X) /\ << >> \o ss[i] = ss[i]
          BY <1>1
        <5>3. h[1..i] = ss[i]
          BY <3>3, <4>5, <5>1, <5>2
        <5> QED BY <4>6, <5>3
      <4>7. CASE i # 1
        <5>1. i - 1 \in 1..n
          BY <1>1, <4>7
        <5> QED BY <4>5, <4>7, <5>1
      <4> QED BY <4>6, <4>7
    <3> HIDE DEF Step
    <3>5. f = [i \in 1..n |-> Step(f, i)]
      BY <3>4
    <3> QED BY <3>5
  <2>2. flatten = [i \in 1..n |-> Step(flatten, i)]
    BY <2>1, Zenon
  <2>3. FlattenSeq(ss) = flatten[n]
    <3>1. n # 0
      BY <1>3
    <3> QED BY <3>1, Zenon DEF FlattenSeq
  <2> HIDE DEF flatten
  <2>4. ASSUME NEW i \in 1..n PROVE g[i] = g[i - 1] \o ss[i]
    <3>1. flatten[i] = Step(flatten, i)
      BY <2>2
    <3>2. i \in 0..n /\ i # 0 /\ i - 1 \in 0..n
      BY <1>1
    <3>3. CASE i = 1
      <4>1. ss[i] \in Seq(X) /\ << >> \o ss[i] = ss[i]
        BY <1>1
      <4> QED BY <3>1, <3>2, <3>3, <4>1
    <3>4. CASE i # 1
      <4>1. i - 1 # 0
        BY <3>4
      <4>2. flatten[i] = flatten[i - 1] \o ss[i]
        BY <3>1, <3>4
      <4> QED BY <3>2, <4>1, <4>2
    <3> QED BY <3>3, <3>4
  <2>5. g[0] = << >> /\ g[n] = flatten[n]
    BY <1>3
  <2> HIDE DEF g
  <2>6. FlattenRun(g, ss)
    BY <2>3, <2>4, <2>5 DEF FlattenRun
  <2> QED BY <2>6
<1> QED BY <1>1, <1>2, <1>3

LEMMA FlattenAppend ==
  ASSUME NEW X
  PROVE  /\ FlattenSeq(<< >>) = << >>
         /\ \A ss \in Seq(Seq(X)), s \in Seq(X) :
              FlattenSeq(Append(ss, s)) = FlattenSeq(ss) \o s
<1>1. FlattenSeq(<< >>) = << >>
  BY Len(<< >>) = 0 DEF FlattenSeq
<1>2. ASSUME NEW ss \in Seq(Seq(X)), NEW s \in Seq(X)
      PROVE  FlattenSeq(Append(ss, s)) = FlattenSeq(ss) \o s
  <2> DEFINE n == Len(ss)
             tt == Append(ss, s)
  <2>1. /\ tt \in Seq(Seq(X)) /\ Len(tt) = n + 1 /\ n \in Nat
        /\ tt[n + 1] = s /\ \A i \in 1..n : tt[i] = ss[i]
    OBVIOUS
  <2> HIDE DEF n, tt
  <2>2. PICK g : FlattenRun(g, ss)
    BY FlattenRuns
  <2>3. PICK h : FlattenRun(h, tt)
    BY <2>1, FlattenRuns
  <2>4. g[n] = h[n]
    <3>1. \A i \in 1..n : i \in 1..Len(tt) /\ i \in 1..Len(ss)
      BY <2>1 DEF n
    <3>2. \A i \in 1..n : g[i - 1] = h[i - 1] => g[i] = h[i]
      BY <2>1, <2>2, <2>3, <3>1 DEF FlattenRun
    <3>3. g[0] = h[0]
      BY <2>2, <2>3 DEF FlattenRun
    <3> QED BY <2>1, <3>2, <3>3, SameSteps
  <2>5. h[n + 1] = h[n] \o s
    <3>1. n + 1 \in 1..Len(tt) /\ (n + 1) - 1 = n
      BY <2>1
    <3> QED BY <2>1, <2>3, <3>1 DEF FlattenRun
  <2>6. FlattenSeq(ss) = g[n] /\ FlattenSeq(tt) = h[n + 1]
    BY <2>1, <2>2, <2>3 DEF FlattenRun, n
  <2> QED BY <2>4, <2>5, <2>6 DEF tt
<1> QED BY <1>1, <1>2

-----------------------------------------------------------------------------
(* What the helpers keep.                                                  *)

LEMMA Concatenated ==
  ASSUME NEW X, NEW s \in Seq(X), NEW t \in Seq(X)
  PROVE  /\ s \o t \in Seq(X)
         /\ Len(s \o t) = Len(s) + Len(t) /\ Len(s) \in Nat /\ Len(t) \in Nat
         /\ \A i \in 1..Len(s) : (s \o t)[i] = s[i]
         /\ \A i \in 1..Len(t) : (s \o t)[Len(s) + i] = t[i]
         /\ ToSet(s \o t) = ToSet(s) \cup ToSet(t)
<1>1. /\ s \o t \in Seq(X)
      /\ Len(s \o t) = Len(s) + Len(t) /\ Len(s) \in Nat /\ Len(t) \in Nat
      /\ \A i \in 1..Len(s) : (s \o t)[i] = s[i]
      /\ \A i \in 1..Len(t) : (s \o t)[Len(s) + i] = t[i]
  OBVIOUS
<1> DEFINE u == s \o t
<1> HIDE DEF u
<1>2. DOMAIN s = 1..Len(s) /\ DOMAIN t = 1..Len(t) /\ DOMAIN u = 1..(Len(s) + Len(t))
  BY <1>1 DEF u
<1>3. ASSUME NEW x \in ToSet(s) PROVE x \in ToSet(u)
  BY <1>1, <1>2 DEF ToSet, u
<1>4. ASSUME NEW x \in ToSet(t) PROVE x \in ToSet(u)
  <2>1. PICK i \in 1..Len(t) : t[i] = x
    BY <1>2 DEF ToSet
  <2>2. Len(s) + i \in DOMAIN u /\ u[Len(s) + i] = x
    BY <1>1, <1>2, <2>1 DEF u
  <2> QED BY <2>2 DEF ToSet
<1>5. ASSUME NEW x \in ToSet(u) PROVE x \in ToSet(s) \cup ToSet(t)
  <2>1. PICK i \in 1..(Len(s) + Len(t)) : u[i] = x
    BY <1>2 DEF ToSet
  <2>2. CASE i \in 1..Len(s)
    BY <1>1, <1>2, <2>1, <2>2 DEF ToSet, u
  <2>3. CASE i \notin 1..Len(s)
    <3>1. i - Len(s) \in 1..Len(t) /\ Len(s) + (i - Len(s)) = i
      BY <1>1, <2>3
    <3>2. t[i - Len(s)] = x
      BY <1>1, <2>1, <3>1 DEF u
    <3> QED BY <1>2, <3>1, <3>2 DEF ToSet
  <2> QED BY <2>2, <2>3
<1>6. ToSet(u) = ToSet(s) \cup ToSet(t)
  BY <1>3, <1>4, <1>5
<1> QED BY <1>1, <1>6 DEF u

LEMMA AppendedSet ==
  ASSUME NEW X, NEW s \in Seq(X), NEW x \in X
  PROVE  ToSet(Append(s, x)) = ToSet(s) \cup {x}
<1> DEFINE t == Append(s, x)
<1>1. /\ DOMAIN s = 1..Len(s) /\ DOMAIN t = 1..(Len(s) + 1) /\ Len(s) \in Nat
      /\ t[Len(s) + 1] = x /\ \A i \in 1..Len(s) : t[i] = s[i]
  OBVIOUS
<1> HIDE DEF t
<1>2. \A i \in 1..(Len(s) + 1) : i \in 1..Len(s) \/ i = Len(s) + 1
  BY <1>1
<1>3. ToSet(t) = ToSet(s) \cup {x}
  <2>1. \A y \in ToSet(t) : y \in ToSet(s) \cup {x}
    BY <1>1, <1>2 DEF ToSet
  <2>2. \A y \in ToSet(s) \cup {x} : y \in ToSet(t)
    <3>1. \A i \in 1..Len(s) : i \in 1..(Len(s) + 1)
      BY <1>1
    <3>2. Len(s) + 1 \in 1..(Len(s) + 1)
      BY <1>1
    <3> QED BY <1>1, <3>1, <3>2 DEF ToSet
  <2> QED BY <2>1, <2>2
<1> QED BY <1>3 DEF t

LEMMA EmptySequence ==
  ASSUME NEW X
  PROVE  << >> \in Seq(X) /\ ToSet(<< >>) = {} /\ Len(<< >>) = 0
<1>1. << >> \in Seq(X) /\ DOMAIN << >> = {} /\ Len(<< >>) = 0
  OBVIOUS
<1> QED BY <1>1 DEF ToSet

LEMMA OnlyKeeps ==
  ASSUME NEW X, NEW Z, NEW s \in Seq(X)
  PROVE  Only(s, Z) \in Seq(X) /\ ToSet(Only(s, Z)) = ToSet(s) \cap Z
<1> DEFINE T == {t \in Seq(X) : Only(t, Z) \in Seq(X) /\ ToSet(Only(t, Z)) = ToSet(t) \cap Z}
<1>1. << >> \in T
  BY OnlyAppend, EmptySequence
<1>2. ASSUME NEW t \in Seq(X), NEW x \in X, t \in T PROVE Append(t, x) \in T
  <2>1. /\ Append(t, x) \in Seq(X) /\ ToSet(Append(t, x)) = ToSet(t) \cup {x}
    BY AppendedSet, Appended
  <2>4. Only(Append(t, x), Z) = IF x \in Z THEN Append(Only(t, Z), x) ELSE Only(t, Z)
    <3>1. \A u \in Seq(X), y \in X :
            Only(Append(u, y), Z) = IF y \in Z THEN Append(Only(u, Z), y) ELSE Only(u, Z)
      BY OnlyAppend
    <3> QED BY <3>1
  <2>2. Only(t, Z) \in Seq(X) /\ ToSet(Only(t, Z)) = ToSet(t) \cap Z
    BY <1>2
  <2>3. /\ Append(Only(t, Z), x) \in Seq(X)
        /\ ToSet(Append(Only(t, Z), x)) = ToSet(Only(t, Z)) \cup {x}
    BY <2>2, AppendedSet, Appended
  <2> QED BY <2>1, <2>2, <2>3, <2>4
<1> HIDE DEF T
<1>3. s \in T
  BY <1>1, <1>2, SeqInduction
<1> QED BY <1>3 DEF T

LEMMA FirstOnlyKeeps ==
  ASSUME NEW X, NEW s \in Seq(X)
  PROVE  FirstOnly(s) \in Seq(X) /\ ToSet(FirstOnly(s)) = ToSet(s)
<1> DEFINE T == {t \in Seq(X) : FirstOnly(t) \in Seq(X) /\ ToSet(FirstOnly(t)) = ToSet(t)}
<1>1. << >> \in T
  BY FirstOnlyAppend, EmptySequence
<1>2. ASSUME NEW t \in Seq(X), NEW x \in X, t \in T PROVE Append(t, x) \in T
  <2>1. /\ Append(t, x) \in Seq(X) /\ ToSet(Append(t, x)) = ToSet(t) \cup {x}
        /\ FirstOnly(Append(t, x)) = IF Contains(FirstOnly(t), x) THEN FirstOnly(t)
                                     ELSE Append(FirstOnly(t), x)
    BY FirstOnlyAppend, AppendedSet, Appended
  <2>2. FirstOnly(t) \in Seq(X) /\ ToSet(FirstOnly(t)) = ToSet(t)
    BY <1>2
  <2>3. /\ Append(FirstOnly(t), x) \in Seq(X)
        /\ ToSet(Append(FirstOnly(t), x)) = ToSet(FirstOnly(t)) \cup {x}
    BY <2>2, AppendedSet, Appended
  <2>4. Contains(FirstOnly(t), x) <=> x \in ToSet(FirstOnly(t))
    <3>1. DOMAIN FirstOnly(t) = 1..Len(FirstOnly(t))
      BY <2>2
    <3> QED BY <3>1 DEF Contains, ToSet
  <2> QED BY <2>1, <2>2, <2>3, <2>4
<1> HIDE DEF T
<1>3. s \in T
  BY <1>1, <1>2, SeqInduction
<1> QED BY <1>3 DEF T

LEMMA UnionAppended ==
  ASSUME NEW Z, NEW t
  PROVE  UNION {ToSet(s) : s \in Z \cup {t}} = (UNION {ToSet(s) : s \in Z}) \cup ToSet(t)
<1> DEFINE H == UNION {ToSet(s) : s \in Z \cup {t}}
           V == UNION {ToSet(s) : s \in Z}
<1>1. \A x : x \in H <=> \E s \in Z \cup {t} : x \in ToSet(s)
  OBVIOUS
<1>2. \A x : x \in V <=> \E s \in Z : x \in ToSet(s)
  OBVIOUS
<1>3. SUFFICES H = V \cup ToSet(t)
  OBVIOUS
<1> HIDE DEF H, V
<1> QED BY <1>1, <1>2

LEMMA FlattenKeeps ==
  ASSUME NEW X, NEW ss \in Seq(Seq(X))
  PROVE  FlattenSeq(ss) \in Seq(X) /\ ToSet(FlattenSeq(ss)) = UNION {ToSet(s) : s \in ToSet(ss)}
<1> DEFINE T == {tt \in Seq(Seq(X)) : /\ FlattenSeq(tt) \in Seq(X)
                                      /\ ToSet(FlattenSeq(tt)) = UNION {ToSet(s) : s \in ToSet(tt)}}
<1>1. << >> \in T
  BY FlattenAppend, EmptySequence
<1>2. ASSUME NEW tt \in Seq(Seq(X)), NEW t \in Seq(X), tt \in T PROVE Append(tt, t) \in T
  <2>1. /\ Append(tt, t) \in Seq(Seq(X)) /\ ToSet(Append(tt, t)) = ToSet(tt) \cup {t}
        /\ FlattenSeq(Append(tt, t)) = FlattenSeq(tt) \o t
    BY FlattenAppend, AppendedSet, Appended
  <2>2. /\ FlattenSeq(tt) \in Seq(X)
        /\ ToSet(FlattenSeq(tt)) = UNION {ToSet(s) : s \in ToSet(tt)}
    BY <1>2
  <2>3. /\ FlattenSeq(tt) \o t \in Seq(X)
        /\ ToSet(FlattenSeq(tt) \o t) = ToSet(FlattenSeq(tt)) \cup ToSet(t)
    BY <2>2, Concatenated
  <2>4. UNION {ToSet(s) : s \in ToSet(tt) \cup {t}}
          = (UNION {ToSet(s) : s \in ToSet(tt)}) \cup ToSet(t)
    BY UnionAppended
  <2>5. ToSet(FlattenSeq(Append(tt, t))) = UNION {ToSet(s) : s \in ToSet(Append(tt, t))}
    BY <2>1, <2>2, <2>3, <2>4, Zenon
  <2> QED BY <2>1, <2>2, <2>3, <2>5
<1> HIDE DEF T
<1>3. ss \in T
  BY <1>1, <1>2, SeqInduction
<1> QED BY <1>3 DEF T

\* The list of the values of g at the first n positions.
IsList(g, n, Y) ==
  g = [i \in 1..n |-> g[i]] /\ \A i \in 1..n : g[i] \in Y

LEMMA ListType ==
  ASSUME NEW Y, NEW n \in Nat, NEW g, IsList(g, n, Y)
  PROVE  g \in Seq(Y) /\ Len(g) = n /\ DOMAIN g = 1..n
<1>1. g \in [1..n -> Y]
  BY DEF IsList
<1>2. g \in Seq(Y) /\ Len(g) = n
  BY <1>1
<1> QED BY <1>1, <1>2

LEMMA MappedAppend ==
  ASSUME NEW Y, NEW f \in Seq(Y), NEW g \in Seq(Y), Len(g) = Len(f) + 1,
         \A i \in 1..Len(f) : g[i] = f[i]
  PROVE  g = Append(f, g[Len(f) + 1])
<1> DEFINE y == g[Len(f) + 1]
<1>1. Len(f) \in Nat /\ y \in Y
  OBVIOUS
<1>2. /\ Append(f, y) \in Seq(Y) /\ Len(Append(f, y)) = Len(f) + 1
      /\ Append(f, y)[Len(f) + 1] = y
      /\ \A i \in 1..Len(f) : Append(f, y)[i] = f[i]
  BY <1>1, Appended
<1>3. \A i \in 1..Len(g) : g[i] = Append(f, y)[i]
  <2>1. \A i \in 1..Len(g) : i \in 1..Len(f) \/ i = Len(f) + 1
    BY <1>1
  <2> QED BY <1>2, <2>1
<1> QED BY <1>2, <1>3, SameSequence

\* A place in a sequence, counted from 0.
LEMMA Found ==
  ASSUME NEW X, NEW s \in Seq(X), NEW x \in ToSet(s)
  PROVE  IndexOf(s, x) \in 0..(Len(s) - 1) /\ Nth(s, IndexOf(s, x)) = x
<1> DEFINE I == {i \in 1..Len(s) : s[i] = x}
           J == {n \in Nat : \A m \in 0..n : m \notin I}
<1>1. Len(s) \in Nat /\ DOMAIN s = 1..Len(s)
  OBVIOUS
<1>2. I # {}
  BY <1>1 DEF ToSet
<1>3. \E i \in I : \A j \in I : i <= j
  <2> SUFFICES ASSUME \A i \in I : \E j \in I : j < i PROVE FALSE
    BY <1>1
  <2>1. 0 \in J
    OBVIOUS
  <2>2. \A n \in Nat : n \in J => n + 1 \in J
    <3> SUFFICES ASSUME NEW n \in Nat, n \in J PROVE n + 1 \notin I
      OBVIOUS
    <3>1. \A j \in I : j < n + 1 => j \in 0..n
      BY <1>1
    <3> QED BY <3>1
  <2> HIDE DEF J
  <2>3. Nat \subseteq J
    BY <2>1, <2>2, SetInduction
  <2>4. \A i \in I : i \in Nat /\ i \in 0..i
    BY <1>1
  <2> QED BY <1>2, <2>3, <2>4 DEF J
<1>4. SelectInSeq(s, LAMBDA y : y = x) = Min(I)
  BY <1>2 DEF SelectInSeq
<1>5. Min(I) \in I
  BY <1>3 DEF Min
<1> HIDE DEF I
<1>6. IndexOf(s, x) = Min(I) - 1
  BY <1>4 DEF IndexOf
<1>7. Min(I) \in 1..Len(s) /\ s[Min(I)] = x
  BY <1>5 DEF I
<1>8. (Min(I) - 1) + 1 = Min(I) /\ Min(I) - 1 \in 0..(Len(s) - 1)
  BY <1>1, <1>7
<1> QED BY <1>6, <1>7, <1>8 DEF Nth

-----------------------------------------------------------------------------
(* Lists without repetitions.                                              *)

Distinct(s) == \A i, j \in 1..Len(s) : s[i] = s[j] => i = j

LEMMA DistinctAppend ==
  ASSUME NEW X, NEW s \in Seq(X), NEW x \in X
  PROVE  Distinct(Append(s, x)) <=> Distinct(s) /\ x \notin ToSet(s)
<1> DEFINE t == Append(s, x)
           n == Len(s)
<1>1. /\ Len(t) = n + 1 /\ n \in Nat
      /\ \A i \in 1..n : t[i] = s[i]
      /\ t[n + 1] = x
  BY Appended
<1>2. \A y : y \in ToSet(s) <=> \E i \in 1..n : s[i] = y
  <2>1. DOMAIN s = 1..n
    OBVIOUS
  <2> QED BY <2>1 DEF ToSet
<1> HIDE DEF t, n
<1>3. \A i \in 1..(n + 1) : i \in 1..n \/ i = n + 1
  BY <1>1
<1>4. ASSUME Distinct(t) PROVE Distinct(s) /\ x \notin ToSet(s)
  <2>1. \A i \in 1..n : i \in 1..(n + 1) /\ i # n + 1
    BY <1>1
  <2>2. n + 1 \in 1..(n + 1)
    BY <1>1
  <2>3. \A i, j \in 1..n : s[i] = s[j] => i = j
    BY <1>1, <1>4, <2>1 DEF Distinct
  <2>4. \A i \in 1..n : s[i] # x
    BY <1>1, <1>4, <2>1, <2>2 DEF Distinct
  <2> QED BY <1>2, <2>3, <2>4 DEF Distinct, n
<1>5. ASSUME Distinct(s), x \notin ToSet(s) PROVE Distinct(t)
  <2>1. \A i \in 1..n : s[i] # x
    BY <1>2, <1>5
  <2>2. \A i, j \in 1..n : s[i] = s[j] => i = j
    BY <1>5 DEF Distinct, n
  <2>3. ASSUME NEW i \in 1..(n + 1), NEW j \in 1..(n + 1), t[i] = t[j] PROVE i = j
    BY <1>1, <1>3, <2>1, <2>2, <2>3
  <2> QED BY <1>1, <2>3 DEF Distinct
<1> QED BY <1>4, <1>5 DEF t

LEMMA NoneDistinct == Distinct(<< >>)
BY DEF Distinct

LEMMA DistinctBoth ==
  ASSUME NEW X, NEW s \in Seq(X), NEW t \in Seq(X), Distinct(s), Distinct(t),
         ToSet(s) \cap ToSet(t) = {}
  PROVE  Distinct(s \o t)
<1> DEFINE u == s \o t
           n == Len(s)
           k == Len(t)
<1>1. /\ Len(u) = n + k /\ n \in Nat /\ k \in Nat
      /\ \A i \in 1..n : u[i] = s[i]
      /\ \A i \in 1..k : u[n + i] = t[i]
  BY Concatenated
<1>2. \A i \in 1..n, j \in 1..k : s[i] # t[j]
  <2>1. DOMAIN s = 1..n /\ DOMAIN t = 1..k
    OBVIOUS
  <2> QED BY <2>1 DEF ToSet
<1>3. (\A i, j \in 1..n : s[i] = s[j] => i = j) /\ (\A i, j \in 1..k : t[i] = t[j] => i = j)
  BY DEF Distinct
<1> HIDE DEF u, n, k
<1>4. \A i \in 1..(n + k) : i \in 1..n \/ (i - n \in 1..k /\ n + (i - n) = i)
  BY <1>1
<1>5. ASSUME NEW i \in 1..(n + k), NEW j \in 1..(n + k), u[i] = u[j] PROVE i = j
  <2>1. CASE i \in 1..n /\ j \in 1..n
    BY <1>1, <1>3, <1>5, <2>1
  <2>2. CASE i \in 1..n /\ j - n \in 1..k /\ n + (j - n) = j
    BY <1>1, <1>2, <1>5, <2>2
  <2>3. CASE i - n \in 1..k /\ n + (i - n) = i /\ j \in 1..n
    BY <1>1, <1>2, <1>5, <2>3
  <2>4. CASE i - n \in 1..k /\ n + (i - n) = i /\ j - n \in 1..k /\ n + (j - n) = j
    <3>1. u[i] = t[i - n] /\ u[j] = t[j - n]
      BY <1>1, <2>4
    <3>2. i - n = j - n
      BY <1>3, <1>5, <2>4, <3>1
    <3> QED BY <1>1, <3>2
  <2> QED BY <1>4, <2>1, <2>2, <2>3, <2>4
<1> QED BY <1>1, <1>5 DEF Distinct, u

LEMMA OnlyDistinct ==
  ASSUME NEW X, NEW Z, NEW s \in Seq(X), Distinct(s)
  PROVE  Distinct(Only(s, Z))
<1> DEFINE T == {t \in Seq(X) : Distinct(t) => Distinct(Only(t, Z))}
<1>1. << >> \in T
  BY OnlyAppend, EmptySequence, NoneDistinct
<1>2. ASSUME NEW t \in Seq(X), NEW x \in X, t \in T PROVE Append(t, x) \in T
  <2>1. Only(Append(t, x), Z) = IF x \in Z THEN Append(Only(t, Z), x) ELSE Only(t, Z)
    <3>1. \A u \in Seq(X), y \in X :
            Only(Append(u, y), Z) = IF y \in Z THEN Append(Only(u, Z), y) ELSE Only(u, Z)
      BY OnlyAppend
    <3> QED BY <3>1
  <2>2. Distinct(Append(t, x)) => Distinct(t) /\ x \notin ToSet(t)
    BY DistinctAppend
  <2>3. Only(t, Z) \in Seq(X) /\ ToSet(Only(t, Z)) = ToSet(t) \cap Z
    BY OnlyKeeps
  <2>4. Distinct(Only(t, Z)) /\ x \notin ToSet(Only(t, Z)) => Distinct(Append(Only(t, Z), x))
    BY <2>3, DistinctAppend
  <2>5. Append(t, x) \in Seq(X)
    BY Appended
  <2> QED BY <1>2, <2>1, <2>2, <2>3, <2>4, <2>5
<1>3. s \in T
  <2> HIDE DEF T
  <2> QED BY <1>1, <1>2, SeqInduction
<1> QED BY <1>3

LEMMA FirstOnlyDistinct ==
  ASSUME NEW X, NEW s \in Seq(X)
  PROVE  Distinct(FirstOnly(s))
<1> DEFINE T == {t \in Seq(X) : Distinct(FirstOnly(t))}
<1>1. << >> \in T
  BY FirstOnlyAppend, EmptySequence, NoneDistinct
<1>2. ASSUME NEW t \in Seq(X), NEW x \in X, t \in T PROVE Append(t, x) \in T
  <2>1. FirstOnly(Append(t, x)) = IF Contains(FirstOnly(t), x) THEN FirstOnly(t)
                                  ELSE Append(FirstOnly(t), x)
    BY FirstOnlyAppend
  <2>2. FirstOnly(t) \in Seq(X)
    BY FirstOnlyKeeps
  <2>3. Contains(FirstOnly(t), x) <=> x \in ToSet(FirstOnly(t))
    BY DEF Contains, ToSet
  <2>4. Distinct(FirstOnly(t)) /\ x \notin ToSet(FirstOnly(t))
          => Distinct(Append(FirstOnly(t), x))
    BY <2>2, DistinctAppend
  <2>5. Append(t, x) \in Seq(X)
    BY Appended
  <2> QED BY <1>2, <2>1, <2>3, <2>4, <2>5
<1>3. s \in T
  <2> HIDE DEF T
  <2> QED BY <1>1, <1>2, SeqInduction
<1> QED BY <1>3

-----------------------------------------------------------------------------
(* What the author writes.                                                 *)

Metas(D) == [address : D, signer : BOOLEAN, writable : BOOLEAN]

Writing(D) == [program : D, accounts : Seq(Metas(D))]

LEMMA MetaType ==
  ASSUME NEW D, NEW a \in D, NEW signer \in BOOLEAN, NEW writable \in BOOLEAN
  PROVE  /\ Meta(a, signer, writable) \in Metas(D)
         /\ Meta(a, signer, writable).address = a
         /\ Meta(a, signer, writable).signer = signer
         /\ Meta(a, signer, writable).writable = writable
BY DEF Meta, Metas

LEMMA AddressesType ==
  ASSUME NEW D, NEW metas \in Seq(Metas(D))
  PROVE  /\ AddressesIn(metas) \in Seq(D)
         /\ Len(AddressesIn(metas)) = Len(metas)
         /\ \A i \in 1..Len(metas) : AddressesIn(metas)[i] = metas[i].address
<1> DEFINE g == AddressesIn(metas)
<1>1. DOMAIN metas = 1..Len(metas) /\ \A i \in 1..Len(metas) : metas[i] \in Metas(D)
  OBVIOUS
<1>2. g = [i \in DOMAIN metas |-> metas[i].address]
  BY DEF AddressesIn, Mapped
<1>3. \A i \in 1..Len(metas) : g[i] = metas[i].address /\ g[i] \in D
  BY <1>1, <1>2 DEF Metas
<1>4. g = [i \in 1..Len(metas) |-> g[i]] /\ Len(metas) \in Nat
  BY <1>1, <1>2
<1> HIDE DEF g
<1>5. IsList(g, Len(metas), D)
  BY <1>3, <1>4 DEF IsList
<1>6. g \in Seq(D) /\ Len(g) = Len(metas)
  BY <1>4, <1>5, ListType
<1> QED BY <1>3, <1>6 DEF g

LEMMA KeysOfAll ==
  ASSUME NEW D, Vault \in D, NEW ixs \in Seq(Writing(D))
  PROVE  /\ KeysOf(ixs) \in Seq(D) /\ Distinct(KeysOf(ixs))
         /\ Vault \in ToSet(KeysOf(ixs))
         /\ \A i \in 1..Len(ixs) :
              /\ ixs[i].program \in ToSet(KeysOf(ixs))
              /\ \A j \in 1..Len(ixs[i].accounts) :
                   ixs[i].accounts[j].address \in ToSet(KeysOf(ixs))
<1> DEFINE lists == Mapped(ixs, LAMBDA ix : <<ix.program>> \o AddressesIn(ix.accounts))
           all == <<Vault>> \o FlattenSeq(lists)
<1>1. DOMAIN ixs = 1..Len(ixs) /\ \A i \in 1..Len(ixs) : ixs[i] \in Writing(D)
  OBVIOUS
<1>2. lists = [i \in DOMAIN ixs |-> <<ixs[i].program>> \o AddressesIn(ixs[i].accounts)]
  BY DEF Mapped
<1> HIDE DEF lists
<1>3. ASSUME NEW i \in 1..Len(ixs)
      PROVE  /\ lists[i] \in Seq(D)
             /\ ixs[i].program \in ToSet(lists[i])
             /\ \A j \in 1..Len(ixs[i].accounts) : ixs[i].accounts[j].address \in ToSet(lists[i])
  <2> DEFINE p == <<ixs[i].program>>
             a == AddressesIn(ixs[i].accounts)
  <2>1. ixs[i].program \in D /\ ixs[i].accounts \in Seq(Metas(D))
    BY <1>1 DEF Writing
  <2>2. p \in Seq(D) /\ ixs[i].program \in ToSet(p)
    <3>1. p \in Seq(D) /\ 1 \in DOMAIN p /\ p[1] = ixs[i].program
      BY <2>1
    <3> QED BY <3>1 DEF ToSet
  <2>3. /\ a \in Seq(D) /\ Len(a) = Len(ixs[i].accounts)
        /\ \A j \in 1..Len(ixs[i].accounts) : a[j] = ixs[i].accounts[j].address
    BY <2>1, AddressesType
  <2>4. lists[i] = p \o a
    BY <1>1, <1>2
  <2> HIDE DEF p, a
  <2>5. p \o a \in Seq(D) /\ ToSet(p \o a) = ToSet(p) \cup ToSet(a)
    BY <2>2, <2>3, Concatenated
  <2>6. \A j \in 1..Len(ixs[i].accounts) : ixs[i].accounts[j].address \in ToSet(a)
    <3>1. DOMAIN a = 1..Len(a)
      BY <2>3
    <3> QED BY <2>3, <3>1 DEF ToSet
  <2> QED BY <2>2, <2>4, <2>5, <2>6
<1>4. lists \in Seq(Seq(D)) /\ Len(lists) = Len(ixs) /\ DOMAIN lists = 1..Len(ixs)
  <2>1. IsList(lists, Len(ixs), Seq(D))
    BY <1>1, <1>2, <1>3 DEF IsList
  <2> QED BY <2>1, ListType, Len(ixs) \in Nat
<1>5. FlattenSeq(lists) \in Seq(D) /\ ToSet(FlattenSeq(lists))
        = UNION {ToSet(s) : s \in ToSet(lists)}
  BY <1>4, FlattenKeeps
<1>6. <<Vault>> \in Seq(D) /\ Vault \in ToSet(<<Vault>>)
  <2>1. <<Vault>> \in Seq(D) /\ 1 \in DOMAIN <<Vault>> /\ <<Vault>>[1] = Vault
    OBVIOUS
  <2> QED BY <2>1 DEF ToSet
<1>7. all \in Seq(D) /\ ToSet(all) = ToSet(<<Vault>>) \cup ToSet(FlattenSeq(lists))
  BY <1>5, <1>6, Concatenated
<1>8. KeysOf(ixs) = FirstOnly(all)
  BY Zenon DEF KeysOf, lists
<1> HIDE DEF all
<1>9. KeysOf(ixs) \in Seq(D) /\ ToSet(KeysOf(ixs)) = ToSet(all) /\ Distinct(KeysOf(ixs))
  <2>1. all \in Seq(D)
    BY <1>7
  <2>2. FirstOnly(all) \in Seq(D) /\ ToSet(FirstOnly(all)) = ToSet(all)
    BY <2>1, FirstOnlyKeeps
  <2>3. Distinct(FirstOnly(all))
    BY <2>1, FirstOnlyDistinct
  <2> QED BY <1>8, <2>2, <2>3
<1>10. \A i \in 1..Len(ixs) : ToSet(lists[i]) \subseteq ToSet(KeysOf(ixs))
  <2>1. \A i \in 1..Len(ixs) : lists[i] \in ToSet(lists)
    BY <1>4 DEF ToSet
  <2> QED BY <1>5, <1>7, <1>9, <2>1
<1> QED BY <1>3, <1>6, <1>7, <1>9, <1>10

\* The accounts that a message writes to: the vault, and those that an instruction
\* writes to.
LEMMA WritableAccounts ==
  ASSUME NEW D, NEW ixs \in Seq(Writing(D)), NEW a
  PROVE  a \in WritablesOf(ixs) <=>
           \/ a = Vault
           \/ \E i \in 1..Len(ixs) : \E j \in 1..Len(ixs[i].accounts) :
                ixs[i].accounts[j].writable /\ ixs[i].accounts[j].address = a
<1> DEFINE lists == Mapped(ixs, LAMBDA ix : ix.accounts)
<1>1. DOMAIN ixs = 1..Len(ixs) /\ \A i \in 1..Len(ixs) : ixs[i] \in Writing(D)
  OBVIOUS
<1>2. lists = [i \in DOMAIN ixs |-> ixs[i].accounts]
  BY DEF Mapped
<1>3. MetasOf(ixs) = FlattenSeq(lists)
  BY DEF MetasOf
<1> HIDE DEF lists
<1>4. \A i \in 1..Len(ixs) : lists[i] = ixs[i].accounts /\ lists[i] \in Seq(Metas(D))
  BY <1>1, <1>2 DEF Writing
<1>5. lists \in Seq(Seq(Metas(D))) /\ DOMAIN lists = 1..Len(ixs)
  <2>1. IsList(lists, Len(ixs), Seq(Metas(D)))
    BY <1>1, <1>2, <1>4 DEF IsList
  <2> QED BY <2>1, ListType, Len(ixs) \in Nat
<1>6. ToSet(MetasOf(ixs)) = UNION {ToSet(s) : s \in ToSet(lists)}
  BY <1>3, <1>5, FlattenKeeps
<1>7. \A m : m \in ToSet(MetasOf(ixs)) <=>
             \E i \in 1..Len(ixs) : \E j \in 1..Len(ixs[i].accounts) : m = ixs[i].accounts[j]
  <2>1. \A i \in 1..Len(ixs) : DOMAIN lists[i] = 1..Len(ixs[i].accounts)
    BY <1>4
  <2>2. \A m : m \in ToSet(MetasOf(ixs)) <=> \E s \in ToSet(lists) : m \in ToSet(s)
    BY <1>6
  <2>3. \A s : s \in ToSet(lists) <=> \E i \in 1..Len(ixs) : s = lists[i]
    BY <1>5 DEF ToSet
  <2>4. \A i \in 1..Len(ixs) : \A m : m \in ToSet(lists[i]) <=>
          \E j \in 1..Len(ixs[i].accounts) : m = ixs[i].accounts[j]
    <3> SUFFICES ASSUME NEW i \in 1..Len(ixs)
                 PROVE  \A m : m \in ToSet(lists[i]) <=>
                          \E j \in 1..Len(ixs[i].accounts) : m = ixs[i].accounts[j]
      OBVIOUS
    <3>1. ToSet(lists[i]) = {ixs[i].accounts[j] : j \in 1..Len(ixs[i].accounts)}
      <4> DEFINE as == ixs[i].accounts
      <4>1. lists[i] = as /\ DOMAIN as = 1..Len(as)
        BY <1>4, <2>1
      <4> HIDE DEF as
      <4>2. ToSet(as) = {as[j] : j \in 1..Len(as)}
        BY <4>1 DEF ToSet
      <4> QED BY <4>1, <4>2 DEF as
    <3> QED BY <3>1
  <2>5. \A m : (\E s \in ToSet(lists) : m \in ToSet(s)) <=>
               \E i \in 1..Len(ixs) : m \in ToSet(lists[i])
    <3> TAKE m
    <3>1. ASSUME NEW s \in ToSet(lists), m \in ToSet(s)
          PROVE  \E i \in 1..Len(ixs) : m \in ToSet(lists[i])
      <4>1. PICK i \in 1..Len(ixs) : s = lists[i]
        BY <2>3
      <4> QED BY <3>1, <4>1
    <3>2. ASSUME NEW i \in 1..Len(ixs), m \in ToSet(lists[i])
          PROVE  \E s \in ToSet(lists) : m \in ToSet(s)
      <4>1. lists[i] \in ToSet(lists)
        BY <2>3
      <4> QED BY <3>2, <4>1
    <3> QED BY <3>1, <3>2
  <2> TAKE m
  <2>6. m \in ToSet(MetasOf(ixs)) <=> \E i \in 1..Len(ixs) : m \in ToSet(lists[i])
    BY <2>2, <2>5
  <2>7. (\E i \in 1..Len(ixs) : m \in ToSet(lists[i])) <=>
          \E i \in 1..Len(ixs) : \E j \in 1..Len(ixs[i].accounts) : m = ixs[i].accounts[j]
    <3>1. \A i \in 1..Len(ixs) : m \in ToSet(lists[i]) <=>
            \E j \in 1..Len(ixs[i].accounts) : m = ixs[i].accounts[j]
      BY <2>4
    <3> QED BY ONLY <3>1, Zenon
  <2> QED BY <2>6, <2>7
<1>8. a \in WritablesOf(ixs) <=>
        a = Vault \/ \E m \in ToSet(MetasOf(ixs)) : m.writable /\ m.address = a
  BY DEF WritablesOf
<1> QED BY <1>7, <1>8

LEMMA SumType ==
  ASSUME NEW s \in Seq(Nat)
  PROVE  SumOf(s) \in Nat
<1> DEFINE T == {t \in Seq(Nat) : SumOf(t) \in Nat}
<1>1. << >> \in T
  BY SumAppend
<1>2. ASSUME NEW t \in Seq(Nat), NEW x \in Nat, t \in T PROVE Append(t, x) \in T
  <2>1. SumOf(Append(t, x)) = SumOf(t) + x
    BY SumAppend
  <2>2. Append(t, x) \in Seq(Nat)
    OBVIOUS
  <2> QED BY <1>2, <2>1, <2>2
<1> HIDE DEF T
<1>3. s \in T
  BY <1>1, <1>2, SeqInduction
<1> QED BY <1>3 DEF T

Lengths(ss) == [i \in 1..Len(ss) |-> Len(ss[i])]

LEMMA LengthsType ==
  ASSUME NEW X, NEW ss \in Seq(Seq(X))
  PROVE  /\ Lengths(ss) \in Seq(Nat) /\ Len(Lengths(ss)) = Len(ss)
         /\ \A i \in 1..Len(ss) : Lengths(ss)[i] = Len(ss[i])
<1>1. Len(ss) \in Nat /\ \A i \in 1..Len(ss) : Len(ss[i]) \in Nat
  OBVIOUS
<1>2. \A i \in 1..Len(ss) : Lengths(ss)[i] = Len(ss[i])
  BY DEF Lengths
<1>3. IsList(Lengths(ss), Len(ss), Nat)
  BY <1>1 DEF IsList, Lengths
<1> QED BY <1>1, <1>2, <1>3, ListType

LEMMA LengthsAppend ==
  ASSUME NEW X, NEW ss \in Seq(Seq(X)), NEW s \in Seq(X)
  PROVE  Lengths(Append(ss, s)) = Append(Lengths(ss), Len(s)) /\ Len(s) \in Nat
<1> DEFINE tt == Append(ss, s)
           n == Len(ss)
<1>1. /\ tt \in Seq(Seq(X)) /\ Len(tt) = n + 1 /\ n \in Nat /\ Len(s) \in Nat
      /\ tt[n + 1] = s /\ \A i \in 1..n : tt[i] = ss[i]
  BY Appended
<1>2. /\ Lengths(ss) \in Seq(Nat) /\ Len(Lengths(ss)) = n
      /\ \A i \in 1..n : Lengths(ss)[i] = Len(ss[i])
  BY LengthsType
<1> HIDE DEF tt
<1>3. /\ Lengths(tt) \in Seq(Nat) /\ Len(Lengths(tt)) = n + 1
      /\ \A i \in 1..(n + 1) : Lengths(tt)[i] = Len(tt[i])
  <2>1. /\ Lengths(tt) \in Seq(Nat) /\ Len(Lengths(tt)) = Len(tt)
        /\ \A i \in 1..Len(tt) : Lengths(tt)[i] = Len(tt[i])
    BY <1>1, LengthsType
  <2> QED BY <1>1, <2>1
<1>4. Lengths(tt) = Append(Lengths(ss), Lengths(tt)[n + 1])
  <2>1. \A i \in 1..n : i \in 1..(n + 1)
    BY <1>1
  <2>2. \A i \in 1..Len(Lengths(ss)) : Lengths(tt)[i] = Lengths(ss)[i]
    BY <1>1, <1>2, <1>3, <2>1
  <2> QED BY <1>2, <1>3, <2>2, MappedAppend
<1>5. n + 1 \in 1..(n + 1)
  BY <1>1
<1> QED BY <1>1, <1>3, <1>4, <1>5 DEF tt

\* The list of lists, flattened, is as long as its parts together.
LEMMA LengthSums ==
  ASSUME NEW X, NEW ss \in Seq(Seq(X))
  PROVE  SumOf(Lengths(ss)) = Len(FlattenSeq(ss)) /\ Len(FlattenSeq(ss)) \in Nat
<1> DEFINE T == {tt \in Seq(Seq(X)) : SumOf(Lengths(tt)) = Len(FlattenSeq(tt))}
<1>1. << >> \in T
  <2>1. Lengths(<< >>) = << >>
    <3>1. << >> \in Seq(Seq(X)) /\ Len(<< >>) = 0
      OBVIOUS
    <3>2. Lengths(<< >>) \in Seq(Nat) /\ Len(Lengths(<< >>)) = 0
      BY <3>1, LengthsType
    <3> QED BY <3>2
  <2>2. SumOf(<< >>) = 0 /\ FlattenSeq(<< >>) = << >>
    BY SumAppend, FlattenAppend
  <2> QED BY <2>1, <2>2
<1>2. ASSUME NEW tt \in Seq(Seq(X)), NEW t \in Seq(X), tt \in T PROVE Append(tt, t) \in T
  <2>1. Append(tt, t) \in Seq(Seq(X))
    BY Appended
  <2>2. Lengths(Append(tt, t)) = Append(Lengths(tt), Len(t)) /\ Len(t) \in Nat
    BY LengthsAppend
  <2>3. Lengths(tt) \in Seq(Nat)
    BY LengthsType
  <2>4. SumOf(Append(Lengths(tt), Len(t))) = SumOf(Lengths(tt)) + Len(t)
    BY <2>2, <2>3, SumAppend
  <2>5. FlattenSeq(Append(tt, t)) = FlattenSeq(tt) \o t
    <3>1. \A uu \in Seq(Seq(X)), u \in Seq(X) : FlattenSeq(Append(uu, u)) = FlattenSeq(uu) \o u
      BY FlattenAppend
    <3> QED BY <3>1
  <2>6. FlattenSeq(tt) \in Seq(X)
    BY FlattenKeeps
  <2>7. Len(FlattenSeq(tt) \o t) = Len(FlattenSeq(tt)) + Len(t)
    BY <2>6
  <2> QED BY <1>2, <2>1, <2>2, <2>4, <2>5, <2>7
<1> HIDE DEF T
<1>3. ss \in T
  BY <1>1, <1>2, SeqInduction
<1>4. FlattenSeq(ss) \in Seq(X)
  BY FlattenKeeps
<1> QED BY <1>3, <1>4 DEF T

\* Where the parts of a flattened list are.
PartsInPlace(ss) ==
  \A l \in 1..Len(ss) :
    LET b == SumOf(Lengths(SubSeq(ss, 1, l - 1)))
    IN  b \in Nat /\ \A i \in 1..Len(ss[l]) :
          b + i \in 1..Len(FlattenSeq(ss)) /\ FlattenSeq(ss)[b + i] = ss[l][i]

LEMMA FlattenAt ==
  ASSUME NEW X, NEW ss \in Seq(Seq(X))
  PROVE  PartsInPlace(ss)
<1> DEFINE T == {tt \in Seq(Seq(X)) : PartsInPlace(tt)}
<1>1. << >> \in T
  <2>1. << >> \in Seq(Seq(X)) /\ 1..Len(<< >>) = {}
    OBVIOUS
  <2> QED BY <2>1 DEF PartsInPlace
<1>2. ASSUME NEW tt \in Seq(Seq(X)), NEW t \in Seq(X), tt \in T PROVE Append(tt, t) \in T
  <2> DEFINE uu == Append(tt, t)
             n == Len(tt)
             f == FlattenSeq(tt)
             Z(vv, l) == SumOf(Lengths(SubSeq(vv, 1, l - 1)))
  <2>1. /\ uu \in Seq(Seq(X)) /\ Len(uu) = n + 1 /\ n \in Nat
        /\ uu[n + 1] = t /\ \A i \in 1..n : uu[i] = tt[i]
    BY Appended
  <2>2. FlattenSeq(uu) = f \o t
    <3>1. \A vv \in Seq(Seq(X)), u \in Seq(X) : FlattenSeq(Append(vv, u)) = FlattenSeq(vv) \o u
      BY FlattenAppend
    <3> QED BY <3>1
  <2>3. f \in Seq(X) /\ Len(f) \in Nat /\ Len(t) \in Nat
    BY FlattenKeeps
  <2>4. /\ Len(f \o t) = Len(f) + Len(t)
        /\ \A i \in 1..Len(f) : (f \o t)[i] = f[i]
        /\ \A i \in 1..Len(t) : (f \o t)[Len(f) + i] = t[i]
    BY <2>3, Concatenated
  <2> HIDE DEF uu
  <2>5. \A l \in 1..(n + 1) : SubSeq(uu, 1, l - 1) = SubSeq(tt, 1, l - 1)
    BY <2>1
  <2>6. SubSeq(tt, 1, n) = tt
    OBVIOUS
  <2> HIDE DEF f
  <2>7. ASSUME NEW l \in 1..n
        PROVE  Z(uu, l) \in Nat /\ \A i \in 1..Len(uu[l]) :
                 Z(uu, l) + i \in 1..Len(f \o t) /\ (f \o t)[Z(uu, l) + i] = uu[l][i]
    <3>1. Z(tt, l) \in Nat /\ \A i \in 1..Len(tt[l]) :
             Z(tt, l) + i \in 1..Len(f) /\ f[Z(tt, l) + i] = tt[l][i]
      <4>1. PartsInPlace(tt)
        BY <1>2
      <4>2. l \in 1..Len(tt)
        OBVIOUS
      <4> QED BY <4>1, <4>2, Zenon DEF PartsInPlace, f
    <3>2. Z(uu, l) = Z(tt, l) /\ uu[l] = tt[l]
      <4>1. l \in 1..(n + 1)
        BY <2>1
      <4>2. SubSeq(uu, 1, l - 1) = SubSeq(tt, 1, l - 1)
        BY <2>5, <4>1
      <4> QED BY <2>1, <4>2
    <3> HIDE DEF Z
    <3>3. \A j \in 1..Len(f) : j \in 1..Len(f \o t)
      BY <2>3, <2>4
    <3> QED BY <2>4, <3>1, <3>2, <3>3
  <2>8. /\ Z(uu, n + 1) \in Nat
        /\ \A i \in 1..Len(uu[n + 1]) :
             /\ Z(uu, n + 1) + i \in 1..Len(f \o t)
             /\ (f \o t)[Z(uu, n + 1) + i] = uu[n + 1][i]
    <3>1. (n + 1) - 1 = n /\ n + 1 \in 1..(n + 1)
      BY <2>1
    <3>2. Z(uu, n + 1) = Len(f)
      BY <2>5, <2>6, <3>1, LengthSums DEF f
    <3> HIDE DEF Z
    <3> QED BY <2>1, <2>3, <2>4, <3>2
  <2>9. \A l \in 1..(n + 1) : l \in 1..n \/ l = n + 1
    BY <2>1
  <2>10. PartsInPlace(uu)
    <3> HIDE DEF n
    <3>1. \A l \in 1..Len(uu) : Z(uu, l) \in Nat /\ \A i \in 1..Len(uu[l]) :
            Z(uu, l) + i \in 1..Len(f \o t) /\ (f \o t)[Z(uu, l) + i] = uu[l][i]
      <4> HIDE DEF Z
      <4> QED BY <2>1, <2>7, <2>8, <2>9
    <3> QED BY <2>2, <3>1 DEF PartsInPlace
  <2> QED BY <2>1, <2>10 DEF uu
<1> HIDE DEF T
<1>3. ss \in T
  BY <1>1, <1>2, SeqInduction
<1> QED BY <1>3 DEF T

LEMMA ListAppend ==
  ASSUME NEW Y, NEW n \in Nat, NEW f, NEW g, IsList(f, n, Y), IsList(g, n + 1, Y),
         \A i \in 1..n : g[i] = f[i]
  PROVE  g = Append(f, g[n + 1]) /\ g[n + 1] \in Y
<1>1. f \in Seq(Y) /\ Len(f) = n
  BY ListType
<1>2. n + 1 \in Nat /\ n + 1 \in 1..(n + 1)
  OBVIOUS
<1>3. g \in Seq(Y) /\ Len(g) = n + 1
  BY <1>2, ListType
<1>4. g[n + 1] \in Y
  BY <1>2 DEF IsList
<1>5. g = Append(f, g[Len(f) + 1])
  BY <1>1, <1>3, MappedAppend
<1> QED BY <1>1, <1>4, <1>5

Sums(ns, ms) == [i \in 1..Len(ns) |-> ns[i] + ms[i]]

LEMMA SumsType ==
  ASSUME NEW ns \in Seq(Nat), NEW ms \in Seq(Nat), Len(ms) = Len(ns)
  PROVE  IsList(Sums(ns, ms), Len(ns), Nat) /\ Len(ns) \in Nat
<1>1. \A i \in 1..Len(ns) : ns[i] \in Nat
  OBVIOUS
<1>2. \A i \in 1..Len(ms) : ms[i] \in Nat
  OBVIOUS
<1>3. \A i \in 1..Len(ns) : ns[i] + ms[i] \in Nat
  BY <1>1, <1>2
<1> QED BY <1>3 DEF IsList, Sums

LEMMA SumsAppend ==
  ASSUME NEW ns \in Seq(Nat), NEW ms \in Seq(Nat), Len(ms) = Len(ns),
         NEW a \in Nat, NEW b \in Nat
  PROVE  Sums(Append(ns, a), Append(ms, b)) = Append(Sums(ns, ms), a + b)
<1> DEFINE n == Len(ns)
           us == Append(ns, a)
           vs == Append(ms, b)
<1>1. /\ us \in Seq(Nat) /\ Len(us) = n + 1 /\ n \in Nat
      /\ us[n + 1] = a /\ \A i \in 1..n : us[i] = ns[i]
  BY Appended
<1>2. /\ vs \in Seq(Nat) /\ Len(vs) = n + 1
      /\ vs[n + 1] = b /\ \A i \in 1..n : vs[i] = ms[i]
  <2>1. /\ vs \in Seq(Nat) /\ Len(vs) = Len(ms) + 1
        /\ vs[Len(ms) + 1] = b /\ \A i \in 1..Len(ms) : vs[i] = ms[i]
    BY Appended
  <2> QED BY <2>1
<1> HIDE DEF us, vs
<1>3. IsList(Sums(ns, ms), n, Nat)
  BY SumsType
<1>4. IsList(Sums(us, vs), n + 1, Nat)
  <2>1. IsList(Sums(us, vs), Len(us), Nat)
    BY <1>1, <1>2, SumsType
  <2> QED BY <1>1, <2>1
<1>5. \A i \in 1..n : Sums(us, vs)[i] = Sums(ns, ms)[i]
  <2> SUFFICES ASSUME NEW i \in 1..n PROVE Sums(us, vs)[i] = Sums(ns, ms)[i]
    OBVIOUS
  <2>1. us[i] = ns[i] /\ vs[i] = ms[i]
    BY <1>1, <1>2
  <2>2. i \in 1..Len(us) /\ i \in 1..Len(ns)
    BY <1>1
  <2> QED BY <2>1, <2>2 DEF Sums
<1>6. Sums(us, vs)[n + 1] = a + b
  <2>1. n + 1 \in 1..Len(us)
    BY <1>1
  <2> QED BY <1>1, <1>2, <2>1 DEF Sums
<1> HIDE DEF n
<1>7. Sums(us, vs) = Append(Sums(ns, ms), Sums(us, vs)[n + 1])
  BY <1>1, <1>3, <1>4, <1>5, ListAppend
<1> QED BY <1>6, <1>7 DEF us, vs

SumsAdd(ns) ==
  \A ms \in Seq(Nat) : Len(ms) = Len(ns) => SumOf(Sums(ns, ms)) = SumOf(ns) + SumOf(ms)

LEMMA Regrouped ==
  ASSUME NEW w \in Nat, NEW x \in Nat, NEW y \in Nat, NEW z \in Nat
  PROVE  (w + x) + (y + z) = (w + y) + (x + z)
OBVIOUS

LEMMA SumOfSums ==
  ASSUME NEW ns \in Seq(Nat)
  PROVE  SumsAdd(ns)
<1> DEFINE T == {us \in Seq(Nat) : SumsAdd(us)}
<1>1. << >> \in T
  <2>1. << >> \in Seq(Nat) /\ Len(<< >>) = 0 /\ 0 \in Nat /\ SumOf(<< >>) = 0
    BY SumAppend
  <2> SUFFICES ASSUME NEW vs \in Seq(Nat), Len(vs) = 0
               PROVE  SumOf(Sums(<< >>, vs)) = SumOf(<< >>) + SumOf(vs)
    BY <2>1 DEF SumsAdd
  <2>2. vs = << >>
    OBVIOUS
  <2>3. IsList(Sums(<< >>, vs), 0, Nat)
    BY <2>1, SumsType
  <2>4. Sums(<< >>, vs) \in Seq(Nat) /\ Len(Sums(<< >>, vs)) = 0
    BY <2>1, <2>3, ListType
  <2>5. Sums(<< >>, vs) = << >>
    BY <2>4
  <2> QED BY <2>1, <2>2, <2>5
<1>2. ASSUME NEW us \in Seq(Nat), NEW a \in Nat, us \in T PROVE Append(us, a) \in T
  <2>0. SumsAdd(us)
    BY <1>2
  <2> HIDE DEF T
  <2> DEFINE n == Len(us)
             cs == Append(us, a)
  <2>1. cs \in Seq(Nat) /\ Len(cs) = n + 1 /\ n \in Nat
    BY Appended
  <2>2. SumOf(cs) = SumOf(us) + a
    BY SumAppend
  <2>3. ASSUME NEW ds \in Seq(Nat), Len(ds) = n + 1
        PROVE  SumOf(Sums(cs, ds)) = SumOf(cs) + SumOf(ds)
    <3>1. PICK vs \in Seq(Nat), b \in Nat : Len(vs) = n /\ Append(vs, b) = ds
      <4>1. /\ SubSeq(ds, 1, n) \in Seq(Nat) /\ Len(SubSeq(ds, 1, n)) = n /\ ds[n + 1] \in Nat
            /\ Append(SubSeq(ds, 1, n), ds[n + 1]) = ds
        BY <2>1, <2>3, FrontAndLast
      <4> QED BY <4>1
    <3>2. SumOf(Append(vs, b)) = SumOf(vs) + b
      BY <3>1, SumAppend
    <3>3. SumOf(Sums(us, vs)) = SumOf(us) + SumOf(vs)
      BY <2>0, <3>1 DEF SumsAdd
    <3>4. Sums(cs, ds) = Append(Sums(us, vs), a + b)
      <4>1. Sums(cs, Append(vs, b)) = Append(Sums(us, vs), a + b)
        BY <3>1, SumsAppend
      <4> QED BY <3>1, <4>1
    <3>5. Sums(us, vs) \in Seq(Nat) /\ a + b \in Nat
      <4>1. IsList(Sums(us, vs), n, Nat)
        BY <3>1, SumsType
      <4> HIDE DEF n
      <4>2. Sums(us, vs) \in Seq(Nat)
        BY <2>1, <4>1, ListType
      <4>3. a + b \in Nat
        OBVIOUS
      <4> QED BY <4>2, <4>3
    <3>6. SumOf(Append(Sums(us, vs), a + b)) = SumOf(Sums(us, vs)) + (a + b)
      BY <3>5, SumAppend
    <3>7. SumOf(us) \in Nat /\ SumOf(vs) \in Nat
      BY <3>1, SumType
    <3>8. SumOf(ds) = SumOf(vs) + b
      BY <3>1, <3>2
    <3>9. SumOf(Sums(cs, ds)) = (SumOf(us) + SumOf(vs)) + (a + b)
      BY <3>3, <3>4, <3>6
    <3>10. (SumOf(us) + SumOf(vs)) + (a + b) = (SumOf(us) + a) + (SumOf(vs) + b)
      BY ONLY <3>7, a \in Nat, b \in Nat, Regrouped
    <3> QED BY <2>2, <3>8, <3>9, <3>10
  <2>4. SumsAdd(cs)
    BY <2>1, <2>3 DEF SumsAdd
  <2> HIDE DEF cs
  <2> QED BY <2>1, <2>4 DEF T, cs
<1> HIDE DEF T
<1>3. ns \in T
  BY <1>1, <1>2, SeqInduction
<1> QED BY <1>3 DEF T

-----------------------------------------------------------------------------
(* Addresses of lists.                                                     *)

LEMMA AddressesOfBoth ==
  ASSUME NEW D, NEW s \in Seq(Metas(D)), NEW t \in Seq(Metas(D))
  PROVE  AddressesIn(s \o t) = AddressesIn(s) \o AddressesIn(t)
<1> DEFINE u == s \o t
           p == AddressesIn(s)
           q == AddressesIn(t)
<1>1. /\ u \in Seq(Metas(D))
      /\ Len(u) = Len(s) + Len(t) /\ Len(s) \in Nat /\ Len(t) \in Nat
      /\ \A i \in 1..Len(s) : u[i] = s[i]
      /\ \A i \in 1..Len(t) : u[Len(s) + i] = t[i]
  BY Concatenated
<1> HIDE DEF u
<1>2. p \in Seq(D) /\ Len(p) = Len(s) /\ \A i \in 1..Len(s) : p[i] = s[i].address
  BY AddressesType
<1>3. q \in Seq(D) /\ Len(q) = Len(t) /\ \A i \in 1..Len(t) : q[i] = t[i].address
  BY AddressesType
<1>4. /\ AddressesIn(u) \in Seq(D) /\ Len(AddressesIn(u)) = Len(u)
      /\ \A i \in 1..Len(u) : AddressesIn(u)[i] = u[i].address
  BY <1>1, AddressesType
<1> HIDE DEF p, q
<1>5. /\ p \o q \in Seq(D)
      /\ Len(p \o q) = Len(p) + Len(q)
      /\ \A i \in 1..Len(p) : (p \o q)[i] = p[i]
      /\ \A i \in 1..Len(q) : (p \o q)[Len(p) + i] = q[i]
  <2>1. p \in Seq(D) /\ q \in Seq(D)
    BY <1>2, <1>3
  <2> QED BY <2>1, Concatenated
<1>6. ASSUME NEW i \in 1..Len(u) PROVE AddressesIn(u)[i] = (p \o q)[i]
  <2>1. CASE i \in 1..Len(s)
    BY <1>1, <1>2, <1>4, <1>5, <2>1
  <2>2. CASE i \notin 1..Len(s)
    <3>1. i - Len(s) \in 1..Len(t) /\ Len(s) + (i - Len(s)) = i
      BY <1>1, <2>2
    <3>2. u[i] = t[i - Len(s)] /\ (p \o q)[i] = q[i - Len(s)]
      <4> DEFINE j == i - Len(s)
      <4>1. j \in 1..Len(t) /\ Len(s) + j = i
        BY <3>1
      <4> HIDE DEF j
      <4>2. u[Len(s) + j] = t[j] /\ (p \o q)[Len(s) + j] = q[j]
        BY <1>1, <1>2, <1>3, <1>5, <4>1
      <4> QED BY <4>1, <4>2 DEF j
    <3> QED BY <1>3, <1>4, <3>1, <3>2
  <2> QED BY <2>1, <2>2
<1>7. AddressesIn(u) = p \o q
  BY <1>1, <1>2, <1>3, <1>4, <1>5, <1>6, SameSequence
<1> QED BY <1>7 DEF u, p, q

AddressLists(ss) == [l \in 1..Len(ss) |-> AddressesIn(ss[l])]

LEMMA AddressesOfAll ==
  ASSUME NEW D, NEW ss \in Seq(Seq(Metas(D)))
  PROVE  AddressesIn(FlattenSeq(ss)) = FlattenSeq(AddressLists(ss))
<1> DEFINE Same(tt) == AddressesIn(FlattenSeq(tt)) = FlattenSeq(AddressLists(tt))
           T == {tt \in Seq(Seq(Metas(D))) : Same(tt)}
<1>0. \A tt \in Seq(Seq(Metas(D))) :
        Len(tt) \in Nat /\ IsList(AddressLists(tt), Len(tt), Seq(D))
  <2> TAKE tt \in Seq(Seq(Metas(D)))
  <2>1. \A i \in 1..Len(tt) : tt[i] \in Seq(Metas(D))
    OBVIOUS
  <2>2. \A i \in 1..Len(tt) : AddressesIn(tt[i]) \in Seq(D)
    BY <2>1, AddressesType
  <2> QED BY <2>2 DEF IsList, AddressLists
<1>1. << >> \in T
  <2>1. << >> \in Seq(Seq(Metas(D))) /\ << >> \in Seq(Metas(D)) /\ Len(<< >>) = 0 /\ 0 \in Nat
    OBVIOUS
  <2>2. AddressLists(<< >>) = << >>
    <3>1. IsList(AddressLists(<< >>), 0, Seq(D))
      BY <1>0, <2>1
    <3>2. AddressLists(<< >>) \in Seq(Seq(D)) /\ Len(AddressLists(<< >>)) = 0
      BY <2>1, <3>1, ListType
    <3> QED BY <3>2
  <2>3. AddressesIn(<< >>) = << >>
    <3>1. AddressesIn(<< >>) \in Seq(D) /\ Len(AddressesIn(<< >>)) = 0
      BY <2>1, AddressesType
    <3> QED BY <3>1
  <2>4. FlattenSeq(<< >>) = << >>
    BY FlattenAppend
  <2> QED BY <2>1, <2>2, <2>3, <2>4
<1>2. ASSUME NEW tt \in Seq(Seq(Metas(D))), NEW t \in Seq(Metas(D)), tt \in T
      PROVE  Append(tt, t) \in T
  <2> DEFINE uu == Append(tt, t)
             n == Len(tt)
  <2>1. /\ uu \in Seq(Seq(Metas(D))) /\ Len(uu) = n + 1 /\ n \in Nat
        /\ uu[n + 1] = t /\ \A i \in 1..n : uu[i] = tt[i]
    BY Appended
  <2>2. FlattenSeq(uu) = FlattenSeq(tt) \o t
    <3>1. \A vv \in Seq(Seq(Metas(D))), v \in Seq(Metas(D)) :
            FlattenSeq(Append(vv, v)) = FlattenSeq(vv) \o v
      BY FlattenAppend
    <3> QED BY <3>1
  <2>3. FlattenSeq(tt) \in Seq(Metas(D))
    BY FlattenKeeps
  <2>4. AddressesIn(FlattenSeq(tt) \o t) = AddressesIn(FlattenSeq(tt)) \o AddressesIn(t)
    BY <2>3, AddressesOfBoth
  <2> HIDE DEF uu
  <2>5. AddressLists(uu) = Append(AddressLists(tt), AddressesIn(t)) /\ AddressesIn(t) \in Seq(D)
    <3>1. IsList(AddressLists(tt), n, Seq(D)) /\ IsList(AddressLists(uu), n + 1, Seq(D))
      BY <1>0, <2>1
    <3>2. n + 1 \in 1..(n + 1) /\ \A i \in 1..n : i \in 1..(n + 1)
      BY <2>1
    <3>3. \A i \in 1..n : AddressLists(uu)[i] = AddressLists(tt)[i]
      BY <2>1, <3>2 DEF AddressLists
    <3>4. AddressLists(uu)[n + 1] = AddressesIn(t)
      BY <2>1, <3>2 DEF AddressLists
    <3> HIDE DEF n
    <3> QED BY <2>1, <3>1, <3>3, <3>4, ListAppend
  <2>6. AddressLists(tt) \in Seq(Seq(D))
    BY <1>0, ListType
  <2>7. FlattenSeq(Append(AddressLists(tt), AddressesIn(t)))
          = FlattenSeq(AddressLists(tt)) \o AddressesIn(t)
    <3>1. \A vv \in Seq(Seq(D)), v \in Seq(D) : FlattenSeq(Append(vv, v)) = FlattenSeq(vv) \o v
      BY FlattenAppend
    <3> QED BY <2>5, <2>6, <3>1
  <2>8. Same(tt)
    BY <1>2
  <2>9. Same(uu)
    BY <2>2, <2>4, <2>5, <2>7, <2>8
  <2> HIDE DEF Same
  <2> QED BY <2>1, <2>9 DEF uu
<1> HIDE DEF T
<1>3. ss \in T
  BY <1>1, <1>2, SeqInduction
<1> QED BY <1>3 DEF T

-----------------------------------------------------------------------------
(* What lookups load.                                                      *)

\* Lookups that lie within their tables.
LookupsIn(table) ==
  {l \in [table : DOMAIN table, writable : Seq(Nat), readonly : Seq(Nat)] :
     /\ \A i \in 1..Len(l.writable) : l.writable[i] < Len(table[l.table])
     /\ \A i \in 1..Len(l.readonly) : l.readonly[i] < Len(table[l.table])}

Entries(list, indexes) == [i \in 1..Len(indexes) |-> Nth(list, indexes[i])]

WritableLoaded(lookups, table) ==
  [l \in 1..Len(lookups) |-> Entries(table[lookups[l].table], lookups[l].writable)]
ReadonlyLoaded(lookups, table) ==
  [l \in 1..Len(lookups) |-> Entries(table[lookups[l].table], lookups[l].readonly)]
LoadedLists(lookups, table) ==
  [l \in 1..Len(lookups) |-> LoadedMetas(lookups[l], table)]
LEMMA EntriesType ==
  ASSUME NEW D, NEW list \in Seq(D), NEW indexes \in Seq(Nat),
         \A i \in 1..Len(indexes) : indexes[i] < Len(list)
  PROVE  /\ Entries(list, indexes) \in Seq(D)
         /\ Len(Entries(list, indexes)) = Len(indexes) /\ Len(indexes) \in Nat
         /\ \A i \in 1..Len(indexes) : Entries(list, indexes)[i] = Nth(list, indexes[i])
<1>1. \A i \in 1..Len(indexes) : indexes[i] \in Nat
  OBVIOUS
<1>2. \A i \in 1..Len(indexes) : indexes[i] + 1 \in 1..Len(list)
  BY <1>1
<1>3. \A i \in 1..Len(indexes) : Nth(list, indexes[i]) \in D
  BY <1>2 DEF Nth
<1>4. \A i \in 1..Len(indexes) : Entries(list, indexes)[i] = Nth(list, indexes[i])
  BY DEF Entries
<1>5. IsList(Entries(list, indexes), Len(indexes), D) /\ Len(indexes) \in Nat
  BY <1>3 DEF IsList, Entries
<1> QED BY <1>4, <1>5, ListType

LEMMA LookupType ==
  ASSUME NEW D, NEW U, NEW table \in [U -> Seq(D)], NEW l \in LookupsIn(table)
  PROVE  /\ l.table \in U /\ table[l.table] \in Seq(D)
         /\ l.writable \in Seq(Nat) /\ l.readonly \in Seq(Nat)
         /\ \A i \in 1..Len(l.writable) : l.writable[i] < Len(table[l.table])
         /\ \A i \in 1..Len(l.readonly) : l.readonly[i] < Len(table[l.table])
BY DEF LookupsIn

LoadedInOrder(D, l, table) ==
  LET w == Entries(table[l.table], l.writable)
      r == Entries(table[l.table], l.readonly)
      m == LoadedMetas(l, table)
  IN  /\ w \in Seq(D) /\ Len(w) = Len(l.writable) /\ Len(w) \in Nat
      /\ r \in Seq(D) /\ Len(r) = Len(l.readonly) /\ Len(r) \in Nat
      /\ m \in Seq(Metas(D)) /\ Len(m) = Len(w) + Len(r)
      /\ \A i \in 1..Len(w) : m[i] = Meta(w[i], FALSE, TRUE)
      /\ \A i \in 1..Len(r) : m[Len(w) + i] = Meta(r[i], FALSE, FALSE)

LEMMA LoadedType ==
  ASSUME NEW D, NEW U, NEW table \in [U -> Seq(D)], NEW l \in LookupsIn(table)
  PROVE  LoadedInOrder(D, l, table)
<1> DEFINE w == Entries(table[l.table], l.writable)
           r == Entries(table[l.table], l.readonly)
           p == [i \in DOMAIN l.writable |-> Meta(Nth(table[l.table], l.writable[i]), FALSE, TRUE)]
           q == [i \in DOMAIN l.readonly |-> Meta(Nth(table[l.table], l.readonly[i]), FALSE, FALSE)]
<1>1. /\ table[l.table] \in Seq(D) /\ l.writable \in Seq(Nat) /\ l.readonly \in Seq(Nat)
      /\ \A i \in 1..Len(l.writable) : l.writable[i] < Len(table[l.table])
      /\ \A i \in 1..Len(l.readonly) : l.readonly[i] < Len(table[l.table])
  BY LookupType
<1>2. /\ w \in Seq(D) /\ Len(w) = Len(l.writable) /\ Len(w) \in Nat
      /\ \A i \in 1..Len(w) : w[i] = Nth(table[l.table], l.writable[i])
  <2>1. /\ w \in Seq(D) /\ Len(w) = Len(l.writable) /\ Len(l.writable) \in Nat
        /\ \A i \in 1..Len(l.writable) : w[i] = Nth(table[l.table], l.writable[i])
    BY <1>1, EntriesType
  <2> HIDE DEF w
  <2> QED BY <2>1
<1>3. /\ r \in Seq(D) /\ Len(r) = Len(l.readonly) /\ Len(r) \in Nat
      /\ \A i \in 1..Len(r) : r[i] = Nth(table[l.table], l.readonly[i])
  <2>1. /\ r \in Seq(D) /\ Len(r) = Len(l.readonly) /\ Len(l.readonly) \in Nat
        /\ \A i \in 1..Len(l.readonly) : r[i] = Nth(table[l.table], l.readonly[i])
    BY <1>1, EntriesType
  <2> HIDE DEF r
  <2> QED BY <2>1
<1>4. LoadedMetas(l, table) = p \o q
  BY DEF LoadedMetas, Mapped
<1>5. DOMAIN l.writable = 1..Len(l.writable) /\ DOMAIN l.readonly = 1..Len(l.readonly)
  BY <1>1
<1> HIDE DEF w, r
<1>6. /\ p = [i \in 1..Len(w) |-> p[i]]
      /\ \A i \in 1..Len(w) : p[i] = Meta(w[i], FALSE, TRUE) /\ p[i] \in Metas(D)
  <2>1. p = [i \in 1..Len(w) |-> Meta(w[i], FALSE, TRUE)]
    BY <1>2, <1>5
  <2>2. \A i \in 1..Len(w) : w[i] \in D
    BY <1>2
  <2>3. \A i \in 1..Len(w) : Meta(w[i], FALSE, TRUE) \in Metas(D)
    BY <2>2, MetaType
  <2> HIDE DEF p
  <2> QED BY <2>1, <2>3
<1>7. /\ q = [i \in 1..Len(r) |-> q[i]]
      /\ \A i \in 1..Len(r) : q[i] = Meta(r[i], FALSE, FALSE) /\ q[i] \in Metas(D)
  <2>1. q = [i \in 1..Len(r) |-> Meta(r[i], FALSE, FALSE)]
    BY <1>3, <1>5
  <2>2. \A i \in 1..Len(r) : r[i] \in D
    BY <1>3
  <2>3. \A i \in 1..Len(r) : Meta(r[i], FALSE, FALSE) \in Metas(D)
    BY <2>2, MetaType
  <2> HIDE DEF q
  <2> QED BY <2>1, <2>3
<1> HIDE DEF p, q
<1>8. IsList(p, Len(w), Metas(D)) /\ IsList(q, Len(r), Metas(D))
  BY <1>6, <1>7 DEF IsList
<1>9. p \in Seq(Metas(D)) /\ Len(p) = Len(w) /\ q \in Seq(Metas(D)) /\ Len(q) = Len(r)
  BY <1>2, <1>3, <1>8, ListType
<1>10. /\ p \o q \in Seq(Metas(D)) /\ Len(p \o q) = Len(p) + Len(q)
       /\ \A i \in 1..Len(p) : (p \o q)[i] = p[i]
       /\ \A i \in 1..Len(q) : (p \o q)[Len(p) + i] = q[i]
  <2>1. p \in Seq(Metas(D)) /\ q \in Seq(Metas(D))
    BY <1>9
  <2> QED BY <2>1, Concatenated
<1>11. /\ LoadedMetas(l, table) \in Seq(Metas(D)) /\ Len(LoadedMetas(l, table)) = Len(w) + Len(r)
       /\ \A i \in 1..Len(w) : LoadedMetas(l, table)[i] = Meta(w[i], FALSE, TRUE)
       /\ \A i \in 1..Len(r) : LoadedMetas(l, table)[Len(w) + i] = Meta(r[i], FALSE, FALSE)
  BY <1>4, <1>6, <1>7, <1>9, <1>10
<1> QED BY <1>2, <1>3, <1>11 DEF LoadedInOrder, w, r

\* The lists that lookups load, as lists of lists.
LEMMA LoadedListsType ==
  ASSUME NEW D, NEW U, NEW table \in [U -> Seq(D)], NEW ls \in Seq(LookupsIn(table))
  PROVE  /\ Len(ls) \in Nat
         /\ IsList(WritableLoaded(ls, table), Len(ls), Seq(D))
         /\ IsList(ReadonlyLoaded(ls, table), Len(ls), Seq(D))
         /\ IsList(LoadedLists(ls, table), Len(ls), Seq(Metas(D)))
<1>1. \A i \in 1..Len(ls) : ls[i] \in LookupsIn(table)
  OBVIOUS
<1>2. \A i \in 1..Len(ls) :
        /\ Entries(table[ls[i].table], ls[i].writable) \in Seq(D)
        /\ Entries(table[ls[i].table], ls[i].readonly) \in Seq(D)
        /\ LoadedMetas(ls[i], table) \in Seq(Metas(D))
  BY <1>1, LoadedType DEF LoadedInOrder
<1> QED BY <1>2 DEF IsList, WritableLoaded, ReadonlyLoaded, LoadedLists

LEMMA LoadedAppend ==
  ASSUME NEW D, NEW U, NEW table \in [U -> Seq(D)], NEW ls \in Seq(LookupsIn(table)),
         NEW l \in LookupsIn(table)
  PROVE  /\ WritableLoaded(Append(ls, l), table)
              = Append(WritableLoaded(ls, table), Entries(table[l.table], l.writable))
         /\ ReadonlyLoaded(Append(ls, l), table)
              = Append(ReadonlyLoaded(ls, table), Entries(table[l.table], l.readonly))
<1> DEFINE n == Len(ls)
           ks == Append(ls, l)
<1>1. /\ ks \in Seq(LookupsIn(table)) /\ Len(ks) = n + 1 /\ n \in Nat
      /\ ks[n + 1] = l /\ \A i \in 1..n : ks[i] = ls[i]
  BY Appended
<1> HIDE DEF ks
<1>2. /\ IsList(WritableLoaded(ls, table), n, Seq(D))
      /\ IsList(ReadonlyLoaded(ls, table), n, Seq(D))
  BY LoadedListsType
<1>3. /\ IsList(WritableLoaded(ks, table), n + 1, Seq(D))
      /\ IsList(ReadonlyLoaded(ks, table), n + 1, Seq(D))
  <2>1. /\ IsList(WritableLoaded(ks, table), Len(ks), Seq(D))
        /\ IsList(ReadonlyLoaded(ks, table), Len(ks), Seq(D))
    BY <1>1, LoadedListsType
  <2> QED BY <1>1, <2>1
<1>4. n + 1 \in 1..Len(ks) /\ \A i \in 1..n : i \in 1..Len(ks) /\ i \in 1..Len(ls)
  BY <1>1
<1>5. /\ \A i \in 1..n : WritableLoaded(ks, table)[i] = WritableLoaded(ls, table)[i]
      /\ WritableLoaded(ks, table)[n + 1] = Entries(table[l.table], l.writable)
  <2> HIDE DEF n
  <2> QED BY <1>1, <1>4 DEF WritableLoaded
<1>6. /\ \A i \in 1..n : ReadonlyLoaded(ks, table)[i] = ReadonlyLoaded(ls, table)[i]
      /\ ReadonlyLoaded(ks, table)[n + 1] = Entries(table[l.table], l.readonly)
  <2> HIDE DEF n
  <2> QED BY <1>1, <1>4 DEF ReadonlyLoaded
<1> HIDE DEF n
<1>7. WritableLoaded(ks, table)
        = Append(WritableLoaded(ls, table), WritableLoaded(ks, table)[n + 1])
  BY <1>1, <1>2, <1>3, <1>5, ListAppend
<1>8. ReadonlyLoaded(ks, table)
        = Append(ReadonlyLoaded(ls, table), ReadonlyLoaded(ks, table)[n + 1])
  BY <1>1, <1>2, <1>3, <1>6, ListAppend
<1> QED BY <1>5, <1>6, <1>7, <1>8 DEF ks

\* How many accounts are loaded, and how many of them to be written to.
LEMMA LoadedCounts ==
  ASSUME NEW D, NEW U, NEW table \in [U -> Seq(D)], NEW ls \in Seq(LookupsIn(table))
  PROVE  /\ NumLoaded(ls) = Len(FlattenSeq(LoadedLists(ls, table)))
         /\ NumLoaded(ls) = Len(FlattenSeq(WritableLoaded(ls, table)))
                            + Len(FlattenSeq(ReadonlyLoaded(ls, table)))
         /\ SumOf(Mapped(ls, LAMBDA l : Len(l.writable)))
              = Len(FlattenSeq(WritableLoaded(ls, table)))
         /\ NumLoaded(ls) \in Nat
<1> DEFINE M == WritableLoaded(ls, table)
           V == ReadonlyLoaded(ls, table)
           Z == LoadedLists(ls, table)
           n == Len(ls)
<1>1. n \in Nat /\ DOMAIN ls = 1..n /\ \A i \in 1..n : ls[i] \in LookupsIn(table)
  OBVIOUS
<1>2. /\ M \in Seq(Seq(D)) /\ Len(M) = n
      /\ V \in Seq(Seq(D)) /\ Len(V) = n
      /\ Z \in Seq(Seq(Metas(D))) /\ Len(Z) = n
  <2>1. n \in Nat /\ IsList(M, n, Seq(D)) /\ IsList(V, n, Seq(D)) /\ IsList(Z, n, Seq(Metas(D)))
    BY LoadedListsType
  <2> HIDE DEF M, V, Z, n
  <2> QED BY <2>1, ListType
<1>3. \A i \in 1..n : /\ Len(M[i]) = Len(ls[i].writable) /\ Len(V[i]) = Len(ls[i].readonly)
                      /\ Len(Z[i]) = Len(M[i]) + Len(V[i])
  <2> SUFFICES ASSUME NEW i \in 1..n
               PROVE  /\ Len(M[i]) = Len(ls[i].writable) /\ Len(V[i]) = Len(ls[i].readonly)
                      /\ Len(Z[i]) = Len(M[i]) + Len(V[i])
    OBVIOUS
  <2>1. /\ M[i] = Entries(table[ls[i].table], ls[i].writable)
        /\ V[i] = Entries(table[ls[i].table], ls[i].readonly)
        /\ Z[i] = LoadedMetas(ls[i], table)
    BY DEF WritableLoaded, ReadonlyLoaded, LoadedLists
  <2> HIDE DEF M, V, Z
  <2>2. LoadedInOrder(D, ls[i], table)
    BY <1>1, LoadedType
  <2> QED BY <2>1, <2>2 DEF LoadedInOrder
<1> HIDE DEF M, V, Z, n
<1>4. /\ Lengths(M) \in Seq(Nat) /\ Len(Lengths(M)) = n
      /\ \A i \in 1..n : Lengths(M)[i] = Len(ls[i].writable)
  <2>1. /\ Lengths(M) \in Seq(Nat) /\ Len(Lengths(M)) = Len(M)
        /\ \A i \in 1..Len(M) : Lengths(M)[i] = Len(M[i])
    BY <1>2, LengthsType
  <2> QED BY <1>2, <1>3, <2>1
<1>5. /\ Lengths(V) \in Seq(Nat) /\ Len(Lengths(V)) = n
      /\ \A i \in 1..n : Lengths(V)[i] = Len(ls[i].readonly)
  <2>1. /\ Lengths(V) \in Seq(Nat) /\ Len(Lengths(V)) = Len(V)
        /\ \A i \in 1..Len(V) : Lengths(V)[i] = Len(V[i])
    BY <1>2, LengthsType
  <2> QED BY <1>2, <1>3, <2>1
<1>6. Mapped(ls, LAMBDA l : Len(l.writable)) = Lengths(M)
  <2>1. Mapped(ls, LAMBDA l : Len(l.writable)) = [i \in 1..n |-> Len(ls[i].writable)]
    BY <1>1 DEF Mapped
  <2>2. Lengths(M) = [i \in 1..n |-> Len(ls[i].writable)]
    BY <1>2, <1>3 DEF Lengths
  <2> QED BY <2>1, <2>2
<1>7. Mapped(ls, LAMBDA l : Len(l.writable) + Len(l.readonly)) = Sums(Lengths(M), Lengths(V))
  <2>1. Mapped(ls, LAMBDA l : Len(l.writable) + Len(l.readonly))
          = [i \in 1..n |-> Len(ls[i].writable) + Len(ls[i].readonly)]
    BY <1>1 DEF Mapped
  <2>2. Sums(Lengths(M), Lengths(V))
          = [i \in 1..n |-> Len(ls[i].writable) + Len(ls[i].readonly)]
    BY <1>4, <1>5 DEF Sums
  <2> QED BY <2>1, <2>2
<1>8. Lengths(Z) = Sums(Lengths(M), Lengths(V))
  <2>1. Lengths(Z) = [i \in 1..n |-> Len(M[i]) + Len(V[i])]
    BY <1>2, <1>3 DEF Lengths
  <2>2. Sums(Lengths(M), Lengths(V)) = [i \in 1..n |-> Len(M[i]) + Len(V[i])]
    BY <1>3, <1>4, <1>5 DEF Sums
  <2> QED BY <2>1, <2>2
<1>9. /\ SumOf(Lengths(M)) = Len(FlattenSeq(M)) /\ SumOf(Lengths(V)) = Len(FlattenSeq(V))
      /\ SumOf(Lengths(Z)) = Len(FlattenSeq(Z)) /\ Len(FlattenSeq(Z)) \in Nat
  BY <1>2, LengthSums
<1>10. SumOf(Sums(Lengths(M), Lengths(V))) = SumOf(Lengths(M)) + SumOf(Lengths(V))
  <2>1. SumsAdd(Lengths(M))
    BY <1>4, SumOfSums
  <2> QED BY <1>4, <1>5, <2>1 DEF SumsAdd
<1>11. NumLoaded(ls) = SumOf(Sums(Lengths(M), Lengths(V)))
  BY <1>7 DEF NumLoaded
<1> QED BY <1>6, <1>8, <1>9, <1>10, <1>11 DEF M, V, Z

-----------------------------------------------------------------------------
(* What moves to a lookup table.                                           *)

Indexes(list, keys) == [i \in 1..Len(keys) |-> IndexOf(list, keys[i])]

LEMMA IndexesFound ==
  ASSUME NEW D, NEW list \in Seq(D), NEW keys \in Seq(D), ToSet(keys) \subseteq ToSet(list)
  PROVE  /\ Indexes(list, keys) \in Seq(Nat)
         /\ Len(Indexes(list, keys)) = Len(keys)
         /\ \A i \in 1..Len(keys) : Indexes(list, keys)[i] < Len(list)
         /\ Entries(list, Indexes(list, keys)) = keys
<1>1. DOMAIN keys = 1..Len(keys) /\ Len(keys) \in Nat /\ Len(list) \in Nat
  OBVIOUS
<1>2. \A i \in 1..Len(keys) : keys[i] \in ToSet(list)
  BY <1>1 DEF ToSet
<1>3. \A i \in 1..Len(keys) : /\ IndexOf(list, keys[i]) \in 0..(Len(list) - 1)
                              /\ Nth(list, IndexOf(list, keys[i])) = keys[i]
  BY <1>2, Found
<1> DEFINE g == Indexes(list, keys)
<1>4. g = [i \in 1..Len(keys) |-> g[i]] /\ \A i \in 1..Len(keys) : g[i] = IndexOf(list, keys[i])
  BY DEF Indexes
<1> HIDE DEF g
<1>5. \A i \in 1..Len(keys) : g[i] \in Nat /\ g[i] < Len(list) /\ Nth(list, g[i]) = keys[i]
  BY <1>1, <1>3, <1>4
<1>6. g \in Seq(Nat) /\ Len(g) = Len(keys)
  <2>1. IsList(g, Len(keys), Nat)
    BY <1>4, <1>5 DEF IsList
  <2> QED BY <1>1, <2>1, ListType
<1>7. Entries(list, g) = keys
  <2>1. /\ Entries(list, g) \in Seq(D) /\ Len(Entries(list, g)) = Len(g)
        /\ \A i \in 1..Len(g) : Entries(list, g)[i] = Nth(list, g[i])
    BY <1>5, <1>6, EntriesType
  <2> QED BY <1>5, <1>6, <2>1, SameSequence
<1> QED BY <1>5, <1>6, <1>7 DEF g

\* What the extraction collects.
Extracts(D, table) ==
  [left : Seq(D), lookups : Seq(LookupsIn(table)), writable : Seq(D), readonly : Seq(D)]

\* The lookup that loads w and r from table t.
LookupOf(t, table, w, r) ==
  [table |-> t, writable |-> Indexes(table[t], w), readonly |-> Indexes(table[t], r)]

LEMMA MovedTable ==
  ASSUME NEW D, NEW U, NEW table \in [U -> Seq(D)], NEW t \in U,
         NEW w \in Seq(D), ToSet(w) \subseteq ToSet(table[t]),
         NEW r \in Seq(D), ToSet(r) \subseteq ToSet(table[t])
  PROVE  LET l == LookupOf(t, table, w, r)
         IN  /\ l \in LookupsIn(table)
             /\ Entries(table[l.table], l.writable) = w
             /\ Entries(table[l.table], l.readonly) = r
<1> DEFINE l == LookupOf(t, table, w, r)
<1>1. table[t] \in Seq(D) /\ DOMAIN table = U
  OBVIOUS
<1>2. /\ Indexes(table[t], w) \in Seq(Nat) /\ Len(Indexes(table[t], w)) = Len(w)
      /\ \A i \in 1..Len(w) : Indexes(table[t], w)[i] < Len(table[t])
      /\ Entries(table[t], Indexes(table[t], w)) = w
  BY <1>1, IndexesFound
<1>3. /\ Indexes(table[t], r) \in Seq(Nat) /\ Len(Indexes(table[t], r)) = Len(r)
      /\ \A i \in 1..Len(r) : Indexes(table[t], r)[i] < Len(table[t])
      /\ Entries(table[t], Indexes(table[t], r)) = r
  BY <1>1, IndexesFound
<1>4. /\ l.table = t /\ l.writable = Indexes(table[t], w) /\ l.readonly = Indexes(table[t], r)
      /\ l \in [table : U, writable : Seq(Nat), readonly : Seq(Nat)]
  BY <1>2, <1>3 DEF LookupOf
<1> HIDE DEF l
<1>5. l \in LookupsIn(table)
  BY <1>1, <1>2, <1>3, <1>4 DEF LookupsIn
<1> QED BY <1>2, <1>3, <1>4, <1>5 DEF l

\* A table takes the keys that it holds, and keeps their addresses and what is
\* written to.
Taken(D, table, e, movable, M, f) ==
  /\ f \in Extracts(D, table)
  /\ ToSet(f.left) = ToSet(e.left) \ ToSet(movable)
  /\ \E w \in Seq(D), r \in Seq(D), l \in LookupsIn(table) :
       /\ f.lookups = Append(e.lookups, l)
       /\ Entries(table[l.table], l.writable) = w /\ ToSet(w) = ToSet(movable) \cap M
       /\ Entries(table[l.table], l.readonly) = r /\ ToSet(r) = ToSet(movable) \ M
       /\ f.writable = e.writable \o w
       /\ f.readonly = e.readonly \o r

LEMMA MovedTakes ==
  ASSUME NEW D, NEW U, NEW table \in [U -> Seq(D)], NEW t \in U, NEW M,
         NEW e \in Extracts(D, table), NEW movable \in Seq(D),
         ToSet(movable) \subseteq ToSet(table[t]), movable # << >>
  PROVE  Taken(D, table, e, movable, M, Moved(e, t, table, movable, M))
<1> DEFINE w == Only(movable, M)
           r == Only(movable, ToSet(movable) \ M)
           l == LookupOf(t, table, w, r)
           left == Only(e.left, ToSet(e.left) \ ToSet(movable))
           f == [left |-> left, lookups |-> Append(e.lookups, l),
                 writable |-> e.writable \o w, readonly |-> e.readonly \o r]
<1>1. w \in Seq(D) /\ ToSet(w) = ToSet(movable) \cap M
  BY OnlyKeeps
<1>2. r \in Seq(D) /\ ToSet(r) = ToSet(movable) \ M
  <2>1. r \in Seq(D) /\ ToSet(r) = ToSet(movable) \cap (ToSet(movable) \ M)
    BY OnlyKeeps
  <2> HIDE DEF r
  <2> QED BY <2>1
<1>3. /\ e.left \in Seq(D) /\ e.lookups \in Seq(LookupsIn(table))
      /\ e.writable \in Seq(D) /\ e.readonly \in Seq(D)
  BY DEF Extracts
<1>4. left \in Seq(D) /\ ToSet(left) = ToSet(e.left) \ ToSet(movable)
  <2>1. left \in Seq(D) /\ ToSet(left) = ToSet(e.left) \cap (ToSet(e.left) \ ToSet(movable))
    BY <1>3, OnlyKeeps
  <2> HIDE DEF left
  <2> QED BY <2>1
<1>5. Moved(e, t, table, movable, M) = f
  <2>1. DOMAIN w = 1..Len(w) /\ DOMAIN r = 1..Len(r)
    BY <1>1, <1>2
  <2>2. Mapped(w, LAMBDA k : IndexOf(table[t], k)) = Indexes(table[t], w)
    BY <2>1 DEF Mapped, Indexes
  <2>3. Mapped(r, LAMBDA k : IndexOf(table[t], k)) = Indexes(table[t], r)
    BY <2>1 DEF Mapped, Indexes
  <2>4. movable # << >>
    OBVIOUS
  <2> QED BY <2>2, <2>3, <2>4, Zenon DEF Moved, LookupOf
<1> HIDE DEF w, r, left
<1>6. /\ l \in LookupsIn(table)
      /\ Entries(table[l.table], l.writable) = w
      /\ Entries(table[l.table], l.readonly) = r
  <2>1. ToSet(w) \subseteq ToSet(table[t]) /\ ToSet(r) \subseteq ToSet(table[t])
    BY <1>1, <1>2
  <2> QED BY <1>1, <1>2, <2>1, MovedTable
<1> HIDE DEF l
<1>7. /\ Append(e.lookups, l) \in Seq(LookupsIn(table))
      /\ e.writable \o w \in Seq(D) /\ e.readonly \o r \in Seq(D)
  BY <1>1, <1>2, <1>3, <1>6
<1>8. /\ f \in Extracts(D, table)
      /\ f.left = left /\ f.lookups = Append(e.lookups, l)
      /\ f.writable = e.writable \o w /\ f.readonly = e.readonly \o r
  BY <1>4, <1>7 DEF Extracts
<1> HIDE DEF f
<1>9. Taken(D, table, e, movable, M, f)
  BY <1>1, <1>2, <1>4, <1>6, <1>8 DEF Taken
<1> QED BY <1>5, <1>9

\* What the tables leave and load: no signer is loaded, what is loaded is written
\* to or not as its list says, and together it is all keys.
Extraction(D, table, keys, G, M, e) ==
  /\ e \in Extracts(D, table)
  /\ e.writable = FlattenSeq(WritableLoaded(e.lookups, table))
  /\ e.readonly = FlattenSeq(ReadonlyLoaded(e.lookups, table))
  /\ ToSet(e.writable) \subseteq M \ G
  /\ ToSet(e.readonly) \cap (M \cup G) = {}
  /\ ToSet(e.left) \cup ToSet(e.writable) \cup ToSet(e.readonly) = keys

LEMMA TakenKeeps ==
  ASSUME NEW D, NEW U, NEW table \in [U -> Seq(D)], NEW keys, NEW G, NEW M, NEW e, NEW f,
         Extraction(D, table, keys, G, M, e), NEW movable,
         ToSet(movable) \subseteq ToSet(e.left), ToSet(movable) \cap G = {},
         Taken(D, table, e, movable, M, f)
  PROVE  Extraction(D, table, keys, G, M, f)
<1>1. PICK w \in Seq(D), r \in Seq(D), l \in LookupsIn(table) :
        /\ f.lookups = Append(e.lookups, l)
        /\ Entries(table[l.table], l.writable) = w /\ ToSet(w) = ToSet(movable) \cap M
        /\ Entries(table[l.table], l.readonly) = r /\ ToSet(r) = ToSet(movable) \ M
        /\ f.writable = e.writable \o w
        /\ f.readonly = e.readonly \o r
  BY DEF Taken
<1>2. f \in Extracts(D, table) /\ ToSet(f.left) = ToSet(e.left) \ ToSet(movable)
  BY DEF Taken
<1>3. /\ e \in Extracts(D, table)
      /\ e.writable = FlattenSeq(WritableLoaded(e.lookups, table))
      /\ e.readonly = FlattenSeq(ReadonlyLoaded(e.lookups, table))
      /\ ToSet(e.writable) \subseteq M \ G
      /\ ToSet(e.readonly) \cap (M \cup G) = {}
      /\ ToSet(e.left) \cup ToSet(e.writable) \cup ToSet(e.readonly) = keys
  BY DEF Extraction
<1>4. e.lookups \in Seq(LookupsIn(table)) /\ e.writable \in Seq(D) /\ e.readonly \in Seq(D)
  BY <1>3 DEF Extracts
<1>5. /\ WritableLoaded(f.lookups, table) = Append(WritableLoaded(e.lookups, table), w)
      /\ ReadonlyLoaded(f.lookups, table) = Append(ReadonlyLoaded(e.lookups, table), r)
  <2> DEFINE ls == e.lookups
  <2>1. ls \in Seq(LookupsIn(table))
    BY <1>4
  <2> HIDE DEF ls
  <2>2. /\ WritableLoaded(Append(ls, l), table)
             = Append(WritableLoaded(ls, table), Entries(table[l.table], l.writable))
        /\ ReadonlyLoaded(Append(ls, l), table)
             = Append(ReadonlyLoaded(ls, table), Entries(table[l.table], l.readonly))
    BY <2>1, LoadedAppend
  <2> QED BY <1>1, <2>2 DEF ls
<1>6. /\ WritableLoaded(e.lookups, table) \in Seq(Seq(D))
      /\ ReadonlyLoaded(e.lookups, table) \in Seq(Seq(D))
  <2>1. /\ Len(e.lookups) \in Nat
        /\ IsList(WritableLoaded(e.lookups, table), Len(e.lookups), Seq(D))
        /\ IsList(ReadonlyLoaded(e.lookups, table), Len(e.lookups), Seq(D))
    BY <1>4, LoadedListsType
  <2> QED BY <2>1, ListType
<1>7. /\ FlattenSeq(WritableLoaded(f.lookups, table)) = e.writable \o w
      /\ FlattenSeq(ReadonlyLoaded(f.lookups, table)) = e.readonly \o r
  <2>1. \A vv \in Seq(Seq(D)), v \in Seq(D) : FlattenSeq(Append(vv, v)) = FlattenSeq(vv) \o v
    BY FlattenAppend
  <2> QED BY <1>3, <1>5, <1>6, <2>1
<1>8. /\ ToSet(e.writable \o w) = ToSet(e.writable) \cup ToSet(w)
      /\ ToSet(e.readonly \o r) = ToSet(e.readonly) \cup ToSet(r)
  BY <1>4, Concatenated
<1>9. /\ ToSet(f.writable) = ToSet(e.writable) \cup (ToSet(movable) \cap M)
      /\ ToSet(f.readonly) = ToSet(e.readonly) \cup (ToSet(movable) \ M)
  BY <1>1, <1>8
<1>10. /\ ToSet(f.writable) \subseteq M \ G
       /\ ToSet(f.readonly) \cap (M \cup G) = {}
       /\ ToSet(f.left) \cup ToSet(f.writable) \cup ToSet(f.readonly) = keys
  BY <1>2, <1>3, <1>9
<1> QED BY <1>1, <1>2, <1>7, <1>10 DEF Extraction

LEMMA ExtractKeeps ==
  ASSUME NEW D, NEW U, NEW table \in [U -> Seq(D)], NEW keys, NEW ixs,
         NEW e, Extraction(D, table, keys, SignersOf(ixs), WritablesOf(ixs), e), NEW t \in U
  PROVE  Extraction(D, table, keys, SignersOf(ixs), WritablesOf(ixs),
                    ExtractTableLookup(e, t, table, ixs))
<1> DEFINE G == SignersOf(ixs)
           M == WritablesOf(ixs)
           movable == Only(e.left, ToSet(table[t]) \ G)
           f == Moved(e, t, table, movable, M)
<1>1. e \in Extracts(D, table) /\ e.left \in Seq(D)
  BY DEF Extraction, Extracts
<1>2. movable \in Seq(D) /\ ToSet(movable) = ToSet(e.left) \cap (ToSet(table[t]) \ G)
  BY <1>1, OnlyKeeps
<1>3. ExtractTableLookup(e, t, table, ixs) = f
  BY DEF ExtractTableLookup
<1> HIDE DEF G, M, movable
<1>4. Extraction(D, table, keys, G, M, e)
  BY DEF G, M
<1>5. CASE movable = << >>
  <2>1. f = e
    BY <1>5 DEF Moved
  <2> HIDE DEF f
  <2> QED BY <1>3, <1>4, <2>1 DEF G, M
<1>6. CASE movable # << >>
  <2>1. ToSet(movable) \subseteq ToSet(table[t])
    BY <1>2
  <2>2. Taken(D, table, e, movable, M, f)
    BY <1>1, <1>2, <1>6, <2>1, MovedTakes
  <2>3. ToSet(movable) \subseteq ToSet(e.left) /\ ToSet(movable) \cap G = {}
    BY <1>2
  <2> HIDE DEF f
  <2>4. Extraction(D, table, keys, G, M, f)
    BY <1>4, <2>2, <2>3, TakenKeeps
  <2> QED BY <1>3, <2>4 DEF G, M
<1> QED BY <1>5, <1>6

LEMMA ExtractType ==
  ASSUME NEW D, NEW U, NEW table \in [U -> Seq(D)], NEW ixs,
         NEW e \in Extracts(D, table), NEW t \in U
  PROVE  ExtractTableLookup(e, t, table, ixs) \in Extracts(D, table)
<1> DEFINE G == SignersOf(ixs)
           M == WritablesOf(ixs)
           movable == Only(e.left, ToSet(table[t]) \ G)
           f == Moved(e, t, table, movable, M)
<1>1. e.left \in Seq(D)
  BY DEF Extracts
<1>2. movable \in Seq(D) /\ ToSet(movable) = ToSet(e.left) \cap (ToSet(table[t]) \ G)
  BY <1>1, OnlyKeeps
<1>3. ExtractTableLookup(e, t, table, ixs) = f
  BY DEF ExtractTableLookup
<1> HIDE DEF G, M, movable
<1>4. CASE movable = << >>
  <2>1. f = e
    BY <1>4 DEF Moved
  <2> HIDE DEF f
  <2> QED BY <1>3, <2>1
<1>5. CASE movable # << >>
  <2>1. ToSet(movable) \subseteq ToSet(table[t])
    BY <1>2
  <2>2. Taken(D, table, e, movable, M, f)
    BY <1>2, <1>5, <2>1, MovedTakes
  <2> HIDE DEF f
  <2> QED BY <1>3, <2>2 DEF Taken
<1> QED BY <1>4, <1>5

NothingMoved(ixs) ==
  [left |-> KeysOf(ixs), lookups |-> << >>, writable |-> << >>, readonly |-> << >>]

LEMMA NothingMovedKeeps ==
  ASSUME NEW D, Vault \in D, NEW U, NEW table \in [U -> Seq(D)], NEW ixs \in Seq(Writing(D)),
         NEW G, NEW M
  PROVE  /\ NothingMoved(ixs) \in Extracts(D, table)
         /\ Extraction(D, table, ToSet(KeysOf(ixs)), G, M, NothingMoved(ixs))
<1> DEFINE e == NothingMoved(ixs)
<1>1. KeysOf(ixs) \in Seq(D)
  BY KeysOfAll
<1>2. /\ << >> \in Seq(LookupsIn(table)) /\ << >> \in Seq(D)
      /\ Len(<< >>) = 0 /\ 0 \in Nat /\ ToSet(<< >>) = {}
  BY EmptySequence
<1>3. /\ e.left = KeysOf(ixs) /\ e.lookups = << >> /\ e.writable = << >> /\ e.readonly = << >>
      /\ e \in Extracts(D, table)
  BY <1>1, <1>2 DEF NothingMoved, Extracts
<1> HIDE DEF e
<1>4. WritableLoaded(<< >>, table) = << >> /\ ReadonlyLoaded(<< >>, table) = << >>
  <2>1. /\ IsList(WritableLoaded(<< >>, table), 0, Seq(D))
        /\ IsList(ReadonlyLoaded(<< >>, table), 0, Seq(D))
    BY <1>2, LoadedListsType
  <2>2. /\ WritableLoaded(<< >>, table) \in Seq(Seq(D)) /\ Len(WritableLoaded(<< >>, table)) = 0
        /\ ReadonlyLoaded(<< >>, table) \in Seq(Seq(D)) /\ Len(ReadonlyLoaded(<< >>, table)) = 0
    BY <1>2, <2>1, ListType
  <2> QED BY <2>2
<1>5. FlattenSeq(<< >>) = << >>
  BY FlattenAppend
<1>6. Extraction(D, table, ToSet(KeysOf(ixs)), G, M, e)
  BY <1>2, <1>3, <1>4, <1>5 DEF Extraction
<1> QED BY <1>3, <1>6 DEF e

\* The tables one after another.
ExtractRun(g, s, ixs, table) ==
  /\ g[0] = NothingMoved(ixs)
  /\ \A i \in 1..Len(s) : g[i] = ExtractTableLookup(g[i - 1], s[i], table, ixs)
  /\ ExtractedTables(ixs, s, table) = g[Len(s)]

LEMMA ExtractRuns ==
  ASSUME NEW D, Vault \in D, NEW U, NEW table \in [U -> Seq(D)],
         NEW ixs \in Seq(Writing(D)), NEW s \in Seq(U)
  PROVE  \E g : ExtractRun(g, s, ixs, table)
<1> DEFINE n == Len(s)
           F == [p \in Extracts(D, table) \X (1..n) 
                   |-> ExtractTableLookup(p[1], s[p[2]], table, ixs)]
           Step(h, T) == IF T = {} THEN NothingMoved(ixs)
                   ELSE ExtractTableLookup(h[T \ {Max(T)}], s[Max(T)], table, ixs)
           iter == CHOOSE h : h = [T \in SUBSET DOMAIN s |-> Step(h, T)]
           g == [i \in 0..n |-> iter[1..i]]
<1>1. n \in Nat /\ DOMAIN s = 1..n /\ \A i \in 1..n : s[i] \in U
  OBVIOUS
<1>2. \E h : h = [T \in SUBSET DOMAIN s |-> Step(h, T)]
  <2>1. F \in [Extracts(D, table) \X (1..n) -> Extracts(D, table)]
    BY <1>1, ExtractType
  <2> HIDE DEF F
  <2>2. PICK h \in [SUBSET (1..n) -> Extracts(D, table)] : IsFold(h, n, NothingMoved(ixs), F)
    BY <1>1, <2>1, FoldExists, NothingMovedKeeps
  <2>3. ASSUME NEW T \in SUBSET (1..n) PROVE h[T] = Step(h, T)
    <3>1. CASE T = {}
      BY <2>2, <3>1 DEF IsFold
    <3>2. CASE T # {}
      <4>1. Max(T) \in 1..n
        BY <1>1, <3>2, MaxIn, Zenon
      <4>2. h[T \ {Max(T)}] \in Extracts(D, table)
        OBVIOUS
      <4>3. F[<<h[T \ {Max(T)}], Max(T)>>]
              = ExtractTableLookup(h[T \ {Max(T)}], s[Max(T)], table, ixs)
        BY <4>1, <4>2 DEF F
      <4> QED BY <2>2, <3>2, <4>3 DEF IsFold
    <3> QED BY <3>1, <3>2
  <2> HIDE DEF Step
  <2>4. h = [T \in SUBSET DOMAIN s |-> Step(h, T)]
    BY <1>1, <2>3
  <2> QED BY <2>4
<1>3. iter = [T \in SUBSET DOMAIN s |-> Step(iter, T)]
  BY <1>2, Zenon
<1>4. ExtractedTables(ixs, s, table) = iter[DOMAIN s]
  BY Zenon DEF ExtractedTables, NothingMoved, FoldLeft, MapThenFoldSet
<1> HIDE DEF iter
<1>5. g[0] = NothingMoved(ixs) /\ g[n] = iter[DOMAIN s]
  BY <1>1, <1>3
<1>6. ASSUME NEW i \in 1..n PROVE g[i] = ExtractTableLookup(g[i - 1], s[i], table, ixs)
  <2>1. Max(1..i) = i /\ (1..i) \ {Max(1..i)} = 1..(i - 1) /\ 1..i # {}
    BY MaxOfFirst
  <2>2. 1..i \in SUBSET DOMAIN s /\ g[i] = iter[1..i] /\ g[i - 1] = iter[1..(i - 1)]
    BY <1>1
  <2>3. iter[1..i] = Step(iter, 1..i)
    BY <1>3, <2>2, Zenon
  <2> QED BY <2>1, <2>2, <2>3
<1> HIDE DEF g
<1>7. ExtractRun(g, s, ixs, table)
  BY <1>4, <1>5, <1>6 DEF ExtractRun
<1> QED BY <1>7

\* The extraction, one table at a time.
ExtractSteps(ixs, table, U) ==
  /\ ExtractedTables(ixs, << >>, table) = NothingMoved(ixs)
  /\ \A s \in Seq(U), x \in U :
       ExtractedTables(ixs, Append(s, x), table)
         = ExtractTableLookup(ExtractedTables(ixs, s, table), x, table, ixs)

LEMMA ExtractAppend ==
  ASSUME NEW D, Vault \in D, NEW U, NEW table \in [U -> Seq(D)],
         NEW ixs \in Seq(Writing(D))
  PROVE  ExtractSteps(ixs, table, U)
<1>1. ExtractedTables(ixs, << >>, table) = NothingMoved(ixs)
  <2>1. << >> \in Seq(U) /\ Len(<< >>) = 0
    OBVIOUS
  <2>2. PICK g : ExtractRun(g, << >>, ixs, table)
    BY <2>1, ExtractRuns
  <2> QED BY <2>1, <2>2 DEF ExtractRun
<1>2. ASSUME NEW s \in Seq(U), NEW x \in U
      PROVE  ExtractedTables(ixs, Append(s, x), table)
              = ExtractTableLookup(ExtractedTables(ixs, s, table), x, table, ixs)
  <2> DEFINE n == Len(s)
             t == Append(s, x)
  <2>1. /\ t \in Seq(U) /\ Len(t) = n + 1 /\ n \in Nat
        /\ t[n + 1] = x /\ \A i \in 1..n : t[i] = s[i]
    OBVIOUS
  <2> HIDE DEF n, t
  <2>2. PICK g : ExtractRun(g, s, ixs, table)
    BY ExtractRuns
  <2>3. PICK h : ExtractRun(h, t, ixs, table)
    BY <2>1, ExtractRuns
  <2>4. g[n] = h[n]
    <3>1. \A i \in 1..n : i \in 1..Len(t) /\ i \in 1..Len(s)
      BY <2>1 DEF n
    <3>2. \A i \in 1..n : g[i - 1] = h[i - 1] => g[i] = h[i]
      BY <2>1, <2>2, <2>3, <3>1 DEF ExtractRun
    <3>3. g[0] = h[0]
      BY <2>2, <2>3 DEF ExtractRun
    <3> QED BY <2>1, <3>2, <3>3, SameSteps
  <2>5. h[n + 1] = ExtractTableLookup(h[n], x, table, ixs)
    <3>1. n + 1 \in 1..Len(t) /\ (n + 1) - 1 = n
      BY <2>1
    <3> QED BY <2>1, <2>3, <3>1 DEF ExtractRun
  <2>6. ExtractedTables(ixs, s, table) = g[n] /\ ExtractedTables(ixs, t, table) = h[n + 1]
    BY <2>1, <2>2, <2>3 DEF ExtractRun, n
  <2> QED BY <2>4, <2>5, <2>6 DEF t
<1> QED BY <1>1, <1>2 DEF ExtractSteps

\* Whatever tables are given.
LEMMA ExtractionHolds ==
  ASSUME NEW D, Vault \in D, NEW U, NEW table \in [U -> Seq(D)], NEW ixs \in Seq(Writing(D)),
         NEW ts \in Seq(U)
  PROVE  Extraction(D, table, ToSet(KeysOf(ixs)), SignersOf(ixs), WritablesOf(ixs),
                    ExtractedTables(ixs, ts, table))
<1> DEFINE Z == ToSet(KeysOf(ixs))
           Holds(e) == Extraction(D, table, Z, SignersOf(ixs), WritablesOf(ixs), e)
           T == {s \in Seq(U) : Holds(ExtractedTables(ixs, s, table))}
<1> HIDE DEF Z
<1>0. ExtractSteps(ixs, table, U)
  BY ExtractAppend
<1>1. << >> \in T
  <2>1. Holds(NothingMoved(ixs))
    BY NothingMovedKeeps DEF Z
  <2>2. ExtractedTables(ixs, << >>, table) = NothingMoved(ixs)
    BY <1>0 DEF ExtractSteps
  <2> HIDE DEF Holds
  <2> QED BY <2>1, <2>2
<1>2. ASSUME NEW s \in Seq(U), NEW t \in U, s \in T PROVE Append(s, t) \in T
  <2> DEFINE e == ExtractedTables(ixs, s, table)
  <2>1. Holds(e)
    BY <1>2
  <2>2. ExtractedTables(ixs, Append(s, t), table) = ExtractTableLookup(e, t, table, ixs)
    BY <1>0 DEF ExtractSteps
  <2> HIDE DEF e
  <2>3. Holds(ExtractTableLookup(e, t, table, ixs))
    BY <2>1, ExtractKeeps
  <2>4. Append(s, t) \in Seq(U)
    BY Appended
  <2> HIDE DEF Holds
  <2> QED BY <2>2, <2>3, <2>4
<1> HIDE DEF Holds
<1>3. ts \in T
  <2> HIDE DEF T
  <2> QED BY <1>1, <1>2, SeqInduction
<1> QED BY <1>3 DEF Holds, Z

-----------------------------------------------------------------------------
(* The accounts that the client lists.                                     *)

\* A list that keeps what another says of its accounts, and adds only signers.
KeepsRights(ms, ns) ==
  /\ Len(ms) <= Len(ns)
  /\ \A i \in 1..Len(ns) : i \in 1..Len(ms) \/ ns[i].signer
  /\ \A i \in 1..Len(ms) : /\ ns[i].address = ms[i].address
                           /\ ms[i].writable => ns[i].writable
                           /\ ms[i].signer => ns[i].signer

LEMMA WithSignerKeeps ==
  ASSUME NEW D, NEW ms \in Seq(Metas(D)), NEW s \in D
  PROVE  WithSigner(ms, s) \in Seq(Metas(D)) /\ KeepsRights(ms, WithSigner(ms, s))
<1> DEFINE ns == WithSigner(ms, s)
           j == IndexOf(AddressesIn(ms), s) + 1
           n == Len(ms)
<1>1. n \in Nat /\ DOMAIN ms = 1..n /\ \A i \in 1..n : ms[i] \in Metas(D)
  OBVIOUS
<1>2. CASE Contains(AddressesIn(ms), s)
  <2>1. ns = [i \in DOMAIN ms |-> IF i = j THEN [ms[i] EXCEPT !.signer = TRUE] ELSE ms[i]]
    BY <1>2 DEF WithSigner
  <2> HIDE DEF ns, j
  <2>2. \A i \in 1..n : ns[i] = IF i = j THEN [ms[i] EXCEPT !.signer = TRUE] ELSE ms[i]
    BY <1>1, <2>1
  <2>3. ASSUME NEW m \in Metas(D)
        PROVE  /\ [m EXCEPT !.signer = TRUE] \in Metas(D)
               /\ [m EXCEPT !.signer = TRUE].address = m.address
               /\ [m EXCEPT !.signer = TRUE].writable = m.writable
               /\ [m EXCEPT !.signer = TRUE].signer
    BY DEF Metas
  <2>4. \A i \in 1..n : /\ ns[i] \in Metas(D) /\ ns[i].address = ms[i].address
                        /\ ns[i].writable = ms[i].writable /\ (ms[i].signer => ns[i].signer)
    <3> TAKE i \in 1..n
    <3>1. ms[i] \in Metas(D)
      BY <1>1
    <3>2. CASE i = j
      BY <2>2, <2>3, <3>1, <3>2
    <3>3. CASE i # j
      BY <2>2, <3>1, <3>3
    <3> QED BY <3>2, <3>3
  <2>5. ns = [i \in 1..n |-> ns[i]]
    BY <1>1, <2>1
  <2>6. IsList(ns, n, Metas(D))
    BY <2>4, <2>5 DEF IsList
  <2>7. ns \in Seq(Metas(D)) /\ Len(ns) = n
    <3> HIDE DEF n
    <3> QED BY <1>1, <2>6, ListType
  <2>8. KeepsRights(ms, ns)
    BY <1>1, <2>4, <2>7 DEF KeepsRights
  <2> QED BY <2>7, <2>8 DEF ns
<1>3. CASE ~Contains(AddressesIn(ms), s)
  <2> DEFINE m == Meta(s, TRUE, FALSE)
  <2>1. ns = Append(ms, m)
    BY <1>3 DEF WithSigner
  <2>2. m \in Metas(D) /\ m.signer
    BY MetaType
  <2> HIDE DEF ns, m
  <2>3. /\ Append(ms, m) \in Seq(Metas(D)) /\ Len(Append(ms, m)) = n + 1
        /\ \A i \in 1..n : Append(ms, m)[i] = ms[i]
        /\ Append(ms, m)[n + 1] = m
    BY <2>2, Appended
  <2>5. \A i \in 1..(n + 1) : i \in 1..n \/ i = n + 1
    BY <1>1
  <2>4. KeepsRights(ms, ns)
    BY <1>1, <2>1, <2>2, <2>3, <2>5 DEF KeepsRights
  <2> QED BY <2>1, <2>3, <2>4 DEF ns
<1> QED BY <1>2, <1>3

SignedBy(listed, added) == FoldLeft(WithSigner, listed, added)

\* Additional signers, one after another.
SignerRun(g, s, listed) ==
  /\ g[0] = listed
  /\ \A i \in 1..Len(s) : g[i] = WithSigner(g[i - 1], s[i])
  /\ SignedBy(listed, s) = g[Len(s)]

LEMMA SignerRuns ==
  ASSUME NEW D, NEW listed \in Seq(Metas(D)), NEW s \in Seq(D)
  PROVE  \E g : SignerRun(g, s, listed)
<1> DEFINE n == Len(s)
           F == [p \in Seq(Metas(D)) \X (1..n) |-> WithSigner(p[1], s[p[2]])]
           Step(h, T) == IF T = {} THEN listed ELSE WithSigner(h[T \ {Max(T)}], s[Max(T)])
           iter == CHOOSE h : h = [T \in SUBSET DOMAIN s |-> Step(h, T)]
           g == [i \in 0..n |-> iter[1..i]]
<1>1. n \in Nat /\ DOMAIN s = 1..n /\ \A i \in 1..n : s[i] \in D
  OBVIOUS
<1>2. \E h : h = [T \in SUBSET DOMAIN s |-> Step(h, T)]
  <2>1. F \in [Seq(Metas(D)) \X (1..n) -> Seq(Metas(D))]
    BY <1>1, WithSignerKeeps
  <2> HIDE DEF F
  <2>2. PICK h \in [SUBSET (1..n) -> Seq(Metas(D))] : IsFold(h, n, listed, F)
    BY <1>1, <2>1, FoldExists, listed \in Seq(Metas(D))
  <2>3. ASSUME NEW T \in SUBSET (1..n) PROVE h[T] = Step(h, T)
    <3>1. CASE T = {}
      BY <2>2, <3>1 DEF IsFold
    <3>2. CASE T # {}
      <4>1. Max(T) \in 1..n
        BY <1>1, <3>2, MaxIn, Zenon
      <4>2. h[T \ {Max(T)}] \in Seq(Metas(D))
        OBVIOUS
      <4>3. F[<<h[T \ {Max(T)}], Max(T)>>] = WithSigner(h[T \ {Max(T)}], s[Max(T)])
        BY <4>1, <4>2 DEF F
      <4> QED BY <2>2, <3>2, <4>3 DEF IsFold
    <3> QED BY <3>1, <3>2
  <2> HIDE DEF Step
  <2>4. h = [T \in SUBSET DOMAIN s |-> Step(h, T)]
    BY <1>1, <2>3
  <2> QED BY <2>4
<1>3. iter = [T \in SUBSET DOMAIN s |-> Step(iter, T)]
  BY <1>2, Zenon
<1>4. SignedBy(listed, s) = iter[DOMAIN s]
  BY Zenon DEF SignedBy, FoldLeft, MapThenFoldSet
<1> HIDE DEF iter
<1>5. g[0] = listed /\ g[n] = iter[DOMAIN s]
  BY <1>1, <1>3
<1>6. ASSUME NEW i \in 1..n PROVE g[i] = WithSigner(g[i - 1], s[i])
  <2>1. Max(1..i) = i /\ (1..i) \ {Max(1..i)} = 1..(i - 1) /\ 1..i # {}
    BY MaxOfFirst
  <2>2. 1..i \in SUBSET DOMAIN s /\ g[i] = iter[1..i] /\ g[i - 1] = iter[1..(i - 1)]
    BY <1>1
  <2>3. iter[1..i] = Step(iter, 1..i)
    BY <1>3, <2>2, Zenon
  <2> QED BY <2>1, <2>2, <2>3
<1> HIDE DEF g
<1>7. SignerRun(g, s, listed)
  BY <1>4, <1>5, <1>6 DEF SignerRun
<1> QED BY <1>7

LEMMA SignerAppend ==
  ASSUME NEW D, NEW listed \in Seq(Metas(D))
  PROVE  /\ SignedBy(listed, << >>) = listed
         /\ \A s \in Seq(D), x \in D :
              SignedBy(listed, Append(s, x)) = WithSigner(SignedBy(listed, s), x)
<1>1. SignedBy(listed, << >>) = listed
  <2>1. << >> \in Seq(D) /\ Len(<< >>) = 0
    OBVIOUS
  <2>2. PICK g : SignerRun(g, << >>, listed)
    BY <2>1, SignerRuns
  <2> QED BY <2>1, <2>2 DEF SignerRun
<1>2. ASSUME NEW s \in Seq(D), NEW x \in D
      PROVE  SignedBy(listed, Append(s, x)) = WithSigner(SignedBy(listed, s), x)
  <2> DEFINE n == Len(s)
             t == Append(s, x)
  <2>1. /\ t \in Seq(D) /\ Len(t) = n + 1 /\ n \in Nat
        /\ t[n + 1] = x /\ \A i \in 1..n : t[i] = s[i]
    OBVIOUS
  <2> HIDE DEF n, t
  <2>2. PICK g : SignerRun(g, s, listed)
    BY SignerRuns
  <2>3. PICK h : SignerRun(h, t, listed)
    BY <2>1, SignerRuns
  <2>4. g[n] = h[n]
    <3>1. \A i \in 1..n : i \in 1..Len(t) /\ i \in 1..Len(s)
      BY <2>1 DEF n
    <3>2. \A i \in 1..n : g[i - 1] = h[i - 1] => g[i] = h[i]
      BY <2>1, <2>2, <2>3, <3>1 DEF SignerRun
    <3>3. g[0] = h[0]
      BY <2>2, <2>3 DEF SignerRun
    <3> QED BY <2>1, <3>2, <3>3, SameSteps
  <2>5. h[n + 1] = WithSigner(h[n], x)
    <3>1. n + 1 \in 1..Len(t) /\ (n + 1) - 1 = n
      BY <2>1
    <3> QED BY <2>1, <2>3, <3>1 DEF SignerRun
  <2>6. SignedBy(listed, s) = g[n] /\ SignedBy(listed, t) = h[n + 1]
    BY <2>1, <2>2, <2>3 DEF SignerRun, n
  <2> QED BY <2>4, <2>5, <2>6 DEF t
<1> QED BY <1>1, <1>2

LEMMA SignersKeep ==
  ASSUME NEW D, NEW listed \in Seq(Metas(D)), NEW added \in Seq(D)
  PROVE  /\ SignedBy(listed, added) \in Seq(Metas(D))
         /\ KeepsRights(listed, SignedBy(listed, added))
<1> DEFINE Listed(s) == SignedBy(listed, s)
           T == {s \in Seq(D) : Listed(s) \in Seq(Metas(D)) /\ KeepsRights(listed, Listed(s))}
<1>1. << >> \in T
  <2>1. Listed(<< >>) = listed
    BY SignerAppend
  <2>2. KeepsRights(listed, listed)
    BY DEF KeepsRights
  <2> HIDE DEF Listed
  <2> QED BY <2>1, <2>2
<1>2. ASSUME NEW s \in Seq(D), NEW x \in D, s \in T PROVE Append(s, x) \in T
  <2>1. Listed(s) \in Seq(Metas(D)) /\ KeepsRights(listed, Listed(s))
    BY <1>2
  <2>2. Listed(Append(s, x)) = WithSigner(Listed(s), x)
    <3>1. \A u \in Seq(D), y \in D :
            SignedBy(listed, Append(u, y))
              = WithSigner(SignedBy(listed, u), y)
      BY SignerAppend
    <3> QED BY <3>1
  <2>3. Append(s, x) \in Seq(D)
    BY Appended
  <2> DEFINE ms == Listed(s)
             ns == WithSigner(ms, x)
  <2> HIDE DEF ms
  <2>4. ms \in Seq(Metas(D)) /\ KeepsRights(listed, ms)
    BY <2>1 DEF ms
  <2>5. ns \in Seq(Metas(D)) /\ KeepsRights(ms, ns)
    BY <2>4, WithSignerKeeps
  <2> HIDE DEF ns
  <2>6. KeepsRights(listed, ns)
    <3>1. Len(listed) \in Nat /\ Len(ms) \in Nat /\ Len(ns) \in Nat
      BY <2>4, <2>5
    <3>2. \A i \in 1..Len(listed) : i \in 1..Len(ms)
      BY <2>4, <3>1 DEF KeepsRights
    <3>3. \A i \in 1..Len(ns) : i \in 1..Len(listed) \/ ns[i].signer
      BY <2>4, <2>5 DEF KeepsRights
    <3> QED BY <2>4, <2>5, <3>1, <3>2, <3>3 DEF KeepsRights
  <2>7. Listed(Append(s, x)) = ns
    BY <2>2 DEF ns, ms
  <2> HIDE DEF Listed
  <2> QED BY <2>3, <2>5, <2>6, <2>7
<1>3. added \in T
  <2> HIDE DEF T
  <2> QED BY <1>1, <1>2, SeqInduction
<1> QED BY <1>3

-----------------------------------------------------------------------------
(* The order of the keys.                                                  *)

\* A list of exactly the members of K.
Holding(D, s, Z) == s \in Seq(D) /\ ToSet(s) = Z

LEMMA InBoth ==
  ASSUME NEW X, NEW s \in Seq(X), NEW t \in Seq(X), NEW i \in 1..Len(s \o t)
  PROVE  /\ Len(s) \in Nat /\ Len(t) \in Nat /\ i \in 1..(Len(s) + Len(t))
         /\ \/ i \in 1..Len(s) /\ (s \o t)[i] = s[i] /\ (s \o t)[i] \in ToSet(s)
            \/ i - Len(s) \in 1..Len(t) /\ (s \o t)[i] = t[i - Len(s)] /\ (s \o t)[i] \in ToSet(t)
<1>1. /\ s \o t \in Seq(X)
      /\ Len(s \o t) = Len(s) + Len(t) /\ Len(s) \in Nat /\ Len(t) \in Nat
      /\ \A j \in 1..Len(s) : (s \o t)[j] = s[j]
      /\ \A j \in 1..Len(t) : (s \o t)[Len(s) + j] = t[j]
  BY Concatenated
<1>2. i \in 1..(Len(s) + Len(t))
  BY <1>1
<1>3. DOMAIN s = 1..Len(s) /\ DOMAIN t = 1..Len(t)
  OBVIOUS
<1>4. CASE i \in 1..Len(s)
  BY <1>1, <1>2, <1>3, <1>4 DEF ToSet
<1>5. CASE i \notin 1..Len(s)
  <2>1. i - Len(s) \in 1..Len(t) /\ Len(s) + (i - Len(s)) = i
    BY <1>1, <1>2, <1>5
  <2>2. (s \o t)[i] = t[i - Len(s)]
    <3> DEFINE j == i - Len(s)
    <3>1. j \in 1..Len(t) /\ Len(s) + j = i
      BY <2>1
    <3> HIDE DEF j
    <3>2. (s \o t)[Len(s) + j] = t[j]
      BY <1>1, <3>1
    <3> QED BY <3>1, <3>2 DEF j
  <2> QED BY <1>1, <1>2, <1>3, <2>1, <2>2 DEF ToSet
<1> QED BY <1>4, <1>5

\* Four lists one after another.
FourLists(X, a, b, c, d) ==
  /\ a \o b \o c \o d \in Seq(X)
  /\ Len(a) \in Nat /\ Len(b) \in Nat /\ Len(c) \in Nat /\ Len(d) \in Nat
  /\ Len(a \o b \o c \o d) = Len(a) + Len(b) + Len(c) + Len(d)
  /\ ToSet(a \o b \o c \o d) = ToSet(a) \cup ToSet(b) \cup ToSet(c) \cup ToSet(d)
  /\ \A i \in 1..Len(a \o b \o c \o d) :
       LET x == (a \o b \o c \o d)[i]
       IN  \/ i <= Len(a) /\ x \in ToSet(a)
           \/ i > Len(a) /\ i <= Len(a) + Len(b) /\ x \in ToSet(b)
           \/ /\ i > Len(a) + Len(b) /\ i <= Len(a) + Len(b) + Len(c)
              /\ x \in ToSet(c)
           \/ i > Len(a) + Len(b) + Len(c) /\ x \in ToSet(d)

LEMMA InFour ==
  ASSUME NEW X, NEW a \in Seq(X), NEW b \in Seq(X), NEW c \in Seq(X), NEW d \in Seq(X)
  PROVE  FourLists(X, a, b, c, d)
<1> DEFINE ab == a \o b
           abc == ab \o c
           abcd == abc \o d
<1>1. /\ ab \in Seq(X) /\ Len(ab) = Len(a) + Len(b) /\ ToSet(ab) = ToSet(a) \cup ToSet(b)
      /\ Len(a) \in Nat /\ Len(b) \in Nat /\ Len(c) \in Nat /\ Len(d) \in Nat
  BY Concatenated
<1>2. ASSUME NEW i \in 1..Len(ab)
      PROVE  \/ i <= Len(a) /\ ab[i] \in ToSet(a)
             \/ i > Len(a) /\ i <= Len(a) + Len(b) /\ ab[i] \in ToSet(b)
  BY <1>1, InBoth
<1> HIDE DEF ab
<1>3. abc \in Seq(X) /\ Len(abc) = Len(ab) + Len(c) /\ ToSet(abc) = ToSet(ab) \cup ToSet(c)
  <2>1. ab \in Seq(X)
    BY <1>1
  <2> QED BY <2>1, Concatenated
<1>4. ASSUME NEW i \in 1..Len(abc)
      PROVE  \/ i \in 1..Len(ab) /\ abc[i] = ab[i]
             \/ i > Len(ab) /\ i <= Len(ab) + Len(c) /\ abc[i] \in ToSet(c)
  BY <1>1, InBoth
<1> HIDE DEF abc
<1>5. /\ abcd \in Seq(X) /\ Len(abcd) = Len(abc) + Len(d)
      /\ ToSet(abcd) = ToSet(abc) \cup ToSet(d)
  <2>1. abc \in Seq(X)
    BY <1>3
  <2> QED BY <2>1, Concatenated
<1>6. ASSUME NEW i \in 1..Len(abcd)
      PROVE  \/ i \in 1..Len(abc) /\ abcd[i] = abc[i]
             \/ i > Len(abc) /\ abcd[i] \in ToSet(d)
  BY <1>1, <1>3, InBoth
<1> HIDE DEF abcd
<1>7. ASSUME NEW i \in 1..Len(abcd)
      PROVE  \/ i <= Len(a) /\ abcd[i] \in ToSet(a)
             \/ i > Len(a) /\ i <= Len(a) + Len(b) /\ abcd[i] \in ToSet(b)
             \/ /\ i > Len(a) + Len(b) /\ i <= Len(a) + Len(b) + Len(c)
                /\ abcd[i] \in ToSet(c)
             \/ i > Len(a) + Len(b) + Len(c) /\ abcd[i] \in ToSet(d)
  <2>1. CASE i \in 1..Len(abc) /\ abcd[i] = abc[i]
    <3>1. CASE i \in 1..Len(ab) /\ abc[i] = ab[i]
      BY <1>1, <1>2, <2>1, <3>1
    <3>2. CASE i > Len(ab) /\ i <= Len(ab) + Len(c) /\ abc[i] \in ToSet(c)
      BY <1>1, <2>1, <3>2
    <3> QED BY <1>4, <2>1, <3>1, <3>2
  <2>2. CASE i > Len(abc) /\ abcd[i] \in ToSet(d)
    BY <1>1, <1>3, <2>2
  <2> QED BY <1>6, <2>1, <2>2
<1>8. abcd \in Seq(X) /\ Len(abcd) = Len(a) + Len(b) + Len(c) + Len(d)
  BY <1>1, <1>3, <1>5
<1>9. ToSet(abcd) = ToSet(a) \cup ToSet(b) \cup ToSet(c) \cup ToSet(d)
  BY <1>1, <1>3, <1>5
<1> QED BY <1>1, <1>7, <1>8, <1>9, Zenon DEF FourLists, abcd, abc, ab

-----------------------------------------------------------------------------
(* The compiled message.                                                   *)

\* The message that the extraction e leaves, as it is sent.
Sent(ixs, e) == Serialized(CompiledFrom(ixs, e, SignersOf(ixs), WritablesOf(ixs)))

\* All keys that its instructions count.
AllKeys(m, e) == m.account_keys \o e.writable \o e.readonly

\* The classes of the static keys.
WritableSigners(ixs, e) == InClass(e.left, SignersOf(ixs), WritablesOf(ixs), TRUE, TRUE)
ReadonlySigners(ixs, e) == InClass(e.left, SignersOf(ixs), WritablesOf(ixs), TRUE, FALSE)
WritableOthers(ixs, e)  == InClass(e.left, SignersOf(ixs), WritablesOf(ixs), FALSE, TRUE)
ReadonlyOthers(ixs, e)  == InClass(e.left, SignersOf(ixs), WritablesOf(ixs), FALSE, FALSE)

LEMMA ClassesHold ==
  ASSUME NEW D, NEW ixs, NEW e, e.left \in Seq(D)
  PROVE  /\ Holding(D, WritableSigners(ixs, e),
                    (ToSet(e.left) \cap SignersOf(ixs)) \cap WritablesOf(ixs))
         /\ Holding(D, ReadonlySigners(ixs, e),
                    (ToSet(e.left) \cap SignersOf(ixs)) \ WritablesOf(ixs))
         /\ Holding(D, WritableOthers(ixs, e),
                    (ToSet(e.left) \ SignersOf(ixs)) \cap WritablesOf(ixs))
         /\ Holding(D, ReadonlyOthers(ixs, e),
                    (ToSet(e.left) \ SignersOf(ixs)) \ WritablesOf(ixs))
<1> DEFINE G == SignersOf(ixs)
           M == WritablesOf(ixs)
           H == ToSet(e.left)
<1>1. ASSUME NEW Z, Z \subseteq H PROVE Holding(D, Only(e.left, Z), Z)
  <2>1. Only(e.left, Z) \in Seq(D) /\ ToSet(Only(e.left, Z)) = H \cap Z
    BY OnlyKeeps
  <2> QED BY <1>1, <2>1 DEF Holding
<1> HIDE DEF G, M, H
<1>2. Holding(D, WritableSigners(ixs, e), (H \cap G) \cap M)
  <2> DEFINE C == {k \in H : (k \in G) = TRUE /\ (k \in M) = TRUE}
  <2>1. WritableSigners(ixs, e) = Only(e.left, C)
    BY DEF WritableSigners, InClass, G, M, H
  <2>2. C = (H \cap G) \cap M
    OBVIOUS
  <2>3. (H \cap G) \cap M \subseteq H
    OBVIOUS
  <2> HIDE DEF C
  <2> QED BY <1>1, <2>1, <2>2, <2>3
<1>3. Holding(D, ReadonlySigners(ixs, e), (H \cap G) \ M)
  <2> DEFINE C == {k \in H : (k \in G) = TRUE /\ (k \in M) = FALSE}
  <2>1. ReadonlySigners(ixs, e) = Only(e.left, C)
    BY DEF ReadonlySigners, InClass, G, M, H
  <2>2. C = (H \cap G) \ M
    OBVIOUS
  <2>3. (H \cap G) \ M \subseteq H
    OBVIOUS
  <2> HIDE DEF C
  <2> QED BY <1>1, <2>1, <2>2, <2>3
<1>4. Holding(D, WritableOthers(ixs, e), (H \ G) \cap M)
  <2> DEFINE C == {k \in H : (k \in G) = FALSE /\ (k \in M) = TRUE}
  <2>1. WritableOthers(ixs, e) = Only(e.left, C)
    BY DEF WritableOthers, InClass, G, M, H
  <2>2. C = (H \ G) \cap M
    OBVIOUS
  <2>3. (H \ G) \cap M \subseteq H
    OBVIOUS
  <2> HIDE DEF C
  <2> QED BY <1>1, <2>1, <2>2, <2>3
<1>5. Holding(D, ReadonlyOthers(ixs, e), (H \ G) \ M)
  <2> DEFINE C == {k \in H : (k \in G) = FALSE /\ (k \in M) = FALSE}
  <2>1. ReadonlyOthers(ixs, e) = Only(e.left, C)
    BY DEF ReadonlyOthers, InClass, G, M, H
  <2>2. C = (H \ G) \ M
    OBVIOUS
  <2>3. (H \ G) \ M \subseteq H
    OBVIOUS
  <2> HIDE DEF C
  <2> QED BY <1>1, <2>1, <2>2, <2>3
<1> QED BY <1>2, <1>3, <1>4, <1>5 DEF G, M, H

\* The message in terms of the classes.
InClasses(ixs, e, m) ==
  LET a == WritableSigners(ixs, e)
      b == ReadonlySigners(ixs, e)
      c == WritableOthers(ixs, e)
      d == ReadonlyOthers(ixs, e)
  IN  /\ m.account_keys = a \o b \o c \o d
      /\ m.num_signers = Len(a) + Len(b)
      /\ m.num_writable_signers = Len(a)
      /\ m.num_writable_non_signers = Len(c)
      /\ m.instructions = CompiledInstructions(ixs, m.account_keys \o e.writable \o e.readonly)
      /\ m.address_table_lookups = e.lookups

LEMMA SentFields ==
  ASSUME NEW D, NEW ixs, NEW e, e.left \in Seq(D)
  PROVE  InClasses(ixs, e, Sent(ixs, e))
<1> DEFINE a == WritableSigners(ixs, e)
           b == ReadonlySigners(ixs, e)
           c == WritableOthers(ixs, e)
           d == ReadonlyOthers(ixs, e)
           G == SignersOf(ixs)
           M == WritablesOf(ixs)
           static == StaticKeys(e.left, G, M)
           header == Header(e.left, G, M)
           message == CompiledWith(ixs, e, static, header)
<1>1. static = a \o b \o c \o d
  BY Zenon DEF StaticKeys, WritableSigners, ReadonlySigners, WritableOthers, ReadonlyOthers
<1>2. /\ header.numSignerAccounts = Len(a) + Len(b)
      /\ header.numReadonlySignerAccounts = Len(b)
      /\ header.numReadonlyNonSignerAccounts = Len(d)
  BY DEF Header, WritableSigners, ReadonlySigners, WritableOthers, ReadonlyOthers
<1>3. Sent(ixs, e) = Serialized(message)
  BY DEF Sent, CompiledFrom
<1> HIDE DEF G, M, static, header, a, b, c, d
<1>4. /\ message.header = header /\ message.staticAccounts = static
      /\ message.instructions = CompiledInstructions(ixs, static \o e.writable \o e.readonly)
      /\ message.lookups = e.lookups
  BY DEF CompiledWith
<1> HIDE DEF message
<1>5. /\ Sent(ixs, e).num_signers = header.numSignerAccounts
      /\ Sent(ixs, e).num_writable_signers
           = header.numSignerAccounts - header.numReadonlySignerAccounts
      /\ Sent(ixs, e).num_writable_non_signers
           = Len(static) - header.numSignerAccounts - header.numReadonlyNonSignerAccounts
      /\ Sent(ixs, e).account_keys = static
      /\ Sent(ixs, e).instructions = message.instructions
      /\ Sent(ixs, e).address_table_lookups = e.lookups
  BY <1>3, <1>4 DEF Serialized
<1>6. /\ a \in Seq(D) /\ b \in Seq(D) /\ c \in Seq(D) /\ d \in Seq(D)
  BY ClassesHold DEF Holding, a, b, c, d
<1>7. /\ Len(a) \in Nat /\ Len(b) \in Nat /\ Len(c) \in Nat /\ Len(d) \in Nat
      /\ Len(static) = Len(a) + Len(b) + Len(c) + Len(d)
  <2>1. /\ Len(a) \in Nat /\ Len(b) \in Nat /\ Len(c) \in Nat /\ Len(d) \in Nat
        /\ Len(a \o b \o c \o d) = Len(a) + Len(b) + Len(c) + Len(d)
    <3>1. FourLists(D, a, b, c, d)
      BY <1>6, InFour
    <3> QED BY <3>1 DEF FourLists
  <2> QED BY <1>1, <2>1
<1>8. /\ (Len(a) + Len(b)) - Len(b) = Len(a)
      /\ (Len(static) - (Len(a) + Len(b))) - Len(d) = Len(c)
  BY ONLY <1>7
<1> QED BY <1>1, <1>2, <1>4, <1>5, <1>8 DEF InClasses, a, b, c, d

\* What the header says of a key by its position is what the instructions ask for it.
PositionsTell(m, e, G, M) ==
  \A p \in 0..(Len(AllKeys(m, e)) - 1) :
    LET k == Nth(AllKeys(m, e), p)
    IN  /\ IsSignerIndex(m, p) <=> k \in G
        /\ (\/ IsStaticWritableIndex(m, p)
            \/ p >= Len(m.account_keys) /\ p - Len(m.account_keys) < Len(e.writable))
              <=> k \in M

SentRight(D, ixs, e) ==
  LET m == Sent(ixs, e)
  IN  /\ m.account_keys \in Seq(D)
      /\ m.num_signers \in Nat /\ m.num_writable_signers \in Nat
      /\ m.num_writable_non_signers \in Nat
      /\ m.num_signers <= Len(m.account_keys)
      /\ m.num_writable_signers <= m.num_signers
      /\ m.num_writable_non_signers <= Len(m.account_keys) - m.num_signers
      /\ AllKeys(m, e) \in Seq(D)
      /\ Len(AllKeys(m, e)) = Len(m.account_keys) + Len(e.writable) + Len(e.readonly)
      /\ ToSet(AllKeys(m, e)) = ToSet(e.left) \cup ToSet(e.writable) \cup ToSet(e.readonly)
      /\ PositionsTell(m, e, SignersOf(ixs), WritablesOf(ixs))

LEMMA SentIsRight ==
  ASSUME NEW D, NEW table, NEW ixs, NEW keys, NEW e,
         Extraction(D, table, keys, SignersOf(ixs), WritablesOf(ixs), e)
  PROVE  SentRight(D, ixs, e)
<1> DEFINE G == SignersOf(ixs)
           M == WritablesOf(ixs)
           a == WritableSigners(ixs, e)
           b == ReadonlySigners(ixs, e)
           c == WritableOthers(ixs, e)
           d == ReadonlyOthers(ixs, e)
           m == Sent(ixs, e)
           s == a \o b \o c \o d
<1>1. /\ e.left \in Seq(D) /\ e.writable \in Seq(D) /\ e.readonly \in Seq(D)
      /\ ToSet(e.writable) \subseteq M \ G /\ ToSet(e.readonly) \cap (M \cup G) = {}
  BY DEF Extraction, Extracts
<1>2. /\ m.account_keys = s
      /\ m.num_signers = Len(a) + Len(b)
      /\ m.num_writable_signers = Len(a)
      /\ m.num_writable_non_signers = Len(c)
  <2>1. e.left \in Seq(D)
    BY <1>1
  <2>2. InClasses(ixs, e, m)
    BY <2>1, SentFields
  <2> HIDE DEF m
  <2> QED BY <2>2 DEF InClasses
<1> HIDE DEF G, M, m
<1>3. /\ a \in Seq(D) /\ b \in Seq(D) /\ c \in Seq(D) /\ d \in Seq(D)
      /\ \A k : k \in ToSet(a) <=> k \in ToSet(e.left) /\ k \in G /\ k \in M
      /\ \A k : k \in ToSet(b) <=> k \in ToSet(e.left) /\ k \in G /\ k \notin M
      /\ \A k : k \in ToSet(c) <=> k \in ToSet(e.left) /\ k \notin G /\ k \in M
      /\ \A k : k \in ToSet(d) <=> k \in ToSet(e.left) /\ k \notin G /\ k \notin M
  <2>1. /\ Holding(D, a, (ToSet(e.left) \cap G) \cap M)
        /\ Holding(D, b, (ToSet(e.left) \cap G) \ M)
        /\ Holding(D, c, (ToSet(e.left) \ G) \cap M)
        /\ Holding(D, d, (ToSet(e.left) \ G) \ M)
    BY <1>1, ClassesHold DEF G, M
  <2> HIDE DEF a, b, c, d
  <2> QED BY <2>1 DEF Holding
<1> HIDE DEF a, b, c, d
<1>4. /\ s \in Seq(D)
      /\ Len(a) \in Nat /\ Len(b) \in Nat /\ Len(c) \in Nat /\ Len(d) \in Nat
      /\ Len(s) = Len(a) + Len(b) + Len(c) + Len(d)
      /\ ToSet(s) = ToSet(a) \cup ToSet(b) \cup ToSet(c) \cup ToSet(d)
      /\ \A i \in 1..Len(s) :
           \/ i <= Len(a) /\ s[i] \in ToSet(a)
           \/ i > Len(a) /\ i <= Len(a) + Len(b) /\ s[i] \in ToSet(b)
           \/ i > Len(a) + Len(b) /\ i <= Len(a) + Len(b) + Len(c) /\ s[i] \in ToSet(c)
           \/ i > Len(a) + Len(b) + Len(c) /\ s[i] \in ToSet(d)
  <2>1. FourLists(D, a, b, c, d)
    BY <1>3, InFour
  <2> QED BY <2>1 DEF FourLists
<1> HIDE DEF s
<1> DEFINE sw == s \o e.writable
           all == sw \o e.readonly
<1>5. /\ sw \in Seq(D) /\ Len(sw) = Len(s) + Len(e.writable)
      /\ ToSet(sw) = ToSet(s) \cup ToSet(e.writable)
      /\ Len(e.writable) \in Nat
  <2>1. s \in Seq(D) /\ e.writable \in Seq(D)
    BY <1>1, <1>4
  <2> QED BY <2>1, Concatenated
<1>6. ASSUME NEW i \in 1..Len(sw)
      PROVE  \/ i \in 1..Len(s) /\ sw[i] = s[i]
             \/ i > Len(s) /\ i <= Len(s) + Len(e.writable) /\ sw[i] \in ToSet(e.writable)
  <2>1. /\ Len(s) \in Nat /\ i \in 1..(Len(s) + Len(e.writable))
        /\ \/ i \in 1..Len(s) /\ sw[i] = s[i]
           \/ i - Len(s) \in 1..Len(e.writable) /\ sw[i] \in ToSet(e.writable)
    BY <1>1, <1>4, InBoth
  <2> QED BY <1>5, <2>1
<1> HIDE DEF sw
<1>7. /\ all \in Seq(D) /\ Len(all) = Len(sw) + Len(e.readonly)
      /\ ToSet(all) = ToSet(sw) \cup ToSet(e.readonly)
      /\ Len(e.readonly) \in Nat
  <2>1. sw \in Seq(D)
    BY <1>5
  <2> QED BY <1>1, <2>1, Concatenated
<1>8. ASSUME NEW i \in 1..Len(all)
      PROVE  \/ i \in 1..Len(sw) /\ all[i] = sw[i]
             \/ i > Len(sw) /\ all[i] \in ToSet(e.readonly)
  <2>0. sw \in Seq(D)
    BY <1>5
  <2>1. /\ Len(sw) \in Nat /\ i \in 1..(Len(sw) + Len(e.readonly))
        /\ \/ i \in 1..Len(sw) /\ all[i] = sw[i]
           \/ i - Len(sw) \in 1..Len(e.readonly) /\ all[i] \in ToSet(e.readonly)
    BY <1>1, <2>0, InBoth
  <2> QED BY <2>1
<1>9. AllKeys(m, e) = all
  BY <1>2 DEF AllKeys, sw
<1> HIDE DEF all
<1>10. ToSet(s) = ToSet(e.left)
  <2>1. \A k : k \in ToSet(s) <=> k \in ToSet(e.left)
    BY <1>3, <1>4
  <2> QED BY <2>1
<1>11. ASSUME NEW p \in 0..(Len(all) - 1)
       PROVE  /\ IsSignerIndex(m, p) <=> all[p + 1] \in G
              /\ (\/ IsStaticWritableIndex(m, p)
                  \/ p >= Len(m.account_keys) /\ p - Len(m.account_keys) < Len(e.writable))
                    <=> all[p + 1] \in M
  <2> DEFINE i == p + 1
             k == all[i]
             x == IsSignerIndex(m, p)
             y == \/ IsStaticWritableIndex(m, p)
                  \/ p >= Len(m.account_keys) /\ p - Len(m.account_keys) < Len(e.writable)
  <2>1. i \in 1..Len(all) /\ i \in Nat /\ p = i - 1 /\ Len(s) \in Nat /\ Len(sw) \in Nat
    <3>1. s \in Seq(D) /\ sw \in Seq(D) /\ all \in Seq(D)
      BY <1>4, <1>5, <1>7
    <3>2. Len(all) \in Nat /\ Len(s) \in Nat /\ Len(sw) \in Nat
      BY <3>1
    <3> QED BY <3>2
  <2>2. x <=> p < Len(a) + Len(b)
    BY <1>2 DEF IsSignerIndex
  <2>3. y <=> \/ /\ p < Len(s)
                 /\ \/ p < Len(a)
                    \/ p >= Len(a) + Len(b) /\ p - (Len(a) + Len(b)) < Len(c)
              \/ p >= Len(s) /\ p - Len(s) < Len(e.writable)
    BY <1>2 DEF IsStaticWritableIndex
  <2> HIDE DEF i, x, y
  <2>4. \/ i <= Len(a) /\ k \in ToSet(a)
        \/ i > Len(a) /\ i <= Len(a) + Len(b) /\ k \in ToSet(b)
        \/ i > Len(a) + Len(b) /\ i <= Len(a) + Len(b) + Len(c) /\ k \in ToSet(c)
        \/ i > Len(a) + Len(b) + Len(c) /\ i <= Len(s) /\ k \in ToSet(d)
        \/ i > Len(s) /\ i <= Len(s) + Len(e.writable) /\ k \in ToSet(e.writable)
        \/ i > Len(s) + Len(e.writable) /\ k \in ToSet(e.readonly)
    <3>1. CASE i > Len(sw) /\ all[i] \in ToSet(e.readonly)
      BY <1>5, <3>1
    <3>2. CASE i \in 1..Len(sw) /\ all[i] = sw[i]
      <4>1. CASE i > Len(s) /\ i <= Len(s) + Len(e.writable) /\ sw[i] \in ToSet(e.writable)
        BY <3>2, <4>1
      <4>2. CASE i \in 1..Len(s) /\ sw[i] = s[i]
        <5>1. i <= Len(s)
          BY <4>2, <1>4
        <5>2. \/ i <= Len(a) /\ s[i] \in ToSet(a)
              \/ i > Len(a) /\ i <= Len(a) + Len(b) /\ s[i] \in ToSet(b)
              \/ i > Len(a) + Len(b) /\ i <= Len(a) + Len(b) + Len(c) /\ s[i] \in ToSet(c)
              \/ i > Len(a) + Len(b) + Len(c) /\ s[i] \in ToSet(d)
          BY <1>4, <4>2
        <5> QED BY <3>2, <4>2, <5>1, <5>2
      <4> QED BY <1>6, <3>2, <4>1, <4>2
    <3> QED BY <1>8, <2>1, <3>1, <3>2
  <2> HIDE DEF k
  <2> SUFFICES (x <=> k \in G) /\ (y <=> k \in M)
    BY DEF i, k, x, y
  <2>5. CASE i <= Len(a) /\ k \in ToSet(a)
    <3>1. k \in G /\ k \in M
      BY <1>3, <2>5
    <3> QED BY <1>4, <2>1, <2>2, <2>3, <2>5, <3>1
  <2>6. CASE i > Len(a) /\ i <= Len(a) + Len(b) /\ k \in ToSet(b)
    <3>1. k \in G /\ k \notin M
      BY <1>3, <2>6
    <3> QED BY <1>4, <2>1, <2>2, <2>3, <2>6, <3>1
  <2>7. CASE i > Len(a) + Len(b) /\ i <= Len(a) + Len(b) + Len(c) /\ k \in ToSet(c)
    <3>1. k \notin G /\ k \in M
      BY <1>3, <2>7
    <3> QED BY <1>4, <2>1, <2>2, <2>3, <2>7, <3>1
  <2>8. CASE i > Len(a) + Len(b) + Len(c) /\ i <= Len(s) /\ k \in ToSet(d)
    <3>1. k \notin G /\ k \notin M
      BY <1>3, <2>8
    <3> QED BY <1>4, <2>1, <2>2, <2>3, <2>8, <3>1
  <2>9. CASE i > Len(s) /\ i <= Len(s) + Len(e.writable) /\ k \in ToSet(e.writable)
    <3>1. k \notin G /\ k \in M
      BY <1>1, <2>9
    <3>2. /\ Len(a) \in Nat /\ Len(b) \in Nat /\ Len(c) \in Nat /\ Len(d) \in Nat
          /\ Len(s) = Len(a) + Len(b) + Len(c) + Len(d)
          /\ Len(e.writable) \in Nat
      BY <1>4, <1>5
    <3>3. i \in Nat /\ p = i - 1
      BY <2>1
    <3> DEFINE na == Len(a)
               nb == Len(b)
               nc == Len(c)
               nd == Len(d)
               ns == Len(s)
               nw == Len(e.writable)
    <3>4. /\ na \in Nat /\ nb \in Nat /\ nc \in Nat /\ nd \in Nat /\ nw \in Nat
          /\ ns = na + nb + nc + nd
          /\ (x <=> p < na + nb)
          /\ (y <=> (\/ p < ns /\ (p < na \/ (p >= na + nb /\ p - (na + nb) < nc))
                     \/ p >= ns /\ p - ns < nw))
          /\ i > ns /\ i <= ns + nw
      BY ONLY <2>2, <2>3, <2>9, <3>2
    <3> HIDE DEF na, nb, nc, nd, ns, nw
    <3>5. ~x /\ y
      BY ONLY <3>3, <3>4
    <3> QED BY <3>1, <3>5
  <2>10. CASE i > Len(s) + Len(e.writable) /\ k \in ToSet(e.readonly)
    <3>1. k \notin G /\ k \notin M
      BY <1>1, <2>10
    <3>2. /\ Len(a) \in Nat /\ Len(b) \in Nat /\ Len(c) \in Nat /\ Len(d) \in Nat
          /\ Len(s) = Len(a) + Len(b) + Len(c) + Len(d)
          /\ Len(e.writable) \in Nat
      BY <1>4, <1>5
    <3>3. i \in Nat /\ p = i - 1
      BY <2>1
    <3> DEFINE na == Len(a)
               nb == Len(b)
               nc == Len(c)
               nd == Len(d)
               ns == Len(s)
               nw == Len(e.writable)
    <3>4. /\ na \in Nat /\ nb \in Nat /\ nc \in Nat /\ nd \in Nat /\ nw \in Nat
          /\ ns = na + nb + nc + nd
          /\ (x <=> p < na + nb)
          /\ (y <=> (\/ p < ns /\ (p < na \/ (p >= na + nb /\ p - (na + nb) < nc))
                     \/ p >= ns /\ p - ns < nw))
          /\ i > ns + nw
      BY ONLY <2>2, <2>3, <2>10, <3>2
    <3> HIDE DEF na, nb, nc, nd, ns, nw
    <3>5. ~x /\ ~y
      BY ONLY <3>3, <3>4
    <3> QED BY <3>1, <3>5
  <2> QED BY <2>4, <2>5, <2>6, <2>7, <2>8, <2>9, <2>10
<1>12. PositionsTell(m, e, G, M)
  BY <1>9, <1>11 DEF PositionsTell, Nth
<1>13. /\ m.num_signers \in Nat /\ m.num_writable_signers \in Nat
       /\ m.num_writable_non_signers \in Nat
       /\ m.num_signers <= Len(m.account_keys)
       /\ m.num_writable_signers <= m.num_signers
       /\ m.num_writable_non_signers <= Len(m.account_keys) - m.num_signers
  BY <1>2, <1>4
<1>14. /\ m.account_keys \in Seq(D) /\ AllKeys(m, e) \in Seq(D)
       /\ Len(AllKeys(m, e)) = Len(m.account_keys) + Len(e.writable) + Len(e.readonly)
       /\ ToSet(AllKeys(m, e)) = ToSet(e.left) \cup ToSet(e.writable) \cup ToSet(e.readonly)
  BY <1>2, <1>4, <1>5, <1>7, <1>9, <1>10
<1> QED BY <1>12, <1>13, <1>14 DEF SentRight, m, G, M

-----------------------------------------------------------------------------
(* The accounts that the client lists.                                     *)

TableMetas(lookups) == [i \in 1..Len(lookups) |-> Meta(lookups[i].table, FALSE, FALSE)]

StaticMetas(m) ==
  [i \in 1..Len(m.account_keys) |->
     Meta(m.account_keys[i], IsSignerIndex(m, i - 1) /\ m.account_keys[i] # Vault,
          IsStaticWritableIndex(m, i - 1))]

Listed(m, table) ==
  TableMetas(m.address_table_lookups) \o StaticMetas(m)
  \o FlattenSeq(LoadedLists(m.address_table_lookups, table))

\* The client counts as the program does, and then adds signers.
LEMMA ListedByClient ==
  ASSUME NEW D, NEW table, NEW message, message.staticAccounts \in Seq(D),
         NEW X, message.lookups \in Seq(X), NEW additional
  PROVE  AccountsForExecute(message, table, additional)
           = SignedBy(Listed(Serialized(message), table),
                      Only(additional, ToSet(additional) \ {Vault}))
<1> DEFINE static == [i \in DOMAIN message.staticAccounts |->
                        Meta(message.staticAccounts[i],
                             SignerIndex(message, i - 1) /\ message.staticAccounts[i] # Vault,
                             StaticWritableIndex(message, i - 1))]
           m == Serialized(message)
<1>1. /\ DOMAIN message.staticAccounts = 1..Len(message.staticAccounts)
      /\ DOMAIN message.lookups = 1..Len(message.lookups)
  OBVIOUS
<1>2. /\ m.account_keys = message.staticAccounts /\ m.address_table_lookups = message.lookups
      /\ \A i : SignerIndex(message, i) = IsSignerIndex(m, i)
      /\ \A i : StaticWritableIndex(message, i) = IsStaticWritableIndex(m, i)
  BY DEF Serialized, SignerIndex, IsSignerIndex, StaticWritableIndex, IsStaticWritableIndex
<1>3. Mapped(message.lookups, LAMBDA l : Meta(l.table, FALSE, FALSE)) = TableMetas(message.lookups)
  BY <1>1 DEF Mapped, TableMetas
<1>4. Mapped(message.lookups, LAMBDA l : LoadedMetas(l, table))
        = LoadedLists(message.lookups, table)
  BY <1>1 DEF Mapped, LoadedLists
<1> HIDE DEF m
<1>5. static = StaticMetas(m)
  BY <1>1, <1>2 DEF StaticMetas
<1>6. AccountsForExecute(message, table, additional)
        = SignedBy(Mapped(message.lookups, LAMBDA l : Meta(l.table, FALSE, FALSE)) \o static
                   \o FlattenSeq(Mapped(message.lookups, LAMBDA l : LoadedMetas(l, table))),
                   Only(additional, ToSet(additional) \ {Vault}))
  BY Zenon DEF AccountsForExecute, SignedBy
<1> HIDE DEF static
<1> QED BY <1>2, <1>3, <1>4, <1>5, <1>6 DEF Listed, m

\* A list that has the tables, the static and the loaded accounts of a message at
\* their places, with the rights that the message gives them.
Listing(D, m, table, ms) ==
  LET n == Len(m.address_table_lookups)
      k == Len(m.account_keys)
      f == FlattenSeq(LoadedLists(m.address_table_lookups, table))
  IN  /\ ms \in Seq(Metas(D)) /\ Len(ms) >= n + k + Len(f)
      /\ \A i \in 1..n : ms[i].address = m.address_table_lookups[i].table
      /\ \A i \in 1..k : /\ ms[n + i].address = m.account_keys[i]
                         /\ IsSignerIndex(m, i - 1) /\ m.account_keys[i] # Vault => ms[n + i].signer
                         /\ IsStaticWritableIndex(m, i - 1) => ms[n + i].writable
      /\ \A i \in 1..Len(f) : /\ ms[n + k + i].address = f[i].address
                              /\ f[i].writable => ms[n + k + i].writable

LEMMA ListedInOrder ==
  ASSUME NEW D, NEW U, U \subseteq D, NEW table \in [U -> Seq(D)], NEW m,
         m.account_keys \in Seq(D), m.address_table_lookups \in Seq(LookupsIn(table)),
         m.num_signers \in Nat, m.num_writable_signers \in Nat, m.num_writable_non_signers \in Nat
  PROVE  Listing(D, m, table, Listed(m, table))
<1> DEFINE ls == m.address_table_lookups
           p == TableMetas(ls)
           q == StaticMetas(m)
           f == FlattenSeq(LoadedLists(ls, table))
           n == Len(ls)
           k == Len(m.account_keys)
<1>1. n \in Nat /\ k \in Nat
  OBVIOUS
<1>2. p \in Seq(Metas(D)) /\ Len(p) = n /\ \A i \in 1..n : p[i].address = ls[i].table
  <2>1. \A i \in 1..n : ls[i].table \in D
    <3>1. \A i \in 1..n : ls[i] \in LookupsIn(table)
      OBVIOUS
    <3> QED BY <3>1, LookupType
  <2>2. p = [i \in 1..n |-> p[i]] /\ \A i \in 1..n : p[i] = Meta(ls[i].table, FALSE, FALSE)
    BY DEF TableMetas
  <2> HIDE DEF p
  <2>3. \A i \in 1..n : /\ Meta(ls[i].table, FALSE, FALSE) \in Metas(D)
                        /\ Meta(ls[i].table, FALSE, FALSE).address = ls[i].table
    BY <2>1, MetaType
  <2>5. \A i \in 1..n : p[i] \in Metas(D) /\ p[i].address = ls[i].table
    BY <2>2, <2>3
  <2>4. IsList(p, n, Metas(D))
    BY <2>2, <2>5 DEF IsList
  <2> QED BY <1>1, <2>4, <2>5, ListType
<1>3. /\ q \in Seq(Metas(D)) /\ Len(q) = k
      /\ \A i \in 1..k : /\ q[i].address = m.account_keys[i]
                         /\ q[i].signer = (IsSignerIndex(m, i - 1) /\ m.account_keys[i] # Vault)
                         /\ q[i].writable = IsStaticWritableIndex(m, i - 1)
  <2>1. q = [i \in 1..k |-> q[i]]
    BY DEF StaticMetas
  <2>2. ASSUME NEW i \in 1..k
        PROVE  /\ q[i] \in Metas(D)
               /\ q[i].address = m.account_keys[i]
               /\ q[i].signer = (IsSignerIndex(m, i - 1) /\ m.account_keys[i] # Vault)
               /\ q[i].writable = IsStaticWritableIndex(m, i - 1)
    <3> DEFINE x == IsSignerIndex(m, i - 1) /\ m.account_keys[i] # Vault
               y == IsStaticWritableIndex(m, i - 1)
               a == m.account_keys[i]
    <3>1. a \in D /\ x \in BOOLEAN /\ y \in BOOLEAN
      BY DEF IsStaticWritableIndex
    <3>2. q[i] = Meta(a, x, y)
      BY DEF StaticMetas
    <3> HIDE DEF a, x, y, q
    <3>3. /\ Meta(a, x, y) \in Metas(D) /\ Meta(a, x, y).address = a
          /\ Meta(a, x, y).signer = x /\ Meta(a, x, y).writable = y
      BY <3>1, MetaType
    <3>4. q[i] \in Metas(D) /\ q[i].address = a /\ q[i].signer = x /\ q[i].writable = y
      BY <3>2, <3>3
    <3> QED BY <3>4 DEF a, x, y
  <2>3. IsList(q, k, Metas(D))
    BY <2>1, <2>2 DEF IsList
  <2> HIDE DEF q
  <2>4. q \in Seq(Metas(D)) /\ Len(q) = k
    BY <1>1, <2>3, ListType
  <2> QED BY <2>2, <2>4
<1>4. f \in Seq(Metas(D)) /\ Len(f) \in Nat
  <2>1. LoadedLists(ls, table) \in Seq(Seq(Metas(D)))
    <3>1. IsList(LoadedLists(ls, table), n, Seq(Metas(D)))
      BY LoadedListsType
    <3> QED BY <1>1, <3>1, ListType
  <2>2. f \in Seq(Metas(D))
    BY <2>1, FlattenKeeps
  <2> HIDE DEF f
  <2> QED BY <2>2
<1> HIDE DEF p, q, f
<1> DEFINE pq == p \o q
           ms == pq \o f
<1>5. /\ pq \in Seq(Metas(D)) /\ Len(pq) = n + k
      /\ \A i \in 1..n : pq[i] = p[i]
      /\ \A i \in 1..k : pq[n + i] = q[i]
  <2>1. /\ p \o q \in Seq(Metas(D)) /\ Len(p \o q) = Len(p) + Len(q)
        /\ \A i \in 1..Len(p) : (p \o q)[i] = p[i]
        /\ \A i \in 1..Len(q) : (p \o q)[Len(p) + i] = q[i]
    <3>1. p \in Seq(Metas(D)) /\ q \in Seq(Metas(D))
      BY <1>2, <1>3
    <3> QED BY ONLY <3>1, Concatenated
  <2> QED BY <1>2, <1>3, <2>1 DEF pq
<1> HIDE DEF pq
<1>6. /\ ms \in Seq(Metas(D)) /\ Len(ms) = n + k + Len(f)
      /\ \A i \in 1..(n + k) : ms[i] = pq[i]
      /\ \A i \in 1..Len(f) : ms[n + k + i] = f[i]
  <2>1. /\ pq \o f \in Seq(Metas(D)) /\ Len(pq \o f) = Len(pq) + Len(f)
        /\ \A i \in 1..Len(pq) : (pq \o f)[i] = pq[i]
        /\ \A i \in 1..Len(f) : (pq \o f)[Len(pq) + i] = f[i]
    <3>1. pq \in Seq(Metas(D)) /\ f \in Seq(Metas(D))
      BY <1>4, <1>5
    <3> QED BY ONLY <3>1, Concatenated
  <2> QED BY <1>5, <2>1 DEF ms
<1> HIDE DEF ms
<1>7. /\ \A i \in 1..n : ms[i].address = ls[i].table
      /\ \A i \in 1..k : /\ ms[n + i].address = m.account_keys[i]
                         /\ IsSignerIndex(m, i - 1) /\ m.account_keys[i] # Vault => ms[n + i].signer
                         /\ IsStaticWritableIndex(m, i - 1) => ms[n + i].writable
  <2>1. /\ \A i \in 1..n : i \in 1..(n + k)
        /\ \A i \in 1..k : n + i \in 1..(n + k)
    <3> HIDE DEF n, k
    <3> QED BY ONLY <1>1
  <2>2. /\ \A i \in 1..n : ms[i] = p[i]
        /\ \A i \in 1..k : ms[n + i] = q[i]
    BY <1>5, <1>6, <2>1
  <2> QED BY <1>2, <1>3, <2>2
<1>8. Listed(m, table) = ms
  BY DEF Listed, ms, pq, p, q, f
<1>9. Len(ms) >= n + k + Len(f)
  BY <1>1, <1>4, <1>6
<1> QED BY <1>6, <1>7, <1>8, <1>9 DEF Listing, f

LEMMA ListingKept ==
  ASSUME NEW D, NEW m, NEW table, NEW ms, Listing(D, m, table, ms),
         Len(m.address_table_lookups) \in Nat, Len(m.account_keys) \in Nat,
         Len(FlattenSeq(LoadedLists(m.address_table_lookups, table))) \in Nat,
         NEW ns \in Seq(Metas(D)), KeepsRights(ms, ns)
  PROVE  Listing(D, m, table, ns)
<1> DEFINE ls == m.address_table_lookups
           f == FlattenSeq(LoadedLists(ls, table))
           n == Len(ls)
           k == Len(m.account_keys)
           v == Len(f)
<1>1. /\ ms \in Seq(Metas(D)) /\ Len(ms) >= n + k + Len(f)
      /\ \A i \in 1..n : ms[i].address = ls[i].table
      /\ \A i \in 1..k : /\ ms[n + i].address = m.account_keys[i]
                         /\ IsSignerIndex(m, i - 1) /\ m.account_keys[i] # Vault => ms[n + i].signer
                         /\ IsStaticWritableIndex(m, i - 1) => ms[n + i].writable
      /\ \A i \in 1..Len(f) : /\ ms[n + k + i].address = f[i].address
                              /\ f[i].writable => ms[n + k + i].writable
  BY DEF Listing
<1>2. n \in Nat /\ k \in Nat /\ v \in Nat /\ Len(ms) \in Nat /\ Len(ns) \in Nat
  BY <1>1
<1>3. /\ Len(ms) <= Len(ns)
      /\ \A i \in 1..Len(ms) : /\ ns[i].address = ms[i].address
                               /\ ms[i].writable => ns[i].writable
                               /\ ms[i].signer => ns[i].signer
  BY DEF KeepsRights
<1> HIDE DEF n, k, v, f, ls
<1>4. /\ Len(ns) >= n + k + v
      /\ \A i \in 1..n : i \in 1..Len(ms)
      /\ \A i \in 1..k : n + i \in 1..Len(ms)
      /\ \A i \in 1..v : n + k + i \in 1..Len(ms)
  BY <1>1, <1>2, <1>3 DEF v
<1>5. \A i \in 1..n : ns[i].address = ls[i].table
  BY <1>1, <1>3, <1>4
<1>6. \A i \in 1..k : /\ ns[n + i].address = m.account_keys[i]
                      /\ IsSignerIndex(m, i - 1) /\ m.account_keys[i] # Vault => ns[n + i].signer
                      /\ IsStaticWritableIndex(m, i - 1) => ns[n + i].writable
  BY <1>1, <1>3, <1>4
<1>7. \A i \in 1..v : /\ ns[n + k + i].address = f[i].address
                      /\ f[i].writable => ns[n + k + i].writable
  BY <1>1, <1>3, <1>4 DEF v
<1> QED BY <1>4, <1>5, <1>6, <1>7 DEF Listing, n, k, v, f, ls

\* The runtime only adds rights.
LEMMA InfosKeep ==
  ASSUME NEW D, NEW ms \in Seq(Metas(D))
  PROVE  Infos(ms) \in Seq(Metas(D)) /\ Len(Infos(ms)) = Len(ms) /\ KeepsRights(ms, Infos(ms))
<1> DEFINE g == Infos(ms)
<1>1. DOMAIN ms = 1..Len(ms) /\ Len(ms) \in Nat /\ \A i \in 1..Len(ms) : ms[i] \in Metas(D)
  OBVIOUS
<1>2. g = [i \in 1..Len(ms) |->
             [address  |-> ms[i].address,
              signer   |-> \E n \in ToSet(ms) : n.address = ms[i].address /\ n.signer,
              writable |-> \E n \in ToSet(ms) : n.address = ms[i].address /\ n.writable]]
  BY <1>1 DEF Infos, RightsAmong, Mapped, Meta
<1>3. \A i \in 1..Len(ms) : ms[i] \in ToSet(ms)
  BY <1>1 DEF ToSet
<1> HIDE DEF g
<1>4. ASSUME NEW i \in 1..Len(ms)
      PROVE  /\ g[i] \in Metas(D) /\ g[i].address = ms[i].address
             /\ ms[i].writable => g[i].writable
             /\ ms[i].signer => g[i].signer
  <2> DEFINE x == \E n \in ToSet(ms) : n.address = ms[i].address /\ n.signer
             y == \E n \in ToSet(ms) : n.address = ms[i].address /\ n.writable
  <2>1. g[i] = [address |-> ms[i].address, signer |-> x, writable |-> y]
    BY <1>2
  <2>2. (ms[i].signer => x) /\ (ms[i].writable => y)
    BY <1>3
  <2>3. x \in BOOLEAN /\ y \in BOOLEAN
    OBVIOUS
  <2>4. ms[i].address \in D
    BY <1>1 DEF Metas
  <2> HIDE DEF x, y
  <2> QED BY <2>1, <2>2, <2>3, <2>4 DEF Metas
<1>5. IsList(g, Len(ms), Metas(D))
  <2>1. g = [i \in 1..Len(ms) |-> g[i]]
    BY <1>2
  <2> QED BY <1>4, <2>1 DEF IsList
<1>6. g \in Seq(Metas(D)) /\ Len(g) = Len(ms)
  BY <1>1, <1>5, ListType
<1> QED BY <1>1, <1>4, <1>6 DEF KeepsRights, g

-----------------------------------------------------------------------------
(* The program finds the accounts where the message counts them.           *)

LEMMA PartAt ==
  ASSUME NEW X, NEW s \in Seq(X), NEW p \in 1..Len(s), NEW q \in p..Len(s),
         NEW i \in 1..(q - p + 1)
  PROVE  SubSeq(s, p, q)[i] = s[p + i - 1]
OBVIOUS

LEMMA PartOf ==
  ASSUME NEW X, NEW s \in Seq(X), NEW b \in Nat, NEW n \in Nat,
         \A i \in 1..n : b + i \in 1..Len(s)
  PROVE  /\ SubSeq(s, b + 1, b + n) \in Seq(X)
         /\ Len(SubSeq(s, b + 1, b + n)) = n
         /\ \A i \in 1..n : SubSeq(s, b + 1, b + n)[i] = s[b + i]
<1>1. CASE n = 0
  <2>1. b + n = b /\ b \in Int /\ b < b + 1
    BY <1>1
  <2>2. SubSeq(s, b + 1, b) = << >>
    BY <2>1
  <2>3. SubSeq(s, b + 1, b + n) = << >>
    BY <2>1, <2>2
  <2>4. << >> \in Seq(X) /\ Len(<< >>) = 0
    OBVIOUS
  <2>5. 1..n = {}
    BY <1>1
  <2> QED BY <1>1, <2>3, <2>4, <2>5
<1>2. CASE n # 0
  <2>1. b + n <= Len(s) /\ Len(s) \in Nat
    <3>1. n \in 1..n
      BY <1>2
    <3> QED BY <3>1
  <2>2. \A i \in 1..n : b + i \in 1..Len(s) /\ s[b + i] \in X
    OBVIOUS
  <2> DEFINE t == SubSeq(s, b + 1, b + n)
  <2>3. /\ b + 1 \in 1..(Len(s) + 1) /\ b + n \in ((b + 1) - 1)..Len(s)
        /\ (b + n) - (b + 1) + 1 = n
    BY <2>1
  <2>4. t \in Seq(X) /\ Len(t) = n
    BY <2>1, <2>3
  <2>5. ASSUME NEW i \in 1..n PROVE t[i] = s[b + i]
    <3>1. t[i] = s[(b + 1) + i - 1]
      <4>1. b + 1 \in 1..Len(s) /\ b + n \in (b + 1)..Len(s) /\ i \in 1..((b + n) - (b + 1) + 1)
        BY <1>2, <2>1, <2>3
      <4> HIDE DEF t
      <4>2. SubSeq(s, b + 1, b + n)[i] = s[(b + 1) + i - 1]
        BY <4>1, PartAt
      <4> QED BY <4>2 DEF t
    <3>2. (b + 1) + i - 1 = b + i
      OBVIOUS
    <3> QED BY <3>1, <3>2
  <2> QED BY <2>4, <2>5
<1> QED BY <1>1, <1>2

\* Where the accounts of a lookup begin among the loaded ones.
LoadedInPlace(D, ls, table) ==
  \A l \in 1..Len(ls) :
    LET b == NumLoaded(SubSeq(ls, 1, l - 1))
        f == FlattenSeq(LoadedLists(ls, table))
    IN  /\ b \in Nat
        /\ \A i \in 1..Len(LoadedMetas(ls[l], table)) :
             b + i \in 1..Len(f) /\ f[b + i] = LoadedMetas(ls[l], table)[i]

LEMMA LoadedPlaces ==
  ASSUME NEW D, NEW U, NEW table \in [U -> Seq(D)], NEW ls \in Seq(LookupsIn(table))
  PROVE  LoadedInPlace(D, ls, table)
<1> DEFINE ss == LoadedLists(ls, table)
           f == FlattenSeq(ss)
<1>1. /\ Len(ls) \in Nat /\ ss \in Seq(Seq(Metas(D))) /\ Len(ss) = Len(ls)
      /\ \A i \in 1..Len(ls) : ss[i] = LoadedMetas(ls[i], table)
  <2>1. Len(ls) \in Nat /\ IsList(ss, Len(ls), Seq(Metas(D)))
    BY LoadedListsType
  <2>2. \A i \in 1..Len(ls) : ss[i] = LoadedMetas(ls[i], table)
    BY DEF LoadedLists
  <2> HIDE DEF ss
  <2> QED BY <2>1, <2>2, ListType
<1>2. PartsInPlace(ss)
  BY <1>1, FlattenAt
<1>3. ASSUME NEW l \in 1..Len(ls)
      PROVE  NumLoaded(SubSeq(ls, 1, l - 1)) = SumOf(Lengths(SubSeq(ss, 1, l - 1)))
  <2> DEFINE n == l - 1
             ps == SubSeq(ls, 1, n)
  <2>1. n \in Nat /\ n <= Len(ls)
    BY <1>1
  <2>2. ps \in Seq(LookupsIn(table)) /\ Len(ps) = n /\ \A i \in 1..n : ps[i] = ls[i]
    BY <2>1
  <2>3. SubSeq(ss, 1, n) \in Seq(Seq(Metas(D))) /\ Len(SubSeq(ss, 1, n)) = n
        /\ \A i \in 1..n : SubSeq(ss, 1, n)[i] = ss[i]
    <3>1. n <= Len(ss)
      BY <1>1, <2>1
    <3> HIDE DEF n, ss
    <3> QED BY <1>1, <2>1, <3>1
  <2> HIDE DEF n, ps, ss
  <2>4. /\ LoadedLists(ps, table) \in Seq(Seq(Metas(D))) /\ Len(LoadedLists(ps, table)) = n
        /\ \A i \in 1..n : LoadedLists(ps, table)[i] = LoadedMetas(ps[i], table)
    <3>1. IsList(LoadedLists(ps, table), Len(ps), Seq(Metas(D)))
      BY <2>2, LoadedListsType
    <3>2. \A i \in 1..Len(ps) : LoadedLists(ps, table)[i] = LoadedMetas(ps[i], table)
      BY DEF LoadedLists
    <3> QED BY <2>1, <2>2, <3>1, <3>2, ListType
  <2>5. LoadedLists(ps, table) = SubSeq(ss, 1, n)
    <3>1. \A i \in 1..n : i \in 1..Len(ls)
      BY <1>1, <2>1
    <3>2. \A i \in 1..n : LoadedLists(ps, table)[i] = SubSeq(ss, 1, n)[i]
      BY <1>1, <2>2, <2>3, <2>4, <3>1
    <3> QED BY <2>3, <2>4, <3>2, SameSequence
  <2>6. NumLoaded(ps) = Len(FlattenSeq(LoadedLists(ps, table)))
    BY <2>2, LoadedCounts
  <2>7. SumOf(Lengths(SubSeq(ss, 1, n))) = Len(FlattenSeq(SubSeq(ss, 1, n)))
    BY <2>3, LengthSums
  <2> QED BY <2>5, <2>6, <2>7 DEF n, ps
<1> HIDE DEF ss
<1>4. ASSUME NEW l \in 1..Len(ls)
      PROVE  LET b == NumLoaded(SubSeq(ls, 1, l - 1))
             IN  /\ b \in Nat
                 /\ \A i \in 1..Len(LoadedMetas(ls[l], table)) :
                      b + i \in 1..Len(f) /\ f[b + i] = LoadedMetas(ls[l], table)[i]
  <2>1. l \in 1..Len(ss) /\ ss[l] = LoadedMetas(ls[l], table)
    BY <1>1
  <2> QED BY <1>2, <1>3, <2>1 DEF PartsInPlace
<1> QED BY <1>4 DEF LoadedInPlace, f, ss

\* The accounts that the program is given for the message.
InfosRight(D, m, table, infos) ==
  LET k == Len(m.account_keys)
      f == FlattenSeq(LoadedLists(m.address_table_lookups, table))
  IN  /\ infos \in Seq(Metas(D)) /\ Len(infos) = k + Len(f)
      /\ \A i \in 1..k : /\ infos[i].address = m.account_keys[i]
                         /\ IsSignerIndex(m, i - 1) /\ m.account_keys[i] # Vault => infos[i].signer
                         /\ IsStaticWritableIndex(m, i - 1) => infos[i].writable
      /\ \A i \in 1..Len(f) : /\ infos[k + i].address = f[i].address
                              /\ f[i].writable => infos[k + i].writable

LEMMA InfosFromList ==
  ASSUME NEW D, NEW m, NEW table, NEW ms, Listing(D, m, table, ms),
         Len(m.address_table_lookups) \in Nat, Len(m.account_keys) \in Nat,
         Len(FlattenSeq(LoadedLists(m.address_table_lookups, table))) \in Nat,
         NEW c, c = Len(m.account_keys)
                    + Len(FlattenSeq(LoadedLists(m.address_table_lookups, table)))
  PROVE  InfosRight(D, m, table, SubSeq(ms, Len(m.address_table_lookups) + 1,
                                            Len(m.address_table_lookups) + c))
<1> DEFINE ls == m.address_table_lookups
           f == FlattenSeq(LoadedLists(ls, table))
           n == Len(ls)
           k == Len(m.account_keys)
           v == Len(f)
           infos == SubSeq(ms, n + 1, n + c)
<1>1. /\ ms \in Seq(Metas(D)) /\ Len(ms) >= n + k + Len(f)
      /\ \A i \in 1..k : /\ ms[n + i].address = m.account_keys[i]
                         /\ IsSignerIndex(m, i - 1) /\ m.account_keys[i] # Vault => ms[n + i].signer
                         /\ IsStaticWritableIndex(m, i - 1) => ms[n + i].writable
      /\ \A i \in 1..Len(f) : /\ ms[n + k + i].address = f[i].address
                              /\ f[i].writable => ms[n + k + i].writable
  BY DEF Listing
<1>2. n \in Nat /\ k \in Nat /\ v \in Nat /\ c = k + v /\ Len(ms) \in Nat
  BY <1>1
<1> HIDE DEF n, k, v, f, ls
<1>3. c \in Nat /\ \A i \in 1..c : n + i \in 1..Len(ms)
  <2>1. Len(ms) >= n + k + v
    BY <1>1 DEF v
  <2>2. n \in Nat /\ k \in Nat /\ v \in Nat /\ c = k + v /\ Len(ms) \in Nat /\ Len(ms) >= n + k + v
    BY <1>2, <2>1
  <2> QED BY ONLY <2>2
<1>4. infos \in Seq(Metas(D)) /\ Len(infos) = c /\ \A i \in 1..c : infos[i] = ms[n + i]
  <2>1. ms \in Seq(Metas(D)) /\ n \in Nat /\ c \in Nat /\ \A i \in 1..c : n + i \in 1..Len(ms)
    BY <1>1, <1>2, <1>3
  <2> QED BY ONLY <2>1, PartOf DEF infos
<1> HIDE DEF infos
<1>5. /\ \A i \in 1..k : i \in 1..c
      /\ \A i \in 1..v : k + i \in 1..c /\ n + (k + i) = n + k + i
  <2>1. n \in Nat /\ k \in Nat /\ v \in Nat /\ c = k + v
    BY <1>2
  <2> QED BY ONLY <2>1
<1>6. \A i \in 1..k : /\ infos[i].address = m.account_keys[i]
                      /\ IsSignerIndex(m, i - 1) /\ m.account_keys[i] # Vault => infos[i].signer
                      /\ IsStaticWritableIndex(m, i - 1) => infos[i].writable
  BY <1>1, <1>4, <1>5
<1>7. \A i \in 1..v : /\ infos[k + i].address = f[i].address
                      /\ f[i].writable => infos[k + i].writable
  BY <1>1, <1>4, <1>5 DEF v
<1> QED BY <1>2, <1>4, <1>6, <1>7 DEF InfosRight, infos, n, k, v, f, ls

\* The accounts that a lookup loads, where the program looks for them.
LookupRight(D, m, table, infos, l) ==
  LET lookup == m.address_table_lookups[l]
      from == LoadedFrom(m, l)
      w == Entries(table[lookup.table], lookup.writable)
      r == Entries(table[lookup.table], lookup.readonly)
  IN  /\ from \in Nat
      /\ w \in Seq(D) /\ Len(w) = Len(lookup.writable) /\ Len(w) \in Nat
      /\ r \in Seq(D) /\ Len(r) = Len(lookup.readonly) /\ Len(r) \in Nat
      /\ \A i \in 1..Len(w) : /\ from + i \in 1..Len(infos)
                              /\ infos[from + i].address = w[i]
                              /\ infos[from + i].writable
      /\ \A i \in 1..Len(r) : /\ from + Len(w) + i \in 1..Len(infos)
                              /\ infos[from + Len(w) + i].address = r[i]

LEMMA LookupsRight ==
  ASSUME NEW D, NEW U, NEW table \in [U -> Seq(D)], NEW m, NEW infos,
         m.account_keys \in Seq(D), m.address_table_lookups \in Seq(LookupsIn(table)),
         InfosRight(D, m, table, infos), NEW l \in 1..Len(m.address_table_lookups)
  PROVE  LookupRight(D, m, table, infos, l)
<1> DEFINE ls == m.address_table_lookups
           k == Len(m.account_keys)
           f == FlattenSeq(LoadedLists(ls, table))
           b == NumLoaded(SubSeq(ls, 1, l - 1))
           t == LoadedMetas(ls[l], table)
           w == Entries(table[ls[l].table], ls[l].writable)
           r == Entries(table[ls[l].table], ls[l].readonly)
<1>1. k \in Nat /\ ls[l] \in LookupsIn(table)
  OBVIOUS
<1>2. Len(f) \in Nat /\ Len(infos) = k + Len(f)
  <2>1. IsList(LoadedLists(ls, table), Len(ls), Seq(Metas(D))) /\ Len(ls) \in Nat
    BY LoadedListsType
  <2>2. LoadedLists(ls, table) \in Seq(Seq(Metas(D)))
    BY <2>1, ListType
  <2>3. Len(f) \in Nat
    BY <2>2, LengthSums
  <2> QED BY <2>3 DEF InfosRight
<1>3. \A i \in 1..Len(f) : /\ infos[k + i].address = f[i].address
                           /\ f[i].writable => infos[k + i].writable
  BY DEF InfosRight
<1>4. b \in Nat /\ \A i \in 1..Len(t) : b + i \in 1..Len(f) /\ f[b + i] = t[i]
  <2>1. LoadedInPlace(D, ls, table)
    BY LoadedPlaces
  <2> QED BY <2>1 DEF LoadedInPlace
<1>5. /\ w \in Seq(D) /\ Len(w) = Len(ls[l].writable) /\ Len(w) \in Nat
      /\ r \in Seq(D) /\ Len(r) = Len(ls[l].readonly) /\ Len(r) \in Nat
      /\ Len(t) = Len(w) + Len(r)
      /\ \A i \in 1..Len(w) : t[i] = Meta(w[i], FALSE, TRUE)
      /\ \A i \in 1..Len(r) : t[Len(w) + i] = Meta(r[i], FALSE, FALSE)
  <2>1. LoadedInOrder(D, ls[l], table)
    BY <1>1, LoadedType
  <2> QED BY <2>1 DEF LoadedInOrder
<1>6. /\ \A i \in 1..Len(w) : t[i].address = w[i] /\ t[i].writable
      /\ \A i \in 1..Len(r) : t[Len(w) + i].address = r[i]
  <2>1. TRUE \in BOOLEAN /\ FALSE \in BOOLEAN
    OBVIOUS
  <2>2. \A i \in 1..Len(w) : Meta(w[i], FALSE, TRUE).address = w[i]
                             /\ Meta(w[i], FALSE, TRUE).writable = TRUE
    <3>1. \A i \in 1..Len(w) : w[i] \in D
      BY <1>5
    <3> QED BY <2>1, <3>1, MetaType
  <2>3. \A i \in 1..Len(r) : Meta(r[i], FALSE, FALSE).address = r[i]
    <3>1. \A i \in 1..Len(r) : r[i] \in D
      BY <1>5
    <3> QED BY <2>1, <3>1, MetaType
  <2> QED BY <1>5, <2>2, <2>3
<1> DEFINE from == LoadedFrom(m, l)
<1>7. from = k + b
  BY DEF LoadedFrom
<1> HIDE DEF from, b, t, w, r, f, k, ls
<1>8. /\ \A i \in 1..Len(w) : i \in 1..Len(t)
      /\ \A i \in 1..Len(r) : Len(w) + i \in 1..Len(t)
  <2>1. Len(w) \in Nat /\ Len(r) \in Nat /\ Len(t) = Len(w) + Len(r)
    BY <1>5
  <2> QED BY ONLY <2>1
<1>9. ASSUME NEW i \in 1..Len(w)
      PROVE  /\ from + i \in 1..Len(infos)
             /\ infos[from + i].address = w[i]
             /\ infos[from + i].writable
  <2>1. b + i \in 1..Len(f) /\ f[b + i] = t[i] /\ t[i].address = w[i] /\ t[i].writable
    BY <1>4, <1>6, <1>8
  <2>2. from + i = k + (b + i) /\ k + (b + i) \in 1..Len(infos)
    BY <1>1, <1>2, <1>4, <1>7, <2>1
  <2> QED BY <1>3, <2>1, <2>2
<1>10. ASSUME NEW i \in 1..Len(r)
       PROVE  /\ from + Len(w) + i \in 1..Len(infos)
              /\ infos[from + Len(w) + i].address = r[i]
  <2>1. b + (Len(w) + i) \in 1..Len(f) /\ f[b + (Len(w) + i)] = t[Len(w) + i]
        /\ t[Len(w) + i].address = r[i]
    BY <1>4, <1>6, <1>8
  <2>2. from + Len(w) + i = k + (b + (Len(w) + i)) /\ k + (b + (Len(w) + i)) \in 1..Len(infos)
    <3>1. /\ k \in Nat /\ b \in Nat /\ Len(w) \in Nat /\ Len(r) \in Nat /\ from = k + b
          /\ Len(f) \in Nat /\ Len(infos) = k + Len(f) /\ b + (Len(w) + i) \in 1..Len(f)
          /\ i \in 1..Len(r)
      BY <1>1, <1>2, <1>4, <1>5, <1>7, <2>1
    <3> QED BY ONLY <3>1
  <2> QED BY <1>3, <2>1, <2>2
<1>11. from \in Nat
  BY <1>1, <1>4, <1>7
<1> QED BY <1>5, <1>9, <1>10, <1>11 DEF LookupRight, from, w, r, ls

\* The program finds every account where the message has it.
LEMMA ValidatedHolds ==
  ASSUME NEW D, NEW U, NEW table \in [U -> Seq(D)], NEW m, NEW infos, NEW tableInfos,
         m.account_keys \in Seq(D), m.address_table_lookups \in Seq(LookupsIn(table)),
         InfosRight(D, m, table, infos),
         tableInfos \in Seq(Metas(D)), Len(tableInfos) = Len(m.address_table_lookups),
         \A i \in 1..Len(m.address_table_lookups) :
           tableInfos[i].address = m.address_table_lookups[i].table
  PROVE  Validated(m, infos, tableInfos, table)
<1> DEFINE ls == m.address_table_lookups
           k == Len(m.account_keys)
           f == FlattenSeq(LoadedLists(ls, table))
           n == Len(ls)
           a == AddressesIn(tableInfos)
<1>1. /\ DOMAIN ls = 1..n /\ n \in Nat /\ DOMAIN m.account_keys = 1..k /\ k \in Nat
      /\ \A i \in 1..n : ls[i] \in LookupsIn(table)
  OBVIOUS
<1>2. a \in Seq(D) /\ Len(a) = n /\ \A i \in 1..n : a[i] = ls[i].table
  <2>1. /\ a \in Seq(D) /\ Len(a) = Len(tableInfos)
        /\ \A i \in 1..Len(tableInfos) : a[i] = tableInfos[i].address
    BY AddressesType
  <2> QED BY <2>1
<1> HIDE DEF a
<1>3. a = Mapped(ls, LAMBDA l : l.table)
  <2>1. Mapped(ls, LAMBDA l : l.table) = [i \in 1..n |-> ls[i].table]
    BY <1>1 DEF Mapped
  <2>2. a = [i \in 1..n |-> a[i]]
    BY <1>2
  <2> QED BY <1>2, <2>1, <2>2
<1>4. ToSet(a) \subseteq DOMAIN table
  <2>1. DOMAIN a = 1..n /\ \A i \in 1..n : a[i] \in DOMAIN table
    <3>1. \A i \in 1..n : ls[i].table \in U /\ DOMAIN table = U
      BY <1>1, LookupType
    <3> HIDE DEF ls, n
    <3> QED BY <1>1, <1>2, <3>1
  <2> QED BY <2>1 DEF ToSet
<1>5. Len(infos) = NumAllAccountKeys(m)
  <2>1. NumLoaded(ls) = Len(f)
    BY LoadedCounts
  <2> QED BY <2>1 DEF NumAllAccountKeys, InfosRight
<1>6. ASSUME NEW i \in 1..k
      PROVE  /\ infos[i].address = m.account_keys[i]
             /\ IsSignerIndex(m, i - 1) /\ infos[i].address # Vault => infos[i].signer
             /\ IsStaticWritableIndex(m, i - 1) => infos[i].writable
  BY DEF InfosRight
<1>7. ASSUME NEW l \in 1..n,
             NEW i \in DOMAIN (ls[l].writable \o ls[l].readonly)
      PROVE  LET named == ls[l].writable \o ls[l].readonly
                 info == infos[LoadedFrom(m, l) + i]
             IN  /\ named[i] < Len(table[ls[l].table])
                 /\ info.address = Nth(table[ls[l].table], named[i])
                 /\ i <= Len(ls[l].writable) => info.writable
  <2> DEFINE lookup == ls[l]
             p == lookup.writable
             q == lookup.readonly
             list == table[lookup.table]
             named == p \o q
             w == Entries(list, p)
             r == Entries(list, q)
             from == LoadedFrom(m, l)
  <2>1. /\ p \in Seq(Nat) /\ q \in Seq(Nat)
        /\ \A j \in 1..Len(p) : p[j] < Len(list)
        /\ \A j \in 1..Len(q) : q[j] < Len(list)
    BY <1>1, LookupType
  <2>2. LookupRight(D, m, table, infos, l)
    BY LookupsRight
  <2>3. /\ from \in Nat /\ Len(w) = Len(p)
        /\ \A j \in 1..Len(p) : infos[from + j].address = w[j] /\ infos[from + j].writable
        /\ \A j \in 1..Len(q) : infos[from + Len(p) + j].address = r[j]
    BY <2>2 DEF LookupRight
  <2>4. /\ \A j \in 1..Len(p) : w[j] = Nth(list, p[j])
        /\ \A j \in 1..Len(q) : r[j] = Nth(list, q[j])
    BY DEF Entries
  <2> HIDE DEF w, r, from, list, p, q
  <2>5. i \in 1..Len(named)
    <3>1. named \in Seq(Nat)
      BY <2>1, Concatenated
    <3>2. DOMAIN named = 1..Len(named)
      BY <3>1
    <3> QED BY <3>2 DEF p, q
  <2>6. /\ Len(p) \in Nat /\ Len(q) \in Nat /\ i \in 1..(Len(p) + Len(q))
        /\ \/ i \in 1..Len(p) /\ named[i] = p[i]
           \/ i - Len(p) \in 1..Len(q) /\ named[i] = q[i - Len(p)]
    BY <2>1, <2>5, InBoth
  <2> HIDE DEF named
  <2>7. CASE i \in 1..Len(p) /\ named[i] = p[i]
    <3>1. /\ named[i] < Len(list)
          /\ infos[from + i].address = Nth(list, named[i])
          /\ infos[from + i].writable
      BY <2>1, <2>3, <2>4, <2>7
    <3> QED BY <3>1 DEF from, list, named, p, q
  <2>8. CASE i - Len(p) \in 1..Len(q) /\ named[i] = q[i - Len(p)]
    <3> DEFINE j == i - Len(p)
    <3>0. from \in Nat /\ Len(p) \in Nat /\ Len(q) \in Nat /\ i \in 1..(Len(p) + Len(q))
          /\ j \in 1..Len(q)
      BY <2>3, <2>6, <2>8
    <3>1. j \in 1..Len(q) /\ named[i] = q[j] /\ from + Len(p) + j = from + i /\ ~(i <= Len(p))
      <4>1. from + Len(p) + j = from + i /\ ~(i <= Len(p))
        BY ONLY <3>0
      <4> QED BY <2>8, <4>1
    <3> HIDE DEF j
    <3>2. /\ named[i] < Len(list)
          /\ infos[from + i].address = Nth(list, named[i])
      BY <2>1, <2>3, <2>4, <3>1
    <3> QED BY <3>1, <3>2 DEF from, list, named, p, q
  <2> QED BY <2>6, <2>7, <2>8
<1> HIDE DEF ls, k, n
<1>8. \A l \in DOMAIN ls :
        LET lookup == ls[l]
            named == lookup.writable \o lookup.readonly
        IN  \A i \in DOMAIN named :
              LET info == infos[LoadedFrom(m, l) + i]
              IN  /\ named[i] < Len(table[lookup.table])
                  /\ info.address = Nth(table[lookup.table], named[i])
                  /\ i <= Len(lookup.writable) => info.writable
  BY <1>1, <1>7
<1>9. \A i \in DOMAIN m.account_keys :
        /\ infos[i].address = m.account_keys[i]
        /\ IsSignerIndex(m, i - 1) /\ infos[i].address # Vault => infos[i].signer
        /\ IsStaticWritableIndex(m, i - 1) => infos[i].writable
  BY <1>1, <1>6
<1> QED BY <1>3, <1>4, <1>5, <1>8, <1>9, Zenon DEF Validated, a, ls

\* The accounts that each lookup loads, as the program cuts them out.
WritableInfos(m, infos) ==
  [l \in 1..Len(m.address_table_lookups) |->
     SubSeq(infos, LoadedFrom(m, l) + 0 + 1,
            LoadedFrom(m, l) + 0 + Len(m.address_table_lookups[l].writable))]
ReadonlyInfos(m, infos) ==
  [l \in 1..Len(m.address_table_lookups) |->
     SubSeq(infos, LoadedFrom(m, l) + Len(m.address_table_lookups[l].writable) + 1,
            LoadedFrom(m, l) + Len(m.address_table_lookups[l].writable)
              + Len(m.address_table_lookups[l].readonly))]

LEMMA ByIndex ==
  ASSUME NEW m, NEW infos, NEW X, m.address_table_lookups \in Seq(X)
  PROVE  AccountsByIndex(m, infos)
           = SubSeq(infos, 1, Len(m.account_keys)) \o FlattenSeq(WritableInfos(m, infos))
             \o FlattenSeq(ReadonlyInfos(m, infos))
<1>1. DOMAIN m.address_table_lookups = 1..Len(m.address_table_lookups)
  OBVIOUS
<1>2. WritableInfos(m, infos) = [l \in DOMAIN m.address_table_lookups |->
        SubSeq(infos, LoadedFrom(m, l) + 0 + 1,
               LoadedFrom(m, l) + 0 + Len(m.address_table_lookups[l].writable))]
  BY <1>1, Zenon DEF WritableInfos
<1>3. ReadonlyInfos(m, infos) = [l \in DOMAIN m.address_table_lookups |->
        SubSeq(infos, LoadedFrom(m, l) + Len(m.address_table_lookups[l].writable) + 1,
               LoadedFrom(m, l) + Len(m.address_table_lookups[l].writable)
                 + Len(m.address_table_lookups[l].readonly))]
  BY <1>1, Zenon DEF ReadonlyInfos
<1> QED BY <1>2, <1>3, Zenon DEF AccountsByIndex

\* A list of accounts with the addresses of s.
Addressed(D, s, metas) == metas \in Seq(Metas(D)) /\ AddressesIn(metas) = s

\* A part of a list of accounts, and its addresses.
LEMMA PartAddressed ==
  ASSUME NEW D, NEW infos \in Seq(Metas(D)), NEW b \in Nat, NEW n \in Nat, NEW s \in Seq(D),
         Len(s) = n,
         \A i \in 1..n : b + i \in 1..Len(infos) /\ infos[b + i].address = s[i]
  PROVE  Addressed(D, s, SubSeq(infos, b + 1, b + n))
<1> DEFINE t == SubSeq(infos, b + 1, b + n)
<1>1. t \in Seq(Metas(D)) /\ Len(t) = n /\ \A i \in 1..n : t[i] = infos[b + i]
  BY PartOf
<1> HIDE DEF t
<1>2. /\ AddressesIn(t) \in Seq(D) /\ Len(AddressesIn(t)) = n
      /\ \A i \in 1..n : AddressesIn(t)[i] = s[i]
  <2>1. /\ AddressesIn(t) \in Seq(D) /\ Len(AddressesIn(t)) = Len(t)
        /\ \A i \in 1..Len(t) : AddressesIn(t)[i] = t[i].address
    BY <1>1, AddressesType
  <2> QED BY <1>1, <2>1
<1>3. AddressesIn(t) = s
  BY <1>2, SameSequence
<1> QED BY <1>1, <1>3 DEF Addressed, t

LEMMA BothAddressed ==
  ASSUME NEW D, NEW s, NEW t, NEW ms, NEW ns, Addressed(D, s, ms), Addressed(D, t, ns)
  PROVE  Addressed(D, s \o t, ms \o ns)
<1>1. ms \in Seq(Metas(D)) /\ ns \in Seq(Metas(D))
  BY DEF Addressed
<1>2. ms \o ns \in Seq(Metas(D))
  BY <1>1, Concatenated
<1>3. AddressesIn(ms \o ns) = AddressesIn(ms) \o AddressesIn(ns)
  BY <1>1, AddressesOfBoth
<1> QED BY <1>2, <1>3 DEF Addressed

LEMMA AllAddressed ==
  ASSUME NEW D, NEW ss, NEW n \in Nat, NEW ms, ss = [l \in 1..n |-> ss[l]],
         ms = [l \in 1..n |-> ms[l]], \A l \in 1..n : Addressed(D, ss[l], ms[l])
  PROVE  Addressed(D, FlattenSeq(ss), FlattenSeq(ms))
<1>1. \A l \in 1..n : ms[l] \in Seq(Metas(D)) /\ AddressesIn(ms[l]) = ss[l]
  BY DEF Addressed
<1>2. IsList(ms, n, Seq(Metas(D)))
  BY <1>1 DEF IsList
<1>3. ms \in Seq(Seq(Metas(D))) /\ Len(ms) = n
  BY <1>2, ListType
<1>4. AddressLists(ms) = ss
  BY <1>1, <1>3 DEF AddressLists
<1>5. AddressesIn(FlattenSeq(ms)) = FlattenSeq(AddressLists(ms))
  BY <1>3, AddressesOfAll
<1>6. FlattenSeq(ms) \in Seq(Metas(D))
  BY <1>3, FlattenKeeps
<1> QED BY <1>4, <1>5, <1>6 DEF Addressed

\* The program counts the accounts as the client did.
LEMMA CountedAlike ==
  ASSUME NEW D, NEW U, NEW table \in [U -> Seq(D)], NEW m, NEW infos,
         m.account_keys \in Seq(D), m.address_table_lookups \in Seq(LookupsIn(table)),
         InfosRight(D, m, table, infos)
  PROVE  Addressed(D, m.account_keys \o FlattenSeq(WritableLoaded(m.address_table_lookups, table))
                      \o FlattenSeq(ReadonlyLoaded(m.address_table_lookups, table)),
                   AccountsByIndex(m, infos))
<1> DEFINE ls == m.address_table_lookups
           n == Len(ls)
           k == Len(m.account_keys)
           f == FlattenSeq(LoadedLists(ls, table))
<1>1. infos \in Seq(Metas(D)) /\ n \in Nat /\ k \in Nat
  BY DEF InfosRight
<1>2. Addressed(D, m.account_keys, SubSeq(infos, 1, k))
  <2>1. Len(infos) = k + Len(f) /\ \A i \in 1..k : infos[i].address = m.account_keys[i]
    BY DEF InfosRight
  <2>2. Len(f) \in Nat
    <3>1. IsList(LoadedLists(ls, table), n, Seq(Metas(D)))
      BY LoadedListsType
    <3>2. LoadedLists(ls, table) \in Seq(Seq(Metas(D)))
      BY <1>1, <3>1, ListType
    <3> QED BY <3>2, LengthSums
  <2> HIDE DEF f
  <2>3. \A i \in 1..k : 0 + i \in 1..Len(infos) /\ infos[0 + i].address = m.account_keys[i]
    BY <1>1, <2>1, <2>2
  <2>4. Addressed(D, m.account_keys, SubSeq(infos, 0 + 1, 0 + k))
    BY <1>1, <2>3, PartAddressed, 0 \in Nat
  <2>5. 0 + 1 = 1 /\ 0 + k = k
    BY <1>1
  <2> HIDE DEF k
  <2> QED BY <2>4, <2>5
<1>3. ASSUME NEW l \in 1..n
      PROVE  /\ Addressed(D, WritableLoaded(ls, table)[l], WritableInfos(m, infos)[l])
             /\ Addressed(D, ReadonlyLoaded(ls, table)[l], ReadonlyInfos(m, infos)[l])
  <2> DEFINE w == Entries(table[ls[l].table], ls[l].writable)
             r == Entries(table[ls[l].table], ls[l].readonly)
             from == LoadedFrom(m, l)
             nw == Len(ls[l].writable)
             nr == Len(ls[l].readonly)
  <2>1. /\ WritableLoaded(ls, table)[l] = w /\ ReadonlyLoaded(ls, table)[l] = r
        /\ WritableInfos(m, infos)[l] = SubSeq(infos, from + 0 + 1, from + 0 + nw)
        /\ ReadonlyInfos(m, infos)[l] = SubSeq(infos, from + nw + 1, from + nw + nr)
    BY Zenon DEF WritableLoaded, ReadonlyLoaded, WritableInfos, ReadonlyInfos
  <2>2. LookupRight(D, m, table, infos, l)
    BY LookupsRight
  <2>3. /\ from \in Nat
        /\ w \in Seq(D) /\ Len(w) = nw /\ nw \in Nat
        /\ r \in Seq(D) /\ Len(r) = nr /\ nr \in Nat
        /\ \A i \in 1..nw : /\ from + i \in 1..Len(infos)
                            /\ infos[from + i].address = w[i]
        /\ \A i \in 1..nr : /\ from + nw + i \in 1..Len(infos)
                            /\ infos[from + nw + i].address = r[i]
    BY <2>2 DEF LookupRight
  <2> HIDE DEF w, r, from, nw, nr
  <2>4. from + 0 = from /\ from + nw \in Nat
    BY <2>3
  <2>5. Addressed(D, w, SubSeq(infos, from + 1, from + nw))
    BY <1>1, <2>3, PartAddressed
  <2>6. Addressed(D, r, SubSeq(infos, (from + nw) + 1, (from + nw) + nr))
    BY <1>1, <2>3, <2>4, PartAddressed
  <2> QED BY <2>1, <2>4, <2>5, <2>6
<1>4. /\ Addressed(D, FlattenSeq(WritableLoaded(ls, table)), FlattenSeq(WritableInfos(m, infos)))
      /\ Addressed(D, FlattenSeq(ReadonlyLoaded(ls, table)), FlattenSeq(ReadonlyInfos(m, infos)))
  <2>1. /\ WritableLoaded(ls, table) = [l \in 1..n |-> WritableLoaded(ls, table)[l]]
        /\ ReadonlyLoaded(ls, table) = [l \in 1..n |-> ReadonlyLoaded(ls, table)[l]]
        /\ WritableInfos(m, infos) = [l \in 1..n |-> WritableInfos(m, infos)[l]]
        /\ ReadonlyInfos(m, infos) = [l \in 1..n |-> ReadonlyInfos(m, infos)[l]]
    BY DEF WritableLoaded, ReadonlyLoaded, WritableInfos, ReadonlyInfos
  <2> QED BY <1>1, <1>3, <2>1, AllAddressed
<1>5. Addressed(D, m.account_keys \o FlattenSeq(WritableLoaded(ls, table)),
                SubSeq(infos, 1, k) \o FlattenSeq(WritableInfos(m, infos)))
  BY <1>2, <1>4, BothAddressed
<1>6. Addressed(D, m.account_keys \o FlattenSeq(WritableLoaded(ls, table))
                     \o FlattenSeq(ReadonlyLoaded(ls, table)),
                SubSeq(infos, 1, k) \o FlattenSeq(WritableInfos(m, infos))
                     \o FlattenSeq(ReadonlyInfos(m, infos)))
  BY <1>4, <1>5, BothAddressed
<1> QED BY <1>6, ByIndex

-----------------------------------------------------------------------------
(* What runs.                                                              *)

\* Every account of an instruction with the rights that some instruction asks for.
WithRights(ixs) ==
  Mapped(ixs, LAMBDA ix :
    [program  |-> ix.program,
     accounts |-> Mapped(AddressesIn(ix.accounts), LAMBDA a :
       Meta(a, a \in SignersOf(ixs), a \in WritablesOf(ixs)))])

WithRightsAt(ixs, i) ==
  [program  |-> ixs[i].program,
   accounts |-> [j \in 1..Len(ixs[i].accounts) |->
     Meta(ixs[i].accounts[j].address, ixs[i].accounts[j].address \in SignersOf(ixs),
          ixs[i].accounts[j].address \in WritablesOf(ixs))]]

LEMMA WithRightsList ==
  ASSUME NEW D, NEW ixs \in Seq(Writing(D))
  PROVE  WithRights(ixs) = [i \in 1..Len(ixs) |-> WithRightsAt(ixs, i)]
<1>1. DOMAIN ixs = 1..Len(ixs) /\ \A i \in 1..Len(ixs) : ixs[i] \in Writing(D)
  OBVIOUS
<1>2. ASSUME NEW i \in 1..Len(ixs)
      PROVE  Mapped(AddressesIn(ixs[i].accounts), LAMBDA a :
                    Meta(a, a \in SignersOf(ixs), a \in WritablesOf(ixs)))
               = [j \in 1..Len(ixs[i].accounts) |->
                    Meta(ixs[i].accounts[j].address, ixs[i].accounts[j].address \in SignersOf(ixs),
                         ixs[i].accounts[j].address \in WritablesOf(ixs))]
  <2> DEFINE t == ixs[i].accounts
             u == AddressesIn(t)
  <2>1. t \in Seq(Metas(D))
    BY <1>1 DEF Writing
  <2>2. /\ DOMAIN u = 1..Len(t) /\ \A j \in 1..Len(t) : u[j] = t[j].address
    <3>1. /\ u \in Seq(D) /\ Len(u) = Len(t) /\ \A j \in 1..Len(t) : u[j] = t[j].address
      BY <2>1, AddressesType
    <3> HIDE DEF u, t
    <3> QED BY <3>1
  <2> HIDE DEF u, t
  <2>3. Mapped(u, LAMBDA a : Meta(a, a \in SignersOf(ixs), a \in WritablesOf(ixs)))
          = [j \in DOMAIN u |-> Meta(u[j], u[j] \in SignersOf(ixs), u[j] \in WritablesOf(ixs))]
    BY Zenon DEF Mapped
  <2>4. Mapped(u, LAMBDA a : Meta(a, a \in SignersOf(ixs), a \in WritablesOf(ixs)))
          = [j \in 1..Len(t) |-> Meta(t[j].address, t[j].address \in SignersOf(ixs),
                                      t[j].address \in WritablesOf(ixs))]
    BY <2>2, <2>3
  <2> QED BY <2>4 DEF u, t
<1>3. WithRights(ixs) = [i \in 1..Len(ixs) |->
        [program  |-> ixs[i].program,
         accounts |-> Mapped(AddressesIn(ixs[i].accounts), LAMBDA a :
                        Meta(a, a \in SignersOf(ixs), a \in WritablesOf(ixs)))]]
  BY <1>1, Zenon DEF WithRights, Mapped
<1> QED BY <1>2, <1>3 DEF WithRightsAt

\* The compiled instructions.
CompiledAt(ixs, keys, i) ==
  [program  |-> IndexOf(keys, ixs[i].program),
   accounts |-> [j \in 1..Len(ixs[i].accounts) |-> IndexOf(keys, ixs[i].accounts[j].address)]]

LEMMA CompiledList ==
  ASSUME NEW D, NEW ixs \in Seq(Writing(D)), NEW keys
  PROVE  CompiledInstructions(ixs, keys) = [i \in 1..Len(ixs) |-> CompiledAt(ixs, keys, i)]
<1>1. DOMAIN ixs = 1..Len(ixs) /\ \A i \in 1..Len(ixs) : ixs[i] \in Writing(D)
  OBVIOUS
<1>2. ASSUME NEW i \in 1..Len(ixs)
      PROVE  Mapped(ixs[i].accounts, LAMBDA m : IndexOf(keys, m.address))
               = [j \in 1..Len(ixs[i].accounts) |-> IndexOf(keys, ixs[i].accounts[j].address)]
  <2>1. DOMAIN ixs[i].accounts = 1..Len(ixs[i].accounts)
    BY <1>1 DEF Writing
  <2> QED BY <2>1, Zenon DEF Mapped
<1>3. CompiledInstructions(ixs, keys) = [i \in DOMAIN ixs |->
        [program  |-> IndexOf(keys, ixs[i].program),
         accounts |-> Mapped(ixs[i].accounts, LAMBDA m : IndexOf(keys, m.address))]]
  BY Zenon DEF CompiledInstructions, Mapped
<1> QED BY <1>1, <1>2, <1>3 DEF CompiledAt

\* The account at position p, with the rights that the header gives it.
RightsAt(m, accounts, n, p) ==
  Meta(Nth(accounts, p).address, IsSignerIndex(m, p),
       \/ IsStaticWritableIndex(m, p)
       \/ p >= Len(m.account_keys) /\ p - Len(m.account_keys) < n)

NumWritable(m) == SumOf(Mapped(m.address_table_lookups, LAMBDA l : Len(l.writable)))

LEMMA ToInstructionsAre ==
  ASSUME NEW m, NEW accounts
  PROVE  ToInstructions(m, accounts) =
           [i \in DOMAIN m.instructions |->
             [program  |-> Nth(accounts, m.instructions[i].program).address,
              accounts |-> [j \in DOMAIN m.instructions[i].accounts |->
                 RightsAt(m, accounts, NumWritable(m), m.instructions[i].accounts[j])]]]
BY Zenon DEF ToInstructions, Mapped, RightsAt, NumWritable

\* The key at a position of the message, and its account.
KeyFound(ixs, m, e, accounts, k) ==
  LET p == IndexOf(AllKeys(m, e), k)
  IN  /\ p \in 0..(Len(AllKeys(m, e)) - 1)
      /\ Nth(accounts, p).address = k
      /\ RightsAt(m, accounts, Len(e.writable), p)
           = Meta(k, k \in SignersOf(ixs), k \in WritablesOf(ixs))

LEMMA KeysFound ==
  ASSUME NEW D, NEW ixs, NEW e, SentRight(D, ixs, e), NEW accounts,
         Addressed(D, AllKeys(Sent(ixs, e), e), accounts),
         NEW k \in ToSet(AllKeys(Sent(ixs, e), e))
  PROVE  KeyFound(ixs, Sent(ixs, e), e, accounts, k)
<1> DEFINE m == Sent(ixs, e)
           all == AllKeys(m, e)
           p == IndexOf(all, k)
           G == SignersOf(ixs)
           M == WritablesOf(ixs)
<1>1. all \in Seq(D) /\ PositionsTell(m, e, G, M)
  BY DEF SentRight
<1>2. p \in 0..(Len(all) - 1) /\ Nth(all, p) = k
  BY <1>1, Found
<1> HIDE DEF m, p
<1>3. /\ IsSignerIndex(m, p) <=> k \in G
      /\ (\/ IsStaticWritableIndex(m, p)
          \/ p >= Len(m.account_keys) /\ p - Len(m.account_keys) < Len(e.writable))
            <=> k \in M
  BY <1>1, <1>2 DEF PositionsTell
<1>4. Nth(accounts, p).address = k
  <2>1. accounts \in Seq(Metas(D)) /\ AddressesIn(accounts) = all
    BY DEF Addressed, m
  <2>2. Len(all) = Len(accounts) /\ \A i \in 1..Len(accounts) : all[i] = accounts[i].address
    <3>1. /\ Len(AddressesIn(accounts)) = Len(accounts)
          /\ \A i \in 1..Len(accounts) : AddressesIn(accounts)[i] = accounts[i].address
      BY <2>1, AddressesType
    <3> QED BY <2>1, <3>1
  <2> HIDE DEF all
  <2>3. p + 1 \in 1..Len(all)
    <3>1. Len(all) \in Nat
      BY <1>1
    <3> QED BY <1>2, <3>1
  <2>4. accounts[p + 1].address = all[p + 1]
    BY <2>2, <2>3
  <2> QED BY <1>2, <2>4 DEF Nth
<1> DEFINE x == IsSignerIndex(m, p)
           y == \/ IsStaticWritableIndex(m, p)
                \/ p >= Len(m.account_keys) /\ p - Len(m.account_keys) < Len(e.writable)
<1>5. x = (k \in G) /\ y = (k \in M)
  <2>1. x \in BOOLEAN /\ y \in BOOLEAN
    BY DEF IsSignerIndex, IsStaticWritableIndex
  <2>2. (x <=> (k \in G)) /\ (y <=> (k \in M))
    BY <1>3
  <2> HIDE DEF x, y, G, M
  <2> QED BY <2>1, <2>2
<1>6. RightsAt(m, accounts, Len(e.writable), p) = Meta(Nth(accounts, p).address, x, y)
  BY Zenon DEF RightsAt
<1> HIDE DEF x, y
<1>7. RightsAt(m, accounts, Len(e.writable), p) = Meta(k, k \in G, k \in M)
  BY <1>4, <1>5, <1>6
<1> QED BY <1>2, <1>4, <1>7 DEF KeyFound, m, p

\* What the message of an extraction holds.
Compiles(D, table, ixs, e) ==
  LET m == Sent(ixs, e)
  IN  /\ SentRight(D, ixs, e)
      /\ m.instructions = [i \in 1..Len(ixs) |-> CompiledAt(ixs, AllKeys(m, e), i)]
      /\ m.address_table_lookups = e.lookups
      /\ e.lookups \in Seq(LookupsIn(table))
      /\ e.writable = FlattenSeq(WritableLoaded(e.lookups, table))
      /\ e.readonly = FlattenSeq(ReadonlyLoaded(e.lookups, table))
      /\ NumWritable(m) = Len(e.writable)
      /\ NumAllAccountKeys(m) = Len(AllKeys(m, e))
      /\ \A i \in 1..Len(ixs) :
           /\ ixs[i].program \in ToSet(AllKeys(m, e))
           /\ \A j \in 1..Len(ixs[i].accounts) :
                ixs[i].accounts[j].address \in ToSet(AllKeys(m, e))

LEMMA ExtractionCompiles ==
  ASSUME NEW D, Vault \in D, NEW U, NEW table \in [U -> Seq(D)], NEW ixs \in Seq(Writing(D)),
         NEW e, Extraction(D, table, ToSet(KeysOf(ixs)), SignersOf(ixs), WritablesOf(ixs), e)
  PROVE  Compiles(D, table, ixs, e)
<1> DEFINE m == Sent(ixs, e)
           all == AllKeys(m, e)
<1>1. /\ e.left \in Seq(D) /\ e.lookups \in Seq(LookupsIn(table))
      /\ e.writable \in Seq(D) /\ e.readonly \in Seq(D)
      /\ e.writable = FlattenSeq(WritableLoaded(e.lookups, table))
      /\ e.readonly = FlattenSeq(ReadonlyLoaded(e.lookups, table))
      /\ ToSet(e.left) \cup ToSet(e.writable) \cup ToSet(e.readonly) = ToSet(KeysOf(ixs))
  BY DEF Extraction, Extracts
<1>2. SentRight(D, ixs, e)
  BY SentIsRight
<1>3. m.instructions = CompiledInstructions(ixs, all) /\ m.address_table_lookups = e.lookups
  <2>1. InClasses(ixs, e, m)
    BY <1>1, SentFields
  <2> HIDE DEF m
  <2> QED BY <2>1 DEF InClasses, AllKeys
<1>4. m.instructions = [i \in 1..Len(ixs) |-> CompiledAt(ixs, all, i)]
  <2>1. CompiledInstructions(ixs, all) = [i \in 1..Len(ixs) |-> CompiledAt(ixs, all, i)]
    BY CompiledList
  <2> QED BY <1>3, <2>1
<1>5. /\ Len(all) = Len(m.account_keys) + Len(e.writable) + Len(e.readonly)
      /\ ToSet(all) = ToSet(KeysOf(ixs))
      /\ m.account_keys \in Seq(D)
  BY <1>1, <1>2 DEF SentRight
<1> HIDE DEF m, all
<1>6. /\ NumLoaded(e.lookups) = Len(e.writable) + Len(e.readonly)
      /\ NumWritable(m) = Len(e.writable)
  <2>1. /\ NumLoaded(e.lookups) = Len(FlattenSeq(WritableLoaded(e.lookups, table)))
                                  + Len(FlattenSeq(ReadonlyLoaded(e.lookups, table)))
        /\ SumOf(Mapped(e.lookups, LAMBDA l : Len(l.writable)))
             = Len(FlattenSeq(WritableLoaded(e.lookups, table)))
    BY <1>1, LoadedCounts
  <2>2. NumWritable(m) = SumOf(Mapped(e.lookups, LAMBDA l : Len(l.writable)))
    BY <1>3 DEF NumWritable
  <2> QED BY <1>1, <2>1, <2>2
<1>7. NumAllAccountKeys(m) = Len(all)
  <2>1. Len(m.account_keys) \in Nat /\ Len(e.writable) \in Nat /\ Len(e.readonly) \in Nat
    BY <1>1, <1>5
  <2>2. NumAllAccountKeys(m) = Len(m.account_keys) + NumLoaded(e.lookups)
    BY <1>3 DEF NumAllAccountKeys
  <2>3. /\ Len(all) = Len(m.account_keys) + Len(e.writable) + Len(e.readonly)
        /\ NumLoaded(e.lookups) = Len(e.writable) + Len(e.readonly)
    BY <1>5, <1>6
  <2> DEFINE x == Len(m.account_keys)
             w == Len(e.writable)
             r == Len(e.readonly)
  <2>4. /\ x \in Nat /\ w \in Nat /\ r \in Nat
        /\ NumAllAccountKeys(m) = x + NumLoaded(e.lookups)
        /\ Len(all) = x + w + r
        /\ NumLoaded(e.lookups) = w + r
    BY <2>1, <2>2, <2>3
  <2>5. x + (w + r) = x + w + r
    <3> HIDE DEF x, w, r
    <3> QED BY ONLY <2>4
  <2>6. NumAllAccountKeys(m) = x + (w + r)
    <3> HIDE DEF x, w, r
    <3> QED BY <2>4
  <2> QED BY <2>4, <2>5, <2>6
<1>8. \A i \in 1..Len(ixs) :
        /\ ixs[i].program \in ToSet(all)
        /\ \A j \in 1..Len(ixs[i].accounts) : ixs[i].accounts[j].address \in ToSet(all)
  <2>1. \A i \in 1..Len(ixs) :
          /\ ixs[i].program \in ToSet(KeysOf(ixs))
          /\ \A j \in 1..Len(ixs[i].accounts) :
               ixs[i].accounts[j].address \in ToSet(KeysOf(ixs))
    BY KeysOfAll
  <2> QED BY <1>5, <2>1
<1> QED BY <1>1, <1>2, <1>3, <1>4, <1>6, <1>7, <1>8 DEF Compiles, m, all

\* The accounts and rights that run are those that were written.
LEMMA RunIsWritten ==
  ASSUME NEW D, NEW table, NEW ixs \in Seq(Writing(D)), NEW e, Compiles(D, table, ixs, e),
         NEW accounts, Addressed(D, AllKeys(Sent(ixs, e), e), accounts)
  PROVE  ToInstructions(Sent(ixs, e), accounts) = WithRights(ixs)
<1> DEFINE m == Sent(ixs, e)
           all == AllKeys(m, e)
           n == Len(ixs)
<1>1. /\ SentRight(D, ixs, e)
      /\ m.instructions = [i \in 1..n |-> CompiledAt(ixs, all, i)]
      /\ NumWritable(m) = Len(e.writable)
      /\ \A i \in 1..n :
           /\ ixs[i].program \in ToSet(all)
           /\ \A j \in 1..Len(ixs[i].accounts) : ixs[i].accounts[j].address \in ToSet(all)
  BY DEF Compiles
<1>2. \A k \in ToSet(all) : KeyFound(ixs, m, e, accounts, k)
  BY <1>1, KeysFound
<1>3. WithRights(ixs) = [i \in 1..n |-> WithRightsAt(ixs, i)]
  BY WithRightsList
<1>4. ToInstructions(m, accounts) =
        [i \in DOMAIN m.instructions |->
          [program  |-> Nth(accounts, m.instructions[i].program).address,
           accounts |-> [j \in DOMAIN m.instructions[i].accounts |->
              RightsAt(m, accounts, NumWritable(m), m.instructions[i].accounts[j])]]]
  BY ToInstructionsAre
<1> HIDE DEF m
<1>5. ASSUME NEW i \in 1..n
      PROVE  [program  |-> Nth(accounts, m.instructions[i].program).address,
              accounts |-> [j \in DOMAIN m.instructions[i].accounts |->
                 RightsAt(m, accounts, NumWritable(m), m.instructions[i].accounts[j])]]
               = WithRightsAt(ixs, i)
  <2> DEFINE t == ixs[i].accounts
             c == CompiledAt(ixs, all, i)
  <2>1. m.instructions[i] = c
    BY <1>1
  <2>2. /\ c.program = IndexOf(all, ixs[i].program)
        /\ DOMAIN c.accounts = 1..Len(t)
        /\ \A j \in 1..Len(t) : c.accounts[j] = IndexOf(all, t[j].address)
    BY DEF CompiledAt
  <2> HIDE DEF c
  <2>3. Nth(accounts, c.program).address = ixs[i].program
    <3>1. KeyFound(ixs, m, e, accounts, ixs[i].program)
      BY <1>1, <1>2
    <3> QED BY <2>2, <3>1 DEF KeyFound
  <2>4. \A j \in 1..Len(t) : RightsAt(m, accounts, NumWritable(m), c.accounts[j])
          = Meta(t[j].address, t[j].address \in SignersOf(ixs), t[j].address \in WritablesOf(ixs))
    <3>1. \A j \in 1..Len(t) : KeyFound(ixs, m, e, accounts, t[j].address)
      BY <1>1, <1>2
    <3> HIDE DEF t
    <3>2. TAKE j \in 1..Len(t)
    <3> DEFINE k == t[j].address
               p == IndexOf(all, k)
    <3>3. c.accounts[j] = p
      BY <2>2
    <3>4. RightsAt(m, accounts, Len(e.writable), p)
            = Meta(k, k \in SignersOf(ixs), k \in WritablesOf(ixs))
      BY <3>1, Zenon DEF KeyFound
    <3> HIDE DEF k, p, all
    <3>5. RightsAt(m, accounts, NumWritable(m), c.accounts[j])
            = Meta(k, k \in SignersOf(ixs), k \in WritablesOf(ixs))
      BY <1>1, <3>3, <3>4, Zenon
    <3> QED BY <3>5, Zenon DEF k
  <2> HIDE DEF t
  <2>5. [j \in 1..Len(t) |-> RightsAt(m, accounts, NumWritable(m), c.accounts[j])]
          = [j \in 1..Len(t) |->
              Meta(t[j].address, t[j].address \in SignersOf(ixs),
                   t[j].address \in WritablesOf(ixs))]
    BY <2>4, Zenon
  <2>6. WithRightsAt(ixs, i) =
          [program  |-> ixs[i].program,
           accounts |-> [j \in 1..Len(t) |->
              Meta(t[j].address, t[j].address \in SignersOf(ixs),
                   t[j].address \in WritablesOf(ixs))]]
    BY Zenon DEF WithRightsAt, t
  <2> QED BY <2>1, <2>2, <2>3, <2>5, <2>6
<1>6. DOMAIN m.instructions = 1..n
  BY <1>1
<1> HIDE DEF n, all
<1>7. ToInstructions(m, accounts) = [i \in 1..n |-> WithRightsAt(ixs, i)]
  BY <1>4, <1>5, <1>6
<1> QED BY <1>3, <1>7 DEF m

\* The program accepts the positions that the client sends.
LEMMA PositionsValid ==
  ASSUME NEW D, NEW table, NEW ixs \in Seq(Writing(D)), NEW e, Compiles(D, table, ixs, e)
  PROVE  Valid(Sent(ixs, e))
<1> DEFINE m == Sent(ixs, e)
           all == AllKeys(m, e)
           n == Len(ixs)
<1>1. /\ SentRight(D, ixs, e)
      /\ m.instructions = [i \in 1..n |-> CompiledAt(ixs, all, i)]
      /\ NumAllAccountKeys(m) = Len(all)
      /\ \A i \in 1..n :
           /\ ixs[i].program \in ToSet(all)
           /\ \A j \in 1..Len(ixs[i].accounts) : ixs[i].accounts[j].address \in ToSet(all)
  BY DEF Compiles
<1>2. /\ all \in Seq(D)
      /\ m.num_signers <= Len(m.account_keys)
      /\ m.num_writable_signers <= m.num_signers
      /\ m.num_writable_non_signers <= Len(m.account_keys) - m.num_signers
  BY <1>1 DEF SentRight
<1>3. \A k \in ToSet(all) : IndexOf(all, k) \in 0..(NumAllAccountKeys(m) - 1)
  BY <1>1, <1>2, Found
<1> HIDE DEF m, all, n
<1>4. ASSUME NEW ix \in ToSet(m.instructions)
      PROVE  {ix.program} \cup ToSet(ix.accounts) \subseteq 0..(NumAllAccountKeys(m) - 1)
  <2>1. PICK i \in 1..n : ix = CompiledAt(ixs, all, i)
    BY <1>1 DEF ToSet
  <2>2. /\ ix.program = IndexOf(all, ixs[i].program)
        /\ ix.accounts = [j \in 1..Len(ixs[i].accounts) |->
                            IndexOf(all, ixs[i].accounts[j].address)]
    BY <2>1 DEF CompiledAt
  <2>3. ix.program \in 0..(NumAllAccountKeys(m) - 1)
    BY <1>1, <1>3, <2>2
  <2>4. \A x \in ToSet(ix.accounts) : x \in 0..(NumAllAccountKeys(m) - 1)
    <3>1. \A x \in ToSet(ix.accounts) :
            \E j \in 1..Len(ixs[i].accounts) : x = IndexOf(all, ixs[i].accounts[j].address)
      BY <2>2 DEF ToSet
    <3> QED BY <1>1, <1>3, <3>1
  <2> QED BY <2>3, <2>4
<1> QED BY <1>2, <1>4 DEF Valid, m

\* What may not be written to is refused, and nothing else is.
LEMMA OnlyProtectedRefused ==
  ASSUME NEW D, NEW ixs \in Seq(Writing(D)), NEW protected, Vault \notin protected
  PROVE  Unprotected(WithRights(ixs), protected) <=> protected \cap WritablesOf(ixs) = {}
<1> DEFINE run == WithRights(ixs)
           n == Len(ixs)
           M == WritablesOf(ixs)
<1>1. /\ run = [i \in 1..n |-> WithRightsAt(ixs, i)]
      /\ DOMAIN run = 1..n /\ \A i \in 1..n : run[i] = WithRightsAt(ixs, i)
  <2>1. run = [i \in 1..n |-> WithRightsAt(ixs, i)]
    BY WithRightsList
  <2> HIDE DEF run
  <2> QED BY <2>1
<1> HIDE DEF run, n
<1>2. ASSUME NEW i \in 1..n
      PROVE  /\ DOMAIN run[i].accounts = 1..Len(ixs[i].accounts)
             /\ \A j \in 1..Len(ixs[i].accounts) :
                  /\ run[i].accounts[j].address = ixs[i].accounts[j].address
                  /\ run[i].accounts[j].writable = (ixs[i].accounts[j].address \in M)
  BY <1>1 DEF WithRightsAt, Meta
<1>3. \A a : a \in M <=>
        \/ a = Vault
        \/ \E i \in 1..n : \E j \in 1..Len(ixs[i].accounts) :
             ixs[i].accounts[j].writable /\ ixs[i].accounts[j].address = a
  BY WritableAccounts DEF n
<1> HIDE DEF M
<1>4. ASSUME Unprotected(run, protected) PROVE protected \cap M = {}
  <2> SUFFICES ASSUME NEW a \in protected, a \in M PROVE FALSE
    OBVIOUS
  <2>1. PICK i \in 1..n : \E j \in 1..Len(ixs[i].accounts) : ixs[i].accounts[j].address = a
    BY <1>3
  <2>2. PICK j \in 1..Len(ixs[i].accounts) : ixs[i].accounts[j].address = a
    BY <2>1
  <2>3. run[i] \in ToSet(run) /\ run[i].accounts[j] \in ToSet(run[i].accounts)
    BY <1>1, <1>2 DEF ToSet
  <2>4. run[i].accounts[j].address = a /\ run[i].accounts[j].writable
    BY <1>2, <2>2
  <2> QED BY <1>4, <2>3, <2>4 DEF Unprotected
<1>5. ASSUME protected \cap M = {} PROVE Unprotected(run, protected)
  <2> SUFFICES ASSUME NEW ix \in ToSet(run), NEW a \in ToSet(ix.accounts), a.writable
               PROVE  a.address \notin protected
    BY DEF Unprotected
  <2>1. PICK i \in 1..n : ix = run[i]
    BY <1>1 DEF ToSet
  <2>2. PICK j \in 1..Len(ixs[i].accounts) : a = run[i].accounts[j]
    BY <1>2, <2>1 DEF ToSet
  <2>3. a.address \in M
    BY <1>2, <2>2
  <2> QED BY <1>5, <2>3
<1> QED BY <1>4, <1>5 DEF run, M

\* A list of accounts that has those of the message at their places runs it.
LEMMA ListedRuns ==
  ASSUME NEW D, Vault \in D, NEW U, NEW table \in [U -> Seq(D)],
         NEW ixs \in Seq(Writing(D)), NEW e, Compiles(D, table, ixs, e),
         NEW remaining, Listing(D, Sent(ixs, e), table, remaining),
         NEW protected, Vault \notin protected
  PROVE  Executed(Sent(ixs, e), remaining, table, protected)
           = IF protected \cap WritablesOf(ixs) = {} THEN WithRights(ixs) ELSE Refused
<1> DEFINE m == Sent(ixs, e)
           ls == m.address_table_lookups
           n == Len(ls)
           k == Len(m.account_keys)
           f == FlattenSeq(LoadedLists(ls, table))
           c == NumAllAccountKeys(m)
<1>1. /\ SentRight(D, ixs, e)
      /\ ls = e.lookups
      /\ e.lookups \in Seq(LookupsIn(table))
      /\ e.writable = FlattenSeq(WritableLoaded(e.lookups, table))
      /\ e.readonly = FlattenSeq(ReadonlyLoaded(e.lookups, table))
  BY DEF Compiles
<1>2. /\ m.account_keys \in Seq(D)
      /\ m.num_signers \in Nat /\ m.num_writable_signers \in Nat
      /\ m.num_writable_non_signers \in Nat
  BY <1>1 DEF SentRight
<1>3. ls \in Seq(LookupsIn(table))
  BY <1>1
<1>4. remaining \in Seq(Metas(D)) /\ Listing(D, m, table, remaining)
  BY DEF Listing
<1> HIDE DEF m
<1>5. n \in Nat /\ k \in Nat /\ Len(f) \in Nat /\ c = k + Len(f)
  <2>1. k \in Nat
    BY <1>2
  <2>2. NumLoaded(ls) = Len(f) /\ NumLoaded(ls) \in Nat
    BY <1>3, LoadedCounts
  <2>3. n \in Nat
    BY <1>3
  <2> QED BY <2>1, <2>2, <2>3 DEF NumAllAccountKeys
<1>6. Listing(D, m, table, Infos(remaining))
  <2>1. Infos(remaining) \in Seq(Metas(D)) /\ KeepsRights(remaining, Infos(remaining))
    BY <1>4, InfosKeep
  <2> QED BY <1>5, <1>4, <2>1, ListingKept
<1> DEFINE infos == SubSeq(Infos(remaining), n + 1, n + c)
           tableInfos == SubSeq(remaining, 1, n)
           accounts == AccountsByIndex(m, infos)
<1>7. InfosRight(D, m, table, infos)
  BY <1>5, <1>6, InfosFromList
<1>8. /\ Len(remaining) >= n + k + Len(f) /\ Len(remaining) \in Nat
       /\ \A i \in 1..n : remaining[i].address = ls[i].table
  <2>1. Len(remaining) >= n + k + Len(f) /\ \A i \in 1..n : remaining[i].address = ls[i].table
    BY <1>4, Zenon DEF Listing
  <2>2. Len(remaining) \in Nat
    BY <1>4
  <2> QED BY <2>1, <2>2
<1>9. ~(n + c > Len(remaining)) /\ \A i \in 1..n : i \in 1..Len(remaining)
  <2> DEFINE v == Len(f)
             q == Len(remaining)
  <2>1. n \in Nat /\ k \in Nat /\ v \in Nat /\ q \in Nat /\ c = k + v /\ q >= n + k + v
    BY <1>5, <1>8
  <2> HIDE DEF n, k, v, q, c
  <2>2. ~(n + c > q) /\ \A i \in 1..n : i \in 1..q
    BY ONLY <2>1
  <2> QED BY <2>2 DEF q
<1>10. /\ tableInfos \in Seq(Metas(D)) /\ Len(tableInfos) = n
       /\ \A i \in 1..n : tableInfos[i].address = ls[i].table
  <2> HIDE DEF n
  <2>1. \A i \in 1..n : 0 + i \in 1..Len(remaining)
    BY <1>5, <1>9
  <2>2. /\ SubSeq(remaining, 0 + 1, 0 + n) \in Seq(Metas(D))
        /\ Len(SubSeq(remaining, 0 + 1, 0 + n)) = n
        /\ \A i \in 1..n : SubSeq(remaining, 0 + 1, 0 + n)[i] = remaining[0 + i]
    BY <1>5, <1>4, <2>1, PartOf, 0 \in Nat
  <2>3. 0 + 1 = 1 /\ 0 + n = n /\ \A i \in 1..n : 0 + i = i
    BY <1>5
  <2> QED BY <1>8, <2>2, <2>3
<1> HIDE DEF infos, tableInfos
<1>11. Validated(m, infos, tableInfos, table)
  BY <1>2, <1>3, <1>7, <1>10, ValidatedHolds
<1>12. Addressed(D, AllKeys(m, e), accounts)
  <2>1. Addressed(D, m.account_keys \o FlattenSeq(WritableLoaded(ls, table))
                       \o FlattenSeq(ReadonlyLoaded(ls, table)), accounts)
    BY <1>2, <1>3, <1>7, CountedAlike
  <2> QED BY <1>1, <2>1 DEF AllKeys
<1> HIDE DEF accounts
<1>13. ToInstructions(m, accounts) = WithRights(ixs)
  BY <1>12, RunIsWritten DEF m
<1>14. Valid(m)
  BY PositionsValid DEF m
<1>15. Executed(m, remaining, table, protected)
         = IF Unprotected(ToInstructions(m, accounts), protected) THEN ToInstructions(m, accounts)
           ELSE Refused
  BY <1>9, <1>11, <1>14, Zenon DEF Executed, infos, tableInfos, accounts
<1> QED BY <1>13, <1>15, OnlyProtectedRefused DEF m

\* The instructions of the vault run as they were written, whatever they are,
\* whatever tables are given and whatever these hold: the message that the client
\* compiles and the accounts that it lists lead the program to the accounts that the
\* instructions name, with the rights they ask for.  Only a message that writes to
\* what is protected is refused.
THEOREM MessagesRunAsWritten ==
  ASSUME NEW D, Vault \in D, NEW U, U \subseteq D, NEW table \in [U -> Seq(D)],
         NEW ixs \in Seq(Writing(D)), NEW ts \in Seq(U), NEW additional \in Seq(D),
         NEW protected, Vault \notin protected
  PROVE  Executed(Serialized(Compiled(ixs, ts, table)),
                  AccountsForExecute(Compiled(ixs, ts, table), table, additional),
                  table, protected)
           = IF protected \cap WritablesOf(ixs) = {} THEN WithRights(ixs) ELSE Refused
<1> DEFINE e == ExtractedTables(ixs, ts, table)
           message == Compiled(ixs, ts, table)
           m == Sent(ixs, e)
           signing == Only(additional, ToSet(additional) \ {Vault})
           listed == Listed(m, table)
           remaining == SignedBy(listed, signing)
<1>1. message = CompiledFrom(ixs, e, SignersOf(ixs), WritablesOf(ixs)) /\ m = Serialized(message)
  BY Zenon DEF Compiled, Sent
<1>2. Compiles(D, table, ixs, e)
  <2>1. Extraction(D, table, ToSet(KeysOf(ixs)), SignersOf(ixs), WritablesOf(ixs), e)
    BY ExtractionHolds
  <2> HIDE DEF e
  <2> QED BY <2>1, ExtractionCompiles
<1> HIDE DEF e, message
<1>3. /\ SentRight(D, ixs, e)
      /\ m.address_table_lookups = e.lookups
      /\ e.lookups \in Seq(LookupsIn(table))
      /\ e.writable = FlattenSeq(WritableLoaded(e.lookups, table))
      /\ e.readonly = FlattenSeq(ReadonlyLoaded(e.lookups, table))
  BY <1>2 DEF Compiles
<1>4. /\ m.account_keys \in Seq(D)
      /\ m.num_signers \in Nat /\ m.num_writable_signers \in Nat
      /\ m.num_writable_non_signers \in Nat
  BY <1>3 DEF SentRight
<1>5. message.staticAccounts = m.account_keys /\ message.lookups = m.address_table_lookups
  BY <1>1 DEF Serialized
<1> HIDE DEF m
<1>6. AccountsForExecute(message, table, additional) = remaining
  <2>1. message.staticAccounts \in Seq(D) /\ message.lookups \in Seq(LookupsIn(table))
    BY <1>3, <1>4, <1>5
  <2>2. AccountsForExecute(message, table, additional)
          = SignedBy(Listed(Serialized(message), table), signing)
    BY <2>1, ListedByClient
  <2> QED BY <1>1, <2>2
<1>7. Listing(D, m, table, listed)
  BY <1>3, <1>4, ListedInOrder
<1>8. Listing(D, m, table, remaining)
  <2> DEFINE ls == m.address_table_lookups
             f == FlattenSeq(LoadedLists(ls, table))
  <2>1. ls \in Seq(LookupsIn(table)) /\ Len(ls) \in Nat /\ Len(m.account_keys) \in Nat
    BY <1>3, <1>4
  <2>2. Len(f) \in Nat
    <3>1. NumLoaded(ls) = Len(f) /\ NumLoaded(ls) \in Nat
      BY <2>1, LoadedCounts
    <3> QED BY <3>1
  <2>3. listed \in Seq(Metas(D))
    BY <1>7 DEF Listing
  <2>4. signing \in Seq(D)
    BY OnlyKeeps
  <2> HIDE DEF listed, signing
  <2>5. remaining \in Seq(Metas(D)) /\ KeepsRights(listed, remaining)
    BY <2>3, <2>4, SignersKeep
  <2> HIDE DEF remaining
  <2> QED BY <1>7, <2>1, <2>2, <2>5, ListingKept
<1> HIDE DEF listed, signing, remaining
<1>9. Executed(m, remaining, table, protected)
        = IF protected \cap WritablesOf(ixs) = {} THEN WithRights(ixs) ELSE Refused
  BY <1>2, <1>8, ListedRuns DEF m
<1> QED BY <1>1, <1>6, <1>9 DEF message

-----------------------------------------------------------------------------
(* What the tables take.                                                   *)

\* The addresses that lookups load, table by table.
LoadedAddresses(ls, table) == AddressesIn(FlattenSeq(LoadedLists(ls, table)))

LEMMA LoadedTail ==
  ASSUME NEW D, NEW U, NEW table \in [U -> Seq(D)], NEW ls \in Seq(LookupsIn(table)),
         NEW l \in LookupsIn(table)
  PROVE  /\ LoadedAddresses(ls, table) \in Seq(D)
         /\ LoadedAddresses(Append(ls, l), table)
              = LoadedAddresses(ls, table)
                \o (Entries(table[l.table], l.writable) \o Entries(table[l.table], l.readonly))
<1> DEFINE n == Len(ls)
           ks == Append(ls, l)
           m == LoadedMetas(l, table)
           w == Entries(table[l.table], l.writable)
           r == Entries(table[l.table], l.readonly)
           f == FlattenSeq(LoadedLists(ls, table))
<1>1. /\ ks \in Seq(LookupsIn(table)) /\ Len(ks) = n + 1 /\ n \in Nat
      /\ ks[n + 1] = l /\ \A i \in 1..n : ks[i] = ls[i]
  BY Appended
<1> HIDE DEF ks
<1>2. IsList(LoadedLists(ls, table), n, Seq(Metas(D)))
  BY LoadedListsType
<1>3. IsList(LoadedLists(ks, table), n + 1, Seq(Metas(D)))
  <2>1. IsList(LoadedLists(ks, table), Len(ks), Seq(Metas(D)))
    BY <1>1, LoadedListsType
  <2> QED BY <1>1, <2>1
<1>4. n + 1 \in 1..Len(ks) /\ \A i \in 1..n : i \in 1..Len(ks) /\ i \in 1..Len(ls)
  BY <1>1
<1>5. /\ \A i \in 1..n : LoadedLists(ks, table)[i] = LoadedLists(ls, table)[i]
      /\ LoadedLists(ks, table)[n + 1] = m
  <2> HIDE DEF n
  <2> QED BY <1>1, <1>4 DEF LoadedLists
<1> HIDE DEF n
<1>6. LoadedLists(ks, table) = Append(LoadedLists(ls, table), m)
  <2>1. LoadedLists(ks, table) = Append(LoadedLists(ls, table), LoadedLists(ks, table)[n + 1])
    BY <1>1, <1>2, <1>3, <1>5, ListAppend
  <2> QED BY <1>5, <2>1
<1>7. /\ w \in Seq(D) /\ r \in Seq(D) /\ m \in Seq(Metas(D)) /\ Len(m) = Len(w) + Len(r)
      /\ Len(w) \in Nat /\ Len(r) \in Nat
      /\ \A i \in 1..Len(w) : m[i] = Meta(w[i], FALSE, TRUE)
      /\ \A i \in 1..Len(r) : m[Len(w) + i] = Meta(r[i], FALSE, FALSE)
  <2>1. LoadedInOrder(D, l, table)
    BY LoadedType
  <2> QED BY <2>1 DEF LoadedInOrder
<1>8. LoadedLists(ls, table) \in Seq(Seq(Metas(D)))
  BY <1>1, <1>2, ListType
<1>9. f \in Seq(Metas(D))
  BY <1>8, FlattenKeeps
<1>10. FlattenSeq(LoadedLists(ks, table)) = f \o m
  <2>1. \A ss \in Seq(Seq(Metas(D))), s \in Seq(Metas(D)) :
          FlattenSeq(Append(ss, s)) = FlattenSeq(ss) \o s
    BY FlattenAppend
  <2> QED BY <1>6, <1>7, <1>8, <2>1
<1> HIDE DEF w, r, m, f
<1>11. AddressesIn(f \o m) = AddressesIn(f) \o AddressesIn(m) /\ AddressesIn(f) \in Seq(D)
  BY <1>7, <1>9, AddressesOfBoth, AddressesType
<1>12. AddressesIn(m) = w \o r
  <2> DEFINE u == w \o r
  <2>1. /\ u \in Seq(D) /\ Len(u) = Len(w) + Len(r)
        /\ \A i \in 1..Len(w) : u[i] = w[i]
        /\ \A i \in 1..Len(r) : u[Len(w) + i] = r[i]
    BY <1>7, Concatenated
  <2>2. /\ AddressesIn(m) \in Seq(D) /\ Len(AddressesIn(m)) = Len(w) + Len(r)
        /\ \A i \in 1..(Len(w) + Len(r)) : AddressesIn(m)[i] = m[i].address
    BY <1>7, AddressesType
  <2>7. \A x \in D : Meta(x, FALSE, TRUE).address = x /\ Meta(x, FALSE, FALSE).address = x
    BY MetaType
  <2>3. \A i \in 1..Len(w) : m[i].address = w[i]
    <3>1. \A i \in 1..Len(w) : w[i] \in D
      BY <1>7
    <3> QED BY <1>7, <2>7, <3>1
  <2>4. \A i \in 1..Len(r) : m[Len(w) + i].address = r[i]
    <3>1. \A i \in 1..Len(r) : r[i] \in D
      BY <1>7
    <3> QED BY <1>7, <2>7, <3>1
  <2> HIDE DEF u
  <2>5. \A i \in 1..(Len(w) + Len(r)) : AddressesIn(m)[i] = u[i]
    <3> TAKE i \in 1..(Len(w) + Len(r))
    <3>1. CASE i \in 1..Len(w)
      BY <2>1, <2>2, <2>3, <3>1
    <3>2. CASE i \notin 1..Len(w)
      <4>1. i - Len(w) \in 1..Len(r) /\ Len(w) + (i - Len(w)) = i
        BY ONLY <1>7, <3>2, i \in 1..(Len(w) + Len(r))
      <4> QED BY <2>1, <2>2, <2>4, <4>1
    <3> QED BY <3>1, <3>2
  <2>6. AddressesIn(m) = u
    BY <2>1, <2>2, <2>5, SameSequence
  <2> QED BY <2>6 DEF u
<1> QED BY <1>10, <1>11, <1>12 DEF LoadedAddresses, ks, f, w, r

\* Keys are listed once; a table that is looked up has taken some, and all that it
\* holds and that do not sign.
Tidy(table, G, e) ==
  /\ Distinct(e.left)
  /\ Distinct(LoadedAddresses(e.lookups, table))
  /\ ToSet(LoadedAddresses(e.lookups, table)) \cap ToSet(e.left) = {}
  /\ \A i \in 1..Len(e.lookups) :
       /\ e.lookups[i].writable # << >> \/ e.lookups[i].readonly # << >>
       /\ ToSet(table[e.lookups[i].table]) \cap ToSet(e.left) \subseteq G
  /\ \A i, j \in 1..Len(e.lookups) : e.lookups[i].table = e.lookups[j].table => i = j

LEMMA NothingLoaded ==
  ASSUME NEW table
  PROVE  LoadedAddresses(<< >>, table) = << >>
<1>1. LoadedLists(<< >>, table) = << >>
  BY DEF LoadedLists
<1>2. FlattenSeq(<< >>) = << >>
  BY FlattenAppend
<1>3. AddressesIn(<< >>) = << >>
  BY DEF AddressesIn, Mapped
<1> QED BY <1>1, <1>2, <1>3 DEF LoadedAddresses

LEMMA NothingMovedTidy ==
  ASSUME NEW D, Vault \in D, NEW table, NEW ixs \in Seq(Writing(D)), NEW G
  PROVE  Tidy(table, G, NothingMoved(ixs))
<1>1. /\ NothingMoved(ixs).left = KeysOf(ixs) /\ NothingMoved(ixs).lookups = << >>
  BY DEF NothingMoved
<1>2. Distinct(KeysOf(ixs))
  BY KeysOfAll
<1> QED BY <1>1, <1>2, NothingLoaded, NoneDistinct, EmptySequence DEF Tidy

LEMMA MovedTidy ==
  ASSUME NEW D, NEW U, NEW table \in [U -> Seq(D)], NEW t \in U, NEW G, NEW M,
         NEW e \in Extracts(D, table), Tidy(table, G, e), NEW movable \in Seq(D),
         movable # << >>, Distinct(movable),
         ToSet(movable) = ToSet(e.left) \cap (ToSet(table[t]) \ G)
  PROVE  Tidy(table, G, Moved(e, t, table, movable, M))
<1> DEFINE w == Only(movable, M)
           r == Only(movable, ToSet(movable) \ M)
           l == LookupOf(t, table, w, r)
           left == Only(e.left, ToSet(e.left) \ ToSet(movable))
           f == Moved(e, t, table, movable, M)
           n == Len(e.lookups)
           a == LoadedAddresses(e.lookups, table)
<1>1. w \in Seq(D) /\ ToSet(w) = ToSet(movable) \cap M /\ Distinct(w)
  BY OnlyKeeps, OnlyDistinct
<1>2. r \in Seq(D) /\ ToSet(r) = ToSet(movable) \ M /\ Distinct(r)
  <2>1. /\ r \in Seq(D) /\ ToSet(r) = ToSet(movable) \cap (ToSet(movable) \ M)
        /\ Distinct(r)
    BY OnlyKeeps, OnlyDistinct
  <2> HIDE DEF r
  <2> QED BY <2>1
<1>3. e.left \in Seq(D) /\ e.lookups \in Seq(LookupsIn(table))
  BY DEF Extracts
<1>4. left \in Seq(D) /\ ToSet(left) = ToSet(e.left) \ ToSet(movable) /\ Distinct(left)
  <2>1. Distinct(e.left)
    BY DEF Tidy
  <2>2. /\ left \in Seq(D) /\ ToSet(left) = ToSet(e.left) \cap (ToSet(e.left) \ ToSet(movable))
        /\ Distinct(left)
    BY <1>3, <2>1, OnlyKeeps, OnlyDistinct
  <2> HIDE DEF left
  <2> QED BY <2>2
<1>5. f.left = left /\ f.lookups = Append(e.lookups, l)
  <2>1. DOMAIN w = 1..Len(w) /\ DOMAIN r = 1..Len(r)
    BY <1>1, <1>2
  <2>2. Mapped(w, LAMBDA k : IndexOf(table[t], k)) = Indexes(table[t], w)
    BY <2>1 DEF Mapped, Indexes
  <2>3. Mapped(r, LAMBDA k : IndexOf(table[t], k)) = Indexes(table[t], r)
    BY <2>1 DEF Mapped, Indexes
  <2>4. movable # << >>
    OBVIOUS
  <2>5. f = [left |-> left, lookups |-> Append(e.lookups, l),
             writable |-> e.writable \o w, readonly |-> e.readonly \o r]
    BY <2>2, <2>3, <2>4, Zenon DEF Moved, LookupOf
  <2> HIDE DEF f
  <2> QED BY <2>5
<1> HIDE DEF w, r, left, f
<1>6. /\ l \in LookupsIn(table) /\ l.table = t
      /\ Entries(table[l.table], l.writable) = w
      /\ Entries(table[l.table], l.readonly) = r
      /\ l.writable # << >> \/ l.readonly # << >>
  <2>1. ToSet(w) \subseteq ToSet(table[t]) /\ ToSet(r) \subseteq ToSet(table[t])
    BY <1>1, <1>2
  <2>2. /\ l \in LookupsIn(table)
        /\ Entries(table[l.table], l.writable) = w
        /\ Entries(table[l.table], l.readonly) = r
    <3>1. w \in Seq(D) /\ r \in Seq(D)
      BY <1>1, <1>2
    <3> QED BY <2>1, <3>1, MovedTable, SMTT(60)
  <2>3. l.table = t /\ l.writable = Indexes(table[t], w) /\ l.readonly = Indexes(table[t], r)
    BY DEF LookupOf
  <2>4. Len(l.writable) = Len(w) /\ Len(l.readonly) = Len(r)
    <3>1. table[t] \in Seq(D)
      OBVIOUS
    <3> QED BY <1>1, <1>2, <2>1, <2>3, <3>1, IndexesFound
  <2>5. Len(w) # 0 \/ Len(r) # 0
    <3>1. ToSet(movable) # {}
      <4>1. 1 \in DOMAIN movable
        OBVIOUS
      <4> QED BY <4>1 DEF ToSet
    <3>2. ToSet(w) # {} \/ ToSet(r) # {}
      BY <1>1, <1>2, <3>1
    <3>3. (Len(w) = 0 => ToSet(w) = {}) /\ (Len(r) = 0 => ToSet(r) = {})
      BY <1>1, <1>2 DEF ToSet
    <3> QED BY <3>2, <3>3
  <2>6. Len(<< >>) = 0
    OBVIOUS
  <2> QED BY <2>2, <2>3, <2>4, <2>5, <2>6
<1> HIDE DEF l
<1>7. a \in Seq(D) /\ LoadedAddresses(f.lookups, table) = a \o (w \o r)
  BY <1>3, <1>5, <1>6, LoadedTail
<1>8. /\ w \o r \in Seq(D) /\ Distinct(w \o r) /\ ToSet(w \o r) = ToSet(movable)
  BY <1>1, <1>2, Concatenated, DistinctBoth
<1>9. Distinct(a) /\ ToSet(a) \cap ToSet(e.left) = {}
  BY DEF Tidy
<1> HIDE DEF a
<1>10. /\ Distinct(LoadedAddresses(f.lookups, table))
       /\ ToSet(LoadedAddresses(f.lookups, table)) \cap ToSet(f.left) = {}
  <2>1. ToSet(movable) \subseteq ToSet(e.left)
    OBVIOUS
  <2>2. ToSet(a) \cap ToSet(w \o r) = {}
    BY <1>8, <1>9, <2>1
  <2> DEFINE u == w \o r
  <2>3. u \in Seq(D) /\ Distinct(u) /\ ToSet(a) \cap ToSet(u) = {}
    BY <1>8, <2>2
  <2> HIDE DEF u
  <2>4. Distinct(a \o u) /\ ToSet(a \o u) = ToSet(a) \cup ToSet(u)
    BY <1>7, <1>9, <2>3, DistinctBoth, Concatenated
  <2>5. ToSet(u) = ToSet(movable)
    BY <1>8 DEF u
  <2>6. LoadedAddresses(f.lookups, table) = a \o u
    BY <1>7 DEF u
  <2> QED BY <1>4, <1>5, <1>9, <2>4, <2>5, <2>6
<1>11. /\ Len(f.lookups) = n + 1 /\ n \in Nat
       /\ f.lookups[n + 1] = l /\ \A i \in 1..n : f.lookups[i] = e.lookups[i]
  BY <1>3, <1>5, <1>6, Appended
<1>12. /\ \A i \in 1..n :
            /\ e.lookups[i].writable # << >> \/ e.lookups[i].readonly # << >>
            /\ ToSet(table[e.lookups[i].table]) \cap ToSet(e.left) \subseteq G
       /\ \A i, j \in 1..n : e.lookups[i].table = e.lookups[j].table => i = j
  BY DEF Tidy
<1> HIDE DEF n
<1>13. \A i \in 1..(n + 1) : i \in 1..n \/ i = n + 1
  BY <1>11
<1>14. ASSUME NEW i \in 1..n PROVE e.lookups[i].table # t
  <2>1. ToSet(movable) # {}
    <3>1. 1 \in DOMAIN movable
      OBVIOUS
    <3> QED BY <3>1 DEF ToSet
  <2>2. PICK k : k \in ToSet(movable)
    BY <2>1
  <2>3. k \in ToSet(e.left) /\ k \in ToSet(table[t]) /\ k \notin G
    BY <2>2
  <2> QED BY <1>12, <2>3
<1>15. \A i \in 1..(n + 1) :
         /\ f.lookups[i].writable # << >> \/ f.lookups[i].readonly # << >>
         /\ ToSet(table[f.lookups[i].table]) \cap ToSet(f.left) \subseteq G
  <2> TAKE i \in 1..(n + 1)
  <2>1. CASE i \in 1..n
    <3>1. ToSet(f.left) \subseteq ToSet(e.left)
      BY <1>4, <1>5
    <3> QED BY <1>11, <1>12, <2>1, <3>1
  <2>2. CASE i = n + 1
    <3>1. ToSet(table[t]) \cap ToSet(f.left) \subseteq G
      BY <1>4, <1>5
    <3> QED BY <1>6, <1>11, <2>2, <3>1
  <2> QED BY <1>13, <2>1, <2>2
<1>16. ASSUME NEW i \in 1..(n + 1), NEW j \in 1..(n + 1),
              f.lookups[i].table = f.lookups[j].table
       PROVE  i = j
  <2>1. CASE i \in 1..n /\ j \in 1..n
    BY <1>11, <1>12, <1>16, <2>1
  <2>2. CASE i \in 1..n /\ j = n + 1
    BY <1>6, <1>11, <1>14, <1>16, <2>2
  <2>3. CASE i = n + 1 /\ j \in 1..n
    BY <1>6, <1>11, <1>14, <1>16, <2>3
  <2> QED BY <1>13, <2>1, <2>2, <2>3
<1>17. Distinct(f.left)
  BY <1>4, <1>5
<1>18. Tidy(table, G, f)
  BY <1>10, <1>11, <1>15, <1>16, <1>17 DEF Tidy
<1> QED BY <1>18 DEF f

LEMMA ExtractTidy ==
  ASSUME NEW D, NEW U, NEW table \in [U -> Seq(D)], NEW ixs,
         NEW e \in Extracts(D, table), Tidy(table, SignersOf(ixs), e), NEW t \in U
  PROVE  Tidy(table, SignersOf(ixs), ExtractTableLookup(e, t, table, ixs))
<1> DEFINE G == SignersOf(ixs)
           M == WritablesOf(ixs)
           movable == Only(e.left, ToSet(table[t]) \ G)
           f == Moved(e, t, table, movable, M)
<1>1. e.left \in Seq(D) /\ Distinct(e.left)
  BY DEF Extracts, Tidy
<1>2. /\ movable \in Seq(D) /\ ToSet(movable) = ToSet(e.left) \cap (ToSet(table[t]) \ G)
      /\ Distinct(movable)
  BY <1>1, OnlyKeeps, OnlyDistinct
<1>3. ExtractTableLookup(e, t, table, ixs) = f
  BY DEF ExtractTableLookup
<1>4. Tidy(table, G, e)
  OBVIOUS
<1> HIDE DEF G, M, movable
<1>5. CASE movable = << >>
  <2>1. f = e
    BY <1>5 DEF Moved
  <2> HIDE DEF f
  <2> QED BY <1>3, <1>4, <2>1 DEF G
<1>6. CASE movable # << >>
  <2>1. Tidy(table, G, f)
    BY <1>2, <1>4, <1>6, MovedTidy
  <2> HIDE DEF f
  <2> QED BY <1>3, <2>1 DEF G
<1> QED BY <1>5, <1>6

\* Whatever tables are given, also one that is given twice.
LEMMA ExtractionTidy ==
  ASSUME NEW D, Vault \in D, NEW U, NEW table \in [U -> Seq(D)], NEW ixs \in Seq(Writing(D)),
         NEW ts \in Seq(U)
  PROVE  Tidy(table, SignersOf(ixs), ExtractedTables(ixs, ts, table))
<1> DEFINE G == SignersOf(ixs)
           Holds(e) == Tidy(table, G, e) /\ e \in Extracts(D, table)
           T == {s \in Seq(U) : Holds(ExtractedTables(ixs, s, table))}
<1>0. ExtractSteps(ixs, table, U)
  BY ExtractAppend
<1>1. << >> \in T
  <2>1. Holds(NothingMoved(ixs))
    BY NothingMovedTidy, NothingMovedKeeps
  <2>2. ExtractedTables(ixs, << >>, table) = NothingMoved(ixs)
    BY <1>0 DEF ExtractSteps
  <2> HIDE DEF Holds
  <2> QED BY <2>1, <2>2
<1>2. ASSUME NEW s \in Seq(U), NEW t \in U, s \in T PROVE Append(s, t) \in T
  <2> DEFINE e == ExtractedTables(ixs, s, table)
  <2>1. Holds(e)
    BY <1>2
  <2>2. ExtractedTables(ixs, Append(s, t), table) = ExtractTableLookup(e, t, table, ixs)
    BY <1>0 DEF ExtractSteps
  <2> HIDE DEF e
  <2>3. Holds(ExtractTableLookup(e, t, table, ixs))
    BY <2>1, ExtractTidy, ExtractType
  <2>4. Append(s, t) \in Seq(U)
    BY Appended
  <2> HIDE DEF Holds
  <2> QED BY <2>2, <2>3, <2>4
<1> HIDE DEF Holds
<1>3. ts \in T
  <2> HIDE DEF T
  <2> QED BY <1>1, <1>2, SeqInduction
<1> QED BY <1>3 DEF Holds

-----------------------------------------------------------------------------
(* The accounts of a packed instruction.                                   *)

LEMMA Inserted ==
  ASSUME NEW D, NEW r \in Seq(Metas(D)), NEW m \in Metas(D)
  PROVE  /\ InsertOrGet(r, m) \in Seq(Metas(D))
         /\ \/ InsertOrGet(r, m) = r /\ \E j \in 1..Len(r) : r[j].address = m.address
            \/ /\ InsertOrGet(r, m) = Append(r, m)
               /\ \A j \in 1..Len(r) : r[j].address # m.address
<1>1. /\ Len(AddressesIn(r)) = Len(r) /\ AddressesIn(r) \in Seq(D)
      /\ \A i \in 1..Len(r) : AddressesIn(r)[i] = r[i].address
  BY AddressesType
<1>2. Contains(AddressesIn(r), m.address) <=> \E j \in 1..Len(r) : r[j].address = m.address
  BY <1>1 DEF Contains
<1>3. Append(r, m) \in Seq(Metas(D))
  BY Appended
<1> QED BY <1>2, <1>3 DEF InsertOrGet

\* The accounts one after another.
PackRun(g, s) ==
  /\ g[0] = << >>
  /\ \A i \in 1..Len(s) : g[i] = InsertOrGet(g[i - 1], s[i])
  /\ Packed(s) = g[Len(s)]

LEMMA PackRuns ==
  ASSUME NEW D, NEW s \in Seq(Metas(D))
  PROVE  \E g : PackRun(g, s)
<1> DEFINE n == Len(s)
           V == Seq(Metas(D))
           F == [p \in V \X (1..n) |-> InsertOrGet(p[1], s[p[2]])]
           Step(h, T) == IF T = {} THEN << >> ELSE InsertOrGet(h[T \ {Max(T)}], s[Max(T)])
           iter == CHOOSE h : h = [T \in SUBSET DOMAIN s |-> Step(h, T)]
           g == [i \in 0..n |-> iter[1..i]]
<1>1. n \in Nat /\ DOMAIN s = 1..n /\ \A i \in 1..n : s[i] \in Metas(D)
  OBVIOUS
<1>2. \E h : h = [T \in SUBSET DOMAIN s |-> Step(h, T)]
  <2>1. F \in [V \X (1..n) -> V]
    BY <1>1, Inserted
  <2> HIDE DEF F
  <2>2. PICK h \in [SUBSET (1..n) -> V] : IsFold(h, n, << >>, F)
    <3>1. << >> \in V
      OBVIOUS
    <3> HIDE DEF V
    <3> QED BY <1>1, <2>1, <3>1, FoldExists
  <2>3. ASSUME NEW T \in SUBSET (1..n) PROVE h[T] = Step(h, T)
    <3>1. CASE T = {}
      BY <2>2, <3>1 DEF IsFold
    <3>2. CASE T # {}
      <4>1. Max(T) \in 1..n
        BY <1>1, <3>2, MaxIn, Zenon
      <4>2. h[T \ {Max(T)}] \in V
        OBVIOUS
      <4>3. F[<<h[T \ {Max(T)}], Max(T)>>] = InsertOrGet(h[T \ {Max(T)}], s[Max(T)])
        BY <4>1, <4>2 DEF F
      <4> QED BY <2>2, <3>2, <4>3 DEF IsFold
    <3> QED BY <3>1, <3>2
  <2> HIDE DEF Step
  <2>4. h = [T \in SUBSET DOMAIN s |-> Step(h, T)]
    BY <1>1, <2>3
  <2> QED BY <2>4
<1>3. iter = [T \in SUBSET DOMAIN s |-> Step(iter, T)]
  BY <1>2, Zenon
<1>4. Packed(s) = iter[DOMAIN s]
  BY Zenon DEF Packed, FoldLeft, MapThenFoldSet
<1> HIDE DEF iter
<1>5. g[0] = << >> /\ g[n] = iter[DOMAIN s]
  BY <1>1, <1>3
<1>6. ASSUME NEW i \in 1..n PROVE g[i] = InsertOrGet(g[i - 1], s[i])
  <2>1. Max(1..i) = i /\ (1..i) \ {Max(1..i)} = 1..(i - 1) /\ 1..i # {}
    BY MaxOfFirst
  <2>2. 1..i \in SUBSET DOMAIN s /\ g[i] = iter[1..i] /\ g[i - 1] = iter[1..(i - 1)]
    BY <1>1
  <2>3. iter[1..i] = Step(iter, 1..i)
    BY <1>3, <2>2, Zenon
  <2> QED BY <2>1, <2>2, <2>3
<1> HIDE DEF g
<1>7. PackRun(g, s)
  BY <1>4, <1>5, <1>6 DEF PackRun
<1> QED BY <1>7

LEMMA PackAppend ==
  ASSUME NEW D
  PROVE  /\ Packed(<< >>) = << >>
         /\ \A s \in Seq(Metas(D)), x \in Metas(D) : Packed(Append(s, x)) = InsertOrGet(Packed(s), x)
<1>1. Packed(<< >>) = << >>
  <2>1. << >> \in Seq(Metas(D)) /\ Len(<< >>) = 0
    OBVIOUS
  <2>2. PICK g : PackRun(g, << >>)
    BY <2>1, PackRuns
  <2> QED BY <2>1, <2>2 DEF PackRun
<1>2. ASSUME NEW s \in Seq(Metas(D)), NEW x \in Metas(D)
      PROVE  Packed(Append(s, x)) = InsertOrGet(Packed(s), x)
  <2> DEFINE n == Len(s)
             t == Append(s, x)
  <2>1. /\ t \in Seq(Metas(D)) /\ Len(t) = n + 1 /\ n \in Nat
        /\ t[n + 1] = x /\ \A i \in 1..n : t[i] = s[i]
    BY Appended
  <2> HIDE DEF n, t
  <2>2. PICK g : PackRun(g, s)
    BY PackRuns
  <2>3. PICK h : PackRun(h, t)
    BY <2>1, PackRuns
  <2>4. g[n] = h[n]
    <3>1. \A i \in 1..n : i \in 1..Len(t) /\ i \in 1..Len(s)
      BY <2>1 DEF n
    <3>2. \A i \in 1..n : g[i - 1] = h[i - 1] => g[i] = h[i]
      BY <2>1, <2>2, <2>3, <3>1 DEF PackRun
    <3>3. g[0] = h[0]
      BY <2>2, <2>3 DEF PackRun
    <3> QED BY <2>1, <3>2, <3>3, SameSteps
  <2>5. h[n + 1] = InsertOrGet(h[n], x)
    <3>1. n + 1 \in 1..Len(t) /\ (n + 1) - 1 = n
      BY <2>1
    <3> QED BY <2>1, <2>3, <3>1 DEF PackRun
  <2>6. Packed(s) = g[n] /\ Packed(t) = h[n + 1]
    BY <2>1, <2>2, <2>3 DEF PackRun, n
  <2> QED BY <2>4, <2>5, <2>6 DEF t
<1> QED BY <1>1, <1>2

\* The first k accounts of s are different ones.
DistinctTo(s, k) == \A i, j \in 1..k : s[i].address = s[j].address => i = j

\* r keeps the first mention of every account of s, in their order, and may hold
\* more: an account that s mentions again moves what follows it forward.
Packs(s, r) ==
  /\ DistinctTo(r, Len(r))
  /\ \A k \in 0..Len(s) : DistinctTo(s, k) => k <= Len(r) /\ \A i \in 1..k : r[i] = s[i]
  /\ \A i \in 1..Len(s) : \E j \in 1..Len(r) :
       j <= i /\ r[j].address = s[i].address /\ (j = i => DistinctTo(s, i))

\* r holds nothing else.
Fits(s, r) ==
  /\ Len(r) <= Len(s)
  /\ Len(r) = Len(s) => DistinctTo(s, Len(s))
  /\ \A j \in 1..Len(r) : \E i \in 1..Len(s) : r[j] = s[i]

LEMMA PacksGrow ==
  ASSUME NEW D, NEW s \in Seq(Metas(D)), NEW r \in Seq(Metas(D)), NEW m \in Metas(D),
         Packs(s, r)
  PROVE  Packs(s, InsertOrGet(r, m))
<1> DEFINE q == InsertOrGet(r, m)
           n == Len(r)
<1>1. CASE q = r
  BY <1>1
<1>2. CASE q = Append(r, m) /\ \A j \in 1..n : r[j].address # m.address
  <2>1. /\ Len(q) = n + 1 /\ n \in Nat /\ Len(s) \in Nat
        /\ \A i \in 1..n : q[i] = r[i]
        /\ q[n + 1] = m
    BY <1>2, Appended
  <2> HIDE DEF q
  <2>2. \A i \in 1..(n + 1) : i \in 1..n \/ i = n + 1
    BY <2>1
  <2>3. DistinctTo(q, n + 1)
    <3>1. \A i, j \in 1..n : r[i].address = r[j].address => i = j
      BY DEF Packs, DistinctTo
    <3> HIDE DEF n
    <3>2. ASSUME NEW i \in 1..(n + 1), NEW j \in 1..(n + 1), q[i].address = q[j].address
          PROVE  i = j
      BY <1>2, <2>1, <2>2, <3>1, <3>2
    <3> QED BY <3>2 DEF DistinctTo
  <2>4. ASSUME NEW k \in 0..Len(s), DistinctTo(s, k)
        PROVE  k <= n + 1 /\ \A i \in 1..k : q[i] = s[i]
    <3>1. k <= n /\ \A i \in 1..k : r[i] = s[i]
      BY <2>4 DEF Packs
    <3>2. \A i \in 1..k : i \in 1..n
      BY <2>1, <3>1
    <3> QED BY <2>1, <3>1, <3>2
  <2>5. ASSUME NEW i \in 1..Len(s)
        PROVE  \E j \in 1..(n + 1) :
                 j <= i /\ q[j].address = s[i].address /\ (j = i => DistinctTo(s, i))
    <3>1. PICK j \in 1..n :
            j <= i /\ r[j].address = s[i].address /\ (j = i => DistinctTo(s, i))
      BY DEF Packs
    <3>2. j \in 1..(n + 1) /\ q[j] = r[j]
      BY <2>1
    <3> QED BY <3>1, <3>2
  <2>6. Packs(s, q)
    BY <2>1, <2>3, <2>4, <2>5 DEF Packs
  <2> QED BY <2>6 DEF q
<1>3. q = r \/ (q = Append(r, m) /\ \A j \in 1..n : r[j].address # m.address)
  <2>1. \/ q = r /\ \E j \in 1..n : r[j].address = m.address
        \/ q = Append(r, m) /\ \A j \in 1..n : r[j].address # m.address
    BY Inserted
  <2> QED BY <2>1
<1> QED BY <1>1, <1>2, <1>3

LEMMA PackedStep ==
  ASSUME NEW D, NEW s \in Seq(Metas(D)), NEW r \in Seq(Metas(D)), NEW m \in Metas(D),
         Packs(s, r), Fits(s, r)
  PROVE  Packs(Append(s, m), InsertOrGet(r, m)) /\ Fits(Append(s, m), InsertOrGet(r, m))
<1> DEFINE q == InsertOrGet(r, m)
           t == Append(s, m)
           n == Len(s)
           k == Len(r)
           got == q = r /\ \E j \in 1..k : r[j].address = m.address
           added == q = Append(r, m) /\ \A j \in 1..k : r[j].address # m.address
<1>1. /\ Len(t) = n + 1 /\ n \in Nat
      /\ \A i \in 1..n : t[i] = s[i]
      /\ t[n + 1] = m
  BY Appended
<1>2. got \/ added
  BY Inserted
<1>3. added => /\ Len(q) = k + 1
               /\ \A i \in 1..k : q[i] = r[i]
               /\ q[k + 1] = m
  BY Appended
<1>4. Packs(s, q) /\ k \in Nat
  BY PacksGrow
<1>5. /\ k <= n
      /\ k = n => DistinctTo(s, n)
      /\ \A j \in 1..k : \E i \in 1..n : r[j] = s[i]
  BY DEF Fits
<1>6. /\ \A l \in 0..n : DistinctTo(s, l) => l <= k /\ \A i \in 1..l : r[i] = s[i]
      /\ \A i \in 1..n : \E j \in 1..k : r[j].address = s[i].address
  BY DEF Packs
<1>7. /\ DistinctTo(q, Len(q))
      /\ \A l \in 0..n : DistinctTo(s, l) => l <= Len(q) /\ \A i \in 1..l : q[i] = s[i]
      /\ \A i \in 1..n : \E j \in 1..Len(q) :
           j <= i /\ q[j].address = s[i].address /\ (j = i => DistinctTo(s, i))
  BY <1>4 DEF Packs
<1>8. Len(q) \in Nat /\ (got => Len(q) = k)
  BY <1>2, <1>3, <1>4
<1> HIDE DEF q, t, n, k
<1>9. \A i \in 1..(n + 1) : i \in 1..n \/ i = n + 1
  BY <1>1
<1>10. \A l \in 0..n : DistinctTo(t, l) <=> DistinctTo(s, l)
  <2>1. \A l \in 0..n : \A i \in 1..l : t[i] = s[i]
    BY <1>1
  <2> QED BY <2>1 DEF DistinctTo
\* All accounts are different: none was dropped.
<1>11. DistinctTo(t, n + 1) <=> DistinctTo(s, n) /\ \A i \in 1..n : s[i].address # m.address
  <2>1. ASSUME DistinctTo(t, n + 1)
        PROVE  DistinctTo(s, n) /\ \A i \in 1..n : s[i].address # m.address
    <3>1. \A i \in 1..n : i \in 1..(n + 1) /\ i # n + 1
      BY <1>1
    <3>2. n + 1 \in 1..(n + 1)
      BY <1>1
    <3> QED BY <1>1, <2>1, <3>1, <3>2 DEF DistinctTo
  <2>2. ASSUME DistinctTo(s, n), \A i \in 1..n : s[i].address # m.address
        PROVE  DistinctTo(t, n + 1)
    <3>1. \A i, j \in 1..n : s[i].address = s[j].address => i = j
      BY <2>2 DEF DistinctTo
    <3>2. ASSUME NEW i \in 1..(n + 1), NEW j \in 1..(n + 1), t[i].address = t[j].address
          PROVE  i = j
      BY <1>1, <1>9, <2>2, <3>1, <3>2
    <3> QED BY <3>2 DEF DistinctTo
  <2> QED BY <2>1, <2>2
<1>12. added => \A i \in 1..n : s[i].address # m.address
  BY <1>6
<1>13. ASSUME DistinctTo(t, n + 1)
       PROVE  n + 1 <= Len(q) /\ \A i \in 1..(n + 1) : q[i] = t[i]
  <2>1. k = n /\ \A i \in 1..n : r[i] = s[i]
    <3>1. n \in 0..n
      BY <1>1
    <3>2. n <= k /\ \A i \in 1..n : r[i] = s[i]
      BY <1>6, <1>11, <1>13, <3>1
    <3> QED BY <1>1, <1>4, <1>5, <3>2
  <2>2. added
    BY <1>2, <1>5, <1>11, <1>13
  <2>3. /\ Len(q) = n + 1
        /\ \A i \in 1..n : q[i] = s[i]
        /\ q[n + 1] = m
    BY <1>3, <2>1, <2>2
  <2> QED BY <1>1, <1>9, <2>3
<1>14. ASSUME Len(q) = n + 1 PROVE DistinctTo(t, n + 1)
  <2>1. k = n /\ added
    BY <1>1, <1>2, <1>3, <1>4, <1>5, <1>8, <1>14
  <2> QED BY <1>5, <1>11, <1>12, <2>1
<1>15. ASSUME NEW i \in 1..(n + 1)
       PROVE  \E j \in 1..Len(q) :
                j <= i /\ q[j].address = t[i].address /\ (j = i => DistinctTo(t, i))
  <2>1. CASE i \in 1..n
    <3>1. i \in 0..n
      BY <1>1, <2>1
    <3> QED BY <1>1, <1>7, <1>10, <2>1, <3>1
  <2>2. CASE i = n + 1 /\ got
    <3>1. PICK j \in 1..k : r[j].address = m.address
      BY <2>2
    <3>2. j \in 1..Len(q) /\ j <= i /\ j # i /\ q[j].address = t[i].address
      BY <1>1, <1>4, <1>5, <1>8, <2>2, <3>1
    <3> QED BY <3>2
  <2>3. CASE i = n + 1 /\ added
    <3>1. k + 1 \in 1..Len(q) /\ k + 1 <= i /\ q[k + 1].address = t[i].address
      BY <1>1, <1>3, <1>4, <1>5, <2>3
    <3>2. k + 1 = i => DistinctTo(t, i)
      BY <1>3, <1>14, <2>3
    <3> QED BY <3>1, <3>2
  <2> QED BY <1>2, <1>9, <2>1, <2>2, <2>3
<1>16. ASSUME NEW l \in 0..(n + 1), DistinctTo(t, l)
       PROVE  l <= Len(q) /\ \A i \in 1..l : q[i] = t[i]
  <2>1. CASE l \in 0..n
    <3>1. l <= Len(q) /\ \A i \in 1..l : q[i] = s[i]
      BY <1>7, <1>10, <1>16, <2>1
    <3>2. \A i \in 1..l : i \in 1..n
      BY <1>1, <2>1
    <3> QED BY <1>1, <3>1, <3>2
  <2>2. CASE l = n + 1
    BY <1>13, <1>16, <2>2
  <2>3. l \in 0..n \/ l = n + 1
    BY <1>1
  <2> QED BY <2>1, <2>2, <2>3
<1>17. Packs(t, q)
  BY <1>1, <1>7, <1>15, <1>16 DEF Packs
<1>18. ASSUME NEW j \in 1..Len(q) PROVE \E i \in 1..(n + 1) : q[j] = t[i]
  <2>1. CASE j \in 1..k
    <3>1. q[j] = r[j]
      BY <1>2, <1>3, <2>1
    <3>2. PICK i \in 1..n : r[j] = s[i]
      BY <1>5, <2>1
    <3>3. i \in 1..(n + 1)
      BY <1>1
    <3> QED BY <1>1, <3>1, <3>2, <3>3
  <2>2. CASE j \notin 1..k
    <3>1. added /\ j = k + 1
      BY <1>2, <1>3, <1>4, <1>8, <2>2
    <3>2. n + 1 \in 1..(n + 1)
      BY <1>1
    <3> QED BY <1>1, <1>3, <3>1, <3>2
  <2> QED BY <2>1, <2>2
<1>19. Len(q) <= n + 1
  BY <1>1, <1>2, <1>3, <1>4, <1>5, <1>8
<1>20. Fits(t, q)
  BY <1>1, <1>14, <1>18, <1>19 DEF Fits
<1> QED BY <1>17, <1>20 DEF q, t

LEMMA PackedPacks ==
  ASSUME NEW D, NEW s \in Seq(Metas(D))
  PROVE  Packed(s) \in Seq(Metas(D)) /\ Packs(s, Packed(s)) /\ Fits(s, Packed(s))
<1> DEFINE Holds(u) == Packed(u) \in Seq(Metas(D)) /\ Packs(u, Packed(u)) /\ Fits(u, Packed(u))
           T == {u \in Seq(Metas(D)) : Holds(u)}
<1>1. << >> \in T
  <2>1. Packed(<< >>) = << >> /\ << >> \in Seq(Metas(D)) /\ Len(<< >>) = 0
    BY PackAppend
  <2>2. Packs(<< >>, << >>) /\ Fits(<< >>, << >>)
    BY <2>1 DEF Packs, Fits, DistinctTo
  <2> QED BY <2>1, <2>2
<1>2. ASSUME NEW u \in Seq(Metas(D)), NEW m \in Metas(D), u \in T PROVE Append(u, m) \in T
  <2> DEFINE r == Packed(u)
  <2>1. r \in Seq(Metas(D)) /\ Packs(u, r) /\ Fits(u, r)
    BY <1>2
  <2>2. Packed(Append(u, m)) = InsertOrGet(r, m)
    <3>1. \A v \in Seq(Metas(D)), x \in Metas(D) :
            Packed(Append(v, x)) = InsertOrGet(Packed(v), x)
      BY PackAppend
    <3> QED BY <3>1
  <2> HIDE DEF r
  <2>3. InsertOrGet(r, m) \in Seq(Metas(D))
    BY <2>1, Inserted
  <2>4. Packs(Append(u, m), InsertOrGet(r, m)) /\ Fits(Append(u, m), InsertOrGet(r, m))
    BY <2>1, PackedStep
  <2>5. Append(u, m) \in Seq(Metas(D))
    BY Appended
  <2> QED BY <2>2, <2>3, <2>4, <2>5
<1> HIDE DEF Holds
<1>3. s \in T
  <2> HIDE DEF T
  <2> QED BY <1>1, <1>2, SeqInduction
<1> QED BY <1>3 DEF Holds

-----------------------------------------------------------------------------
(* The members that sign a packed instruction.                             *)

\* Members, by their account among those of D: their own, or that of the domain
\* of their passkey.
IsMember(s, D) == s.passkey \in BOOLEAN /\ s.account \in D

MemberMeta(s) == Meta(s.account, ~s.passkey, FALSE)

SignerEntry(s, metas, assertions) ==
  [by        |-> s,
   passkey   |-> s.passkey,
   index     |-> IndexOf(AddressesIn(metas), s.account),
   assertion |-> Len(assertions)]

WithMember(acc, s) ==
  [packed     |-> InsertOrGet(acc.packed, MemberMeta(s)),
   assertions |-> IF s.passkey THEN Append(acc.assertions, s) ELSE acc.assertions,
   signers    |-> Append(acc.signers,
       SignerEntry(s, InsertOrGet(acc.packed, MemberMeta(s)),
                   acc.assertions))]

NoMember(packed, assertions) ==
  [packed |-> packed, assertions |-> assertions, signers |-> << >>]

\* Entries of members Y, and what is built of them.
MemberEntries(Y) == [by : Y, passkey : BOOLEAN, index : Nat, assertion : Nat]
MembersBuilt(D, Y) ==
  [packed : Seq(Metas(D)), assertions : Seq(Y), signers : Seq(MemberEntries(Y))]

LEMMA EntryFound ==
  ASSUME NEW D, NEW r \in Seq(Metas(D)), NEW a \in D,
         \E j \in 1..Len(r) : r[j].address = a
  PROVE  /\ IndexOf(AddressesIn(r), a) \in 0..(Len(r) - 1)
         /\ IndexOf(AddressesIn(r), a) \in Nat
         /\ Nth(r, IndexOf(AddressesIn(r), a)).address = a
<1> DEFINE f == AddressesIn(r)
           p == IndexOf(f, a)
<1>1. f \in Seq(D) /\ Len(f) = Len(r) /\ \A i \in 1..Len(r) : f[i] = r[i].address
  BY AddressesType
<1> HIDE DEF f
<1>2. a \in ToSet(f)
  <2>1. DOMAIN f = 1..Len(f)
    BY <1>1
  <2> QED BY <1>1, <2>1 DEF ToSet
<1>3. p \in 0..(Len(f) - 1) /\ Nth(f, p) = a
  BY <1>1, <1>2, Found
<1> HIDE DEF p
<1>4. Len(r) \in Nat /\ p + 1 \in 1..Len(r) /\ p \in Nat /\ f[p + 1] = a
  BY <1>1, <1>3 DEF Nth
<1>5. r[p + 1].address = a
  BY <1>1, <1>4
<1> QED BY <1>1, <1>3, <1>4, <1>5 DEF Nth, p, f

LEMMA MemberInserted ==
  ASSUME NEW D, NEW r \in Seq(Metas(D)), NEW s, IsMember(s, D)
  PROVE  /\ MemberMeta(s) \in Metas(D)
         /\ MemberMeta(s).address = s.account /\ MemberMeta(s).signer = ~s.passkey
         /\ InsertOrGet(r, MemberMeta(s)) \in Seq(Metas(D))
         /\ \E j \in 1..Len(InsertOrGet(r, MemberMeta(s))) :
              InsertOrGet(r, MemberMeta(s))[j].address = s.account
<1> DEFINE m == MemberMeta(s)
           q == InsertOrGet(r, m)
<1>1. m \in Metas(D) /\ m.address = s.account /\ m.signer = ~s.passkey
  BY MetaType DEF IsMember, MemberMeta
<1> HIDE DEF m
<1>2. /\ q \in Seq(Metas(D))
      /\ \/ q = r /\ \E j \in 1..Len(r) : r[j].address = m.address
         \/ q = Append(r, m)
  BY <1>1, Inserted
<1>3. /\ Len(Append(r, m)) = Len(r) + 1 /\ Append(r, m)[Len(r) + 1] = m /\ Len(r) \in Nat
  BY <1>1, Appended
<1> HIDE DEF q
<1>4. \E j \in 1..Len(q) : q[j].address = s.account
  <2>1. CASE q = r /\ \E j \in 1..Len(r) : r[j].address = m.address
    BY <1>1, <2>1
  <2>2. CASE q = Append(r, m)
    <3>1. Len(r) + 1 \in 1..Len(q) /\ q[Len(r) + 1] = m
      BY <1>3, <2>2
    <3> QED BY <1>1, <3>1
  <2> QED BY <1>2, <2>1, <2>2
<1> QED BY <1>1, <1>2, <1>4 DEF m, q

LEMMA WithMemberType ==
  ASSUME NEW D, NEW Y, NEW acc \in MembersBuilt(D, Y), NEW s \in Y, IsMember(s, D)
  PROVE  /\ WithMember(acc, s) \in MembersBuilt(D, Y)
         /\ WithMember(acc, s).packed
              = InsertOrGet(acc.packed, MemberMeta(s))
         /\ WithMember(acc, s).signers
              = Append(acc.signers,
                       SignerEntry(s, WithMember(acc, s).packed, acc.assertions))
<1> DEFINE q == InsertOrGet(acc.packed, MemberMeta(s))
           x == SignerEntry(s, q, acc.assertions)
<1>1. acc.packed \in Seq(Metas(D)) /\ acc.assertions \in Seq(Y)
      /\ acc.signers \in Seq(MemberEntries(Y))
  BY DEF MembersBuilt
<1>2. q \in Seq(Metas(D)) /\ \E j \in 1..Len(q) : q[j].address = s.account
  <2> DEFINE r == acc.packed
  <2>1. r \in Seq(Metas(D))
    BY <1>1
  <2> HIDE DEF r
  <2>2. /\ InsertOrGet(r, MemberMeta(s)) \in Seq(Metas(D))
        /\ \E j \in 1..Len(InsertOrGet(r, MemberMeta(s))) :
             InsertOrGet(r, MemberMeta(s))[j].address = s.account
    BY <2>1, MemberInserted
  <2>3. q = InsertOrGet(r, MemberMeta(s))
    BY DEF q, r
  <2> HIDE DEF q
  <2> QED BY <2>2, <2>3
<1>3. WithMember(acc, s)
        = [packed     |-> q,
           assertions |-> IF s.passkey THEN Append(acc.assertions, s) ELSE acc.assertions,
           signers    |-> Append(acc.signers, x)]
  BY Zenon DEF WithMember
<1> HIDE DEF q
<1>4. x \in MemberEntries(Y)
  <2>1. IndexOf(AddressesIn(q), s.account) \in Nat
    BY <1>2, EntryFound DEF IsMember
  <2>2. Len(acc.assertions) \in Nat /\ s.passkey \in BOOLEAN
    BY <1>1 DEF IsMember
  <2> QED BY <2>1, <2>2 DEF SignerEntry, MemberEntries
<1> HIDE DEF x
<1>5. /\ Append(acc.signers, x) \in Seq(MemberEntries(Y))
      /\ Append(acc.assertions, s) \in Seq(Y)
  BY <1>1, <1>4, Appended
<1>6. WithMember(acc, s).packed = q /\ WithMember(acc, s).signers = Append(acc.signers, x)
  BY <1>3
<1>7. (IF s.passkey THEN Append(acc.assertions, s) ELSE acc.assertions) \in Seq(Y)
  BY <1>1, <1>5
<1>8. WithMember(acc, s) \in MembersBuilt(D, Y)
  <2> DEFINE y == IF s.passkey THEN Append(acc.assertions, s) ELSE acc.assertions
             z == Append(acc.signers, x)
  <2>1. y \in Seq(Y) /\ z \in Seq(MemberEntries(Y)) /\ q \in Seq(Metas(D))
    BY <1>2, <1>5, <1>7
  <2>2. WithMember(acc, s) = [packed |-> q, assertions |-> y, signers |-> z]
    BY <1>3
  <2> HIDE DEF y, z
  <2> QED BY <2>1, <2>2 DEF MembersBuilt
<1> QED BY <1>6, <1>8 DEF q, x

\* The members one after another.
MemberRun(g, s, packed, assertions) ==
  /\ g[0] = NoMember(packed, assertions)
  /\ \A i \in 1..Len(s) : g[i] = WithMember(g[i - 1], s[i])
  /\ BuildSignerAccounts(s, packed, assertions) = g[Len(s)]

LEMMA MemberRuns ==
  ASSUME NEW D, NEW Y, \A y \in Y : IsMember(y, D), NEW s \in Seq(Y),
         NEW packed \in Seq(Metas(D)), NEW assertions \in Seq(Y)
  PROVE  \E g : MemberRun(g, s, packed, assertions)
<1> DEFINE n == Len(s)
           V == MembersBuilt(D, Y)
           none == NoMember(packed, assertions)
           F == [p \in V \X (1..n) |-> WithMember(p[1], s[p[2]])]
           Step(h, T) == IF T = {} THEN none ELSE WithMember(h[T \ {Max(T)}], s[Max(T)])
           iter == CHOOSE h : h = [T \in SUBSET DOMAIN s |-> Step(h, T)]
           g == [i \in 0..n |-> iter[1..i]]
<1>1. n \in Nat /\ DOMAIN s = 1..n /\ \A i \in 1..n : s[i] \in Y
  OBVIOUS
<1>0. none \in V
  BY DEF NoMember, MembersBuilt
<1>2. \E h : h = [T \in SUBSET DOMAIN s |-> Step(h, T)]
  <2>1. F \in [V \X (1..n) -> V]
    <3>1. \A acc \in V, i \in 1..n : WithMember(acc, s[i]) \in V
      BY <1>1, WithMemberType
    <3> HIDE DEF V
    <3> QED BY <3>1
  <2> HIDE DEF F, V, none
  <2>2. PICK h \in [SUBSET (1..n) -> V] : IsFold(h, n, none, F)
    BY <1>0, <1>1, <2>1, FoldExists
  <2>3. ASSUME NEW T \in SUBSET (1..n) PROVE h[T] = Step(h, T)
    <3>1. CASE T = {}
      BY <2>2, <3>1 DEF IsFold
    <3>2. CASE T # {}
      <4>1. Max(T) \in 1..n
        BY <1>1, <3>2, MaxIn, Zenon
      <4>2. h[T \ {Max(T)}] \in V
        OBVIOUS
      <4>3. F[<<h[T \ {Max(T)}], Max(T)>>] = WithMember(h[T \ {Max(T)}], s[Max(T)])
        BY <4>1, <4>2 DEF F
      <4> QED BY <2>2, <3>2, <4>3 DEF IsFold
    <3> QED BY <3>1, <3>2
  <2> HIDE DEF Step
  <2>4. h = [T \in SUBSET DOMAIN s |-> Step(h, T)]
    BY <1>1, <2>3
  <2> QED BY <2>4
<1>3. iter = [T \in SUBSET DOMAIN s |-> Step(iter, T)]
  BY <1>2, Zenon
<1>4. BuildSignerAccounts(s, packed, assertions) = iter[DOMAIN s]
  BY Zenon DEF BuildSignerAccounts, WithMember, MemberMeta, SignerEntry, NoMember,
               FoldLeft, MapThenFoldSet
<1> HIDE DEF iter, none
<1>5. g[0] = none /\ g[n] = iter[DOMAIN s]
  BY <1>1, <1>3
<1>6. ASSUME NEW i \in 1..n PROVE g[i] = WithMember(g[i - 1], s[i])
  <2>1. Max(1..i) = i /\ (1..i) \ {Max(1..i)} = 1..(i - 1) /\ 1..i # {}
    BY MaxOfFirst
  <2>2. 1..i \in SUBSET DOMAIN s /\ g[i] = iter[1..i] /\ g[i - 1] = iter[1..(i - 1)]
    BY <1>1
  <2>3. iter[1..i] = Step(iter, 1..i)
    BY <1>3, <2>2, Zenon
  <2> QED BY <2>1, <2>2, <2>3
<1> HIDE DEF g
<1>7. MemberRun(g, s, packed, assertions)
  BY <1>4, <1>5, <1>6 DEF MemberRun, none
<1> QED BY <1>7

\* What is built of the members so far.
MembersSteps(Y, packed, assertions) ==
  /\ BuildSignerAccounts(<< >>, packed, assertions) = NoMember(packed, assertions)
  /\ \A s \in Seq(Y), x \in Y :
       BuildSignerAccounts(Append(s, x), packed, assertions)
         = WithMember(BuildSignerAccounts(s, packed, assertions), x)

LEMMA MemberAppend ==
  ASSUME NEW D, NEW Y, \A y \in Y : IsMember(y, D),
         NEW packed \in Seq(Metas(D)), NEW assertions \in Seq(Y)
  PROVE  MembersSteps(Y, packed, assertions)
<1> DEFINE Build(s) == BuildSignerAccounts(s, packed, assertions)
<1>1. Build(<< >>) = NoMember(packed, assertions)
  <2>1. << >> \in Seq(Y) /\ Len(<< >>) = 0
    OBVIOUS
  <2>2. PICK g : MemberRun(g, << >>, packed, assertions)
    BY <2>1, MemberRuns
  <2> QED BY <2>1, <2>2 DEF MemberRun
<1>2. ASSUME NEW s \in Seq(Y), NEW x \in Y
      PROVE  Build(Append(s, x)) = WithMember(Build(s), x)
  <2> DEFINE n == Len(s)
             t == Append(s, x)
  <2>1. /\ t \in Seq(Y) /\ Len(t) = n + 1 /\ n \in Nat
        /\ t[n + 1] = x /\ \A i \in 1..n : t[i] = s[i]
    BY Appended
  <2> HIDE DEF n, t
  <2>2. PICK g : MemberRun(g, s, packed, assertions)
    BY MemberRuns
  <2>3. PICK h : MemberRun(h, t, packed, assertions)
    BY <2>1, MemberRuns
  <2>4. g[n] = h[n]
    <3>1. \A i \in 1..n : i \in 1..Len(t) /\ i \in 1..Len(s)
      BY <2>1 DEF n
    <3>2. \A i \in 1..n : g[i - 1] = h[i - 1] => g[i] = h[i]
      BY <2>1, <2>2, <2>3, <3>1 DEF MemberRun
    <3>3. g[0] = h[0]
      BY <2>2, <2>3 DEF MemberRun
    <3> QED BY <2>1, <3>2, <3>3, SameSteps
  <2>5. h[n + 1] = WithMember(h[n], x)
    <3>1. n + 1 \in 1..Len(t) /\ (n + 1) - 1 = n
      BY <2>1
    <3> QED BY <2>1, <2>3, <3>1 DEF MemberRun
  <2>6. Build(s) = g[n] /\ Build(t) = h[n + 1]
    BY <2>1, <2>2, <2>3 DEF MemberRun, n
  <2> HIDE DEF Build
  <2> QED BY <2>4, <2>5, <2>6 DEF t
<1> QED BY <1>1, <1>2 DEF MembersSteps

\* The entry of a member points to its account.
EntryRight(Y, r, x) ==
  /\ x.by \in Y /\ x.passkey = x.by.passkey
  /\ x.index + 1 \in 1..Len(r) /\ r[x.index + 1].address = x.by.account

\* The members come after what is packed of the list ms, or are found in it.
MembersKeep(D, Y, ms, acc) ==
  /\ acc \in MembersBuilt(D, Y)
  /\ Packs(ms, acc.packed)
  /\ \A j \in 1..Len(acc.packed) : \/ \E i \in 1..Len(ms) : acc.packed[j] = ms[i]
                                   \/ \E s \in Y : acc.packed[j] = MemberMeta(s)
  /\ \A i \in 1..Len(acc.signers) : EntryRight(Y, acc.packed, acc.signers[i])

LEMMA InsertedKeeps ==
  ASSUME NEW D, NEW r \in Seq(Metas(D)), NEW m \in Metas(D)
  PROVE  LET q == InsertOrGet(r, m)
         IN  /\ q \in Seq(Metas(D)) /\ Len(r) <= Len(q)
             /\ \A j \in 1..Len(r) : j \in 1..Len(q) /\ q[j] = r[j]
             /\ \A j \in 1..Len(q) : j \in 1..Len(r) \/ q[j] = m
<1> DEFINE q == InsertOrGet(r, m)
<1>1. q \in Seq(Metas(D)) /\ (q = r \/ q = Append(r, m))
  BY Inserted
<1>2. /\ Len(Append(r, m)) = Len(r) + 1 /\ Append(r, m)[Len(r) + 1] = m /\ Len(r) \in Nat
      /\ \A j \in 1..Len(r) : Append(r, m)[j] = r[j]
  BY Appended
<1> HIDE DEF q
<1>3. CASE q = r
  BY <1>1, <1>2, <1>3 DEF q
<1>4. CASE q = Append(r, m)
  <2>1. /\ Len(q) = Len(r) + 1 /\ q[Len(r) + 1] = m
        /\ \A j \in 1..Len(r) : q[j] = r[j]
    BY <1>2, <1>4
  <2>2. /\ \A j \in 1..Len(r) : j \in 1..Len(q)
        /\ \A j \in 1..Len(q) : j \in 1..Len(r) \/ j = Len(r) + 1
        /\ Len(r) <= Len(q)
    BY <1>2, <2>1
  <2> QED BY <1>1, <2>1, <2>2 DEF q
<1> QED BY <1>1, <1>3, <1>4

LEMMA EntryKept ==
  ASSUME NEW D, NEW r \in Seq(Metas(D)), NEW m \in Metas(D), NEW Y, NEW x,
         EntryRight(Y, r, x)
  PROVE  EntryRight(Y, InsertOrGet(r, m), x)
<1> DEFINE q == InsertOrGet(r, m)
<1>1. \A j \in 1..Len(r) : j \in 1..Len(q) /\ q[j] = r[j]
  BY InsertedKeeps
<1> HIDE DEF q
<1>2. x.index + 1 \in 1..Len(q) /\ q[x.index + 1].address = x.by.account
  BY <1>1 DEF EntryRight
<1> QED BY <1>2 DEF EntryRight, q

LEMMA EntryOfMember ==
  ASSUME NEW D, NEW r \in Seq(Metas(D)), NEW Y, NEW s \in Y, IsMember(s, D), NEW assertions,
         \E j \in 1..Len(r) : r[j].address = s.account
  PROVE  EntryRight(Y, r, SignerEntry(s, r, assertions))
<1> DEFINE x == SignerEntry(s, r, assertions)
<1>1. x.by = s /\ x.passkey = s.passkey /\ x.index = IndexOf(AddressesIn(r), s.account)
  BY DEF SignerEntry
<1>2. /\ IndexOf(AddressesIn(r), s.account) \in 0..(Len(r) - 1)
      /\ Nth(r, IndexOf(AddressesIn(r), s.account)).address = s.account
  BY EntryFound DEF IsMember
<1> HIDE DEF x
<1>3. Len(r) \in Nat
  OBVIOUS
<1>4. x.index \in 0..(Len(r) - 1) /\ r[x.index + 1].address = s.account
  BY <1>1, <1>2 DEF Nth
<1>5. x.index + 1 \in 1..Len(r)
  BY <1>3, <1>4
<1> QED BY <1>1, <1>4, <1>5 DEF EntryRight, x

LEMMA MemberKeeps ==
  ASSUME NEW D, NEW Y, NEW ms \in Seq(Metas(D)), NEW acc, MembersKeep(D, Y, ms, acc),
         NEW s \in Y, IsMember(s, D)
  PROVE  MembersKeep(D, Y, ms, WithMember(acc, s))
<1> DEFINE r == acc.packed
           m == MemberMeta(s)
           q == InsertOrGet(r, m)
           b == WithMember(acc, s)
           x == SignerEntry(s, q, acc.assertions)
<1>1. /\ acc \in MembersBuilt(D, Y) /\ Packs(ms, r)
      /\ \A j \in 1..Len(r) : \/ \E i \in 1..Len(ms) : r[j] = ms[i]
                              \/ \E y \in Y : r[j] = MemberMeta(y)
      /\ \A i \in 1..Len(acc.signers) : EntryRight(Y, r, acc.signers[i])
  BY DEF MembersKeep
<1>2. r \in Seq(Metas(D)) /\ acc.signers \in Seq(MemberEntries(Y))
  BY <1>1 DEF MembersBuilt
<1>3. /\ b \in MembersBuilt(D, Y) /\ b.packed = q
      /\ b.signers = Append(acc.signers, SignerEntry(s, b.packed, acc.assertions))
  BY <1>1, WithMemberType
<1> HIDE DEF b, r
<1>4. /\ m \in Metas(D) /\ q \in Seq(Metas(D))
      /\ \E j \in 1..Len(q) : q[j].address = s.account
  BY <1>2, MemberInserted
<1> HIDE DEF m
<1>5. \A j \in 1..Len(q) : (j \in 1..Len(r) /\ q[j] = r[j]) \/ q[j] = m
  <2>1. /\ \A j \in 1..Len(r) : q[j] = r[j]
        /\ \A j \in 1..Len(q) : j \in 1..Len(r) \/ q[j] = m
    <3>1. r \in Seq(Metas(D)) /\ m \in Metas(D)
      BY <1>2, <1>4
    <3> QED BY ONLY <3>1, InsertedKeeps DEF q
  <2> QED BY <2>1
<1>6. Packs(ms, q)
  BY <1>1, <1>2, <1>4, PacksGrow
<1>7. \A i \in 1..Len(acc.signers) : EntryRight(Y, q, acc.signers[i])
  BY <1>1, <1>2, <1>4, EntryKept
<1> HIDE DEF q
<1>8. EntryRight(Y, q, x)
  BY <1>4, EntryOfMember
<1>9. \A j \in 1..Len(q) : \/ \E i \in 1..Len(ms) : q[j] = ms[i]
                           \/ \E y \in Y : q[j] = MemberMeta(y)
  BY <1>1, <1>5 DEF m
<1> HIDE DEF x
<1>10. \A i \in 1..Len(b.signers) : EntryRight(Y, q, b.signers[i])
  <2> DEFINE n == Len(acc.signers)
  <2>1. b.signers = Append(acc.signers, x)
    BY <1>3 DEF x
  <2>2. /\ n \in Nat /\ Len(b.signers) = n + 1
        /\ \A i \in 1..n : b.signers[i] = acc.signers[i]
        /\ b.signers[n + 1] = x
    BY <1>2, <2>1
  <2> HIDE DEF n
  <2>3. \A i \in 1..(n + 1) : i \in 1..n \/ i = n + 1
    BY <2>2
  <2>4. \A i \in 1..n : EntryRight(Y, q, b.signers[i])
    <3>1. \A i \in 1..n : EntryRight(Y, q, acc.signers[i])
      BY <1>7 DEF n
    <3> QED BY <2>2, <3>1
  <2>5. EntryRight(Y, q, b.signers[n + 1])
    BY <1>8, <2>2
  <2>6. \A i \in 1..Len(b.signers) : i \in 1..n \/ i = n + 1
    BY <2>2, <2>3
  <2> QED BY <2>4, <2>5, <2>6
<1> QED BY <1>3, <1>6, <1>9, <1>10 DEF MembersKeep, b

LEMMA MembersKept ==
  ASSUME NEW D, NEW Y, \A y \in Y : IsMember(y, D), NEW ms \in Seq(Metas(D)),
         NEW assertions \in Seq(Y), NEW ss \in Seq(Y)
  PROVE  MembersKeep(D, Y, ms, BuildSignerAccounts(ss, Packed(ms), assertions))
<1> DEFINE BuiltOf(u) == BuildSignerAccounts(u, Packed(ms), assertions)
           T == {u \in Seq(Y) : MembersKeep(D, Y, ms, BuiltOf(u))}
<1>1. /\ Packed(ms) \in Seq(Metas(D)) /\ Packs(ms, Packed(ms))
      /\ \A j \in 1..Len(Packed(ms)) : \E i \in 1..Len(ms) : Packed(ms)[j] = ms[i]
  BY PackedPacks DEF Fits
<1>2. /\ BuiltOf(<< >>) = NoMember(Packed(ms), assertions)
      /\ \A u \in Seq(Y), y \in Y : BuiltOf(Append(u, y)) = WithMember(BuiltOf(u), y)
  <2>1. MembersSteps(Y, Packed(ms), assertions)
    BY <1>1, MemberAppend
  <2> QED BY <2>1 DEF MembersSteps
<1> HIDE DEF BuiltOf
<1>3. << >> \in T
  <2> DEFINE none == NoMember(Packed(ms), assertions)
  <2>1. /\ none.packed = Packed(ms) /\ none.signers = << >> /\ Len(<< >>) = 0
        /\ none \in MembersBuilt(D, Y) /\ << >> \in Seq(Y)
    BY <1>1 DEF NoMember, MembersBuilt
  <2> HIDE DEF none
  <2>2. MembersKeep(D, Y, ms, none)
    BY <1>1, <2>1 DEF MembersKeep
  <2> QED BY <1>2, <2>1, <2>2 DEF none
<1>4. ASSUME NEW u \in Seq(Y), NEW y \in Y, u \in T PROVE Append(u, y) \in T
  <2>1. MembersKeep(D, Y, ms, WithMember(BuiltOf(u), y))
    BY <1>4, MemberKeeps
  <2>2. Append(u, y) \in Seq(Y)
    OBVIOUS
  <2> QED BY <1>2, <2>1, <2>2
<1>5. ss \in T
  <2> HIDE DEF T
  <2> QED BY <1>3, <1>4, SeqInduction
<1> QED BY <1>5 DEF BuiltOf

-----------------------------------------------------------------------------
(* What is packed of a message.                                            *)

LEMMA StaticDistinct ==
  ASSUME NEW D, NEW ixs, NEW e, e.left \in Seq(D), Distinct(e.left)
  PROVE  Distinct(Sent(ixs, e).account_keys) /\ ToSet(Sent(ixs, e).account_keys) = ToSet(e.left)
<1> DEFINE a == WritableSigners(ixs, e)
           b == ReadonlySigners(ixs, e)
           c == WritableOthers(ixs, e)
           d == ReadonlyOthers(ixs, e)
           G == SignersOf(ixs)
           M == WritablesOf(ixs)
           H == ToSet(e.left)
<1>1. Sent(ixs, e).account_keys = a \o b \o c \o d
  BY SentFields DEF InClasses
<1>2. /\ Holding(D, a, (H \cap G) \cap M) /\ Holding(D, b, (H \cap G) \ M)
      /\ Holding(D, c, (H \ G) \cap M) /\ Holding(D, d, (H \ G) \ M)
  BY ClassesHold
<1>3. Distinct(a) /\ Distinct(b) /\ Distinct(c) /\ Distinct(d)
  BY OnlyDistinct DEF WritableSigners, ReadonlySigners, WritableOthers, ReadonlyOthers, InClass
<1> HIDE DEF a, b, c, d, G, M, H
<1>4. /\ a \in Seq(D) /\ b \in Seq(D) /\ c \in Seq(D) /\ d \in Seq(D)
      /\ ToSet(a) = (H \cap G) \cap M /\ ToSet(b) = (H \cap G) \ M
      /\ ToSet(c) = (H \ G) \cap M /\ ToSet(d) = (H \ G) \ M
  BY <1>2 DEF Holding
<1>5. /\ a \o b \in Seq(D) /\ ToSet(a \o b) = H \cap G /\ Distinct(a \o b)
  <2>1. ToSet(a) \cap ToSet(b) = {} /\ ToSet(a) \cup ToSet(b) = H \cap G
    BY <1>4
  <2> QED BY <1>3, <1>4, <2>1, Concatenated, DistinctBoth
<1> DEFINE ab == a \o b
<1> HIDE DEF ab
<1>6. ab \in Seq(D) /\ ToSet(ab) = H \cap G /\ Distinct(ab)
  BY <1>5 DEF ab
<1>7. /\ ab \o c \in Seq(D) /\ ToSet(ab \o c) = (H \cap G) \cup ((H \ G) \cap M)
      /\ Distinct(ab \o c)
  <2>1. ToSet(ab) \cap ToSet(c) = {}
    BY <1>4, <1>6
  <2> QED BY <1>3, <1>4, <1>6, <2>1, Concatenated, DistinctBoth
<1> DEFINE abc == ab \o c
<1> HIDE DEF abc
<1>8. /\ abc \in Seq(D) /\ ToSet(abc) = (H \cap G) \cup ((H \ G) \cap M) /\ Distinct(abc)
  BY <1>7 DEF abc
<1>9. ToSet(abc \o d) = H /\ Distinct(abc \o d)
  <2>1. ToSet(abc) \cap ToSet(d) = {} /\ ToSet(abc) \cup ToSet(d) = H
    BY <1>4, <1>8
  <2>2. Distinct(abc \o d)
    BY <1>3, <1>4, <1>8, <2>1, DistinctBoth
  <2>3. ToSet(abc \o d) = ToSet(abc) \cup ToSet(d)
    BY <1>4, <1>8, Concatenated
  <2> QED BY <2>1, <2>2, <2>3
<1> QED BY <1>1, <1>9 DEF abc, ab, H

\* The accounts that a message names are different ones, unless one of them is a
\* lookup table.
Named(m, table) == ToSet(m.account_keys)
                   \cup ToSet(LoadedAddresses(m.address_table_lookups, table))
TablesOf(m) == {m.address_table_lookups[i].table : i \in 1..Len(m.address_table_lookups)}
Places(m, table) == Len(m.address_table_lookups) + Len(m.account_keys)
                    + Len(FlattenSeq(LoadedLists(m.address_table_lookups, table)))

\* What is compiled names an account once.
NamedOnce(D, m, table) ==
  LET ls == m.address_table_lookups
  IN  /\ m.account_keys \in Seq(D) /\ ls \in Seq(LookupsIn(table))
      /\ Distinct(m.account_keys) /\ Distinct(LoadedAddresses(ls, table))
      /\ ToSet(m.account_keys) \cap ToSet(LoadedAddresses(ls, table)) = {}
      /\ \A i, j \in 1..Len(ls) : ls[i].table = ls[j].table => i = j
      /\ \A i \in 1..Len(ls) : ls[i].writable # << >> \/ ls[i].readonly # << >>

LEMMA CompiledNamesOnce ==
  ASSUME NEW D, NEW table, NEW ixs, NEW e,
         Tidy(table, SignersOf(ixs), e),
         e.left \in Seq(D), e.lookups \in Seq(LookupsIn(table))
  PROVE  NamedOnce(D, Sent(ixs, e), table)
<1> DEFINE m == Sent(ixs, e)
<1>1. Distinct(m.account_keys) /\ ToSet(m.account_keys) = ToSet(e.left)
  BY StaticDistinct DEF Tidy
<1>2. m.address_table_lookups = e.lookups /\ m.account_keys \in Seq(D)
  <2>1. InClasses(ixs, e, m)
    BY SentFields
  <2>2. /\ Holding(D, WritableSigners(ixs, e),
                    (ToSet(e.left) \cap SignersOf(ixs)) \cap WritablesOf(ixs))
        /\ Holding(D, ReadonlySigners(ixs, e),
                    (ToSet(e.left) \cap SignersOf(ixs)) \ WritablesOf(ixs))
        /\ Holding(D, WritableOthers(ixs, e),
                    (ToSet(e.left) \ SignersOf(ixs)) \cap WritablesOf(ixs))
        /\ Holding(D, ReadonlyOthers(ixs, e),
                    (ToSet(e.left) \ SignersOf(ixs)) \ WritablesOf(ixs))
    BY ClassesHold
  <2> HIDE DEF m
  <2>3. FourLists(D, WritableSigners(ixs, e), ReadonlySigners(ixs, e), WritableOthers(ixs, e),
                  ReadonlyOthers(ixs, e))
    BY <2>2, InFour DEF Holding
  <2> QED BY <2>1, <2>3 DEF InClasses, FourLists
<1> HIDE DEF m
<1>3. /\ Distinct(LoadedAddresses(e.lookups, table))
      /\ ToSet(LoadedAddresses(e.lookups, table)) \cap ToSet(e.left) = {}
      /\ \A i \in 1..Len(e.lookups) : e.lookups[i].writable # << >> \/ e.lookups[i].readonly # << >>
      /\ \A i, j \in 1..Len(e.lookups) : e.lookups[i].table = e.lookups[j].table => i = j
  BY DEF Tidy
<1> QED BY <1>1, <1>2, <1>3 DEF NamedOnce, m

LEMMA ListedOnce ==
  ASSUME NEW D, NEW U, NEW table \in [U -> Seq(D)], NEW m, NamedOnce(D, m, table),
         NEW ms, Listing(D, m, table, ms), TablesOf(m) \cap Named(m, table) = {}
  PROVE  DistinctTo(ms, Places(m, table))
<1> DEFINE ls == m.address_table_lookups
           keys == m.account_keys
           lists == LoadedLists(ls, table)
           f == FlattenSeq(lists)
           g == LoadedAddresses(ls, table)
           n == Len(ls)
           k == Len(keys)
           v == Len(f)
<1>1. /\ keys \in Seq(D) /\ ls \in Seq(LookupsIn(table))
      /\ \A i, j \in 1..k : keys[i] = keys[j] => i = j
      /\ \A i, j \in 1..Len(g) : g[i] = g[j] => i = j
      /\ ToSet(keys) \cap ToSet(g) = {}
      /\ \A i, j \in 1..n : ls[i].table = ls[j].table => i = j
  BY DEF NamedOnce, Distinct
<1>2. f \in Seq(Metas(D))
  <2>1. n \in Nat /\ IsList(lists, n, Seq(Metas(D)))
    BY <1>1, LoadedListsType
  <2> HIDE DEF lists, n
  <2>2. lists \in Seq(Seq(Metas(D)))
    BY <2>1, ListType
  <2> QED BY <2>2, FlattenKeeps
<1>3. g \in Seq(D) /\ Len(g) = v /\ \A i \in 1..v : g[i] = f[i].address
  BY <1>2, AddressesType DEF LoadedAddresses
<1>4. /\ \A i \in 1..n : ms[i].address = ls[i].table
      /\ \A i \in 1..k : ms[n + i].address = keys[i]
      /\ \A i \in 1..v : ms[n + k + i].address = f[i].address
  BY DEF Listing
<1>5. n \in Nat /\ k \in Nat /\ v \in Nat
  BY <1>1, <1>2
<1>6. /\ \A i \in 1..n : ls[i].table \in TablesOf(m)
      /\ \A i \in 1..k : keys[i] \in ToSet(keys) /\ keys[i] \in Named(m, table)
      /\ \A i \in 1..v : g[i] \in ToSet(g) /\ g[i] \in Named(m, table)
  <2>1. \A i \in 1..k : keys[i] \in ToSet(keys)
    BY <1>1 DEF ToSet
  <2>2. \A i \in 1..v : g[i] \in ToSet(g)
    <3> HIDE DEF g, v
    <3> QED BY <1>3 DEF ToSet
  <2> QED BY <2>1, <2>2 DEF TablesOf, Named
<1> DEFINE Holds == TablesOf(m) \cap Named(m, table) = {}
<1>7. Holds
  OBVIOUS
<1> HIDE DEF ls, keys, lists, f, g, n, k, v
<1>8. /\ \A i \in 1..n, j \in 1..k : ls[i].table # keys[j]
      /\ \A i \in 1..n, j \in 1..v : ls[i].table # g[j]
      /\ \A i \in 1..k, j \in 1..v : keys[i] # g[j]
  BY <1>1, <1>6, <1>7
<1> HIDE DEF Holds
<1>9. ASSUME NEW i \in 1..(n + k + v)
      PROVE  \/ i \in 1..n /\ ms[i].address = ls[i].table
             \/ /\ i - n \in 1..k /\ i \notin 1..n
                /\ ms[i].address = keys[i - n]
             \/ /\ i - (n + k) \in 1..v /\ i \notin 1..n /\ i - n \notin 1..k
                /\ ms[i].address = g[i - (n + k)]
  <2>1. \/ i \in 1..n
        \/ i - n \in 1..k /\ i \notin 1..n /\ n + (i - n) = i
        \/ i - (n + k) \in 1..v /\ i \notin 1..n /\ i - n \notin 1..k
           /\ n + k + (i - (n + k)) = i
    BY <1>5
  <2> QED BY <1>3, <1>4, <2>1
<1>10. ASSUME NEW i \in 1..(n + k + v), NEW j \in 1..(n + k + v), ms[i].address = ms[j].address
       PROVE  i = j
  <2>1. CASE i \in 1..n /\ ms[i].address = ls[i].table
    BY <1>1, <1>8, <1>9, <1>10, <2>1
  <2>2. CASE i - n \in 1..k /\ ms[i].address = keys[i - n]
    <3>1. j - n \in 1..k /\ ms[j].address = keys[j - n]
      BY <1>8, <1>9, <1>10, <2>2
    <3>2. i - n = j - n
      BY <1>1, <1>10, <2>2, <3>1
    <3> QED BY <1>5, <3>2
  <2>3. CASE i - (n + k) \in 1..v /\ ms[i].address = g[i - (n + k)]
    <3>1. j - (n + k) \in 1..v /\ ms[j].address = g[j - (n + k)]
      BY <1>8, <1>9, <1>10, <2>3
    <3>2. i - (n + k) = j - (n + k)
      BY <1>1, <1>3, <1>10, <2>3, <3>1
    <3> QED BY <1>5, <3>2
  <2> QED BY <1>9, <2>1, <2>2, <2>3
<1>11. Places(m, table) = n + k + v
  BY DEF Places, n, k, v, ls, keys, f, lists
<1> QED BY <1>10, <1>11 DEF DistinctTo

\* A sequence gives the first place of what it holds.
LEMMA FoundFirst ==
  ASSUME NEW X, NEW s \in Seq(X), NEW i \in 1..Len(s), \A j \in 1..(i - 1) : s[j] # s[i]
  PROVE  IndexOf(s, s[i]) = i - 1
<1> DEFINE I == {j \in 1..Len(s) : s[j] = s[i]}
<1>1. Len(s) \in Nat
  OBVIOUS
<1>2. i \in I /\ \A j \in I : i <= j
  <2>1. ASSUME NEW j \in I PROVE i <= j
    <3>1. j \in 1..Len(s) /\ s[j] = s[i]
      OBVIOUS
    <3> HIDE DEF I
    <3>2. j < i => j \in 1..(i - 1)
      BY <1>1, <3>1
    <3> QED BY <1>1, <3>1, <3>2
  <2> QED BY <2>1
<1>3. SelectInSeq(s, LAMBDA y : y = s[i]) = Min(I)
  BY <1>2 DEF SelectInSeq
<1>4. \A j \in I : j \in Nat
  BY <1>1
<1> HIDE DEF I
<1>5. Min(I) \in I /\ \A j \in I : Min(I) <= j
  BY <1>2 DEF Min
<1>6. Min(I) = i
  <2> DEFINE p == Min(I)
  <2>1. p \in Nat /\ i \in Nat /\ i <= p /\ p <= i
    BY <1>2, <1>4, <1>5
  <2> HIDE DEF p
  <2>2. p = i
    BY <2>1
  <2> QED BY <2>2 DEF p
<1> QED BY <1>3, <1>6 DEF IndexOf

\* The first accounts of a list without repetition keep their places.
LEMMA PackedFirst ==
  ASSUME NEW D, NEW ms \in Seq(Metas(D)), NEW r, Packs(ms, r), NEW k \in 0..Len(ms),
         DistinctTo(ms, k)
  PROVE  k <= Len(r) /\ \A i \in 1..k : r[i] = ms[i]
BY DEF Packs

LEMMA PackedAsListed ==
  ASSUME NEW D, NEW table, NEW m, NEW ms, Listing(D, m, table, ms),
         Len(m.address_table_lookups) \in Nat, Len(m.account_keys) \in Nat,
         Len(FlattenSeq(LoadedLists(m.address_table_lookups, table))) \in Nat,
         NEW r \in Seq(Metas(D)), Packs(ms, r), DistinctTo(ms, Places(m, table))
  PROVE  Listing(D, m, table, r)
<1> DEFINE ls == m.address_table_lookups
           keys == m.account_keys
           f == FlattenSeq(LoadedLists(ls, table))
           n == Len(ls)
           k == Len(keys)
           v == Len(f)
           c == Places(m, table)
<1>1. /\ ms \in Seq(Metas(D)) /\ Len(ms) >= n + k + v
      /\ \A i \in 1..n : ms[i].address = ls[i].table
      /\ \A i \in 1..k : /\ ms[n + i].address = keys[i]
                         /\ IsSignerIndex(m, i - 1) /\ keys[i] # Vault => ms[n + i].signer
                         /\ IsStaticWritableIndex(m, i - 1) => ms[n + i].writable
      /\ \A i \in 1..v : /\ ms[n + k + i].address = f[i].address
                         /\ f[i].writable => ms[n + k + i].writable
  BY DEF Listing
<1>2. n \in Nat /\ k \in Nat /\ v \in Nat /\ c = n + k + v
  BY DEF Places
<1>3. Len(ms) \in Nat
  BY <1>1
<1> HIDE DEF ls, keys, f, n, k, v
<1>4. c <= Len(r) /\ \A i \in 1..c : r[i] = ms[i]
  <2>1. c \in 0..Len(ms)
    BY <1>1, <1>2, <1>3
  <2> HIDE DEF c
  <2> QED BY <1>1, <2>1, PackedFirst DEF c
<1>5. /\ \A i \in 1..n : i \in 1..c
      /\ \A i \in 1..k : n + i \in 1..c
      /\ \A i \in 1..v : n + k + i \in 1..c
  BY <1>2
<1>6. Len(r) >= n + k + v
  <2>1. Len(r) \in Nat
    OBVIOUS
  <2> QED BY <1>2, <1>4, <2>1
<1> HIDE DEF c
<1>7. \A i \in 1..n : r[i].address = ls[i].table
  BY <1>1, <1>4, <1>5
<1>8. \A i \in 1..k : /\ r[n + i].address = keys[i]
                      /\ IsSignerIndex(m, i - 1) /\ keys[i] # Vault => r[n + i].signer
                      /\ IsStaticWritableIndex(m, i - 1) => r[n + i].writable
  BY <1>1, <1>4, <1>5
<1>9. \A i \in 1..v : /\ r[n + k + i].address = f[i].address
                      /\ f[i].writable => r[n + k + i].writable
  BY <1>1, <1>4, <1>5
<1> QED BY <1>6, <1>7, <1>8, <1>9 DEF Listing, n, k, v, f, ls, keys

\* The lookup tables come first, each once.
LEMMA TablesFirst ==
  ASSUME NEW D, NEW table, NEW m, NamedOnce(D, m, table), NEW ms, Listing(D, m, table, ms),
         Len(FlattenSeq(LoadedLists(m.address_table_lookups, table))) \in Nat,
         NEW r \in Seq(Metas(D)), Packs(ms, r)
  PROVE  /\ Len(m.address_table_lookups) <= Len(r)
         /\ \A i \in 1..Len(m.address_table_lookups) :
              /\ r[i].address = m.address_table_lookups[i].table
              /\ IndexOf(AddressesIn(ms), m.address_table_lookups[i].table) = i - 1
<1> DEFINE ls == m.address_table_lookups
           n == Len(ls)
           k == Len(m.account_keys)
           v == Len(FlattenSeq(LoadedLists(ls, table)))
           a == AddressesIn(ms)
<1>1. /\ ms \in Seq(Metas(D)) /\ Len(ms) >= n + k + v
      /\ \A i \in 1..n : ms[i].address = ls[i].table
  BY DEF Listing
<1>2. \A i, j \in 1..n : ls[i].table = ls[j].table => i = j
  BY DEF NamedOnce
<1>3. n \in Nat /\ k \in Nat /\ v \in Nat /\ Len(ms) \in Nat
  BY <1>1 DEF NamedOnce
<1>4. a \in Seq(D) /\ Len(a) = Len(ms) /\ \A i \in 1..Len(ms) : a[i] = ms[i].address
  BY <1>1, AddressesType
<1> HIDE DEF ls, n, k, v, a
<1>5. n \in 0..Len(ms) /\ \A i \in 1..n : i \in 1..Len(ms)
  BY <1>1, <1>3
<1>6. n <= Len(r) /\ \A i \in 1..n : r[i] = ms[i]
  <2>1. DistinctTo(ms, n)
    BY <1>1, <1>2 DEF DistinctTo
  <2> QED BY <1>1, <1>5, <2>1, PackedFirst
<1>7. ASSUME NEW i \in 1..n PROVE IndexOf(a, ls[i].table) = i - 1
  <2>1. i \in 1..Len(a) /\ a[i] = ls[i].table
    BY <1>1, <1>4, <1>5
  <2>2. ASSUME NEW j \in 1..(i - 1) PROVE a[j] # a[i]
    <3>1. j \in 1..n /\ j # i
      BY <1>3
    <3>2. a[j] = ls[j].table
      BY <1>1, <1>4, <1>5, <3>1
    <3> QED BY <1>2, <2>1, <3>1, <3>2
  <2>3. IndexOf(a, a[i]) = i - 1
    BY <1>4, <2>1, <2>2, FoundFirst
  <2> QED BY <2>1, <2>3
<1>8. \A i \in 1..n : r[i].address = ls[i].table
  BY <1>1, <1>6
<1> QED BY <1>6, <1>7, <1>8 DEF n, ls, a

\* The lookups of a packed instruction name tables by their places.
SyncLookups(ls, ms) ==
  [i \in 1..Len(ls) |->
     [lookup_table_address_index |-> IndexOf(AddressesIn(ms), ls[i].table),
      writable |-> ls[i].writable, readonly |-> ls[i].readonly]]

\* The message that the program makes of it.
Resolved(m, r) ==
  [m EXCEPT !.account_keys =
     AddressesIn(SubSeq(r, Len(m.address_table_lookups) + 1,
                           Len(m.address_table_lookups) + Len(m.account_keys)))]

LEMMA PackedParts ==
  ASSUME NEW table, NEW message, NEW X, message.lookups \in Seq(X), NEW ss, NEW additional,
         NEW assertions, NEW ms, ms = AccountsForExecute(message, table, additional),
         NEW sync, sync = ExecuteSync(message, table, ss, additional, assertions)
  PROVE  /\ sync.wire = Serialized(message)
         /\ sync.lookups = SyncLookups(message.lookups, ms)
         /\ sync.signers = BuildSignerAccounts(ss, Packed(ms), assertions).signers
         /\ sync.remaining = BuildSignerAccounts(ss, Packed(ms), assertions).packed
<1> DEFINE built == BuildSignerAccounts(ss, Packed(ms), assertions)
           packed == [wire |-> Serialized(message),
                      lookups |-> Mapped(message.lookups, LAMBDA l :
                        [lookup_table_address_index |-> IndexOf(AddressesIn(ms), l.table),
                         writable |-> l.writable, readonly |-> l.readonly]),
                      signers |-> built.signers,
                      assertions |-> built.assertions,
                      remaining |-> built.packed]
<1>1. sync = packed
  <2> DEFINE With(listed) ==
               [wire |-> Serialized(message),
                lookups |-> Mapped(message.lookups, LAMBDA l :
                  [lookup_table_address_index |-> IndexOf(AddressesIn(listed), l.table),
                   writable |-> l.writable, readonly |-> l.readonly]),
                signers |-> BuildSignerAccounts(ss, Packed(listed), assertions).signers,
                assertions |-> BuildSignerAccounts(ss, Packed(listed), assertions).assertions,
                remaining |-> BuildSignerAccounts(ss, Packed(listed), assertions).packed]
  <2>1. sync = With(AccountsForExecute(message, table, additional))
    BY Zenon DEF ExecuteSync
  <2>2. With(ms) = packed
    BY Zenon
  <2> HIDE DEF With
  <2> QED BY <2>1, <2>2
<1>2. DOMAIN message.lookups = 1..Len(message.lookups)
  OBVIOUS
<1> HIDE DEF built
<1>3. Mapped(message.lookups, LAMBDA l :
        [lookup_table_address_index |-> IndexOf(AddressesIn(ms), l.table),
         writable |-> l.writable, readonly |-> l.readonly]) = SyncLookups(message.lookups, ms)
  BY <1>2, Zenon DEF Mapped, SyncLookups
<1>4. /\ packed.wire = Serialized(message) /\ packed.signers = built.signers
      /\ packed.remaining = built.packed
      /\ packed.lookups = SyncLookups(message.lookups, ms)
  BY <1>3
<1> HIDE DEF packed
<1>5. /\ sync.wire = Serialized(message) /\ sync.signers = built.signers
      /\ sync.remaining = built.packed
      /\ sync.lookups = SyncLookups(message.lookups, ms)
  BY <1>1, <1>4
<1> QED BY <1>5 DEF built

\* A packed message and what it is made of; and what the program makes of it.
PackedSync(D, U, table, message, m, ms, r, sync) ==
  /\ table \in [U -> Seq(D)] /\ m = Serialized(message)
  /\ NamedOnce(D, m, table) /\ Listing(D, m, table, ms)
  /\ Len(FlattenSeq(LoadedLists(m.address_table_lookups, table))) \in Nat
  /\ r \in Seq(Metas(D)) /\ Packs(ms, r)
  /\ sync.wire = m /\ sync.remaining = r
  /\ sync.lookups = SyncLookups(m.address_table_lookups, ms)

ConvertsRight(m, r, sync) ==
  /\ Convertible(sync) <=>
        Len(m.address_table_lookups) + Len(m.account_keys) <= Len(r)
  /\ ConvertedMessage(sync) = Resolved(m, r)

LEMMA SyncConverts ==
  ASSUME NEW D, NEW U, NEW table, NEW message, NEW m, NEW ms, NEW r, NEW sync,
         PackedSync(D, U, table, message, m, ms, r, sync)
  PROVE  ConvertsRight(m, r, sync)
<1>0. /\ table \in [U -> Seq(D)] /\ m = Serialized(message)
      /\ NamedOnce(D, m, table) /\ Listing(D, m, table, ms)
      /\ Len(FlattenSeq(LoadedLists(m.address_table_lookups, table))) \in Nat
      /\ r \in Seq(Metas(D)) /\ Packs(ms, r)
      /\ sync.wire = m /\ sync.remaining = r
      /\ sync.lookups = SyncLookups(m.address_table_lookups, ms)
  BY Zenon DEF PackedSync
<1> USE <1>0
<1> DEFINE ls == m.address_table_lookups
           n == Len(ls)
           xs == sync.lookups
<1>1. ls \in Seq(LookupsIn(table)) /\ n \in Nat
  BY DEF NamedOnce
<1>2. /\ n <= Len(r) /\ Len(r) \in Nat
      /\ \A i \in 1..n : /\ r[i].address = ls[i].table
                         /\ IndexOf(AddressesIn(ms), ls[i].table) = i - 1
  BY TablesFirst
<1>3. /\ xs = [i \in 1..n |-> xs[i]] /\ DOMAIN xs = 1..n
      /\ \A i \in 1..n : /\ xs[i].lookup_table_address_index = i - 1
                         /\ xs[i].writable = ls[i].writable /\ xs[i].readonly = ls[i].readonly
  BY <1>2 DEF SyncLookups
<1>4. \A i \in 1..n : ls[i] = [table |-> ls[i].table, writable |-> ls[i].writable,
                               readonly |-> ls[i].readonly]
  <2>1. \A i \in 1..n : ls[i] \in LookupsIn(table)
    BY <1>1
  <2> HIDE DEF ls, n
  <2> QED BY <2>1 DEF LookupsIn
<1> HIDE DEF ls, n, xs
<1>5. Len(xs) = n
  BY <1>1, <1>3
<1>6. \A l \in ToSet(xs) : l.lookup_table_address_index \in 0..(Len(r) - 1)
  <2>1. ASSUME NEW i \in 1..n PROVE xs[i].lookup_table_address_index \in 0..(Len(r) - 1)
    BY <1>1, <1>2, <1>3
  <2> QED BY <1>3, <2>1 DEF ToSet
<1>7. Convertible(sync) <=> n + Len(m.account_keys) <= Len(r)
  BY <1>5, <1>6 DEF Convertible, xs
<1>8. Mapped(xs, LAMBDA l : [table |-> Nth(r, l.lookup_table_address_index).address,
                             writable |-> l.writable, readonly |-> l.readonly]) = ls
  <2> DEFINE ys == [i \in 1..n |-> [table |-> Nth(r, xs[i].lookup_table_address_index).address,
                                    writable |-> xs[i].writable, readonly |-> xs[i].readonly]]
  <2>1. Mapped(xs, LAMBDA l : [table |-> Nth(r, l.lookup_table_address_index).address,
                               writable |-> l.writable, readonly |-> l.readonly]) = ys
    BY <1>3, Zenon DEF Mapped
  <2>2. ASSUME NEW i \in 1..n
        PROVE  [table |-> Nth(r, xs[i].lookup_table_address_index).address,
                writable |-> xs[i].writable, readonly |-> xs[i].readonly] = ls[i]
    <3>1. Nth(r, xs[i].lookup_table_address_index) = r[i]
      BY <1>1, <1>3 DEF Nth
    <3>2. ls[i] = [table |-> ls[i].table, writable |-> ls[i].writable, readonly |-> ls[i].readonly]
      BY <1>4
    <3>3. /\ Nth(r, xs[i].lookup_table_address_index).address = ls[i].table
          /\ xs[i].writable = ls[i].writable /\ xs[i].readonly = ls[i].readonly
      BY <1>2, <1>3, <3>1
    <3> QED BY <3>2, <3>3, Zenon
  <2>3. ls = [i \in 1..n |-> ls[i]]
    BY <1>1 DEF n
  <2>4. ys = [i \in 1..n |-> ls[i]]
    BY <2>2
  <2> QED BY <2>1, <2>3, <2>4
<1>9. ConvertedMessage(sync)
        = [m EXCEPT !.account_keys =
                      AddressesIn(SubSeq(r, n + 1, n + Len(m.account_keys))),
                    !.address_table_lookups = ls]
  <2> DEFINE ys == Mapped(xs, LAMBDA l :
                     [table |-> Nth(r, l.lookup_table_address_index).address,
                      writable |-> l.writable, readonly |-> l.readonly])
  <2>1. ConvertedMessage(sync)
          = [m EXCEPT !.account_keys =
                        AddressesIn(SubSeq(r, Len(xs) + 1, Len(xs) + Len(m.account_keys))),
                      !.address_table_lookups = ys]
    <3> DEFINE With(w, q, x) ==
                 [w EXCEPT !.account_keys =
                             AddressesIn(SubSeq(q, Len(x) + 1, Len(x) + Len(w.account_keys))),
                           !.address_table_lookups = Mapped(x, LAMBDA l :
                     [table |-> Nth(q, l.lookup_table_address_index).address,
                      writable |-> l.writable, readonly |-> l.readonly])]
    <3>1. ConvertedMessage(sync) = With(sync.wire, sync.remaining, sync.lookups)
      BY Zenon DEF ConvertedMessage
    <3>2. With(sync.wire, sync.remaining, sync.lookups) = With(m, r, xs)
      <4> HIDE DEF With
      <4> QED BY DEF xs
    <3> QED BY <3>1, <3>2, Zenon
  <2>2. ys = ls
    BY <1>8
  <2> HIDE DEF ys
  <2> QED BY <1>5, <2>1, <2>2, Zenon
<1>10. ConvertedMessage(sync) = Resolved(m, r)
  <2> DEFINE a == AddressesIn(SubSeq(r, n + 1, n + Len(m.account_keys)))
  <2>1. Resolved(m, r) = [m EXCEPT !.account_keys = a]
    BY DEF Resolved, n, ls
  <2>2. ConvertedMessage(sync) = [m EXCEPT !.account_keys = a, !.address_table_lookups = ls]
    BY <1>9
  <2> HIDE DEF a
  <2>3. [m EXCEPT !.account_keys = a, !.address_table_lookups = ls] = [m EXCEPT !.account_keys = a]
    BY DEF Serialized, ls
  <2> QED BY <2>1, <2>2, <2>3
<1> QED BY <1>7, <1>10 DEF n, ls, ConvertsRight

LEMMA ResolvedSame ==
  ASSUME NEW D, NEW table, NEW message, NEW m, m = Serialized(message),
         m.account_keys \in Seq(D), Len(m.address_table_lookups) \in Nat,
         Len(FlattenSeq(LoadedLists(m.address_table_lookups, table))) \in Nat,
         NEW r, Listing(D, m, table, r)
  PROVE  /\ Resolved(m, r) = m
         /\ Len(m.address_table_lookups) + Len(m.account_keys) <= Len(r)
<1> DEFINE n == Len(m.address_table_lookups)
           k == Len(m.account_keys)
           v == Len(FlattenSeq(LoadedLists(m.address_table_lookups, table)))
           p == SubSeq(r, n + 1, n + k)
<1>1. /\ r \in Seq(Metas(D)) /\ Len(r) >= n + k + v
      /\ \A i \in 1..k : r[n + i].address = m.account_keys[i]
  BY DEF Listing
<1>2. n \in Nat /\ k \in Nat /\ v \in Nat /\ Len(r) \in Nat
  BY <1>1
<1> HIDE DEF n, k, v
<1>3. n + k <= Len(r) /\ \A i \in 1..k : n + i \in 1..Len(r)
  BY <1>1, <1>2
<1>4. p \in Seq(Metas(D)) /\ Len(p) = k /\ \A i \in 1..k : p[i] = r[n + i]
  <2>1. r \in Seq(Metas(D)) /\ n \in Nat /\ k \in Nat /\ \A i \in 1..k : n + i \in 1..Len(r)
    BY <1>1, <1>2, <1>3
  <2> QED BY ONLY <2>1, PartOf DEF p
<1> HIDE DEF p
<1>5. AddressesIn(p) \in Seq(D) /\ Len(AddressesIn(p)) = k
      /\ \A i \in 1..k : AddressesIn(p)[i] = p[i].address
  BY <1>4, AddressesType
<1>6. AddressesIn(p) = m.account_keys
  <2>1. \A i \in 1..k : AddressesIn(p)[i] = m.account_keys[i]
    BY <1>1, <1>4, <1>5
  <2> QED BY <1>5, <2>1, SameSequence DEF k
<1>7. Resolved(m, r) = [m EXCEPT !.account_keys = m.account_keys]
  BY <1>6 DEF Resolved, p, n, k
<1>8. Resolved(m, r) = m
  BY <1>7 DEF Serialized
<1> QED BY <1>3, <1>8 DEF n, k

\* The last account that lookups load, where the program and the client find it.
LastLoaded(D, ls, table, q) ==
  LET n     == Len(ls)
      named == ls[n].writable \o ls[n].readonly
      f     == FlattenSeq(LoadedLists(ls, table))
  IN  /\ q = Len(named) /\ q \in Nat /\ q \in 1..Len(named)
      /\ NumLoaded(SubSeq(ls, 1, n - 1)) \in Nat
      /\ NumLoaded(SubSeq(ls, 1, n - 1)) + q = Len(f)
      /\ Nth(table[ls[n].table], named[q]) = f[Len(f)].address

LEMMA EndOfBoth ==
  ASSUME NEW D, NEW s \in Seq(D), NEW t \in Seq(D), s # << >> \/ t # << >>
  PROVE  /\ Len(s \o t) \in Nat /\ Len(s \o t) \in 1..Len(s \o t)
         /\ \/ t = << >> /\ Len(s \o t) = Len(s) /\ Len(s) \in 1..Len(s)
               /\ (s \o t)[Len(s \o t)] = s[Len(s)]
            \/ t # << >> /\ Len(s \o t) = Len(s) + Len(t) /\ Len(t) \in 1..Len(t)
               /\ (s \o t)[Len(s \o t)] = t[Len(t)]
<1>1. /\ Len(s \o t) = Len(s) + Len(t) /\ Len(s) \in Nat /\ Len(t) \in Nat
      /\ \A i \in 1..Len(s) : (s \o t)[i] = s[i]
      /\ \A i \in 1..Len(t) : (s \o t)[Len(s) + i] = t[i]
  BY Concatenated
<1>2. CASE t = << >>
  <2>1. Len(t) = 0 /\ Len(s) # 0
    BY <1>2
  <2> QED BY <1>1, <1>2, <2>1
<1>3. CASE t # << >>
  <2>1. Len(t) # 0
    BY <1>3
  <2>2. Len(t) \in 1..Len(t)
    BY <1>1, <2>1
  <2> QED BY <1>1, <1>3, <2>2
<1> QED BY <1>2, <1>3

LEMMA LastIsLoaded ==
  ASSUME NEW D, NEW U, NEW table \in [U -> Seq(D)], NEW ls \in Seq(LookupsIn(table)),
         NEW n \in Nat, Len(ls) = n + 1,
         ls[n + 1].writable # << >> \/ ls[n + 1].readonly # << >>
  PROVE  LastLoaded(D, ls, table, Len(ls[n + 1].writable \o ls[n + 1].readonly))
<1> DEFINE l == ls[n + 1]
           front == SubSeq(ls, 1, n)
           list == table[l.table]
           w == Entries(list, l.writable)
           x == Entries(list, l.readonly)
           named == l.writable \o l.readonly
           q == Len(named)
           f == FlattenSeq(LoadedLists(ls, table))
           g == LoadedAddresses(ls, table)
           h == LoadedAddresses(front, table)
<1>1. /\ front \in Seq(LookupsIn(table)) /\ l \in LookupsIn(table)
      /\ Append(front, l) = ls
  BY FrontAndLast
<1> HIDE DEF l, front
<1>2. h \in Seq(D) /\ g = h \o (w \o x)
  <2>1. /\ LoadedAddresses(front, table) \in Seq(D)
        /\ LoadedAddresses(Append(front, l), table)
              = LoadedAddresses(front, table)
                \o (Entries(table[l.table], l.writable) \o Entries(table[l.table], l.readonly))
    BY <1>1, LoadedTail
  <2> QED BY <1>1, <2>1
<1>3. /\ list \in Seq(D) /\ l.writable \in Seq(Nat) /\ l.readonly \in Seq(Nat)
      /\ \A i \in 1..Len(l.writable) : l.writable[i] < Len(list)
      /\ \A i \in 1..Len(l.readonly) : l.readonly[i] < Len(list)
  BY <1>1, LookupType
<1> HIDE DEF list
<1>4. /\ w \in Seq(D) /\ Len(w) = Len(l.writable) /\ Len(l.writable) \in Nat
      /\ \A i \in 1..Len(l.writable) : w[i] = Nth(list, l.writable[i])
  BY <1>3, EntriesType
<1>5. /\ x \in Seq(D) /\ Len(x) = Len(l.readonly) /\ Len(l.readonly) \in Nat
      /\ \A i \in 1..Len(l.readonly) : x[i] = Nth(list, l.readonly[i])
  BY <1>3, EntriesType
<1> HIDE DEF w, x
<1>6. l.writable # << >> \/ l.readonly # << >>
  BY DEF l
<1>7. /\ Len(h) = NumLoaded(front) /\ NumLoaded(front) \in Nat
      /\ Len(g) = Len(f) /\ Len(f) \in Nat
      /\ \A i \in 1..Len(f) : g[i] = f[i].address
  <2>1. ASSUME NEW ks \in Seq(LookupsIn(table))
        PROVE  /\ FlattenSeq(LoadedLists(ks, table)) \in Seq(Metas(D))
               /\ NumLoaded(ks) = Len(FlattenSeq(LoadedLists(ks, table)))
    <3>1. Len(ks) \in Nat /\ IsList(LoadedLists(ks, table), Len(ks), Seq(Metas(D)))
      BY LoadedListsType
    <3>2. LoadedLists(ks, table) \in Seq(Seq(Metas(D)))
      BY <3>1, ListType
    <3> QED BY <3>2, FlattenKeeps, LoadedCounts
  <2>2. ASSUME NEW ks \in Seq(LookupsIn(table))
        PROVE  /\ Len(LoadedAddresses(ks, table)) = Len(FlattenSeq(LoadedLists(ks, table)))
               /\ Len(FlattenSeq(LoadedLists(ks, table))) \in Nat
               /\ \A i \in 1..Len(FlattenSeq(LoadedLists(ks, table))) :
                    LoadedAddresses(ks, table)[i] = FlattenSeq(LoadedLists(ks, table))[i].address
    <3> DEFINE s == FlattenSeq(LoadedLists(ks, table))
    <3>1. s \in Seq(Metas(D))
      BY <2>1
    <3> HIDE DEF s
    <3>2. /\ Len(AddressesIn(s)) = Len(s) /\ Len(s) \in Nat
          /\ \A i \in 1..Len(s) : AddressesIn(s)[i] = s[i].address
      BY <3>1, AddressesType
    <3> QED BY <3>2 DEF LoadedAddresses, s
  <2>3. Len(h) = NumLoaded(front) /\ NumLoaded(front) \in Nat
    BY <1>1, <2>1, <2>2
  <2>4. /\ Len(g) = Len(f) /\ Len(f) \in Nat
        /\ \A i \in 1..Len(f) : g[i] = f[i].address
    BY <2>2
  <2> QED BY <2>3, <2>4
<1> HIDE DEF f, g, h
<1>8. /\ q \in Nat /\ q \in 1..q /\ q = Len(w) + Len(x)
      /\ \/ l.readonly = << >> /\ named[q] = l.writable[Len(w)] /\ Len(w) \in 1..Len(w)
         \/ l.readonly # << >> /\ named[q] = l.readonly[Len(x)] /\ Len(x) \in 1..Len(x)
  <2>1. /\ Len(named) \in Nat /\ Len(named) \in 1..Len(named)
        /\ \/ l.readonly = << >> /\ Len(named) = Len(l.writable)
              /\ Len(l.writable) \in 1..Len(l.writable)
              /\ named[Len(named)] = l.writable[Len(l.writable)]
           \/ l.readonly # << >> /\ Len(named) = Len(l.writable) + Len(l.readonly)
              /\ Len(l.readonly) \in 1..Len(l.readonly)
              /\ named[Len(named)] = l.readonly[Len(l.readonly)]
    <3> DEFINE s == l.writable
               t == l.readonly
    <3>1. s \in Seq(Nat) /\ t \in Seq(Nat) /\ (s # << >> \/ t # << >>)
      BY <1>3, <1>6
    <3> HIDE DEF s, t
    <3>2. /\ Len(s \o t) \in Nat /\ Len(s \o t) \in 1..Len(s \o t)
          /\ \/ t = << >> /\ Len(s \o t) = Len(s) /\ Len(s) \in 1..Len(s)
                /\ (s \o t)[Len(s \o t)] = s[Len(s)]
             \/ t # << >> /\ Len(s \o t) = Len(s) + Len(t) /\ Len(t) \in 1..Len(t)
                /\ (s \o t)[Len(s \o t)] = t[Len(t)]
      BY ONLY <3>1, EndOfBoth
    <3> QED BY <3>2 DEF s, t
  <2>2. Len(named) = Len(w) + Len(x)
    <3>1. /\ Len(named) = Len(l.writable) + Len(l.readonly)
      BY <1>3, Concatenated
    <3> QED BY <1>4, <1>5, <3>1
  <2> HIDE DEF named
  <2>3. \/ l.readonly = << >> /\ named[q] = l.writable[Len(w)] /\ Len(w) \in 1..Len(w)
        \/ l.readonly # << >> /\ named[q] = l.readonly[Len(x)] /\ Len(x) \in 1..Len(x)
    <3>1. CASE l.readonly = << >>
      BY <1>4, <2>1, <3>1
    <3>2. CASE l.readonly # << >>
      BY <1>5, <2>1, <3>2
    <3> QED BY <3>1, <3>2
  <2> QED BY <2>1, <2>2, <2>3
<1>9. /\ w \o x \in Seq(D) /\ Len(w \o x) = q
      /\ (w \o x)[q] = Nth(list, named[q])
  <2>1. /\ w \o x \in Seq(D) /\ Len(w \o x) = Len(w) + Len(x)
        /\ \A i \in 1..Len(w) : (w \o x)[i] = w[i]
        /\ \A i \in 1..Len(x) : (w \o x)[Len(w) + i] = x[i]
    <3>1. w \in Seq(D) /\ x \in Seq(D)
      BY <1>4, <1>5
    <3> QED BY ONLY <3>1, Concatenated
  <2> HIDE DEF named, q
  <2>2. CASE l.readonly = << >> /\ named[q] = l.writable[Len(w)] /\ Len(w) \in 1..Len(w)
    <3>1. Len(x) = 0 /\ q = Len(w)
      BY <1>4, <1>5, <1>8, <2>2
    <3> QED BY <1>4, <2>1, <2>2, <3>1
  <2>3. CASE l.readonly # << >> /\ named[q] = l.readonly[Len(x)] /\ Len(x) \in 1..Len(x)
    BY <1>5, <1>8, <2>1, <2>3
  <2> QED BY <1>8, <2>1, <2>2, <2>3
<1> HIDE DEF q
<1>10. Len(f) = Len(h) + q /\ g[Len(f)] = Nth(list, named[q])
  <2> DEFINE wx == w \o x
  <2> HIDE DEF wx, named
  <2>1. wx \in Seq(D) /\ Len(wx) = q /\ wx[q] = Nth(list, named[q]) /\ g = h \o wx
    BY <1>2, <1>9 DEF wx
  <2>2. Len(h \o wx) = Len(h) + Len(wx) /\ \A i \in 1..Len(wx) : (h \o wx)[Len(h) + i] = wx[i]
    <3>1. h \in Seq(D) /\ wx \in Seq(D)
      BY <1>2, <2>1
    <3> QED BY ONLY <3>1, Concatenated
  <2> QED BY <1>7, <1>8, <2>1, <2>2
<1>11. Len(f) \in 1..Len(f)
  BY <1>7, <1>8, <1>10
<1>12. f[Len(f)].address = Nth(list, named[q])
  BY <1>7, <1>10, <1>11
<1>13. (n + 1) - 1 = n
  OBVIOUS
<1> QED BY <1>7, <1>8, <1>10, <1>12, <1>13 DEF LastLoaded, f, l, front, list, q

\* The accounts that the program finds where a lookup loads them.
LoadsRight(m, infos, table) ==
  \A l \in DOMAIN m.address_table_lookups :
    LET lookup == m.address_table_lookups[l]
        named  == lookup.writable \o lookup.readonly
    IN  \A i \in DOMAIN named :
          infos[LoadedFrom(m, l) + i].address = Nth(table[lookup.table], named[i])

LEMMA ValidatedLoads ==
  ASSUME NEW m, NEW infos, NEW tableInfos, NEW table, Validated(m, infos, tableInfos, table)
  PROVE  LoadsRight(m, infos, table)
BY Zenon DEF Validated, LoadsRight

\* An account that has moved forward moves what is loaded, and the program refuses.
LEMMA MovedIsRefused ==
  ASSUME NEW D, NEW U, NEW table \in [U -> Seq(D)], NEW message, NEW m, m = Serialized(message),
         NamedOnce(D, m, table), NEW ms, Listing(D, m, table, ms),
         NEW r \in Seq(Metas(D)), Packs(ms, r), ~DistinctTo(ms, Places(m, table)),
         m.address_table_lookups # << >>,
         Len(m.address_table_lookups) + Len(m.account_keys) <= Len(r), NEW protected
  PROVE  Executed(Resolved(m, r), r, table, protected) = Refused
<1> DEFINE ls == m.address_table_lookups
           n == Len(ls)
           k == Len(m.account_keys)
           f == FlattenSeq(LoadedLists(ls, table))
           v == Len(f)
           x == Resolved(m, r)
           c == k + v
           infos == SubSeq(Infos(r), n + 1, n + c)
           named == ls[n].writable \o ls[n].readonly
           q == Len(named)
           b == NumLoaded(SubSeq(ls, 1, n - 1))
<1>1. /\ m.account_keys \in Seq(D) /\ ls \in Seq(LookupsIn(table))
      /\ \A i \in 1..n : ls[i].writable # << >> \/ ls[i].readonly # << >>
  BY DEF NamedOnce
<1>2. n \in Nat /\ n # 0 /\ k \in Nat /\ Len(r) \in Nat /\ n + k <= Len(r)
  <2>1. ls # << >>
    OBVIOUS
  <2>2. n + k <= Len(r)
    OBVIOUS
  <2>4. k \in Nat
    BY <1>1
  <2> HIDE DEF ls, k
  <2>3. n \in Nat /\ n # 0
    BY <1>1, <2>1
  <2> QED BY <2>2, <2>3, <2>4
<1>3. LastLoaded(D, ls, table, q)
  <2> DEFINE p == n - 1
  <2>1. p \in Nat /\ n = p + 1
    BY <1>2
  <2>2. n \in 1..n
    BY <1>2
  <2>3. ls[n].writable # << >> \/ ls[n].readonly # << >>
    BY <1>1, <2>2
  <2> HIDE DEF p, ls, n
  <2>4. Len(ls) = p + 1 /\ (ls[p + 1].writable # << >> \/ ls[p + 1].readonly # << >>)
    BY <2>1, <2>3 DEF n
  <2>5. LastLoaded(D, ls, table, Len(ls[p + 1].writable \o ls[p + 1].readonly))
    BY <1>1, <2>1, <2>4, LastIsLoaded
  <2> QED BY <2>1, <2>5
<1>4. /\ q \in Nat /\ q \in 1..q /\ b \in Nat /\ b + q = v
      /\ Nth(table[ls[n].table], named[q]) = f[v].address
  BY <1>3 DEF LastLoaded
<1>5. NumLoaded(ls) = v /\ v \in Nat
  BY <1>1, LoadedCounts
<1>6. /\ x.address_table_lookups = ls
      /\ x.account_keys = AddressesIn(SubSeq(r, n + 1, n + k))
  BY DEF Resolved, Serialized
<1>7. /\ Len(ms) >= n + k + v /\ ms \in Seq(Metas(D))
      /\ \A i \in 1..v : ms[n + k + i].address = f[i].address
  BY DEF Listing
<1>8. ~DistinctTo(ms, n + k + v)
  BY DEF Places
<1> HIDE DEF x, f, v, b, q, named, ls, n, k
<1>9. Len(x.account_keys) = k
  <2> DEFINE p == SubSeq(r, n + 1, n + k)
  <2>1. \A i \in 1..k : n + i \in 1..Len(r)
    BY <1>2
  <2>2. p \in Seq(Metas(D)) /\ Len(p) = k
    BY <1>2, <2>1, PartOf
  <2> HIDE DEF p
  <2>3. Len(AddressesIn(p)) = k
    BY <2>2, AddressesType
  <2> QED BY <1>6, <2>3 DEF p
<1>10. NumAllAccountKeys(x) = c
  BY <1>5, <1>6, <1>9 DEF NumAllAccountKeys
<1>11. LoadedFrom(x, n) = k + b
  BY <1>6, <1>9 DEF LoadedFrom, b
<1>12. ASSUME ~(n + c > Len(r)), Validated(x, infos, SubSeq(r, 1, n), table)
       PROVE  FALSE
  <2>1. infos[k + v].address = f[v].address
    <3>1. n \in DOMAIN ls
      BY <1>1, <1>2 DEF n
    <3>2. q \in DOMAIN named
      <4>1. named \in Seq(Nat)
        <5>1. ls[n] \in LookupsIn(table)
          BY <1>1, <3>1
        <5>2. ls[n].writable \in Seq(Nat) /\ ls[n].readonly \in Seq(Nat)
          BY <5>1, LookupType
        <5> QED BY <5>2, Concatenated DEF named
      <4> QED BY <1>4, <4>1 DEF q
    <3>3. infos[LoadedFrom(x, n) + q].address = Nth(table[ls[n].table], named[q])
      <4> HIDE DEF infos
      <4> DEFINE ti == SubSeq(r, 1, n)
      <4>2. LoadsRight(x, infos, table)
        <5>1. Validated(x, infos, ti, table)
          BY <1>12
        <5> HIDE DEF ti
        <5> QED BY <5>1, ValidatedLoads
      <4>3. /\ ls[n] = x.address_table_lookups[n] /\ n \in DOMAIN x.address_table_lookups
            /\ named = x.address_table_lookups[n].writable \o x.address_table_lookups[n].readonly
        BY <1>6, <3>1 DEF named
      <4> QED BY <3>2, <4>2, <4>3, Zenon DEF LoadsRight
    <3>4. LoadedFrom(x, n) + q = k + v
      BY <1>2, <1>4, <1>5, <1>11
    <3> QED BY <1>4, <3>3, <3>4
  <2>2. k + v \in 1..c /\ v \in 1..v /\ n + (k + v) = n + k + v /\ n + k + v \in 1..Len(r)
        /\ c \in Nat
    BY <1>2, <1>4, <1>5, <1>12
  <2>3. infos[k + v].address = r[n + k + v].address
    <3>1. /\ Infos(r) \in Seq(Metas(D)) /\ Len(Infos(r)) = Len(r)
          /\ \A i \in 1..Len(r) : Infos(r)[i].address = r[i].address
      BY InfosKeep DEF KeepsRights
    <3>2. \A i \in 1..c : n + i \in 1..Len(Infos(r))
      BY <1>2, <1>12, <2>2, <3>1
    <3>3. \A i \in 1..c : infos[i] = Infos(r)[n + i]
      <4>1. Infos(r) \in Seq(Metas(D)) /\ n \in Nat /\ c \in Nat
            /\ \A i \in 1..c : n + i \in 1..Len(Infos(r))
        BY <1>2, <2>2, <3>1, <3>2
      <4> QED BY ONLY <4>1, PartOf DEF infos
    <3> HIDE DEF infos, c
    <3> QED BY <2>2, <3>1, <3>3
  <2>4. r[n + k + v].address = ms[n + k + v].address
    BY <1>7, <2>1, <2>2, <2>3
  <2> DEFINE p == n + k + v
  <2>5. p \in 1..Len(ms) /\ p \in 1..Len(r)
    <3>1. Len(ms) \in Nat
      BY <1>7
    <3> QED BY <1>7, <2>2, <3>1
  <2>6. r[p].address = ms[p].address /\ ~DistinctTo(ms, p)
    BY <1>8, <2>4
  <2> HIDE DEF p
  <2>7. PICK j \in 1..Len(r) :
          j <= p /\ r[j].address = ms[p].address /\ (j = p => DistinctTo(ms, p))
    BY <2>5 DEF Packs
  <2>8. j = p
    BY <2>5, <2>6, <2>7 DEF Packs, DistinctTo
  <2> QED BY <2>6, <2>7, <2>8
<1>13. Len(x.address_table_lookups) = n
  BY <1>6 DEF n
<1>14. SubSeq(Infos(r), n + 1, n + NumAllAccountKeys(x)) = infos
  BY <1>10
<1> HIDE DEF infos
<1>15. \/ ~Valid(x) \/ n + NumAllAccountKeys(x) > Len(r)
       \/ ~Validated(x, infos, SubSeq(r, 1, n), table)
  BY <1>10, <1>12
<1>16. Executed(x, r, table, protected) = Refused
  BY <1>13, <1>14, <1>15, Zenon DEF Executed
<1> QED BY <1>16 DEF x

\* What is loaded is what the tables took.
LEMMA LoadedAll ==
  ASSUME NEW D, NEW U, NEW table \in [U -> Seq(D)], NEW ls \in Seq(LookupsIn(table))
  PROVE  ToSet(LoadedAddresses(ls, table))
           = ToSet(FlattenSeq(WritableLoaded(ls, table)))
             \cup ToSet(FlattenSeq(ReadonlyLoaded(ls, table)))
<1> DEFINE X == LookupsIn(table)
           Wr(s) == FlattenSeq(WritableLoaded(s, table))
           Ro(s) == FlattenSeq(ReadonlyLoaded(s, table))
           A0(s) == LoadedAddresses(s, table)
           Holds(s) == ToSet(A0(s)) = ToSet(Wr(s)) \cup ToSet(Ro(s))
           T == {s \in Seq(X) : Holds(s)}
<1>1. << >> \in T
  <2>1. WritableLoaded(<< >>, table) = << >> /\ ReadonlyLoaded(<< >>, table) = << >>
    BY DEF WritableLoaded, ReadonlyLoaded
  <2>2. Wr(<< >>) = << >> /\ Ro(<< >>) = << >> /\ A0(<< >>) = << >>
    BY <2>1, FlattenAppend, NothingLoaded
  <2> QED BY <2>2, EmptySequence
<1>2. ASSUME NEW s \in Seq(X), NEW l \in X, s \in T PROVE Append(s, l) \in T
  <2> DEFINE t == Append(s, l)
             w == Entries(table[l.table], l.writable)
             r == Entries(table[l.table], l.readonly)
  <2>1. w \in Seq(D) /\ r \in Seq(D)
    BY LoadedType DEF LoadedInOrder
  <2>2. A0(s) \in Seq(D) /\ A0(t) = A0(s) \o (w \o r)
    BY LoadedTail
  <2>3. /\ WritableLoaded(t, table) = Append(WritableLoaded(s, table), w)
        /\ ReadonlyLoaded(t, table) = Append(ReadonlyLoaded(s, table), r)
    BY LoadedAppend
  <2>4. /\ WritableLoaded(s, table) \in Seq(Seq(D)) /\ ReadonlyLoaded(s, table) \in Seq(Seq(D))
    <3>1. /\ Len(s) \in Nat
          /\ IsList(WritableLoaded(s, table), Len(s), Seq(D))
          /\ IsList(ReadonlyLoaded(s, table), Len(s), Seq(D))
      BY LoadedListsType
    <3> QED BY <3>1, ListType
  <2>5. Wr(s) \in Seq(D) /\ Ro(s) \in Seq(D)
    BY <2>4, FlattenKeeps
  <2>6. \A ss \in Seq(Seq(D)), u \in Seq(D) : FlattenSeq(Append(ss, u)) = FlattenSeq(ss) \o u
    BY FlattenAppend
  <2> HIDE DEF w, r, t, A0
  <2>7. Wr(t) = Wr(s) \o w /\ Ro(t) = Ro(s) \o r
    BY <2>1, <2>3, <2>4, <2>6
  <2>8. Holds(s)
    BY <1>2
  <2> HIDE DEF Wr, Ro
  <2>9. /\ w \o r \in Seq(D) /\ ToSet(w \o r) = ToSet(w) \cup ToSet(r)
        /\ ToSet(Wr(s) \o w) = ToSet(Wr(s)) \cup ToSet(w)
        /\ ToSet(Ro(s) \o r) = ToSet(Ro(s)) \cup ToSet(r)
    BY <2>1, <2>5, Concatenated
  <2>10. ToSet(A0(s) \o (w \o r)) = ToSet(A0(s)) \cup ToSet(w \o r)
    <3> DEFINE wr == w \o r
    <3>1. A0(s) \in Seq(D) /\ wr \in Seq(D)
      BY <2>2, <2>9
    <3> HIDE DEF wr
    <3>2. ToSet(A0(s) \o wr) = ToSet(A0(s)) \cup ToSet(wr)
      BY ONLY <3>1, Concatenated
    <3> QED BY <3>2 DEF wr
  <2>11. Holds(t)
    BY <2>2, <2>7, <2>8, <2>9, <2>10
  <2>12. t \in Seq(X)
    BY DEF t
  <2> QED BY <2>11, <2>12 DEF t
<1> HIDE DEF Holds, X
<1>3. ls \in T
  <2> HIDE DEF T
  <2>1. ls \in Seq(X)
    BY DEF X
  <2> QED BY <1>1, <1>2, <2>1, SeqInduction
<1> QED BY <1>3 DEF Holds

\* A packed instruction: the message m that is compiled of ixs, the accounts ms that
\* are listed for it and what is built of its members.
PackedOf(D, Y, table, ixs, e, m, ms, built) ==
  /\ Compiles(D, table, ixs, e) /\ m = Sent(ixs, e)
  /\ NamedOnce(D, m, table) /\ Listing(D, m, table, ms)
  /\ m.address_table_lookups = e.lookups
  /\ Named(m, table) = ToSet(KeysOf(ixs))
  /\ ToSet(LoadedAddresses(m.address_table_lookups, table)) \cap SignersOf(ixs) = {}
  /\ Len(FlattenSeq(LoadedLists(m.address_table_lookups, table))) \in Nat
  /\ \A i \in 1..Len(ms) : i \in 1..Places(m, table) \/ ms[i].signer
  /\ MembersKeep(D, Y, ms, built)

\* Instructions, tables, members and accounts that the client packs.
Packing(D, U, table, ixs, ts, additional, Y, ss, assertions, message, ms) ==
  /\ Vault \in D /\ U \subseteq D /\ table \in [U -> Seq(D)]
  /\ ixs \in Seq(Writing(D)) /\ ts \in Seq(U) /\ additional \in Seq(D)
  /\ (\A y \in Y : IsMember(y, D)) /\ ss \in Seq(Y) /\ assertions \in Seq(Y)
  /\ message = Compiled(ixs, ts, table) /\ ms = AccountsForExecute(message, table, additional)

PackingRight(D, table, ixs, ts, Y, ss, assertions, message, ms) ==
  /\ PackedOf(D, Y, table, ixs, ExtractedTables(ixs, ts, table), Serialized(message), ms,
              BuildSignerAccounts(ss, Packed(ms), assertions))
  /\ message.lookups = Serialized(message).address_table_lookups
  /\ ms \in Seq(Metas(D))

LEMMA PackingSets ==
  ASSUME NEW D, NEW U, NEW table, NEW ixs, NEW ts, NEW additional, NEW Y, NEW ss,
         NEW assertions, NEW message, NEW ms,
         Packing(D, U, table, ixs, ts, additional, Y, ss, assertions, message, ms)
  PROVE  PackingRight(D, table, ixs, ts, Y, ss, assertions, message, ms)
<1>0. /\ Vault \in D /\ U \subseteq D /\ table \in [U -> Seq(D)]
      /\ ixs \in Seq(Writing(D)) /\ ts \in Seq(U) /\ additional \in Seq(D)
      /\ (\A y \in Y : IsMember(y, D)) /\ ss \in Seq(Y) /\ assertions \in Seq(Y)
      /\ message = Compiled(ixs, ts, table)
      /\ ms = AccountsForExecute(message, table, additional)
  BY Zenon DEF Packing
<1> USE <1>0
<1> DEFINE e == ExtractedTables(ixs, ts, table)
           m == Sent(ixs, e)
           signing == Only(additional, ToSet(additional) \ {Vault})
           listed == Listed(m, table)
           ls == m.address_table_lookups
           f == FlattenSeq(LoadedLists(ls, table))
           built == BuildSignerAccounts(ss, Packed(ms), assertions)
<1>1. message = CompiledFrom(ixs, e, SignersOf(ixs), WritablesOf(ixs)) /\ m = Serialized(message)
  BY Zenon DEF Compiled, Sent
<1>2. /\ Extraction(D, table, ToSet(KeysOf(ixs)), SignersOf(ixs), WritablesOf(ixs), e)
      /\ Tidy(table, SignersOf(ixs), e)
  BY ExtractionHolds, ExtractionTidy
<1> HIDE DEF e
<1>3. Compiles(D, table, ixs, e)
  BY <1>2, ExtractionCompiles
<1>4. /\ SentRight(D, ixs, e) /\ ls = e.lookups /\ e.lookups \in Seq(LookupsIn(table))
      /\ e.writable = FlattenSeq(WritableLoaded(e.lookups, table))
      /\ e.readonly = FlattenSeq(ReadonlyLoaded(e.lookups, table))
  BY <1>3 DEF Compiles
<1>5. /\ e.left \in Seq(D)
      /\ ToSet(e.writable) \cap SignersOf(ixs) = {} /\ ToSet(e.readonly) \cap SignersOf(ixs) = {}
      /\ ToSet(e.left) \cup ToSet(e.writable) \cup ToSet(e.readonly) = ToSet(KeysOf(ixs))
  BY <1>2 DEF Extraction, Extracts
<1>6. NamedOnce(D, m, table)
  BY <1>2, <1>4, <1>5, CompiledNamesOnce
<1>7. ToSet(m.account_keys) = ToSet(e.left)
  BY <1>2, <1>5, StaticDistinct DEF Tidy
<1>8. ToSet(LoadedAddresses(ls, table)) = ToSet(e.writable) \cup ToSet(e.readonly)
  BY <1>4, LoadedAll
<1>9. /\ m.account_keys \in Seq(D)
      /\ m.num_signers \in Nat /\ m.num_writable_signers \in Nat
      /\ m.num_writable_non_signers \in Nat
  BY <1>4 DEF SentRight
<1>10. message.staticAccounts = m.account_keys /\ message.lookups = ls
  BY <1>1 DEF Serialized
<1>11. ms = SignedBy(listed, signing)
  <2>1. message.staticAccounts \in Seq(D) /\ message.lookups \in Seq(LookupsIn(table))
    BY <1>4, <1>9, <1>10
  <2>2. AccountsForExecute(message, table, additional)
          = SignedBy(Listed(Serialized(message), table), signing)
    BY <2>1, ListedByClient
  <2> QED BY <1>1, <2>2
<1> HIDE DEF m
<1>12. Listing(D, m, table, listed)
  <2>1. ls \in Seq(LookupsIn(table))
    BY <1>4
  <2> QED BY <1>9, <2>1, ListedInOrder
<1>13. Len(f) \in Nat /\ Len(ls) \in Nat /\ Len(m.account_keys) \in Nat
  <2>1. ls \in Seq(LookupsIn(table))
    BY <1>4
  <2>2. NumLoaded(ls) = Len(f) /\ NumLoaded(ls) \in Nat
    BY <2>1, LoadedCounts
  <2> QED BY <1>9, <2>1, <2>2
<1>14. ms \in Seq(Metas(D)) /\ KeepsRights(listed, ms)
  <2>1. listed \in Seq(Metas(D))
    BY <1>12 DEF Listing
  <2>2. signing \in Seq(D)
    BY OnlyKeeps
  <2> HIDE DEF listed, signing
  <2> QED BY <1>11, <2>1, <2>2, SignersKeep
<1>15. Len(listed) = Places(m, table)
  <2> DEFINE p == TableMetas(ls)
             q == StaticMetas(m)
             n == Len(ls)
             k == Len(m.account_keys)
  <2>1. p = [i \in 1..n |-> p[i]] /\ q = [i \in 1..k |-> q[i]]
    BY DEF TableMetas, StaticMetas
  <2>2. /\ \A i \in 1..n : p[i] \in Metas(D)
        /\ \A i \in 1..k : q[i] \in Metas(D)
    <3>1. ASSUME NEW i \in 1..n PROVE p[i] \in Metas(D)
      <4>1. ls[i] \in LookupsIn(table)
        BY <1>4
      <4>2. ls[i].table \in D
        BY <4>1, LookupType
      <4>3. p[i] = Meta(ls[i].table, FALSE, FALSE)
        BY DEF TableMetas
      <4> QED BY <4>2, <4>3, MetaType
    <3>2. ASSUME NEW i \in 1..k PROVE q[i] \in Metas(D)
      <4> DEFINE x == IsSignerIndex(m, i - 1) /\ m.account_keys[i] # Vault
                 y == IsStaticWritableIndex(m, i - 1)
                 a == m.account_keys[i]
      <4>1. a \in D /\ x \in BOOLEAN /\ y \in BOOLEAN
        BY <1>9 DEF IsStaticWritableIndex
      <4>2. q[i] = Meta(a, x, y)
        BY DEF StaticMetas
      <4> HIDE DEF a, x, y, q
      <4> QED BY <4>1, <4>2, MetaType
    <3> QED BY <3>1, <3>2
  <2> HIDE DEF p, q
  <2>3. p \in Seq(Metas(D)) /\ Len(p) = n /\ q \in Seq(Metas(D)) /\ Len(q) = k
    <3>1. IsList(p, n, Metas(D)) /\ IsList(q, k, Metas(D))
      BY <2>1, <2>2 DEF IsList
    <3> HIDE DEF n, k
    <3>2. n \in Nat /\ k \in Nat
      BY <1>13 DEF n, k
    <3> QED BY <3>1, <3>2, ListType
  <2>4. f \in Seq(Metas(D))
    <3>1. Len(ls) \in Nat /\ IsList(LoadedLists(ls, table), Len(ls), Seq(Metas(D)))
      BY <1>4, LoadedListsType
    <3>2. LoadedLists(ls, table) \in Seq(Seq(Metas(D)))
      BY <3>1, ListType
    <3> QED BY <3>2, FlattenKeeps
  <2>5. listed = (p \o q) \o f
    BY DEF Listed, p, q
  <2> HIDE DEF f, listed
  <2>6. p \o q \in Seq(Metas(D)) /\ Len(p \o q) = Len(p) + Len(q)
    BY <2>3, Concatenated
  <2>7. Len((p \o q) \o f) = Len(p \o q) + Len(f)
    BY <2>4, <2>6, Concatenated
  <2>8. Len(listed) = n + k + Len(f)
    BY <2>3, <2>5, <2>6, <2>7
  <2> QED BY <2>8 DEF Places, f
<1> HIDE DEF listed, signing
<1>16. Listing(D, m, table, ms)
  BY <1>12, <1>13, <1>14, ListingKept
<1>17. \A i \in 1..Len(ms) : i \in 1..Places(m, table) \/ ms[i].signer
  BY <1>14, <1>15 DEF KeepsRights
<1>18. MembersKeep(D, Y, ms, built)
  BY <1>14, MembersKept
<1>19. Named(m, table) = ToSet(KeysOf(ixs))
  BY <1>5, <1>7, <1>8 DEF Named
<1>20. ToSet(LoadedAddresses(ls, table)) \cap SignersOf(ixs) = {}
  BY <1>5, <1>8
<1> HIDE DEF built
<1>21. PackedOf(D, Y, table, ixs, e, m, ms, built)
  BY <1>3, <1>4, <1>6, <1>13, <1>16, <1>17, <1>18, <1>19, <1>20 DEF PackedOf, m
<1> QED BY <1>1, <1>10, <1>11, <1>14, <1>21 DEF built, e, PackingRight

\* What the program makes of a packed message, by whether packing moved an account.
PackedRun(table, ixs, m, ms, sync) ==
  /\ DistinctTo(ms, Places(m, table)) =>
       /\ Convertible(sync) /\ ConvertedMessage(sync) = m
       /\ Executed(m, sync.remaining, table, {}) = WithRights(ixs)
  /\ ~DistinctTo(ms, Places(m, table)) /\ Convertible(sync) =>
       Executed(ConvertedMessage(sync), sync.remaining, table, {}) = Refused

LEMMA PackedRunsOrNot ==
  ASSUME NEW D, Vault \in D, NEW U, NEW table \in [U -> Seq(D)], NEW ixs \in Seq(Writing(D)),
         NEW e, NEW message, NEW m, m = Serialized(message), NEW ms \in Seq(Metas(D)),
         NEW Y, NEW built, PackedOf(D, Y, table, ixs, e, m, ms, built),
         NEW sync, sync.wire = m, sync.remaining = built.packed,
         sync.lookups = SyncLookups(m.address_table_lookups, ms)
  PROVE  PackedRun(table, ixs, m, ms, sync)
<1> DEFINE r == built.packed
           ls == m.address_table_lookups
           f == FlattenSeq(LoadedLists(ls, table))
<1>1. /\ Compiles(D, table, ixs, e) /\ m = Sent(ixs, e)
      /\ NamedOnce(D, m, table) /\ Listing(D, m, table, ms)
      /\ Len(f) \in Nat
      /\ MembersKeep(D, Y, ms, built)
  BY DEF PackedOf
<1>2. r \in Seq(Metas(D)) /\ Packs(ms, r)
  BY <1>1 DEF MembersKeep, MembersBuilt
<1>3. /\ m.account_keys \in Seq(D) /\ Len(ls) \in Nat /\ Len(m.account_keys) \in Nat
      /\ ls \in Seq(LookupsIn(table))
  BY <1>1 DEF NamedOnce
<1>4. sync.remaining = r
  OBVIOUS
<1> HIDE DEF r
<1>5. /\ Convertible(sync) <=> Len(ls) + Len(m.account_keys) <= Len(r)
      /\ ConvertedMessage(sync) = Resolved(m, r)
  <2>1. PackedSync(D, U, table, message, m, ms, r, sync)
    BY <1>1, <1>2, <1>4 DEF PackedSync
  <2>2. ConvertsRight(m, r, sync)
    BY <2>1, SyncConverts
  <2> QED BY <2>2 DEF ConvertsRight
<1>6. ASSUME DistinctTo(ms, Places(m, table))
      PROVE  /\ Convertible(sync) /\ ConvertedMessage(sync) = m
             /\ Executed(m, r, table, {}) = WithRights(ixs)
  <2>1. Listing(D, m, table, r)
    BY <1>1, <1>2, <1>3, <1>6, PackedAsListed
  <2>2. Resolved(m, r) = m /\ Len(ls) + Len(m.account_keys) <= Len(r)
    BY <1>1, <1>3, <2>1, ResolvedSame
  <2>3. Listing(D, Sent(ixs, e), table, r)
    BY <1>1, <2>1
  <2>4. Executed(Sent(ixs, e), r, table, {}) = WithRights(ixs)
    <3> DEFINE protected == {}
    <3>1. Vault \notin protected /\ protected \cap WritablesOf(ixs) = {}
      OBVIOUS
    <3> HIDE DEF protected
    <3>2. Executed(Sent(ixs, e), r, table, protected)
            = IF protected \cap WritablesOf(ixs) = {} THEN WithRights(ixs) ELSE Refused
      BY <1>1, <2>3, <3>1, ListedRuns
    <3> QED BY <3>1, <3>2 DEF protected
  <2> QED BY <1>1, <1>5, <2>2, <2>4
<1>7. ASSUME ~DistinctTo(ms, Places(m, table)), Convertible(sync)
      PROVE  Executed(ConvertedMessage(sync), r, table, {}) = Refused
  <2>1. ls # << >>
    <3>1. SUFFICES ASSUME ls = << >> PROVE FALSE
      OBVIOUS
    <3>2. TablesOf(m) = {}
      <4>1. Len(ls) = 0
        BY <3>1
      <4> HIDE DEF ls
      <4> QED BY <4>1 DEF TablesOf, ls
    <3>3. TablesOf(m) \cap Named(m, table) = {}
      BY <3>2
    <3> QED BY <1>1, <1>7, <3>3, ListedOnce
  <2>2. Len(ls) + Len(m.account_keys) <= Len(r)
    BY <1>5, <1>7
  <2>3. Executed(Resolved(m, r), r, table, {}) = Refused
    BY <1>1, <1>2, <1>7, <2>1, <2>2, MovedIsRefused
  <2> QED BY <1>5, <2>3
<1> QED BY <1>4, <1>6, <1>7 DEF PackedRun

\* Whatever is packed is a packed message that runs as PackedRun says.
PackedSet(D, table, ixs, ts, additional, Y, ss, assertions, message) ==
  LET m     == Serialized(message)
      ms    == AccountsForExecute(message, table, additional)
      built == BuildSignerAccounts(ss, Packed(ms), assertions)
      sync  == ExecuteSync(message, table, ss, additional, assertions)
  IN  /\ PackedOf(D, Y, table, ixs, ExtractedTables(ixs, ts, table), m, ms, built)
      /\ PackedRun(table, ixs, m, ms, sync)
      /\ sync.signers = built.signers /\ sync.remaining = built.packed

LEMMA PackedSetRun ==
  ASSUME NEW D, Vault \in D, NEW U, U \subseteq D, NEW table \in [U -> Seq(D)],
         NEW ixs \in Seq(Writing(D)), NEW ts \in Seq(U), NEW additional \in Seq(D),
         NEW Y, \A y \in Y : IsMember(y, D), NEW ss \in Seq(Y), NEW assertions \in Seq(Y),
         NEW message, message = Compiled(ixs, ts, table)
  PROVE  PackedSet(D, table, ixs, ts, additional, Y, ss, assertions, message)
<1> DEFINE m == Serialized(message)
           e == ExtractedTables(ixs, ts, table)
           ms == AccountsForExecute(message, table, additional)
           built == BuildSignerAccounts(ss, Packed(ms), assertions)
           sync == ExecuteSync(message, table, ss, additional, assertions)
           ls == m.address_table_lookups
<1>1. /\ PackedOf(D, Y, table, ixs, e, m, ms, built)
      /\ message.lookups = ls /\ ms \in Seq(Metas(D))
  <2>1. Packing(D, U, table, ixs, ts, additional, Y, ss, assertions, message, ms)
    BY DEF Packing
  <2> HIDE DEF ms
  <2>2. PackingRight(D, table, ixs, ts, Y, ss, assertions, message, ms)
    BY <2>1, PackingSets
  <2> QED BY <2>2 DEF PackingRight
<1> HIDE DEF e, ms, built, sync
<1>2. ls \in Seq(LookupsIn(table))
  BY <1>1 DEF PackedOf, NamedOnce
<1>3. /\ sync.wire = m /\ sync.lookups = SyncLookups(ls, ms)
      /\ sync.signers = built.signers /\ sync.remaining = built.packed
  <2>1. message.lookups \in Seq(LookupsIn(table))
    BY <1>1, <1>2
  <2>2. /\ ms = AccountsForExecute(message, table, additional)
        /\ sync = ExecuteSync(message, table, ss, additional, assertions)
    BY DEF ms, sync
  <2>3. /\ sync.wire = Serialized(message)
         /\ sync.lookups = SyncLookups(message.lookups, ms)
         /\ sync.signers = BuildSignerAccounts(ss, Packed(ms), assertions).signers
         /\ sync.remaining = BuildSignerAccounts(ss, Packed(ms), assertions).packed
   BY ONLY <2>1, <2>2, PackedParts
  <2> QED BY <1>1, <2>3 DEF built
<1> HIDE DEF m
<1>4. PackedRun(table, ixs, m, ms, sync)
  <2>1. m = Serialized(message)
    BY DEF m
  <2> QED BY <1>1, <1>3, <2>1, PackedRunsOrNot
<1> QED BY <1>1, <1>3, <1>4 DEF PackedSet, m, e, ms, built, sync

\* Packed into one instruction, the instructions of the vault run as they were written
\* or not at all, whatever accounts repeat, whatever the tables hold, whoever signs and
\* whatever they signed.
THEOREM PackedRunsOrIsRefused ==
  ASSUME NEW D, Vault \in D, NEW U, U \subseteq D, NEW table \in [U -> Seq(D)],
         NEW ixs \in Seq(Writing(D)), NEW ts \in Seq(U), NEW additional \in Seq(D),
         NEW Y, \A y \in Y : IsMember(y, D), NEW ss \in Seq(Y), NEW assertions \in Seq(Y),
         NEW signed, NEW message, message = Compiled(ixs, ts, table)
  PROVE  ExecutedSync(ExecuteSync(message, table, ss, additional, assertions),
                      table, signed) \in {WithRights(ixs), Refused}
<1> DEFINE m == Serialized(message)
           ms == AccountsForExecute(message, table, additional)
           sync == ExecuteSync(message, table, ss, additional, assertions)
           remaining == sync.remaining
<1>1. PackedRun(table, ixs, m, ms, sync)
  BY PackedSetRun DEF PackedSet
<1> HIDE DEF m, ms, sync, remaining
<1>2. Convertible(sync) =>
        Executed(ConvertedMessage(sync), remaining, table, {}) \in {WithRights(ixs), Refused}
  BY <1>1 DEF PackedRun, remaining
<1>3. ExecutedAs(ConvertedMessage(sync), sync, table, signed)
        \in {Refused, Executed(ConvertedMessage(sync), remaining, table, {})}
  BY Zenon DEF ExecutedAs, remaining
<1>4. ExecutedSync(sync, table, signed) \in {WithRights(ixs), Refused}
  BY <1>2, <1>3 DEF ExecutedSync
<1> QED BY <1>4 DEF sync

\* A key among the static ones signs for itself, unless it is the vault.
LEMMA StaticSigns ==
  ASSUME NEW D, NEW U, NEW table \in [U -> Seq(D)], NEW ixs, NEW e,
         Compiles(D, table, ixs, e), NEW ms, Listing(D, Sent(ixs, e), table, ms),
         NEW i \in 1..Len(Sent(ixs, e).account_keys),
         Sent(ixs, e).account_keys[i] \in SignersOf(ixs) \ {Vault}
  PROVE  ms[Len(Sent(ixs, e).address_table_lookups) + i].signer
<1> DEFINE m == Sent(ixs, e)
           keys == m.account_keys
           all == AllKeys(m, e)
           ls == e.lookups
<1>1. /\ keys \in Seq(D) /\ ls \in Seq(LookupsIn(table))
      /\ e.writable = FlattenSeq(WritableLoaded(ls, table))
      /\ e.readonly = FlattenSeq(ReadonlyLoaded(ls, table))
      /\ all = keys \o e.writable \o e.readonly
      /\ PositionsTell(m, e, SignersOf(ixs), WritablesOf(ixs))
  BY DEF Compiles, SentRight, AllKeys
<1>2. e.writable \in Seq(D) /\ e.readonly \in Seq(D)
  <2>1. /\ Len(ls) \in Nat
        /\ IsList(WritableLoaded(ls, table), Len(ls), Seq(D))
        /\ IsList(ReadonlyLoaded(ls, table), Len(ls), Seq(D))
    BY <1>1, LoadedListsType
  <2>2. WritableLoaded(ls, table) \in Seq(Seq(D)) /\ ReadonlyLoaded(ls, table) \in Seq(Seq(D))
    BY <2>1, ListType
  <2> QED BY <1>1, <2>2, FlattenKeeps
<1>3. i \in 1..Len(keys) /\ keys[i] \in SignersOf(ixs) \ {Vault}
  OBVIOUS
<1>4. ASSUME IsSignerIndex(m, i - 1) /\ keys[i] # Vault
      PROVE  ms[Len(m.address_table_lookups) + i].signer
  BY <1>3, <1>4 DEF Listing
<1> HIDE DEF m, keys, all, ls
<1>5. i \in 1..Len(all) /\ all[i] = keys[i]
  <2> DEFINE kw == keys \o e.writable
  <2>1. /\ kw \in Seq(D) /\ Len(kw) = Len(keys) + Len(e.writable)
        /\ Len(keys) \in Nat /\ Len(e.writable) \in Nat
        /\ \A j \in 1..Len(keys) : kw[j] = keys[j]
    BY <1>1, <1>2, Concatenated
  <2>2. all = kw \o e.readonly
    BY <1>1
  <2> HIDE DEF kw
  <2> DEFINE er == e.readonly
  <2>3. er \in Seq(D) /\ all = kw \o er
    BY <1>2, <2>2
  <2> HIDE DEF er
  <2>4. /\ Len(kw \o er) = Len(kw) + Len(er) /\ Len(er) \in Nat
        /\ \A j \in 1..Len(kw) : (kw \o er)[j] = kw[j]
    <3>1. kw \in Seq(D) /\ er \in Seq(D)
      BY <2>1, <2>3
    <3> QED BY ONLY <3>1, Concatenated
  <2> DEFINE p == Len(keys)
             q == Len(e.writable)
             t == Len(er)
  <2>5. i \in 1..p /\ p \in Nat /\ q \in Nat /\ t \in Nat
        /\ Len(kw) = p + q /\ Len(all) = p + q + t
    BY <1>3, <2>1, <2>3, <2>4
  <2> HIDE DEF p, q, t
  <2>6. i \in 1..Len(kw) /\ i \in 1..Len(all)
    BY ONLY <2>5
  <2>7. all[i] = kw[i] /\ kw[i] = keys[i]
    BY <1>3, <2>1, <2>3, <2>4, <2>6
  <2> QED BY <2>6, <2>7
<1>6. i - 1 \in 0..(Len(all) - 1) /\ Nth(all, i - 1) = keys[i]
  <2>1. /\ i \in Int /\ (i - 1) + 1 = i
    BY <1>3
  <2>2. Len(all) \in Int
    <3>1. all \in Seq(D)
      BY DEF Compiles, SentRight, all, m
    <3> QED BY <3>1
  <2> QED BY <1>5, <2>1, <2>2 DEF Nth
<1>7. IsSignerIndex(m, i - 1)
  <2>1. IsSignerIndex(m, i - 1) <=> Nth(all, i - 1) \in SignersOf(ixs)
    BY <1>1, <1>6 DEF PositionsTell, all
  <2> QED BY <1>3, <1>6, <2>1
<1> QED BY <1>3, <1>4, <1>7 DEF m

\* Ed25519 members sign where the list mentions them: none of them is the vault, a
\* table or the account that a passkey brings, and the message lists none of them
\* without its signature.
MembersSign(ixs, m, Y) ==
  \A y \in Y : ~y.passkey =>
    /\ y.account # Vault /\ y.account \notin TablesOf(m)
    /\ y.account \in ToSet(KeysOf(ixs)) => y.account \in SignersOf(ixs)
    /\ \A z \in Y : z.passkey => z.account # y.account

LEMMA MentionSigns ==
  ASSUME NEW D, NEW U, NEW table \in [U -> Seq(D)], NEW ixs, NEW e, NEW m, NEW ms, NEW Y,
         NEW built, PackedOf(D, Y, table, ixs, e, m, ms, built),
         NEW a, a # Vault, a \notin TablesOf(m),
         a \in ToSet(KeysOf(ixs)) => a \in SignersOf(ixs),
         NEW i \in 1..Len(ms), ms[i].address = a
  PROVE  ms[i].signer
<1> DEFINE ls == m.address_table_lookups
           keys == m.account_keys
           f == FlattenSeq(LoadedLists(ls, table))
           g == LoadedAddresses(ls, table)
           n == Len(ls)
           k == Len(keys)
           v == Len(f)
<1>1. /\ Compiles(D, table, ixs, e) /\ m = Sent(ixs, e)
      /\ Listing(D, m, table, ms)
      /\ Named(m, table) = ToSet(KeysOf(ixs))
      /\ ToSet(g) \cap SignersOf(ixs) = {}
      /\ \A j \in 1..Len(ms) : j \in 1..Places(m, table) \/ ms[j].signer
  BY DEF PackedOf
<1>2. keys \in Seq(D) /\ ls \in Seq(LookupsIn(table)) /\ v \in Nat
  BY DEF PackedOf, NamedOnce
<1>3. n \in Nat /\ k \in Nat
  BY <1>2
<1>4. /\ \A j \in 1..n : ms[j].address = ls[j].table
      /\ \A j \in 1..k : ms[n + j].address = keys[j]
      /\ \A j \in 1..v : ms[n + k + j].address = f[j].address
  BY <1>1 DEF Listing
<1>5. /\ \A j \in 1..n : ls[j].table \in TablesOf(m)
      /\ \A j \in 1..k : keys[j] \in Named(m, table)
      /\ \A x \in ToSet(g) : x \in Named(m, table)
  <2>1. \A j \in 1..k : keys[j] \in ToSet(keys)
    BY <1>2 DEF ToSet
  <2> QED BY <2>1 DEF TablesOf, Named
<1>6. \A j \in 1..v : f[j].address \in ToSet(g)
  <2>1. f \in Seq(Metas(D))
    <3>1. IsList(LoadedLists(ls, table), n, Seq(Metas(D)))
      BY <1>2, LoadedListsType
    <3>2. LoadedLists(ls, table) \in Seq(Seq(Metas(D)))
      BY <1>3, <3>1, ListType
    <3> QED BY <3>2, FlattenKeeps
  <2>2. g \in Seq(D) /\ Len(g) = v /\ \A j \in 1..v : g[j] = f[j].address
    BY <2>1, AddressesType DEF LoadedAddresses
  <2> HIDE DEF g, v, f
  <2> QED BY <2>2 DEF ToSet
<1>7. Places(m, table) = n + k + v
  BY DEF Places
<1>8. \A j \in 1..k : keys[j] \in SignersOf(ixs) \ {Vault} => ms[n + j].signer
  <2>1. ASSUME NEW j \in 1..k, keys[j] \in SignersOf(ixs) \ {Vault} PROVE ms[n + j].signer
    BY <1>1, <2>1, StaticSigns
  <2> QED BY <2>1
<1> HIDE DEF n, k, v, ls, keys, f, g
<1>9. \/ i \in 1..n
      \/ i - n \in 1..k /\ n + (i - n) = i
      \/ i - (n + k) \in 1..v /\ n + k + (i - (n + k)) = i
      \/ i \notin 1..(n + k + v)
  BY <1>2, <1>3
<1>10. CASE i \in 1..n
  BY <1>4, <1>5, <1>10
<1>11. CASE i - n \in 1..k /\ n + (i - n) = i
  <2>1. a = keys[i - n]
    BY <1>4, <1>11
  <2>2. keys[i - n] \in SignersOf(ixs) \ {Vault}
    BY <1>1, <1>5, <1>11, <2>1
  <2> QED BY <1>8, <1>11, <2>2
<1>12. CASE i - (n + k) \in 1..v /\ n + k + (i - (n + k)) = i
  <2>1. a \in ToSet(g)
    BY <1>4, <1>6, <1>12
  <2> QED BY <1>1, <1>5, <2>1
<1>13. CASE i \notin 1..(n + k + v)
  BY <1>1, <1>7, <1>13
<1> QED BY <1>9, <1>10, <1>11, <1>12, <1>13

\* The entry of every member that signs is endorsed by it.
LEMMA MembersEndorse ==
  ASSUME NEW D, NEW U, NEW table \in [U -> Seq(D)], NEW ixs, NEW e, NEW m, NEW ms, NEW Y,
         \A y \in Y : IsMember(y, D),
         NEW built, PackedOf(D, Y, table, ixs, e, m, ms, built), MembersSign(ixs, m, Y),
         NEW x \in ToSet(built.signers)
  PROVE  Endorses(x, m, m, Infos(built.packed))
<1> DEFINE r == built.packed
           y == x.by
           j == x.index + 1
<1>1. /\ built \in MembersBuilt(D, Y)
      /\ \A t \in 1..Len(r) : \/ \E i \in 1..Len(ms) : r[t] = ms[i]
                              \/ \E s \in Y : r[t] = MemberMeta(s)
      /\ \A i \in 1..Len(built.signers) : EntryRight(Y, r, built.signers[i])
  BY DEF PackedOf, MembersKeep
<1>2. r \in Seq(Metas(D)) /\ built.signers \in Seq(MemberEntries(Y))
  BY <1>1 DEF MembersBuilt
<1>3. EntryRight(Y, r, x)
  BY <1>1, <1>2 DEF ToSet
<1>4. y \in Y /\ x.passkey = y.passkey /\ j \in 1..Len(r) /\ r[j].address = y.account
  BY <1>3 DEF EntryRight
<1>5. ASSUME ~y.passkey PROVE r[j].signer
  <2>1. /\ y.account # Vault /\ y.account \notin TablesOf(m)
        /\ y.account \in ToSet(KeysOf(ixs)) => y.account \in SignersOf(ixs)
        /\ \A z \in Y : z.passkey => z.account # y.account
    BY <1>4, <1>5 DEF MembersSign
  <2>2. CASE \E i \in 1..Len(ms) : r[j] = ms[i]
    <3>1. PICK i \in 1..Len(ms) : r[j] = ms[i]
      BY <2>2
    <3>2. ms[i].address = y.account
      BY <1>4, <3>1
    <3>3. ms[i].signer
      BY <2>1, <3>2, MentionSigns
    <3> QED BY <3>1, <3>3
  <2>3. CASE \E s \in Y : r[j] = MemberMeta(s)
    <3>1. PICK s \in Y : r[j] = MemberMeta(s)
      BY <2>3
    <3>2. IsMember(s, D)
      OBVIOUS
    <3>3. MemberMeta(s).address = s.account /\ MemberMeta(s).signer = ~s.passkey
      BY <1>2, <3>2, MemberInserted
    <3>4. s.account = y.account
      BY <1>4, <3>1, <3>3
    <3> QED BY <2>1, <3>1, <3>3, <3>4
  <2> QED BY <1>1, <1>4, <2>2, <2>3
<1> HIDE DEF r
<1>6. r[j].signer => Nth(Infos(r), x.index).signer
  <2>1. KeepsRights(r, Infos(r))
    BY <1>2, InfosKeep
  <2> QED BY <1>4, <2>1 DEF KeepsRights, Nth
<1>7. Endorses(x, m, m, Infos(r))
  BY <1>4, <1>5, <1>6 DEF Endorses
<1> QED BY <1>7 DEF r

LEMMA SignedSetRuns ==
  ASSUME NEW D, NEW U, NEW table \in [U -> Seq(D)], NEW ixs, NEW ts, NEW additional,
         NEW Y, \A y \in Y : IsMember(y, D), NEW ss, NEW assertions, NEW message,
         PackedSet(D, table, ixs, ts, additional, Y, ss, assertions, message),
         TablesOf(Serialized(message)) \cap ToSet(KeysOf(ixs)) = {},
         MembersSign(ixs, Serialized(message), Y)
  PROVE  ExecutedSync(ExecuteSync(message, table, ss, additional, assertions),
                      table, Serialized(message)) = WithRights(ixs)
<1> DEFINE m == Serialized(message)
           e == ExtractedTables(ixs, ts, table)
           ms == AccountsForExecute(message, table, additional)
           built == BuildSignerAccounts(ss, Packed(ms), assertions)
           sync == ExecuteSync(message, table, ss, additional, assertions)
<1>1. /\ PackedOf(D, Y, table, ixs, e, m, ms, built)
      /\ PackedRun(table, ixs, m, ms, sync)
      /\ sync.signers = built.signers /\ sync.remaining = built.packed
  BY Zenon DEF PackedSet
<1>2. DistinctTo(ms, Places(m, table))
  <2>1. NamedOnce(D, m, table) /\ Listing(D, m, table, ms) /\ Named(m, table) = ToSet(KeysOf(ixs))
    BY <1>1 DEF PackedOf
  <2>2. TablesOf(m) \cap Named(m, table) = {}
    BY <2>1
  <2> HIDE DEF m, ms
  <2> QED BY <2>1, <2>2, ListedOnce
<1>3. MembersSign(ixs, m, Y)
  OBVIOUS
<1> HIDE DEF m, e, ms, built, sync
<1>4. /\ Convertible(sync) /\ ConvertedMessage(sync) = m
      /\ Executed(m, sync.remaining, table, {}) = WithRights(ixs)
  BY <1>1, <1>2 DEF PackedRun
<1>5. \A x \in ToSet(sync.signers) : Endorses(x, m, m, Infos(sync.remaining))
  BY <1>1, <1>3, MembersEndorse
<1>6. ExecutedAs(m, sync, table, m) = WithRights(ixs)
  BY <1>4, <1>5, Zenon DEF ExecutedAs
<1>7. ExecutedSync(sync, table, m) = WithRights(ixs)
  BY <1>4, <1>6 DEF ExecutedSync
<1> QED BY <1>7 DEF sync, m

\* Packed into one instruction, the instructions of the vault run as they were written
\* whenever none of the lookup tables is one of their accounts, the Ed25519 members sign
\* where they are mentioned, and the passkeys signed the bytes of this message.
THEOREM PackedRunsWhenMembersSign ==
  ASSUME NEW D, NEW U, NEW table, NEW ixs, NEW ts, NEW additional, NEW Y, NEW ss,
         NEW assertions, NEW message,
         Vault \in D, U \subseteq D, table \in [U -> Seq(D)],
         ixs \in Seq(Writing(D)), ts \in Seq(U), additional \in Seq(D),
         \A y \in Y : IsMember(y, D), ss \in Seq(Y), assertions \in Seq(Y),
         message = Compiled(ixs, ts, table),
         TablesOf(Serialized(message)) \cap ToSet(KeysOf(ixs)) = {},
         MembersSign(ixs, Serialized(message), Y)
  PROVE  ExecutedSync(ExecuteSync(message, table, ss, additional, assertions),
                      table, Serialized(message)) = WithRights(ixs)
<1>1. PackedSet(D, table, ixs, ts, additional, Y, ss, assertions, message)
  BY PackedSetRun
<1>2. /\ table \in [U -> Seq(D)] /\ \A y \in Y : IsMember(y, D)
      /\ TablesOf(Serialized(message)) \cap ToSet(KeysOf(ixs)) = {}
      /\ MembersSign(ixs, Serialized(message), Y)
  OBVIOUS
<1> QED BY ONLY <1>1, <1>2, SignedSetRuns

-----------------------------------------------------------------------------
(* The messages that the client puts together step by step.                *)

\* The accounts that the instructions and the lookup tables name.
Known == {Vault, A, B, P, Q, S, T1, T2, Payer, <<"domain_config", "rp">>}

LEMMA KnownIsFinite == IsFiniteSet(Known)
<1>1. IsFiniteSet({Vault}) /\ IsFiniteSet({A}) /\ IsFiniteSet({B}) /\ IsFiniteSet({P})
      /\ IsFiniteSet({Q}) /\ IsFiniteSet({S}) /\ IsFiniteSet({T1}) /\ IsFiniteSet({T2})
      /\ IsFiniteSet({Payer}) /\ IsFiniteSet({<<"domain_config", "rp">>})
  BY FS_Singleton
<1>2. IsFiniteSet({Vault} \cup {A})
  BY <1>1, FS_Union
<1>3. IsFiniteSet({Vault} \cup {A} \cup {B})
  BY <1>1, <1>2, FS_Union
<1>4. IsFiniteSet({Vault} \cup {A} \cup {B} \cup {P})
  BY <1>1, <1>3, FS_Union
<1>5. IsFiniteSet({Vault} \cup {A} \cup {B} \cup {P} \cup {Q})
  BY <1>1, <1>4, FS_Union
<1>6. IsFiniteSet({Vault} \cup {A} \cup {B} \cup {P} \cup {Q} \cup {S})
  BY <1>1, <1>5, FS_Union
<1>7. IsFiniteSet({Vault} \cup {A} \cup {B} \cup {P} \cup {Q} \cup {S} \cup {T1})
  BY <1>1, <1>6, FS_Union
<1>8. IsFiniteSet({Vault} \cup {A} \cup {B} \cup {P} \cup {Q} \cup {S} \cup {T1} \cup {T2})
  BY <1>1, <1>7, FS_Union
<1>9. IsFiniteSet({Vault} \cup {A} \cup {B} \cup {P} \cup {Q} \cup {S} \cup {T1} \cup {T2}
                  \cup {Payer})
  BY <1>1, <1>8, FS_Union
<1>10. IsFiniteSet({Vault} \cup {A} \cup {B} \cup {P} \cup {Q} \cup {S} \cup {T1} \cup {T2}
                   \cup {Payer} \cup {<<"domain_config", "rp">>})
  BY <1>1, <1>9, FS_Union
<1>11. Known = {Vault} \cup {A} \cup {B} \cup {P} \cup {Q} \cup {S} \cup {T1} \cup {T2}
               \cup {Payer} \cup {<<"domain_config", "rp">>}
  BY DEF Known
<1> QED BY <1>10, <1>11

\* A finite set in some order.
LEMMA SetInOrder ==
  ASSUME NEW D, IsFiniteSet(D), NEW T \in SUBSET D
  PROVE  SetToSeq(T) \in Seq(D)
<1>1. IsFiniteSet(T)
  BY FS_Subset
<1>2. Cardinality(T) \in Nat /\ ExistsBijection(1..Cardinality(T), T)
  BY <1>1, FS_CardinalityType
<1>3. \E f \in [1..Cardinality(T) -> T] : IsInjective(f)
  BY <1>2, Zenon DEF ExistsBijection, Bijection, Injection
<1>4. SetToSeq(T) \in [1..Cardinality(T) -> T]
  BY <1>3, Zenon DEF SetToSeq
<1>5. \A g, n \in Nat : g \in [1..n -> T] => g \in Seq(D)
  OBVIOUS
<1> QED BY <1>2, <1>4, <1>5

LEMMA SignersAreKnown ==
  ASSUME NEW D, Vault \in D, NEW ixs \in Seq(Writing(D))
  PROVE  SignersOf(ixs) \subseteq D
<1> DEFINE lists == Mapped(ixs, LAMBDA ix : ix.accounts)
<1>1. lists = [i \in 1..Len(ixs) |-> ixs[i].accounts] /\ Len(ixs) \in Nat
  <2>1. DOMAIN ixs = 1..Len(ixs) /\ Len(ixs) \in Nat
    OBVIOUS
  <2>2. lists = [i \in DOMAIN ixs |-> ixs[i].accounts]
    BY Zenon DEF Mapped
  <2> QED BY <2>1, <2>2
<1>2. \A i \in 1..Len(ixs) : ixs[i].accounts \in Seq(Metas(D))
  <2>1. \A i \in 1..Len(ixs) : ixs[i] \in Writing(D)
    OBVIOUS
  <2> QED BY <2>1 DEF Writing
<1> HIDE DEF lists
<1>3. lists \in Seq(Seq(Metas(D)))
  <2>1. IsList(lists, Len(ixs), Seq(Metas(D)))
    BY <1>1, <1>2 DEF IsList
  <2> QED BY <1>1, <2>1, ListType
<1>4. MetasOf(ixs) \in Seq(Metas(D))
  BY <1>3, FlattenKeeps DEF MetasOf, lists
<1>5. \A m \in ToSet(MetasOf(ixs)) : m.address \in D
  <2>1. \A m \in ToSet(MetasOf(ixs)) : m \in Metas(D)
    BY <1>4 DEF ToSet
  <2> QED BY <2>1 DEF Metas
<1> QED BY <1>5 DEF SignersOf

\* Instructions, lookup tables and what they hold.
ClientTypeOK ==
  /\ instructions \in Seq(Writing(Known))
  /\ tables \in Seq({T1, T2})
  /\ contents \in [{T1, T2} -> Seq(Known)]

\* The client puts together instructions, lists of tables, and tables that hold
\* accounts.
THEOREM ClientTypeCorrect == Spec => []ClientTypeOK
<1>1. Init => ClientTypeOK
  <2> SUFFICES ASSUME Init PROVE ClientTypeOK
    OBVIOUS
  <2>1. << >> \in Seq(Writing(Known)) /\ << >> \in Seq({T1, T2}) /\ << >> \in Seq(Known)
    OBVIOUS
  <2>2. NoContents \in [{T1, T2} -> Seq(Known)]
    BY <2>1 DEF NoContents
  <2> QED BY <2>1, <2>2 DEF Init, ClientTypeOK
<1>2. ClientTypeOK /\ [Next]_vars => ClientTypeOK'
  <2> SUFFICES ASSUME ClientTypeOK, [Next]_vars PROVE ClientTypeOK'
    OBVIOUS
  <2>1. CASE AddInstruction
    <3>1. PICK f \in Firsts, s \in Seconds :
            instructions' = Append(instructions,
              Instruction(ProgramOf(Len(instructions) + 1), <<f, s>>))
      BY <2>1 DEF AddInstruction
    <3>2. f \in Metas(Known) /\ s \in Metas(Known)
      <4>1. \A a \in Known, x \in BOOLEAN, y \in BOOLEAN : Meta(a, x, y) \in Metas(Known)
        BY MetaType
      <4>2. \E a \in Known, x \in BOOLEAN, y \in BOOLEAN : f = Meta(a, x, y)
        BY DEF Firsts, Known
      <4>3. \E a \in Known, x \in BOOLEAN, y \in BOOLEAN : s = Meta(a, x, y)
        BY DEF Seconds, Known
      <4> QED BY <4>1, <4>2, <4>3
    <3>3. <<f, s>> \in Seq(Metas(Known))
      BY <3>2
    <3>4. ProgramOf(Len(instructions) + 1) \in Known
      BY DEF ProgramOf, Known
    <3>5. Instruction(ProgramOf(Len(instructions) + 1), <<f, s>>) \in Writing(Known)
      BY <3>3, <3>4 DEF Instruction, Writing
    <3>6. instructions \in Seq(Writing(Known))
      BY DEF ClientTypeOK
    <3>7. instructions' \in Seq(Writing(Known))
      BY <3>1, <3>5, <3>6, Appended
    <3> QED BY <2>1, <3>7 DEF AddInstruction, ClientTypeOK
  <2>2. CASE AddTable
    <3>1. PICK t \in {T1, T2}, c \in Contents :
            tables' = Append(tables, t) /\ contents' = [contents EXCEPT ![t] = c]
      BY <2>2 DEF AddTable
    <3>2. c \in Seq(Known)
      <4>1. A \in Known /\ B \in Known /\ P \in Known /\ T1 \in Known /\ Payer \in Known
        BY DEF Known
      <4>2. <<A>> \in Seq(Known) /\ <<B, A>> \in Seq(Known)
            /\ <<P, B>> \in Seq(Known) /\ <<Payer, T1>> \in Seq(Known)
        BY <4>1
      <4> QED BY <4>2 DEF Contents
    <3>3. tables \in Seq({T1, T2}) /\ contents \in [{T1, T2} -> Seq(Known)]
      BY DEF ClientTypeOK
    <3>4. contents' \in [{T1, T2} -> Seq(Known)]
      BY <3>1, <3>2, <3>3
    <3>5. tables' \in Seq({T1, T2})
      BY <3>1, <3>3, Appended
    <3> QED BY <2>2, <3>4, <3>5 DEF AddTable, ClientTypeOK
  <2>3. CASE AddRequest \/ AddSyncRequest \/ UNCHANGED vars
    BY <2>3 DEF AddRequest, AddSyncRequest, vars, ClientTypeOK
  <2> QED BY <2>1, <2>2, <2>3 DEF Next
<1> QED BY <1>1, <1>2, PTL DEF Spec

\* A buffer that holds the client's bytes runs exactly the instructions that the
\* client was given, whatever message is put together and however many instructions
\* and lookup tables it has (CompiledKeys against ExecutableTransactionMessage).
THEOREM BuffersAlwaysRunWhatWasWritten == Spec => []BufferRunsWhatWasWritten
<1>1. ClientTypeOK => BufferRunsWhatWasWritten
  <2> SUFFICES ASSUME ClientTypeOK PROVE BufferRunsWhatWasWritten
    OBVIOUS
  <2>1. Vault \in Known /\ {T1, T2} \subseteq Known
    BY DEF Known
  <2>2. /\ instructions \in Seq(Writing(Known)) /\ tables \in Seq({T1, T2})
        /\ contents \in [{T1, T2} -> Seq(Known)]
    BY DEF ClientTypeOK
  <2>3. Additional \in Seq(Known)
    <3>1. SignersOf(instructions) \ {Vault} \in SUBSET Known
      BY <2>1, <2>2, SignersAreKnown
    <3> QED BY <3>1, KnownIsFinite, SetInOrder DEF Additional
  <2>4. Vault \notin Protected
    BY VaultIsDerived
  <2> DEFINE e == Executed(Serialized(Compiled(instructions, tables, contents)),
                    AccountsForExecute(Compiled(instructions, tables, contents), contents,
                                       Additional), contents, Protected)
  <2>5. e = IF Protected \cap WritablesOf(instructions) = {} THEN WithRights(instructions)
            ELSE Refused
    BY <2>1, <2>2, <2>3, <2>4, MessagesRunAsWritten
  <2>6. Written = WithRights(instructions)
    BY Zenon DEF Written, WithRights
  <2> QED BY <2>5, <2>6 DEF BufferRunsWhatWasWritten, Message
<1> QED BY <1>1, ClientTypeCorrect, PTL

\* Who signs the message that is put together.
SignersOK == signers \in {<< >>, <<Member(S)>>, <<PasskeyK, Member(S)>>}

LEMMA SignersAlwaysOK == Spec => []SignersOK
<1>1. Init => SignersOK
  BY DEF Init, SignersOK
<1>2. SignersOK /\ [Next]_vars => SignersOK'
  BY DEF SignersOK, Next, AddInstruction, AddTable, AddRequest, AddSyncRequest, vars
<1> QED BY <1>1, <1>2, PTL DEF Spec

LEMMA SignersTell ==
  ASSUME SignersOK
  PROVE  /\ signers \in Seq(ToSet(signers))
         /\ \A y \in ToSet(signers) :
              /\ y.passkey \in BOOLEAN
              /\ ~y.passkey => y.account = S
              /\ y.passkey => y.account = <<"domain_config", "rp">>
<1> DEFINE a == Member(S)
           b == PasskeyK
<1>1. /\ a.passkey = FALSE /\ a.account = S
      /\ b.passkey = TRUE /\ b.account = <<"domain_config", "rp">>
  BY DEF Member, PasskeyK, Passkey
<1> HIDE DEF a, b
<1>2. signers \in {<< >>, <<a>>, <<b, a>>}
  BY DEF SignersOK, a, b
<1>3. ToSet(signers) \subseteq {a, b} /\ signers \in Seq(ToSet(signers))
  <2>1. CASE signers = << >>
    BY <2>1 DEF ToSet
  <2>2. CASE signers = <<a>>
    <3>1. DOMAIN signers = {1} /\ signers[1] = a
      BY <2>2
    <3>2. ToSet(signers) = {a}
      BY <3>1 DEF ToSet
    <3> QED BY <2>2, <3>2
  <2>3. CASE signers = <<b, a>>
    <3>1. DOMAIN signers = {1, 2} /\ signers[1] = b /\ signers[2] = a
      BY <2>3
    <3>2. ToSet(signers) = {a, b}
      BY <3>1 DEF ToSet
    <3> QED BY <2>3, <3>2
  <2> QED BY <1>2, <2>1, <2>2, <2>3
<1> QED BY <1>1, <1>3

\* The client packs a message that runs as it was written, or not at all, and always
\* runs when none of its tables is one of its accounts and its members sign.
THEOREM PackedAlwaysRunsWhatWasWritten == Spec => []PackedRunsWhatWasWritten
<1>1. ClientTypeOK /\ SignersOK => PackedRunsWhatWasWritten
  <2> SUFFICES ASSUME ClientTypeOK, SignersOK PROVE PackedRunsWhatWasWritten
    OBVIOUS
  <2> DEFINE Y == ToSet(signers)
             U == {T1, T2}
             message == Message
             m == Serialized(message)
             sync == ExecuteSync(message, contents, signers, Additional, << >>)
             run == ExecutedSync(sync, contents, m)
  <2>1. Vault \in Known /\ U \subseteq Known
    BY DEF Known
  <2>2. /\ instructions \in Seq(Writing(Known)) /\ tables \in Seq(U)
        /\ contents \in [U -> Seq(Known)]
    BY DEF ClientTypeOK
  <2>3. Additional \in Seq(Known)
    <3>1. SignersOf(instructions) \ {Vault} \in SUBSET Known
      BY <2>1, <2>2, SignersAreKnown
    <3> QED BY <3>1, KnownIsFinite, SetInOrder DEF Additional
  <2>4. /\ signers \in Seq(Y)
        /\ \A y \in Y : /\ y.passkey \in BOOLEAN
                        /\ ~y.passkey => y.account = S
                        /\ y.passkey => y.account = <<"domain_config", "rp">>
    BY SignersTell
  <2>5. /\ \A y \in Y : IsMember(y, Known)
        /\ << >> \in Seq(Y)
    <3>1. S \in Known /\ <<"domain_config", "rp">> \in Known
      BY DEF Known
    <3> HIDE DEF Y
    <3>2. ASSUME NEW y \in Y PROVE IsMember(y, Known)
      <4>1. y.account \in Known
        BY <2>4, <3>1
      <4> QED BY <2>4, <4>1 DEF IsMember
    <3>3. << >> \in Seq(Y)
      OBVIOUS
    <3> QED BY <3>2, <3>3
  <2>6. message = Compiled(instructions, tables, contents)
    BY DEF Message
  <2>7. Written = WithRights(instructions)
    BY Zenon DEF Written, WithRights
  <2>8. run = ExecutedSync(Sync, contents, Serialized(Message))
    BY DEF Sync
  <2> HIDE DEF Y, U, message, run
  <2>9. run \in {Written, Refused}
    BY <2>1, <2>2, <2>3, <2>4, <2>5, <2>6, <2>7, PackedRunsOrIsRefused DEF run
  <2>10. PackedSet(Known, contents, instructions, tables, Additional, Y, signers, << >>, message)
    BY <2>1, <2>2, <2>3, <2>4, <2>5, <2>6, PackedSetRun
  <2>11. ASSUME Packable PROVE run = Written
    <3>1. TablesOf(m) \subseteq U
      <4>2. m.address_table_lookups \in Seq(LookupsIn(contents))
        BY <2>10 DEF PackedSet, PackedOf, NamedOnce
      <4> HIDE DEF m
      <4>3. \A i \in 1..Len(m.address_table_lookups) : m.address_table_lookups[i].table \in U
        BY <2>2, <4>2 DEF LookupsIn
      <4> QED BY <4>3 DEF TablesOf
    <3>2. ToSet(KeysOf(instructions)) \cap U = {}
      BY <2>11 DEF Packable, U
    <3>3. S \in ToSet(KeysOf(instructions)) => S \in SignersOf(instructions)
          \/ \A y \in Y : y.passkey
      <4> SUFFICES ASSUME NEW y \in Y, ~y.passkey, S \in ToSet(KeysOf(instructions))
                   PROVE  S \in SignersOf(instructions)
        BY <2>4
      <4>1. y.account = S
        BY <2>4
      <4>2. S \in {s.account : s \in {x \in ToSet(signers) : ~x.passkey}}
        BY <4>1 DEF Y
      <4> QED BY <2>11, <4>2 DEF Packable
    <3>4. S \notin U \cup {Vault, <<"domain_config", "rp">>}
      BY MemberHasKey DEF U
    <3>5. MembersSign(instructions, m, Y)
      BY <2>4, <3>1, <3>3, <3>4 DEF MembersSign
    <3>6. TablesOf(m) \cap ToSet(KeysOf(instructions)) = {}
      BY <3>1, <3>2
    <3>7. ExecutedSync(ExecuteSync(message, contents, signers, Additional, << >>),
                       contents, Serialized(message)) = WithRights(instructions)
      <4>1. contents \in [U -> Seq(Known)] /\ \A y \in Y : IsMember(y, Known)
        BY <2>2, <2>5
      <4>2. /\ TablesOf(Serialized(message)) \cap ToSet(KeysOf(instructions)) = {}
            /\ MembersSign(instructions, Serialized(message), Y)
        BY <3>5, <3>6
      <4> QED BY ONLY <4>1, <4>2, <2>10, SignedSetRuns
    <3> QED BY <2>7, <3>7 DEF run
  <2> QED BY <2>8, <2>9, <2>11 DEF PackedRunsWhatWasWritten
<1> QED BY <1>1, ClientTypeCorrect, SignersAlwaysOK, PTL

=============================================================================
