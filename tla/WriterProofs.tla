---------------------------- MODULE WriterProofs ----------------------------
(***************************************************************************)
(* The writer pipeline for any finite number of tasks, sends, flushes and  *)
(* closes, any sizes and any bounds of its channels.                       *)
(*                                                                         *)
(* Bytes move between the places that hold them: pending_bytes is exact    *)
(* because each step moves a count from one sum to another (PInv), and a   *)
(* flush that sees zero has everything on the wire because accepted bytes  *)
(* are in the pipeline or there (FInv).  Numbers are a sum over the        *)
(* datagrams before (NInv).  The Fin is last because a mark_closed that no *)
(* send overlaps leaves nothing to be sent (OInv).                         *)
(*                                                                         *)
(* The first part of the module says how the library's sums change when a  *)
(* function changes at one place and a sequence at one of its ends.        *)
(***************************************************************************)
EXTENDS Writer, FiniteSetTheorems, SequenceTheorems, WellFoundedInduction, TLAPS

\* The larger leaves take longer than the provers' default limits.
USE SMTT(30), ZenonT(30)

-----------------------------------------------------------------------------
(* The least element of a non-empty set of naturals.                       *)
LEMMA SmallestOf ==
  ASSUME NEW T \in SUBSET Nat, T # {}
  PROVE  \E n \in T : \A m \in T : n <= m
<1>1. PICK x \in T : \A y \in T : ~(<<y, x>> \in OpToRel(<, Nat))
  BY NatLessThanWellFounded, WFMin, Zenon
<1>2. ASSUME NEW y \in T
      PROVE  x <= y
  <2>1. ~(<<y, x>> \in {ss \in Nat \X Nat : ss[1] < ss[2]})
    BY <1>1 DEF OpToRel
  <2> QED BY <2>1
<1> QED BY <1>2

(* Induction, for a set of naturals.                                       *)
LEMMA NatSetInduction ==
  ASSUME NEW T \in SUBSET Nat, 0 \in T, \A n \in T : n + 1 \in T
  PROVE  T = Nat
<1> SUFFICES ASSUME Nat \ T # {}
             PROVE  FALSE
  BY Zenon
<1>1. PICK n \in Nat \ T : \A m \in Nat \ T : n <= m
  BY Zenon, SmallestOf
<1>2. n # 0 /\ n - 1 \in Nat /\ n - 1 \in T
  BY <1>1
<1> QED BY <1>1, <1>2

-----------------------------------------------------------------------------
(* Sums.  SumFunctionOnSet(f, S) is the value at S of a function defined   *)
(* by recursion over the subsets of S; Sums(f, S, g) says that g is one.   *)
Pick(s) == CHOOSE x \in s : TRUE

Sums(f, S, g) ==
  g = [s \in SUBSET S |-> IF s = {} THEN 0 ELSE f[Pick(s)] + g[s \ {Pick(s)}]]

(* The recursion, unfolded once.                                           *)
LEMMA SumsAt ==
  ASSUME NEW f, NEW S, NEW g, Sums(f, S, g), NEW s \in SUBSET S
  PROVE  /\ s = {} => g[s] = 0
         /\ s # {} => /\ Pick(s) \in s /\ s \ {Pick(s)} \in SUBSET S
                      /\ g[s] = f[Pick(s)] + g[s \ {Pick(s)}]
<1>1. g[s] = IF s = {} THEN 0 ELSE f[Pick(s)] + g[s \ {Pick(s)}]
  BY Zenon DEF Sums
<1>2. s # {} => Pick(s) \in s
  BY Zenon DEF Pick
<1> QED BY <1>1, <1>2, Zenon

(* Every finite set has such a function, into the naturals.                *)
LEMMA SumsExist ==
  ASSUME NEW S, IsFiniteSet(S), NEW f, \A x \in S : f[x] \in Nat
  PROVE  \E g \in [SUBSET S -> Nat] : Sums(f, S, g)
<1> DEFINE UpTo(g, k) ==
      \A s \in SUBSET S :
        Cardinality(s) <= k =>
          g[s] = IF s = {} THEN 0 ELSE f[Pick(s)] + g[s \ {Pick(s)}]
<1> DEFINE T == {k \in Nat : \E g \in [SUBSET S -> Nat] : UpTo(g, k)}
<1>1. \A s \in SUBSET S : /\ IsFiniteSet(s) /\ Cardinality(s) \in Nat
                          /\ Cardinality(s) <= Cardinality(S) /\ Cardinality(S) \in Nat
                          /\ Cardinality(s) = 0 <=> s = {}
  BY FS_Subset, FS_CardinalityType, FS_EmptySet
<1>2. \A s \in SUBSET S : s # {} =>
        /\ Pick(s) \in s /\ s \ {Pick(s)} \in SUBSET S
        /\ Cardinality(s \ {Pick(s)}) = Cardinality(s) - 1
  <2> TAKE s \in SUBSET S
  <2> HAVE s # {}
  <2>1. Pick(s) \in s
    BY Zenon DEF Pick
  <2> QED BY <1>1, <2>1, FS_RemoveElement
<1>3. 0 \in T
  <2>1. PICK g : g = [s \in SUBSET S |-> 0]
    BY Zenon
  <2>2. g \in [SUBSET S -> Nat] /\ UpTo(g, 0)
    BY <1>1, <2>1
  <2> QED BY Zenon, <2>2
<1>4. ASSUME NEW k \in T
      PROVE  k + 1 \in T
  <2>1. PICK g \in [SUBSET S -> Nat] : UpTo(g, k)
    BY Zenon
  <2>2. PICK h : h = [s \in SUBSET S |-> IF Cardinality(s) = k + 1
                                         THEN f[Pick(s)] + g[s \ {Pick(s)}] ELSE g[s]]
    BY Zenon
  <2>3. k \in Nat /\ k + 1 \in Nat
    OBVIOUS
  <2>4. ASSUME NEW s \in SUBSET S, Cardinality(s) = k + 1
        PROVE  s # {} /\ f[Pick(s)] \in Nat /\ g[s \ {Pick(s)}] \in Nat
    BY <1>1, <1>2, <2>1, <2>3, <2>4
  <2>5. h \in [SUBSET S -> Nat]
    BY <2>1, <2>2, <2>4
  <2>6. ASSUME NEW s \in SUBSET S, Cardinality(s) <= k + 1
        PROVE  h[s] = IF s = {} THEN 0 ELSE f[Pick(s)] + h[s \ {Pick(s)}]
    <3>1. CASE s = {}
      <4>1. Cardinality(s) = 0
        BY <1>1, <3>1
      <4>2. h[s] = g[s] /\ g[s] = 0
        BY <2>1, <2>2, <2>3, <3>1, <4>1
      <4> QED BY <3>1, <4>2
    <3>2. CASE s # {}
      <4>1. /\ Cardinality(s \ {Pick(s)}) # k + 1 /\ s \ {Pick(s)} \in SUBSET S
            /\ Cardinality(s) \in Nat
        BY <1>1, <1>2, <2>3, <2>6, <3>2
      <4>2. h[s \ {Pick(s)}] = g[s \ {Pick(s)}]
        BY <2>2, <4>1
      <4>3. CASE Cardinality(s) = k + 1
        BY <2>2, <3>2, <4>2, <4>3
      <4>4. CASE Cardinality(s) <= k
        <5>1. h[s] = g[s]
          BY <2>2, <2>3, <4>1, <4>4
        <5>2. g[s] = f[Pick(s)] + g[s \ {Pick(s)}]
          BY <2>1, <3>2, <4>4
        <5> QED BY <3>2, <4>2, <5>1, <5>2
      <4> QED BY <2>3, <2>6, <4>1, <4>3, <4>4
    <3> QED BY <3>1, <3>2
  <2>7. UpTo(h, k + 1)
    BY Zenon, <2>6
  <2> QED BY Zenon, <2>3, <2>5, <2>7
<1>5. T = Nat
  <2> HIDE DEF T
  <2>1. T \in SUBSET Nat
    BY DEF T
  <2> QED BY <1>3, <1>4, <2>1, NatSetInduction
<1>6. Cardinality(S) \in T
  BY Zenon, <1>1, <1>5
<1>7. PICK g \in [SUBSET S -> Nat] : UpTo(g, Cardinality(S))
  BY Zenon, <1>6
<1>8. \A s \in SUBSET S : g[s] = IF s = {} THEN 0 ELSE f[Pick(s)] + g[s \ {Pick(s)}]
  BY <1>1, <1>7
<1>9. g = [s \in SUBSET S |-> g[s]]
  OBVIOUS
<1> QED BY <1>8, <1>9, Zenon DEF Sums

(* Two such functions agree on every finite set their summands agree on.   *)
LEMMA SumsAgree ==
  ASSUME NEW S, NEW f, NEW g, Sums(f, S, g),
         NEW U, NEW e, NEW h, Sums(e, U, h),
         NEW R \in SUBSET (S \cap U), IsFiniteSet(R), \A x \in R : f[x] = e[x]
  PROVE  g[R] = h[R]
<1> DEFINE T == {k \in Nat : \A s \in SUBSET R : Cardinality(s) = k => g[s] = h[s]}
<1>1. \A s \in SUBSET R : /\ IsFiniteSet(s) /\ Cardinality(s) \in Nat
                          /\ Cardinality(s) = 0 <=> s = {}
  BY FS_Subset, FS_CardinalityType, FS_EmptySet
<1>2. 0 \in T
  <2>1. ASSUME NEW s \in SUBSET R, Cardinality(s) = 0
        PROVE  g[s] = h[s]
    <3>1. s = {} /\ s \in SUBSET S /\ s \in SUBSET U
      BY <1>1, <2>1, Zenon
    <3> QED BY <3>1, SumsAt, SMTT(20)
  <2> QED BY <2>1
<1>3. ASSUME NEW k \in T
      PROVE  k + 1 \in T
  <2>1. ASSUME NEW s \in SUBSET R, Cardinality(s) = k + 1
        PROVE  g[s] = h[s]
    <3>1. s # {} /\ s \in SUBSET S /\ s \in SUBSET U
      BY <1>1, <2>1
    <3>2. /\ Pick(s) \in s /\ g[s] = f[Pick(s)] + g[s \ {Pick(s)}]
          /\ h[s] = e[Pick(s)] + h[s \ {Pick(s)}]
      <4>1. Pick(s) \in s /\ g[s] = f[Pick(s)] + g[s \ {Pick(s)}]
        BY <3>1, SumsAt, SMTT(20)
      <4>2. h[s] = e[Pick(s)] + h[s \ {Pick(s)}]
        BY <3>1, SumsAt, SMTT(20)
      <4> QED BY <4>1, <4>2
    <3>3. s \ {Pick(s)} \in SUBSET R /\ Cardinality(s \ {Pick(s)}) = k
      BY <1>1, <2>1, <3>2, FS_RemoveElement
    <3>4. g[s \ {Pick(s)}] = h[s \ {Pick(s)}]
      BY <3>3
    <3>5. f[Pick(s)] = e[Pick(s)]
      BY <3>2, Zenon
    <3> QED BY <3>2, <3>4, <3>5, Zenon
  <2> QED BY <2>1
<1>4. T = Nat
  <2> HIDE DEF T
  <2>1. T \in SUBSET Nat
    BY DEF T
  <2> QED BY <1>2, <1>3, <2>1, NatSetInduction
<1> QED BY <1>1, <1>4

(* The library's sum is given by every such function of every finite       *)
(* superset, and is a natural number.                                      *)
LEMMA SumIs ==
  ASSUME NEW S, IsFiniteSet(S), NEW f, \A x \in S : f[x] \in Nat,
         NEW R \in SUBSET S, NEW g, Sums(f, S, g)
  PROVE  SumFunctionOnSet(f, R) = g[R] /\ g[R] \in Nat
<1>1. IsFiniteSet(R)
  BY FS_Subset
<1>2. PICK h \in [SUBSET R -> Nat] : Sums(f, R, h)
  BY Zenon, <1>1, SumsExist
<1>3. SumFunctionOnSet(f, R) =
        (CHOOSE iter : iter = [s \in SUBSET R |-> IF s = {} THEN 0
           ELSE f[CHOOSE x \in s : TRUE] + iter[s \ {CHOOSE x \in s : TRUE}]])[R]
  BY DEF SumFunctionOnSet, FoldFunctionOnSet, MapThenFoldSet
<1>4. SumFunctionOnSet(f, R) = (CHOOSE iter : Sums(f, R, iter))[R]
  BY <1>3, Zenon DEF Sums, Pick
<1>5. Sums(f, R, CHOOSE iter : Sums(f, R, iter))
  BY <1>2, Zenon
<1>6. SumFunctionOnSet(f, R) = h[R]
  <2>1. R \in SUBSET (R \cap R) /\ \A x \in R : f[x] = f[x]
    OBVIOUS
  <2>2. (CHOOSE iter : Sums(f, R, iter))[R] = h[R]
    BY <1>1, <1>2, <1>5, <2>1, SumsAgree, SMTT(20)
  <2> QED BY <1>4, <2>2, Zenon
<1>7. g[R] = h[R]
  <2>1. R \in SUBSET (S \cap R) /\ \A x \in R : f[x] = f[x]
    OBVIOUS
  <2> QED BY <1>1, <1>2, <2>1, SumsAgree, SMTT(20)
<1>8. h[R] \in Nat
  BY <1>2
<1> QED BY <1>6, <1>7, <1>8

(* A sum of naturals is a natural.                                         *)
LEMMA SumType ==
  ASSUME NEW S, IsFiniteSet(S), NEW f, \A x \in S : f[x] \in Nat
  PROVE  SumFunctionOnSet(f, S) \in Nat
<1>1. PICK g \in [SUBSET S -> Nat] : Sums(f, S, g)
  BY Zenon, SumsExist
<1>2. SumFunctionOnSet(f, S) = g[S] /\ g[S] \in Nat
  BY <1>1, SumIs, S \in SUBSET S, Zenon
<1> QED BY <1>2

(* The empty sum.                                                          *)
LEMMA SumEmpty ==
  ASSUME NEW f
  PROVE  SumFunctionOnSet(f, {}) = 0
<1>1. IsFiniteSet({}) /\ \A x \in {} : f[x] \in Nat
  BY FS_EmptySet
<1>2. PICK g \in [SUBSET {} -> Nat] : Sums(f, {}, g)
  BY <1>1, SumsExist, Zenon
<1>3. {} \in SUBSET {}
  OBVIOUS
<1>4. SumFunctionOnSet(f, {}) = g[{}]
  BY <1>1, <1>2, <1>3, SumIs, SMTT(20)
<1>5. g[{}] = 0
  BY <1>2, <1>3, SumsAt, Zenon
<1> QED BY <1>4, <1>5

(* The sum depends on the summands only.                                   *)
LEMMA SumSame ==
  ASSUME NEW S, IsFiniteSet(S), NEW f, NEW e, \A x \in S : f[x] \in Nat /\ e[x] = f[x]
  PROVE  SumFunctionOnSet(e, S) = SumFunctionOnSet(f, S)
<1>1. \A x \in S : e[x] \in Nat
  BY Zenon
<1>2. PICK g \in [SUBSET S -> Nat] : Sums(f, S, g)
  BY Zenon, SumsExist
<1>3. PICK h \in [SUBSET S -> Nat] : Sums(e, S, h)
  BY Zenon, <1>1, SumsExist
<1>4. SumFunctionOnSet(f, S) = g[S] /\ SumFunctionOnSet(e, S) = h[S]
  BY <1>1, <1>2, <1>3, SumIs, S \in SUBSET S, SMTT(20)
<1>5. g[S] = h[S]
  <2>1. S \in SUBSET (S \cap S) /\ \A x \in S : f[x] = e[x]
    BY Zenon
  <2> QED BY <1>2, <1>3, <2>1, SumsAgree, SMTT(20)
<1> QED BY <1>4, <1>5

(* Any summand may be taken out first.                                     *)
LEMMA SumRemove ==
  ASSUME NEW S, IsFiniteSet(S), NEW f, \A x \in S : f[x] \in Nat, NEW y \in S
  PROVE  SumFunctionOnSet(f, S) = f[y] + SumFunctionOnSet(f, S \ {y})
<1>1. PICK g \in [SUBSET S -> Nat] : Sums(f, S, g)
  BY Zenon, SumsExist
<1> DEFINE T == {k \in Nat : \A s \in SUBSET S : \A x \in s :
                   Cardinality(s) = k => g[s] = f[x] + g[s \ {x}]}
<1>2. \A s \in SUBSET S : /\ IsFiniteSet(s) /\ Cardinality(s) \in Nat
                          /\ Cardinality(s) = 0 <=> s = {}
  BY FS_Subset, FS_CardinalityType, FS_EmptySet
<1>3. 0 \in T
  BY <1>2
<1>4. ASSUME NEW k \in T
      PROVE  k + 1 \in T
  <2>1. ASSUME NEW s \in SUBSET S, NEW x \in s, Cardinality(s) = k + 1
        PROVE  g[s] = f[x] + g[s \ {x}]
    <3>1. PICK c : c = Pick(s)
      OBVIOUS
    <3>2. s # {}
      OBVIOUS
    <3>3. c \in s /\ g[s] = f[c] + g[s \ {c}]
      BY <1>1, <3>1, <3>2, SumsAt, SMTT(20)
    <3>4. CASE c = x
      BY <3>3, <3>4
    <3>5. CASE c # x
      <4>1. /\ s \ {c} \in SUBSET S /\ x \in s \ {c}
            /\ s \ {x} \in SUBSET S /\ c \in s \ {x}
        BY <3>3, <3>5
      <4>2. Cardinality(s \ {c}) = k /\ Cardinality(s \ {x}) = k
        <5>1. IsFiniteSet(s) /\ Cardinality(s) - 1 = k
          BY <1>2, <2>1
        <5>2. Cardinality(s \ {c}) = Cardinality(s) - 1
          BY <3>3, <5>1, FS_RemoveElement, Zenon
        <5>3. Cardinality(s \ {x}) = Cardinality(s) - 1
          BY <5>1, FS_RemoveElement, Zenon
        <5> QED BY <5>1, <5>2, <5>3
      <4>3. g[s \ {c}] = f[x] + g[(s \ {c}) \ {x}] /\ g[s \ {x}] = f[c] + g[(s \ {x}) \ {c}]
        BY Zenon, <4>1, <4>2
      <4>4. (s \ {c}) \ {x} = (s \ {x}) \ {c} /\ (s \ {c}) \ {x} \in SUBSET S
        OBVIOUS
      <4>5. PICK r : r = g[(s \ {c}) \ {x}]
        OBVIOUS
      <4>6. r \in Nat /\ f[x] \in Nat /\ f[c] \in Nat
        BY <1>1, <3>3, <4>4, <4>5
      <4>7. g[s] = f[c] + (f[x] + r) /\ g[s \ {x}] = f[c] + r
        BY Zenon, <3>3, <4>3, <4>4, <4>5
      <4> QED BY <4>6, <4>7
    <3> QED BY <3>4, <3>5
  <2> QED BY <2>1
<1>5. T = Nat
  <2> HIDE DEF T
  <2>1. T \in SUBSET Nat
    BY DEF T
  <2> QED BY <1>3, <1>4, <2>1, NatSetInduction
<1>6. g[S] = f[y] + g[S \ {y}]
  BY <1>2, <1>5
<1>7. SumFunctionOnSet(f, S) = g[S] /\ SumFunctionOnSet(f, S \ {y}) = g[S \ {y}]
  <2>1. S \in SUBSET S /\ S \ {y} \in SUBSET S
    OBVIOUS
  <2> QED BY <1>1, <2>1, SumIs, SMTT(20)
<1> QED BY <1>6, <1>7

(* Summing a sequence that is extended at its end ...                      *)
LEMMA SumAppend ==
  ASSUME NEW s \in Seq(Nat), NEW x \in Nat
  PROVE  /\ SumFunction(s) \in Nat
         /\ SumFunction(Append(s, x)) = SumFunction(s) + x
<1> DEFINE n == Len(s)
<1>1. n \in Nat /\ DOMAIN s = 1 .. n /\ \A i \in 1 .. n : s[i] \in Nat
  BY LenProperties
<1>2. PICK a : a = Append(s, x)
  BY Zenon
<1>3. DOMAIN a = 1 .. (n + 1) /\ a[n + 1] = x /\ \A i \in 1 .. n : a[i] = s[i]
  <2>1. a \in Seq(Nat) /\ Len(a) = n + 1
    BY <1>2, AppendProperties
  <2> QED BY <1>2, <2>1, AppendProperties, LenProperties
<1>4. IsFiniteSet(1 .. n) /\ IsFiniteSet(1 .. (n + 1))
  BY <1>1, FS_Interval
<1>5. (1 .. (n + 1)) \ {n + 1} = 1 .. n /\ n + 1 \in 1 .. (n + 1)
  BY <1>1
<1>6. \A i \in 1 .. (n + 1) : a[i] \in Nat
  BY <1>1, <1>3
<1> HIDE DEF n
<1>7. SumFunctionOnSet(a, 1 .. (n + 1)) = a[n + 1] + SumFunctionOnSet(a, (1 .. (n + 1)) \ {n + 1})
  BY <1>4, <1>5, <1>6, SumRemove, Zenon
<1>8. SumFunctionOnSet(a, 1 .. n) = SumFunctionOnSet(s, 1 .. n)
  BY <1>1, <1>3, <1>4, SumSame, Zenon
<1>9. SumFunctionOnSet(s, 1 .. n) \in Nat
  BY <1>1, <1>4, SumType, Zenon
<1>10. SumFunction(s) = SumFunctionOnSet(s, 1 .. n) /\ SumFunction(a) = SumFunctionOnSet(a, 1 .. (n + 1))
  BY <1>1, <1>3, Zenon DEF SumFunction
<1>11. SumFunction(a) = x + SumFunction(s) /\ SumFunction(s) \in Nat
  BY <1>3, <1>5, <1>7, <1>8, <1>9, <1>10, Zenon
<1> QED BY <1>2, <1>11

(* ... and one that is shortened at its head.                              *)
LEMMA SumTail ==
  ASSUME NEW s \in Seq(Nat), s # <<>>
  PROVE  SumFunction(s) = Head(s) + SumFunction(Tail(s))
<1> DEFINE Works(q) == SumFunction(q) = Head(q) + SumFunction(Tail(q))
<1> DEFINE T == {k \in Nat : \A q \in Seq(Nat) : Len(q) = k + 1 => Works(q)}
<1>1. SumFunction(<<>>) = 0
  BY SumEmpty DEF SumFunction
<1>2. ASSUME NEW q \in Seq(Nat), q # <<>>
      PROVE  \E r \in Seq(Nat), e \in Nat :
               /\ q = Append(r, e) /\ Len(q) = Len(r) + 1 /\ Len(r) \in Nat
               /\ SumFunction(q) = SumFunction(r) + e /\ SumFunction(r) \in Nat
  <2>1. PICK r \in Seq(Nat), e \in Nat : q = Append(r, e)
    BY <1>2, SequenceEmptyOrAppend, Zenon
  <2>2. SumFunction(q) = SumFunction(r) + e /\ SumFunction(r) \in Nat
    BY <2>1, SumAppend, Zenon
  <2>3. Len(q) = Len(r) + 1 /\ Len(r) \in Nat
    BY <2>1, AppendProperties, LenProperties, Zenon
  <2> QED BY <2>1, <2>2, <2>3, Zenon
<1>3. 0 \in T
  <2>1. ASSUME NEW q \in Seq(Nat), Len(q) = 0 + 1
        PROVE  Works(q)
    <3>1. q # <<>>
      <4>1. Len(q) # 0
        BY <2>1
      <4> QED BY <4>1, EmptySeq, Zenon
    <3>2. PICK r \in Seq(Nat), e \in Nat :
               /\ q = Append(r, e) /\ Len(q) = Len(r) + 1 /\ Len(r) \in Nat
               /\ SumFunction(q) = SumFunction(r) + e /\ SumFunction(r) \in Nat
      BY <1>2, <3>1, Zenon
    <3>3. r = <<>>
      BY <2>1, <3>2
    <3>4. Head(q) = e /\ Tail(q) = <<>>
      BY <3>2, <3>3, HeadTailAppend, Zenon
    <3> QED BY <1>1, <3>2, <3>3, <3>4
  <2> QED BY <2>1
<1>4. ASSUME NEW k \in T
      PROVE  k + 1 \in T
  <2>1. ASSUME NEW q \in Seq(Nat), Len(q) = (k + 1) + 1
        PROVE  Works(q)
    <3>1. q # <<>>
      <4>1. Len(q) # 0
        BY <2>1
      <4> QED BY <4>1, EmptySeq, Zenon
    <3>2. PICK r \in Seq(Nat), e \in Nat :
               /\ q = Append(r, e) /\ Len(q) = Len(r) + 1 /\ Len(r) \in Nat
               /\ SumFunction(q) = SumFunction(r) + e /\ SumFunction(r) \in Nat
      BY <1>2, <3>1, Zenon
    <3>3. r # <<>> /\ Len(r) = k + 1
      BY <2>1, <3>2
    <3>4. SumFunction(r) = Head(r) + SumFunction(Tail(r))
      BY <3>3
    <3>5. Head(q) = Head(r) /\ Tail(q) = Append(Tail(r), e)
      BY <3>2, <3>3, HeadTailAppend, Zenon
    <3>6. Tail(r) \in Seq(Nat) /\ Head(r) \in Nat
      BY <3>3, HeadTailProperties, Zenon
    <3>7. SumFunction(Append(Tail(r), e)) = SumFunction(Tail(r)) + e /\ SumFunction(Tail(r)) \in Nat
      BY <3>6, SumAppend, Zenon
    <3>8. SumFunction(q) = (Head(r) + SumFunction(Tail(r))) + e
      BY <3>2, <3>4, Zenon
    <3>9. Head(q) + SumFunction(Tail(q)) = Head(r) + (SumFunction(Tail(r)) + e)
      BY <3>5, <3>7, Zenon
    <3>10. (Head(r) + SumFunction(Tail(r))) + e = Head(r) + (SumFunction(Tail(r)) + e)
      BY <3>6, <3>7
    <3> QED BY <3>8, <3>9, <3>10, Zenon
  <2> QED BY <2>1
<1>5. T = Nat
  <2> HIDE DEF T
  <2>1. T \in SUBSET Nat
    BY DEF T
  <2> QED BY Zenon, <1>3, <1>4, <2>1, NatSetInduction
<1>6. PICK k \in Nat : Len(s) = k + 1
  BY LenProperties
<1>7. k \in T
  BY <1>5, Zenon
<1> QED BY <1>6, <1>7

-----------------------------------------------------------------------------
(* The inductive invariants.  What the variables hold; pending_bytes is    *)
(* left to Exact.                                                          *)
Datagram == [kind : {"Data", "Fin"}, first : Nat, num : Nat, bytes : Nat]

Labels == {"idle", "count", "enqueue", "undo", "check", "register", "recheck", "await",
           "flushed", "reserve", "send_fin"}

Types ==
  /\ op \in [Tasks -> {"none", "send", "send_async", "flush", "close"}]
  /\ pc \in [Tasks -> Labels] /\ arg \in [Tasks -> Nat]
  /\ closed \in BOOLEAN /\ raced \in BOOLEAN /\ left_behind \in BOOLEAN
  /\ next_packet_num_shared \in Nat /\ next_packet_num \in Nat /\ waiting \subseteq Tasks
  /\ channel \in Seq(Nat) /\ Len(channel) <= DATA_CHANNEL_BOUND
  /\ pump \in [pc : {"recv", "drain", "pack"}, taken : 0 .. RecvLimit, made : 0 .. BatchDatagrams]
  /\ data_queue \in Nat
  /\ send_queue \in Seq(Datagram) /\ wire \in Seq(Datagram)
  /\ sender \in [pc : {"recv", "account", "notify"}, bytes : Nat]
  /\ enqueued \in Nat /\ mark \in [Tasks -> Nat] /\ dropped \in Nat

\* No call in progress, and nothing in the sender's hands.
Resting ==
  /\ \A t \in Tasks : op[t] = "none" <=> pc[t] = "idle"
  /\ sender.pc # "account" => sender.bytes = 0

\* The places that bytes can be in between the call of a send and the socket.
Waiting == SumFunctionOnSet(arg, Counted)
Unsent == SumFunction(channel) + data_queue + Bytes(send_queue)

Exact == pending_bytes = Waiting + Unsent + sender.bytes + dropped

PInv == Types /\ Resting /\ Exact

\* Every byte accepted is in the pipeline or on the wire.
Conserved ==
  /\ enqueued = Unsent + Bytes(wire)
  /\ \A t \in Tasks : mark[t] <= enqueued

FInv == Conserved /\ FlushMeansOnWire

\* Only data waits for the sender, and no datagram is empty.
Loaded == \A i \in DOMAIN send_queue : send_queue[i].kind = "Data" /\ send_queue[i].bytes > 0

NInv == Loaded /\ NumbersConsecutive

\* After mark_closed that raced with nobody, nothing is left to be sent.
Over ==
  /\ \A t \in Tasks : pc[t] \in {"reserve", "send_fin"} => closed
  /\ \A i \in DOMAIN wire : wire[i].kind = "Fin" => closed
  /\ closed /\ ~raced => /\ enqueued <= Bytes(wire)
                         /\ \A t \in Tasks : pc[t] \notin {"count", "enqueue"}

OInv == Over /\ NoDataAfterFin

-----------------------------------------------------------------------------
(* A queue of datagrams holds datagrams.                                   *)
LEMMA DatagramFields ==
  ASSUME NEW d \in Seq(Datagram)
  PROVE  /\ DOMAIN d = 1 .. Len(d) /\ Len(d) \in Nat
         /\ \A i \in DOMAIN d : /\ d[i] \in Datagram /\ d[i].kind \in {"Data", "Fin"}
                               /\ d[i].first \in Nat /\ d[i].num \in Nat /\ d[i].bytes \in Nat
<1>1. DOMAIN d = 1 .. Len(d) /\ Len(d) \in Nat
  BY LenProperties
<1>2. \A i \in DOMAIN d : d[i] \in Datagram
  BY <1>1, ElementOfSeq
<1>3. \A x \in Datagram : /\ x.kind \in {"Data", "Fin"}
                           /\ x.first \in Nat /\ x.num \in Nat /\ x.bytes \in Nat
  BY DEF Datagram
<1> QED BY <1>1, <1>2, <1>3, Zenon

(* The bytes of the datagrams, one more ...                                *)
LEMMA BytesAppend ==
  ASSUME NEW d \in Seq(Datagram), NEW x \in Datagram
  PROVE  Bytes(d) \in Nat /\ x.bytes \in Nat /\ Bytes(Append(d, x)) = Bytes(d) + x.bytes
<1>1. PICK s : s = [i \in DOMAIN d |-> d[i].bytes]
  BY Zenon
<1>2. x.bytes \in Nat /\ \A i \in DOMAIN d : d[i].bytes \in Nat
  <2>1. x.bytes \in Nat
    BY DEF Datagram
  <2> QED BY <2>1, DatagramFields
<1>3. s \in Seq(Nat) /\ Len(s) = Len(d)
  BY <1>1, <1>2
<1>4. [i \in DOMAIN Append(d, x) |-> Append(d, x)[i].bytes] = Append(s, x.bytes)
  BY <1>1, <1>2, <1>3
<1>5. SumFunction(s) \in Nat /\ SumFunction(Append(s, x.bytes)) = SumFunction(s) + x.bytes
  BY <1>2, <1>3, SumAppend
<1>6. Bytes(d) = SumFunction(s) /\ Bytes(Append(d, x)) = SumFunction(Append(s, x.bytes))
  BY <1>1, <1>4, Zenon DEF Bytes
<1> QED BY <1>2, <1>5, <1>6

(* ... and one fewer.                                                      *)
LEMMA BytesTail ==
  ASSUME NEW d \in Seq(Datagram), d # <<>>
  PROVE  /\ Head(d) \in Datagram /\ Head(d).bytes \in Nat /\ Tail(d) \in Seq(Datagram)
         /\ Bytes(Tail(d)) \in Nat /\ Bytes(d) = Head(d).bytes + Bytes(Tail(d))
<1>1. PICK s : s = [i \in DOMAIN d |-> d[i].bytes]
  BY Zenon
<1>2. \A i \in DOMAIN d : d[i].bytes \in Nat
  BY DatagramFields
<1>3. s \in Seq(Nat) /\ Len(s) = Len(d) /\ s # <<>>
  BY <1>1, <1>2
<1>4. Head(d) \in Datagram /\ Tail(d) \in Seq(Datagram)
  BY HeadTailProperties, Zenon
<1>5. Head(d).bytes \in Nat
  BY <1>4 DEF Datagram
<1>6. [i \in DOMAIN Tail(d) |-> Tail(d)[i].bytes] = Tail(s) /\ Head(d).bytes = Head(s)
  BY <1>1, <1>2, <1>3
<1>7. SumFunction(s) = Head(s) + SumFunction(Tail(s))
  BY <1>3, SumTail
<1>8. Bytes(d) = SumFunction(s) /\ Bytes(Tail(d)) = SumFunction(Tail(s))
  BY <1>1, <1>6, Zenon DEF Bytes
<1>9. Bytes(Tail(d)) \in Nat
  BY Zenon, <1>4, BytesAppend
<1> QED BY <1>4, <1>5, <1>6, <1>7, <1>8, <1>9

(* No datagram, no byte.                                                   *)
LEMMA NothingSent == SumFunction(<<>>) = 0 /\ Bytes(<<>>) = 0
<1>1. SumFunction(<<>>) = 0
  BY SumEmpty DEF SumFunction
<1>2. [i \in DOMAIN <<>> |-> <<>>[i].bytes] = <<>>
  OBVIOUS
<1> QED BY <1>1, <1>2, Zenon DEF Bytes

(* The sends under way: one more, one fewer, the same.                     *)
LEMMA WaitingSum ==
  ASSUME NEW f \in [Tasks -> Nat], NEW C \in SUBSET Tasks
  PROVE  /\ SumFunctionOnSet(f, C) \in Nat
         /\ \A t \in C : SumFunctionOnSet(f, C) = f[t] + SumFunctionOnSet(f, C \ {t})
         /\ \A g \in [Tasks -> Nat] :
              (\A t \in C : g[t] = f[t]) => SumFunctionOnSet(g, C) = SumFunctionOnSet(f, C)
<1>1. IsFiniteSet(C)
  BY WriterAssumption, FS_Subset
<1>2. \A t \in C : f[t] \in Nat
  OBVIOUS
<1>3. SumFunctionOnSet(f, C) \in Nat
  BY <1>1, <1>2, SumType, Zenon
<1>4. ASSUME NEW t \in C
      PROVE  SumFunctionOnSet(f, C) = f[t] + SumFunctionOnSet(f, C \ {t})
  BY <1>1, <1>2, SumRemove, Zenon
<1>5. ASSUME NEW g \in [Tasks -> Nat], \A t \in C : g[t] = f[t]
      PROVE  SumFunctionOnSet(g, C) = SumFunctionOnSet(f, C)
  BY <1>1, <1>2, <1>5, SumSame, Zenon
<1> QED BY <1>3, <1>4, <1>5, Zenon

(* The parts of the pipeline are byte counts.                              *)
LEMMA Parts ==
  ASSUME Types
  PROVE  /\ Waiting \in Nat /\ Unsent \in Nat /\ SumFunction(channel) \in Nat
         /\ Bytes(send_queue) \in Nat /\ Bytes(wire) \in Nat
         /\ sender.bytes \in Nat /\ data_queue \in Nat /\ dropped \in Nat
<1>1. SumFunction(channel) \in Nat
  <2>1. channel \in Seq(Nat) /\ 0 \in Nat
    BY DEF Types
  <2> QED BY <2>1, SumAppend, Zenon
<1>2. Bytes(send_queue) \in Nat /\ Bytes(wire) \in Nat
  <2>1. [kind |-> "Data", first |-> 0, num |-> 0, bytes |-> 0] \in Datagram
    BY DEF Datagram
  <2> QED BY <2>1, BytesAppend DEF Types
<1>3. Waiting \in Nat
  <2>1. arg \in [Tasks -> Nat] /\ Counted \in SUBSET Tasks
    BY DEF Types, Counted
  <2> QED BY <2>1, WaitingSum, Zenon DEF Waiting
<1>4. sender.bytes \in Nat /\ data_queue \in Nat /\ dropped \in Nat
  BY DEF Types
<1> QED BY <1>1, <1>2, <1>3, <1>4 DEF Unsent

(* The strengthening implies the property.                                 *)
LEMMA PInvExact == PInv => PendingExact /\ pending_bytes \in Nat
<1> SUFFICES ASSUME PInv
             PROVE  PendingExact /\ pending_bytes \in Nat
  OBVIOUS
<1>1. Types /\ Exact
  BY DEF PInv
<1>2. pending_bytes \in Nat
  BY <1>1, Parts DEF Exact
<1>3. TypeOK
  BY <1>1, <1>2 DEF Types, TypeOK, Labels
<1>4. pending_bytes =
       SumFunctionOnSet(arg, Counted) + SumFunction(channel) + data_queue
         + Bytes(send_queue) + sender.bytes + dropped
  <2>1. pending_bytes = Waiting + (SumFunction(channel) + data_queue + Bytes(send_queue))
                          + sender.bytes + dropped
    BY <1>1 DEF Exact, Unsent
  <2>2. pending_bytes = Waiting + SumFunction(channel) + data_queue + Bytes(send_queue)
                          + sender.bytes + dropped
    BY <1>1, <2>1, Parts
  <2> QED BY <2>2 DEF Waiting
<1> QED BY <1>2, <1>3, <1>4 DEF PendingExact

(* It holds at construction.                                               *)
LEMMA InitPInv == Init => PInv
<1> SUFFICES ASSUME Init
             PROVE  PInv
  OBVIOUS
<1>1. Types
  <2>1. /\ First \in Nat /\ DATA_CHANNEL_BOUND \in Nat /\ RecvLimit \in Nat
        /\ BatchDatagrams \in Nat
    BY WriterAssumption
  <2>2. /\ op \in [Tasks -> {"none", "send", "send_async", "flush", "close"}]
        /\ pc \in [Tasks -> Labels] /\ arg \in [Tasks -> Nat] /\ mark \in [Tasks -> Nat]
        /\ waiting \subseteq Tasks
    BY DEF Init, Labels
  <2>3. pump \in [pc : {"recv", "drain", "pack"}, taken : 0 .. RecvLimit, made : 0 .. BatchDatagrams]
    BY <2>1 DEF Init
  <2>4. sender \in [pc : {"recv", "account", "notify"}, bytes : Nat]
    BY DEF Init
  <2>5. /\ channel \in Seq(Nat) /\ Len(channel) <= DATA_CHANNEL_BOUND
        /\ send_queue \in Seq(Datagram) /\ wire \in Seq(Datagram)
    BY <2>1, EmptySeq DEF Init
  <2> QED BY <2>1, <2>2, <2>3, <2>4, <2>5, Zenon DEF Init, Types
<1>2. Resting
  BY DEF Init, Resting
<1>3. Counted = {}
  BY DEF Init, Counted
<1>4. Waiting = 0 /\ Unsent = 0
  BY <1>3, SumEmpty, NothingSent DEF Init, Waiting, Unsent
<1>5. Exact
  BY <1>4 DEF Init, Exact
<1> QED BY <1>1, <1>2, <1>5 DEF PInv

(* What a step of task t does to the sends under way.                      *)
LEMMA WaitingStep ==
  ASSUME Types, NEW t \in Tasks, NEW label \in Labels, Goto(t, label),
         arg' \in [Tasks -> Nat], \A u \in Tasks \ {t} : arg'[u] = arg[u]
  PROVE  /\ Waiting' \in Nat
         /\ label \notin {"enqueue", "undo"} => IF t \in Counted THEN Waiting = Waiting' + arg[t]
                                              ELSE Waiting' = Waiting
         /\ label \in {"enqueue", "undo"} /\ arg' = arg =>
              IF t \in Counted THEN Waiting' = Waiting ELSE Waiting' = Waiting + arg[t]
<1>1. arg \in [Tasks -> Nat] /\ Counted \in SUBSET Tasks /\ Counted' \in SUBSET Tasks /\ arg[t] \in Nat
  BY DEF Types, Counted
<1>2. Counted' = IF label \in {"enqueue", "undo"} THEN Counted \cup {t} ELSE Counted \ {t}
  BY DEF Types, Counted, Goto
<1>3. PICK C : C = Counted
  OBVIOUS
<1>4. PICK f : f = arg
  OBVIOUS
<1>5. Waiting = SumFunctionOnSet(f, C) /\ Waiting \in Nat
  BY <1>1, <1>3, <1>4, WaitingSum, Zenon DEF Waiting
<1>6. Waiting' = SumFunctionOnSet(arg', Counted') /\ Waiting' \in Nat
  BY <1>1, WaitingSum, Zenon DEF Waiting
<1>7. CASE label \notin {"enqueue", "undo"}
  <2>1. Counted' = C \ {t} /\ \A u \in C \ {t} : arg'[u] = f[u]
    BY <1>1, <1>2, <1>3, <1>4, <1>7
  <2>2. C \ {t} \in SUBSET Tasks
    BY <1>1, <1>3
  <2>3. Waiting' = SumFunctionOnSet(f, C \ {t})
    BY <1>1, <1>4, <1>6, <2>1, <2>2, WaitingSum, SMTT(20)
  <2>4. CASE t \in C
    <3>1. SumFunctionOnSet(f, C) = f[t] + SumFunctionOnSet(f, C \ {t})
      BY <1>1, <1>3, <1>4, <2>4, WaitingSum, Zenon
    <3> QED BY <1>1, <1>3, <1>4, <1>5, <1>6, <1>7, <2>3, <2>4, <3>1
  <2>5. CASE t \notin C
    <3>1. C \ {t} = C
      BY <2>5
    <3> QED BY <1>3, <1>5, <1>6, <1>7, <2>3, <2>5, <3>1
  <2> QED BY <2>4, <2>5
<1>8. CASE label \in {"enqueue", "undo"} /\ arg' = arg
  <2>1. CASE t \in C
    <3>1. Counted' = C
      BY <1>2, <1>3, <1>8, <2>1
    <3> QED BY <1>3, <1>4, <1>5, <1>6, <1>8, <2>1, <3>1
  <2>2. CASE t \notin C
    <3>1. Counted' = C \cup {t} /\ C \cup {t} \in SUBSET Tasks /\ (C \cup {t}) \ {t} = C
      BY <1>1, <1>2, <1>3, <1>8, <2>2
    <3>2. t \in C \cup {t}
      OBVIOUS
    <3>3. SumFunctionOnSet(f, C \cup {t}) = f[t] + SumFunctionOnSet(f, (C \cup {t}) \ {t})
      BY <1>1, <1>4, <3>1, <3>2, WaitingSum, SMTT(20)
    <3>4. SumFunctionOnSet(arg', Counted') = SumFunctionOnSet(f, C) + arg[t]
      BY <1>1, <1>4, <1>5, <1>8, <3>1, <3>3
    <3> QED BY <1>3, <1>5, <1>6, <1>8, <2>2, <3>4
  <2> QED BY <2>1, <2>2
<1> QED BY <1>6, <1>7, <1>8, Zenon

(* A step of the library's own tasks leaves the sends under way alone.     *)
LEMMA WaitingSame ==
  ASSUME UNCHANGED calls
  PROVE  Waiting' = Waiting
<1>1. Counted' = Counted /\ arg' = arg
  BY DEF Counted, calls
<1> QED BY <1>1 DEF Waiting

(* A step that leaves the queues alone leaves the bytes in them.           *)
LEMMA UnsentSame ==
  ASSUME UNCHANGED <<channel, data_queue, send_queue>>
  PROVE  Unsent' = Unsent
BY DEF Unsent, Bytes

-----------------------------------------------------------------------------
(* The calls of the application.                                           *)
LEMMA CallSendStep ==
  ASSUME PInv, NEW t \in Tasks, NEW name \in SendCalls, NEW len \in Sizes, CallSend(t, name, len)
  PROVE  PInv'
<1> USE DEF atomics, packetiser, history
<1>1. Types /\ Resting /\ Exact
  BY DEF PInv
<1>2. UNCHANGED <<atomics, channel, packetiser, send_queue, sender, wire, history>>
  BY DEF CallSend
<1>3. Unsent' = Unsent
  BY <1>2, UnsentSame
<1>4. CASE closed
  <2>1. UNCHANGED <<op, pc, arg>>
    BY <1>4 DEF CallSend
  <2>2. Waiting' = Waiting
    BY <2>1 DEF Waiting, Counted
  <2>3. Types' /\ Resting'
    BY <1>1, <1>2, <2>1 DEF Types, Resting
  <2> QED BY <1>1, <1>2, <1>3, <2>2, <2>3 DEF Exact, PInv
<1>5. CASE ~closed
  <2>1. /\ op[t] = "none" /\ op' = [op EXCEPT ![t] = name] /\ arg' = [arg EXCEPT ![t] = len]
        /\ Goto(t, "count")
    BY <1>5, Zenon DEF CallSend
  <2>2. name \in {"send", "send_async"} /\ len \in Nat /\ "count" \in Labels
    BY WriterAssumption DEF Labels
  <2>3. /\ op' \in [Tasks -> {"none", "send", "send_async", "flush", "close"}]
        /\ arg' \in [Tasks -> Nat] /\ pc' \in [Tasks -> Labels]
        /\ \A u \in Tasks \ {t} : arg'[u] = arg[u]
    BY <1>1, <2>1, <2>2 DEF Types, Goto
  <2>4. Types'
    BY <1>1, <1>2, <2>3 DEF Types
  <2>5. Resting'
    BY <1>1, <1>2, <2>1, <2>2 DEF Types, Resting, Goto
  <2>6. t \notin Counted
    BY <1>1, <2>1 DEF Resting, Counted
  <2>7. Waiting' = Waiting
    BY <1>1, <2>1, <2>2, <2>3, <2>6, WaitingStep
  <2> QED BY <1>1, <1>2, <1>3, <2>4, <2>5, <2>7, Zenon DEF Exact, PInv
<1> QED BY <1>4, <1>5

(* A flush or a close counts nothing.                                      *)
LEMMA CallFlushStep ==
  ASSUME PInv, NEW t \in Tasks, NEW name \in {"flush", "close"}, CallFlush(t, name)
  PROVE  PInv'
<1> USE DEF atomics, packetiser
<1>1. Types /\ Resting /\ Exact
  BY DEF PInv
<1>2. /\ op[t] = "none" /\ op' = [op EXCEPT ![t] = name] /\ Goto(t, "check")
      /\ mark' = [mark EXCEPT ![t] = enqueued]
      /\ UNCHANGED <<arg, atomics, channel, packetiser, send_queue, sender, wire,
                     enqueued, dropped, raced, left_behind>>
  BY DEF CallFlush
<1>3. "check" \in Labels
  BY DEF Labels
<1>4. /\ op' \in [Tasks -> {"none", "send", "send_async", "flush", "close"}]
      /\ arg' \in [Tasks -> Nat] /\ pc' \in [Tasks -> Labels] /\ mark' \in [Tasks -> Nat]
      /\ \A u \in Tasks \ {t} : arg'[u] = arg[u]
  BY <1>1, <1>2, <1>3 DEF Types, Goto
<1>5. Types'
  BY <1>1, <1>2, <1>4 DEF Types
<1>6. Resting'
  BY <1>1, <1>2 DEF Types, Resting, Goto
<1>7. t \notin Counted
  BY <1>1, <1>2, Zenon DEF Resting, Counted
<1>8. Waiting' = Waiting
  BY <1>1, <1>2, <1>3, <1>4, <1>7, WaitingStep
<1>9. Unsent' = Unsent
  BY <1>2, UnsentSame
<1> QED BY <1>1, <1>2, <1>5, <1>6, <1>8, <1>9 DEF Exact, PInv

-----------------------------------------------------------------------------
(* The steps of a send: what is counted stays counted until it is in the   *)
(* channel, undone or dropped.                                             *)
LEMMA CountPendingStep ==
  ASSUME PInv, NEW t \in Tasks, CountPending(t)
  PROVE  PInv'
<1> USE DEF packetiser, history
<1>1. Types /\ Resting /\ Exact
  BY Zenon DEF PInv
<1>2. /\ pc[t] = "count" /\ pending_bytes' = pending_bytes + arg[t] /\ Goto(t, "enqueue")
      /\ UNCHANGED <<op, arg, closed, next_packet_num_shared, waiting,
                     channel, packetiser, send_queue, sender, wire, history>>
  BY Zenon DEF CountPending
<1>3. "enqueue" \in Labels
  BY DEF Labels
<1>4. /\ arg' \in [Tasks -> Nat] /\ pc' \in [Tasks -> Labels] /\ arg[t] \in Nat
      /\ \A u \in Tasks \ {t} : arg'[u] = arg[u]
  BY <1>1, <1>2, <1>3 DEF Types, Goto
<1>5. Types'
  BY <1>1, <1>2, <1>4 DEF Types
<1>6. Resting'
  BY <1>1, <1>2 DEF Types, Resting, Goto
<1>7. t \notin Counted
  BY <1>2 DEF Counted
<1>8. Waiting' = Waiting + arg[t]
  BY <1>1, <1>2, <1>3, <1>4, <1>7, WaitingStep
<1>9. Unsent' = Unsent
  BY <1>2, UnsentSame
<1>10. Exact'
  BY <1>1, <1>2, <1>4, <1>8, <1>9, Parts DEF Exact
<1> QED BY <1>5, <1>6, <1>10 DEF PInv

(* A payload enters the pipeline at the channel ...                        *)
LEMMA EnqueueUnsent ==
  ASSUME Types, NEW t \in Tasks, Enqueue(t)
  PROVE  Unsent' = Unsent + arg[t]
<1>1. channel \in Seq(Nat) /\ arg[t] \in Nat
  BY DEF Types
<1>2. SumFunction(channel') = SumFunction(channel) + arg[t]
  BY <1>1, SumAppend, Zenon DEF Enqueue
<1>3. Unsent' = SumFunction(channel') + data_queue + Bytes(send_queue)
  BY DEF Enqueue, packetiser, Unsent, Bytes
<1>4. Unsent' = SumFunction(channel) + data_queue + Bytes(send_queue) + arg[t]
  BY <1>1, <1>2, <1>3, Parts
<1> QED BY <1>4 DEF Unsent

(* The payload moves from the send to the channel.                         *)
LEMMA EnqueueStep ==
  ASSUME PInv, NEW t \in Tasks, Enqueue(t)
  PROVE  PInv'
<1> USE DEF atomics, packetiser
<1>1. Types /\ Resting /\ Exact
  BY DEF PInv
<1>2. /\ pc[t] = "enqueue" /\ Len(channel) < DATA_CHANNEL_BOUND
      /\ channel' = Append(channel, arg[t]) /\ enqueued' = enqueued + arg[t]
      /\ Goto(t, "idle") /\ op' = [op EXCEPT ![t] = "none"]
      /\ UNCHANGED <<arg, atomics, packetiser, send_queue, sender, wire, mark,
                     dropped, raced, left_behind>>
  BY DEF Enqueue, Done
<1>3. "idle" \in Labels /\ DATA_CHANNEL_BOUND \in Nat
  BY WriterAssumption DEF Labels
<1>4. /\ arg' \in [Tasks -> Nat] /\ pc' \in [Tasks -> Labels] /\ arg[t] \in Nat
      /\ op' \in [Tasks -> {"none", "send", "send_async", "flush", "close"}]
      /\ \A u \in Tasks \ {t} : arg'[u] = arg[u]
  BY <1>1, <1>2, <1>3, Zenon DEF Types, Goto
<1>5. channel' \in Seq(Nat) /\ Len(channel') <= DATA_CHANNEL_BOUND /\ enqueued' \in Nat
  <2>1. channel \in Seq(Nat) /\ enqueued \in Nat
    BY <1>1, Zenon DEF Types
  <2> QED BY <1>2, <1>3, <1>4, <2>1
<1>6. Types'
  BY <1>1, <1>2, <1>4, <1>5, Zenon DEF Types
<1>7. Resting'
  BY <1>1, <1>2, Zenon DEF Types, Resting, Goto
<1>8. t \in Counted
  BY <1>2, Zenon DEF Counted
<1>9. Waiting = Waiting' + arg[t] /\ Waiting' \in Nat
  BY Zenon, <1>1, <1>2, <1>3, <1>4, <1>8, WaitingStep
<1>10. Unsent' = Unsent + arg[t]
  BY Zenon, <1>1, EnqueueUnsent
<1>11. Exact'
  <2>1. pending_bytes = Waiting' + arg[t] + Unsent + sender.bytes + dropped
    BY <1>1, <1>9 DEF Exact
  <2>2. pending_bytes = Waiting' + (Unsent + arg[t]) + sender.bytes + dropped
    BY <1>1, <1>4, <1>9, <2>1, Parts
  <2> QED BY <1>2, <1>10, <2>2 DEF Exact
<1> QED BY <1>6, <1>7, <1>11 DEF PInv

(* A refused send is still counted.                                        *)
LEMMA ChannelFullStep ==
  ASSUME PInv, NEW t \in Tasks, ChannelFull(t)
  PROVE  PInv'
<1> USE DEF atomics, packetiser, history
<1>1. Types /\ Resting /\ Exact
  BY DEF PInv
<1>2. /\ pc[t] = "enqueue" /\ Goto(t, "undo")
      /\ UNCHANGED <<op, arg, atomics, channel, packetiser, send_queue, sender, wire, history>>
  BY DEF ChannelFull
<1>3. "undo" \in Labels
  BY DEF Labels
<1>4. /\ arg' \in [Tasks -> Nat] /\ pc' \in [Tasks -> Labels]
      /\ \A u \in Tasks \ {t} : arg'[u] = arg[u]
  BY <1>1, <1>2, <1>3, Zenon DEF Types, Goto
<1>5. Types'
  BY <1>1, <1>2, <1>4, Zenon DEF Types
<1>6. Resting'
  BY <1>1, <1>2 DEF Types, Resting, Goto
<1>7. t \in Counted
  BY <1>2 DEF Counted
<1>8. Waiting' = Waiting
  BY <1>1, <1>2, <1>3, <1>4, <1>7, WaitingStep
<1>9. Unsent' = Unsent
  BY <1>2, UnsentSame
<1> QED BY <1>1, <1>2, <1>5, <1>6, <1>8, <1>9, Zenon DEF Exact, PInv

(* Undoing a refused send, or dropping one that waits.                     *)
LEMMA GiveUpStep ==
  ASSUME PInv, NEW t \in Tasks, UndoPending(t) \/ CancelSend(t)
  PROVE  PInv'
<1> USE DEF atomics, packetiser
<1>1. Types /\ Resting /\ Exact
  BY Zenon DEF PInv
<1>2. /\ pc[t] \in {"undo", "enqueue"} /\ Goto(t, "idle") /\ op' = [op EXCEPT ![t] = "none"]
      /\ left_behind' \in BOOLEAN
      /\ \/ pending_bytes' = pending_bytes - arg[t] /\ dropped' = dropped
         \/ pending_bytes' = pending_bytes /\ dropped' = dropped + arg[t]
      /\ UNCHANGED <<arg, closed, next_packet_num_shared, waiting, channel, packetiser,
                     send_queue, sender, wire, enqueued, mark, raced>>
  <2>1. left_behind \in BOOLEAN
    BY <1>1 DEF Types
  <2> QED BY <2>1, Zenon DEF UndoPending, CancelSend, Done
<1>3. "idle" \in Labels
  BY DEF Labels
<1>4. /\ arg' \in [Tasks -> Nat] /\ pc' \in [Tasks -> Labels] /\ arg[t] \in Nat
      /\ op' \in [Tasks -> {"none", "send", "send_async", "flush", "close"}]
      /\ \A u \in Tasks \ {t} : arg'[u] = arg[u]
  BY <1>1, <1>2, <1>3 DEF Types, Goto
<1>5. dropped' \in Nat
  BY <1>1, <1>2, <1>4 DEF Types
<1>6. Types'
  BY <1>1, <1>2, <1>4, <1>5, Zenon DEF Types
<1>7. Resting'
  BY <1>1, <1>2, Zenon DEF Types, Resting, Goto
<1>8. t \in Counted
  BY <1>2 DEF Counted
<1>9. Waiting = Waiting' + arg[t] /\ Waiting' \in Nat
  BY Zenon, <1>1, <1>2, <1>3, <1>4, <1>8, WaitingStep
<1>10. Unsent' = Unsent
  BY Zenon, <1>2, UnsentSame
<1>11. Exact'
  BY <1>1, <1>2, <1>4, <1>9, <1>10, Parts DEF Exact
<1> QED BY <1>6, <1>7, <1>11 DEF PInv

(* The steps of flush and close count nothing.                             *)
LEMMA FlushStep ==
  ASSUME PInv, NEW t \in Tasks,
         \/ CheckPending(t) \/ Register(t) \/ Woken(t) \/ FlushReturns(t)
         \/ MarkClosed(t) \/ reserve_close_packet_num(t) \/ send_fin(t)
  PROVE  PInv'
<1> USE DEF atomics, packetiser, history
<1>1. Types /\ Resting /\ Exact
  BY Zenon DEF PInv
<1>2. PICK label \in Labels :
        /\ Goto(t, label) /\ label \notin {"enqueue", "undo"}
        /\ \/ label # "idle" /\ op' = op
           \/ label = "idle" /\ op' = [op EXCEPT ![t] = "none"]
  <2>1. {"check", "register", "recheck", "await", "flushed", "reserve", "send_fin", "idle"}
          \subseteq Labels
    BY Zenon DEF Labels
  <2> QED BY <2>1, Zenon DEF CheckPending, Register, Woken, FlushReturns, MarkClosed,
                      reserve_close_packet_num, send_fin, Done
<1>3. /\ pc[t] \in {"check", "register", "recheck", "await", "flushed", "reserve", "send_fin"}
      /\ UNCHANGED <<pending_bytes, channel, packetiser, send_queue, sender, enqueued, mark,
                     dropped, left_behind>>
  BY Zenon DEF CheckPending, Register, Woken, FlushReturns, MarkClosed,
         reserve_close_packet_num, send_fin
<1>4. /\ arg' \in [Tasks -> Nat] /\ next_packet_num_shared' \in Nat
      /\ \A u \in Tasks \ {t} : arg'[u] = arg[u]
  <2>1. arg \in [Tasks -> Nat] /\ next_packet_num_shared \in Nat
    BY <1>1, Zenon DEF Types
  <2>2. \/ arg' = arg /\ next_packet_num_shared' = next_packet_num_shared
        \/ /\ arg' = [arg EXCEPT ![t] = next_packet_num_shared]
           /\ next_packet_num_shared' = next_packet_num_shared + 1
    BY Zenon DEF CheckPending, Register, Woken, FlushReturns, MarkClosed,
           reserve_close_packet_num, send_fin
  <2> QED BY <2>1, <2>2
<1>5. closed' \in BOOLEAN /\ raced' \in BOOLEAN /\ waiting' \subseteq Tasks
  <2>1. closed \in BOOLEAN /\ raced \in BOOLEAN /\ waiting \subseteq Tasks
    BY <1>1 DEF Types
  <2>2. closed' = closed \/ closed' = TRUE
    BY Zenon DEF CheckPending, Register, Woken, FlushReturns, MarkClosed,
           reserve_close_packet_num, send_fin
  <2>3. raced' = raced \/ raced' \in BOOLEAN
    BY Zenon DEF CheckPending, Register, Woken, FlushReturns, MarkClosed,
           reserve_close_packet_num, send_fin
  <2>4. waiting' = waiting \/ waiting' = waiting \ {t} \/ waiting' = waiting \cup {t}
    BY Zenon DEF CheckPending, Register, Woken, FlushReturns, MarkClosed,
           reserve_close_packet_num, send_fin
  <2> QED BY Zenon, <2>1, <2>2, <2>3, <2>4
<1>6. wire' \in Seq(Datagram)
  <2>1. wire \in Seq(Datagram) /\ Fin(arg[t]) \in Datagram
    BY <1>1 DEF Types, Fin, Datagram
  <2>2. wire' = wire \/ wire' = Append(wire, Fin(arg[t]))
    BY Zenon DEF CheckPending, Register, Woken, FlushReturns, MarkClosed,
           reserve_close_packet_num, send_fin
  <2> QED BY <2>1, <2>2
<1>7. /\ op' \in [Tasks -> {"none", "send", "send_async", "flush", "close"}]
      /\ pc' \in [Tasks -> Labels]
  BY <1>1, <1>2, Zenon DEF Types, Goto
<1>8. Types'
  BY <1>1, <1>3, <1>4, <1>5, <1>6, <1>7 DEF Types
<1>9. Resting'
  BY <1>1, <1>2, <1>3 DEF Types, Resting, Goto
<1>10. t \notin Counted
  BY <1>3 DEF Counted
<1>11. Waiting' = Waiting
  BY <1>1, <1>2, <1>4, <1>10, WaitingStep
<1>12. Unsent' = Unsent
  BY <1>3, UnsentSame
<1> QED BY <1>1, <1>3, <1>8, <1>9, <1>11, <1>12, Zenon DEF Exact, PInv

-----------------------------------------------------------------------------
(* ... is handed on by the packetiser ...                                  *)
LEMMA TakeUnsent ==
  ASSUME Types, RecvFirst \/ RecvMore
  PROVE  Unsent' = Unsent
<1>1. /\ channel # <<>> /\ channel' = Tail(channel) /\ data_queue' = data_queue + Head(channel)
      /\ send_queue' = send_queue
  BY DEF RecvFirst, RecvMore, Take, CanDrain
<1>2. channel \in Seq(Nat) /\ Head(channel) \in Nat /\ Tail(channel) \in Seq(Nat)
  BY <1>1, HeadTailProperties, Zenon DEF Types
<1>3. /\ SumFunction(channel) = Head(channel) + SumFunction(Tail(channel))
      /\ SumFunction(Tail(channel)) \in Nat
  BY Zenon, <1>1, <1>2, SumTail, SumAppend
<1>4. Unsent' = SumFunction(Tail(channel)) + (data_queue + Head(channel)) + Bytes(send_queue)
  BY <1>1 DEF Unsent, Bytes
<1>5. Unsent' = SumFunction(channel) + data_queue + Bytes(send_queue)
  BY <1>2, <1>3, <1>4, Parts
<1> QED BY <1>5 DEF Unsent

(* The packetiser and the sender hand the bytes on.                        *)
LEMMA TakeStep ==
  ASSUME PInv, RecvFirst \/ RecvMore
  PROVE  PInv'
<1> USE DEF atomics, history
<1>1. Types /\ Resting /\ Exact
  BY DEF PInv
<1>2. /\ channel # <<>> /\ channel' = Tail(channel) /\ data_queue' = data_queue + Head(channel)
      /\ UNCHANGED <<calls, atomics, next_packet_num, send_queue, sender, wire, history>>
  BY DEF RecvFirst, RecvMore, Take, CanDrain
<1>3. pump' \in [pc : {"recv", "drain", "pack"}, taken : 0 .. RecvLimit, made : 0 .. BatchDatagrams]
  <2>1. /\ pump \in [pc : {"recv", "drain", "pack"}, taken : 0 .. RecvLimit, made : 0 .. BatchDatagrams]
        /\ RecvLimit \in Nat \ {0} /\ BatchDatagrams \in Nat
    BY <1>1, WriterAssumption DEF Types
  <2>2. CASE RecvFirst
    BY <2>1, <2>2 DEF RecvFirst
  <2>3. CASE RecvMore
    BY <2>1, <2>3 DEF RecvMore, CanDrain
  <2> QED BY <2>2, <2>3
<1>4. /\ channel \in Seq(Nat) /\ Head(channel) \in Nat /\ Tail(channel) \in Seq(Nat)
      /\ Len(Tail(channel)) = Len(channel) - 1 /\ Len(channel) \in Nat
  BY <1>1, <1>2, HeadTailProperties, LenProperties, Zenon DEF Types
<1>5. channel' \in Seq(Nat) /\ Len(channel') <= DATA_CHANNEL_BOUND /\ data_queue' \in Nat
  <2>1. /\ Len(channel) <= DATA_CHANNEL_BOUND /\ DATA_CHANNEL_BOUND \in Nat
        /\ data_queue \in Nat
    BY <1>1, WriterAssumption, Zenon DEF Types
  <2> QED BY <1>2, <1>4, <2>1
<1>6. Types'
  BY <1>1, <1>2, <1>3, <1>5, Zenon DEF Types, calls
<1>7. Resting'
  BY <1>1, <1>2 DEF Resting, calls
<1>8. Waiting' = Waiting
  BY <1>2, WaitingSame
<1>9. Unsent' = Unsent
  BY <1>1, TakeUnsent
<1> QED BY <1>1, <1>2, <1>6, <1>7, <1>8, <1>9 DEF Exact, PInv

(* What a call of the packetiser takes from the queue.                     *)
LEMMA PackedFacts ==
  ASSUME NEW n \in Nat
  PROVE  /\ Packed(n) \in Nat /\ Packed(n) <= n /\ (Packed(n) = 0 => n = 0)
         /\ NumPackets(Packed(n)) \in Nat
<1>1. MAX_PAYLOAD \in Nat \ {0} /\ MAX_PACKETS \in Nat \ {0}
  BY DatagramAssumption
<1>2. MAX_PACKETS * MAX_PAYLOAD \in Nat /\ MAX_PACKETS * MAX_PAYLOAD > 0
  BY <1>1
<1>3. Packed(n) \in Nat /\ Packed(n) <= n /\ (Packed(n) = 0 => n = 0)
  BY <1>2 DEF Packed, Least
<1>4. PICK a \in Nat : a = Packed(n) + MAX_PAYLOAD - 1
  BY <1>1, <1>3
<1>5. a \div MAX_PAYLOAD \in Nat
  BY <1>1
<1> QED BY <1>3, <1>4, <1>5 DEF NumPackets

(* What Packetise does.                                                    *)
LEMMA PacketiseDoes ==
  ASSUME Types, Packetise
  PROVE  \E bytes \in Nat, num \in Nat :
           /\ bytes > 0 /\ bytes <= data_queue
           /\ Data(next_packet_num, num, bytes) \in Datagram
           /\ send_queue' = Append(send_queue, Data(next_packet_num, num, bytes))
           /\ next_packet_num' = next_packet_num + num
           /\ data_queue' = data_queue - bytes
<1>1. data_queue \in Nat /\ next_packet_num \in Nat
  BY DEF Types
<1>2. PICK bytes : bytes = Packed(data_queue)
  OBVIOUS
<1>3. PICK num : num = NumPackets(bytes)
  OBVIOUS
<1>4. bytes \in Nat /\ bytes <= data_queue /\ num \in Nat
  BY <1>1, <1>2, <1>3, PackedFacts
<1>5. Data(next_packet_num, num, bytes) \in Datagram
  BY <1>1, <1>4 DEF Data, Datagram
<1>6. /\ bytes > 0
      /\ send_queue' = Append(send_queue, Data(next_packet_num, num, bytes))
      /\ next_packet_num' = next_packet_num + num
      /\ data_queue' = data_queue - bytes
  BY <1>2, <1>3, Zenon DEF Packetise
<1> QED BY <1>4, <1>5, <1>6

(* Bytes move from data_queue into a datagram.                             *)
LEMMA PacketiseUnsent ==
  ASSUME Types, Packetise
  PROVE  Unsent' = Unsent
<1>1. PICK bytes \in Nat, num \in Nat :
        /\ bytes <= data_queue
        /\ Data(next_packet_num, num, bytes) \in Datagram
        /\ send_queue' = Append(send_queue, Data(next_packet_num, num, bytes))
        /\ data_queue' = data_queue - bytes
  BY PacketiseDoes
<1>2. PICK d : d = Data(next_packet_num, num, bytes)
  OBVIOUS
<1>3. d \in Datagram /\ d.bytes = bytes /\ send_queue' = Append(send_queue, d)
  BY <1>1, <1>2 DEF Data
<1>4. Bytes(send_queue') = Bytes(send_queue) + bytes
  BY <1>3, BytesAppend DEF Types
<1>5. Unsent' = SumFunction(channel) + (data_queue - bytes) + Bytes(send_queue')
  BY <1>1 DEF Packetise, Unsent, Bytes
<1>6. SumFunction(channel) \in Nat /\ data_queue \in Nat /\ Bytes(send_queue) \in Nat
  BY Parts
<1>7. Unsent' = SumFunction(channel) + (data_queue - bytes) + (Bytes(send_queue) + bytes)
  BY <1>4, <1>5, Zenon
<1>8. Unsent' = SumFunction(channel) + data_queue + Bytes(send_queue)
  BY <1>6, <1>7
<1> QED BY <1>8 DEF Unsent

(* Packetise keeps the count.                                              *)
LEMMA PacketiseStep ==
  ASSUME PInv, Packetise
  PROVE  PInv'
<1> USE DEF atomics, history
<1>1. Types /\ Resting /\ Exact
  BY DEF PInv
<1>2. PICK bytes \in Nat, num \in Nat :
        /\ bytes > 0 /\ bytes <= data_queue
        /\ Data(next_packet_num, num, bytes) \in Datagram
        /\ send_queue' = Append(send_queue, Data(next_packet_num, num, bytes))
        /\ next_packet_num' = next_packet_num + num
        /\ data_queue' = data_queue - bytes
  BY <1>1, PacketiseDoes
<1>3. /\ CanPack /\ pump' = [pump EXCEPT !.pc = "pack", !.made = @ + 1]
      /\ UNCHANGED <<calls, atomics, channel, sender, wire, history>>
  BY DEF Packetise
<1>4. pump' \in [pc : {"recv", "drain", "pack"}, taken : 0 .. RecvLimit, made : 0 .. BatchDatagrams]
  <2>1. /\ pump \in [pc : {"recv", "drain", "pack"}, taken : 0 .. RecvLimit, made : 0 .. BatchDatagrams]
        /\ pump.made < BatchDatagrams /\ BatchDatagrams \in Nat
    BY <1>1, <1>3, WriterAssumption DEF Types, CanPack
  <2>2. pump.made + 1 \in 0 .. BatchDatagrams /\ pump.taken \in 0 .. RecvLimit
    BY <2>1
  <2>3. pump' = [pc |-> "pack", taken |-> pump.taken, made |-> pump.made + 1]
    BY Zenon, <1>3, <2>1
  <2> QED BY <2>2, <2>3
<1>5. PICK d : d = Data(next_packet_num, num, bytes)
  OBVIOUS
<1>6. d \in Datagram /\ d.bytes = bytes /\ send_queue' = Append(send_queue, d)
  BY <1>2, <1>5 DEF Data
<1>7. /\ send_queue \in Seq(Datagram) /\ send_queue' \in Seq(Datagram)
      /\ data_queue' \in Nat /\ next_packet_num' \in Nat
  BY <1>1, <1>2, <1>6 DEF Types
<1>8. Types'
  BY <1>1, <1>3, <1>4, <1>7, Zenon DEF Types, calls
<1>9. Resting'
  BY <1>1, <1>3 DEF Resting, calls
<1>10. Waiting' = Waiting
  BY <1>3, WaitingSame
<1>11. Unsent' = Unsent
  BY <1>1, PacketiseUnsent
<1> QED BY <1>1, <1>3, <1>8, <1>9, <1>10, <1>11 DEF Exact, PInv

(* Publishing the counter moves no byte.                                   *)
LEMMA PublishStep ==
  ASSUME PInv, PublishNumber
  PROVE  PInv'
<1>1. Types /\ Resting /\ Exact
  BY DEF PInv
<1>2. /\ next_packet_num_shared' = next_packet_num
      /\ pump' = [pc |-> "recv", taken |-> 0, made |-> 0] /\ left_behind' \in BOOLEAN
      /\ UNCHANGED <<calls, closed, pending_bytes, waiting, channel, data_queue,
                     next_packet_num, send_queue, sender, wire, enqueued, mark, dropped, raced>>
  BY Zenon DEF PublishNumber
<1>3. pump' \in [pc : {"recv", "drain", "pack"}, taken : 0 .. RecvLimit, made : 0 .. BatchDatagrams]
  BY <1>2, WriterAssumption
<1>4. Types'
  BY <1>1, <1>2, <1>3, Zenon DEF Types, calls
<1>5. Resting'
  BY <1>1, <1>2, Zenon DEF Resting, calls
<1>6. Waiting' = Waiting /\ Unsent' = Unsent
  BY <1>2, WaitingSame, UnsentSame
<1> QED BY <1>1, <1>2, <1>4, <1>5, <1>6 DEF Exact, PInv

(* ... and leaves it when it is written to the socket.                     *)
LEMMA WriteUnsent ==
  ASSUME Types, WriteDatagram
  PROVE  /\ Head(send_queue).bytes \in Nat /\ Unsent' \in Nat
         /\ Unsent = Unsent' + Head(send_queue).bytes
         /\ Bytes(wire)' = Bytes(wire) + Head(send_queue).bytes
<1>1. /\ send_queue # <<>> /\ wire' = Append(wire, Head(send_queue))
      /\ send_queue' = Tail(send_queue) /\ UNCHANGED <<channel, data_queue>>
  BY DEF WriteDatagram, packetiser
<1>2. wire \in Seq(Datagram) /\ send_queue \in Seq(Datagram)
  BY DEF Types
<1>3. /\ Head(send_queue) \in Datagram /\ Head(send_queue).bytes \in Nat
      /\ Bytes(Tail(send_queue)) \in Nat
      /\ Bytes(send_queue) = Head(send_queue).bytes + Bytes(Tail(send_queue))
  BY <1>1, <1>2, BytesTail
<1>4. Bytes(wire') = Bytes(wire) + Head(send_queue).bytes
  BY <1>1, <1>2, <1>3, BytesAppend
<1>5. Bytes(wire)' = Bytes(wire')
  BY DEF Bytes
<1>6. Unsent' = SumFunction(channel) + data_queue + Bytes(Tail(send_queue))
  BY <1>1 DEF Unsent, Bytes
<1>7. Unsent = SumFunction(channel) + data_queue + (Head(send_queue).bytes + Bytes(Tail(send_queue)))
  BY <1>3 DEF Unsent
<1>8. Unsent = Unsent' + Head(send_queue).bytes /\ Unsent' \in Nat
  BY <1>3, <1>6, <1>7, Parts
<1> QED BY <1>3, <1>4, <1>5, <1>8

(* Bytes move from the queue to the sender's hands, and out of the count.  *)
LEMMA SenderStepPInv ==
  ASSUME PInv, SenderStep
  PROVE  PInv'
<1> USE DEF atomics, packetiser, history
<1>1. Types /\ Resting /\ Exact
  BY DEF PInv
<1>2. /\ sender \in [pc : {"recv", "account", "notify"}, bytes : Nat] /\ sender.bytes \in Nat
      /\ send_queue \in Seq(Datagram) /\ wire \in Seq(Datagram)
  BY <1>1 DEF Types
<1>3. pending_bytes \in Nat
  BY PInvExact
<1>4. CASE WriteDatagram
  <2>1. /\ sender.pc = "recv" /\ send_queue # <<>>
        /\ wire' = Append(wire, Head(send_queue)) /\ send_queue' = Tail(send_queue)
        /\ sender' = [pc |-> "account", bytes |-> Head(send_queue).bytes]
        /\ UNCHANGED <<calls, atomics, channel, packetiser, history>>
    BY <1>4, Zenon DEF WriteDatagram
  <2>2. /\ Head(send_queue) \in Datagram /\ Head(send_queue).bytes \in Nat
        /\ Tail(send_queue) \in Seq(Datagram) /\ Bytes(Tail(send_queue)) \in Nat
        /\ Bytes(send_queue) = Head(send_queue).bytes + Bytes(Tail(send_queue))
    BY Zenon, <1>2, <2>1, BytesTail
  <2>3. wire' \in Seq(Datagram) /\ sender' \in [pc : {"recv", "account", "notify"}, bytes : Nat]
    BY <1>2, <2>1, <2>2
  <2>4. Types'
    BY <1>1, <2>1, <2>2, <2>3, Zenon DEF Types, calls
  <2>5. Resting'
    BY <1>1, <2>1, Zenon DEF Resting, calls
  <2>6. Waiting' = Waiting
    BY <2>1, WaitingSame
  <2>7. Unsent = Unsent' + sender'.bytes /\ Unsent' \in Nat /\ sender.bytes = 0
    <3>1. sender'.bytes = Head(send_queue).bytes /\ sender.bytes = 0
      BY <1>1, <2>1 DEF Resting
    <3> QED BY Zenon, <1>1, <1>4, <3>1, WriteUnsent
  <2>8. sender'.bytes \in Nat
    BY <2>3
  <2>9. Exact'
    <3>1. pending_bytes = Waiting + (Unsent' + sender'.bytes) + 0 + dropped
      BY <1>1, <2>7 DEF Exact
    <3>2. pending_bytes = Waiting + Unsent' + sender'.bytes + dropped
      BY <1>1, <2>7, <2>8, <3>1, Parts
    <3> QED BY <2>1, <2>6, <3>2 DEF Exact
  <2> QED BY <2>4, <2>5, <2>9, Zenon DEF PInv
<1>5. CASE AccountBytes
  <2>1. /\ sender.pc = "account" /\ pending_bytes' = pending_bytes - sender.bytes
        /\ sender' = [pc |-> IF pending_bytes = sender.bytes THEN "notify" ELSE "recv",
                      bytes |-> 0]
        /\ UNCHANGED <<calls, closed, next_packet_num_shared, waiting, channel, packetiser,
                       send_queue, wire, history>>
    BY <1>5 DEF AccountBytes
  <2>2. sender' \in [pc : {"recv", "account", "notify"}, bytes : Nat] /\ sender'.bytes = 0
    BY Zenon, <2>1
  <2>3. Types'
    BY <1>1, <2>1, <2>2, Zenon DEF Types, calls
  <2>4. Resting'
    BY <1>1, <2>1, <2>2, Zenon DEF Resting, calls
  <2>5. Waiting' = Waiting /\ Unsent' = Unsent
    BY <2>1, WaitingSame, UnsentSame
  <2>6. Exact'
    BY <1>1, <2>1, <2>2, <2>5, Parts DEF Exact
  <2> QED BY <2>3, <2>4, <2>6 DEF PInv
<1>6. CASE NotifyWaiters
  <2>1. /\ sender.pc = "notify" /\ waiting' = {} /\ sender' = [sender EXCEPT !.pc = "recv"]
        /\ UNCHANGED <<calls, closed, pending_bytes, next_packet_num_shared, channel,
                       packetiser, send_queue, wire, history>>
    BY <1>6 DEF NotifyWaiters
  <2>2. /\ sender' \in [pc : {"recv", "account", "notify"}, bytes : Nat]
        /\ sender'.bytes = sender.bytes
    BY <1>2, <2>1
  <2>3. Types'
    BY <1>1, <2>1, <2>2, Zenon DEF Types, calls
  <2>4. Resting'
    BY <1>1, <2>1, <2>2 DEF Resting, calls
  <2>5. Waiting' = Waiting /\ Unsent' = Unsent
    BY <2>1, WaitingSame, UnsentSame
  <2> QED BY <1>1, <2>1, <2>2, <2>3, <2>4, <2>5 DEF Exact, PInv
<1> QED BY <1>4, <1>5, <1>6 DEF SenderStep

-----------------------------------------------------------------------------
(* The actions of a step, one by one.                                      *)
LEMMA StepCases ==
  ASSUME [Next]_vars
  PROVE  \/ \E t \in Tasks :
              \/ \E name \in SendCalls, len \in Sizes : CallSend(t, name, len)
              \/ \E name \in {"flush", "close"} : CallFlush(t, name)
              \/ CountPending(t) \/ Enqueue(t) \/ ChannelFull(t) \/ UndoPending(t)
              \/ CancelSend(t)
              \/ CheckPending(t) \/ Register(t) \/ Woken(t) \/ FlushReturns(t)
              \/ MarkClosed(t) \/ reserve_close_packet_num(t) \/ send_fin(t)
         \/ RecvFirst \/ RecvMore \/ Packetise \/ PublishNumber
         \/ SenderStep
         \/ UNCHANGED vars
BY Zenon DEF Next, TaskStep, PumpStep

(* Every step keeps the count exact.                                       *)
LEMMA StepPInv == PInv /\ [Next]_vars => PInv'
<1> SUFFICES ASSUME PInv, [Next]_vars
             PROVE  PInv'
  OBVIOUS
<1>1. CASE UNCHANGED vars
  <2>1. UNCHANGED calls /\ UNCHANGED <<channel, data_queue, send_queue>>
    BY <1>1 DEF vars, packetiser
  <2>2. Waiting' = Waiting /\ Unsent' = Unsent
    BY <2>1, WaitingSame, UnsentSame
  <2>3. Types' /\ Resting'
    BY <1>1 DEF PInv, Types, Resting, vars, calls, atomics, packetiser, history
  <2> QED BY <1>1, <2>2, <2>3 DEF PInv, Exact, vars, atomics, history
<1> QED BY <1>1, StepCases, CallSendStep, CallFlushStep, CountPendingStep, EnqueueStep,
           ChannelFullStep, GiveUpStep, FlushStep, TakeStep, PacketiseStep, PublishStep,
           SenderStepPInv, ZenonT(40)

(* pending_bytes is exact in every reachable state, for any number of      *)
(* tasks, payload sizes, channel capacity and batch limits: the bytes of   *)
(* the sends under way, of the channel, of data_queue, of the datagrams    *)
(* that wait and of the one not yet accounted for, and what dropped sends  *)
(* left behind.  In particular the sender's subtraction never underflows.  *)
THEOREM PendingCorrect == Spec => []PendingExact
BY InitPInv, StepPInv, PInvExact, PTL DEF Spec

-----------------------------------------------------------------------------
(* Nothing is accepted or written at construction.                         *)
LEMMA InitFInv == Init => FInv
<1> SUFFICES ASSUME Init
             PROVE  FInv
  OBVIOUS
<1>1. Unsent = 0 /\ Bytes(wire) = 0
  BY NothingSent DEF Init, Unsent
<1>2. Conserved
  BY <1>1 DEF Init, Conserved
<1>3. FlushMeansOnWire
  BY DEF Init, FlushMeansOnWire
<1> QED BY <1>2, <1>3, Zenon DEF FInv

(* A step that keeps the history and the bytes unsent, and writes no byte  *)
(* of data: only the labels of the tasks have to be looked at.             *)
LEMMA QuietStep ==
  ASSUME FInv, UNCHANGED <<enqueued, mark>>, Unsent' = Unsent, Bytes(wire)' = Bytes(wire),
         \A t \in Tasks : pc'[t] \in {"flushed", "reserve", "send_fin"} =>
                            \/ pc[t] \in {"flushed", "reserve", "send_fin"}
                            \/ Bytes(wire) >= mark[t]
  PROVE  FInv'
<1>1. Conserved'
  BY DEF FInv, Conserved
<1>2. FlushMeansOnWire'
  BY DEF FInv, FlushMeansOnWire
<1> QED BY <1>1, <1>2 DEF FInv

(* Zero pending means that every byte accepted has been written: all the   *)
(* other places are empty.                                                 *)
LEMMA ZeroMeansWritten ==
  ASSUME PInv, FInv, pending_bytes = 0, NEW t \in Tasks
  PROVE  Bytes(wire) >= mark[t]
<1>1. Types /\ Exact
  BY DEF PInv
<1>2. Unsent = 0
  <2>1. Waiting \in Nat /\ Unsent \in Nat /\ sender.bytes \in Nat /\ dropped \in Nat
    BY <1>1, Parts
  <2>2. 0 = Waiting + Unsent + sender.bytes + dropped
    BY <1>1, Zenon DEF Exact
  <2> QED BY <2>1, <2>2
<1>3. Bytes(wire) = enqueued
  BY <1>1, <1>2, Parts DEF FInv, Conserved
<1>4. mark[t] <= enqueued /\ mark[t] \in Nat /\ enqueued \in Nat
  BY <1>1 DEF Types, FInv, Conserved
<1> QED BY <1>3, <1>4

(* Every step conserves the bytes and keeps the promise of the flushes.    *)
LEMMA StepFInv == PInv /\ FInv /\ [Next]_vars => FInv'
<1> SUFFICES ASSUME PInv, FInv, [Next]_vars
             PROVE  FInv'
  OBVIOUS
<1> USE DEF packetiser, history
<1>1. Types /\ Resting
  BY DEF PInv
<1>2. /\ pc \in [Tasks -> Labels] /\ enqueued \in Nat /\ mark \in [Tasks -> Nat]
      /\ wire \in Seq(Datagram)
  BY <1>1 DEF Types
<1>3. Bytes(wire) \in Nat /\ Unsent \in Nat
  BY <1>1, Parts
<1>4. wire' = wire => Bytes(wire)' = Bytes(wire)
  BY Zenon DEF Bytes
<1>5. ASSUME NEW t \in Tasks, NEW name \in SendCalls, NEW len \in Sizes, CallSend(t, name, len)
      PROVE  FInv'
  <2>1. Unsent' = Unsent
    BY <1>5, UnsentSame DEF CallSend
  <2>2. pc' = pc \/ pc' = [pc EXCEPT ![t] = "count"]
    BY <1>5 DEF CallSend, Goto
  <2> QED BY <1>2, <1>4, <1>5, <2>1, <2>2, QuietStep DEF CallSend
<1>6. ASSUME NEW t \in Tasks, NEW name \in {"flush", "close"}, CallFlush(t, name)
      PROVE  FInv'
  <2>1. /\ op[t] = "none" /\ Goto(t, "check") /\ mark' = [mark EXCEPT ![t] = enqueued]
        /\ UNCHANGED <<channel, packetiser, send_queue, wire, enqueued>>
    BY <1>6 DEF CallFlush
  <2>2. Unsent' = Unsent /\ Bytes(wire)' = Bytes(wire)
    BY <1>4, <2>1, UnsentSame
  <2>3. Conserved'
    BY <1>2, <2>1, <2>2 DEF FInv, Conserved
  <2>4. FlushMeansOnWire'
    BY <1>2, <2>1, <2>2, Zenon DEF FInv, FlushMeansOnWire, Goto
  <2> QED BY <2>3, <2>4 DEF FInv
<1>7. ASSUME NEW t \in Tasks, CountPending(t) \/ ChannelFull(t) \/ UndoPending(t) \/ CancelSend(t)
      PROVE  FInv'
  <2>1. /\ UNCHANGED <<channel, packetiser, send_queue, wire, enqueued, mark>>
        /\ \E label \in {"enqueue", "undo", "idle"} : pc' = [pc EXCEPT ![t] = label]
    BY <1>7, Zenon DEF CountPending, ChannelFull, UndoPending, CancelSend, Done, Goto
  <2>2. Unsent' = Unsent /\ Bytes(wire)' = Bytes(wire)
    BY Zenon, <1>4, <2>1, UnsentSame
  <2> QED BY Zenon, <1>2, <2>1, <2>2, QuietStep
<1>8. ASSUME NEW t \in Tasks, Enqueue(t)
      PROVE  FInv'
  <2>1. /\ enqueued' = enqueued + arg[t] /\ UNCHANGED <<wire, mark>>
        /\ pc' = [pc EXCEPT ![t] = "idle"] /\ arg[t] \in Nat
    BY <1>1, <1>8 DEF Enqueue, Done, Goto, Types
  <2>2. Unsent' = Unsent + arg[t] /\ Bytes(wire)' = Bytes(wire)
    BY <1>1, <1>4, <1>8, <2>1, EnqueueUnsent
  <2>3. Conserved'
    BY <1>2, <1>3, <2>1, <2>2 DEF FInv, Conserved
  <2>4. FlushMeansOnWire'
    BY <1>2, <2>1, <2>2 DEF FInv, FlushMeansOnWire
  <2> QED BY <2>3, <2>4, Zenon DEF FInv
<1>9. ASSUME NEW t \in Tasks, CheckPending(t)
      PROVE  FInv'
  <2>1. /\ UNCHANGED <<channel, packetiser, send_queue, wire, enqueued, mark>>
        /\ \E label \in {"flushed", "register", "await"} :
             pc' = [pc EXCEPT ![t] = label] /\ (label = "flushed" => pending_bytes = 0)
    BY <1>9, Zenon DEF CheckPending, Goto
  <2>2. Unsent' = Unsent /\ Bytes(wire)' = Bytes(wire)
    BY <1>4, <2>1, UnsentSame
  <2>3. pending_bytes = 0 => Bytes(wire) >= mark[t]
    BY ZeroMeansWritten
  <2> QED BY <1>2, <2>1, <2>2, <2>3, QuietStep
<1>10. ASSUME NEW t \in Tasks,
              \/ Register(t) \/ Woken(t) \/ FlushReturns(t)
              \/ MarkClosed(t) \/ reserve_close_packet_num(t)
       PROVE  FInv'
  <2>1. /\ UNCHANGED <<channel, packetiser, send_queue, wire, enqueued, mark>>
        /\ \E label \in Labels : pc' = [pc EXCEPT ![t] = label]
        /\ pc'[t] \in {"flushed", "reserve", "send_fin"} => pc[t] \in {"flushed", "reserve", "send_fin"}
    BY <1>2, <1>10, Zenon DEF Register, Woken, FlushReturns, MarkClosed, reserve_close_packet_num,
                       Done, Goto, Labels
  <2>2. Unsent' = Unsent /\ Bytes(wire)' = Bytes(wire)
    BY Zenon, <1>4, <2>1, UnsentSame
  <2> QED BY <1>2, <2>1, <2>2, QuietStep
<1>11. ASSUME NEW t \in Tasks, send_fin(t)
       PROVE  FInv'
  <2>1. /\ wire' = Append(wire, Fin(arg[t])) /\ pc' = [pc EXCEPT ![t] = "idle"]
        /\ UNCHANGED <<channel, packetiser, send_queue, enqueued, mark>>
    BY <1>11 DEF send_fin, Done, Goto
  <2>2. Fin(arg[t]) \in Datagram /\ Fin(arg[t]).bytes = 0
    BY <1>1 DEF Types, Fin, Datagram
  <2>3. Bytes(wire') = Bytes(wire) + 0
    BY <1>2, <2>1, <2>2, BytesAppend
  <2>4. Bytes(wire)' = Bytes(wire)
    <3>1. Bytes(wire)' = Bytes(wire')
      BY DEF Bytes
    <3> QED BY <1>3, <2>3, <3>1
  <2>5. Unsent' = Unsent
    BY Zenon, <2>1, UnsentSame
  <2> QED BY <1>2, <2>1, <2>4, <2>5, QuietStep
<1>12. CASE RecvFirst \/ RecvMore \/ Packetise \/ PublishNumber
  <2>1. Unsent' = Unsent
    BY <1>1, <1>12, TakeUnsent, PacketiseUnsent, UnsentSame DEF PublishNumber
  <2>2. UNCHANGED <<calls, wire, enqueued, mark>>
    BY <1>12 DEF RecvFirst, RecvMore, Take, Packetise, PublishNumber
  <2> QED BY <1>4, <2>1, <2>2, QuietStep, Zenon DEF calls
<1>13. CASE WriteDatagram
  <2>1. UNCHANGED <<calls, enqueued, mark>>
    BY <1>13 DEF WriteDatagram
  <2>2. PICK n \in Nat : Unsent = Unsent' + n /\ Bytes(wire)' = Bytes(wire) + n /\ Unsent' \in Nat
    BY <1>1, <1>13, WriteUnsent
  <2>3. Conserved'
    BY <1>2, <1>3, <2>1, <2>2 DEF FInv, Conserved
  <2>4. FlushMeansOnWire'
    BY <1>2, <1>3, <2>1, <2>2 DEF FInv, FlushMeansOnWire, calls
  <2> QED BY <2>3, <2>4 DEF FInv
<1>14. CASE AccountBytes \/ NotifyWaiters \/ UNCHANGED vars
  <2>1. UNCHANGED <<calls, channel, packetiser, send_queue, wire, enqueued, mark>>
    BY <1>14 DEF AccountBytes, NotifyWaiters, vars
  <2>2. Unsent' = Unsent
    BY <2>1, UnsentSame
  <2> QED BY <1>4, <2>1, <2>2, QuietStep DEF calls
<1> QED BY <1>5, <1>6, <1>7, <1>8, <1>9, <1>10, <1>11, <1>12, <1>13, <1>14,
           StepCases, ZenonT(40) DEF SenderStep

(* A flush that has seen zero means it: whatever other tasks send, cancel, *)
(* flush or close meanwhile, every byte accepted before the flush was      *)
(* called is on the wire.                                                  *)
THEOREM FlushCorrect == Spec => []FlushMeansOnWire
<1>1. Init => PInv /\ FInv
  BY InitPInv, InitFInv
<1>2. (PInv /\ FInv) /\ [Next]_vars => (PInv /\ FInv)'
  BY StepPInv, StepFInv
<1>3. FInv => FlushMeansOnWire
  BY DEF FInv
<1> QED BY <1>1, <1>2, <1>3, PTL DEF Spec

-----------------------------------------------------------------------------
(* The data packets of a sequence of datagrams, one datagram more or fewer. *)
LEMMA CountAppend ==
  ASSUME NEW d \in Seq(Datagram), NEW x \in Datagram
  PROVE  /\ DataPackets(d) \in Nat
         /\ DataPackets(Append(d, x)) = DataPackets(d) + (IF x.kind = "Data" THEN x.num ELSE 0)
<1>1. PICK s : s = [i \in DOMAIN d |-> IF d[i].kind = "Data" THEN d[i].num ELSE 0]
  BY Zenon
<1>2. PICK n : n = IF x.kind = "Data" THEN x.num ELSE 0
  OBVIOUS
<1>3. n \in Nat
  BY <1>2 DEF Datagram
<1>4. s \in Seq(Nat) /\ Len(s) = Len(d)
  BY <1>1, DatagramFields
<1>5. [i \in DOMAIN Append(d, x) |->
         IF Append(d, x)[i].kind = "Data" THEN Append(d, x)[i].num ELSE 0] = Append(s, n)
  BY <1>1, <1>2, <1>3, <1>4
<1>6. SumFunction(s) \in Nat /\ SumFunction(Append(s, n)) = SumFunction(s) + n
  BY <1>3, <1>4, SumAppend
<1>7. DataPackets(d) = SumFunction(s) /\ DataPackets(Append(d, x)) = SumFunction(Append(s, n))
  BY <1>1, <1>5, Zenon DEF DataPackets
<1> QED BY <1>2, <1>6, <1>7

(* A sequence that begins with a data datagram.                            *)
LEMMA CountTail ==
  ASSUME NEW d \in Seq(Datagram), d # <<>>, Head(d).kind = "Data"
  PROVE  DataPackets(d) = Head(d).num + DataPackets(Tail(d))
<1>1. PICK s : s = [i \in DOMAIN d |-> IF d[i].kind = "Data" THEN d[i].num ELSE 0]
  BY Zenon
<1>2. s \in Seq(Nat) /\ Len(s) = Len(d) /\ s # <<>>
  BY <1>1, DatagramFields
<1>3. Head(s) = Head(d).num
  BY <1>1, <1>2
<1>4. [i \in DOMAIN Tail(d) |-> IF Tail(d)[i].kind = "Data" THEN Tail(d)[i].num ELSE 0] = Tail(s)
  BY <1>1, <1>2
<1>5. SumFunction(s) = Head(s) + SumFunction(Tail(s))
  BY <1>2, SumTail
<1>6. DataPackets(d) = SumFunction(s) /\ DataPackets(Tail(d)) = SumFunction(Tail(s))
  BY <1>1, <1>4, Zenon DEF DataPackets
<1> QED BY <1>3, <1>5, <1>6

(* Prefixes of an extended sequence, and of one that lost its head.        *)
LEMMA Prefixes ==
  ASSUME NEW d \in Seq(Datagram), NEW x \in Datagram
  PROVE  /\ \A i \in 1 .. Len(d) : SubSeq(Append(d, x), 1, i - 1) = SubSeq(d, 1, i - 1)
         /\ SubSeq(Append(d, x), 1, Len(d)) = d
         /\ d # <<>> => \A i \in 1 .. Len(Tail(d)) :
              /\ Tail(d)[i] = d[i + 1] /\ i + 1 \in 1 .. Len(d)
              /\ SubSeq(d, 1, i) \in Seq(Datagram) /\ SubSeq(d, 1, i) # <<>>
              /\ Head(SubSeq(d, 1, i)) = Head(d)
              /\ Tail(SubSeq(d, 1, i)) = SubSeq(Tail(d), 1, i - 1)
<1>1. \A i \in 1 .. Len(d) : SubSeq(Append(d, x), 1, i - 1) = SubSeq(d, 1, i - 1)
  OBVIOUS
<1>2. SubSeq(Append(d, x), 1, Len(d)) = d
  OBVIOUS
<1>3. ASSUME d # <<>>, NEW i \in 1 .. Len(Tail(d))
      PROVE  /\ Tail(d)[i] = d[i + 1] /\ i + 1 \in 1 .. Len(d)
             /\ SubSeq(d, 1, i) \in Seq(Datagram) /\ SubSeq(d, 1, i) # <<>>
             /\ Head(SubSeq(d, 1, i)) = Head(d)
             /\ Tail(SubSeq(d, 1, i)) = SubSeq(Tail(d), 1, i - 1)
  <2>1. Tail(d)[i] = d[i + 1] /\ i + 1 \in 1 .. Len(d)
    BY <1>3
  <2>2. SubSeq(d, 1, i) \in Seq(Datagram) /\ Len(SubSeq(d, 1, i)) = i
    BY <2>1
  <2>3. SubSeq(d, 1, i) # <<>> /\ Head(SubSeq(d, 1, i)) = Head(d)
    BY <1>3, <2>1, <2>2
  <2>4. Tail(SubSeq(d, 1, i)) = SubSeq(Tail(d), 1, i - 1)
    BY <1>3, <2>1, <2>2
  <2> QED BY <2>1, <2>2, <2>3, <2>4
<1> QED BY <1>1, <1>2, <1>3

(* Nothing is numbered at construction.                                    *)
LEMMA InitNInv == Init => NInv
<1> SUFFICES ASSUME Init
             PROVE  NInv
  OBVIOUS
<1>1. wire = <<>> /\ send_queue = <<>> /\ next_packet_num = First /\ First \in Nat
  BY WriterAssumption DEF Init
<1>2. DataPackets(<<>>) = 0
  <2>1. [i \in DOMAIN <<>> |-> IF <<>>[i].kind = "Data" THEN <<>>[i].num ELSE 0] = <<>>
    OBVIOUS
  <2> QED BY <2>1, NothingSent, Zenon DEF DataPackets
<1> QED BY <1>1, <1>2 DEF NInv, Loaded, NumbersConsecutive

(* The steps that touch neither the queue of datagrams nor the wire.       *)
LEMMA OtherSteps ==
  ASSUME [Next]_vars
  PROVE  \/ Packetise \/ WriteDatagram \/ \E t \in Tasks : send_fin(t)
         \/ UNCHANGED <<wire, send_queue, next_packet_num>>
<1> USE DEF packetiser
<1>1. ASSUME NEW t \in Tasks,
             \/ \E name \in SendCalls, len \in Sizes : CallSend(t, name, len)
             \/ \E name \in {"flush", "close"} : CallFlush(t, name)
             \/ CountPending(t) \/ Enqueue(t) \/ ChannelFull(t) \/ UndoPending(t)
             \/ CancelSend(t)
             \/ CheckPending(t) \/ Register(t) \/ Woken(t) \/ FlushReturns(t)
             \/ MarkClosed(t) \/ reserve_close_packet_num(t)
      PROVE  UNCHANGED <<wire, send_queue, next_packet_num>>
  <2>1. CASE \/ \E name \in SendCalls, len \in Sizes : CallSend(t, name, len)
             \/ \E name \in {"flush", "close"} : CallFlush(t, name)
    BY <2>1, Zenon DEF CallSend, CallFlush
  <2>2. CASE CountPending(t) \/ Enqueue(t) \/ ChannelFull(t) \/ UndoPending(t) \/ CancelSend(t)
    BY <2>2, Zenon DEF CountPending, Enqueue, ChannelFull, UndoPending, CancelSend
  <2>3. CASE \/ CheckPending(t) \/ Register(t) \/ Woken(t) \/ FlushReturns(t)
             \/ MarkClosed(t) \/ reserve_close_packet_num(t)
    BY <2>3, Zenon DEF CheckPending, Register, Woken, FlushReturns, MarkClosed, reserve_close_packet_num
  <2> QED BY <1>1, <2>1, <2>2, <2>3
<1>2. CASE RecvFirst \/ RecvMore \/ PublishNumber \/ AccountBytes \/ NotifyWaiters
  BY <1>2 DEF RecvFirst, RecvMore, Take, PublishNumber, AccountBytes, NotifyWaiters
<1>3. CASE UNCHANGED vars
  BY <1>3 DEF vars
<1> QED BY <1>1, <1>2, <1>3, StepCases, ZenonT(40) DEF SenderStep

(* Every step keeps the numbers consecutive.                               *)
LEMMA StepNInv == PInv /\ NInv /\ [Next]_vars => NInv'
<1> SUFFICES ASSUME PInv, NInv, [Next]_vars
             PROVE  NInv'
  OBVIOUS
<1>1. Types /\ Loaded /\ NumbersConsecutive
  BY Zenon DEF PInv, NInv
<1>2. /\ wire \in Seq(Datagram) /\ send_queue \in Seq(Datagram) /\ next_packet_num \in Nat
      /\ First \in Nat
  BY <1>1, WriterAssumption, Zenon DEF Types
<1>3. /\ DOMAIN wire = 1 .. Len(wire) /\ Len(wire) \in Nat
      /\ DOMAIN send_queue = 1 .. Len(send_queue) /\ Len(send_queue) \in Nat
  BY <1>2, DatagramFields
<1>4. DataPackets(wire) \in Nat /\ DataPackets(send_queue) \in Nat
  <2>1. [kind |-> "Data", first |-> 0, num |-> 0, bytes |-> 0] \in Datagram
    BY DEF Datagram
  <2> QED BY <1>2, <2>1, CountAppend
<1>5. NInv' <=>
        /\ \A i \in DOMAIN send_queue' : send_queue'[i].kind = "Data" /\ send_queue'[i].bytes > 0
        /\ \A i \in DOMAIN wire' : wire'[i].kind = "Data" =>
             wire'[i].first = First + DataPackets(SubSeq(wire', 1, i - 1))
        /\ \A i \in DOMAIN send_queue' :
             send_queue'[i].first =
               First + DataPackets(wire') + DataPackets(SubSeq(send_queue', 1, i - 1))
        /\ next_packet_num' = First + DataPackets(wire') + DataPackets(send_queue')
  BY Zenon DEF NInv, Loaded, NumbersConsecutive, DataPackets
<1>6. CASE UNCHANGED <<wire, send_queue, next_packet_num>>
  BY <1>1, <1>6, Zenon DEF NInv, Loaded, NumbersConsecutive, DataPackets
<1>7. ASSUME NEW t \in Tasks, send_fin(t)
      PROVE  NInv'
  <2>1. PICK fin : fin = Fin(arg[t])
    OBVIOUS
  <2>2. wire' = Append(wire, fin) /\ send_queue' = send_queue /\ next_packet_num' = next_packet_num
    BY <1>7, <2>1 DEF send_fin, packetiser
  <2>3. fin \in Datagram /\ fin.kind = "Fin"
    BY <1>1, <2>1 DEF Types, Fin, Datagram
  <2>4. PICK w : w = Append(wire, fin)
    BY Zenon
  <2>5. DataPackets(w) = DataPackets(wire)
    <3>1. DataPackets(w) = DataPackets(wire) + 0
      BY <1>2, <2>3, <2>4, CountAppend
    <3> QED BY <1>4, <3>1
  <2>6. /\ DOMAIN w = 1 .. (Len(wire) + 1) /\ w[Len(wire) + 1] = fin
        /\ \A i \in 1 .. Len(wire) : w[i] = wire[i] /\ SubSeq(w, 1, i - 1) = SubSeq(wire, 1, i - 1)
    <3>1. \A i \in 1 .. Len(wire) : SubSeq(w, 1, i - 1) = SubSeq(wire, 1, i - 1)
      BY <1>2, <2>3, <2>4, Prefixes
    <3>2. /\ DOMAIN w = 1 .. (Len(wire) + 1) /\ w[Len(wire) + 1] = fin
          /\ \A i \in 1 .. Len(wire) : w[i] = wire[i]
      BY <1>2, <2>3, <2>4
    <3> QED BY <3>1, <3>2
  <2>7. ASSUME NEW i \in DOMAIN w, w[i].kind = "Data"
        PROVE  w[i].first = First + DataPackets(SubSeq(w, 1, i - 1))
    <3>1. i \in 1 .. Len(wire)
      BY <1>3, <2>3, <2>6, <2>7
    <3> QED BY <1>1, <1>3, <2>6, <2>7, <3>1, Zenon DEF NumbersConsecutive
  <2>8. /\ \A i \in DOMAIN send_queue :
             /\ send_queue[i].kind = "Data" /\ send_queue[i].bytes > 0
             /\ send_queue[i].first =
                  First + DataPackets(w) + DataPackets(SubSeq(send_queue, 1, i - 1))
        /\ next_packet_num = First + DataPackets(w) + DataPackets(send_queue)
    BY <1>1, <2>5, Zenon DEF Loaded, NumbersConsecutive
  <2>9. wire' = w
    BY <2>2, <2>4
  <2> QED BY <1>5, <2>2, <2>7, <2>8, <2>9, Zenon
<1>8. CASE Packetise
  <2>1. PICK bytes \in Nat, num \in Nat :
          /\ bytes > 0
          /\ Data(next_packet_num, num, bytes) \in Datagram
          /\ send_queue' = Append(send_queue, Data(next_packet_num, num, bytes))
          /\ next_packet_num' = next_packet_num + num
    BY <1>1, <1>8, PacketiseDoes
  <2>2. PICK d : d = Data(next_packet_num, num, bytes)
    OBVIOUS
  <2>3. /\ d \in Datagram /\ d.kind = "Data" /\ d.first = next_packet_num /\ d.num = num
        /\ d.bytes = bytes
    BY <2>1, <2>2 DEF Data
  <2>4. PICK q : q = Append(send_queue, d)
    BY Zenon
  <2>5. wire' = wire /\ send_queue' = q
    BY <1>8, <2>1, <2>2, <2>4 DEF Packetise
  <2>6. DataPackets(q) = DataPackets(send_queue) + num
    BY <1>2, <2>3, <2>4, CountAppend
  <2>7. /\ DOMAIN q = 1 .. (Len(send_queue) + 1) /\ q[Len(send_queue) + 1] = d
        /\ \A i \in 1 .. Len(send_queue) :
             q[i] = send_queue[i] /\ SubSeq(q, 1, i - 1) = SubSeq(send_queue, 1, i - 1)
        /\ SubSeq(q, 1, Len(send_queue)) = send_queue
    <3>1. /\ \A i \in 1 .. Len(send_queue) : SubSeq(q, 1, i - 1) = SubSeq(send_queue, 1, i - 1)
          /\ SubSeq(q, 1, Len(send_queue)) = send_queue
      BY <1>2, <2>3, <2>4, Prefixes
    <3>2. /\ DOMAIN q = 1 .. (Len(send_queue) + 1) /\ q[Len(send_queue) + 1] = d
          /\ \A i \in 1 .. Len(send_queue) : q[i] = send_queue[i]
      BY <1>2, <2>3, <2>4
    <3> QED BY <3>1, <3>2
  <2>8. next_packet_num = First + DataPackets(wire) + DataPackets(send_queue)
    BY <1>1, Zenon DEF NumbersConsecutive
  <2>9. ASSUME NEW i \in DOMAIN q
        PROVE  /\ q[i].kind = "Data" /\ q[i].bytes > 0
               /\ q[i].first = First + DataPackets(wire) + DataPackets(SubSeq(q, 1, i - 1))
    <3>1. CASE i \in 1 .. Len(send_queue)
      BY <1>1, <1>3, <2>7, <3>1, Zenon DEF Loaded, NumbersConsecutive
    <3>2. CASE i = Len(send_queue) + 1
      <4>1. i - 1 = Len(send_queue)
        BY <1>3, <3>2
      <4> QED BY Zenon, <2>1, <2>3, <2>7, <2>8, <3>2, <4>1
    <3> QED BY <1>3, <2>7, <3>1, <3>2
  <2>10. next_packet_num + num = First + DataPackets(wire) + DataPackets(q)
    BY <1>2, <1>4, <2>6, <2>8
  <2>11. \A i \in DOMAIN wire : wire[i].kind = "Data" =>
           wire[i].first = First + DataPackets(SubSeq(wire, 1, i - 1))
    BY <1>1 DEF NumbersConsecutive
  <2> QED BY <1>5, <2>1, <2>5, <2>9, <2>10, <2>11, Zenon
<1>9. CASE WriteDatagram
  <2>1. PICK h : h = Head(send_queue)
    OBVIOUS
  <2>2. PICK w : w = Append(wire, h)
    BY Zenon
  <2>3. PICK q : q = Tail(send_queue)
    BY Zenon
  <2>4. /\ send_queue # <<>> /\ wire' = w /\ send_queue' = q
        /\ next_packet_num' = next_packet_num
    BY <1>9, <2>1, <2>2, <2>3 DEF WriteDatagram, packetiser
  <2>5. /\ h \in Datagram /\ h = send_queue[1] /\ 1 \in DOMAIN send_queue
        /\ q \in Seq(Datagram) /\ Len(q) = Len(send_queue) - 1 /\ DOMAIN q = 1 .. Len(q)
    BY <1>2, <2>1, <2>3, <2>4
  <2>6. h.kind = "Data" /\ h.num \in Nat /\ h.first \in Nat
    BY <1>1, <1>2, <2>5, DatagramFields, Zenon DEF Loaded
  <2>7. DataPackets(w) = DataPackets(wire) + h.num
    BY <1>2, <2>2, <2>5, <2>6, CountAppend
  <2>8. DataPackets(q) \in Nat /\ DataPackets(send_queue) = h.num + DataPackets(q)
    <3>1. DataPackets(q) \in Nat
      BY Zenon, <2>5, CountAppend
    <3>2. DataPackets(send_queue) = Head(send_queue).num + DataPackets(Tail(send_queue))
      BY <1>2, <2>1, <2>4, <2>6, CountTail
    <3> QED BY <2>1, <2>3, <3>1, <3>2
  <2>9. h.first = First + DataPackets(wire)
    <3>1. SubSeq(send_queue, 1, 1 - 1) = <<>>
      BY <1>2
    <3>2. DataPackets(<<>>) = 0
      <4>1. [i \in DOMAIN <<>> |-> IF <<>>[i].kind = "Data" THEN <<>>[i].num ELSE 0] = <<>>
        OBVIOUS
      <4> QED BY <4>1, NothingSent, Zenon DEF DataPackets
    <3>3. h.first = First + DataPackets(wire) + DataPackets(SubSeq(send_queue, 1, 1 - 1))
      BY <1>1, <2>5 DEF NumbersConsecutive
    <3>4. h.first = First + DataPackets(wire) + 0
      BY <3>1, <3>2, <3>3, Zenon
    <3> QED BY <1>2, <1>4, <3>4
  <2>10. /\ DOMAIN w = 1 .. (Len(wire) + 1) /\ w[Len(wire) + 1] = h
         /\ \A i \in 1 .. Len(wire) : w[i] = wire[i] /\ SubSeq(w, 1, i - 1) = SubSeq(wire, 1, i - 1)
         /\ SubSeq(w, 1, Len(wire)) = wire
    <3>1. /\ \A i \in 1 .. Len(wire) : SubSeq(w, 1, i - 1) = SubSeq(wire, 1, i - 1)
          /\ SubSeq(w, 1, Len(wire)) = wire
      BY <1>2, <2>2, <2>5, Prefixes
    <3>2. /\ DOMAIN w = 1 .. (Len(wire) + 1) /\ w[Len(wire) + 1] = h
          /\ \A i \in 1 .. Len(wire) : w[i] = wire[i]
      BY <1>2, <2>2, <2>5
    <3> QED BY <3>1, <3>2
  <2>11. ASSUME NEW i \in DOMAIN w, w[i].kind = "Data"
         PROVE  w[i].first = First + DataPackets(SubSeq(w, 1, i - 1))
    <3>1. CASE i \in 1 .. Len(wire)
      BY <1>1, <1>3, <2>10, <2>11, <3>1, Zenon DEF NumbersConsecutive
    <3>2. CASE i = Len(wire) + 1
      <4>1. i - 1 = Len(wire)
        BY <1>3, <3>2
      <4> QED BY Zenon, <2>9, <2>10, <3>2, <4>1
    <3> QED BY <1>3, <2>10, <3>1, <3>2
  <2>12. ASSUME NEW i \in DOMAIN q
         PROVE  /\ q[i].kind = "Data" /\ q[i].bytes > 0
                /\ q[i].first = First + DataPackets(w) + DataPackets(SubSeq(q, 1, i - 1))
    <3>1. PICK s : s = SubSeq(send_queue, 1, i)
      BY Zenon
    <3>2. /\ q[i] = send_queue[i + 1] /\ i + 1 \in 1 .. Len(send_queue)
          /\ s \in Seq(Datagram) /\ s # <<>> /\ Head(s) = h /\ Tail(s) = SubSeq(q, 1, i - 1)
      <4>1. i \in 1 .. Len(Tail(send_queue))
        BY Zenon, <2>3, <2>5
      <4> QED BY <1>2, <2>1, <2>3, <2>4, <2>5, <3>1, <4>1, Prefixes
    <3>3. q[i].kind = "Data" /\ q[i].bytes > 0
      BY <1>1, <1>3, <3>2 DEF Loaded
    <3>4. i \in Nat /\ (i + 1) - 1 = i
      BY <2>5
    <3>5. q[i].first = First + DataPackets(wire) + DataPackets(s)
      BY <1>1, <1>3, <3>1, <3>2, <3>4 DEF NumbersConsecutive
    <3>6. DataPackets(s) = h.num + DataPackets(SubSeq(q, 1, i - 1))
      BY Zenon, <2>6, <3>2, CountTail
    <3>7. DataPackets(SubSeq(q, 1, i - 1)) \in Nat
      <4>1. Tail(s) \in Seq(Datagram)
        BY <3>2, HeadTailProperties
      <4> QED BY Zenon, <2>5, <3>2, <4>1, CountAppend
    <3> QED BY <1>2, <1>4, <2>6, <2>7, <3>3, <3>5, <3>6, <3>7
  <2>13. next_packet_num = First + DataPackets(w) + DataPackets(q)
    <3>1. next_packet_num = First + DataPackets(wire) + DataPackets(send_queue)
      BY <1>1, Zenon DEF NumbersConsecutive
    <3> QED BY <1>2, <1>4, <2>6, <2>7, <2>8, <3>1
  <2> QED BY <1>5, <2>4, <2>11, <2>12, <2>13, Zenon
<1> QED BY <1>6, <1>7, <1>8, <1>9, OtherSteps

(* Data packets leave in number order without gap or repetition, however   *)
(* the payloads were cut into packets and datagrams, and although close()  *)
(* takes the number of its Fin from a counter of its own.                  *)
THEOREM NumbersCorrect == Spec => []NumbersConsecutive
<1>1. Init => PInv /\ NInv
  BY InitPInv, InitNInv
<1>2. (PInv /\ NInv) /\ [Next]_vars => (PInv /\ NInv)'
  BY StepPInv, StepNInv
<1>3. NInv => NumbersConsecutive
  BY DEF NInv
<1> QED BY <1>1, <1>2, <1>3, PTL DEF Spec

-----------------------------------------------------------------------------
(* Nothing is closed at construction.                                      *)
LEMMA InitOInv == Init => OInv
BY DEF Init, OInv, Over, NoDataAfterFin

(* A step that writes and accepts nothing: only the labels of the tasks    *)
(* have to be looked at.                                                   *)
LEMMA OverQuiet ==
  ASSUME OInv, UNCHANGED <<closed, raced, wire, enqueued>>,
         \A t \in Tasks :
           /\ pc'[t] \in {"reserve", "send_fin"} => pc[t] \in {"reserve", "send_fin"}
           /\ pc'[t] \in {"count", "enqueue"} => pc[t] \in {"count", "enqueue"} \/ ~closed
  PROVE  OInv'
<1>1. Bytes(wire)' = Bytes(wire)
  BY Zenon DEF Bytes
<1>2. Over'
  BY <1>1, Zenon DEF OInv, Over
<1>3. NoDataAfterFin'
  BY DEF OInv, NoDataAfterFin
<1> QED BY <1>2, <1>3, Zenon DEF OInv

(* After a close that raced with no send the sender has nothing to send.   *)
LEMMA NothingLeft ==
  ASSUME PInv, Conserved, Loaded, Over, closed, ~raced
  PROVE  send_queue = <<>>
<1> SUFFICES ASSUME send_queue # <<>>
             PROVE  FALSE
  OBVIOUS
<1>1. Types
  BY Zenon DEF PInv
<1>2. enqueued = Unsent + Bytes(wire) /\ enqueued <= Bytes(wire)
  BY DEF Conserved, Over
<1>3. Unsent = 0
  BY <1>1, <1>2, Parts
<1>4. Bytes(send_queue) = 0
  <2>1. SumFunction(channel) + data_queue + Bytes(send_queue) = 0
    BY <1>3 DEF Unsent
  <2> QED BY <1>1, <2>1, Parts
<1>5. send_queue \in Seq(Datagram)
  BY <1>1 DEF Types
<1>6. /\ Head(send_queue).bytes \in Nat /\ Bytes(Tail(send_queue)) \in Nat
      /\ Bytes(send_queue) = Head(send_queue).bytes + Bytes(Tail(send_queue))
  BY <1>5, BytesTail
<1>7. Head(send_queue).bytes > 0
  <2>1. Head(send_queue) = send_queue[1] /\ 1 \in DOMAIN send_queue
    BY <1>5
  <2> QED BY <2>1 DEF Loaded
<1> QED BY <1>4, <1>6, <1>7

(* Every step keeps the Fin last, unless a send races with the close.      *)
LEMMA StepOInv == PInv /\ FInv /\ NInv /\ OInv /\ [Next]_vars => OInv'
<1> SUFFICES ASSUME PInv, FInv, NInv, OInv, [Next]_vars
             PROVE  OInv'
  OBVIOUS
<1> USE DEF packetiser, history, atomics
<1>1. Types /\ Conserved /\ FlushMeansOnWire /\ Loaded /\ Over /\ NoDataAfterFin
  BY Zenon DEF PInv, FInv, NInv, OInv
<1>2. /\ pc \in [Tasks -> Labels] /\ wire \in Seq(Datagram) /\ send_queue \in Seq(Datagram)
      /\ enqueued \in Nat /\ mark \in [Tasks -> Nat]
  BY <1>1, Zenon DEF Types
<1>3. DOMAIN wire = 1 .. Len(wire) /\ Len(wire) \in Nat
  BY Zenon, <1>2, DatagramFields
<1>4. ASSUME NEW t \in Tasks,
             \/ \E name \in SendCalls, len \in Sizes : CallSend(t, name, len)
             \/ \E name \in {"flush", "close"} : CallFlush(t, name)
      PROVE  OInv'
  <2>1. /\ UNCHANGED <<closed, raced, wire, enqueued>>
        /\ pc' = pc \/ (pc' = [pc EXCEPT ![t] = "count"] /\ ~closed) \/ pc' = [pc EXCEPT ![t] = "check"]
    BY <1>4, Zenon DEF CallSend, CallFlush, Goto
  <2> QED BY Zenon, <1>2, <2>1, OverQuiet
<1>5. ASSUME NEW t \in Tasks, CountPending(t) \/ ChannelFull(t) \/ UndoPending(t) \/ CancelSend(t)
      PROVE  OInv'
  <2>1. /\ UNCHANGED <<closed, raced, wire, enqueued>>
        /\ \/ pc' = [pc EXCEPT ![t] = "undo"] \/ pc' = [pc EXCEPT ![t] = "idle"]
           \/ pc[t] = "count" /\ pc' = [pc EXCEPT ![t] = "enqueue"]
    BY <1>5, Zenon DEF CountPending, ChannelFull, UndoPending, CancelSend, Done, Goto
  <2> QED BY Zenon, <1>2, <2>1, OverQuiet
<1>6. ASSUME NEW t \in Tasks, Enqueue(t)
      PROVE  OInv'
  <2>1. /\ UNCHANGED <<closed, raced, wire>> /\ pc' = [pc EXCEPT ![t] = "idle"]
        /\ pc[t] = "enqueue"
    BY <1>6, Zenon DEF Enqueue, Done, Goto
  <2>2. ~(closed /\ ~raced)
    BY <1>1, <2>1, Zenon DEF Over
  <2>3. Over'
    BY <1>1, <1>2, <2>1, <2>2, Zenon DEF Over
  <2>4. NoDataAfterFin'
    BY <1>1, <2>1, Zenon DEF NoDataAfterFin
  <2> QED BY <2>3, <2>4, Zenon DEF OInv
<1>7. ASSUME NEW t \in Tasks,
             CheckPending(t) \/ Register(t) \/ Woken(t) \/ FlushReturns(t)
               \/ reserve_close_packet_num(t)
      PROVE  OInv'
  <2>1. /\ UNCHANGED <<closed, raced, wire, enqueued>>
        /\ \/ \E label \in {"flushed", "register", "await", "recheck", "check", "idle"} :
                pc' = [pc EXCEPT ![t] = label]
           \/ pc[t] = "reserve" /\ pc' = [pc EXCEPT ![t] = "send_fin"]
    BY <1>7, Zenon DEF CheckPending, Register, Woken, FlushReturns, reserve_close_packet_num, Done, Goto
  <2> QED BY Zenon, <1>2, <2>1, OverQuiet
<1>8. ASSUME NEW t \in Tasks, MarkClosed(t)
      PROVE  OInv'
  <2>1. /\ pc[t] = "flushed" /\ closed' = TRUE /\ pc' = [pc EXCEPT ![t] = "reserve"]
        /\ UNCHANGED <<wire, enqueued>>
    BY <1>8 DEF MarkClosed, Goto
  <2>2. ~raced' => /\ ~raced /\ ~(enqueued > mark[t])
                   /\ \A u \in Tasks : pc[u] \notin {"count", "enqueue"}
    BY <1>8, Zenon DEF MarkClosed
  <2>3. Bytes(wire) >= mark[t] /\ Bytes(wire)' = Bytes(wire) /\ Bytes(wire) \in Nat
    <3>1. Bytes(wire) >= mark[t]
      BY <1>1, <2>1 DEF FlushMeansOnWire
    <3>2. Bytes(wire)' = Bytes(wire)
      BY <2>1, Zenon DEF Bytes
    <3> QED BY Zenon, <1>1, <3>1, <3>2, Parts
  <2>4. ~raced' => enqueued' <= Bytes(wire)'
    BY <1>2, <2>1, <2>2, <2>3
  <2>5. ~raced' => \A u \in Tasks : pc'[u] \notin {"count", "enqueue"}
    BY Zenon, <1>2, <2>1, <2>2
  <2>6. Over'
    BY <2>1, <2>4, <2>5, Zenon DEF Over
  <2>7. NoDataAfterFin'
    BY <1>1, <2>1, <2>2 DEF NoDataAfterFin
  <2> QED BY <2>6, <2>7 DEF OInv
<1>9. ASSUME NEW t \in Tasks, send_fin(t)
      PROVE  OInv'
  <2>1. PICK fin : fin = Fin(arg[t])
    OBVIOUS
  <2>2. /\ pc[t] = "send_fin" /\ wire' = Append(wire, fin) /\ pc' = [pc EXCEPT ![t] = "idle"]
        /\ UNCHANGED <<closed, raced, enqueued>>
    BY <1>9, <2>1, Zenon, Zenon DEF send_fin, Done, Goto
  <2>3. fin \in Datagram /\ fin.kind = "Fin" /\ fin.bytes = 0
    BY <1>1, <2>1, Zenon DEF Types, Fin, Datagram
  <2>4. closed
    BY <1>1, <2>2 DEF Over
  <2>5. Bytes(wire)' = Bytes(wire)
    <3>1. Bytes(wire') = Bytes(wire) + 0 /\ Bytes(wire) \in Nat
      BY <1>2, <2>2, <2>3, BytesAppend
    <3>2. Bytes(wire)' = Bytes(wire')
      BY Zenon DEF Bytes
    <3> QED BY <3>1, <3>2
  <2>6. /\ DOMAIN wire' = 1 .. (Len(wire) + 1) /\ wire'[Len(wire) + 1] = fin
        /\ \A i \in 1 .. Len(wire) : wire'[i] = wire[i]
    BY <1>2, <2>2, <2>3
  <2>7. Over'
    <3>1. \A u \in Tasks : pc'[u] \in {"reserve", "send_fin"} => closed'
      BY Zenon, <2>2, <2>4
    <3>2. closed' /\ ~raced' => /\ enqueued' <= Bytes(wire)'
                                /\ \A u \in Tasks : pc'[u] \notin {"count", "enqueue"}
      BY <1>1, <1>2, <2>2, <2>5, Zenon DEF Over
    <3> QED BY <2>2, <2>4, <3>1, <3>2, Zenon DEF Over
  <2>8. NoDataAfterFin'
    <3> SUFFICES ASSUME ~raced, NEW i \in DOMAIN wire', NEW j \in DOMAIN wire',
                        wire'[i].kind = "Fin", wire'[j].kind = "Data"
                 PROVE  j < i
      BY <2>2, Zenon DEF NoDataAfterFin
    <3>1. j \in 1 .. Len(wire) /\ wire[j].kind = "Data"
      BY <1>3, <2>3, <2>6
    <3>2. CASE i \in 1 .. Len(wire)
      BY <1>1, <1>3, <2>6, <3>1, <3>2, Zenon DEF NoDataAfterFin
    <3> QED BY <1>3, <2>6, <3>1, <3>2
  <2> QED BY <2>7, <2>8 DEF OInv
<1>10. CASE RecvFirst \/ RecvMore \/ Packetise \/ PublishNumber \/ AccountBytes \/ NotifyWaiters
            \/ UNCHANGED vars
  <2>1. UNCHANGED <<closed, raced, wire, enqueued, pc>>
    BY <1>10 DEF RecvFirst, RecvMore, Take, Packetise, PublishNumber, AccountBytes,
                 NotifyWaiters, vars, calls
  <2> QED BY <2>1, OverQuiet
<1>11. CASE WriteDatagram
  <2>1. /\ send_queue # <<>> /\ wire' = Append(wire, Head(send_queue))
        /\ UNCHANGED <<closed, raced, enqueued, pc>>
    BY <1>11 DEF WriteDatagram, calls
  <2>2. ~(closed /\ ~raced)
    BY <1>1, <2>1, NothingLeft
  <2>3. PICK h : h = Head(send_queue)
    OBVIOUS
  <2>4. h \in Datagram /\ h.kind = "Data"
    <3>1. h = send_queue[1] /\ 1 \in DOMAIN send_queue /\ h \in Datagram
      BY <1>2, <2>1, <2>3
    <3> QED BY <1>1, <3>1 DEF Loaded
  <2>5. /\ DOMAIN wire' = 1 .. (Len(wire) + 1) /\ wire'[Len(wire) + 1] = h
        /\ \A i \in 1 .. Len(wire) : wire'[i] = wire[i]
    BY <1>2, <2>1, <2>3, <2>4
  <2>6. ASSUME NEW i \in DOMAIN wire', wire'[i].kind = "Fin"
        PROVE  closed
    <3>1. i \in 1 .. Len(wire)
      BY <1>3, <2>4, <2>5, <2>6
    <3> QED BY <1>1, <1>3, <2>5, <2>6, <3>1, Zenon DEF Over
  <2>7. Over'
    BY <1>1, <2>1, <2>2, <2>6, Zenon DEF Over
  <2>8. NoDataAfterFin'
    BY <2>1, <2>2, <2>6 DEF NoDataAfterFin
  <2> QED BY <2>7, <2>8, Zenon DEF OInv
<1> QED BY <1>4, <1>5, <1>6, <1>7, <1>8, <1>9, <1>10, <1>11, StepCases, ZenonT(40) DEF SenderStep

(* The Fin is the last thing on the wire unless a send overlaps close():   *)
(* a close that overlaps none has flushed all that was accepted, and after *)
(* mark_closed nothing is accepted any more.                               *)
THEOREM FinLast == Spec => []NoDataAfterFin
<1>1. Init => PInv /\ FInv /\ NInv /\ OInv
  BY InitPInv, InitFInv, InitNInv, InitOInv
<1>2. (PInv /\ FInv /\ NInv /\ OInv) /\ [Next]_vars => (PInv /\ FInv /\ NInv /\ OInv)'
  BY StepPInv, StepFInv, StepNInv, StepOInv
<1>3. OInv => NoDataAfterFin
  BY DEF OInv
<1> QED BY <1>1, <1>2, <1>3, PTL DEF Spec
=============================================================================
