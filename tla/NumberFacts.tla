---------------------------- MODULE NumberFacts ----------------------------
(***************************************************************************)
(* Numbers, for the proofs of the modules that count records, groups and   *)
(* minutes: sums of naturals over finite sets, multiples and quotients,    *)
(* and finite sets in ascending order of a value.  The sum is the fold of  *)
(* FiniteSetsExt and Functions that the models use.  What is said of every *)
(* finite set needs induction over its size, stated here with a set in the *)
(* place of a predicate: SetsBySize.                                       *)
(***************************************************************************)
EXTENDS FiniteSetsExt, FiniteSetTheorems, TLAPS

(* What holds of 0 and passes on to the next number holds of all numbers. *)
LEMMA NumbersFromZero ==
  ASSUME NEW G, 0 \in G, \A n \in Nat : n \in G => n + 1 \in G
  PROVE  Nat \subseteq G
<1> DEFINE Bad == Nat \ G
<1> SUFFICES ASSUME Bad # {} PROVE FALSE
  OBVIOUS
<1>1. IsWellFoundedOn(OpToRel(<, Nat), Nat)
  BY NatLessThanWellFounded
<1>2. PICK n \in Bad : \A m \in Bad : <<m, n>> \notin OpToRel(<, Nat)
  BY <1>1, WFMin
<1>3. \A m \in Bad : ~ (m < n)
  BY <1>2 DEF OpToRel
<1>4. n # 0 /\ n - 1 \in Nat /\ n - 1 < n /\ n = (n - 1) + 1
  OBVIOUS
<1>5. n - 1 \in G
  BY <1>3, <1>4
<1> QED
  BY <1>4, <1>5

(* What holds of a set if it holds of all sets with one of its elements     *)
(* taken out, holds of every finite set.                                    *)
LEMMA SetsBySize ==
  ASSUME NEW S, IsFiniteSet(S), NEW G,
         \A T \in SUBSET S : (\A x \in T : T \ {x} \in G) => T \in G
  PROVE  SUBSET S \subseteq G
<1> DEFINE Good == {n \in Nat : \A T \in SUBSET S : Cardinality(T) = n => T \in G}
<1>0. \A T \in SUBSET S : /\ IsFiniteSet(T)
                          /\ Cardinality(T) \in Nat
                          /\ \A x \in T : Cardinality(T \ {x}) = Cardinality(T) - 1
                          /\ Cardinality(T) = 0 <=> T = {}
  BY FS_EmptySet, FS_Subset, FS_CardinalityType, FS_RemoveElement
<1>1. 0 \in Good
  BY <1>0
<1>2. ASSUME NEW n \in Nat, n \in Good PROVE n + 1 \in Good
  <2>1. ASSUME NEW T \in SUBSET S, Cardinality(T) = n + 1 PROVE T \in G
    <3>1. ASSUME NEW x \in T PROVE T \ {x} \in G
      <4>1. Cardinality(T \ {x}) = n
        BY <1>0, <2>1
      <4> QED
        BY <4>1, <1>2
    <3> QED
      BY <3>1
  <2> QED
    BY <2>1
<1>3. Nat \subseteq Good
  <2> HIDE DEF Good
  <2> QED BY <1>1, <1>2, NumbersFromZero
<1> QED
  BY <1>0, <1>3

Sum(f, S) == MapThenSumSet(LAMBDA x : f[x], S)

Pick(s) == CHOOSE x \in s : TRUE

(* g adds up f over every subset of S, taking the elements in some order. *)
Adds(g, f, S) ==
  g = [s \in SUBSET S |->
         IF s = {} THEN 0 ELSE f[Pick(s)] + g[s \ {Pick(s)}]]

(* Such a g exists. *)
LEMMA AddsExists ==
  ASSUME NEW f, NEW S, IsFiniteSet(S)
  PROVE  \E g : Adds(g, f, S)
<1> DEFINE Small(n) == {s \in SUBSET S : Cardinality(s) <= n}
<1> DEFINE On(g, n) ==
      g = [s \in Small(n) |->
             IF s = {} THEN 0 ELSE f[Pick(s)] + g[s \ {Pick(s)}]]
<1> DEFINE Good == {n \in Nat : \E g : On(g, n)}
<1>0. \A s \in SUBSET S : /\ IsFiniteSet(s)
                          /\ Cardinality(s) \in Nat
                          /\ Cardinality(s) <= Cardinality(S)
                          /\ s # {} => /\ Pick(s) \in s
                                       /\ Cardinality(s \ {Pick(s)}) = Cardinality(s) - 1
                                       /\ s \ {Pick(s)} \in SUBSET S
  BY FS_Subset, FS_CardinalityType, FS_RemoveElement DEF Pick
<1>1. 0 \in Good
  <2> DEFINE g == [s \in Small(0) |-> 0]
  <2>1. ASSUME NEW s \in Small(0) PROVE s = {}
    <3>1. IsFiniteSet(s) /\ Cardinality(s) = 0
      <4>1. s \in SUBSET S /\ Cardinality(s) <= 0
        OBVIOUS
      <4>2. IsFiniteSet(s) /\ Cardinality(s) \in Nat
        BY <4>1, <1>0
      <4> QED
        BY <4>1, <4>2
    <3> QED
      BY <3>1, FS_EmptySet
  <2>2. On(g, 0)
    BY <2>1
  <2> QED
    BY <2>2
<1>2. ASSUME NEW n \in Nat, n \in Good PROVE n + 1 \in Good
  <2>1. PICK g : On(g, n)
    BY <1>2
  <2> DEFINE h == [s \in Small(n + 1) |->
                     IF s = {} THEN 0 ELSE f[Pick(s)] + g[s \ {Pick(s)}]]
  <2>2. \A s \in Small(n + 1) : s # {} => s \ {Pick(s)} \in Small(n)
    BY <1>0
  <2>3. \A s \in Small(n) : s \in Small(n + 1) /\ h[s] = g[s]
    <3>1. ASSUME NEW s \in Small(n) PROVE s \in Small(n + 1)
      <4>1. Cardinality(s) \in Nat /\ Cardinality(s) <= n
        BY <1>0
      <4> QED
        BY <4>1
    <3>2. \A s \in Small(n) :
             g[s] = IF s = {} THEN 0 ELSE f[Pick(s)] + g[s \ {Pick(s)}]
      BY <2>1
    <3> QED
      BY <3>1, <3>2
  <2>4. \A s \in Small(n + 1) :
           s # {} => g[s \ {Pick(s)}] = h[s \ {Pick(s)}]
    BY <2>2, <2>3
  <2>5. h = [s \in Small(n + 1) |->
               IF s = {} THEN 0 ELSE f[Pick(s)] + h[s \ {Pick(s)}]]
    <3> HIDE DEF Small
    <3> QED BY <2>4
  <2>6. On(h, n + 1)
    <3> HIDE DEF Small, h
    <3> QED BY <2>5
  <2> QED
    <3> HIDE DEF On
    <3> QED BY <2>6
<1>3. Cardinality(S) \in Good
  <2>1. Nat \subseteq Good
    <3> HIDE DEF Good
    <3> QED BY <1>1, <1>2, NumbersFromZero
  <2> QED
    BY <2>1, FS_CardinalityType
<1>4. Small(Cardinality(S)) = SUBSET S
  BY <1>0
<1> QED
  BY <1>3, <1>4 DEF Adds

(* The sum is what such a g says of S. *)
LEMMA SumIsAdded ==
  ASSUME NEW f, NEW S, IsFiniteSet(S)
  PROVE  \E g : Adds(g, f, S) /\ Sum(f, S) = g[S]
<1> DEFINE g == CHOOSE g : Adds(g, f, S)
<1>1. Adds(g, f, S)
  BY AddsExists
<1>2. Sum(f, S) = g[S]
  BY DEF Sum, MapThenSumSet, MapThenFoldSet, Pick, Adds
<1> HIDE DEF g
<1> QED
  BY <1>1, <1>2

(* Whatever the order, the sum is the same. *)
LEMMA AddsAnyOrder ==
  ASSUME NEW f, NEW S, IsFiniteSet(S), \A x \in S : f[x] \in Nat,
         NEW g, Adds(g, f, S)
  PROVE  /\ g[{}] = 0
         /\ \A T \in SUBSET S :
              /\ g[T] \in Nat
              /\ \A x \in T : g[T] = f[x] + g[T \ {x}]
<1> DEFINE Good == {T \in SUBSET S :
                      /\ g[T] \in Nat
                      /\ \A x \in T : g[T] = f[x] + g[T \ {x}]}
<1>0. /\ g[{}] = 0
      /\ \A T \in SUBSET S : T # {} =>
           Pick(T) \in T /\ g[T] = f[Pick(T)] + g[T \ {Pick(T)}]
  BY DEF Adds, Pick
<1>3. \A T \in SUBSET S : g[T] \in Nat
  <2> DEFINE Typed == {T \in SUBSET S : g[T] \in Nat}
  <2>1. ASSUME NEW T \in SUBSET S, \A x \in T : T \ {x} \in Typed
        PROVE  T \in Typed
    <3>1. CASE T = {}
      BY <1>0, <3>1
    <3>2. CASE T # {}
      <4>1. Pick(T) \in T /\ g[T] = f[Pick(T)] + g[T \ {Pick(T)}]
        BY <1>0, <3>2
      <4>2. g[T \ {Pick(T)}] \in Nat /\ f[Pick(T)] \in Nat
        BY <2>1, <4>1
      <4> QED
        BY <4>1, <4>2
    <3> QED
      BY <3>1, <3>2
  <2>2. SUBSET S \subseteq Typed
    <3> HIDE DEF Typed
    <3> QED BY <2>1, SetsBySize
  <2> QED
    BY <2>2
<1>1. ASSUME NEW T \in SUBSET S, \A x \in T : T \ {x} \in Good
      PROVE  T \in Good
  <2>1. CASE T = {}
    BY <1>0, <2>1
  <2>2. CASE T # {}
    <3> DEFINE p == Pick(T)
    <3>1. p \in T /\ g[T] = f[p] + g[T \ {p}]
      BY <1>0, <2>2
    <3> HIDE DEF p
    <3>2. g[T \ {p}] \in Nat /\ f[p] \in Nat
      BY <1>3, <3>1
    <3>3. ASSUME NEW x \in T PROVE g[T] = f[x] + g[T \ {x}]
      <4>1. CASE x = p
        BY <3>1, <4>1
      <4>2. CASE x # p
        <5> DEFINE rest == T \ {x, p}
        <5>1. rest = (T \ {p}) \ {x} /\ rest = (T \ {x}) \ {p}
          OBVIOUS
        <5>2. x \in T \ {p} /\ p \in T \ {x}
          BY <3>1, <4>2
        <5> HIDE DEF rest
        <5>3. g[T \ {p}] = f[x] + g[rest]
          BY <1>1, <3>1, <5>1, <5>2
        <5>4. g[T \ {x}] = f[p] + g[rest]
          BY <1>1, <3>1, <5>1, <5>2
        <5>5. g[rest] \in Nat /\ f[x] \in Nat
          BY <1>3, <5>1
        <5> QED
          BY <5>3, <5>4, <5>5, <3>1, <3>2
      <4> QED
        BY <4>1, <4>2
    <3> QED
      BY <3>1, <3>2, <3>3
  <2> QED
    BY <2>1, <2>2
<1>2. SUBSET S \subseteq Good
  <2> HIDE DEF Good
  <2> QED BY <1>1, SetsBySize
<1> QED
  BY <1>0, <1>2

(* Functions that agree on S have the same sums over S. *)
LEMMA AddsSame ==
  ASSUME NEW f, NEW h, NEW S, IsFiniteSet(S), \A x \in S : f[x] = h[x],
         NEW g, Adds(g, f, S), NEW k, Adds(k, h, S)
  PROVE  \A T \in SUBSET S : g[T] = k[T]
<1> DEFINE Good == {T \in SUBSET S : g[T] = k[T]}
<1>1. ASSUME NEW T \in SUBSET S, \A x \in T : T \ {x} \in Good
      PROVE  T \in Good
  <2>1. CASE T = {}
    BY <2>1 DEF Adds
  <2>2. CASE T # {}
    <3>1. Pick(T) \in T
      BY <2>2 DEF Pick
    <3>2. g[T] = f[Pick(T)] + g[T \ {Pick(T)}] /\ k[T] = h[Pick(T)] + k[T \ {Pick(T)}]
      BY <2>2 DEF Adds
    <3> QED
      BY <1>1, <3>1, <3>2
  <2> QED
    BY <2>1, <2>2
<1>2. SUBSET S \subseteq Good
  <2> HIDE DEF Good
  <2> QED BY <1>1, SetsBySize
<1> QED
  BY <1>2

(* A g for S is one for the subsets of S. *)
LEMMA AddsWithin ==
  ASSUME NEW f, NEW S, NEW g, Adds(g, f, S), NEW T \in SUBSET S
  PROVE  Adds([s \in SUBSET T |-> g[s]], f, T)
<1> DEFINE h == [s \in SUBSET T |-> g[s]]
<1>1. \A s \in SUBSET T : g[s] = IF s = {} THEN 0 ELSE f[Pick(s)] + g[s \ {Pick(s)}]
  BY DEF Adds
<1>2. \A s \in SUBSET T : s \ {Pick(s)} \in SUBSET T
  OBVIOUS
<1>3. \A s \in SUBSET T : h[s] = IF s = {} THEN 0 ELSE f[Pick(s)] + h[s \ {Pick(s)}]
  BY <1>1, <1>2
<1>4. h = [s \in SUBSET T |-> IF s = {} THEN 0 ELSE f[Pick(s)] + h[s \ {Pick(s)}]]
  <2>1. h = [s \in SUBSET T |-> h[s]]
    OBVIOUS
  <2> HIDE DEF h
  <2> QED
    BY <1>3, <2>1
<1> QED
  BY <1>4 DEF Adds

(***************************************************************************)
(* What is known of a sum of natural numbers.                              *)
(***************************************************************************)
THEOREM SumFacts ==
  ASSUME NEW f, NEW S, IsFiniteSet(S), \A x \in S : f[x] \in Nat
  PROVE  /\ Sum(f, S) \in Nat
         /\ Sum(f, {}) = 0
         /\ \A x \in S : Sum(f, S) = f[x] + Sum(f, S \ {x})
<1>1. PICK g : Adds(g, f, S) /\ Sum(f, S) = g[S]
  BY SumIsAdded
<1>2. ASSUME NEW T \in SUBSET S PROVE Sum(f, T) = g[T]
  <2>1. PICK h : Adds(h, f, T) /\ Sum(f, T) = h[T]
    BY SumIsAdded, FS_Subset
  <2>2. Adds([s \in SUBSET T |-> g[s]], f, T)
    BY <1>1, AddsWithin
  <2> DEFINE k == [s \in SUBSET T |-> g[s]]
  <2>3. k[T] = h[T]
    <3> HIDE DEF k
    <3>1. Adds(k, f, T)
      BY <2>2 DEF k
    <3>2. IsFiniteSet(T)
      BY FS_Subset
    <3> QED
      BY <2>1, <3>1, <3>2, AddsSame
  <2> QED
    BY <2>1, <2>3
<1>3. /\ g[{}] = 0
      /\ \A T \in SUBSET S : /\ g[T] \in Nat
                             /\ \A x \in T : g[T] = f[x] + g[T \ {x}]
  BY <1>1, AddsAnyOrder
<1> QED
  BY <1>2, <1>3

(* Functions that agree on S have the same sum over S. *)
LEMMA SumSame ==
  ASSUME NEW f, NEW h, NEW S, IsFiniteSet(S), \A x \in S : f[x] = h[x]
  PROVE  Sum(f, S) = Sum(h, S)
BY SumIsAdded, AddsSame

(* Counts can be added element by element. *)
LEMMA SumPlus ==
  ASSUME NEW S, IsFiniteSet(S), NEW f, NEW h, NEW k,
         \A x \in S : f[x] \in Nat /\ h[x] \in Nat /\ k[x] = f[x] + h[x]
  PROVE  Sum(k, S) = Sum(f, S) + Sum(h, S)
<1> DEFINE Good == {T \in SUBSET S : Sum(k, T) = Sum(f, T) + Sum(h, T)}
<1>1. ASSUME NEW T \in SUBSET S, \A x \in T : T \ {x} \in Good
      PROVE  T \in Good
  <2>0. IsFiniteSet(T) /\ \A x \in T : f[x] \in Nat /\ h[x] \in Nat /\ k[x] \in Nat
    BY FS_Subset
  <2>1. CASE T = {}
    BY <2>0, <2>1, SumFacts
  <2>2. CASE T # {}
    <3>1. PICK x \in T : TRUE
      BY <2>2
    <3> DEFINE R == T \ {x}
    <3>2. /\ Sum(f, T) = f[x] + Sum(f, R)
          /\ Sum(h, T) = h[x] + Sum(h, R)
          /\ Sum(k, T) = k[x] + Sum(k, R)
      BY <2>0, SumFacts
    <3>3. Sum(k, R) = Sum(f, R) + Sum(h, R)
      BY <1>1
    <3>4. IsFiniteSet(R) /\ \A y \in R : f[y] \in Nat /\ h[y] \in Nat
      BY <2>0, FS_Subset
    <3> HIDE DEF R
    <3>5. Sum(f, R) \in Nat /\ Sum(h, R) \in Nat
      BY <3>4, SumFacts
    <3>6. f[x] \in Nat /\ h[x] \in Nat /\ k[x] = f[x] + h[x]
      BY <3>1
    <3> QED
      BY <3>2, <3>3, <3>5, <3>6
  <2> QED
    BY <2>1, <2>2
<1>2. SUBSET S \subseteq Good
  <2> HIDE DEF Good
  <2> QED BY <1>1, SetsBySize
<1> QED
  BY <1>2

(* A sum over two sets without common elements. *)
LEMMA SumSplit ==
  ASSUME NEW f, NEW S, IsFiniteSet(S), \A x \in S : f[x] \in Nat, NEW P \in SUBSET S
  PROVE  Sum(f, S) = Sum(f, P) + Sum(f, S \ P)
<1> DEFINE Good == {T \in SUBSET S : Sum(f, T) = Sum(f, T \cap P) + Sum(f, T \ P)}
<1>0. \A T \in SUBSET S : /\ IsFiniteSet(T)
                          /\ Sum(f, T) \in Nat
                          /\ Sum(f, {}) = 0
                          /\ \A x \in T : Sum(f, T) = f[x] + Sum(f, T \ {x})
  <2>1. ASSUME NEW T \in SUBSET S
        PROVE  IsFiniteSet(T) /\ \A x \in T : f[x] \in Nat
    BY FS_Subset
  <2> QED
    BY <2>1, SumFacts
<1>1. ASSUME NEW T \in SUBSET S, \A x \in T : T \ {x} \in Good
      PROVE  T \in Good
  <2>1. CASE T = {}
    <3>1. T \cap P = {} /\ T \ P = {}
      BY <2>1
    <3> QED
      BY <1>0, <2>1, <3>1
  <2>2. CASE T # {}
    <3>1. PICK x \in T : TRUE
      BY <2>2
    <3> DEFINE R == T \ {x}
    <3>2. Sum(f, T) = f[x] + Sum(f, R) /\ Sum(f, R) = Sum(f, R \cap P) + Sum(f, R \ P)
      BY <1>0, <1>1
    <3>3. f[x] \in Nat /\ Sum(f, R \cap P) \in Nat /\ Sum(f, R \ P) \in Nat
      BY <1>0
    <3>4. CASE x \in P
      <4>1. T \ P = R \ P /\ R \cap P = (T \cap P) \ {x} /\ x \in T \cap P
        BY <3>4
      <4>2. Sum(f, T \cap P) = f[x] + Sum(f, R \cap P)
        BY <1>0, <4>1
      <4>3. Sum(f, T \ P) = Sum(f, R \ P)
        BY <4>1, Zenon
      <4> QED
        BY <3>2, <3>3, <4>2, <4>3
    <3>5. CASE x \notin P
      <4>1. T \cap P = R \cap P /\ R \ P = (T \ P) \ {x} /\ x \in T \ P
        BY <3>5
      <4>2. Sum(f, T \ P) = f[x] + Sum(f, R \ P)
        BY <1>0, <4>1
      <4>3. Sum(f, T \cap P) = Sum(f, R \cap P)
        BY <4>1, Zenon
      <4> QED
        BY <3>2, <3>3, <4>2, <4>3
    <3> QED
      BY <3>4, <3>5
  <2> QED
    BY <2>1, <2>2
<1>2. SUBSET S \subseteq Good
  <2> HIDE DEF Good
  <2> QED BY <1>1, SetsBySize
<1>3. S \cap P = P
  OBVIOUS
<1> QED
  BY <1>2, <1>3

(* If every element counts the members of its own set, and no two sets share *)
(* a member, the sum counts the members of them all.                         *)
LEMMA SumOfSizes ==
  ASSUME NEW S, IsFiniteSet(S), NEW Members, \A x \in S : IsFiniteSet(Members[x]),
         \A x, y \in S : x # y => Members[x] \cap Members[y] = {},
         NEW f, \A x \in S : f[x] = Cardinality(Members[x])
  PROVE  Sum(f, S) = Cardinality(UNION {Members[x] : x \in S})
<1> DEFINE All(T) == UNION {Members[x] : x \in T}
<1> DEFINE Good == {T \in SUBSET S : IsFiniteSet(All(T)) /\ Sum(f, T) = Cardinality(All(T))}
<1>1. ASSUME NEW T \in SUBSET S, \A x \in T : T \ {x} \in Good
      PROVE  T \in Good
  <2>0. /\ IsFiniteSet(T)
        /\ \A x \in T : f[x] \in Nat
    BY FS_Subset, FS_CardinalityType
  <2>1. CASE T = {}
    <3>1. All(T) = {}
      BY <2>1
    <3>2. Sum(f, T) = 0
      BY <2>0, <2>1, SumFacts
    <3> QED
      BY <3>1, <3>2, FS_EmptySet
  <2>2. CASE T # {}
    <3>1. PICK x \in T : TRUE
      BY <2>2
    <3> DEFINE R == T \ {x}
    <3>2. Sum(f, T) = f[x] + Sum(f, R)
      BY <2>0, SumFacts
    <3>3. IsFiniteSet(All(R)) /\ Sum(f, R) = Cardinality(All(R))
      BY <1>1
    <3>4. All(T) = All(R) \cup Members[x] /\ All(R) \cap Members[x] = {}
      <4>1. All(T) = All(R) \cup Members[x]
        OBVIOUS
      <4>2. \A y \in R : Members[y] \cap Members[x] = {}
        OBVIOUS
      <4> QED
        BY <4>1, <4>2
    <3>5. IsFiniteSet(Members[x]) /\ f[x] = Cardinality(Members[x])
      OBVIOUS
    <3> HIDE DEF R, All
    <3>6. /\ IsFiniteSet(All(R) \cup Members[x])
          /\ Cardinality(All(R) \cup Members[x]) =
               Cardinality(All(R)) + Cardinality(Members[x])
                 - Cardinality(All(R) \cap Members[x])
      BY <3>3, <3>5, FS_Union
    <3>7. /\ Cardinality(All(R)) \in Nat /\ Cardinality(Members[x]) \in Nat
          /\ Cardinality(All(R) \cap Members[x]) = 0
      BY <3>3, <3>4, <3>5, FS_CardinalityType, FS_EmptySet
    <3>8. Sum(f, T) = Cardinality(All(T)) /\ IsFiniteSet(All(T))
      BY <3>2, <3>3, <3>4, <3>5, <3>6, <3>7
    <3> QED
      BY <3>8
  <2> QED
    BY <2>1, <2>2
<1>2. SUBSET S \subseteq Good
  <2> HIDE DEF Good
  <2> QED BY <1>1, SetsBySize
<1> QED
  BY <1>2

(* The sum of a function of the library is a sum over its domain. *)
LEMMA SumFunctionIs ==
  ASSUME NEW f
  PROVE  SumFunction(f) = Sum(f, DOMAIN f)
  BY DEF SumFunction, SumFunctionOnSet, FoldFunctionOnSet, MapThenSumSet, Sum

(* A value is at most the sum of all, and the sum is 0 only if all are. *)
LEMMA SumBounds ==
  ASSUME NEW S, IsFiniteSet(S), NEW f, \A x \in S : f[x] \in Nat
  PROVE  \A x \in S : f[x] <= Sum(f, S)
<1> SUFFICES ASSUME NEW x \in S PROVE f[x] <= Sum(f, S)
  OBVIOUS
<1>1. Sum(f, S) = f[x] + Sum(f, S \ {x})
  BY SumFacts
<1>2. Sum(f, S \ {x}) \in Nat
  <2>1. IsFiniteSet(S \ {x})
    BY FS_Subset
  <2> QED
    BY <2>1, SumFacts
<1> QED
  BY <1>1, <1>2

-----------------------------------------------------------------------------
(* Multiples and quotients *)

(* Multiples of a number grow with the factor. *)
LEMMA Multiples ==
  ASSUME NEW i \in Nat, NEW m \in Nat, NEW n \in Nat
  PROVE  /\ i * m \in Nat
         /\ i * (m + 1) = i * m + i
         /\ m < n => i * m + i <= i * n
<1>1. i * m \in Nat /\ i * n \in Nat
  OBVIOUS
<1>2. i * (m + 1) = i * m + i
  OBVIOUS
<1>3. ASSUME m < n PROVE i * m + i <= i * n
  <2>1. PICK d \in Nat : n = m + 1 + d
    <3>1. n - m - 1 \in Nat
      BY <1>3
    <3> QED
      BY <3>1
  <2>2. i * n = i * (m + 1) + i * d
    BY <2>1
  <2>3. i * d \in Nat
    OBVIOUS
  <2>4. i * (m + 1) \in Nat
    OBVIOUS
  <2> QED
    BY <1>1, <1>2, <2>2, <2>3, <2>4
<1> QED
  BY <1>1, <1>2, <1>3

(* A quotient and its remainder. *)
LEMMA Quotient ==
  ASSUME NEW a \in Nat, NEW i \in Nat \ {0}
  PROVE  /\ a \div i \in Nat
         /\ i * (a \div i) <= a
         /\ a < i * (a \div i) + i
  BY SMTT(30)

(* Quotients grow with what is divided. *)
LEMMA QuotientsGrow ==
  ASSUME NEW a \in Nat, NEW b \in Nat, NEW i \in Nat \ {0}, a <= b
  PROVE  a \div i <= b \div i
<1> DEFINE p == a \div i
           q == b \div i
<1>1. /\ p \in Nat /\ i * p <= a
      /\ q \in Nat /\ b < i * q + i
  BY Quotient
<1> HIDE DEF p, q
<1>2. ASSUME q < p PROVE FALSE
  <2>1. i * q + i <= i * p /\ i * p \in Nat /\ i * q \in Nat
    BY <1>1, <1>2, Multiples
  <2> QED
    BY <1>1, <2>1
<1>3. p <= q
  BY <1>1, <1>2
<1> QED
  BY <1>3 DEF p, q

(* The sum over a part is at most the sum over all. *)
LEMMA SumOfPart ==
  ASSUME NEW S, IsFiniteSet(S), NEW f, \A x \in S : f[x] \in Nat, NEW P \in SUBSET S
  PROVE  Sum(f, P) <= Sum(f, S)
<1>1. Sum(f, S) = Sum(f, P) + Sum(f, S \ P)
  BY SumSplit
<1>2. IsFiniteSet(P) /\ IsFiniteSet(S \ P)
  BY FS_Subset
<1>3. Sum(f, P) \in Nat
  BY <1>2, SumFacts
<1>4. Sum(f, S \ P) \in Nat
  BY <1>2, SumFacts
<1> QED
  BY <1>1, <1>3, <1>4

(* If a set is divided into parts and none of them has a greater sum than   *)
(* the bound, the sum over all is at most the bound for each part.          *)
LEMMA SumOfParts ==
  ASSUME NEW S, IsFiniteSet(S), NEW f, \A x \in S : f[x] \in Nat,
         NEW P, IsFiniteSet(P), NEW part, \A x \in S : part[x] \in P,
         NEW bound \in Nat,
         \A p \in P : Sum(f, {x \in S : part[x] = p}) <= bound
  PROVE  Sum(f, S) <= bound * Cardinality(P)
<1> DEFINE In(T) == {x \in S : part[x] \in T}
           Good == {T \in SUBSET P : Sum(f, In(T)) <= bound * Cardinality(T)}
<1>1. ASSUME NEW T \in SUBSET P, \A x \in T : T \ {x} \in Good
      PROVE  T \in Good
  <2>1. IsFiniteSet(T) /\ Cardinality(T) \in Nat
    BY FS_Subset, FS_CardinalityType
  <2>2. CASE T = {}
    <3>1. In(T) = {} /\ Cardinality(T) = 0
      BY <2>2, FS_EmptySet
    <3>2. Sum(f, {}) = 0
      BY SumFacts, FS_EmptySet
    <3>3. Sum(f, In(T)) = Sum(f, {})
      BY <3>1, Zenon
    <3> HIDE DEF In
    <3> QED
      BY <3>1, <3>2, <3>3
  <2>3. CASE T # {}
    <3>1. PICK p \in T : TRUE
      BY <2>3
    <3> DEFINE R == T \ {p}
               Mine == {x \in S : part[x] = p}
    <3>2. In(T) \in SUBSET S /\ Mine \in SUBSET In(T) /\ In(T) \ Mine = In(R)
      OBVIOUS
    <3>3. Sum(f, In(R)) <= bound * Cardinality(R)
      BY <1>1
    <3>4. Sum(f, Mine) <= bound
      OBVIOUS
    <3> HIDE DEF Mine, In
    <3>5. IsFiniteSet(In(T)) /\ \A x \in In(T) : f[x] \in Nat
      BY <3>2, FS_Subset
    <3>6. Sum(f, In(T)) = Sum(f, Mine) + Sum(f, In(T) \ Mine)
      BY <3>2, <3>5, SumSplit
    <3>7. Sum(f, In(T) \ Mine) = Sum(f, In(R))
      BY <3>2, Zenon
    <3>8. Sum(f, Mine) \in Nat /\ Sum(f, In(R)) \in Nat
      <4>1. IsFiniteSet(Mine) /\ IsFiniteSet(In(T) \ Mine)
        BY <3>2, <3>5, FS_Subset
      <4>2. Sum(f, Mine) \in Nat
        BY <3>2, <3>5, <4>1, SumFacts
      <4>3. Sum(f, In(T) \ Mine) \in Nat
        BY <3>5, <4>1, SumFacts
      <4> QED
        BY <3>7, <4>2, <4>3
    <3>9. Cardinality(R) \in Nat /\ Cardinality(T) = Cardinality(R) + 1
      <4>1. IsFiniteSet(R) /\ Cardinality(R) = Cardinality(T) - 1
        BY <2>1, FS_RemoveElement
      <4>2. Cardinality(R) \in Nat
        BY <4>1, FS_CardinalityType
      <4> HIDE DEF R
      <4> QED
        BY <2>1, <4>1, <4>2
    <3> HIDE DEF R
    <3>10. bound * Cardinality(T) = bound * Cardinality(R) + bound
      BY <3>9, Multiples
    <3>11. bound * Cardinality(R) \in Nat
      BY <3>9
    <3> DEFINE b == bound * Cardinality(R)
    <3> HIDE DEF b
    <3>12. Sum(f, In(T)) <= b + bound
      BY <3>3, <3>4, <3>6, <3>7, <3>8, <3>11 DEF b
    <3>13. Sum(f, In(T)) <= bound * Cardinality(T)
      BY <3>10, <3>12 DEF b
    <3> QED
      BY <3>13
  <2> QED
    BY <2>2, <2>3
<1>2. SUBSET P \subseteq Good
  <2> HIDE DEF Good
  <2> QED BY <1>1, SetsBySize
<1>3. In(P) = S /\ P \in Good
  BY <1>2
<1>4. Sum(f, In(P)) = Sum(f, S)
  BY <1>3, Zenon
<1> HIDE DEF In
<1> QED
  BY <1>3, <1>4

(* Where no value is greater, the sum is not greater, and it is only the     *)
(* same if all values are.                                                  *)
LEMMA SumAtMost ==
  ASSUME NEW S, IsFiniteSet(S), NEW f, NEW h,
         \A x \in S : f[x] \in Nat /\ h[x] \in Nat /\ f[x] <= h[x]
  PROVE  /\ Sum(f, S) <= Sum(h, S)
         /\ Sum(f, S) = Sum(h, S) => \A x \in S : f[x] = h[x]
<1> DEFINE rest == [x \in S |-> h[x] - f[x]]
<1>1. \A x \in S : f[x] \in Nat /\ rest[x] \in Nat /\ h[x] = f[x] + rest[x]
  OBVIOUS
<1> HIDE DEF rest
<1>2. Sum(h, S) = Sum(f, S) + Sum(rest, S)
  BY <1>1, SumPlus
<1>3. Sum(f, S) \in Nat /\ Sum(rest, S) \in Nat
  BY <1>1, SumFacts
<1>4. \A x \in S : rest[x] <= Sum(rest, S)
  BY <1>1, SumBounds
<1> QED
  BY <1>1, <1>2, <1>3, <1>4

(* The sum over a set that is divided into parts is the sum of their sums.  *)
LEMMA SumByParts ==
  ASSUME NEW S, IsFiniteSet(S), NEW f, \A x \in S : f[x] \in Nat,
         NEW P, IsFiniteSet(P), NEW part, \A x \in S : part[x] \in P,
         NEW Members, \A p \in P : Members[p] = {x \in S : part[x] = p},
         NEW total, \A p \in P : total[p] = Sum(f, Members[p])
  PROVE  Sum(f, S) = Sum(total, P)
<1> DEFINE Within(Q) == {x \in S : part[x] \in Q}
<1> DEFINE Good == {Q \in SUBSET P : Sum(total, Q) = Sum(f, Within(Q))}
<1>0. \A T \in SUBSET S : /\ IsFiniteSet(T)
                          /\ \A x \in T : f[x] \in Nat
                          /\ Sum(f, T) \in Nat
                          /\ Sum(f, {}) = 0
  <2>1. \A T \in SUBSET S : IsFiniteSet(T) /\ \A x \in T : f[x] \in Nat
    BY FS_Subset
  <2> QED
    BY <2>1, SumFacts
<1>1. \A p \in P : total[p] \in Nat
  <2>1. \A p \in P : Members[p] \in SUBSET S
    OBVIOUS
  <2> QED
    BY <1>0, <2>1
<1>2. ASSUME NEW Q \in SUBSET P, \A p \in Q : Q \ {p} \in Good
      PROVE  Q \in Good
  <2>0. IsFiniteSet(Q) /\ \A p \in Q : total[p] \in Nat
    BY <1>1, FS_Subset
  <2>1. CASE Q = {}
    <3>1. Within(Q) = {}
      BY <2>1
    <3>2. Sum(total, {}) = 0
      BY <2>0, SumFacts
    <3>3. Sum(f, Within(Q)) = Sum(f, {})
      BY <3>1, Zenon
    <3>4. Sum(f, {}) = 0
      BY <1>0
    <3> QED
      BY <2>1, <3>2, <3>3, <3>4
  <2>2. CASE Q # {}
    <3>1. PICK p \in Q : TRUE
      BY <2>2
    <3> DEFINE Rest == Q \ {p}
    <3>2. Sum(total, Q) = total[p] + Sum(total, Rest)
      BY <2>0, SumFacts
    <3>3. Sum(total, Rest) = Sum(f, Within(Rest))
      BY <1>2
    <3> DEFINE Part == Members[p]
    <3>4. /\ Part \in SUBSET Within(Q) /\ Within(Q) \ Part = Within(Rest)
          /\ Within(Q) \in SUBSET S
      OBVIOUS
    <3>5. total[p] = Sum(f, Part)
      OBVIOUS
    <3> HIDE DEF Part, Rest, Within
    <3>6. IsFiniteSet(Within(Q)) /\ \A x \in Within(Q) : f[x] \in Nat
      BY <1>0, <3>4
    <3>7. Sum(f, Within(Q)) = Sum(f, Part) + Sum(f, Within(Q) \ Part)
      BY <3>4, <3>6, SumSplit
    <3>8. Sum(f, Within(Q) \ Part) = Sum(f, Within(Rest))
      BY <3>4, Zenon
    <3> QED
      BY <3>2, <3>3, <3>5, <3>7, <3>8
  <2> QED
    BY <2>1, <2>2
<1>3. SUBSET P \subseteq Good
  <2> HIDE DEF Good
  <2> QED BY <1>2, SetsBySize
<1>4. Within(P) = S
  OBVIOUS
<1>5. Sum(f, Within(P)) = Sum(f, S)
  BY <1>4, Zenon
<1> QED
  BY <1>3, <1>5

(* When one value grows, the sum grows as much. *)
LEMMA SumOneMore ==
  ASSUME NEW S, IsFiniteSet(S), NEW f, NEW h, NEW d \in S, NEW n \in Nat,
         \A x \in S : f[x] \in Nat,
         \A x \in S \ {d} : h[x] = f[x], h[d] = f[d] + n
  PROVE  Sum(h, S) = Sum(f, S) + n
<1> DEFINE R == S \ {d}
<1>1. IsFiniteSet(R) /\ \A x \in S : h[x] \in Nat
  BY FS_Subset
<1>2. Sum(f, S) = f[d] + Sum(f, R) /\ Sum(h, S) = h[d] + Sum(h, R)
  BY <1>1, SumFacts
<1>3. \A x \in R : f[x] \in Nat /\ h[x] = f[x]
  OBVIOUS
<1> HIDE DEF R
<1>4. Sum(f, R) \in Nat /\ Sum(f, R) = Sum(h, R)
  BY <1>1, <1>3, SumFacts, SumSame
<1>5. f[d] \in Nat
  OBVIOUS
<1> QED
  BY <1>2, <1>4, <1>5

-----------------------------------------------------------------------------
(* Ascending order *)

(* Of finitely many values one is the greatest. *)
LEMMA Greatest ==
  ASSUME NEW S, IsFiniteSet(S), S # {}, NEW f, \A x \in S : f[x] \in Nat
  PROVE  \E x \in S : \A y \in S : f[y] <= f[x]
<1> DEFINE Good == {T \in SUBSET S : T # {} => \E x \in T : \A y \in T : f[y] <= f[x]}
<1>1. ASSUME NEW T \in SUBSET S, \A x \in T : T \ {x} \in Good
      PROVE  T \in Good
  <2> SUFFICES ASSUME T # {} PROVE \E x \in T : \A y \in T : f[y] <= f[x]
    OBVIOUS
  <2>1. PICK z \in T : TRUE
    OBVIOUS
  <2>2. CASE T \ {z} = {}
    <3>1. \A y \in T : y = z /\ f[z] \in Nat
      BY <2>2
    <3> QED
      BY <3>1
  <2>3. CASE T \ {z} # {}
    <3>1. PICK m \in T \ {z} : \A y \in T \ {z} : f[y] <= f[m]
      BY <1>1, <2>1, <2>3
    <3>2. f[m] \in Nat /\ f[z] \in Nat /\ \A y \in T : f[y] \in Nat
      OBVIOUS
    <3>3. CASE f[z] <= f[m]
      BY <3>1, <3>3
    <3>4. CASE f[m] <= f[z]
      <4>1. \A y \in T : f[y] <= f[z]
        BY <3>1, <3>2, <3>4
      <4> QED
        BY <4>1
    <3> QED
      BY <3>2, <3>3, <3>4
  <2> QED
    BY <2>2, <2>3
<1>2. SUBSET S \subseteq Good
  <2> HIDE DEF Good
  <2> QED BY <1>1, SetsBySize
<1> QED
  BY <1>2

Orders(f, S) ==
  {order \in Bijection(1 .. Cardinality(S), S) :
     \A i, j \in 1 .. Cardinality(S) : i < j => f[order[i]] <= f[order[j]]}

(* A finite set can be listed in ascending order of a value. *)
LEMMA OrderExists ==
  ASSUME NEW S, IsFiniteSet(S), NEW f, \A x \in S : f[x] \in Nat
  PROVE  Orders(f, S) # {}
<1> DEFINE Good == {T \in SUBSET S : Orders(f, T) # {}}
<1>1. ASSUME NEW T \in SUBSET S, \A x \in T : T \ {x} \in Good
      PROVE  T \in Good
  <2>1. IsFiniteSet(T) /\ Cardinality(T) \in Nat
    BY FS_Subset, FS_CardinalityType
  <2>2. CASE T = {}
    <3>1. Cardinality(T) = 0 /\ 1 .. 0 = {}
      BY <2>2, FS_EmptySet
    <3> DEFINE order == [i \in 1 .. 0 |-> 0]
    <3>2. order \in Bijection(1 .. 0, T)
      <4>1. order \in [1 .. 0 -> T]
        BY <3>1
      <4>2. order \in Injection(1 .. 0, T)
        BY <3>1, <4>1 DEF Injection, IsInjective
      <4>3. order \in Surjection(1 .. 0, T)
        BY <2>2, <4>1 DEF Surjection
      <4> QED
        BY <4>2, <4>3 DEF Bijection
    <3>3. order \in Orders(f, T)
      <4> HIDE DEF order
      <4> QED BY <3>1, <3>2 DEF Orders
    <3> QED
      BY <3>3
  <2>3. CASE T # {}
    <3>1. PICK x \in T : \A y \in T : f[y] <= f[x]
      BY <2>1, <2>3, Greatest
    <3> DEFINE n == Cardinality(T)
               R == T \ {x}
    <3>2. n \in Nat \ {0} /\ Cardinality(R) = n - 1
      BY <2>1, <2>3, FS_RemoveElement, FS_EmptySet
    <3>3. PICK o \in Orders(f, R) : TRUE
      BY <1>1
    <3> DEFINE order == [i \in 1 .. n |-> IF i = n THEN x ELSE o[i]]
    <3> HIDE DEF n, R
    <3>4. /\ o \in [1 .. n - 1 -> R]
          /\ \A i, j \in 1 .. n - 1 : o[i] = o[j] => i = j
          /\ \A y \in R : \E i \in 1 .. n - 1 : o[i] = y
          /\ \A i, j \in 1 .. n - 1 : i < j => f[o[i]] <= f[o[j]]
      <4>1. o \in Injection(1 .. n - 1, R) /\ o \in Surjection(1 .. n - 1, R)
        BY <3>2, <3>3 DEF Orders, Bijection
      <4>2. \A i, j \in 1 .. n - 1 : i < j => f[o[i]] <= f[o[j]]
        BY <3>2, <3>3 DEF Orders
      <4>3. /\ o \in [1 .. n - 1 -> R]
            /\ \A i, j \in 1 .. n - 1 : o[i] = o[j] => i = j
        BY <4>1 DEF Injection, IsInjective
      <4>4. \A y \in R : \E i \in 1 .. n - 1 : o[i] = y
        BY <4>1 DEF Surjection
      <4> QED
        BY <4>2, <4>3, <4>4
    <3> USE DEF R
    <3>5. \A i \in 1 .. n : /\ i = n => order[i] = x
                            /\ i # n => i \in 1 .. n - 1 /\ order[i] = o[i] /\ o[i] \in R
      BY <3>2, <3>4
    <3>6. order \in [1 .. n -> T]
      BY <3>5
    <3>7. \A i, j \in 1 .. n : order[i] = order[j] => i = j
      BY <3>4, <3>5
    <3>8. \A y \in T : \E i \in 1 .. n : order[i] = y
      <4> SUFFICES ASSUME NEW y \in T PROVE \E i \in 1 .. n : order[i] = y
        OBVIOUS
      <4>1. CASE y = x
        <5>1. n \in 1 .. n
          BY <3>2
        <5> QED BY <3>5, <4>1, <5>1
      <4>2. CASE y # x
        <5>1. PICK i \in 1 .. n - 1 : o[i] = y
          BY <3>4, <4>2
        <5>2. i \in 1 .. n /\ i # n
          BY <3>2
        <5> QED BY <3>5, <5>1, <5>2
      <4> QED BY <4>1, <4>2
    <3>9. \A i, j \in 1 .. n : i < j => f[order[i]] <= f[order[j]]
      <4> SUFFICES ASSUME NEW i \in 1 .. n, NEW j \in 1 .. n, i < j
                   PROVE  f[order[i]] <= f[order[j]]
        OBVIOUS
      <4>1. i \in 1 .. n - 1 /\ order[i] = o[i] /\ o[i] \in T
        BY <3>2, <3>5
      <4>2. CASE j = n
        BY <3>1, <3>5, <4>1, <4>2
      <4>3. CASE j # n
        BY <3>4, <3>5, <4>1, <4>3
      <4> QED BY <4>2, <4>3
    <3>10. order \in Orders(f, T)
      <4> HIDE DEF order
      <4>1. order \in Injection(1 .. n, T)
        BY <3>6, <3>7 DEF Injection, IsInjective
      <4>2. order \in Surjection(1 .. n, T)
        BY <3>6, <3>8 DEF Surjection
      <4> QED
        BY <3>9, <4>1, <4>2 DEF Orders, Bijection, n
    <3> QED
      BY <3>10
  <2> QED
    BY <2>2, <2>3
<1>2. SUBSET S \subseteq Good
  <2> HIDE DEF Good
  <2> QED BY <1>1, SetsBySize
<1> QED
  BY <1>2

(* The first k of a list in order are k elements. *)
LEMMA FirstInOrder ==
  ASSUME NEW S, IsFiniteSet(S), NEW f, NEW order \in Orders(f, S),
         NEW k \in 0 .. Cardinality(S)
  PROVE  /\ IsFiniteSet({order[i] : i \in 1 .. k})
         /\ Cardinality({order[i] : i \in 1 .. k}) = k
<1> DEFINE n == Cardinality(S)
           First == {order[i] : i \in 1 .. k}
           part == [i \in 1 .. k |-> order[i]]
<1>1. n \in Nat
  BY FS_CardinalityType
<1> HIDE DEF n
<1>2. /\ order \in [1 .. n -> S]
      /\ \A i, j \in 1 .. n : order[i] = order[j] => i = j
  BY DEF Orders, Bijection, Injection, IsInjective, n
<1>3. k \in Nat /\ 1 .. k \subseteq 1 .. n
  BY <1>1 DEF n
<1>4. part \in Injection(1 .. k, First)
  <2>1. part \in [1 .. k -> First]
    OBVIOUS
  <2>2. \A i, j \in 1 .. k : part[i] = part[j] => i = j
    BY <1>2, <1>3
  <2> HIDE DEF part, First
  <2> QED
    BY <2>1, <2>2 DEF Injection, IsInjective
<1>5. part \in Surjection(1 .. k, First)
  <2>1. part \in [1 .. k -> First]
    OBVIOUS
  <2>2. \A x \in First : \E i \in 1 .. k : part[i] = x
    OBVIOUS
  <2> HIDE DEF part, First
  <2> QED
    BY <2>1, <2>2 DEF Surjection
<1>6. ExistsBijection(1 .. k, First)
  BY <1>4, <1>5 DEF ExistsBijection, Bijection
<1>7. IsFiniteSet(1 .. k) /\ Cardinality(1 .. k) = k
  BY <1>3, FS_Interval
<1> HIDE DEF First
<1>8. IsFiniteSet(First) /\ Cardinality(First) = k
  BY <1>6, <1>7, FS_Bijection
<1> QED
  BY <1>8 DEF First

=============================================================================
