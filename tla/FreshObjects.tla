---------------------------- MODULE FreshObjects ----------------------------
(***************************************************************************)
(* Lemmas about objects with an identity.  Buffers, maps and arrays are    *)
(* numbers; a new one is the least number no pointer leads to, and exists  *)
(* because there are at least as many objects as pointers.                 *)
(***************************************************************************)
EXTENDS Naturals, FiniteSets, FiniteSetsExt, TLAPS, FiniteSetTheorems,
        WellFoundedInduction

\* A set of naturals that is not empty has a least element, which is what Min
\* returns.
LEMMA MinOfNaturals ==
    ASSUME NEW S, S \subseteq Nat, S # {}
    PROVE  Min(S) \in S /\ \A y \in S : Min(S) <= y
  <1> DEFINE R == OpToRel(<, Nat)
  <1>1. R = {ss \in Nat \X Nat : ss[1] < ss[2]}
    BY DEF OpToRel
  <1>2. IsWellFoundedOn(R, Nat)
    BY NatLessThanWellFounded
  <1> HIDE DEF R
  <1>3. PICK x \in S : \A y \in S : ~(<<y, x>> \in R)
    BY <1>2, WFMin
  <1>4. ASSUME NEW y \in S PROVE x <= y
    <2>1. <<y, x>> \in Nat \X Nat /\ <<y, x>>[1] = y /\ <<y, x>>[2] = x
      OBVIOUS
    <2>2. ~(y < x)
      BY <2>1, <1>1, <1>3
    <2> QED BY <2>2
  <1> QED BY <1>4 DEF Min

\* A function takes at most as many values as it has arguments.
LEMMA ImageIsSmall ==
    ASSUME NEW S, IsFiniteSet(S), NEW g, NEW T, g \in [S -> T]
    PROVE  /\ IsFiniteSet({g[x] : x \in S})
           /\ Cardinality({g[x] : x \in S}) <= Cardinality(S)
  <1>1. g \in Surjection(S, {g[x] : x \in S})
    BY DEF Surjection
  <1> QED BY <1>1, FS_Surjection

\* Two sets together have at most as many elements as both.
LEMMA UnionIsSmall ==
    ASSUME NEW A, NEW B, IsFiniteSet(A), IsFiniteSet(B)
    PROVE  /\ IsFiniteSet(A \cup B)
           /\ Cardinality(A \cup B) <= Cardinality(A) + Cardinality(B)
           /\ Cardinality(A) \in Nat /\ Cardinality(B) \in Nat
           /\ Cardinality(A \cup B) \in Nat
  <1>1. /\ IsFiniteSet(A \cup B)
        /\ Cardinality(A \cup B) = Cardinality(A) + Cardinality(B) - Cardinality(A \cap B)
    BY FS_Union
  <1>2. /\ Cardinality(A) \in Nat /\ Cardinality(B) \in Nat
        /\ Cardinality(A \cap B) \in Nat /\ Cardinality(A \cup B) \in Nat
    BY <1>1, FS_CardinalityType, FS_Intersection
  <1> QED BY <1>1, <1>2

\* When no more pointers are in use than there are objects, and one of them
\* leads to no object, there is a new object.
LEMMA FreshObject ==
    ASSUME NEW S, S \subseteq Nat, IsFiniteSet(S),
           NEW U, IsFiniteSet(U), Cardinality(U) <= Cardinality(S),
           \E x \in U : x \notin S
    PROVE  Min(S \ U) \in S \ U
  <1> PICK x \in U : x \notin S
    OBVIOUS
  <1>1. S \ U # {}
    <2> SUFFICES ASSUME S \subseteq U PROVE FALSE
      OBVIOUS
    <2>1. /\ IsFiniteSet(S \cup {x})
          /\ Cardinality(S \cup {x}) = Cardinality(S) + 1
      BY FS_AddElement
    <2>2. Cardinality(S \cup {x}) <= Cardinality(U)
      <3>1. S \cup {x} \in SUBSET U
        OBVIOUS
      <3> QED BY <3>1, FS_Subset
    <2>3. Cardinality(S) \in Nat /\ Cardinality(U) \in Nat
      BY FS_CardinalityType
    <2> QED BY <2>1, <2>2, <2>3
  <1> QED BY <1>1, MinOfNaturals

\* A set is mapped one to one into any set that is not smaller.
LEMMA SmallerMapsInto ==
    ASSUME NEW S, NEW T, IsFiniteSet(S), IsFiniteSet(T), Cardinality(S) <= Cardinality(T)
    PROVE  \E g \in [S -> T] : \A x, y \in S : g[x] = g[y] => x = y
  <1> DEFINE m == Cardinality(S)
             n == Cardinality(T)
  <1>1. m \in Nat /\ n \in Nat /\ ExistsBijection(1..m, S) /\ ExistsBijection(1..n, T)
    BY FS_CardinalityType
  <1>2. PICK f \in Bijection(1..m, S) : TRUE
    BY <1>1 DEF ExistsBijection
  <1>3. PICK h \in Bijection(1..n, T) : TRUE
    BY <1>1 DEF ExistsBijection
  <1> HIDE DEF m, n
  <1>4. m <= n
    BY DEF m, n
  <1>5. f \in [1..m -> S] /\ \A s \in S : \E i \in 1..m : f[i] = s
    BY <1>2 DEF Bijection, Surjection
  <1>6. /\ h \in [1..n -> T]
        /\ \A i, j \in 1..n : h[i] = h[j] => i = j
    BY <1>3 DEF Bijection, Injection, IsInjective
  <1> DEFINE at(s) == CHOOSE i \in 1..m : f[i] = s
             g == [s \in S |-> h[at(s)]]
  <1>7. \A s \in S : at(s) \in 1..m /\ f[at(s)] = s
    BY <1>5
  <1> HIDE DEF at
  <1>8. \A s \in S : at(s) \in 1..n
    BY <1>7, <1>1, <1>4
  <1>9. g \in [S -> T]
    BY <1>6, <1>8
  <1>10. ASSUME NEW x \in S, NEW y \in S, g[x] = g[y] PROVE x = y
    <2>1. at(x) = at(y)
      BY <1>10, <1>6, <1>8
    <2> QED BY <2>1, <1>7
  <1> QED BY <1>9, <1>10
=============================================================================
