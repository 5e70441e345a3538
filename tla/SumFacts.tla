------------------------------ MODULE SumFacts ------------------------------
(***************************************************************************)
(* Facts about SumFunction, by which the models add up lengths of audio.   *)
(* The operator is a fold, defined by recursion over the finite subsets of *)
(* an index set; the facts follow from the existence of minimal elements   *)
(* in a family of finite sets, which serves as induction here.             *)
(***************************************************************************)
EXTENDS Functions, FiniteSetTheorems, TLAPS

\* The element that the fold takes first, and what it leaves.
First(s) == CHOOSE x \in s : TRUE
Rest(s) == s \ {First(s)}

\* The function that the fold defines on the sets of D, and the one it computes for S.
Sums(fun, D, g) == g = [s \in D |-> IF s = {} THEN 0 ELSE fun[First(s)] + g[Rest(s)]]
SumsOf(fun, S) == CHOOSE g : Sums(fun, SUBSET S, g)

Agree(fun, gun, S) == \A x \in S : fun[x] = gun[x]

NatValued(fun, S) == \A x \in S : fun[x] \in Nat

\* A family of subsets of a finite set has a minimal member.
LEMMA MinimalSubset ==
    ASSUME NEW S, IsFiniteSet(S), NEW F \in SUBSET (SUBSET S), F # {}
    PROVE  \E T \in F : \A U \in F : U \subseteq T => U = T
<1>1. IsWellFoundedOn(StrictSubsetOrdering(S), SUBSET S)
  BY FS_StrictSubsetOrderingWellFounded, FS_FiniteSubsetsOfFinite
<1>2. PICK T \in F : \A U \in F : ~(<<U, T>> \in StrictSubsetOrdering(S))
  BY <1>1, WFMin
<1> QED
  BY <1>2 DEF StrictSubsetOrdering

\* A set of natural numbers has a least one.
LEMMA LeastNumber ==
    ASSUME NEW N \in SUBSET Nat, N # {}
    PROVE  \E n \in N : \A m \in N : n <= m
<1> DEFINE Below == {p \in Nat \X Nat : p[1] < p[2]}
<1>1. IsWellFoundedOn(Below, Nat)
  BY NatLessThanWellFounded DEF OpToRel
<1>2. PICK n \in N : \A m \in N : ~(<<m, n>> \in Below)
  <2> HIDE DEF Below
  <2> QED BY <1>1, WFMin
<1>3. \A m \in N : ~(m < n)
  BY <1>2
<1> QED
  BY <1>3

\* The first element of a set is one of its elements.
LEMMA FirstOfSet ==
    ASSUME NEW S, S # {}
    PROVE  First(S) \in S
BY DEF First

\* SumFunctionOnSet is the value at S of the function that its fold defines.
LEMMA SumIsFold ==
    ASSUME NEW fun, NEW S
    PROVE  SumFunctionOnSet(fun, S) = SumsOf(fun, S)[S]
BY DEF SumFunctionOnSet, FoldFunctionOnSet, MapThenFoldSet, SumsOf, Sums, First, Rest

\* The recursion has a solution on the subsets of a finite set that have at most n elements.
LEMMA SumsExistUpTo ==
    ASSUME NEW fun, NEW S, IsFiniteSet(S)
    PROVE  \A n \in Nat : \E g : Sums(fun, {s \in SUBSET S : Cardinality(s) <= n}, g)
<1> DEFINE Small(n) == {s \in SUBSET S : Cardinality(s) <= n}
<1> DEFINE N == {n \in Nat : ~\E g : Sums(fun, Small(n), g)}
<1>f. \A s \in SUBSET S : IsFiniteSet(s) /\ Cardinality(s) \in Nat
  BY FS_Subset, FS_CardinalityType
<1>1. SUFFICES ASSUME N # {} PROVE FALSE
  BY DEF N
<1>2. PICK n \in N : \A m \in N : n <= m
  <2> HIDE DEF N
  <2>1. N \in SUBSET Nat BY DEF N
  <2> QED BY <1>1, <2>1, LeastNumber
<1>3. n # 0
  <2>1. SUFFICES ASSUME n = 0 PROVE FALSE OBVIOUS
  <2>2. Small(0) = {{}}
    <3>1. \A s \in SUBSET S : Cardinality(s) <= 0 <=> s = {}
      BY <1>f, FS_EmptySet
    <3> QED BY <3>1
  <2>3. Sums(fun, Small(0), [s \in {{}} |-> 0])
    BY <2>2 DEF Sums
  <2> QED BY <2>1, <2>3
<1>4. n - 1 \in Nat /\ n - 1 \notin N
  <2> HIDE DEF N
  <2>1. n \in Nat BY <1>2 DEF N
  <2> QED BY <2>1, <1>2, <1>3
<1>5. PICK g : Sums(fun, Small(n - 1), g)
  BY <1>4
<1> DEFINE h == [s \in Small(n) |-> IF s = {} THEN 0 ELSE fun[First(s)] + g[Rest(s)]]
<1>6. \A s \in Small(n) : s # {} => Rest(s) \in Small(n - 1)
  <2> SUFFICES ASSUME NEW s \in Small(n), s # {} PROVE Rest(s) \in Small(n - 1)
    OBVIOUS
  <2>1. First(s) \in s BY FirstOfSet
  <2>2. Cardinality(Rest(s)) = Cardinality(s) - 1
    BY <2>1, <1>f, FS_RemoveElement DEF Rest
  <2>3. Rest(s) \in SUBSET S BY DEF Rest
  <2> QED BY <2>2, <2>3, <1>f, <1>4
<1>7. Small(n - 1) \subseteq Small(n)
  BY <1>f, <1>4
<1>8. \A s \in Small(n - 1) : h[s] = g[s]
  BY <1>5, <1>7 DEF Sums
<1>9. Sums(fun, Small(n), h)
  BY <1>6, <1>8 DEF Sums
<1> QED
  BY <1>9, <1>2

\* The fold of a finite set is well defined: the function it chooses satisfies its equation.
LEMMA SumsDefined ==
    ASSUME NEW fun, NEW S, IsFiniteSet(S)
    PROVE  Sums(fun, SUBSET S, SumsOf(fun, S))
<1>1. Cardinality(S) \in Nat /\ \A s \in SUBSET S : Cardinality(s) <= Cardinality(S)
  BY FS_CardinalityType, FS_Subset
<1>2. {s \in SUBSET S : Cardinality(s) <= Cardinality(S)} = SUBSET S
  BY <1>1
<1>3. \A n \in Nat : \E g : Sums(fun, {s \in SUBSET S : Cardinality(s) <= n}, g)
  BY SumsExistUpTo
<1>4. \E g : Sums(fun, SUBSET S, g)
  BY <1>1, <1>2, <1>3
<1> QED
  BY <1>4 DEF SumsOf

\* Two functions that agree on a set have the same sums over its subsets.
LEMMA SumsAgree ==
    ASSUME NEW S, IsFiniteSet(S), NEW T \in SUBSET S,
           NEW fun, NEW gun, Agree(fun, gun, T),
           NEW g, NEW h, Sums(fun, SUBSET S, g), Sums(gun, SUBSET T, h)
    PROVE  \A U \in SUBSET T : g[U] = h[U]
<1> DEFINE F == {U \in SUBSET T : g[U] # h[U]}
<1>1. SUFFICES ASSUME F # {} PROVE FALSE
  OBVIOUS
<1>2. PICK U \in F : \A V \in F : V \subseteq U => V = U
  <2>1. F \in SUBSET (SUBSET T) OBVIOUS
  <2>2. IsFiniteSet(T) BY FS_Subset
  <2> HIDE DEF F
  <2> QED BY <1>1, <2>1, <2>2, MinimalSubset
<1>3. U # {}
  BY DEF Sums
<1>4. First(U) \in U
  BY <1>3, FirstOfSet
<1>5. Rest(U) \in SUBSET T /\ Rest(U) \subseteq U /\ Rest(U) # U
  BY <1>4 DEF Rest
<1>6. g[Rest(U)] = h[Rest(U)]
  BY <1>2, <1>5
<1>7. g[U] = fun[First(U)] + g[Rest(U)] /\ h[U] = gun[First(U)] + h[Rest(U)]
  BY <1>3 DEF Sums
<1>8. fun[First(U)] = gun[First(U)]
  BY <1>4 DEF Agree
<1> QED
  BY <1>6, <1>7, <1>8

\* A sum depends only on the values at the indices.
THEOREM SumSame ==
    ASSUME NEW S, IsFiniteSet(S), NEW fun, NEW gun, Agree(fun, gun, S)
    PROVE  SumFunctionOnSet(fun, S) = SumFunctionOnSet(gun, S)
<1>1. PICK T : T = S
  OBVIOUS
<1>2. T \in SUBSET S /\ Agree(fun, gun, T)
  BY <1>1
<1>3. Sums(fun, SUBSET S, SumsOf(fun, S)) /\ Sums(gun, SUBSET T, SumsOf(gun, T))
  BY <1>1, SumsDefined
<1>4. \A U \in SUBSET T : SumsOf(fun, S)[U] = SumsOf(gun, T)[U]
  BY <1>2, <1>3, SumsAgree
<1> QED
  BY <1>1, <1>4, SumIsFold

\* Nothing sums up to 0.
THEOREM SumEmpty ==
    ASSUME NEW fun
    PROVE  SumFunctionOnSet(fun, {}) = 0
<1>1. Sums(fun, SUBSET {}, SumsOf(fun, {}))
  BY SumsDefined, FS_EmptySet
<1> QED
  BY <1>1, SumIsFold DEF Sums

\* The sum over a set that is not empty takes its first element and goes on with the rest.
LEMMA SumStep ==
    ASSUME NEW S, IsFiniteSet(S), S # {}, NEW fun
    PROVE  SumFunctionOnSet(fun, S) = fun[First(S)] + SumFunctionOnSet(fun, Rest(S))
<1>1. IsFiniteSet(Rest(S)) /\ Rest(S) \in SUBSET S
  BY FS_RemoveElement DEF Rest
<1>2. Sums(fun, SUBSET S, SumsOf(fun, S))
  BY SumsDefined
<1>3. Sums(fun, SUBSET Rest(S), SumsOf(fun, Rest(S)))
  BY <1>1, SumsDefined
<1>4. SumsOf(fun, S)[Rest(S)] = SumsOf(fun, Rest(S))[Rest(S)]
  <2>1. Agree(fun, fun, Rest(S))
    BY DEF Agree
  <2>2. \A U \in SUBSET Rest(S) : SumsOf(fun, S)[U] = SumsOf(fun, Rest(S))[U]
    BY <2>1, <1>1, <1>2, <1>3, SumsAgree
  <2> QED
    BY <2>2
<1>5. SumsOf(fun, S)[S] = fun[First(S)] + SumsOf(fun, S)[Rest(S)]
  BY <1>2 DEF Sums
<1> QED
  BY <1>4, <1>5, SumIsFold

\* A sum of natural numbers is one.
THEOREM SumType ==
    ASSUME NEW S, IsFiniteSet(S), NEW fun, NatValued(fun, S)
    PROVE  SumFunctionOnSet(fun, S) \in Nat
<1> DEFINE F == {T \in SUBSET S : SumFunctionOnSet(fun, T) \notin Nat}
<1>1. SUFFICES ASSUME F # {} PROVE FALSE
  OBVIOUS
<1>2. PICK T \in F : \A U \in F : U \subseteq T => U = T
  <2>1. F \in SUBSET (SUBSET S) OBVIOUS
  <2> HIDE DEF F
  <2> QED BY <1>1, <2>1, MinimalSubset
<1>3. T # {}
  BY SumEmpty
<1>4. First(T) \in T /\ Rest(T) \in SUBSET S /\ Rest(T) \subseteq T /\ Rest(T) # T
  BY <1>3, FirstOfSet DEF Rest
<1>5. SumFunctionOnSet(fun, Rest(T)) \in Nat
  BY <1>2, <1>4
<1>6. SumFunctionOnSet(fun, T) = fun[First(T)] + SumFunctionOnSet(fun, Rest(T))
  BY <1>3, FS_Subset, SumStep
<1>7. fun[First(T)] \in Nat
  BY <1>4 DEF NatValued
<1> QED
  BY <1>5, <1>6, <1>7

\* It does not matter which element is taken first.
THEOREM SumRemove ==
    ASSUME NEW S, IsFiniteSet(S), NEW fun, NatValued(fun, S), NEW x \in S
    PROVE  SumFunctionOnSet(fun, S) = fun[x] + SumFunctionOnSet(fun, S \ {x})
<1> DEFINE Sum(T) == SumFunctionOnSet(fun, T)
<1> DEFINE F == {T \in SUBSET S : \E y \in T : Sum(T) # fun[y] + Sum(T \ {y})}
<1>f. \A T \in SUBSET S : IsFiniteSet(T) /\ NatValued(fun, T)
  BY FS_Subset DEF NatValued
<1>n. \A T \in SUBSET S : Sum(T) \in Nat
  BY <1>f, SumType
<1>1. SUFFICES ASSUME F # {} PROVE FALSE
  OBVIOUS
<1>2. PICK T \in F : \A U \in F : U \subseteq T => U = T
  <2>1. F \in SUBSET (SUBSET S) OBVIOUS
  <2> HIDE DEF F
  <2> QED BY <1>1, <2>1, MinimalSubset
<1>3. PICK y \in T : Sum(T) # fun[y] + Sum(T \ {y})
  OBVIOUS
<1>4. First(T) \in T /\ Rest(T) = T \ {First(T)} /\ Sum(T) = fun[First(T)] + Sum(T \ {First(T)})
  BY <1>f, FirstOfSet, SumStep DEF Rest
<1> DEFINE z == First(T)
<1>5. y # z
  BY <1>3, <1>4
<1>6. T \ {z} \notin F /\ T \ {y} \notin F
  BY <1>2, <1>4
<1>7. Sum(T \ {z}) = fun[y] + Sum((T \ {z}) \ {y})
  BY <1>5, <1>6
<1>8. Sum(T \ {y}) = fun[z] + Sum((T \ {y}) \ {z})
  BY <1>4, <1>5, <1>6
<1>9. (T \ {z}) \ {y} = (T \ {y}) \ {z}
  OBVIOUS
<1>10. fun[y] \in Nat /\ fun[z] \in Nat /\ Sum((T \ {y}) \ {z}) \in Nat
  BY <1>4, <1>n DEF NatValued
<1> HIDE DEF Sum, z
<1> QED
  BY <1>3, <1>4, <1>7, <1>8, <1>9, <1>10 DEF z

\* One more element adds its value.
THEOREM SumAdd ==
    ASSUME NEW S, IsFiniteSet(S), NEW fun, NEW x, x \notin S, NatValued(fun, S \cup {x})
    PROVE  SumFunctionOnSet(fun, S \cup {x}) = SumFunctionOnSet(fun, S) + fun[x]
<1>1. IsFiniteSet(S \cup {x})
  BY FS_AddElement
<1>2. (S \cup {x}) \ {x} = S
  OBVIOUS
<1>3. SumFunctionOnSet(fun, S \cup {x}) = fun[x] + SumFunctionOnSet(fun, S)
  BY <1>1, <1>2, SumRemove
<1>4. SumFunctionOnSet(fun, S) \in Nat /\ fun[x] \in Nat
  BY SumType DEF NatValued
<1> QED
  BY <1>3, <1>4

\* A part of a set sums up to no more than the set.
THEOREM SumMonotonic ==
    ASSUME NEW S, IsFiniteSet(S), NEW fun, NatValued(fun, S), NEW T \in SUBSET S
    PROVE  SumFunctionOnSet(fun, T) <= SumFunctionOnSet(fun, S)
<1> DEFINE Sum(U) == SumFunctionOnSet(fun, U)
<1> DEFINE F == {U \in SUBSET S : T \subseteq U /\ ~(Sum(T) <= Sum(U))}
<1>f. \A U \in SUBSET S : IsFiniteSet(U) /\ NatValued(fun, U) /\ Sum(U) \in Nat
  BY FS_Subset, SumType DEF NatValued
<1>1. SUFFICES ASSUME F # {} PROVE FALSE
  OBVIOUS
<1>2. PICK U \in F : \A V \in F : V \subseteq U => V = U
  <2>1. F \in SUBSET (SUBSET S) OBVIOUS
  <2> HIDE DEF F
  <2> QED BY <1>1, <2>1, MinimalSubset
<1>3. U # T
  BY <1>f
<1>4. PICK x \in U : x \notin T
  BY <1>3
<1>5. Sum(T) <= Sum(U \ {x})
  BY <1>2, <1>4
<1>6. Sum(U) = fun[x] + Sum(U \ {x})
  BY <1>f, SumRemove
<1>7. fun[x] \in Nat /\ Sum(U \ {x}) \in Nat /\ Sum(T) \in Nat /\ Sum(U) \in Nat
  BY <1>f DEF NatValued
<1>8. ~(Sum(T) <= Sum(U))
  OBVIOUS
<1> HIDE DEF Sum
<1> QED
  BY <1>5, <1>6, <1>7, <1>8

\* The sum over two sets is at most the sums over both.
THEOREM SumUnion ==
    ASSUME NEW S, IsFiniteSet(S), NEW fun, NatValued(fun, S), NEW A \in SUBSET S, NEW B \in SUBSET S
    PROVE  SumFunctionOnSet(fun, A \cup B)
             <= SumFunctionOnSet(fun, A) + SumFunctionOnSet(fun, B)
<1> DEFINE Sum(U) == SumFunctionOnSet(fun, U)
<1> DEFINE F == {U \in SUBSET S : ~(Sum(A \cup U) <= Sum(A) + Sum(U))}
<1>f. \A U \in SUBSET S : IsFiniteSet(U) /\ NatValued(fun, U) /\ Sum(U) \in Nat
  BY FS_Subset, SumType DEF NatValued
<1>1. SUFFICES ASSUME F # {} PROVE FALSE
  OBVIOUS
<1>2. PICK U \in F : \A V \in F : V \subseteq U => V = U
  <2>1. F \in SUBSET (SUBSET S) OBVIOUS
  <2> HIDE DEF F
  <2> QED BY <1>1, <2>1, MinimalSubset
<1>3. U # {}
  <2>1. SUFFICES ASSUME U = {} PROVE FALSE OBVIOUS
  <2>2. Sum(U) = 0 /\ A \cup U = A /\ Sum(A) \in Nat BY <2>1, <1>f, SumEmpty
  <2>3. ~(Sum(A \cup U) <= Sum(A) + Sum(U)) OBVIOUS
  <2>4. Sum(A \cup U) = Sum(A) BY <2>2
  <2> HIDE DEF Sum
  <2> QED BY <2>2, <2>3, <2>4
<1>4. PICK x \in U : TRUE
  BY <1>3
<1>5. Sum(A \cup (U \ {x})) <= Sum(A) + Sum(U \ {x})
  BY <1>2, <1>4
<1>6. Sum(U) = fun[x] + Sum(U \ {x})
  BY <1>f, <1>4, SumRemove
<1>7. Sum(A \cup U) <= fun[x] + Sum(A \cup (U \ {x}))
  <2>1. CASE x \in A
    <3>1. A \cup U = A \cup (U \ {x}) BY <2>1
    <3>2. fun[x] \in Nat /\ Sum(A \cup (U \ {x})) \in Nat BY <1>f, <1>4 DEF NatValued
    <3> QED BY <3>1, <3>2
  <2>2. CASE x \notin A
    <3>1. (A \cup U) \ {x} = A \cup (U \ {x}) BY <2>2
    <3>2. x \in A \cup U /\ A \cup U \in SUBSET S BY <1>4
    <3>3. Sum(A \cup U) = fun[x] + Sum((A \cup U) \ {x}) BY <1>f, <3>2, SumRemove
    <3>4. Sum(A \cup U) \in Nat BY <1>f
    <3> QED BY <3>1, <3>3, <3>4
  <2> QED BY <2>1, <2>2
<1>8. /\ fun[x] \in Nat /\ Sum(U \ {x}) \in Nat /\ Sum(A) \in Nat /\ Sum(U) \in Nat
      /\ Sum(A \cup U) \in Nat /\ Sum(A \cup (U \ {x})) \in Nat
  BY <1>f, <1>4 DEF NatValued
<1>9. ~(Sum(A \cup U) <= Sum(A) + Sum(U))
  OBVIOUS
<1> HIDE DEF Sum
<1> QED
  BY <1>5, <1>6, <1>7, <1>8, <1>9

\* The sum over two sets without a common element is that of their sums.
THEOREM SumDisjoint ==
    ASSUME NEW S, IsFiniteSet(S), NEW fun, NatValued(fun, S), NEW A \in SUBSET S, NEW B \in SUBSET S,
           A \cap B = {}
    PROVE  SumFunctionOnSet(fun, A \cup B)
             = SumFunctionOnSet(fun, A) + SumFunctionOnSet(fun, B)
<1> DEFINE Sum(U) == SumFunctionOnSet(fun, U)
<1> DEFINE F == {U \in SUBSET B : Sum(A \cup U) # Sum(A) + Sum(U)}
<1>f. \A U \in SUBSET S : IsFiniteSet(U) /\ NatValued(fun, U) /\ Sum(U) \in Nat
  BY FS_Subset, SumType DEF NatValued
<1>1. SUFFICES ASSUME F # {} PROVE FALSE
  OBVIOUS
<1>2. PICK U \in F : \A V \in F : V \subseteq U => V = U
  <2>1. F \in SUBSET (SUBSET B) OBVIOUS
  <2> HIDE DEF F
  <2> QED BY <1>1, <1>f, <2>1, MinimalSubset
<1>3. U # {}
  <2>1. SUFFICES ASSUME U = {} PROVE FALSE OBVIOUS
  <2>2. Sum(U) = 0 /\ A \cup U = A /\ Sum(A) \in Nat BY <2>1, <1>f, SumEmpty
  <2>3. Sum(A \cup U) # Sum(A) + Sum(U) OBVIOUS
  <2> HIDE DEF Sum
  <2> QED BY <2>2, <2>3
<1>4. PICK x \in U : TRUE
  BY <1>3
<1>5. Sum(A \cup (U \ {x})) = Sum(A) + Sum(U \ {x})
  BY <1>2, <1>4
<1>6. Sum(U) = fun[x] + Sum(U \ {x})
  BY <1>f, <1>4, SumRemove
<1>7. Sum(A \cup U) = fun[x] + Sum(A \cup (U \ {x}))
  <2>1. (A \cup U) \ {x} = A \cup (U \ {x}) BY <1>4
  <2>2. x \in A \cup U /\ A \cup U \in SUBSET S BY <1>4
  <2> QED BY <2>1, <2>2, <1>f, SumRemove
<1>8. /\ fun[x] \in Nat /\ Sum(U \ {x}) \in Nat /\ Sum(A) \in Nat
      /\ Sum(A \cup U) # Sum(A) + Sum(U)
  BY <1>f, <1>4 DEF NatValued
<1> HIDE DEF Sum
<1> QED
  BY <1>5, <1>6, <1>7, <1>8

\* A sum of natural numbers is 0 if each of them is, and only then.
THEOREM SumZero ==
    ASSUME NEW S, IsFiniteSet(S), NEW fun, NatValued(fun, S)
    PROVE  SumFunctionOnSet(fun, S) = 0 <=> \A x \in S : fun[x] = 0
<1>1. ASSUME SumFunctionOnSet(fun, S) = 0, NEW x \in S
      PROVE  fun[x] = 0
  <2>1. SumFunctionOnSet(fun, S \ {x}) \in Nat
    BY FS_Subset, SumType DEF NatValued
  <2>2. SumFunctionOnSet(fun, S) = fun[x] + SumFunctionOnSet(fun, S \ {x})
    BY SumRemove
  <2>3. fun[x] \in Nat
    BY DEF NatValued
  <2> QED
    BY <1>1, <2>1, <2>2, <2>3
<1>2. ASSUME \A x \in S : fun[x] = 0
      PROVE  SumFunctionOnSet(fun, S) = 0
  <2> DEFINE F == {U \in SUBSET S : SumFunctionOnSet(fun, U) # 0}
  <2>1. SUFFICES ASSUME F # {} PROVE FALSE
    OBVIOUS
  <2>2. PICK U \in F : \A V \in F : V \subseteq U => V = U
    <3>1. F \in SUBSET (SUBSET S) OBVIOUS
    <3> HIDE DEF F
    <3> QED BY <2>1, <3>1, MinimalSubset
  <2>3. PICK x \in U : TRUE
    BY SumEmpty
  <2>4. SumFunctionOnSet(fun, U \ {x}) = 0
    BY <2>2, <2>3
  <2>5. IsFiniteSet(U) /\ NatValued(fun, U)
    BY FS_Subset DEF NatValued
  <2>6. SumFunctionOnSet(fun, U) = fun[x] + SumFunctionOnSet(fun, U \ {x})
    BY <2>3, <2>5, SumRemove
  <2> QED
    BY <1>2, <2>3, <2>4, <2>6
<1> QED
  BY <1>1, <1>2

\* Counting is adding up ones.
THEOREM SumOfOnes ==
    ASSUME NEW S, IsFiniteSet(S), NEW fun, \A x \in S : fun[x] = 1
    PROVE  SumFunctionOnSet(fun, S) = Cardinality(S)
<1> DEFINE F == {U \in SUBSET S : SumFunctionOnSet(fun, U) # Cardinality(U)}
<1>f. \A U \in SUBSET S : IsFiniteSet(U) /\ Cardinality(U) \in Nat /\ NatValued(fun, U)
  BY FS_Subset, FS_CardinalityType DEF NatValued
<1>1. SUFFICES ASSUME F # {} PROVE FALSE
  OBVIOUS
<1>2. PICK U \in F : \A V \in F : V \subseteq U => V = U
  <2>1. F \in SUBSET (SUBSET S) OBVIOUS
  <2> HIDE DEF F
  <2> QED BY <1>1, <2>1, MinimalSubset
<1>3. PICK x \in U : TRUE
  BY SumEmpty, FS_EmptySet
<1>4. SumFunctionOnSet(fun, U \ {x}) = Cardinality(U \ {x})
  BY <1>2, <1>3
<1>5. Cardinality(U \ {x}) = Cardinality(U) - 1
  BY <1>f, <1>3, FS_RemoveElement
<1>6. SumFunctionOnSet(fun, U) = fun[x] + SumFunctionOnSet(fun, U \ {x})
  BY <1>f, <1>3, SumRemove
<1> QED
  BY <1>f, <1>3, <1>4, <1>5, <1>6

\* If the elements of each of finitely many classes sum up to at most a bound, all of them sum
\* up to at most the bound times the number of classes.
THEOREM SumByClass ==
    ASSUME NEW S, IsFiniteSet(S), NEW fun, NatValued(fun, S), NEW key,
           NEW K, IsFiniteSet(K), NEW bound \in Nat,
           \A k \in K : SumFunctionOnSet(fun, {x \in S : key[x] = k}) <= bound
    PROVE  SumFunctionOnSet(fun, {x \in S : key[x] \in K}) <= Cardinality(K) * bound
<1> DEFINE In(L) == {x \in S : key[x] \in L}
<1> DEFINE Sum(U) == SumFunctionOnSet(fun, U)
<1> DEFINE F == {L \in SUBSET K : ~(Sum(In(L)) <= Cardinality(L) * bound)}
<1>f. \A U \in SUBSET S : Sum(U) \in Nat
  BY FS_Subset, SumType DEF NatValued
<1>k. \A L \in SUBSET K : IsFiniteSet(L) /\ Cardinality(L) \in Nat
  BY FS_Subset, FS_CardinalityType
<1>1. SUFFICES ASSUME F # {} PROVE FALSE
  OBVIOUS
<1>2. PICK L \in F : \A M \in F : M \subseteq L => M = L
  <2>1. F \in SUBSET (SUBSET K) OBVIOUS
  <2> HIDE DEF F
  <2> QED BY <1>1, <2>1, MinimalSubset
<1>3. L # {}
  <2>1. SUFFICES ASSUME L = {} PROVE FALSE OBVIOUS
  <2>2. In(L) = {} /\ Cardinality(L) = 0 BY <2>1, FS_EmptySet
  <2>3. Sum(In(L)) = 0 BY <2>2, SumEmpty
  <2> QED BY <2>2, <2>3
<1>4. PICK k \in L : TRUE
  BY <1>3
<1>5. Sum(In(L \ {k})) <= Cardinality(L \ {k}) * bound
  BY <1>2, <1>4
<1>6. Cardinality(L \ {k}) = Cardinality(L) - 1
  BY <1>k, <1>4, FS_RemoveElement
<1>7. Sum(In(L)) <= Sum(In(L \ {k})) + Sum({x \in S : key[x] = k})
  <2>1. In(L) = In(L \ {k}) \cup {x \in S : key[x] = k} BY <1>4
  <2>2. In(L \ {k}) \in SUBSET S /\ {x \in S : key[x] = k} \in SUBSET S OBVIOUS
  <2> QED BY <2>1, <2>2, SumUnion
<1>8. Sum({x \in S : key[x] = k}) <= bound
  BY <1>4
<1>9. /\ Sum(In(L)) \in Nat /\ Sum(In(L \ {k})) \in Nat /\ Sum({x \in S : key[x] = k}) \in Nat
      /\ Cardinality(L) \in Nat /\ Cardinality(L \ {k}) \in Nat
  BY <1>f, <1>k
<1>10. ~(Sum(In(L)) <= Cardinality(L) * bound)
  OBVIOUS
<1>11. (Cardinality(L) - 1) * bound + bound = Cardinality(L) * bound
  BY <1>9
<1> HIDE DEF Sum, In
<1> QED
  BY <1>5, <1>6, <1>7, <1>8, <1>9, <1>10, <1>11

\* The sums of the classes of a partition add up to the sum of the whole.
THEOREM SumOfClasses ==
    ASSUME NEW S, IsFiniteSet(S), NEW fun, NatValued(fun, S), NEW key, NEW K, IsFiniteSet(K),
           NEW sums, \A k \in K : sums[k] = SumFunctionOnSet(fun, {x \in S : key[x] = k})
    PROVE  SumFunctionOnSet(sums, K) = SumFunctionOnSet(fun, {x \in S : key[x] \in K})
<1> DEFINE Class(k) == {x \in S : key[x] = k}
<1> DEFINE In(L) == {x \in S : key[x] \in L}
<1> DEFINE Sum(U) == SumFunctionOnSet(fun, U)
<1> DEFINE F == {L \in SUBSET K : SumFunctionOnSet(sums, L) # Sum(In(L))}
<1>f. \A U \in SUBSET S : Sum(U) \in Nat
  BY FS_Subset, SumType DEF NatValued
<1>k. \A L \in SUBSET K : IsFiniteSet(L) /\ NatValued(sums, L)
  BY <1>f, FS_Subset DEF NatValued
<1>1. SUFFICES ASSUME F # {} PROVE FALSE
  OBVIOUS
<1>2. PICK L \in F : \A M \in F : M \subseteq L => M = L
  <2>1. F \in SUBSET (SUBSET K) OBVIOUS
  <2> HIDE DEF F
  <2> QED BY <1>1, <2>1, MinimalSubset
<1>3. L # {}
  <2>1. SUFFICES ASSUME L = {} PROVE FALSE OBVIOUS
  <2>2. In(L) = {} BY <2>1
  <2> QED BY <2>1, <2>2, SumEmpty
<1>4. PICK k \in L : TRUE
  BY <1>3
<1>5. SumFunctionOnSet(sums, L \ {k}) = Sum(In(L \ {k}))
  BY <1>2, <1>4
<1>6. SumFunctionOnSet(sums, L) = sums[k] + SumFunctionOnSet(sums, L \ {k})
  BY <1>k, <1>4, SumRemove
<1>7. Sum(In(L)) = Sum(Class(k)) + Sum(In(L \ {k}))
  <2>1. In(L) = Class(k) \cup In(L \ {k}) BY <1>4
  <2>2. In(L \ {k}) \in SUBSET S /\ Class(k) \in SUBSET S /\ Class(k) \cap In(L \ {k}) = {}
    OBVIOUS
  <2>3. \A A, B \in SUBSET S : A \cap B = {} => Sum(A \cup B) = Sum(A) + Sum(B)
    BY SumDisjoint
  <2> HIDE DEF Sum, In, Class
  <2> QED BY <2>1, <2>2, <2>3
<1>8. sums[k] = Sum(Class(k)) /\ SumFunctionOnSet(sums, L) # Sum(In(L))
  BY <1>4
<1> HIDE DEF Sum, In, Class
<1> QED
  BY <1>5, <1>6, <1>7, <1>8
=============================================================================
