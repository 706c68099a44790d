----------------------------- MODULE Sums_proofs -----------------------------
(***************************************************************************)
(* Sums over finite sets.  SumFunctionOnSet is recursive in the set, and    *)
(* the facts about it are by induction; they are proved here once, without  *)
(* an induction theorem that takes a predicate: what would be false has a   *)
(* least counterexample, in its size or in the order of inclusion, which is *)
(* a set like any other.                                                    *)
(***************************************************************************)
EXTENDS Integers, FiniteSets, Functions, FiniteSetTheorems, WellFoundedInduction, TLAPS

Picked(s) == CHOOSE x \in s : TRUE

Sums(f, D, g) == g = [s \in D |-> IF s = {} THEN 0 ELSE f[Picked(s)] + g[s \ {Picked(s)}]]

SumsOver(f, S, g) == Sums(f, SUBSET S, g)

LEMMA SumUnfolds ==
  ASSUME NEW f, NEW S
  PROVE  SumFunctionOnSet(f, S) = (CHOOSE g : SumsOver(f, S, g))[S]
<1> QED BY Zenon DEF SumFunctionOnSet, FoldFunctionOnSet, MapThenFoldSet, SumsOver, Sums, Picked

LEMMA LeastNumber ==
  ASSUME NEW B \in SUBSET Nat, B # {}
  PROVE  \E n \in B : \A m \in B : n <= m
<1> DEFINE less == {ss \in Nat \X Nat : ss[1] < ss[2]}
<1>1. IsWellFoundedOn(less, Nat)
  BY NatLessThanWellFounded, Zenon DEF OpToRel
<1>2. PICK n \in B : \A m \in B : ~ (<<m, n>> \in less)
  <2> HIDE DEF less
  <2> QED BY <1>1, WFMin, Zenon
<1>3. ASSUME NEW m \in Nat, NEW k \in Nat, m < k PROVE <<m, k>> \in less
  BY <1>3
<1>4. ASSUME NEW m \in B PROVE n <= m
  <2> HIDE DEF less
  <2>1. m \in Nat /\ n \in Nat /\ ~ (m < n)
    BY <1>2, <1>3
  <2> QED BY <2>1
<1> QED BY <1>4

LEMMA SmallestSet ==
  ASSUME NEW S, IsFiniteSet(S), NEW B \in SUBSET (SUBSET S), B # {}
  PROVE  \E s \in B : \A t \in B : t \subseteq s => t = s
<1>1. FiniteSubsetsOf(S) = SUBSET S
  BY FS_Subset DEF FiniteSubsetsOf
<1>2. IsWellFoundedOn(StrictSubsetOrdering(S), SUBSET S)
  BY <1>1, FS_StrictSubsetOrderingWellFounded
<1>3. PICK s \in B : \A t \in B : ~ (<<t, s>> \in StrictSubsetOrdering(S))
  BY <1>2, WFMin, Zenon
<1>4. ASSUME NEW t \in B, t \subseteq s PROVE t = s
  BY <1>3, <1>4 DEF StrictSubsetOrdering
<1> QED BY <1>4

IntegersOn(f, S) == \A x \in S : f[x] \in Int

AgreeOn(e, f, T) == \A x \in T : e[x] = f[x]

IsSum(g, f, S) ==
    /\ g \in [SUBSET S -> Int] /\ SumsOver(f, S, g)
    /\ \A s \in SUBSET S : SumFunctionOnSet(f, s) = g[s]

OfSize(S, n) == {s \in SUBSET S : Cardinality(s) <= n}

LEMMA PickedIsIn == ASSUME NEW s, s # {} PROVE Picked(s) \in s
<1> QED BY DEF Picked

LEMMA SumsExist ==
  ASSUME NEW S, IsFiniteSet(S), NEW f, IntegersOn(f, S)
  PROVE  \E g \in [SUBSET S -> Int] : SumsOver(f, S, g)
<1> DEFINE Typed(n) == \E g \in [OfSize(S, n) -> Int] : Sums(f, OfSize(S, n), g)
           Bad == {n \in Nat : ~ Typed(n)}
<1>1. Bad = {}
  <2> SUFFICES ASSUME Bad # {} PROVE FALSE
    OBVIOUS
  <2>1. PICK n \in Bad : \A m \in Bad : n <= m
    <3>1. Bad \in SUBSET Nat
      OBVIOUS
    <3> HIDE DEF Bad
    <3> QED BY <3>1, LeastNumber
  <2>2. \A s \in SUBSET S : IsFiniteSet(s) /\ Cardinality(s) \in Nat
    BY FS_Subset, FS_CardinalityType
  <2>3. CASE n = 0
    <3>1. OfSize(S, 0) = {{}}
      <4>1. \A s \in SUBSET S : Cardinality(s) <= 0 <=> s = {}
        BY <2>2, FS_EmptySet
      <4> HIDE DEF Bad
      <4> QED BY <4>1 DEF OfSize
    <3>2. [s \in {{}} |-> 0] \in [{{}} -> Int] /\ Sums(f, {{}}, [s \in {{}} |-> 0])
      BY DEF SumsOver, Sums
    <3> QED BY <2>3, <3>1, <3>2
  <2>4. CASE n # 0
    <3>1. n - 1 \in Nat /\ n - 1 \notin Bad
      BY <2>1, <2>4
    <3>2. PICK g \in [OfSize(S, n - 1) -> Int] : Sums(f, OfSize(S, n - 1), g)
      BY <3>1
    <3> DEFINE h == [s \in OfSize(S, n) |-> IF s = {} THEN 0 ELSE f[Picked(s)] + g[s \ {Picked(s)}]]
    <3>3. ASSUME NEW s \in OfSize(S, n), s # {}
          PROVE  Picked(s) \in S /\ s \ {Picked(s)} \in OfSize(S, n - 1) /\ s \ {Picked(s)} \in OfSize(S, n)
      <4>1. Picked(s) \in s
        BY <3>3, PickedIsIn
      <4>2. Cardinality(s \ {Picked(s)}) = Cardinality(s) - 1
        BY <4>1, <2>2, FS_RemoveElement DEF OfSize
      <4> QED BY <4>1, <4>2, <2>2, <3>1 DEF OfSize
    <3>4. h \in [OfSize(S, n) -> Int]
      BY <3>3 DEF IntegersOn
    <3>5. ASSUME NEW s \in OfSize(S, n - 1) PROVE h[s] = g[s]
      <4>1. s \in OfSize(S, n)
        BY <2>2, <3>1 DEF OfSize
      <4> QED BY <3>2, <4>1 DEF SumsOver, Sums
    <3>6. Sums(f, OfSize(S, n), h)
      BY <3>3, <3>5 DEF SumsOver, Sums
    <3> QED BY <3>4, <3>6, <2>1
  <2> QED BY <2>3, <2>4
<1>2. OfSize(S, Cardinality(S)) = SUBSET S
  BY FS_Subset DEF OfSize
<1>3. Cardinality(S) \in Nat
  BY FS_CardinalityType
<1>4. Typed(Cardinality(S))
  BY <1>1, <1>3
<1> QED BY <1>2, <1>4 DEF SumsOver

LEMMA SumsAgree ==
  ASSUME NEW S, IsFiniteSet(S), NEW f, NEW g, SumsOver(f, S, g),
         NEW T \in SUBSET S, NEW e, NEW h, SumsOver(e, T, h), AgreeOn(e, f, T)
  PROVE  \A s \in SUBSET T : g[s] = h[s]
<1> DEFINE Bad == {s \in SUBSET T : g[s] # h[s]}
<1> SUFFICES ASSUME Bad # {} PROVE FALSE
  OBVIOUS
<1>1. PICK s \in Bad : \A t \in Bad : t \subseteq s => t = s
  <2>1. Bad \in SUBSET (SUBSET T) /\ IsFiniteSet(T)
    BY FS_Subset
  <2> HIDE DEF Bad
  <2> QED BY <2>1, SmallestSet
<1>2. s \in SUBSET S /\ s \in SUBSET T
  OBVIOUS
<1>3. CASE s = {}
  BY <1>1, <1>2, <1>3 DEF SumsOver, Sums
<1>4. CASE s # {}
  <2>1. Picked(s) \in s
    BY <1>4, PickedIsIn
  <2>2. s \ {Picked(s)} \notin Bad
    BY <1>1, <2>1
  <2>3. g[s \ {Picked(s)}] = h[s \ {Picked(s)}]
    BY <2>2, <1>2
  <2>4. g[s] = f[Picked(s)] + g[s \ {Picked(s)}] /\ h[s] = e[Picked(s)] + h[s \ {Picked(s)}]
    BY <1>2, <1>4 DEF SumsOver, Sums
  <2>5. e[Picked(s)] = f[Picked(s)]
    BY <1>2, <2>1 DEF AgreeOn
  <2> QED BY <2>5, <2>3, <2>4, <1>1, <1>2
<1> QED BY <1>3, <1>4

LEMMA SumIsSum ==
  ASSUME NEW S, IsFiniteSet(S), NEW f, IntegersOn(f, S)
  PROVE  \E g : IsSum(g, f, S)
<1>1. PICK g \in [SUBSET S -> Int] : SumsOver(f, S, g)
  BY SumsExist, Zenon
<1>2. ASSUME NEW s \in SUBSET S PROVE SumFunctionOnSet(f, s) = g[s]
  <2>1. IsFiniteSet(s) /\ IntegersOn(f, s)
    BY FS_Subset DEF IntegersOn
  <2>2. \E h : SumsOver(f, s, h)
    BY <2>1, SumsExist, Zenon
  <2> DEFINE h == CHOOSE c : SumsOver(f, s, c)
  <2>3. SumsOver(f, s, h)
    BY <2>2, Zenon
  <2> HIDE DEF h
  <2>4. \A t \in SUBSET s : g[t] = h[t]
    <3>1. AgreeOn(f, f, s)
      BY DEF AgreeOn
    <3> QED BY <2>3, <3>1, <1>1, SumsAgree
  <2>5. SumFunctionOnSet(f, s) = h[s]
    BY SumUnfolds, Zenon DEF h
  <2> QED BY <2>4, <2>5
<1> QED BY <1>1, <1>2 DEF IsSum

LEMMA SumType ==
  ASSUME NEW S, IsFiniteSet(S), NEW f, IntegersOn(f, S)
  PROVE  SumFunctionOnSet(f, S) \in Int
<1>1. PICK g : IsSum(g, f, S)
  BY SumIsSum
<1> QED BY <1>1 DEF IsSum

LEMMA SumEmpty == ASSUME NEW f PROVE SumFunctionOnSet(f, {}) = 0
<1>1. IsFiniteSet({}) /\ IntegersOn(f, {})
  BY FS_EmptySet DEF IntegersOn
<1>2. PICK g : IsSum(g, f, {})
  BY <1>1, SumIsSum
<1> QED BY <1>2 DEF IsSum, SumsOver, Sums

LEMMA SumSame ==
  ASSUME NEW S, IsFiniteSet(S), NEW f, NEW e, IntegersOn(f, S), AgreeOn(e, f, S)
  PROVE  SumFunctionOnSet(e, S) = SumFunctionOnSet(f, S)
<1>1. PICK g : IsSum(g, f, S)
  BY SumIsSum
<1>2. IntegersOn(e, S)
  BY DEF IntegersOn, AgreeOn
<1>3. PICK h : IsSum(h, e, S)
  BY <1>2, SumIsSum
<1>4. SumsOver(f, S, g) /\ SumsOver(e, S, h)
  BY <1>1, <1>3 DEF IsSum
<1>5. \A s \in SUBSET S : g[s] = h[s]
  <2>1. S \in SUBSET S
    OBVIOUS
  <2> QED BY <1>4, <2>1, SumsAgree
<1> QED BY <1>1, <1>3, <1>5 DEF IsSum

LEMMA SumWithout ==
  ASSUME NEW S, IsFiniteSet(S), NEW f, IntegersOn(f, S), NEW x \in S
  PROVE  SumFunctionOnSet(f, S) = f[x] + SumFunctionOnSet(f, S \ {x})
<1>1. PICK g : IsSum(g, f, S)
  BY SumIsSum
<1> DEFINE Splits(s) == \A y \in s : g[s] = f[y] + g[s \ {y}]
           Bad == {s \in SUBSET S : ~ Splits(s)}
<1>2. Bad = {}
  <2> SUFFICES ASSUME Bad # {} PROVE FALSE
    OBVIOUS
  <2>1. PICK s \in Bad : \A t \in Bad : t \subseteq s => t = s
    <3>1. Bad \in SUBSET (SUBSET S)
      OBVIOUS
    <3> HIDE DEF Bad
    <3> QED BY <3>1, SmallestSet
  <2>2. PICK y \in s : g[s] # f[y] + g[s \ {y}]
    OBVIOUS
  <2>3. PICK z \in s : z = Picked(s)
    BY <2>2, PickedIsIn
  <2>4. s \in SUBSET S /\ y \in S /\ z \in S
    OBVIOUS
  <2>5. g[s] = f[z] + g[s \ {z}]
    BY <1>1, <2>2, <2>3, <2>4 DEF IsSum, SumsOver, Sums
  <2>6. y # z
    BY <2>2, <2>5
  <2>7. Splits(s \ {z}) /\ Splits(s \ {y})
    BY <2>1, <2>4
  <2>8. g[s \ {z}] = f[y] + g[(s \ {z}) \ {y}] /\ g[s \ {y}] = f[z] + g[(s \ {y}) \ {z}]
    BY <2>6, <2>7
  <2>9. (s \ {z}) \ {y} = (s \ {y}) \ {z}
    OBVIOUS
  <2>10. f[y] \in Int /\ f[z] \in Int /\ g[(s \ {y}) \ {z}] \in Int
    BY <1>1, <2>4 DEF IsSum, IntegersOn
  <2>11. \A a, b, c \in Int : a + (b + c) = b + (a + c)
    OBVIOUS
  <2>12. g[s] = f[y] + (f[z] + g[(s \ {y}) \ {z}])
    <3>1. PICK a, b, c, d, e : a = f[y] /\ b = f[z] /\ c = g[(s \ {y}) \ {z}] /\ d = g[s \ {z}] /\ e = g[s]
      OBVIOUS
    <3>2. e = b + d /\ d = a + c
      BY <2>5, <2>8, <2>9, <3>1, Zenon
    <3>3. a \in Int /\ b \in Int /\ c \in Int
      BY <2>10, <3>1, Zenon
    <3>4. e = a + (b + c)
      BY <3>2, <3>3
    <3> QED BY <3>1, <3>4, Zenon
  <2>13. g[s] = f[y] + g[s \ {y}]
    BY <2>8, <2>12, Zenon
  <2> QED BY <2>2, <2>13
<1>3. g[S] = f[x] + g[S \ {x}]
  BY <1>2
<1> QED BY <1>1, <1>3 DEF IsSum

LEMMA SumAdd ==
  ASSUME NEW S, IsFiniteSet(S), NEW f, IntegersOn(f, S), NEW x, x \notin S, f[x] \in Int
  PROVE  SumFunctionOnSet(f, S \cup {x}) = f[x] + SumFunctionOnSet(f, S)
<1>1. IsFiniteSet(S \cup {x})
  BY FS_AddElement
<1>2. IntegersOn(f, S \cup {x}) /\ (S \cup {x}) \ {x} = S /\ x \in S \cup {x}
  BY DEF IntegersOn
<1>3. PICK T : T = S \cup {x}
  OBVIOUS
<1>4. IsFiniteSet(T) /\ IntegersOn(f, T) /\ x \in T /\ T \ {x} = S
  BY <1>1, <1>2, <1>3, Zenon
<1>5. SumFunctionOnSet(f, T) = f[x] + SumFunctionOnSet(f, T \ {x})
  BY <1>4, SumWithout, Zenon
<1> QED BY <1>3, <1>4, <1>5, Zenon

LEMMA SumAtMost ==
  ASSUME NEW S, IsFiniteSet(S), NEW f, IntegersOn(f, S), NEW e, IntegersOn(e, S),
         \A x \in S : f[x] <= e[x]
  PROVE  SumFunctionOnSet(f, S) <= SumFunctionOnSet(e, S)
<1> DEFINE Holds(T) == SumFunctionOnSet(f, T) <= SumFunctionOnSet(e, T)
           Bad == {T \in SUBSET S : ~ Holds(T)}
<1>1. Bad = {}
  <2> SUFFICES ASSUME Bad # {} PROVE FALSE
    OBVIOUS
  <2>1. PICK T \in Bad : \A t \in Bad : t \subseteq T => t = T
    <3>1. Bad \in SUBSET (SUBSET S)
      OBVIOUS
    <3> HIDE DEF Bad
    <3> QED BY <3>1, SmallestSet
  <2>2. T \in SUBSET S /\ ~ Holds(T) /\ IsFiniteSet(T)
    BY FS_Subset
  <2>3. T # {}
    <3>1. Holds({})
      BY SumEmpty
    <3> QED BY <2>2, <3>1
  <2>4. PICK x \in T : TRUE
    BY <2>3
  <2>5. IntegersOn(f, T) /\ IntegersOn(e, T) /\ IntegersOn(f, T \ {x}) /\ IntegersOn(e, T \ {x})
    BY <2>2 DEF IntegersOn
  <2>6. Holds(T \ {x})
    BY <2>1, <2>4
  <2>7. /\ SumFunctionOnSet(f, T) = f[x] + SumFunctionOnSet(f, T \ {x})
        /\ SumFunctionOnSet(e, T) = e[x] + SumFunctionOnSet(e, T \ {x})
    BY <2>2, <2>4, <2>5, SumWithout
  <2>8. IsFiniteSet(T \ {x})
    BY <2>2, FS_Subset
  <2>9. SumFunctionOnSet(f, T \ {x}) \in Int /\ SumFunctionOnSet(e, T \ {x}) \in Int
    BY <2>5, <2>8, SumType
  <2>10. f[x] \in Int /\ e[x] \in Int /\ f[x] <= e[x]
    BY <2>2, <2>4, <2>5 DEF IntegersOn
  <2>11. Holds(T)
    BY <2>6, <2>7, <2>9, <2>10
  <2> QED BY <2>2, <2>11
<1> QED BY <1>1

\* Leaving out what is not negative does not make a sum larger.
LEMMA SumOfPart ==
  ASSUME NEW S, IsFiniteSet(S), NEW f, IntegersOn(f, S), \A x \in S : f[x] >= 0,
         NEW T \in SUBSET S
  PROVE  0 <= SumFunctionOnSet(f, T) /\ SumFunctionOnSet(f, T) <= SumFunctionOnSet(f, S)
<1> DEFINE Holds(U) == 0 <= SumFunctionOnSet(f, U \cap T) /\ SumFunctionOnSet(f, U \cap T) <= SumFunctionOnSet(f, U)
           Bad == {U \in SUBSET S : ~ Holds(U)}
<1>1. Bad = {}
  <2> SUFFICES ASSUME Bad # {} PROVE FALSE
    OBVIOUS
  <2>1. PICK U \in Bad : \A t \in Bad : t \subseteq U => t = U
    <3>1. Bad \in SUBSET (SUBSET S)
      OBVIOUS
    <3> HIDE DEF Bad
    <3> QED BY <3>1, SmallestSet
  <2>2. U \in SUBSET S /\ ~ Holds(U) /\ IsFiniteSet(U) /\ IsFiniteSet(U \cap T)
    BY FS_Subset
  <2>3. U # {}
    <3>1. {} \cap T = {}
      OBVIOUS
    <3>2. Holds({})
      BY <3>1, SumEmpty
    <3> QED BY <2>2, <3>2
  <2>4. PICK x \in U : TRUE
    BY <2>3
  <2>5. IntegersOn(f, U) /\ IntegersOn(f, U \ {x}) /\ IntegersOn(f, U \cap T) /\ IntegersOn(f, (U \ {x}) \cap T)
    BY <2>2 DEF IntegersOn
  <2>6. Holds(U \ {x})
    BY <2>1, <2>4
  <2>7. SumFunctionOnSet(f, U) = f[x] + SumFunctionOnSet(f, U \ {x})
    BY <2>2, <2>4, <2>5, SumWithout
  <2>8. IsFiniteSet(U \ {x}) /\ IsFiniteSet((U \ {x}) \cap T)
    BY <2>2, FS_Subset
  <2>9. SumFunctionOnSet(f, U \ {x}) \in Int /\ SumFunctionOnSet(f, (U \ {x}) \cap T) \in Int
    BY <2>5, <2>8, SumType
  <2>10. f[x] \in Int /\ f[x] >= 0
    BY <2>2, <2>4, <2>5 DEF IntegersOn
  <2>11. CASE x \in T
    <3>1. x \in U \cap T /\ (U \cap T) \ {x} = (U \ {x}) \cap T
      BY <2>11, <2>4
    <3>2. SumFunctionOnSet(f, U \cap T) = f[x] + SumFunctionOnSet(f, (U \cap T) \ {x})
      BY <2>2, <2>5, <3>1, SumWithout
    <3> HIDE DEF Bad
    <3> QED BY <2>2, <2>6, <2>7, <2>9, <2>10, <3>1, <3>2
  <2>12. CASE x \notin T
    <3>1. U \cap T = (U \ {x}) \cap T
      BY <2>12
    <3> HIDE DEF Bad
    <3> QED BY <2>2, <2>6, <2>7, <2>9, <2>10, <3>1
  <2> QED BY <2>11, <2>12
<1>2. S \cap T = T
  OBVIOUS
<1> QED BY <1>1, <1>2

\* Two functions that differ at one element.
LEMMA SumWhereOneDiffers ==
  ASSUME NEW S, IsFiniteSet(S), NEW f, IntegersOn(f, S), NEW e, IntegersOn(e, S),
         NEW x \in S, \A y \in S \ {x} : e[y] = f[y]
  PROVE  SumFunctionOnSet(e, S) - e[x] = SumFunctionOnSet(f, S) - f[x]
<1>1. IsFiniteSet(S \ {x}) /\ IntegersOn(f, S \ {x}) /\ IntegersOn(e, S \ {x}) /\ AgreeOn(e, f, S \ {x})
  BY FS_Subset DEF IntegersOn, AgreeOn
<1>2. SumFunctionOnSet(e, S \ {x}) = SumFunctionOnSet(f, S \ {x})
  BY <1>1, SumSame
<1>3. /\ SumFunctionOnSet(f, S) = f[x] + SumFunctionOnSet(f, S \ {x})
      /\ SumFunctionOnSet(e, S) = e[x] + SumFunctionOnSet(e, S \ {x})
  BY SumWithout
<1>4. f[x] \in Int /\ e[x] \in Int /\ SumFunctionOnSet(f, S \ {x}) \in Int
  BY <1>1, SumType DEF IntegersOn
<1> QED BY <1>2, <1>3, <1>4

LEMMA SumZero ==
  ASSUME NEW S, IsFiniteSet(S), NEW f, \A x \in S : f[x] = 0
  PROVE  SumFunctionOnSet(f, S) = 0
<1> DEFINE Bad == {T \in SUBSET S : SumFunctionOnSet(f, T) # 0}
<1>1. Bad = {}
  <2> SUFFICES ASSUME Bad # {} PROVE FALSE
    OBVIOUS
  <2>1. PICK T \in Bad : \A t \in Bad : t \subseteq T => t = T
    <3>1. Bad \in SUBSET (SUBSET S)
      OBVIOUS
    <3> HIDE DEF Bad
    <3> QED BY <3>1, SmallestSet
  <2>2. T \in SUBSET S /\ SumFunctionOnSet(f, T) # 0 /\ IsFiniteSet(T) /\ IntegersOn(f, T)
    BY FS_Subset DEF IntegersOn
  <2>3. PICK x \in T : TRUE
    BY <2>2, SumEmpty
  <2>4. SumFunctionOnSet(f, T \ {x}) = 0 /\ f[x] = 0
    BY <2>1, <2>2, <2>3
  <2>5. SumFunctionOnSet(f, T) = f[x] + SumFunctionOnSet(f, T \ {x})
    BY <2>2, <2>3, SumWithout
  <2> QED BY <2>2, <2>4, <2>5
<1> QED BY <1>1
=============================================================================
