------------------------------ MODULE SumProofs ------------------------------
(***************************************************************************)
(* Sums over finite sets, as the loops over validators and signers take    *)
(* them.  SumFunctionOnSet is a recursive function on the subsets of a     *)
(* set; what it computes is shown here by smallest counterexamples.        *)
(***************************************************************************)
EXTENDS Integers, FiniteSetsExt, FiniteSetTheorems, FunctionTheorems, WellFoundedInduction, TLAPS

-----------------------------------------------------------------------------
(* Smallest counterexamples.                                               *)

(* A non-empty set of naturals has a least element.                        *)
LEMMA LeastNatural ==
  ASSUME NEW S, S \subseteq Nat, S # {}
  PROVE  Min(S) \in S /\ \A j \in S : Min(S) <= j
<1> DEFINE less == {p \in Nat \X Nat : p[1] < p[2]}
<1>0. IsWellFoundedOn(less, Nat)
  BY NatLessThanWellFounded DEF OpToRel
<1> HIDE DEF less
<1>1. PICK i \in S : \A j \in S : <<j, i>> \notin less
  BY <1>0, WFMin
<1>2. ASSUME NEW j \in S PROVE i <= j
  <2>1. i \in Nat /\ j \in Nat /\ <<j, i>> \notin less
    BY <1>1
  <2>2. ~(j < i)
    BY <2>1 DEF less
  <2> QED
    BY <2>1, <2>2
<1> QED
  BY <1>2 DEF Min

(* Among finite sets there is one that has no smaller one inside it.       *)
LEMMA SmallestSet ==
  ASSUME NEW family, family # {}, \A S \in family : IsFiniteSet(S)
  PROVE  \E S \in family : \A T \in SUBSET S : T \in family => T = S
<1> DEFINE sizes == {Cardinality(S) : S \in family}
<1>1. sizes \subseteq Nat /\ sizes # {}
  BY FS_CardinalityType
<1>2. PICK S \in family : Cardinality(S) = Min(sizes)
  BY <1>1, LeastNatural
<1>3. ASSUME NEW T \in SUBSET S, T \in family PROVE T = S
  <2>1. Cardinality(S) <= Cardinality(T)
    BY <1>1, <1>2, <1>3, LeastNatural
  <2>2. IsFiniteSet(S) /\ IsFiniteSet(T) /\ Cardinality(S) \in Nat /\ Cardinality(T) \in Nat
    BY <1>3, FS_CardinalityType
  <2>3. Cardinality(T) <= Cardinality(S)
    BY <2>2, FS_Subset
  <2>4. Cardinality(S) = Cardinality(T)
    BY <2>1, <2>2, <2>3
  <2> QED
    BY <2>2, <2>4, FS_Subset
<1> QED
  BY <1>3

-----------------------------------------------------------------------------
(* SumFunctionOnSet does what its recursive equation says.                 *)

Pick(s) == CHOOSE x \in s : TRUE

(* F holds the sums of f over the subsets of S.                            *)
Sums(f, S, F) ==
  F = [s \in SUBSET S |-> IF s = {} THEN 0 ELSE f[Pick(s)] + F[s \ {Pick(s)}]]

PartialSums(f, S) == CHOOSE F : Sums(f, S, F)

LEMMA PickType ==
  ASSUME NEW s, s # {}
  PROVE  Pick(s) \in s
BY DEF Pick

LEMMA SumIsPartial ==
  ASSUME NEW f, NEW S
  PROVE  SumFunctionOnSet(f, S) = PartialSums(f, S)[S]
BY DEF SumFunctionOnSet, FoldFunctionOnSet, MapThenFoldSet, PartialSums, Sums, Pick

LEMMA SumsAt ==
  ASSUME NEW f, NEW S, NEW F, Sums(f, S, F), NEW s \in SUBSET S
  PROVE  F[s] = IF s = {} THEN 0 ELSE f[Pick(s)] + F[s \ {Pick(s)}]
BY DEF Sums

LEMMA SumsUnique ==
  ASSUME NEW f, NEW S, NEW F, Sums(f, S, F), NEW T, NEW G, Sums(f, T, G),
         NEW s, s \subseteq S, s \subseteq T, IsFiniteSet(s)
  PROVE  F[s] = G[s]
<1> DEFINE bad == {t \in SUBSET s : F[t] # G[t]}
<1> SUFFICES ASSUME bad # {} PROVE FALSE
  OBVIOUS
<1>1. PICK t \in bad : \A u \in SUBSET t : u \in bad => u = t
  <2>1. \A t \in bad : IsFiniteSet(t)
    BY FS_Subset
  <2> HIDE DEF bad
  <2> QED
    BY <2>1, SmallestSet
<1>2. t \in SUBSET S /\ t \in SUBSET T
  OBVIOUS
<1>3. /\ F[t] = IF t = {} THEN 0 ELSE f[Pick(t)] + F[t \ {Pick(t)}]
      /\ G[t] = IF t = {} THEN 0 ELSE f[Pick(t)] + G[t \ {Pick(t)}]
  <2>1. F[t] = IF t = {} THEN 0 ELSE f[Pick(t)] + F[t \ {Pick(t)}]
    BY <1>2, SumsAt
  <2>2. G[t] = IF t = {} THEN 0 ELSE f[Pick(t)] + G[t \ {Pick(t)}]
    BY <1>2, SumsAt
  <2> QED
    BY <2>1, <2>2
<1>4. CASE t = {}
  BY <1>3, <1>4
<1>5. CASE t # {}
  <2>1. t \ {Pick(t)} \notin bad
    BY <1>1, <1>5, PickType
  <2>2. F[t \ {Pick(t)}] = G[t \ {Pick(t)}]
    BY <2>1
  <2> QED
    BY <1>3, <1>5, <2>2
<1> QED
  BY <1>4, <1>5

LEMMA SumsExist ==
  ASSUME NEW f, NEW S, IsFiniteSet(S)
  PROVE  Sums(f, S, PartialSums(f, S))
<1> DEFINE bad == {T \in SUBSET S : ~ \E F : Sums(f, T, F)}
<1> SUFFICES ASSUME bad # {} PROVE FALSE
  BY DEF PartialSums
<1>1. PICK T \in bad : \A U \in SUBSET T : U \in bad => U = T
  <2>1. \A T \in bad : IsFiniteSet(T)
    BY FS_Subset
  <2> HIDE DEF bad
  <2> QED
    BY <2>1, SmallestSet
<1>2. IsFiniteSet(T)
  BY FS_Subset
<1>3. ASSUME NEW u \in SUBSET T, u # T PROVE Sums(f, u, PartialSums(f, u))
  BY <1>1, <1>3 DEF PartialSums
<1> DEFINE P(u) == PartialSums(f, u)[u]
           G == [s \in SUBSET T |-> IF s = {} THEN 0 ELSE f[Pick(s)] + P(s \ {Pick(s)})]
<1>4. ASSUME NEW u \in SUBSET T, u # T PROVE G[u] = P(u)
  <2>1. PartialSums(f, u)[u] = IF u = {} THEN 0
          ELSE f[Pick(u)] + PartialSums(f, u)[u \ {Pick(u)}]
    BY <1>3, <1>4, SumsAt
  <2>2. CASE u = {}
    BY <2>1, <2>2
  <2>3. CASE u # {}
    <3> DEFINE w == u \ {Pick(u)}
    <3>1. w \in SUBSET T /\ w # T /\ w \subseteq u /\ IsFiniteSet(w)
      BY <1>2, <2>3, PickType, FS_Subset
    <3>2. PartialSums(f, u)[w] = PartialSums(f, w)[w]
      <4> HIDE DEF w
      <4> QED
        BY <1>3, <1>4, <3>1, SumsUnique
    <3> QED
      BY <2>1, <2>3, <3>2
  <2> QED
    BY <2>2, <2>3
<1>5. ASSUME NEW s \in SUBSET T
      PROVE  G[s] = IF s = {} THEN 0 ELSE f[Pick(s)] + G[s \ {Pick(s)}]
  <2>1. CASE s = {}
    BY <2>1
  <2>2. CASE s # {}
    <3>1. s \ {Pick(s)} \in SUBSET T /\ s \ {Pick(s)} # T
      BY <2>2, PickType
    <3>2. G[s \ {Pick(s)}] = P(s \ {Pick(s)})
      BY <1>4, <3>1
    <3>3. G[s] = f[Pick(s)] + P(s \ {Pick(s)})
      BY <2>2
    <3> HIDE DEF G, P
    <3> QED
      BY <2>2, <3>2, <3>3
  <2> QED
    BY <2>1, <2>2
<1>6. Sums(f, T, G)
  <2>1. G = [s \in SUBSET T |-> G[s]]
    OBVIOUS
  <2> HIDE DEF G
  <2> QED
    BY <1>5, <2>1 DEF Sums
<1> QED
  BY <1>6

(* The recursive equation.                                                 *)
LEMMA SumUnfolds ==
  ASSUME NEW f, NEW S, IsFiniteSet(S)
  PROVE  SumFunctionOnSet(f, S) =
           IF S = {} THEN 0 ELSE f[Pick(S)] + SumFunctionOnSet(f, S \ {Pick(S)})
<1> DEFINE R == S \ {Pick(S)}
<1>1. Sums(f, S, PartialSums(f, S))
  BY SumsExist
<1>2. IsFiniteSet(R) /\ R \subseteq S
  BY FS_Subset
<1>3. Sums(f, R, PartialSums(f, R))
  BY <1>2, SumsExist
<1>4. PartialSums(f, S)[R] = PartialSums(f, R)[R]
  <2> HIDE DEF R
  <2> QED
    BY <1>1, <1>2, <1>3, SumsUnique
<1> QED
  BY <1>1, <1>4, SumsAt, SumIsPartial
-----------------------------------------------------------------------------
(* Facts about sums.                                                       *)

LEMMA SumOfNothing ==
  ASSUME NEW f
  PROVE  SumFunctionOnSet(f, {}) = 0
BY SumUnfolds, FS_EmptySet

Naturals(f, S) == \A i \in S : f[i] \in Nat

LEMMA SumIsNatural ==
  ASSUME NEW f, NEW S, IsFiniteSet(S), Naturals(f, S)
  PROVE  SumFunctionOnSet(f, S) \in Nat
<1> DEFINE bad == {T \in SUBSET S : SumFunctionOnSet(f, T) \notin Nat}
<1> SUFFICES ASSUME bad # {} PROVE FALSE
  OBVIOUS
<1>1. PICK T \in bad : \A U \in SUBSET T : U \in bad => U = T
  <2>1. \A T \in bad : IsFiniteSet(T)
    BY FS_Subset
  <2> HIDE DEF bad
  <2> QED
    BY <2>1, SmallestSet
<1>2. IsFiniteSet(T) /\ T # {}
  <2>1. IsFiniteSet(T)
    BY FS_Subset
  <2> QED
    BY <2>1, SumOfNothing
<1>3. Pick(T) \in T /\ T \ {Pick(T)} \in SUBSET T /\ T \ {Pick(T)} # T
  BY <1>2, PickType
<1>4. SumFunctionOnSet(f, T \ {Pick(T)}) \in Nat
  BY <1>1, <1>3
<1>5. SumFunctionOnSet(f, T) = f[Pick(T)] + SumFunctionOnSet(f, T \ {Pick(T)})
  BY <1>2, SumUnfolds
<1> QED
  BY <1>3, <1>4, <1>5 DEF Naturals

(* Any element may be taken first: the order of the loop does not matter.  *)
LEMMA SumRemove ==
  ASSUME NEW f, NEW S, IsFiniteSet(S), Naturals(f, S), NEW x \in S
  PROVE  SumFunctionOnSet(f, S) = f[x] + SumFunctionOnSet(f, S \ {x})
<1> DEFINE Good(T, y) == SumFunctionOnSet(f, T) = f[y] + SumFunctionOnSet(f, T \ {y})
           bad == {T \in SUBSET S : \E y \in T : ~Good(T, y)}
<1> SUFFICES ASSUME bad # {} PROVE FALSE
  BY DEF bad
<1>1. PICK T \in bad : \A U \in SUBSET T : U \in bad => U = T
  <2>1. \A T \in bad : IsFiniteSet(T)
    BY FS_Subset
  <2> HIDE DEF bad
  <2> QED
    BY <2>1, SmallestSet
<1>2. PICK y \in T : ~Good(T, y)
  OBVIOUS
<1> DEFINE c == Pick(T)
           V == T \ {c, y}
<1>3. IsFiniteSet(T) /\ T \subseteq S /\ c \in T
  BY <1>2, PickType, FS_Subset
<1>4. SumFunctionOnSet(f, T) = f[c] + SumFunctionOnSet(f, T \ {c})
  BY <1>2, <1>3, SumUnfolds
<1>5. CASE y = c
  BY <1>2, <1>4, <1>5
<1>6. CASE y # c
  <2> HIDE DEF c
  <2>1. (T \ {c}) \ {y} = V /\ (T \ {y}) \ {c} = V
    OBVIOUS
  <2>2. Good(T \ {c}, y) /\ Good(T \ {y}, c)
    <3>1. T \ {c} \notin bad /\ T \ {y} \notin bad
      <4>1. /\ T \ {c} \in SUBSET T /\ T \ {c} # T
            /\ T \ {y} \in SUBSET T /\ T \ {y} # T
        BY <1>2, <1>3
      <4> HIDE DEF bad, V
      <4> QED
        BY <1>1, <4>1
    <3>2. y \in T \ {c} /\ c \in T \ {y}
      BY <1>2, <1>3, <1>6
    <3>3. T \ {c} \in SUBSET S /\ T \ {y} \in SUBSET S
      OBVIOUS
    <3> HIDE DEF Good
    <3> QED
      BY <3>1, <3>2, <3>3
  <2>3. SumFunctionOnSet(f, V) \in Nat /\ f[c] \in Nat /\ f[y] \in Nat
    <3>1. IsFiniteSet(V)
      BY <1>3, FS_Subset
    <3>2. Naturals(f, V)
      BY <1>3 DEF Naturals
    <3> QED
      BY <1>2, <1>3, <3>1, <3>2, SumIsNatural DEF Naturals
  <2>4. /\ SumFunctionOnSet(f, T \ {c}) = f[y] + SumFunctionOnSet(f, V)
        /\ SumFunctionOnSet(f, T \ {y}) = f[c] + SumFunctionOnSet(f, V)
    BY <2>1, <2>2
  <2>5. ~(SumFunctionOnSet(f, T) = f[y] + SumFunctionOnSet(f, T \ {y}))
    BY <1>2
  <2> HIDE DEF V, Good, bad
  <2> QED
    BY <1>4, <2>3, <2>4, <2>5
<1> QED
  BY <1>5, <1>6

(* Only the terms of the sum matter.                                       *)
LEMMA SumAgrees ==
  ASSUME NEW f, NEW g, NEW S, IsFiniteSet(S), \A i \in S : f[i] = g[i]
  PROVE  SumFunctionOnSet(f, S) = SumFunctionOnSet(g, S)
<1> DEFINE bad == {T \in SUBSET S : SumFunctionOnSet(f, T) # SumFunctionOnSet(g, T)}
<1> SUFFICES ASSUME bad # {} PROVE FALSE
  OBVIOUS
<1>1. PICK T \in bad : \A U \in SUBSET T : U \in bad => U = T
  <2>1. \A T \in bad : IsFiniteSet(T)
    BY FS_Subset
  <2> HIDE DEF bad
  <2> QED
    BY <2>1, SmallestSet
<1>2. IsFiniteSet(T) /\ T # {}
  <2>1. IsFiniteSet(T)
    BY FS_Subset
  <2> QED
    BY <2>1, SumOfNothing
<1>3. Pick(T) \in T /\ T \ {Pick(T)} \in SUBSET T /\ T \ {Pick(T)} # T
  BY <1>2, PickType
<1>4. SumFunctionOnSet(f, T \ {Pick(T)}) = SumFunctionOnSet(g, T \ {Pick(T)})
  BY <1>1, <1>3
<1>5. SumFunctionOnSet(f, T) = f[Pick(T)] + SumFunctionOnSet(f, T \ {Pick(T)})
  BY <1>2, SumUnfolds
<1>6. SumFunctionOnSet(g, T) = g[Pick(T)] + SumFunctionOnSet(g, T \ {Pick(T)})
  BY <1>2, SumUnfolds
<1> QED
  BY <1>3, <1>4, <1>5, <1>6

(* More terms give no smaller sum.                                         *)
LEMMA SumGrows ==
  ASSUME NEW f, NEW S, IsFiniteSet(S), Naturals(f, S), NEW T \in SUBSET S
  PROVE  SumFunctionOnSet(f, T) <= SumFunctionOnSet(f, S)
<1> DEFINE bad == {U \in SUBSET S : T \subseteq U
                                  /\ ~(SumFunctionOnSet(f, T) <= SumFunctionOnSet(f, U))}
<1> SUFFICES ASSUME bad # {} PROVE FALSE
  OBVIOUS
<1>1. PICK U \in bad : \A W \in SUBSET U : W \in bad => W = U
  <2>1. \A U \in bad : IsFiniteSet(U)
    BY FS_Subset
  <2> HIDE DEF bad
  <2> QED
    BY <2>1, SmallestSet
<1>2. IsFiniteSet(U) /\ IsFiniteSet(T) /\ Naturals(f, U) /\ Naturals(f, T)
  BY FS_Subset DEF Naturals
<1>3. SumFunctionOnSet(f, U) \in Nat /\ SumFunctionOnSet(f, T) \in Nat
  BY <1>2, SumIsNatural
<1>4. T # U
  BY <1>3
<1>5. PICK x \in U : x \notin T
  BY <1>4
<1>6. SumFunctionOnSet(f, U) = f[x] + SumFunctionOnSet(f, U \ {x})
  BY <1>2, SumRemove
<1>7. SumFunctionOnSet(f, T) <= SumFunctionOnSet(f, U \ {x})
  BY <1>1, <1>5
<1>8. SumFunctionOnSet(f, U \ {x}) \in Nat /\ f[x] \in Nat
  <2>1. IsFiniteSet(U \ {x}) /\ Naturals(f, U \ {x})
    BY <1>2, FS_Subset DEF Naturals
  <2> QED
    BY <1>2, <2>1, SumIsNatural DEF Naturals
<1>9. ~(SumFunctionOnSet(f, T) <= SumFunctionOnSet(f, U))
  OBVIOUS
<1> QED
  BY <1>3, <1>6, <1>7, <1>8, <1>9

(* Every term is at most the sum.                                          *)
LEMMA TermAtMostSum ==
  ASSUME NEW f, NEW S, IsFiniteSet(S), Naturals(f, S), NEW x \in S
  PROVE  f[x] <= SumFunctionOnSet(f, S)
<1>1. SumFunctionOnSet(f, S) = f[x] + SumFunctionOnSet(f, S \ {x})
  BY SumRemove
<1>2. IsFiniteSet(S \ {x}) /\ Naturals(f, S \ {x})
  BY FS_Subset DEF Naturals
<1>3. SumFunctionOnSet(f, S \ {x}) \in Nat /\ f[x] \in Nat
  BY <1>2, SumIsNatural DEF Naturals
<1> QED
  BY <1>1, <1>3

(* Numbering the terms another way does not change the sum.                *)
LEMMA SumRenumbered ==
  ASSUME NEW f, NEW S, IsFiniteSet(S), Naturals(f, S), NEW g, NEW p,
         \A i \in S : f[i] = g[p[i]],
         \A i, j \in S : p[i] = p[j] => i = j
  PROVE  SumFunctionOnSet(f, S) = SumFunctionOnSet(g, {p[i] : i \in S})
<1> DEFINE Image(T) == {p[i] : i \in T}
           bad == {T \in SUBSET S : SumFunctionOnSet(f, T) # SumFunctionOnSet(g, Image(T))}
<1> SUFFICES ASSUME bad # {} PROVE FALSE
  OBVIOUS
<1>1. PICK T \in bad : \A U \in SUBSET T : U \in bad => U = T
  <2>1. \A T \in bad : IsFiniteSet(T)
    BY FS_Subset
  <2> HIDE DEF bad
  <2> QED
    BY <2>1, SmallestSet
<1>2. IsFiniteSet(T) /\ T \subseteq S
  BY FS_Subset
<1>3. T # {}
  <2>1. Image({}) = {}
    OBVIOUS
  <2> HIDE DEF Image
  <2> QED
    BY <2>1, SumOfNothing
<1> DEFINE x == Pick(T)
           R == T \ {x}
<1>4. x \in T /\ R \in SUBSET T /\ R # T /\ R \in SUBSET S
  BY <1>3, PickType
<1>5. SumFunctionOnSet(f, R) = SumFunctionOnSet(g, Image(R))
  BY <1>1, <1>4
<1>6. SumFunctionOnSet(f, T) = f[x] + SumFunctionOnSet(f, R)
  BY <1>2, <1>3, SumUnfolds
<1>7. SumFunctionOnSet(g, Image(T)) = g[p[x]] + SumFunctionOnSet(g, Image(T) \ {p[x]})
  <2>1. IsFiniteSet(Image(T))
    <3> DEFINE q == [i \in T |-> p[i]]
    <3>1. q \in Surjection(T, Image(T))
      BY Fun_IsSurj
    <3> QED
      BY <1>2, <3>1, FS_Surjection
  <2>2. Naturals(g, Image(T))
    BY <1>2 DEF Naturals
  <2>3. p[x] \in Image(T)
    BY <1>4
  <2> HIDE DEF x, Image
  <2> QED
    BY <2>1, <2>2, <2>3, SumRemove
<1>8. Image(T) \ {p[x]} = Image(R)
  <2> HIDE DEF x
  <2> QED
    BY <1>2, <1>4
<1> HIDE DEF x, R, Image
<1> QED
  BY <1>2, <1>4, <1>5, <1>6, <1>7, <1>8
==============================================================================
