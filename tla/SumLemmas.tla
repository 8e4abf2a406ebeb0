----------------------------- MODULE SumLemmas -----------------------------
(***************************************************************************)
(* What the sums of Sums add up to.  Total is a fold over the set; the     *)
(* induction is over the subsets of a finite set: among those for which a  *)
(* fact fails there would be a least one, and it has an element that can   *)
(* be taken away.                                                          *)
(***************************************************************************)
EXTENDS Sums, FiniteSetTheorems, TLAPS

Chosen(s) == CHOOSE x \in s : TRUE

IsSum(g, f, S) ==
    g = [s \in SUBSET S |-> IF s = {} THEN 0 ELSE f[Chosen(s)] + g[s \ {Chosen(s)}]]

(* A set of finite sets has one that contains no other.                    *)
LEMMA SmallestSet ==
    ASSUME NEW S, IsFiniteSet(S), NEW B \in SUBSET SUBSET S, B # {}
    PROVE  \E s \in B : \A t \in B : t \subseteq s => t = s
  <1>1. B \subseteq FiniteSubsetsOf(S)
    BY FS_Subset DEF FiniteSubsetsOf
  <1>2. PICK s \in B : \A t \in B : <<t, s>> \notin StrictSubsetOrdering(S)
    BY <1>1, FS_StrictSubsetOrderingWellFounded, WFMin
  <1> QED BY <1>2 DEF StrictSubsetOrdering

(* A transitive relation in which nothing is before itself has a first     *)
(* element in every finite set.                                            *)
LEMMA LeastElement ==
    ASSUME NEW S, IsFiniteSet(S), S # {}, NEW R,
           \A x \in S : <<x, x>> \notin R,
           \A x, y, z \in S : <<x, y>> \in R /\ <<y, z>> \in R => <<x, z>> \in R
    PROVE  \E x \in S : \A y \in S : <<y, x>> \notin R
  <1> DEFINE below(x) == {y \in S : <<y, x>> \in R}
             B == {below(x) : x \in S}
  <1>1. \A s \in B : \E x \in S : s = below(x)
    OBVIOUS
  <1>2. \A x \in S : below(x) \in B
    OBVIOUS
  <1> HIDE DEF B
  <1>3. B \in SUBSET SUBSET S
    <2>1. ASSUME NEW s \in B PROVE s \subseteq S
      <3>1. PICK x \in S : s = below(x)
        BY <1>1
      <3> QED BY <3>1
    <2> HIDE DEF B
    <2> QED BY <2>1
  <1>0. B # {}
    <2>1. PICK x \in S : TRUE
      OBVIOUS
    <2> QED BY <1>2, <2>1
  <1>4. PICK s \in B : \A t \in B : t \subseteq s => t = s
    BY <1>0, <1>3, SmallestSet
  <1>5. PICK x \in S : s = below(x)
    BY <1>1
  <1>6. ASSUME NEW y \in S, <<y, x>> \in R PROVE FALSE
    <2>1. below(y) \subseteq below(x) /\ y \in below(x) /\ y \notin below(y)
      BY <1>6
    <2> QED BY <1>2, <1>4, <1>5, <2>1
  <1> QED BY <1>6

LEMMA ChosenIn == \A s : s # {} => Chosen(s) \in s
  BY DEF Chosen

LEMMA SumUnique ==
    ASSUME NEW S, IsFiniteSet(S), NEW T, NEW f, NEW g, NEW h, IsSum(g, f, S), IsSum(h, f, T)
    PROVE  \A s \in SUBSET S : s \in SUBSET T => g[s] = h[s]
  <1> DEFINE B == {s \in SUBSET S : s \subseteq T /\ g[s] # h[s]}
  <1> SUFFICES ASSUME B # {} PROVE FALSE
    OBVIOUS
  <1>1. PICK s \in B : \A t \in B : t \subseteq s => t = s
    <2>1. B \in SUBSET SUBSET S
      OBVIOUS
    <2> HIDE DEF B
    <2> QED BY <2>1, SmallestSet
  <1>2. /\ g[s] = IF s = {} THEN 0 ELSE f[Chosen(s)] + g[s \ {Chosen(s)}]
        /\ h[s] = IF s = {} THEN 0 ELSE f[Chosen(s)] + h[s \ {Chosen(s)}]
    BY DEF IsSum
  <1>3. CASE s = {}
    BY <1>2, <1>3
  <1>4. CASE s # {}
    <2>1. s \ {Chosen(s)} \notin B
      BY <1>1, <1>4, ChosenIn
    <2> QED BY <1>2, <1>4, <2>1
  <1> QED BY <1>3, <1>4

LEMMA SumExists ==
    ASSUME NEW S, IsFiniteSet(S), NEW f
    PROVE  \E g : IsSum(g, f, S)
  <1> DEFINE B == {T \in SUBSET S : ~ \E g : IsSum(g, f, T)}
  <1> SUFFICES ASSUME B # {} PROVE FALSE
    BY FS_Subset
  <1>1. PICK T \in B : \A t \in B : t \subseteq T => t = T
    <2>1. B \in SUBSET SUBSET S
      OBVIOUS
    <2> HIDE DEF B
    <2> QED BY <2>1, SmallestSet
  <1> DEFINE sum(s) == (CHOOSE g : IsSum(g, f, s))[s]
             new == [s \in SUBSET T |-> IF s = {} THEN 0
                        ELSE f[Chosen(s)] + sum(s \ {Chosen(s)})]
  <1>2. ASSUME NEW s \in SUBSET T, s # T
        PROVE  /\ IsSum(CHOOSE g : IsSum(g, f, s), f, s)
               /\ IsFiniteSet(s)
    <2>1. s \notin B
      BY <1>1, <1>2
    <2> QED BY <2>1, FS_Subset
  <1>3. ASSUME NEW s \in SUBSET T, s # T, s # {}
        PROVE  sum(s) = f[Chosen(s)] + sum(s \ {Chosen(s)})
    <2> DEFINE rest == s \ {Chosen(s)}
               g == CHOOSE k : IsSum(k, f, s)
               h == CHOOSE k : IsSum(k, f, rest)
    <2>1. rest \in SUBSET T /\ rest # T /\ rest \in SUBSET s
      BY <1>3, ChosenIn
    <2>2. IsSum(g, f, s) /\ IsSum(h, f, rest) /\ IsFiniteSet(s)
      BY <1>2, <1>3, <2>1
    <2>3. g[s] = f[Chosen(s)] + g[rest]
      BY <1>3, <2>2 DEF IsSum
    <2> HIDE DEF g, h
    <2>4. g[rest] = h[rest]
      BY <2>1, <2>2, SumUnique
    <2> QED BY <2>3, <2>4 DEF g, h
  <1>4. ASSUME T # {} PROVE sum({}) = 0
    <2>1. IsSum(CHOOSE g : IsSum(g, f, {}), f, {})
      BY <1>2, <1>4
    <2> QED BY <2>1 DEF IsSum
  <1> HIDE DEF sum
  <1>5. ASSUME NEW s \in SUBSET T, s # T PROVE sum(s) = new[s]
    BY <1>3, <1>4, <1>5
  <1>6. ASSUME NEW s \in SUBSET T, s # {} PROVE sum(s \ {Chosen(s)}) = new[s \ {Chosen(s)}]
    BY <1>5, <1>6, ChosenIn
  <1>7. IsSum(new, f, T)
    BY <1>6 DEF IsSum
  <1> QED BY <1>1, <1>7

LEMMA TotalIsSum ==
    ASSUME NEW S, IsFiniteSet(S), NEW f
    PROVE  \E g : IsSum(g, f, S) /\ Total(f, S) = g[S]
  <1>1. IsSum(CHOOSE g : IsSum(g, f, S), f, S)
    BY SumExists
  <1>2. Total(f, S) = (CHOOSE g : IsSum(g, f, S))[S]
    BY DEF Total, MapThenSumSet, MapThenFoldSet, IsSum, Chosen
  <1> QED BY <1>1, <1>2

LEMMA TotalEmpty == \A f : Total(f, {}) = 0
  <1> TAKE f
  <1>1. PICK g : IsSum(g, f, {}) /\ Total(f, {}) = g[{}]
    BY TotalIsSum, FS_EmptySet
  <1> QED BY <1>1 DEF IsSum

(* The sum of a set, by one of its elements.                               *)
LEMMA TotalStep ==
    ASSUME NEW S, IsFiniteSet(S), NEW f
    PROVE  S # {} => Total(f, S) = f[Chosen(S)] + Total(f, S \ {Chosen(S)})
  <1> SUFFICES ASSUME S # {} PROVE Total(f, S) = f[Chosen(S)] + Total(f, S \ {Chosen(S)})
    OBVIOUS
  <1> DEFINE rest == S \ {Chosen(S)}
  <1>1. IsFiniteSet(rest) /\ rest \in SUBSET S
    BY FS_Subset
  <1>2. PICK g : IsSum(g, f, S) /\ Total(f, S) = g[S]
    BY TotalIsSum
  <1>3. PICK h : IsSum(h, f, rest) /\ Total(f, rest) = h[rest]
    BY <1>1, TotalIsSum
  <1>4. g[rest] = h[rest]
    BY <1>1, <1>2, <1>3, SumUnique
  <1>5. g[S] = f[Chosen(S)] + g[rest]
    BY <1>2 DEF IsSum
  <1> QED BY <1>2, <1>3, <1>4, <1>5

LEMMA TotalType ==
    ASSUME NEW S, IsFiniteSet(S), NEW f, \A x \in S : f[x] \in Nat
    PROVE  Total(f, S) \in Nat
  <1> DEFINE B == {T \in SUBSET S : Total(f, T) \notin Nat}
  <1> SUFFICES ASSUME B # {} PROVE FALSE
    OBVIOUS
  <1>1. PICK T \in B : \A t \in B : t \subseteq T => t = T
    <2>1. B \in SUBSET SUBSET S
      OBVIOUS
    <2> HIDE DEF B
    <2> QED BY <2>1, SmallestSet
  <1>2. T \in SUBSET S /\ IsFiniteSet(T)
    BY FS_Subset
  <1>3. T # {}
    BY <1>2, TotalEmpty
  <1>4. Chosen(T) \in T /\ f[Chosen(T)] \in Nat
    BY <1>2, <1>3, ChosenIn
  <1>5. Total(f, T \ {Chosen(T)}) \in Nat
    BY <1>1, <1>2, <1>4
  <1>6. Total(f, T) = f[Chosen(T)] + Total(f, T \ {Chosen(T)})
    BY <1>2, <1>3, TotalStep
  <1> HIDE DEF B
  <1>7. Total(f, T) \in Nat
    BY <1>4, <1>5, <1>6
  <1> QED BY <1>1, <1>7 DEF B

LEMMA TotalSame ==
    ASSUME NEW S, IsFiniteSet(S), NEW f, NEW g, \A x \in S : f[x] = g[x]
    PROVE  Total(f, S) = Total(g, S)
  <1> DEFINE B == {T \in SUBSET S : Total(f, T) # Total(g, T)}
  <1> SUFFICES ASSUME B # {} PROVE FALSE
    OBVIOUS
  <1>1. PICK T \in B : \A t \in B : t \subseteq T => t = T
    <2>1. B \in SUBSET SUBSET S
      OBVIOUS
    <2> HIDE DEF B
    <2> QED BY <2>1, SmallestSet
  <1>2. T \in SUBSET S /\ IsFiniteSet(T)
    BY FS_Subset
  <1>3. T # {}
    BY <1>2, TotalEmpty
  <1>4. Chosen(T) \in T /\ f[Chosen(T)] = g[Chosen(T)]
    BY <1>2, <1>3, ChosenIn
  <1>5. Total(f, T \ {Chosen(T)}) = Total(g, T \ {Chosen(T)})
    BY <1>1, <1>2, <1>4
  <1> QED BY <1>2, <1>3, <1>4, <1>5, TotalStep

(* Sums of what is nowhere more are no more, and equal only if it is so    *)
(* everywhere.                                                             *)
LEMMA TotalGrows ==
    ASSUME NEW S, IsFiniteSet(S), NEW f, NEW g,
           \A x \in S : f[x] \in Nat /\ g[x] \in Nat /\ f[x] <= g[x]
    PROVE  /\ Total(f, S) <= Total(g, S)
           /\ Total(f, S) = Total(g, S) => \A x \in S : f[x] = g[x]
  <1> DEFINE Good(T) == /\ Total(f, T) <= Total(g, T)
                        /\ Total(f, T) = Total(g, T) => \A x \in T : f[x] = g[x]
             B == {T \in SUBSET S : ~ Good(T)}
  <1> SUFFICES ASSUME B # {} PROVE FALSE
    OBVIOUS
  <1>1. PICK T \in B : \A t \in B : t \subseteq T => t = T
    <2>1. B \in SUBSET SUBSET S
      OBVIOUS
    <2> HIDE DEF B
    <2> QED BY <2>1, SmallestSet
  <1>2. T \in SUBSET S /\ IsFiniteSet(T)
    BY FS_Subset
  <1>3. T # {}
    BY <1>2, TotalEmpty
  <1> DEFINE x == Chosen(T)
             rest == T \ {x}
  <1>4. x \in T /\ f[x] \in Nat /\ g[x] \in Nat /\ f[x] <= g[x]
    BY <1>2, <1>3, ChosenIn
  <1>5. Good(rest)
    BY <1>1, <1>2, <1>4
  <1>6. Total(f, rest) \in Nat /\ Total(g, rest) \in Nat
    BY <1>2, FS_Subset, TotalType
  <1>7. Total(f, T) = f[x] + Total(f, rest) /\ Total(g, T) = g[x] + Total(g, rest)
    BY <1>2, <1>3, TotalStep
  <1> HIDE DEF x
  <1>8. Good(T)
    BY <1>4, <1>5, <1>6, <1>7
  <1> QED BY <1>1, <1>8

(* Any element can be taken away first.                                    *)
LEMMA TotalRemove ==
    ASSUME NEW S, IsFiniteSet(S), NEW f, \A x \in S : f[x] \in Nat, NEW y \in S
    PROVE  Total(f, S) = f[y] + Total(f, S \ {y})
  <1> DEFINE Good(T) == \A x \in T : Total(f, T) = f[x] + Total(f, T \ {x})
             B == {T \in SUBSET S : ~ Good(T)}
  <1> SUFFICES ASSUME B # {} PROVE FALSE
    OBVIOUS
  <1>1. PICK T \in B : \A t \in B : t \subseteq T => t = T
    <2>1. B \in SUBSET SUBSET S
      OBVIOUS
    <2> HIDE DEF B
    <2> QED BY <2>1, SmallestSet
  <1>2. T \in SUBSET S /\ IsFiniteSet(T)
    BY FS_Subset
  <1>3. PICK x \in T : Total(f, T) # f[x] + Total(f, T \ {x})
    BY <1>1
  <1> DEFINE z == Chosen(T)
  <1>4. z \in T /\ Total(f, T) = f[z] + Total(f, T \ {z})
    BY <1>2, <1>3, ChosenIn, TotalStep
  <1> HIDE DEF z
  <1>5. x # z /\ x \in T \ {z} /\ z \in T \ {x}
    BY <1>3, <1>4
  <1>6. Good(T \ {z}) /\ Good(T \ {x})
    <2>1. T \ {z} \in SUBSET S /\ T \ {z} # T /\ T \ {z} \subseteq T
      BY <1>2, <1>4
    <2>2. T \ {x} \in SUBSET S /\ T \ {x} # T /\ T \ {x} \subseteq T
      BY <1>2, <1>3
    <2> QED BY <1>1, <2>1, <2>2
  <1> DEFINE rest == (T \ {z}) \ {x}
  <1>7. rest = (T \ {x}) \ {z}
    OBVIOUS
  <1>8. /\ Total(f, T \ {z}) = f[x] + Total(f, rest)
        /\ Total(f, T \ {x}) = f[z] + Total(f, rest)
    BY <1>5, <1>6, <1>7
  <1>9. f[x] \in Nat /\ f[z] \in Nat /\ Total(f, rest) \in Nat
    <2>1. IsFiniteSet(rest) /\ \A e \in rest : f[e] \in Nat
      BY <1>2, FS_Subset
    <2> QED BY <1>2, <1>3, <1>4, <2>1, TotalType
  <1> HIDE DEF rest
  <1> QED BY <1>3, <1>4, <1>8, <1>9

(* A part of a set adds up to no more, and to as much if it leaves out     *)
(* zeros only.                                                             *)
LEMMA TotalSubset ==
    ASSUME NEW S, IsFiniteSet(S), NEW f, \A x \in S : f[x] \in Nat, NEW R \in SUBSET S
    PROVE  /\ Total(f, R) \in Nat /\ Total(f, S) \in Nat
           /\ Total(f, R) <= Total(f, S)
           /\ (\A x \in S \ R : f[x] = 0) => Total(f, R) = Total(f, S)
  <1> DEFINE Good(T) == /\ Total(f, T \cap R) <= Total(f, T)
                        /\ (\A x \in T \ R : f[x] = 0) => Total(f, T \cap R) = Total(f, T)
             B == {T \in SUBSET S : ~ Good(T)}
  <1>1. ASSUME NEW T \in SUBSET S
        PROVE  /\ IsFiniteSet(T) /\ IsFiniteSet(T \cap R) /\ \A x \in T : f[x] \in Nat
               /\ Total(f, T) \in Nat /\ Total(f, T \cap R) \in Nat
    <2>1. IsFiniteSet(T) /\ IsFiniteSet(T \cap R)
      BY FS_Subset
    <2> QED BY <2>1, TotalType
  <1>2. B = {}
    <2> SUFFICES ASSUME B # {} PROVE FALSE
      OBVIOUS
    <2>1. PICK T \in B : \A t \in B : t \subseteq T => t = T
      <3>1. B \in SUBSET SUBSET S
        OBVIOUS
      <3> HIDE DEF B
      <3> QED BY <3>1, SmallestSet
    <2>2. T \in SUBSET S /\ T # {}
      <3>1. Good({})
        <4>1. Total(f, {}) = 0 /\ {} \cap R = {}
          BY TotalEmpty
        <4> QED BY <4>1
      <3> QED BY <3>1
    <2>3. PICK x \in T : TRUE
      BY <2>2
    <2> DEFINE rest == T \ {x}
    <2>4. Good(rest)
      <3>1. rest \in SUBSET S /\ rest # T /\ rest \subseteq T
        BY <2>2, <2>3
      <3> QED BY <2>1, <3>1
    <2>5. Total(f, T) = f[x] + Total(f, rest) /\ f[x] \in Nat
          /\ Total(f, rest) \in Nat /\ Total(f, rest \cap R) \in Nat
      BY <1>1, <2>2, <2>3, TotalRemove
    <2>6. CASE x \in R
      <3>1. Total(f, T \cap R) = f[x] + Total(f, (T \cap R) \ {x})
        BY <1>1, <2>2, <2>3, <2>6, TotalRemove
      <3>2. (T \cap R) \ {x} = rest \cap R /\ T \ R = rest \ R
        BY <2>6
      <3>3. Total(f, T \cap R) = f[x] + Total(f, rest \cap R)
        BY <3>1, <3>2
      <3> QED BY <2>1, <2>4, <2>5, <3>2, <3>3
    <2>7. CASE x \notin R
      <3>1. T \cap R = rest \cap R /\ x \in T \ R /\ rest \ R \subseteq T \ R
        BY <2>3, <2>7
      <3> QED BY <2>1, <2>4, <2>5, <3>1
    <2> QED BY <2>6, <2>7
  <1>3. Good(S) /\ S \cap R = R /\ S \in SUBSET S
    BY <1>2
  <1> QED BY <1>1, <1>3

LEMMA TotalMember ==
    ASSUME NEW S, IsFiniteSet(S), NEW f, \A x \in S : f[x] \in Nat, NEW y \in S
    PROVE  f[y] <= Total(f, S)
  <1>1. Total(f, S) = f[y] + Total(f, S \ {y}) /\ f[y] \in Nat
    BY TotalRemove
  <1>2. Total(f, S \ {y}) \in Nat
    BY TotalSubset
  <1> QED BY <1>1, <1>2

(* A set adds up to what two halves of it add up to.                       *)
LEMMA TotalSplit ==
    ASSUME NEW S, IsFiniteSet(S), NEW f, \A x \in S : f[x] \in Nat, NEW R \in SUBSET S
    PROVE  Total(f, S) = Total(f, R) + Total(f, S \ R)
  <1> DEFINE Good(T) == Total(f, T) = Total(f, T \cap R) + Total(f, T \ R)
             B == {T \in SUBSET S : ~ Good(T)}
  <1>1. B = {}
    <2> SUFFICES ASSUME B # {} PROVE FALSE
      OBVIOUS
    <2>1. PICK T \in B : \A t \in B : t \subseteq T => t = T
      <3>1. B \in SUBSET SUBSET S
        OBVIOUS
      <3> HIDE DEF B
      <3> QED BY <3>1, SmallestSet
    <2>2. T \in SUBSET S /\ T # {}
      <3>1. Good({})
        <4>1. Total(f, {}) = 0 /\ {} \cap R = {} /\ {} \ R = {}
          BY TotalEmpty
        <4> QED BY <4>1
      <3> QED BY <3>1
    <2>3. PICK x \in T : TRUE
      BY <2>2
    <2> DEFINE rest == T \ {x}
    <2>4. Good(rest)
      <3>1. rest \in SUBSET S /\ rest # T /\ rest \subseteq T
        BY <2>2, <2>3
      <3> QED BY <2>1, <3>1
    <2>5. /\ Total(f, T) = f[x] + Total(f, rest) /\ f[x] \in Nat
          /\ Total(f, rest \cap R) \in Nat /\ Total(f, rest \ R) \in Nat
      <3>1. /\ IsFiniteSet(T) /\ IsFiniteSet(rest \cap R) /\ IsFiniteSet(rest \ R)
            /\ \A y \in T : f[y] \in Nat
        BY <2>2, FS_Subset
      <3> QED BY <2>3, <3>1, TotalRemove, TotalType
    <2>6. /\ Total(f, rest) = Total(f, rest \cap R) + Total(f, rest \ R)
          /\ Total(f, T) # Total(f, T \cap R) + Total(f, T \ R)
      BY <2>1, <2>4
    <2> HIDE DEF rest
    <2>7. CASE x \in R
      <3>1. T \ R = rest \ R
        BY <2>3, <2>7 DEF rest
      <3>2. Total(f, T \cap R) = f[x] + Total(f, (T \cap R) \ {x})
        <4>1. IsFiniteSet(T \cap R) /\ x \in T \cap R /\ \A y \in T \cap R : f[y] \in Nat
          BY <2>2, <2>3, <2>7, FS_Subset
        <4> QED BY <4>1, TotalRemove
      <3>3. (T \cap R) \ {x} = rest \cap R
        BY DEF rest
      <3>4. Total(f, T \cap R) = f[x] + Total(f, rest \cap R)
        BY <3>2, <3>3
      <3>5. Total(f, T \ R) = Total(f, rest \ R)
        BY <3>1
      <3> QED BY <2>5, <2>6, <3>4, <3>5
    <2>8. CASE x \notin R
      <3>1. T \cap R = rest \cap R
        BY <2>3, <2>8 DEF rest
      <3>2. Total(f, T \ R) = f[x] + Total(f, (T \ R) \ {x})
        <4>1. IsFiniteSet(T \ R) /\ x \in T \ R /\ \A y \in T \ R : f[y] \in Nat
          BY <2>2, <2>3, <2>8, FS_Subset
        <4> QED BY <4>1, TotalRemove
      <3>3. (T \ R) \ {x} = rest \ R
        BY DEF rest
      <3>4. Total(f, T \ R) = f[x] + Total(f, rest \ R)
        BY <3>2, <3>3
      <3>5. Total(f, T \cap R) = Total(f, rest \cap R)
        BY <3>1
      <3> QED BY <2>5, <2>6, <3>4, <3>5
    <2> QED BY <2>7, <2>8
  <1>2. Good(S) /\ S \cap R = R /\ S \in SUBSET S
    BY <1>1
  <1> QED BY <1>2

(* Elements may be counted group by group.                                 *)
LEMMA TotalByGroup ==
    ASSUME NEW S, IsFiniteSet(S), NEW f, \A x \in S : f[x] \in Nat,
           NEW K, IsFiniteSet(K), NEW h, \A x \in S : h[x] \in K
    PROVE  /\ \A k \in K : Total(f, {x \in S : h[x] = k}) \in Nat
           /\ Total(f, S) = Total([k \in K |-> Total(f, {x \in S : h[x] = k})], K)
  <1> DEFINE In(L) == {x \in S : h[x] \in L}
             sums == [k \in K |-> Total(f, {x \in S : h[x] = k})]
             Good(L) == Total(f, In(L)) = Total(sums, L)
             B == {L \in SUBSET K : ~ Good(L)}
  <1>1. \A R \in SUBSET S : Total(f, R) \in Nat /\ IsFiniteSet(R)
    BY TotalSubset, FS_Subset
  <1>2. \A k \in K : sums[k] \in Nat /\ sums[k] = Total(f, In({k}))
    <2>1. \A k \in K : {x \in S : h[x] = k} \in SUBSET S /\ {x \in S : h[x] = k} = In({k})
      OBVIOUS
    <2> QED BY <1>1, <2>1
  <1>3. B = {}
    <2> SUFFICES ASSUME B # {} PROVE FALSE
      OBVIOUS
    <2>1. PICK L \in B : \A l \in B : l \subseteq L => l = L
      <3>1. B \in SUBSET SUBSET K
        OBVIOUS
      <3> HIDE DEF B
      <3> QED BY <3>1, SmallestSet
    <2>2. L \in SUBSET K /\ L # {}
      <3>1. Good({})
        <4>1. In({}) = {} /\ Total(f, {}) = 0 /\ Total(sums, {}) = 0
          BY TotalEmpty
        <4> QED BY <4>1
      <3> QED BY <3>1
    <2>3. PICK k \in L : TRUE
      BY <2>2
    <2> DEFINE rest == L \ {k}
    <2>4. Good(rest)
      <3>1. rest \in SUBSET K /\ rest # L /\ rest \subseteq L
        BY <2>2, <2>3
      <3> QED BY <2>1, <3>1
    <2>5. Total(sums, L) = sums[k] + Total(sums, rest)
      <3>1. IsFiniteSet(L) /\ \A l \in L : sums[l] \in Nat
        BY <1>2, <2>2, FS_Subset
      <3> HIDE DEF sums
      <3> QED BY <2>3, <3>1, TotalRemove
    <2>6. Total(f, In(L)) = Total(f, In({k})) + Total(f, In(rest))
      <3>1. /\ IsFiniteSet(In(L)) /\ \A x \in In(L) : f[x] \in Nat
            /\ In({k}) \in SUBSET In(L) /\ In(L) \ In({k}) = In(rest)
        BY <1>1, <2>3
      <3> HIDE DEF In
      <3>2. Total(f, In(L)) = Total(f, In({k})) + Total(f, In(L) \ In({k}))
        BY <3>1, TotalSplit
      <3> QED BY <3>1, <3>2
    <2> HIDE DEF In, sums
    <2>7. Good(L)
      BY <1>2, <2>2, <2>3, <2>4, <2>5, <2>6
    <2> QED BY <2>1, <2>7
  <1>4. Good(K) /\ In(K) = S
    BY <1>3
  <1> HIDE DEF In
  <1> QED BY <1>2, <1>4

(* Two columns may be added up row by row.                                 *)
LEMMA TotalPlus ==
    ASSUME NEW S, IsFiniteSet(S), NEW f, NEW g, NEW h,
           \A x \in S : f[x] \in Nat /\ g[x] \in Nat /\ h[x] = f[x] + g[x]
    PROVE  Total(h, S) = Total(f, S) + Total(g, S)
  <1> DEFINE Good(T) == Total(h, T) = Total(f, T) + Total(g, T)
             B == {T \in SUBSET S : ~ Good(T)}
  <1> SUFFICES ASSUME B # {} PROVE FALSE
    OBVIOUS
  <1>1. PICK T \in B : \A t \in B : t \subseteq T => t = T
    <2>1. B \in SUBSET SUBSET S
      OBVIOUS
    <2> HIDE DEF B
    <2> QED BY <2>1, SmallestSet
  <1>2. T \in SUBSET S /\ IsFiniteSet(T)
    BY FS_Subset
  <1>3. T # {}
    <2>1. Good({})
      <3>1. Total(f, {}) = 0 /\ Total(g, {}) = 0 /\ Total(h, {}) = 0
        BY TotalEmpty
      <3> QED BY <3>1
    <2> QED BY <2>1
  <1> DEFINE x == Chosen(T)
             rest == T \ {x}
  <1>4. x \in T /\ f[x] \in Nat /\ g[x] \in Nat /\ h[x] = f[x] + g[x]
    BY <1>2, <1>3, ChosenIn
  <1>5. Good(rest)
    BY <1>1, <1>2, <1>4
  <1>6. Total(f, rest) \in Nat /\ Total(g, rest) \in Nat
    BY <1>2, FS_Subset, TotalType
  <1>7. /\ Total(f, T) = f[x] + Total(f, rest) /\ Total(g, T) = g[x] + Total(g, rest)
        /\ Total(h, T) = h[x] + Total(h, rest)
    BY <1>2, <1>3, TotalStep
  <1> HIDE DEF x
  <1>8. Good(T)
    BY <1>4, <1>5, <1>6, <1>7
  <1> QED BY <1>1, <1>8

(* Elements are counted by adding one for each.                            *)
LEMMA TotalOfOnes ==
    ASSUME NEW S, IsFiniteSet(S), NEW f, \A x \in S : f[x] = 1
    PROVE  Total(f, S) = Cardinality(S)
  <1> DEFINE Good(T) == Total(f, T) = Cardinality(T)
             B == {T \in SUBSET S : ~ Good(T)}
  <1> SUFFICES ASSUME B # {} PROVE FALSE
    OBVIOUS
  <1>1. PICK T \in B : \A t \in B : t \subseteq T => t = T
    <2>1. B \in SUBSET SUBSET S
      OBVIOUS
    <2> HIDE DEF B
    <2> QED BY <2>1, SmallestSet
  <1>2. T \in SUBSET S /\ IsFiniteSet(T)
    BY FS_Subset
  <1>3. T # {}
    BY <1>2, TotalEmpty, FS_EmptySet
  <1> DEFINE x == Chosen(T)
             rest == T \ {x}
  <1>4. x \in T /\ f[x] = 1
    BY <1>2, <1>3, ChosenIn
  <1>5. Good(rest)
    BY <1>1, <1>2, <1>4
  <1>6. Total(f, T) = f[x] + Total(f, rest)
    BY <1>2, <1>3, TotalStep
  <1> HIDE DEF x
  <1>7. Cardinality(rest) = Cardinality(T) - 1 /\ Cardinality(T) \in Nat
    BY <1>2, <1>4, FS_RemoveElement, FS_CardinalityType
  <1>8. Good(T)
    BY <1>4, <1>5, <1>6, <1>7
  <1> QED BY <1>1, <1>8

(* g has what each of the groups K adds up to, h the group of each element.*)
InGroups(S, f, K, h, g) ==
    /\ \A x \in S : f[x] \in Nat /\ h[x] \in K
    /\ \A k \in K : g[k] = Total(f, {x \in S : h[x] = k})

LEMMA TotalOfGroups ==
    ASSUME NEW S, IsFiniteSet(S), NEW K, IsFiniteSet(K), NEW f, NEW h, NEW g,
           InGroups(S, f, K, h, g)
    PROVE  Total(f, S) = Total(g, K)
  <1> DEFINE sums == [k \in K |-> Total(f, {x \in S : h[x] = k})]
  <1>1. /\ \A k \in K : Total(f, {x \in S : h[x] = k}) \in Nat
        /\ Total(f, S) = Total(sums, K)
    BY TotalByGroup DEF InGroups
  <1>2. \A k \in K : sums[k] = g[k]
    BY DEF InGroups
  <1> HIDE DEF sums
  <1>3. Total(sums, K) = Total(g, K)
    BY <1>2, TotalSame
  <1> QED BY <1>1, <1>3

(* A finite set of numbers has a greatest one, and a least one.            *)
LEMMA Extremes ==
    ASSUME NEW S, S \subseteq Int, S # {}, IsFiniteSet(S)
    PROVE  /\ Max(S) \in S /\ \A x \in S : x <= Max(S)
           /\ Min(S) \in S /\ \A x \in S : Min(S) <= x
  <1>1. \E x \in S : \A y \in S : x >= y
    <2> DEFINE R == {e \in S \X S : e[2] < e[1]}
    <2>1. \A x, y \in S : <<x, y>> \in R <=> y < x
      OBVIOUS
    <2> HIDE DEF R
    <2>2. /\ \A x \in S : <<x, x>> \notin R
          /\ \A x, y, z \in S : <<x, y>> \in R /\ <<y, z>> \in R => <<x, z>> \in R
      BY <2>1
    <2>3. PICK x \in S : \A y \in S : <<y, x>> \notin R
      BY <2>2, LeastElement
    <2>4. \A y \in S : ~ (x < y)
      BY <2>1, <2>3
    <2> QED BY <2>4
  <1>2. \E x \in S : \A y \in S : x =< y
    <2> DEFINE R == {e \in S \X S : e[1] < e[2]}
    <2>1. \A x, y \in S : <<x, y>> \in R <=> x < y
      OBVIOUS
    <2> HIDE DEF R
    <2>2. /\ \A x \in S : <<x, x>> \notin R
          /\ \A x, y, z \in S : <<x, y>> \in R /\ <<y, z>> \in R => <<x, z>> \in R
      BY <2>1
    <2>3. PICK x \in S : \A y \in S : <<y, x>> \notin R
      BY <2>2, LeastElement
    <2>4. \A y \in S : ~ (y < x)
      BY <2>1, <2>3
    <2> QED BY <2>4
  <1>3. Max(S) \in S /\ \A y \in S : Max(S) >= y
    BY <1>1 DEF Max
  <1>4. Min(S) \in S /\ \A y \in S : Min(S) =< y
    BY <1>2 DEF Min
  <1> QED BY <1>3, <1>4

(* The image of a finite set is finite.                                    *)
LEMMA ImageIsFinite ==
    ASSUME NEW S, IsFiniteSet(S), NEW f
    PROVE  IsFiniteSet({f[x] : x \in S})
  <1> DEFINE g == [x \in S |-> f[x]]
             T == {f[x] : x \in S}
  <1>1. g \in Surjection(S, T)
    BY DEF Surjection
  <1> QED BY <1>1, FS_Surjection

(* A fold over the places of a sequence, by what it makes of each set of   *)
(* them: f takes a result and the last place.                              *)
IsFold(g, f, base, S) ==
    g = [s \in SUBSET S |-> IF s = {} THEN base ELSE f[<<g[s \ {Max(s)}], Max(s)>>]]

LEMMA LastPlace ==
    ASSUME NEW n \in Nat
    PROVE  /\ IsFiniteSet(1 .. n)
           /\ \A s \in SUBSET (1 .. n) : IsFiniteSet(s) /\ (s # {} => Max(s) \in s)
           /\ \A s \in SUBSET (1 .. n) : s # {} =>
                 Max(s) \in 1 .. n /\ \A i \in s \ {Max(s)} : i < Max(s)
  <1>1. IsFiniteSet(1 .. n)
    BY FS_Interval
  <1>2. ASSUME NEW s \in SUBSET (1 .. n)
        PROVE  /\ IsFiniteSet(s)
               /\ s # {} => Max(s) \in s /\ \A i \in s : i <= Max(s)
    <2>1. IsFiniteSet(s)
      BY <1>1, FS_Subset
    <2>3. s \subseteq Int
      OBVIOUS
    <2>2. CASE s # {}
      BY <2>1, <2>2, <2>3, Extremes
    <2> QED BY <2>1, <2>2
  <1>3. ASSUME NEW s \in SUBSET (1 .. n), s # {}
        PROVE  Max(s) \in 1 .. n /\ \A i \in s \ {Max(s)} : i < Max(s)
    <2>1. Max(s) \in s /\ \A i \in s : i <= Max(s)
      BY <1>2, <1>3
    <2>2. \A i \in s : i \in 1 .. n
      OBVIOUS
    <2> DEFINE m == Max(s)
    <2>3. m \in 1 .. n /\ \A i \in s : i <= m
      BY <2>1, <2>2
    <2> HIDE DEF m
    <2>4. \A i \in s \ {m} : i < m
      BY <2>2, <2>3
    <2> QED BY <2>3, <2>4 DEF m
  <1> QED BY <1>1, <1>2, <1>3

LEMMA FoldUnique ==
    ASSUME NEW n \in Nat, NEW S \in SUBSET (1 .. n), NEW T, NEW f, NEW base, NEW g, NEW h,
           IsFold(g, f, base, S), IsFold(h, f, base, T)
    PROVE  \A s \in SUBSET S : s \in SUBSET T => g[s] = h[s]
  <1> DEFINE B == {s \in SUBSET S : s \subseteq T /\ g[s] # h[s]}
  <1> SUFFICES ASSUME B # {} PROVE FALSE
    OBVIOUS
  <1>0. \A s \in SUBSET S : s # {} => Max(s) \in s
    <2>1. \A s \in SUBSET S : s \in SUBSET (1 .. n)
      OBVIOUS
    <2> QED BY <2>1, LastPlace
  <1>1. PICK s \in B : \A t \in B : t \subseteq s => t = s
    <2>1. B \in SUBSET SUBSET (1 .. n)
      OBVIOUS
    <2> HIDE DEF B
    <2> QED BY <2>1, SmallestSet, LastPlace
  <1>2. /\ g[s] = IF s = {} THEN base ELSE f[<<g[s \ {Max(s)}], Max(s)>>]
        /\ h[s] = IF s = {} THEN base ELSE f[<<h[s \ {Max(s)}], Max(s)>>]
    BY DEF IsFold
  <1>3. CASE s = {}
    BY <1>2, <1>3
  <1>4. CASE s # {}
    <2>1. s \ {Max(s)} \notin B
      BY <1>0, <1>1, <1>4
    <2> QED BY <1>2, <1>4, <2>1
  <1> QED BY <1>3, <1>4

LEMMA FoldDefined ==
    ASSUME NEW n \in Nat, NEW f, NEW base
    PROVE  \E g : IsFold(g, f, base, 1 .. n)
  <1> DEFINE Folds(g, T) == IsFold(g, f, base, T)
             B == {T \in SUBSET (1 .. n) : ~ \E g : Folds(g, T)}
  <1> SUFFICES ASSUME B # {} PROVE FALSE
    OBVIOUS
  <1>1. PICK T \in B : \A t \in B : t \subseteq T => t = T
    <2>1. B \in SUBSET SUBSET (1 .. n)
      OBVIOUS
    <2> HIDE DEF B
    <2> QED BY <2>1, SmallestSet, LastPlace
  <1> DEFINE fold(s) == (CHOOSE g : Folds(g, s))[s]
             new == [s \in SUBSET T |-> IF s = {} THEN base
                        ELSE f[<<fold(s \ {Max(s)}), Max(s)>>]]
  <1>0. \A s \in SUBSET T : s # {} => Max(s) \in s
    BY LastPlace
  <1>2. ASSUME NEW s \in SUBSET T, s # T PROVE Folds(CHOOSE g : Folds(g, s), s)
    <2>1. s \notin B
      BY <1>1, <1>2
    <2> QED BY <2>1
  <1>3. ASSUME NEW s \in SUBSET T, s # T, s # {}
        PROVE  fold(s) = f[<<fold(s \ {Max(s)}), Max(s)>>]
    <2> DEFINE rest == s \ {Max(s)}
               g == CHOOSE k : Folds(k, s)
               h == CHOOSE k : Folds(k, rest)
    <2>1. rest \in SUBSET T /\ rest # T /\ rest \in SUBSET s /\ s \in SUBSET (1 .. n)
      BY <1>0, <1>3
    <2>2. Folds(g, s) /\ Folds(h, rest)
      BY <1>2, <1>3, <2>1
    <2>3. g[s] = f[<<g[rest], Max(s)>>]
      BY <1>3, <2>2 DEF IsFold
    <2> HIDE DEF g, h
    <2>4. g[rest] = h[rest]
      BY <2>1, <2>2, FoldUnique
    <2> QED BY <2>3, <2>4 DEF g, h
  <1>4. ASSUME T # {} PROVE fold({}) = base
    <2>1. Folds(CHOOSE g : Folds(g, {}), {})
      BY <1>2, <1>4
    <2> QED BY <2>1 DEF IsFold
  <1> HIDE DEF fold
  <1>5. ASSUME NEW s \in SUBSET T, s # T PROVE fold(s) = new[s]
    BY <1>3, <1>4, <1>5
  <1>6. ASSUME NEW s \in SUBSET T, s # {} PROVE fold(s \ {Max(s)}) = new[s \ {Max(s)}]
    BY <1>0, <1>5, <1>6
  <1>7. Folds(new, T)
    BY <1>6 DEF IsFold
  <1> QED BY <1>1, <1>7

(* Where every step stays in X, the fold does.                             *)
StepsIn(f, X, n) == \A x \in X, i \in 1 .. n : f[<<x, i>>] \in X

LEMMA FoldExists ==
    ASSUME NEW n \in Nat, NEW f, NEW X, NEW base \in X, StepsIn(f, X, n)
    PROVE  \E g : IsFold(g, f, base, 1 .. n) /\ \A s \in SUBSET (1 .. n) : g[s] \in X
  <1>1. PICK g : IsFold(g, f, base, 1 .. n)
    BY FoldDefined
  <1> DEFINE B == {s \in SUBSET (1 .. n) : g[s] \notin X}
  <1>2. ASSUME B # {} PROVE FALSE
    <2>1. PICK s \in B : \A t \in B : t \subseteq s => t = s
      <3>1. B \in SUBSET SUBSET (1 .. n)
        OBVIOUS
      <3> HIDE DEF B
      <3> QED BY <1>2, <3>1, SmallestSet, LastPlace
    <2>2. g[s] = IF s = {} THEN base ELSE f[<<g[s \ {Max(s)}], Max(s)>>]
      BY <1>1 DEF IsFold
    <2>3. CASE s = {}
      BY <2>2, <2>3
    <2>4. CASE s # {}
      <3>1. Max(s) \in 1 .. n /\ s \ {Max(s)} \notin B
        BY <2>1, <2>4, LastPlace
      <3> QED BY <2>2, <2>4, <3>1 DEF StepsIn
    <2> QED BY <2>3, <2>4
  <1> QED BY <1>1, <1>2
=============================================================================
