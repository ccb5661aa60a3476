-------------------------------- MODULE SumLemmas --------------------------------
(* The sum of a function over a finite set (SumFunctionOnSet): that it has  *)
(* a type, is taken in any order, is monotone, and splits over disjoint     *)
(* sets. Each lemma is an induction, told as a smallest set that breaks it. *)
EXTENDS Integers, Functions, FiniteSetTheorems, WellFoundedInduction, TLAPS

(* A function to the naturals is least somewhere.                           *)
LEMMA Least ==
  ASSUME NEW S, S # {}, NEW f \in [S -> Nat]
  PROVE  \E x \in S : \A y \in S : f[x] <= f[y]
<1> DEFINE T == {f[x] : x \in S}
           R == OpToRel(<, Nat)
<1>1. T \subseteq Nat /\ T # {}
  OBVIOUS
<1>2. IsWellFoundedOn(R, Nat)
  BY NatLessThanWellFounded
<1>3. \A m, n \in Nat : m < n => <<m, n>> \in R
  BY DEF OpToRel
<1> HIDE DEF R
<1>4. PICK n \in T : \A m \in T : ~(<<m, n>> \in R)
  BY <1>1, <1>2, WFMin
<1>5. PICK x \in S : f[x] = n
  BY <1>4
<1>6. ASSUME NEW y \in S PROVE f[x] <= f[y]
  <2>1. f[y] \in T /\ f[y] \in Nat /\ f[x] \in Nat
    OBVIOUS
  <2>2. ~(f[y] < f[x])
    BY <1>3, <1>4, <1>5, <2>1
  <2>3. QED BY <2>1, <2>2
<1>7. QED BY <1>6

(* Among finite sets there is one that has no other of them in it.          *)
LEMMA SmallestSet ==
  ASSUME NEW T, T # {}, \A s \in T : IsFiniteSet(s)
  PROVE  \E s \in T : \A t \in T : t \subseteq s => t = s
<1> DEFINE f == [s \in T |-> Cardinality(s)]
<1>1. f \in [T -> Nat]
  BY FS_CardinalityType
<1>2. PICK s \in T : \A t \in T : f[s] <= f[t]
  <2> HIDE DEF f
  <2>1. QED BY <1>1, Least
<1>3. ASSUME NEW t \in T, t \subseteq s PROVE t = s
  <2>1. Cardinality(s) <= Cardinality(t)
    BY <1>2
  <2>2. Cardinality(t) <= Cardinality(s) /\ (Cardinality(t) = Cardinality(s) => t = s)
    BY <1>3, FS_Subset
  <2>3. Cardinality(s) \in Nat /\ Cardinality(t) \in Nat
    BY FS_CardinalityType
  <2>4. QED BY <2>1, <2>2, <2>3
<1>4. QED BY <1>3

----------------------------------------------------------------------------
(* The recursion the fold stands for has a solution, and only one.          *)

Chosen(s) == CHOOSE x \in s : TRUE
Rest(s) == s \ {Chosen(s)}
Summed(g, f, S) == g = [s \in SUBSET S |-> IF s = {} THEN 0 ELSE f[Chosen(s)] + g[Rest(s)]]

LEMMA SumIsIterated ==
  ASSUME NEW f, NEW S
  PROVE  SumFunctionOnSet(f, S) = (CHOOSE g : Summed(g, f, S))[S]
BY DEF SumFunctionOnSet, FoldFunctionOnSet, MapThenFoldSet, Summed, Chosen, Rest

LEMMA RestIsSmaller ==
  ASSUME NEW s, s # {}
  PROVE  Chosen(s) \in s /\ Rest(s) \subseteq s /\ Rest(s) # s /\ s = Rest(s) \union {Chosen(s)}
BY DEF Chosen, Rest

LEMMA SummedUnfolds ==
  ASSUME NEW g, NEW f, NEW S, Summed(g, f, S), NEW s \in SUBSET S
  PROVE  g[s] = IF s = {} THEN 0 ELSE f[Chosen(s)] + g[Rest(s)]
BY DEF Summed

LEMMA OneSum ==
  ASSUME NEW f, NEW A, NEW B, IsFiniteSet(A),
         NEW g, Summed(g, f, A), NEW h, Summed(h, f, B),
         NEW s, s \subseteq A, s \subseteq B
  PROVE  g[s] = h[s]
<1> DEFINE T == {t \in SUBSET A : t \subseteq B /\ g[t] # h[t]}
<1> SUFFICES ASSUME T # {} PROVE FALSE
  OBVIOUS
<1>1. \A t \in T : IsFiniteSet(t)
  BY FS_Subset
<1>2. PICK t \in T : \A u \in T : u \subseteq t => u = t
  <2> HIDE DEF T
  <2>1. QED BY <1>1, SmallestSet
<1>3. g[t] = (IF t = {} THEN 0 ELSE f[Chosen(t)] + g[Rest(t)])
  BY SummedUnfolds
<1>4. h[t] = (IF t = {} THEN 0 ELSE f[Chosen(t)] + h[Rest(t)])
  BY SummedUnfolds
<1>5. t # {}
  BY <1>3, <1>4
<1>6. Rest(t) \subseteq t /\ Rest(t) # t
  BY <1>5, RestIsSmaller
<1>7. g[Rest(t)] = h[Rest(t)]
  BY <1>2, <1>6
<1>8. QED BY <1>3, <1>4, <1>5, <1>7

LEMMA SumExists ==
  ASSUME NEW f, NEW S, IsFiniteSet(S)
  PROVE  \E g : Summed(g, f, S)
<1> DEFINE T == {s \in SUBSET S : ~\E g : Summed(g, f, s)}
<1> SUFFICES ASSUME T # {} PROVE FALSE
  OBVIOUS
<1>1. \A s \in T : IsFiniteSet(s)
  BY FS_Subset
<1>2. PICK s \in T : \A t \in T : t \subseteq s => t = s
  <2> HIDE DEF T
  <2>1. QED BY <1>1, SmallestSet
<1> DEFINE G(t) == CHOOSE g : Summed(g, f, t)
           V(t) == G(t)[t]
           h == [t \in SUBSET s |-> IF t = {} THEN 0 ELSE f[Chosen(t)] + V(Rest(t))]
<1>3. ASSUME NEW t \in SUBSET s, t # s PROVE Summed(G(t), f, t) /\ IsFiniteSet(t)
  <2>1. \E g : Summed(g, f, t)
    BY <1>2, <1>3
  <2>2. IsFiniteSet(t)
    BY <1>1, FS_Subset
  <2>3. QED BY <2>1, <2>2
<1> HIDE DEF G
<1>4. ASSUME NEW t \in SUBSET s, t # s PROVE V(t) = h[t]
  <2>1. V(t) = (IF t = {} THEN 0 ELSE f[Chosen(t)] + G(t)[Rest(t)])
    BY <1>3, <1>4, SummedUnfolds
  <2>2. CASE t = {}
    BY <2>1, <2>2
  <2>3. CASE t # {}
    <3>1. Rest(t) \in SUBSET s /\ Rest(t) # s /\ Rest(t) \subseteq t
      BY <1>4, <2>3, RestIsSmaller
    <3>2. G(t)[Rest(t)] = V(Rest(t))
      BY <1>3, <1>4, <3>1, OneSum
    <3>3. QED BY <2>1, <2>3, <3>2
  <2>4. QED BY <2>2, <2>3
<1>5. \A t \in SUBSET s : t # {} => Rest(t) \in SUBSET s /\ Rest(t) # s
  BY RestIsSmaller
<1>6. \A t \in SUBSET s : t # {} => V(Rest(t)) = h[Rest(t)]
  BY <1>4, <1>5
<1>7. h = [t \in SUBSET s |-> IF t = {} THEN 0 ELSE f[Chosen(t)] + h[Rest(t)]]
  <2> DEFINE k == [t \in SUBSET s |-> IF t = {} THEN 0 ELSE f[Chosen(t)] + h[Rest(t)]]
  <2>1. \A t \in SUBSET s : h[t] = k[t]
    BY <1>6
  <2>2. h = [t \in SUBSET s |-> h[t]]
    OBVIOUS
  <2>3. k = [t \in SUBSET s |-> k[t]]
    OBVIOUS
  <2> HIDE DEF h, k
  <2>4. h = k
    BY <2>1, <2>2, <2>3
  <2>5. QED BY <2>4 DEF k
<1>8. Summed(h, f, s)
  BY <1>7 DEF Summed
<1>9. QED BY <1>8

----------------------------------------------------------------------------
(* What a sum is.                                                           *)

LEMMA SumUnfolds ==
  ASSUME NEW f, NEW S, IsFiniteSet(S)
  PROVE  SumFunctionOnSet(f, S) =
           IF S = {} THEN 0 ELSE f[Chosen(S)] + SumFunctionOnSet(f, Rest(S))
<1> DEFINE G(s) == CHOOSE g : Summed(g, f, s)
<1>1. Summed(G(S), f, S)
  BY SumExists
<1>2. G(S)[S] = IF S = {} THEN 0 ELSE f[Chosen(S)] + G(S)[Rest(S)]
  <2> HIDE DEF G
  <2>1. QED BY <1>1, SummedUnfolds
<1>3. IsFiniteSet(Rest(S))
  BY FS_Subset DEF Rest
<1>4. Summed(G(Rest(S)), f, Rest(S))
  BY <1>3, SumExists
<1>5. SumFunctionOnSet(f, S) = G(S)[S] /\ SumFunctionOnSet(f, Rest(S)) = G(Rest(S))[Rest(S)]
  BY SumIsIterated
<1> HIDE DEF G
<1>6. S # {} => G(S)[Rest(S)] = G(Rest(S))[Rest(S)]
  BY <1>1, <1>4, RestIsSmaller, OneSum
<1>7. QED BY <1>2, <1>5, <1>6

LEMMA SumOfNothing == ASSUME NEW f PROVE SumFunctionOnSet(f, {}) = 0
BY SumUnfolds, FS_EmptySet

(* A sum of integers is one, and so is a sum of natural numbers.            *)
LEMMA SumType ==
  ASSUME NEW f, NEW S, IsFiniteSet(S), NEW D, D \in {Int, Nat}, \A x \in S : f[x] \in D
  PROVE  SumFunctionOnSet(f, S) \in D
<1> DEFINE T == {s \in SUBSET S : SumFunctionOnSet(f, s) \notin D}
<1> SUFFICES ASSUME T # {} PROVE FALSE
  OBVIOUS
<1>1. \A s \in T : IsFiniteSet(s)
  BY FS_Subset
<1>2. PICK s \in T : \A t \in T : t \subseteq s => t = s
  <2> HIDE DEF T
  <2>1. QED BY <1>1, SmallestSet
<1>3. SumFunctionOnSet(f, s) =
        IF s = {} THEN 0 ELSE f[Chosen(s)] + SumFunctionOnSet(f, Rest(s))
  BY <1>1, SumUnfolds
<1>4. s # {} => /\ Chosen(s) \in S
                /\ SumFunctionOnSet(f, Rest(s)) \in D
  BY <1>2, RestIsSmaller
<1>5. s # {} => f[Chosen(s)] + SumFunctionOnSet(f, Rest(s)) \in D
  BY <1>4
<1>6. QED BY <1>3, <1>5

(* The terms may be taken in any order.                                     *)
LEMMA SumTakesAny ==
  ASSUME NEW f, NEW S, IsFiniteSet(S), \A x \in S : f[x] \in Int, NEW y \in S
  PROVE  SumFunctionOnSet(f, S) = f[y] + SumFunctionOnSet(f, S \ {y})
<1> DEFINE Total(s) == SumFunctionOnSet(f, s)
           T == {s \in SUBSET S : \E x \in s : Total(s) # f[x] + Total(s \ {x})}
<1> SUFFICES ASSUME T # {} PROVE FALSE
  OBVIOUS
<1>1. \A s \in T : IsFiniteSet(s)
  BY FS_Subset
<1>2. PICK s \in T : \A t \in T : t \subseteq s => t = s
  <2> HIDE DEF T
  <2>1. QED BY <1>1, SmallestSet
<1>3. PICK x \in s : Total(s) # f[x] + Total(s \ {x})
  OBVIOUS
<1> DEFINE c == Chosen(s)
           r == s \ {c, x}
<1>4. c \in s /\ Rest(s) = s \ {c} /\ IsFiniteSet(s)
  BY <1>1, RestIsSmaller DEF Rest
<1>5. Total(s) = f[c] + Total(s \ {c})
  BY <1>4, SumUnfolds
<1>6. c # x
  BY <1>3, <1>5
<1> HIDE DEF c
<1>7. Total(s \ {c}) = f[x] + Total(r)
  <2>1. s \ {c} \notin T /\ s \ {c} \in SUBSET S /\ x \in s \ {c} /\ (s \ {c}) \ {x} = r
    BY <1>2, <1>4, <1>6
  <2>2. QED BY <2>1
<1>8. Total(s \ {x}) = f[c] + Total(r)
  <2>1. s \ {x} \notin T /\ s \ {x} \in SUBSET S /\ c \in s \ {x} /\ (s \ {x}) \ {c} = r
    BY <1>2, <1>4, <1>6
  <2>2. QED BY <2>1
<1>9. Total(r) \in Int
  <2>1. r \subseteq S /\ IsFiniteSet(r)
    BY FS_Subset
  <2> HIDE DEF r
  <2>2. QED BY <2>1, SumType
<1>10. f[c] \in Int /\ f[x] \in Int
  BY <1>4
<1> HIDE DEF r, Total
<1>11. QED BY <1>3, <1>5, <1>7, <1>8, <1>9, <1>10

LEMMA SumAddsOne ==
  ASSUME NEW f, NEW S, IsFiniteSet(S), NEW y, y \notin S, \A x \in S \union {y} : f[x] \in Int
  PROVE  SumFunctionOnSet(f, S \union {y}) = f[y] + SumFunctionOnSet(f, S)
<1>1. IsFiniteSet(S \union {y}) /\ (S \union {y}) \ {y} = S
  BY FS_AddElement
<1>2. QED BY <1>1, SumTakesAny

(* A sum depends on its terms only.                                         *)
LEMMA SumOfSame ==
  ASSUME NEW f, NEW g, NEW S, IsFiniteSet(S), \A x \in S : f[x] = g[x]
  PROVE  SumFunctionOnSet(f, S) = SumFunctionOnSet(g, S)
<1> DEFINE T == {s \in SUBSET S : SumFunctionOnSet(f, s) # SumFunctionOnSet(g, s)}
<1> SUFFICES ASSUME T # {} PROVE FALSE
  OBVIOUS
<1>1. \A s \in T : IsFiniteSet(s)
  BY FS_Subset
<1>2. PICK s \in T : \A t \in T : t \subseteq s => t = s
  <2> HIDE DEF T
  <2>1. QED BY <1>1, SmallestSet
<1>3. /\ SumFunctionOnSet(f, s) =
           IF s = {} THEN 0 ELSE f[Chosen(s)] + SumFunctionOnSet(f, Rest(s))
      /\ SumFunctionOnSet(g, s) =
           IF s = {} THEN 0 ELSE g[Chosen(s)] + SumFunctionOnSet(g, Rest(s))
  BY <1>1, SumUnfolds
<1>4. s # {} => /\ f[Chosen(s)] = g[Chosen(s)]
                /\ SumFunctionOnSet(f, Rest(s)) = SumFunctionOnSet(g, Rest(s))
  BY <1>2, RestIsSmaller
<1>5. QED BY <1>3, <1>4

(* Larger terms have a larger sum.                                          *)
LEMMA SumIsMonotone ==
  ASSUME NEW f, NEW g, NEW S, IsFiniteSet(S),
         \A x \in S : f[x] \in Int /\ g[x] \in Int /\ f[x] <= g[x]
  PROVE  SumFunctionOnSet(f, S) <= SumFunctionOnSet(g, S)
<1> DEFINE T == {s \in SUBSET S : ~(SumFunctionOnSet(f, s) <= SumFunctionOnSet(g, s))}
<1> SUFFICES ASSUME T # {} PROVE FALSE
  OBVIOUS
<1>1. \A s \in T : IsFiniteSet(s)
  BY FS_Subset
<1>2. PICK s \in T : \A t \in T : t \subseteq s => t = s
  <2> HIDE DEF T
  <2>1. QED BY <1>1, SmallestSet
<1>3. /\ SumFunctionOnSet(f, s) =
           IF s = {} THEN 0 ELSE f[Chosen(s)] + SumFunctionOnSet(f, Rest(s))
      /\ SumFunctionOnSet(g, s) =
           IF s = {} THEN 0 ELSE g[Chosen(s)] + SumFunctionOnSet(g, Rest(s))
  BY <1>1, SumUnfolds
<1>4. ASSUME s # {} PROVE FALSE
  <2>1. Chosen(s) \in S /\ Rest(s) \subseteq S
    BY <1>4, RestIsSmaller
  <2>2. IsFiniteSet(Rest(s))
    BY <2>1, FS_Subset
  <2>3. SumFunctionOnSet(f, Rest(s)) \in Int /\ SumFunctionOnSet(g, Rest(s)) \in Int
    BY <2>1, <2>2, SumType
  <2>4. SumFunctionOnSet(f, Rest(s)) <= SumFunctionOnSet(g, Rest(s))
    BY <1>2, <1>4, <2>1, RestIsSmaller
  <2>5. f[Chosen(s)] \in Int /\ g[Chosen(s)] \in Int /\ f[Chosen(s)] <= g[Chosen(s)]
    BY <2>1
  <2>6. QED BY <1>3, <1>4, <2>3, <2>4, <2>5
<1>5. QED BY <1>3, <1>4

(* The sum over two sets without a common member is the sum of their sums.  *)
LEMMA SumSplits ==
  ASSUME NEW f, NEW A, NEW B, IsFiniteSet(A), IsFiniteSet(B), A \intersect B = {},
         \A x \in A \union B : f[x] \in Int
  PROVE  SumFunctionOnSet(f, A \union B) = SumFunctionOnSet(f, A) + SumFunctionOnSet(f, B)
<1> DEFINE Total(s) == SumFunctionOnSet(f, s)
           T == {s \in SUBSET A : Total(s \union B) # Total(s) + Total(B)}
<1> SUFFICES ASSUME T # {} PROVE FALSE
  OBVIOUS
<1>1. \A s \in T : IsFiniteSet(s)
  BY FS_Subset
<1>2. PICK s \in T : \A t \in T : t \subseteq s => t = s
  <2> HIDE DEF T
  <2>1. QED BY <1>1, SmallestSet
<1>3. Total(B) \in Int
  BY SumType
<1>4. s # {}
  <2> SUFFICES ASSUME s = {} PROVE FALSE
    OBVIOUS
  <2>1. s \union B = B /\ Total(s) = 0
    BY SumOfNothing
  <2>2. Total(s \union B) # Total(s) + Total(B)
    OBVIOUS
  <2> HIDE DEF Total
  <2>3. QED BY <1>3, <2>1, <2>2
<1>5. PICK x : x \in s
  BY <1>4
<1> DEFINE r == s \ {x}
<1>6. r \subseteq A /\ r \subseteq s /\ r # s /\ x \notin B /\ IsFiniteSet(s)
  BY <1>1, <1>5
<1>7. IsFiniteSet(r) /\ IsFiniteSet(s \union B)
  BY <1>6, FS_Subset, FS_Union
<1>8. Total(s) = f[x] + Total(r)
  BY <1>5, <1>6, SumTakesAny
<1>9. Total(s \union B) = f[x] + Total(r \union B)
  <2>1. (s \union B) \ {x} = r \union B /\ x \in s \union B
    BY <1>5, <1>6
  <2>2. \A y \in s \union B : f[y] \in Int
    OBVIOUS
  <2>3. Total(s \union B) = f[x] + Total((s \union B) \ {x})
    BY <1>7, <2>1, <2>2, SumTakesAny
  <2>4. QED BY <2>1, <2>3
<1>10. Total(r \union B) = Total(r) + Total(B)
  BY <1>2, <1>6
<1>11. Total(r) \in Int /\ f[x] \in Int
  BY <1>5, <1>6, <1>7, SumType
<1> HIDE DEF Total, r
<1>12. QED BY <1>3, <1>8, <1>9, <1>10, <1>11

(* Where only the terms of a part count, so does its sum.                   *)
LEMMA SumOfPart ==
  ASSUME NEW f, NEW S, IsFiniteSet(S), NEW P, P \subseteq S,
         \A x \in P : f[x] \in Int, \A x \in S \ P : f[x] = 0
  PROVE  SumFunctionOnSet(f, S) = SumFunctionOnSet(f, P)
<1> DEFINE Total(s) == SumFunctionOnSet(f, s)
           R == S \ P
           T == {s \in SUBSET R : Total(s) # 0}
<1>1. ASSUME T # {} PROVE FALSE
  <2>1. \A s \in T : IsFiniteSet(s)
    BY FS_Subset
  <2>2. PICK s \in T : \A t \in T : t \subseteq s => t = s
    <3> HIDE DEF T
    <3>1. QED BY <1>1, <2>1, SmallestSet
  <2>3. Total(s) = IF s = {} THEN 0 ELSE f[Chosen(s)] + Total(Rest(s))
    BY <2>1, SumUnfolds
  <2>4. s # {} => f[Chosen(s)] = 0 /\ Total(Rest(s)) = 0
    BY <2>2, RestIsSmaller
  <2>5. QED BY <2>3, <2>4
<1>2. Total(R) = 0
  BY <1>1
<1>3. IsFiniteSet(P) /\ IsFiniteSet(R) /\ P \intersect R = {} /\ S = P \union R
  BY FS_Subset
<1>4. \A x \in P \union R : f[x] \in Int
  OBVIOUS
<1>5. Total(P) \in Int
  BY <1>3, SumType
<1> HIDE DEF R
<1>6. Total(S) = Total(P) + Total(R)
  BY <1>3, <1>4, SumSplits
<1> HIDE DEF Total
<1>7. Total(S) = Total(P)
  BY <1>2, <1>5, <1>6
<1>8. QED BY <1>7 DEF Total

(* A finite set has finitely many images.                                   *)
LEMMA ImageIsFinite == ASSUME NEW S, IsFiniteSet(S), NEW h PROVE IsFiniteSet({h[x] : x \in S})
<1> DEFINE T == {h[x] : x \in S}
           g == [x \in S |-> h[x]]
<1>1. g \in Surjection(S, T)
  BY DEF Surjection
<1>2. QED BY <1>1, FS_Surjection

(* A function to the integers is greatest somewhere on a finite set.        *)
LEMMA Greatest ==
  ASSUME NEW S, IsFiniteSet(S), S # {}, NEW f, \A x \in S : f[x] \in Int
  PROVE  \E x \in S : \A y \in S : f[y] <= f[x]
<1> DEFINE Has(s) == \E x \in s : \A y \in s : f[y] <= f[x]
           T == {s \in SUBSET S : s # {} /\ ~Has(s)}
<1> SUFFICES ASSUME T # {} PROVE FALSE
  OBVIOUS
<1>1. \A s \in T : IsFiniteSet(s)
  BY FS_Subset
<1>2. PICK s \in T : \A t \in T : t \subseteq s => t = s
  <2> HIDE DEF T
  <2>1. QED BY <1>1, SmallestSet
<1>3. PICK y \in s : TRUE
  OBVIOUS
<1>4. CASE s \ {y} = {}
  <2>1. \A x \in s : x = y
    BY <1>4
  <2>2. QED BY <2>1
<1>5. CASE s \ {y} # {}
  <2>1. PICK x \in s \ {y} : \A z \in s \ {y} : f[z] <= f[x]
    <3>1. s \ {y} \notin T /\ s \ {y} \in SUBSET S
      BY <1>2, <1>3
    <3>2. QED BY <1>5, <3>1
  <2>2. f[x] \in Int /\ f[y] \in Int /\ \A z \in s : f[z] \in Int
    BY <2>1
  <2>3. CASE f[y] <= f[x]
    <3>1. \A z \in s : f[z] <= f[x]
      BY <2>1, <2>3
    <3>2. QED BY <2>1, <3>1
  <2>4. CASE f[x] <= f[y]
    <3>1. \A z \in s : f[z] <= f[y]
      BY <2>1, <2>2, <2>4
    <3>2. QED BY <3>1
  <2>5. QED BY <2>2, <2>3, <2>4
<1>6. QED BY <1>4, <1>5

(* The sum of sums is the sum of both functions.                            *)
LEMMA SumAdds ==
  ASSUME NEW f, NEW g, NEW h, NEW S, IsFiniteSet(S),
         \A x \in S : f[x] \in Int /\ g[x] \in Int /\ h[x] = f[x] + g[x]
  PROVE  SumFunctionOnSet(h, S) = SumFunctionOnSet(f, S) + SumFunctionOnSet(g, S)
<1> DEFINE F(s) == SumFunctionOnSet(f, s)
           G(s) == SumFunctionOnSet(g, s)
           H(s) == SumFunctionOnSet(h, s)
           T == {s \in SUBSET S : H(s) # F(s) + G(s)}
<1> SUFFICES ASSUME T # {} PROVE FALSE
  OBVIOUS
<1>1. \A s \in T : IsFiniteSet(s)
  BY FS_Subset
<1>2. PICK s \in T : \A t \in T : t \subseteq s => t = s
  <2> HIDE DEF T
  <2>1. QED BY <1>1, SmallestSet
<1>3. /\ F(s) = IF s = {} THEN 0 ELSE f[Chosen(s)] + F(Rest(s))
      /\ G(s) = IF s = {} THEN 0 ELSE g[Chosen(s)] + G(Rest(s))
      /\ H(s) = IF s = {} THEN 0 ELSE h[Chosen(s)] + H(Rest(s))
  BY <1>1, SumUnfolds
<1>4. ASSUME s # {} PROVE FALSE
  <2>1. Chosen(s) \in S /\ Rest(s) \subseteq S
    BY <1>4, RestIsSmaller
  <2>2. IsFiniteSet(Rest(s))
    BY <2>1, FS_Subset
  <2>3. F(Rest(s)) \in Int /\ G(Rest(s)) \in Int
    BY <2>1, <2>2, SumType
  <2>4. H(Rest(s)) = F(Rest(s)) + G(Rest(s))
    BY <1>2, <1>4, <2>1, RestIsSmaller
  <2>5. /\ f[Chosen(s)] \in Int /\ g[Chosen(s)] \in Int
        /\ h[Chosen(s)] = f[Chosen(s)] + g[Chosen(s)]
    BY <2>1
  <2>6. H(s) # F(s) + G(s)
    OBVIOUS
  <2> HIDE DEF F, G, H
  <2>7. QED BY <1>3, <1>4, <2>3, <2>4, <2>5, <2>6
<1>5. H(s) # F(s) + G(s) /\ 0 + 0 = 0
  OBVIOUS
<1> HIDE DEF F, G, H
<1>6. QED BY <1>3, <1>4, <1>5

(* A family of finite sets without common members is summed set by set.     *)
Gathered(B, S) == UNION {B[c] : c \in S}

LEMMA SumOfUnion ==
  ASSUME NEW f, NEW S, IsFiniteSet(S), NEW B,
         \A c \in S : IsFiniteSet(B[c]) /\ \A x \in B[c] : f[x] \in Int,
         \A c, k \in S : c # k => B[c] \intersect B[k] = {},
         NEW g, \A c \in S : g[c] = SumFunctionOnSet(f, B[c])
  PROVE  /\ IsFiniteSet(Gathered(B, S))
         /\ SumFunctionOnSet(g, S) = SumFunctionOnSet(f, Gathered(B, S))
<1> DEFINE U(s) == Gathered(B, s)
           F(s) == SumFunctionOnSet(f, s)
           G(s) == SumFunctionOnSet(g, s)
           T == {s \in SUBSET S : ~(IsFiniteSet(U(s)) /\ G(s) = F(U(s)))}
<1> SUFFICES ASSUME T # {} PROVE FALSE
  OBVIOUS
<1>1. \A s \in T : IsFiniteSet(s)
  BY FS_Subset
<1>2. PICK s \in T : \A t \in T : t \subseteq s => t = s
  <2> HIDE DEF T
  <2>1. QED BY <1>1, SmallestSet
<1>3. CASE s = {}
  <2>1. U(s) = {}
    BY <1>3 DEF Gathered
  <2>2. IsFiniteSet(U(s)) /\ G(s) = 0 /\ F(U(s)) = 0
    BY <1>3, <2>1, SumOfNothing, FS_EmptySet
  <2>3. QED BY <2>2
<1>4. CASE s # {}
  <2>1. PICK y \in s : TRUE
    BY <1>4
  <2> DEFINE r == s \ {y}
  <2>2. r \in SUBSET S /\ r \notin T /\ s \in SUBSET S /\ y \in S /\ y \notin r
    BY <1>2, <2>1
  <2>3. IsFiniteSet(U(r)) /\ G(r) = F(U(r))
    BY <2>2
  <2>4. U(s) = U(r) \union B[y] /\ U(r) \intersect B[y] = {}
    <3>1. \A c \in r : c \in S /\ c # y
      BY <2>2
    <3>2. s = r \union {y}
      BY <2>1
    <3> HIDE DEF r
    <3>3. QED BY <2>2, <3>1, <3>2 DEF Gathered
  <2>5. IsFiniteSet(B[y]) /\ (\A x \in U(r) \union B[y] : f[x] \in Int) /\ g[y] = F(B[y])
    BY <2>2 DEF Gathered
  <2>6. F(U(s)) = F(U(r)) + F(B[y]) /\ IsFiniteSet(U(s))
    <3> HIDE DEF U
    <3>1. IsFiniteSet(U(r) \union B[y])
      BY <2>3, <2>5, FS_Union
    <3>2. F(U(r) \union B[y]) = F(U(r)) + F(B[y])
      <4>1. \A A, D : /\ IsFiniteSet(A) /\ IsFiniteSet(D) /\ A \intersect D = {}
                      /\ \A x \in A \union D : f[x] \in Int
                      => F(A \union D) = F(A) + F(D)
        BY SumSplits
      <4> HIDE DEF F, r
      <4>2. QED BY <2>3, <2>4, <2>5, <4>1
    <3>3. QED BY <2>4, <3>1, <3>2
  <2>7. F(U(r)) \in Int /\ F(B[y]) \in Int
    <3> HIDE DEF U
    <3>1. QED BY <2>3, <2>5, SumType
  <2>8. G(s) = g[y] + G(r)
    <3>1. \A c \in s : g[c] \in Int
      <4>1. \A c \in S : F(B[c]) \in Int
        BY SumType
      <4>2. QED BY <2>2, <4>1
    <3>2. IsFiniteSet(s)
      BY <1>1
    <3>3. SumFunctionOnSet(g, s) = g[y] + SumFunctionOnSet(g, s \ {y})
      BY <2>1, <3>1, <3>2, SumTakesAny
    <3>4. QED BY <3>3
  <2>9. ~(IsFiniteSet(U(s)) /\ G(s) = F(U(s)))
    OBVIOUS
  <2> HIDE DEF F, G, U, r
  <2>10. QED BY <2>3, <2>5, <2>6, <2>7, <2>8, <2>9
<1>5. QED BY <1>3, <1>4

(* What is summed by another name is summed once for each, if no two have   *)
(* the same.                                                                *)
LEMMA SumByName ==
  ASSUME NEW f, NEW S, IsFiniteSet(S), NEW h, \A c, k \in S : h[c] = h[k] => c = k,
         \A c \in S : f[h[c]] \in Int, NEW g, \A c \in S : g[c] = f[h[c]]
  PROVE  SumFunctionOnSet(g, S) = SumFunctionOnSet(f, {h[c] : c \in S})
<1> DEFINE B == [c \in S |-> {h[c]}]
<1>1. \A c \in S : /\ IsFiniteSet(B[c]) /\ \A x \in B[c] : f[x] \in Int
                   /\ g[c] = SumFunctionOnSet(f, B[c])
  <2> SUFFICES ASSUME NEW c \in S
               PROVE  /\ IsFiniteSet(B[c]) /\ \A x \in B[c] : f[x] \in Int
                      /\ g[c] = SumFunctionOnSet(f, B[c])
    OBVIOUS
  <2>1. IsFiniteSet({h[c]}) /\ IsFiniteSet({}) /\ {} \union {h[c]} = {h[c]}
    BY FS_Singleton, FS_EmptySet
  <2>2. SumFunctionOnSet(f, {} \union {h[c]}) = f[h[c]] + SumFunctionOnSet(f, {})
    BY <2>1, SumAddsOne
  <2>3. QED BY <2>1, <2>2, SumOfNothing
<1>2. \A c, k \in S : c # k => B[c] \intersect B[k] = {}
  OBVIOUS
<1>3. Gathered(B, S) = {h[c] : c \in S}
  BY DEF Gathered
<1> HIDE DEF B
<1>4. SumFunctionOnSet(g, S) = SumFunctionOnSet(f, Gathered(B, S))
  <2>1. \A c \in S : IsFiniteSet(B[c]) /\ \A x \in B[c] : f[x] \in Int
    BY <1>1
  <2>2. \A c \in S : g[c] = SumFunctionOnSet(f, B[c])
    BY <1>1
  <2>3. QED BY <1>2, <2>1, <2>2, SumOfUnion
<1>5. QED BY <1>3, <1>4
=============================================================================
