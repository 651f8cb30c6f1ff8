----------------------------- MODULE DataTheorems -----------------------------
(***************************************************************************)
(* Facts about data that the proofs of several components need.  They are  *)
(* proved by induction, which is put first-order here: a non-empty set of  *)
(* numbers has a least element, a non-empty family of subsets of a finite  *)
(* set a minimal one, so a smallest counterexample leads to the absurd.    *)
(***************************************************************************)
EXTENDS Lists, FiniteSets, FiniteSetsExt, Functions, FiniteSetTheorems,
        WellFoundedInduction, TLAPS

-----------------------------------------------------------------------------
(* Induction. *)

LEMMA LeastNumber ==
  ASSUME NEW N, N \subseteq Nat, N # {}
  PROVE  \E n \in N : \A m \in N : n <= m
<1> DEFINE less == {p \in Nat \X Nat : p[1] < p[2]}
<1>1. IsWellFoundedOn(less, Nat)
  BY NatLessThanWellFounded DEF OpToRel
<1>2. PICK n \in N : \A m \in N : <<m, n>> \notin less
  BY <1>1, WFMin
<1>3. \A m \in N : ~(m < n)
  BY <1>2
<1> QED
  BY <1>3

(* A set of numbers with 0 and every successor has them all. *)
LEMMA NumbersOneByOne ==
  ASSUME NEW N, 0 \in N, \A n \in Nat : n \in N => n + 1 \in N
  PROVE  \A n \in Nat : n \in N
<1> SUFFICES ASSUME NEW k \in Nat, k \notin N PROVE FALSE
  OBVIOUS
<1>1. PICK n \in Nat \ N : \A m \in Nat \ N : n <= m
  BY LeastNumber
<1>2. n # 0 /\ n - 1 \in Nat
  BY <1>1
<1>3. n - 1 \in N
  BY <1>1, <1>2
<1> QED
  BY <1>1, <1>2, <1>3

LEMMA MinimalSubset ==
  ASSUME NEW S, IsFiniteSet(S), NEW F, F \subseteq SUBSET S, F # {}
  PROVE  \E T \in F : \A U \in F : U \subseteq T => U = T
<1>1. IsWellFoundedOn(StrictSubsetOrdering(S), SUBSET S)
  BY FS_StrictSubsetOrderingWellFounded, FS_FiniteSubsetsOfFinite
<1>2. PICK T \in F : \A U \in F : <<U, T>> \notin StrictSubsetOrdering(S)
  BY <1>1, WFMin
<1>3. \A U \in F : U \subseteq T => U = T
  BY <1>2 DEF StrictSubsetOrdering
<1> QED
  BY <1>3

(* A family of subsets with the empty one, and every set that follows from *)
(* those with one element less, has them all.                              *)
LEMMA SubsetsOneByOne ==
  ASSUME NEW S, IsFiniteSet(S), NEW F, {} \in F,
         \A T \in SUBSET S : T # {} /\ (\A x \in T : T \ {x} \in F) => T \in F
  PROVE  S \in F
<1> SUFFICES ASSUME S \notin F PROVE FALSE
  OBVIOUS
<1> DEFINE G == (SUBSET S) \ F
<1>1. G \subseteq SUBSET S /\ G # {}
  OBVIOUS
<1> HIDE DEF G
<1>2. PICK T \in G : \A U \in G : U \subseteq T => U = T
  BY <1>1, MinimalSubset
<1>3. T # {}
  BY DEF G
<1>4. \A x \in T : T \ {x} \in F
  <2> SUFFICES ASSUME NEW x \in T PROVE T \ {x} \in F
    OBVIOUS
  <2>1. T \ {x} \notin G
    BY <1>2
  <2> QED
    BY <2>1 DEF G
<1> QED
  BY <1>3, <1>4 DEF G

-----------------------------------------------------------------------------
(* Sums: SumFunctionOnSet is defined by a function g on the subsets of S   *)
(* that splits off one element at a time.                                  *)

SumsOf(f, g, s) ==
  IF s = {} THEN 0 ELSE LET x == CHOOSE x \in s : TRUE IN f[x] + g[s \ {x}]

IsSums(f, S, g) == g = [s \in SUBSET S |-> SumsOf(f, g, s)]

(* What is split off has a sum of its own by the smaller subsets only. *)
LEMMA SumsOfSame ==
  ASSUME NEW f, NEW g, NEW h, NEW s, \A u \in SUBSET s : u # s => g[u] = h[u]
  PROVE  SumsOf(f, g, s) = SumsOf(f, h, s)
<1>1. CASE s = {}
  BY <1>1 DEF SumsOf
<1>2. CASE s # {}
  <2>1. PICK x \in s : x = CHOOSE y \in s : TRUE
    BY <1>2
  <2>2. g[s \ {x}] = h[s \ {x}]
    BY <2>1
  <2> QED
    BY <1>2, <2>1, <2>2 DEF SumsOf
<1> QED
  BY <1>1, <1>2

LEMMA SumIs ==
  ASSUME NEW f, NEW S
  PROVE  SumFunctionOnSet(f, S) = (CHOOSE g : IsSums(f, S, g))[S]
BY DEF SumFunctionOnSet, FoldFunctionOnSet, MapThenFoldSet, IsSums, SumsOf

LEMMA SumsUnique ==
  ASSUME NEW f, NEW S, IsFiniteSet(S), NEW g, NEW h, IsSums(f, S, g), IsSums(f, S, h)
  PROVE  g = h
<1> DEFINE F == {s \in SUBSET S : g[s] # h[s]}
<1>1. ASSUME F # {} PROVE FALSE
  <2>0. F \subseteq SUBSET S
    OBVIOUS
  <2> HIDE DEF F
  <2>1. PICK s \in F : \A u \in F : u \subseteq s => u = s
    BY <1>1, <2>0, MinimalSubset
  <2> USE DEF F
  <2>2. s # {}
    BY <2>1 DEF IsSums, SumsOf
  <2>3. PICK x \in s : x = CHOOSE y \in s : TRUE
    BY <2>2
  <2>4. g[s \ {x}] = h[s \ {x}]
    BY <2>1, <2>3
  <2>5. g[s] = f[x] + g[s \ {x}] /\ h[s] = f[x] + h[s \ {x}]
    BY <2>1, <2>2, <2>3 DEF IsSums, SumsOf
  <2> QED
    BY <2>1, <2>4, <2>5
<1>2. \A s \in SUBSET S : g[s] = h[s]
  BY <1>1
<1>3. g = [s \in SUBSET S |-> g[s]] /\ h = [s \in SUBSET S |-> h[s]]
  BY DEF IsSums
<1> QED
  BY <1>2, <1>3

LEMMA SumsOfParts ==
  ASSUME NEW f, NEW S, IsFiniteSet(S), NEW g, IsSums(f, S, g), NEW T \in SUBSET S
  PROVE  SumFunctionOnSet(f, T) = g[T]
<1> DEFINE h == [s \in SUBSET T |-> g[s]]
<1>1. ASSUME NEW s \in SUBSET T
      PROVE  h[s] = SumsOf(f, h, s)
  <2>1. h[s] = SumsOf(f, g, s)
    BY DEF IsSums
  <2>2. SumsOf(f, g, s) = SumsOf(f, h, s)
    BY SumsOfSame
  <2> QED
    BY <2>1, <2>2
<1>2. IsSums(f, T, h)
  BY <1>1 DEF IsSums
<1>3. PICK k : IsSums(f, T, k) /\ SumFunctionOnSet(f, T) = k[T]
  BY <1>2, SumIs
<1>4. IsFiniteSet(T)
  BY FS_Subset
<1>5. k = h
  BY <1>2, <1>3, <1>4, SumsUnique
<1> QED
  BY <1>3, <1>5

LEMMA SumsExist ==
  ASSUME NEW f, NEW S, IsFiniteSet(S)
  PROVE  \E g : IsSums(f, S, g)
<1> DEFINE F == {T \in SUBSET S : ~ \E g : IsSums(f, T, g)}
<1> SUFFICES ASSUME F # {} PROVE FALSE
  OBVIOUS
<1>0. F \subseteq SUBSET S
  OBVIOUS
<1> HIDE DEF F
<1>1. PICK T \in F : \A U \in F : U \subseteq T => U = T
  BY <1>0, MinimalSubset
<1> USE DEF F
<1>2. \A U \in SUBSET T : U # T => \E g : IsSums(f, U, g)
  BY <1>1
<1> DEFINE sum == [s \in SUBSET T |-> SumFunctionOnSet(f, s)]
           h   == [s \in SUBSET T |-> SumsOf(f, sum, s)]
<1>3. ASSUME NEW s \in SUBSET T, s # T
      PROVE  sum[s] = SumsOf(f, sum, s)
  <2>1. PICK g : IsSums(f, s, g)
    BY <1>2, <1>3
  <2>2. IsFiniteSet(s)
    BY FS_Subset
  <2>3. \A u \in SUBSET s : sum[u] = g[u]
    BY <2>1, <2>2, SumsOfParts
  <2>4. sum[s] = SumsOf(f, g, s)
    BY <2>1, <2>3 DEF IsSums
  <2>5. SumsOf(f, g, s) = SumsOf(f, sum, s)
    <3>1. \A u \in SUBSET s : u # s => g[u] = sum[u]
      BY <2>3
    <3> HIDE DEF sum
    <3> QED
      BY <3>1, SumsOfSame
  <2> QED
    BY <2>4, <2>5
<1>4. ASSUME NEW s \in SUBSET T
      PROVE  SumsOf(f, sum, s) = SumsOf(f, h, s)
  <2>1. \A u \in SUBSET T : u # T => h[u] = sum[u]
    BY <1>3
  <2>2. \A u \in SUBSET s : u # s => sum[u] = h[u]
    BY <2>1
  <2> HIDE DEF sum, h
  <2> QED
    BY <2>2, SumsOfSame
<1>5. IsSums(f, T, h)
  BY <1>4 DEF IsSums
<1> QED
  BY <1>1, <1>5

LEMMA SumOfNone ==
  ASSUME NEW f
  PROVE  SumFunctionOnSet(f, {}) = 0
<1>1. IsFiniteSet({})
  BY FS_EmptySet
<1>2. PICK g : IsSums(f, {}, g)
  BY <1>1, SumsExist
<1>3. SumFunctionOnSet(f, {}) = g[{}]
  BY <1>1, <1>2, SumsOfParts
<1>4. g[{}] = SumsOf(f, g, {})
  BY <1>2 DEF IsSums
<1> QED
  BY <1>3, <1>4 DEF SumsOf

LEMMA SumSplits ==
  ASSUME NEW f, NEW S, IsFiniteSet(S), S # {}
  PROVE  \E x \in S : SumFunctionOnSet(f, S) = f[x] + SumFunctionOnSet(f, S \ {x})
<1>1. PICK g : IsSums(f, S, g)
  BY SumsExist
<1>2. \A T \in SUBSET S : SumFunctionOnSet(f, T) = g[T]
  BY <1>1, SumsOfParts
<1>3. PICK x \in S : x = CHOOSE y \in S : TRUE
  OBVIOUS
<1>4. g[S] = SumsOf(f, g, S)
  BY <1>1 DEF IsSums
<1>5. g[S] = f[x] + g[S \ {x}]
  BY <1>3, <1>4 DEF SumsOf
<1> QED
  BY <1>2, <1>5

LEMMA SumType ==
  ASSUME NEW f, NEW S, IsFiniteSet(S), \A x \in S : f[x] \in Nat
  PROVE  SumFunctionOnSet(f, S) \in Nat
<1> DEFINE F == {T \in SUBSET S : SumFunctionOnSet(f, T) \in Nat}
<1>1. {} \in F
  BY SumOfNone
<1>2. ASSUME NEW T \in SUBSET S, T # {}, \A x \in T : T \ {x} \in F
      PROVE  T \in F
  <2>1. PICK x \in T : SumFunctionOnSet(f, T) = f[x] + SumFunctionOnSet(f, T \ {x})
    BY <1>2, FS_Subset, SumSplits
  <2>2. SumFunctionOnSet(f, T \ {x}) \in Nat
    BY <1>2
  <2> QED
    BY <2>1, <2>2
<1>3. S \in F
  <2> HIDE DEF F
  <2> QED
    BY <1>1, <1>2, SubsetsOneByOne
<1> QED
  BY <1>3

(* Any element may be split off. *)
LEMMA SumWithout ==
  ASSUME NEW f, NEW S, IsFiniteSet(S), \A x \in S : f[x] \in Nat, NEW y \in S
  PROVE  SumFunctionOnSet(f, S) = f[y] + SumFunctionOnSet(f, S \ {y})
<1> DEFINE sum(T) == SumFunctionOnSet(f, T)
           F == {T \in SUBSET S : \A z \in T : sum(T) = f[z] + sum(T \ {z})}
<1>1. {} \in F
  OBVIOUS
<1>2. ASSUME NEW T \in SUBSET S, T # {}, \A x \in T : T \ {x} \in F
      PROVE  T \in F
  <2>1. PICK x \in T : sum(T) = f[x] + sum(T \ {x})
    BY <1>2, FS_Subset, SumSplits
  <2>2. ASSUME NEW z \in T, z # x
        PROVE  sum(T) = f[z] + sum(T \ {z})
    <3>1. T \ {x} \in F /\ T \ {z} \in F
      BY <1>2
    <3>2. sum(T \ {x}) = f[z] + sum((T \ {x}) \ {z})
      BY <2>2, <3>1
    <3>3. sum(T \ {z}) = f[x] + sum((T \ {z}) \ {x})
      BY <2>2, <3>1
    <3>4. (T \ {z}) \ {x} = (T \ {x}) \ {z}
      OBVIOUS
    <3>5. sum((T \ {x}) \ {z}) \in Nat
      <4>1. IsFiniteSet((T \ {x}) \ {z}) /\ (T \ {x}) \ {z} \subseteq S
        BY FS_Subset
      <4> QED
        BY <4>1, SumType
    <3> HIDE DEF sum
    <3> QED
      BY <2>1, <3>2, <3>3, <3>4, <3>5
  <2> QED
    BY <2>1, <2>2
<1>3. S \in F
  <2> HIDE DEF F
  <2> QED
    BY <1>1, <1>2, SubsetsOneByOne
<1> QED
  BY <1>3

(* Sums of what is nowhere larger are not larger. *)
LEMMA SumMonotone ==
  ASSUME NEW f, NEW g, NEW S, IsFiniteSet(S),
         \A x \in S : f[x] \in Nat /\ g[x] \in Nat /\ f[x] <= g[x]
  PROVE  SumFunctionOnSet(f, S) <= SumFunctionOnSet(g, S)
<1> DEFINE F == {T \in SUBSET S : SumFunctionOnSet(f, T) <= SumFunctionOnSet(g, T)}
<1>1. {} \in F
  BY SumOfNone
<1>2. ASSUME NEW T \in SUBSET S, T # {}, \A x \in T : T \ {x} \in F
      PROVE  T \in F
  <2>1. IsFiniteSet(T)
    BY FS_Subset
  <2>2. PICK x \in T : TRUE
    BY <1>2
  <2>3. /\ SumFunctionOnSet(f, T) = f[x] + SumFunctionOnSet(f, T \ {x})
        /\ SumFunctionOnSet(g, T) = g[x] + SumFunctionOnSet(g, T \ {x})
    BY <2>1, SumWithout
  <2>4. IsFiniteSet(T \ {x})
    BY <2>1, FS_Subset
  <2>5. SumFunctionOnSet(f, T \ {x}) \in Nat /\ SumFunctionOnSet(g, T \ {x}) \in Nat
    BY <2>4, SumType
  <2>6. SumFunctionOnSet(f, T \ {x}) <= SumFunctionOnSet(g, T \ {x})
    BY <1>2
  <2> QED
    BY <2>3, <2>5, <2>6
<1>3. S \in F
  <2> HIDE DEF F
  <2> QED
    BY <1>1, <1>2, SubsetsOneByOne
<1> QED
  BY <1>3

LEMMA SumSame ==
  ASSUME NEW f, NEW g, NEW S, IsFiniteSet(S), \A x \in S : f[x] \in Nat /\ f[x] = g[x]
  PROVE  SumFunctionOnSet(f, S) = SumFunctionOnSet(g, S)
<1>1. /\ SumFunctionOnSet(f, S) <= SumFunctionOnSet(g, S)
      /\ SumFunctionOnSet(g, S) <= SumFunctionOnSet(f, S)
  BY SumMonotone
<1>2. SumFunctionOnSet(f, S) \in Nat /\ SumFunctionOnSet(g, S) \in Nat
  BY SumType
<1> QED
  BY <1>1, <1>2

(* What is 0 outside a part has the sum of the part. *)
LEMMA SumWhere ==
  ASSUME NEW f, NEW S, IsFiniteSet(S), \A x \in S : f[x] \in Nat, NEW P \in SUBSET S,
         \A x \in S \ P : f[x] = 0
  PROVE  SumFunctionOnSet(f, P) = SumFunctionOnSet(f, S)
<1> DEFINE F == {T \in SUBSET S : SumFunctionOnSet(f, T \cap P) = SumFunctionOnSet(f, T)}
<1>1. {} \in F
  BY SumOfNone
<1>2. ASSUME NEW T \in SUBSET S, T # {}, \A x \in T : T \ {x} \in F
      PROVE  T \in F
  <2>1. IsFiniteSet(T) /\ IsFiniteSet(T \cap P)
    BY FS_Subset
  <2>2. PICK x \in T : TRUE
    BY <1>2
  <2>3. SumFunctionOnSet(f, T) = f[x] + SumFunctionOnSet(f, T \ {x})
    BY <2>1, SumWithout
  <2>4. SumFunctionOnSet(f, T \ {x}) = SumFunctionOnSet(f, (T \ {x}) \cap P)
    BY <1>2
  <2>5. CASE x \in P
    <3>1. (T \ {x}) \cap P = (T \cap P) \ {x} /\ x \in T \cap P /\ T \cap P \subseteq S
      BY <2>5
    <3>2. SumFunctionOnSet(f, T \cap P) = f[x] + SumFunctionOnSet(f, (T \cap P) \ {x})
      BY <2>1, <3>1, SumWithout
    <3> QED
      BY <2>3, <2>4, <3>1, <3>2
  <2>6. CASE x \notin P
    <3>1. (T \ {x}) \cap P = T \cap P /\ f[x] = 0
      BY <2>6
    <3>2. SumFunctionOnSet(f, T \cap P) \in Nat
      BY <2>1, SumType
    <3>3. SumFunctionOnSet(f, T) = f[x] + SumFunctionOnSet(f, T \cap P)
      BY <2>3, <2>4, <3>1
    <3>4. SumFunctionOnSet(f, T) = SumFunctionOnSet(f, T \cap P)
      BY <3>1, <3>2, <3>3
    <3> QED
      BY <3>4
  <2> QED
    BY <2>5, <2>6
<1>3. S \in F
  <2> HIDE DEF F
  <2> QED
    BY <1>1, <1>2, SubsetsOneByOne
<1>4. S \cap P = P
  OBVIOUS
<1> QED
  BY <1>3, <1>4

(* A part has no larger sum than the whole. *)
LEMMA SumOfPart ==
  ASSUME NEW f, NEW S, IsFiniteSet(S), \A x \in S : f[x] \in Nat, NEW P \in SUBSET S
  PROVE  SumFunctionOnSet(f, P) <= SumFunctionOnSet(f, S)
<1> DEFINE g == [x \in S |-> IF x \in P THEN f[x] ELSE 0]
<1>1. \A x \in S : g[x] \in Nat /\ g[x] <= f[x]
  OBVIOUS
<1>2. (\A x \in S \ P : g[x] = 0) /\ (\A x \in P : g[x] = f[x])
  OBVIOUS
<1>3. IsFiniteSet(P)
  BY FS_Subset
<1> HIDE DEF g
<1>4. SumFunctionOnSet(g, P) = SumFunctionOnSet(f, P)
  BY <1>1, <1>2, <1>3, SumSame
<1>5. SumFunctionOnSet(g, P) = SumFunctionOnSet(g, S)
  BY <1>1, <1>2, SumWhere
<1>6. SumFunctionOnSet(g, S) <= SumFunctionOnSet(f, S)
  BY <1>1, SumMonotone
<1> QED
  BY <1>4, <1>5, <1>6

LEMMA SumScaled ==
  ASSUME NEW f, NEW g, NEW S, IsFiniteSet(S), NEW c \in Nat,
         \A x \in S : f[x] \in Nat /\ g[x] = c * f[x]
  PROVE  SumFunctionOnSet(g, S) = c * SumFunctionOnSet(f, S)
<1> DEFINE F == {T \in SUBSET S : SumFunctionOnSet(g, T) = c * SumFunctionOnSet(f, T)}
<1>1. {} \in F
  BY SumOfNone
<1>2. ASSUME NEW T \in SUBSET S, T # {}, \A x \in T : T \ {x} \in F
      PROVE  T \in F
  <2>1. IsFiniteSet(T)
    BY FS_Subset
  <2>2. PICK x \in T : TRUE
    BY <1>2
  <2>3. \A y \in T : f[y] \in Nat /\ g[y] \in Nat
    OBVIOUS
  <2>4. /\ SumFunctionOnSet(f, T) = f[x] + SumFunctionOnSet(f, T \ {x})
        /\ SumFunctionOnSet(g, T) = g[x] + SumFunctionOnSet(g, T \ {x})
    BY <2>1, <2>3, SumWithout
  <2>5. PICK a \in Nat : a = SumFunctionOnSet(f, T \ {x})
    <3>1. IsFiniteSet(T \ {x})
      BY <2>1, FS_Subset
    <3> QED
      BY <2>3, <3>1, SumType
  <2>6. SumFunctionOnSet(g, T \ {x}) = c * a
    BY <1>2, <2>5
  <2>7. PICK b \in Nat : b = f[x] /\ g[x] = c * b
    BY <2>3
  <2>8. c * b + c * a = c * (b + a)
    OBVIOUS
  <2> QED
    BY <2>4, <2>5, <2>6, <2>7, <2>8
<1>3. S \in F
  <2> HIDE DEF F
  <2> QED
    BY <1>1, <1>2, SubsetsOneByOne
<1> QED
  BY <1>3

(* A sum does not depend on where its terms stand: h moves them. *)
LEMMA SumMoved ==
  ASSUME NEW f, NEW g, NEW h, NEW S, IsFiniteSet(S),
         \A x \in S : f[x] \in Nat /\ g[h[x]] = f[x],
         \A x, y \in S : h[x] = h[y] => x = y
  PROVE  SumFunctionOnSet(g, {h[x] : x \in S}) = SumFunctionOnSet(f, S)
<1> DEFINE image(T) == {h[x] : x \in T}
           F == {T \in SUBSET S :
                   IsFiniteSet(image(T)) /\ SumFunctionOnSet(g, image(T)) = SumFunctionOnSet(f, T)}
<1>1. {} \in F
  <2>1. image({}) = {}
    OBVIOUS
  <2> QED
    BY <2>1, SumOfNone, FS_EmptySet
<1>2. ASSUME NEW T \in SUBSET S, T # {}, \A x \in T : T \ {x} \in F
      PROVE  T \in F
  <2>1. PICK x \in T : TRUE
    BY <1>2
  <2>2. image(T) \ {h[x]} = image(T \ {x}) /\ h[x] \in image(T)
    OBVIOUS
  <2>3. IsFiniteSet(image(T))
    <3>1. IsFiniteSet(image(T \ {x}))
      BY <1>2
    <3>2. PICK y : y = h[x]
      OBVIOUS
    <3> HIDE DEF image
    <3>3. image(T) = image(T \ {x}) \union {y}
      BY <2>2, <3>2
    <3>4. PICK V : V = image(T \ {x}) /\ IsFiniteSet(V)
      BY <3>1
    <3>5. IsFiniteSet(V \union {y})
      BY <3>4, FS_AddElement
    <3> QED
      BY <3>3, <3>4, <3>5
  <2>4. SumFunctionOnSet(f, T) = f[x] + SumFunctionOnSet(f, T \ {x})
    BY FS_Subset, SumWithout
  <2>5. SumFunctionOnSet(g, image(T)) = g[h[x]] + SumFunctionOnSet(g, image(T) \ {h[x]})
    <3>1. \A y \in image(T) : g[y] \in Nat
      OBVIOUS
    <3> HIDE DEF image
    <3> QED
      BY <2>2, <2>3, <3>1, SumWithout
  <2>6. SumFunctionOnSet(g, image(T \ {x})) = SumFunctionOnSet(f, T \ {x})
    BY <1>2
  <2>7. g[h[x]] = f[x]
    OBVIOUS
  <2> HIDE DEF image
  <2> QED
    BY <2>2, <2>3, <2>4, <2>5, <2>6, <2>7
<1>3. S \in F
  <2> HIDE DEF F
  <2> QED
    BY <1>1, <1>2, SubsetsOneByOne
<1> QED
  BY <1>3

(* A finite set has an element whose value is least and one whose value is *)
(* greatest.                                                               *)
LEMMA Extremes ==
  ASSUME NEW f, NEW S, IsFiniteSet(S), S # {}, \A x \in S : f[x] \in Nat
  PROVE  /\ \E x \in S : \A y \in S : f[x] <= f[y]
         /\ \E x \in S : \A y \in S : f[y] <= f[x]
<1> DEFINE least(T) == \E x \in T : \A y \in T : f[x] <= f[y]
           greatest(T) == \E x \in T : \A y \in T : f[y] <= f[x]
           F == {T \in SUBSET S : T # {} => least(T) /\ greatest(T)}
<1>1. {} \in F
  OBVIOUS
<1>2. ASSUME NEW T \in SUBSET S, T # {}, \A x \in T : T \ {x} \in F
      PROVE  T \in F
  <2>1. PICK x \in T : TRUE
    BY <1>2
  <2>2. CASE T \ {x} = {}
    <3>1. T = {x}
      BY <2>2
    <3> QED
      BY <3>1
  <2>3. CASE T \ {x} # {}
    <3>1. PICK a \in T \ {x} : \A y \in T \ {x} : f[a] <= f[y]
      BY <1>2, <2>3
    <3>2. PICK b \in T \ {x} : \A y \in T \ {x} : f[y] <= f[b]
      BY <1>2, <2>3
    <3>3. least(T)
      <4>1. CASE f[a] <= f[x]
        BY <3>1, <4>1
      <4>2. CASE f[x] <= f[a]
        BY <3>1, <4>2
      <4> QED
        BY <4>1, <4>2
    <3>4. greatest(T)
      <4>1. CASE f[x] <= f[b]
        BY <3>2, <4>1
      <4>2. CASE f[b] <= f[x]
        BY <3>2, <4>2
      <4> QED
        BY <4>1, <4>2
    <3> QED
      BY <3>3, <3>4
  <2> QED
    BY <2>2, <2>3
<1>3. S \in F
  <2> HIDE DEF F
  <2> QED
    BY <1>1, <1>2, SubsetsOneByOne
<1> QED
  BY <1>3

-----------------------------------------------------------------------------
(* Recursion along 1..n: what is computed step by step exists. *)
LEMMA RecursionExists ==
  ASSUME NEW X, NEW base \in X, NEW n \in Nat, NEW step \in [1..n -> [X -> X]]
  PROVE  \E g \in [0..n -> X] : g[0] = base /\ \A i \in 1..n : g[i] = step[i][g[i - 1]]
<1> DEFINE Runs(k, g) == /\ g \in [0..k -> X] /\ g[0] = base
                         /\ \A i \in 1..k : g[i] = step[i][g[i - 1]]
           N == {k \in Nat : k <= n => \E g : Runs(k, g)}
<1>1. 0 \in N
  <2>1. Runs(0, [i \in 0..0 |-> base])
    OBVIOUS
  <2> QED
    BY <2>1
<1>2. ASSUME NEW k \in Nat, k \in N
      PROVE  k + 1 \in N
  <2>1. SUFFICES ASSUME k + 1 <= n PROVE \E g : Runs(k + 1, g)
    OBVIOUS
  <2>2. PICK g : Runs(k, g)
    BY <1>2, <2>1
  <2> DEFINE h == [i \in 0..(k + 1) |-> IF i = k + 1 THEN step[k + 1][g[k]] ELSE g[i]]
  <2>3. step[k + 1][g[k]] \in X
    <3>1. g[k] \in X /\ k + 1 \in 1..n
      BY <2>1, <2>2
    <3> QED
      BY <3>1
  <2>4. h \in [0..(k + 1) -> X]
    BY <2>2, <2>3
  <2>5. h[k + 1] = step[k + 1][g[k]] /\ \A i \in 0..k : h[i] = g[i]
    BY <2>2
  <2> HIDE DEF h
  <2>6. ASSUME NEW i \in 1..(k + 1)
        PROVE  h[i] = step[i][h[i - 1]]
    <3>1. i - 1 \in 0..k /\ h[i - 1] = g[i - 1]
      BY <2>5
    <3>2. CASE i = k + 1
      BY <2>5, <3>1, <3>2
    <3>3. CASE i \in 1..k
      BY <2>2, <2>5, <3>1, <3>3
    <3> QED
      BY <3>2, <3>3
  <2>7. h[0] = base
    BY <2>2, <2>5
  <2> QED
    BY <2>4, <2>6, <2>7
<1>3. n \in N
  <2> HIDE DEF N
  <2> QED
    BY <1>1, <1>2, NumbersOneByOne
<1> QED
  BY <1>3

(* The same, with nothing for the provers to unpack. *)
Runs(X, base, n, step, g) ==
  g \in [0..n -> X] /\ g[0] = base /\ \A i \in 1..n : g[i] = step[i][g[i - 1]]

LEMMA RunsExist ==
  ASSUME NEW X, NEW base, base \in X, NEW n, n \in Nat, NEW step, step \in [1..n -> [X -> X]]
  PROVE  \E g : Runs(X, base, n, step, g)
BY RecursionExists DEF Runs

-----------------------------------------------------------------------------
(* Keep: h leads from the places of q to those of s that are kept. *)

Picks(T, s, S, n, q, h) ==
  /\ q \in Seq(T) /\ h \in [1..Len(q) -> 1..n]
  /\ \A i \in 1..Len(q) : q[i] = s[h[i]] /\ s[h[i]] \in S
  /\ \A i, j \in 1..Len(q) : i < j => h[i] < h[j]
  /\ \A k \in 1..n : s[k] \in S => \E i \in 1..Len(q) : h[i] = k

LEMMA KeepRuns ==
  ASSUME NEW T, NEW s \in Seq(T), NEW S
  PROVE  \E g : /\ g[0] = <<>> /\ Keep(s, S) = g[Len(s)]
               /\ \A i \in 1..Len(s) :
                    g[i] = IF s[i] \in S THEN Append(g[i - 1], s[i]) ELSE g[i - 1]
<1> DEFINE n == Len(s)
           More(i, q) == IF s[i] \in S THEN Append(q, s[i]) ELSE q
           step == [i \in 1..n |-> [q \in Seq(T) |-> More(i, q)]]
           Is(g) == g = [i \in 0..n |->
                           IF i = 0 THEN <<>>
                           ELSE IF s[i] \in S THEN Append(g[i - 1], s[i]) ELSE g[i - 1]]
<1>1. n \in Nat /\ <<>> \in Seq(T) /\ step \in [1..n -> [Seq(T) -> Seq(T)]]
  OBVIOUS
<1>2. PICK g \in [0..n -> Seq(T)] :
        g[0] = <<>> /\ \A i \in 1..n : g[i] = step[i][g[i - 1]]
  <2> DEFINE X == Seq(T)
             base == <<>>
  <2>1. base \in X /\ n \in Nat /\ step \in [1..n -> [X -> X]]
    BY <1>1
  <2> HIDE DEF X, base, step, n
  <2>2. \E g \in [0..n -> X] : g[0] = base /\ \A i \in 1..n : g[i] = step[i][g[i - 1]]
    BY <2>1, RecursionExists
  <2> QED
    BY <2>2 DEF X, base
<1>3. \A i \in 1..n : g[i] = More(i, g[i - 1])
  <2> SUFFICES ASSUME NEW i \in 1..n PROVE g[i] = More(i, g[i - 1])
    OBVIOUS
  <2>1. i - 1 \in 0..n
    BY <1>1
  <2>2. g[i - 1] \in Seq(T)
    BY <2>1
  <2> QED
    BY <1>2, <2>2
<1>4. Is(g)
  <2>1. g = [i \in 0..n |-> g[i]]
    OBVIOUS
  <2>2. \A i \in 0..n : g[i] = IF i = 0 THEN <<>> ELSE More(i, g[i - 1])
    <3> SUFFICES ASSUME NEW i \in 0..n PROVE g[i] = IF i = 0 THEN <<>> ELSE More(i, g[i - 1])
      OBVIOUS
    <3>1. i = 0 \/ i \in 1..n
      BY <1>1
    <3> HIDE DEF More, n
    <3> QED
      BY <1>2, <1>3, <3>1
  <2> QED
    BY <2>1, <2>2
<1>5. PICK k : Is(k) /\ k = CHOOSE f : Is(f)
  BY <1>4
<1>6. Keep(s, S) = k[n]
  BY <1>5 DEF Keep
<1>7. k[0] = <<>>
  BY <1>1, <1>5
<1>8. ASSUME NEW i \in 1..n
      PROVE  k[i] = IF s[i] \in S THEN Append(k[i - 1], s[i]) ELSE k[i - 1]
  <2>1. i \in 0..n /\ i # 0
    BY <1>1
  <2> QED
    BY <1>5, <2>1
<1> QED
  BY <1>6, <1>7, <1>8

LEMMA KeepPicks ==
  ASSUME NEW T, NEW s \in Seq(T), NEW S
  PROVE  \E h : Picks(T, s, S, Len(s), Keep(s, S), h)
<1>1. PICK g : /\ g[0] = <<>> /\ Keep(s, S) = g[Len(s)]
               /\ \A i \in 1..Len(s) :
                    g[i] = IF s[i] \in S THEN Append(g[i - 1], s[i]) ELSE g[i - 1]
  BY KeepRuns
<1> DEFINE N == {k \in Nat : k <= Len(s) => \E h : Picks(T, s, S, k, g[k], h)}
<1>2. 0 \in N
  <2>1. Picks(T, s, S, 0, g[0], <<>>)
    BY <1>1 DEF Picks
  <2> QED
    BY <2>1
<1>3. ASSUME NEW k \in Nat, k \in N
      PROVE  k + 1 \in N
  <2> SUFFICES ASSUME k + 1 <= Len(s)
               PROVE  \E h : Picks(T, s, S, k + 1, g[k + 1], h)
    OBVIOUS
  <2>1. PICK h : Picks(T, s, S, k, g[k], h)
    BY <1>3
  <2> DEFINE q == g[k]
  <2>2. /\ q \in Seq(T) /\ Len(q) \in Nat /\ h \in [1..Len(q) -> 1..k]
        /\ k + 1 \in 1..Len(s) /\ s[k + 1] \in T
    BY <2>1 DEF Picks
  <2>3. g[k + 1] = IF s[k + 1] \in S THEN Append(q, s[k + 1]) ELSE q
    BY <1>1, <2>2
  <2> HIDE DEF q
  <2>4. CASE s[k + 1] \notin S
    <3>1. Picks(T, s, S, k + 1, q, h)
      BY <2>1, <2>2, <2>4 DEF Picks, q
    <3> QED
      BY <2>3, <2>4, <3>1
  <2>5. CASE s[k + 1] \in S
    <3> DEFINE r == Append(q, s[k + 1])
               f == [i \in 1..(Len(q) + 1) |-> IF i = Len(q) + 1 THEN k + 1 ELSE h[i]]
    <3>1. /\ r \in Seq(T) /\ Len(r) = Len(q) + 1 /\ r[Len(q) + 1] = s[k + 1]
          /\ \A i \in 1..Len(q) : r[i] = q[i]
      BY <2>2
    <3>2. f \in [1..Len(r) -> 1..(k + 1)]
      BY <2>2, <3>1
    <3>3. f[Len(q) + 1] = k + 1 /\ \A i \in 1..Len(q) : f[i] = h[i]
      BY <2>2
    <3> HIDE DEF r, f
    <3>4. \A i \in 1..Len(q) : q[i] = s[h[i]] /\ s[h[i]] \in S /\ h[i] \in 1..k
      BY <2>1, <2>2 DEF Picks, q
    <3>5. \A i \in 1..Len(r) : r[i] = s[f[i]] /\ s[f[i]] \in S
      BY <2>2, <2>5, <3>1, <3>3, <3>4
    <3>6. \A i, j \in 1..Len(r) : i < j => f[i] < f[j]
      <4> SUFFICES ASSUME NEW i \in 1..Len(r), NEW j \in 1..Len(r), i < j
                   PROVE  f[i] < f[j]
        OBVIOUS
      <4>1. i \in 1..Len(q)
        BY <2>2, <3>1
      <4>2. CASE j = Len(q) + 1
        BY <3>3, <3>4, <4>1, <4>2
      <4>3. CASE j # Len(q) + 1
        <5>1. j \in 1..Len(q)
          <6>1. j \in 1..(Len(q) + 1)
            BY <3>1
          <6> QED
            BY <2>2, <4>3, <6>1
        <5>2. h[i] < h[j]
          BY <2>1, <4>1, <5>1 DEF Picks, q
        <5> QED
          BY <3>3, <4>1, <5>1, <5>2
      <4> QED
        BY <4>2, <4>3
    <3>7. \A l \in 1..(k + 1) : s[l] \in S => \E i \in 1..Len(r) : f[i] = l
      <4> SUFFICES ASSUME NEW l \in 1..(k + 1), s[l] \in S
                   PROVE  \E i \in 1..Len(r) : f[i] = l
        OBVIOUS
      <4>1. CASE l = k + 1
        BY <2>2, <3>1, <3>3, <4>1
      <4>2. CASE l # k + 1
        <5>1. PICK i \in 1..Len(q) : h[i] = l
          BY <2>1, <4>2 DEF Picks, q
        <5>2. i \in 1..Len(r)
          BY <2>2, <3>1
        <5>3. f[i] = l
          BY <3>3, <5>1
        <5> QED
          BY <5>2, <5>3
      <4> QED
        BY <4>1, <4>2
    <3>8. Picks(T, s, S, k + 1, r, f)
      BY <3>1, <3>2, <3>5, <3>6, <3>7 DEF Picks
    <3> QED
      BY <2>3, <2>5, <3>8 DEF r
  <2> QED
    BY <2>4, <2>5
<1>4. Len(s) \in N
  <2> HIDE DEF N
  <2> QED
    BY <1>2, <1>3, NumbersOneByOne
<1> QED
  BY <1>1, <1>4

(* What is kept is what s has in S, and it stays in its order. *)
LEMMA KeepFacts ==
  ASSUME NEW T, NEW s \in Seq(T), NEW S
  PROVE  /\ Keep(s, S) \in Seq(T)
         /\ \A i \in DOMAIN Keep(s, S) : /\ Keep(s, S)[i] \in S
                                         /\ \E k \in DOMAIN s : s[k] = Keep(s, S)[i]
         /\ \A k \in DOMAIN s : s[k] \in S => \E i \in DOMAIN Keep(s, S) : Keep(s, S)[i] = s[k]
<1>1. PICK h : Picks(T, s, S, Len(s), Keep(s, S), h)
  BY KeepPicks
<1> DEFINE q == Keep(s, S)
<1>2. q \in Seq(T) /\ DOMAIN q = 1..Len(q) /\ DOMAIN s = 1..Len(s)
  BY <1>1 DEF Picks
<1> HIDE DEF q
<1>3. /\ \A i \in 1..Len(q) : q[i] \in S /\ h[i] \in 1..Len(s) /\ s[h[i]] = q[i]
      /\ \A k \in 1..Len(s) : s[k] \in S => \E i \in 1..Len(q) : h[i] = k
  BY <1>1 DEF Picks, q
<1> QED
  BY <1>2, <1>3 DEF q

LEMMA KeepOrder ==
  ASSUME NEW T, NEW s \in Seq(T), NEW S,
         NEW i \in DOMAIN Keep(s, S), NEW j \in DOMAIN Keep(s, S), i < j
  PROVE  \E k, l \in DOMAIN s : k < l /\ s[k] = Keep(s, S)[i] /\ s[l] = Keep(s, S)[j]
<1>1. PICK h : Picks(T, s, S, Len(s), Keep(s, S), h)
  BY KeepPicks
<1> DEFINE q == Keep(s, S)
<1>2. q \in Seq(T) /\ DOMAIN q = 1..Len(q) /\ DOMAIN s = 1..Len(s)
  BY <1>1 DEF Picks
<1>3. i \in 1..Len(q) /\ j \in 1..Len(q)
  BY <1>2
<1> HIDE DEF q
<1>4. h[i] \in 1..Len(s) /\ h[j] \in 1..Len(s) /\ h[i] < h[j] /\ s[h[i]] = q[i] /\ s[h[j]] = q[j]
  BY <1>1, <1>3 DEF Picks, q
<1> QED
  BY <1>2, <1>4 DEF q
=============================================================================
