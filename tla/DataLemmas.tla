----------------------------- MODULE DataLemmas -----------------------------
(***************************************************************************)
(* Sums over finite sets: what MapThenSumSet of the community modules      *)
(* returns, shown by induction on the set.  Sequences: what is in them.    *)
(* A predicate to be shown by induction is given as the set of what has    *)
(* it.                                                                     *)
(***************************************************************************)
EXTENDS Integers, FiniteSets, FiniteSetsExt, SequencesExt, FiniteSetTheorems,
        SequenceTheorems, WellFoundedInduction, TLAPS

\* Induction on finite sets: from all smaller subsets, or one member at a time.
LEMMA StrongInduction ==
  ASSUME NEW S, IsFiniteSet(S), NEW P,
         \A T \in SUBSET S : (\A U \in SUBSET T : U # T => U \in P) => T \in P
  PROVE  S \in P
<1> DEFINE bad == {T \in SUBSET S : T \notin P}
<1>1. SUFFICES ASSUME bad # {} PROVE FALSE
  BY <1>1
<1>2. IsWellFoundedOn(StrictSubsetOrdering(S), SUBSET S)
  BY FS_StrictSubsetOrderingWellFounded, FS_FiniteSubsetsOfFinite
<1>3. PICK T \in bad : \A U \in bad : ~(<<U, T>> \in StrictSubsetOrdering(S))
  <2> HIDE DEF bad
  <2>1. bad \subseteq SUBSET S
    BY DEF bad
  <2> QED
    BY <1>1, <1>2, <2>1, WFMin
<1>4. ASSUME NEW U \in SUBSET T, U # T PROVE U \in P
  <2>1. <<U, T>> \in StrictSubsetOrdering(S)
    BY <1>3, <1>4 DEF StrictSubsetOrdering
  <2> QED
    BY <1>3, <2>1
<1> QED
  BY <1>3, <1>4

\* Induction over a finite set, with the sets that have a property given as P.
LEMMA FiniteInduction ==
  ASSUME NEW S, IsFiniteSet(S), NEW P,
         {} \in P,
         \A T \in SUBSET S, x \in S : T \in P /\ x \notin T => T \union {x} \in P
  PROVE  S \in P
<1>1. ASSUME NEW T \in SUBSET S, \A U \in SUBSET T : U # T => U \in P
      PROVE  T \in P
  <2>1. CASE T = {}
    BY <2>1
  <2>2. CASE T # {}
    <3>1. PICK x \in T : TRUE
      BY <2>2
    <3>2. T \ {x} \in P
      BY <1>1
    <3>3. (T \ {x}) \union {x} = T
      BY <3>1
    <3>4. (T \ {x}) \union {x} \in P
      BY <3>1, <3>2
    <3> QED
      BY <3>3, <3>4
  <2> QED
    BY <2>1, <2>2
<1> QED
  BY <1>1, StrongInduction

-----------------------------------------------------------------------------
(* The table of the sums of all subsets *)

\* Every subset's entry is any member's weight and the entry of the rest.
IsSum(h, w, S) ==
  /\ h \in [SUBSET S -> Int]
  /\ h[{}] = 0
  /\ \A T \in SUBSET S : \A x \in T : h[T] = w[x] + h[T \ {x}]

\* What MapThenSumSet computes takes the members in the order of CHOOSE.
Chosen(T) == CHOOSE x \in T : TRUE
Iterates(h, w, S) ==
  h = [T \in SUBSET S |-> IF T = {} THEN 0 ELSE w[Chosen(T)] + h[T \ {Chosen(T)}]]
SumOver(w, S) == (CHOOSE h : Iterates(h, w, S))[S]

\* There is the function that a sum over a finite set is defined by.
LEMMA SumExists ==
  ASSUME NEW S, IsFiniteSet(S), NEW w, \A x \in S : w[x] \in Int
  PROVE  \E h : IsSum(h, w, S)
<1> DEFINE P == {T \in SUBSET S : \E h : IsSum(h, w, T)}
<1>1. {} \in P
  <2>1. IsSum([T \in SUBSET {} |-> 0], w, {})
    BY DEF IsSum
  <2> QED
    BY <2>1
<1>2. ASSUME NEW T \in SUBSET S, NEW x \in S, T \in P, x \notin T
      PROVE  T \union {x} \in P
  <2>1. PICK h : IsSum(h, w, T)
    BY <1>2
  <2> DEFINE M == T \union {x}
             g == [U \in SUBSET M |-> IF x \in U THEN w[x] + h[U \ {x}] ELSE h[U]]
  <2>2. \A U \in SUBSET M : U \ {x} \in SUBSET T /\ (x \notin U => U \in SUBSET T)
    OBVIOUS
  <2>3. g \in [SUBSET M -> Int]
    <3>1. w[x] \in Int /\ \A U \in SUBSET T : h[U] \in Int
      BY <2>1 DEF IsSum
    <3> QED
      BY <2>2, <3>1
  <2>4. g[{}] = 0
    BY <2>1 DEF IsSum
  <2>5. ASSUME NEW U \in SUBSET M, NEW y \in U PROVE g[U] = w[y] + g[U \ {y}]
    <3>1. CASE y = x
      BY <3>1
    <3>2. CASE y # x /\ x \notin U
      BY <2>1, <2>2, <3>2 DEF IsSum
    <3>3. CASE y # x /\ x \in U
      <4> DEFINE rest == h[(U \ {x}) \ {y}]
      <4>1. g[U] = w[x] + h[U \ {x}]
        BY <3>3
      <4>2. g[U \ {y}] = w[x] + rest
        <5>1. (U \ {x}) \ {y} = (U \ {y}) \ {x} /\ x \in U \ {y}
          BY <3>3
        <5> QED
          BY <5>1
      <4>3. (U \ {x}) \ {y} \in SUBSET T /\ y \in S
        BY <1>2, <2>2
      <4>4. h[U \ {x}] = w[y] + rest
        BY <2>1, <2>2, <3>3 DEF IsSum
      <4>5. w[x] \in Int /\ w[y] \in Int /\ rest \in Int
        BY <2>1, <4>3 DEF IsSum
      <4> HIDE DEF g, rest
      <4> QED
        BY <4>1, <4>2, <4>4, <4>5
    <3> QED
      BY <3>1, <3>2, <3>3
  <2> HIDE DEF g
  <2>6. IsSum(g, w, M)
    BY <2>3, <2>4, <2>5 DEF IsSum
  <2> QED
    BY <2>6
<1>3. S \in P
  <2> HIDE DEF P
  <2> QED
    BY <1>1, <1>2, FiniteInduction
<1> QED
  BY <1>3

\* It adds one element at a time, whichever is chosen.
LEMMA SumIterates ==
  ASSUME NEW S, NEW w, NEW h, IsSum(h, w, S) PROVE Iterates(h, w, S)
<1>1. \A T \in SUBSET S :
        h[T] = IF T = {} THEN 0 ELSE w[Chosen(T)] + h[T \ {Chosen(T)}]
  BY DEF IsSum, Chosen
<1> QED
  BY <1>1 DEF IsSum, Iterates

\* Two such functions give the same sum.
LEMMA IteratesOnce ==
  ASSUME NEW S, IsFiniteSet(S), NEW w, NEW g, Iterates(g, w, S),
         NEW h, Iterates(h, w, S)
  PROVE  g[S] = h[S]
<1> DEFINE P == {T \in SUBSET S : g[T] = h[T]}
<1>1. ASSUME NEW T \in SUBSET S, \A U \in SUBSET T : U # T => U \in P
      PROVE  T \in P
  <2>1. CASE T = {}
    BY <2>1 DEF Iterates
  <2>2. CASE T # {}
    <3>1. Chosen(T) \in T
      BY <2>2 DEF Chosen
    <3>2. g[T \ {Chosen(T)}] = h[T \ {Chosen(T)}]
      BY <1>1, <3>1
    <3>3. /\ g[T] = w[Chosen(T)] + g[T \ {Chosen(T)}]
          /\ h[T] = w[Chosen(T)] + h[T \ {Chosen(T)}]
      BY <2>2 DEF Iterates
    <3> QED
      BY <3>2, <3>3
  <2> QED
    BY <2>1, <2>2
<1>2. S \in P
  <2> HIDE DEF P
  <2> QED
    BY <1>1, StrongInduction
<1> QED
  BY <1>2

\* The table's entries are the sums of the subsets.
LEMMA SumOfPart ==
  ASSUME NEW S, IsFiniteSet(S), NEW w, NEW h, IsSum(h, w, S), NEW T \in SUBSET S
  PROVE  h[T] = SumOver(w, T)
<1> DEFINE k == [U \in SUBSET T |-> h[U]]
<1>1. IsSum(k, w, T)
  BY DEF IsSum
<1>2. Iterates(k, w, T)
  BY <1>1, SumIterates
<1>3. Iterates(CHOOSE g : Iterates(g, w, T), w, T)
  BY <1>2
<1>4. IsFiniteSet(T)
  BY FS_Subset
<1>5. k[T] = (CHOOSE g : Iterates(g, w, T))[T]
  BY <1>2, <1>3, <1>4, IteratesOnce
<1> QED
  BY <1>5 DEF SumOver

-----------------------------------------------------------------------------
(* Sums *)

Weighs(w, S) == IsFiniteSet(S) /\ \A x \in S : w[x] \in Int

\* The sum of nothing is 0.
LEMMA SumEmpty == ASSUME NEW w PROVE SumOver(w, {}) = 0
<1>1. IsSum([T \in SUBSET {} |-> 0], w, {})
  BY DEF IsSum
<1> QED
  BY <1>1, SumOfPart, FS_EmptySet

\* A sum of integers is one.
LEMMA SumType == ASSUME NEW S, NEW w, Weighs(w, S) PROVE SumOver(w, S) \in Int
<1>1. PICK h : IsSum(h, w, S)
  BY SumExists DEF Weighs
<1>2. h[S] \in Int
  BY <1>1 DEF IsSum
<1> QED
  BY <1>1, <1>2, SumOfPart DEF Weighs

\* One member less.
LEMMA SumWithout ==
  ASSUME NEW S, NEW w, Weighs(w, S), NEW x \in S
  PROVE  SumOver(w, S) = w[x] + SumOver(w, S \ {x})
<1>1. PICK h : IsSum(h, w, S)
  BY SumExists DEF Weighs
<1>2. h[S] = w[x] + h[S \ {x}]
  BY <1>1 DEF IsSum
<1>3. h[S] = SumOver(w, S) /\ h[S \ {x}] = SumOver(w, S \ {x})
  BY <1>1, SumOfPart DEF Weighs
<1> QED
  BY <1>2, <1>3

\* One member more.
LEMMA SumWith ==
  ASSUME NEW S, NEW w, NEW x, x \notin S, Weighs(w, S), w[x] \in Int
  PROVE  SumOver(w, S \union {x}) = w[x] + SumOver(w, S)
<1>1. Weighs(w, S \union {x})
  BY FS_AddElement DEF Weighs
<1>2. (S \union {x}) \ {x} = S
  OBVIOUS
<1> QED
  BY <1>1, <1>2, SumWithout

\* Only the weights of the members matter.
LEMMA SumSame ==
  ASSUME NEW S, IsFiniteSet(S), NEW v, NEW w, \A x \in S : v[x] = w[x],
         \A x \in S : w[x] \in Int
  PROVE  SumOver(v, S) = SumOver(w, S)
<1>1. PICK h : IsSum(h, w, S)
  BY SumExists
<1>2. IsSum(h, v, S)
  BY <1>1 DEF IsSum
<1> QED
  BY <1>1, <1>2, SumOfPart

\* Of natural numbers, the sum is one.
LEMMA SumNat ==
  ASSUME NEW S, IsFiniteSet(S), NEW w, \A x \in S : w[x] \in Nat
  PROVE  SumOver(w, S) \in Nat
<1> DEFINE P == {T \in SUBSET S : SumOver(w, T) \in Nat}
<1>1. {} \in P
  BY SumEmpty
<1>2. ASSUME NEW T \in SUBSET S, NEW x \in S, T \in P, x \notin T
      PROVE  T \union {x} \in P
  <2>1. Weighs(w, T) /\ w[x] \in Nat
    BY FS_Subset DEF Weighs
  <2>2. SumOver(w, T \union {x}) = w[x] + SumOver(w, T)
    BY <1>2, <2>1, SumWith
  <2> QED
    BY <1>2, <2>1, <2>2
<1>3. S \in P
  <2> HIDE DEF P
  <2> QED
    BY <1>1, <1>2, FiniteInduction
<1> QED
  BY <1>3

\* Members that weigh nothing add nothing.
LEMMA SumZero ==
  ASSUME NEW S, IsFiniteSet(S), NEW w, \A x \in S : w[x] = 0
  PROVE  SumOver(w, S) = 0
<1> DEFINE h == [T \in SUBSET S |-> 0]
<1>1. IsSum(h, w, S)
  BY DEF IsSum
<1>2. h[S] = 0
  OBVIOUS
<1> HIDE DEF h
<1> QED
  BY <1>1, <1>2, SumOfPart

\* The sum over one item.
LEMMA OneItem ==
  ASSUME NEW i, NEW f, f[i].mrr \in Int
  PROVE  MapThenSumSet(LAMBDA x : f[x].mrr, {i}) = f[i].mrr
<1> DEFINE w == [x \in {i} |-> f[x].mrr]
           Rec(h) == h = [T \in SUBSET {i} |-> IF T = {} THEN 0
                            ELSE f[Chosen(T)].mrr + h[T \ {Chosen(T)}]]
<1>1. MapThenSumSet(LAMBDA x : f[x].mrr, {i}) = (CHOOSE h : Rec(h))[{i}]
  BY Zenon DEF MapThenSumSet, MapThenFoldSet, Chosen
<1>2. ASSUME NEW h PROVE Rec(h) <=> Iterates(h, w, {i})
  BY DEF Chosen, Iterates
<1>3. (CHOOSE h : Rec(h)) = (CHOOSE h : Iterates(h, w, {i}))
  BY <1>2
<1>4. Weighs(w, {i}) /\ w[i] = f[i].mrr
  BY FS_Singleton DEF Weighs
<1> HIDE DEF w, Rec
<1>5. MapThenSumSet(LAMBDA x : f[x].mrr, {i}) = SumOver(w, {i})
  BY <1>1, <1>3 DEF SumOver
<1>6. SumOver(w, {i}) = w[i] + SumOver(w, {}) /\ SumOver(w, {}) = 0
  BY <1>4, SumWithout, SumEmpty
<1> QED
  BY <1>4, <1>5, <1>6

\* Disjoint sets.
LEMMA SumUnion ==
  ASSUME NEW S, NEW T, NEW w, Weighs(w, S), Weighs(w, T), S \intersect T = {}
  PROVE  SumOver(w, S \union T) = SumOver(w, S) + SumOver(w, T)
<1> DEFINE P == {U \in SUBSET T : SumOver(w, S \union U) = SumOver(w, S) + SumOver(w, U)}
<1>0. SumOver(w, S) \in Int
  BY SumType
<1>1. {} \in P
  <2>1. S \union {} = S
    OBVIOUS
  <2> QED
    BY <1>0, <2>1, SumEmpty
<1>2. ASSUME NEW U \in SUBSET T, NEW x \in T, U \in P, x \notin U
      PROVE  U \union {x} \in P
  <2>1. Weighs(w, U) /\ Weighs(w, S \union U) /\ w[x] \in Int
    BY FS_Subset, FS_Union DEF Weighs
  <2>2. SumOver(w, (S \union U) \union {x}) = w[x] + SumOver(w, S \union U)
    BY <1>2, <2>1, SumWith
  <2>3. SumOver(w, U \union {x}) = w[x] + SumOver(w, U)
    BY <1>2, <2>1, SumWith
  <2>4. (S \union U) \union {x} = S \union (U \union {x})
    OBVIOUS
  <2>5. SumOver(w, U) \in Int
    BY <2>1, SumType
  <2>6. SumOver(w, S \union U) = SumOver(w, S) + SumOver(w, U)
    BY <1>2
  <2>7. SumOver(w, S \union (U \union {x})) = SumOver(w, S) + SumOver(w, U \union {x})
    <3>1. SumOver(w, S \union (U \union {x})) = w[x] + SumOver(w, S \union U)
      BY <2>2, <2>4
    <3> QED
      BY <1>0, <2>1, <2>3, <2>5, <2>6, <3>1
  <2> QED
    BY <2>7
<1>3. T \in P
  <2> HIDE DEF P
  <2> QED
    BY <1>1, <1>2, FiniteInduction DEF Weighs
<1> QED
  BY <1>3

\* Elements that weigh nothing can be left out.
LEMMA SumSupport ==
  ASSUME NEW S, NEW w, Weighs(w, S), NEW T \in SUBSET S, \A x \in S \ T : w[x] = 0
  PROVE  SumOver(w, S) = SumOver(w, T)
<1>1. Weighs(w, T) /\ Weighs(w, S \ T)
  BY FS_Subset DEF Weighs
<1>2. T \union (S \ T) = S /\ T \intersect (S \ T) = {}
  OBVIOUS
<1>3. SumOver(w, S) = SumOver(w, T) + SumOver(w, S \ T)
  BY <1>1, <1>2, SumUnion
<1>4. SumOver(w, S \ T) = 0
  BY <1>1, SumZero DEF Weighs
<1>5. SumOver(w, T) \in Int
  BY <1>1, SumType
<1> QED
  BY <1>3, <1>4, <1>5

\* The members grouped by a key: the sum is the sum of the groups' sums.
Group(S, key, k) == {x \in S : key[x] = k}
\* A sum can be taken group by group.
LEMMA SumParts ==
  ASSUME NEW S, NEW K, IsFiniteSet(K), NEW key \in [S -> K], NEW w, Weighs(w, S),
         NEW v, \A k \in K : v[k] = SumOver(w, Group(S, key, k))
  PROVE  SumOver(w, S) = SumOver(v, K)
<1> DEFINE Part(T) == {x \in S : key[x] \in T}
           P == {T \in SUBSET K : SumOver(w, Part(T)) = SumOver(v, T)}
<1>1. \A T : Weighs(w, Part(T))
  BY FS_Subset DEF Weighs
<1>2. {} \in P
  <2>1. Part({}) = {}
    OBVIOUS
  <2> QED
    BY <2>1, SumEmpty
<1>3. ASSUME NEW k \in K
      PROVE  Weighs(w, Group(S, key, k)) /\ v[k] \in Int
  <2>1. Weighs(w, Group(S, key, k))
    BY FS_Subset DEF Weighs, Group
  <2> QED
    BY <2>1, SumType
<1>4. ASSUME NEW T \in SUBSET K, NEW k \in K, T \in P, k \notin T
      PROVE  T \union {k} \in P
  <2> DEFINE one == Group(S, key, k)
  <2>1. Part(T \union {k}) = Part(T) \union one /\ Part(T) \intersect one = {}
    BY <1>4 DEF Group
  <2>2. Weighs(w, Part(T)) /\ Weighs(w, one)
    BY <1>1, <1>3
  <2>3. SumOver(w, Part(T)) = SumOver(v, T)
    BY <1>4
  <2>4. SumOver(w, one) = v[k]
    OBVIOUS
  <2> HIDE DEF Part, one
  <2>5. SumOver(w, Part(T \union {k})) = SumOver(w, Part(T)) + SumOver(w, one)
    <3>1. SumOver(w, Part(T) \union one) = SumOver(w, Part(T)) + SumOver(w, one)
      BY <2>1, <2>2, SumUnion
    <3> QED
      BY <2>1, <3>1
  <2>6. Weighs(v, T) /\ v[k] \in Int
    BY <1>3, FS_Subset DEF Weighs
  <2>7. SumOver(v, T \union {k}) = v[k] + SumOver(v, T)
    BY <1>4, <2>6, SumWith
  <2>8. SumOver(v, T) \in Int
    BY <2>6, SumType
  <2>9. SumOver(w, Part(T \union {k})) = SumOver(v, T \union {k})
    BY <2>3, <2>4, <2>5, <2>6, <2>7, <2>8
  <2> QED
    BY <2>9
<1>5. K \in P
  <2> HIDE DEF P
  <2> QED
    BY <1>2, <1>4, FiniteInduction
<1>6. Part(K) = S
  OBVIOUS
<1> QED
  BY <1>5, <1>6

\* The members renamed.
LEMMA SumImage ==
  ASSUME NEW S, IsFiniteSet(S), NEW f, \A x, y \in S : f[x] = f[y] => x = y,
         NEW w, NEW v, \A x \in S : v[x] = w[f[x]] /\ v[x] \in Int
  PROVE  /\ SumOver(w, {f[x] : x \in S}) = SumOver(v, S)
         /\ IsFiniteSet({f[x] : x \in S})
<1> DEFINE Image(T) == {f[x] : x \in T}
           P == {T \in SUBSET S : /\ SumOver(w, Image(T)) = SumOver(v, T)
                                  /\ IsFiniteSet(Image(T))}
<1>1. {} \in P
  <2>1. Image({}) = {}
    OBVIOUS
  <2> QED
    BY <2>1, SumEmpty, FS_EmptySet
<1>2. ASSUME NEW T \in SUBSET S, NEW x \in S, T \in P, x \notin T
      PROVE  T \union {x} \in P
  <2>1. Image(T \union {x}) = Image(T) \union {f[x]} /\ f[x] \notin Image(T)
    BY <1>2
  <2>2. IsFiniteSet(Image(T)) /\ SumOver(w, Image(T)) = SumOver(v, T)
    BY <1>2
  <2>3. \A y \in Image(T) : w[y] \in Int
    OBVIOUS
  <2>4. w[f[x]] = v[x] /\ v[x] \in Int
    OBVIOUS
  <2>5. IsFiniteSet(T) /\ \A y \in T : v[y] \in Int
    BY FS_Subset
  <2> HIDE DEF Image
  <2>6. SumOver(w, Image(T) \union {f[x]}) = w[f[x]] + SumOver(w, Image(T))
    BY <2>1, <2>2, <2>3, <2>4, SumWith DEF Weighs
  <2>7. SumOver(v, T \union {x}) = v[x] + SumOver(v, T)
    BY <1>2, <2>4, <2>5, SumWith DEF Weighs
  <2>8. IsFiniteSet(Image(T \union {x}))
    <3>1. IsFiniteSet(Image(T) \union {f[x]})
      BY <2>2, FS_AddElement
    <3> QED
      BY <2>1, <3>1
  <2> QED
    BY <2>1, <2>2, <2>4, <2>6, <2>7, <2>8
<1>3. S \in P
  <2> HIDE DEF P
  <2> QED
    BY <1>1, <1>2, FiniteInduction
<1> QED
  BY <1>3

-----------------------------------------------------------------------------
(* The greatest member *)

\* A finite set of integers has a greatest element.
LEMMA Greatest ==
  ASSUME NEW S, IsFiniteSet(S), S \subseteq Int, S # {}
  PROVE  \E m \in S : \A n \in S : n <= m
<1> DEFINE P == {T \in SUBSET S : T # {} => \E m \in T : \A n \in T : n <= m}
<1>1. {} \in P
  OBVIOUS
<1>2. ASSUME NEW T \in SUBSET S, NEW x \in S, T \in P, x \notin T
      PROVE  T \union {x} \in P
  <2>1. CASE T = {}
    BY <2>1
  <2>2. CASE T # {}
    <3>1. PICK m \in T : \A n \in T : n <= m
      BY <1>2, <2>2
    <3>2. CASE x <= m
      BY <3>1, <3>2
    <3>3. CASE ~(x <= m)
      BY <3>1, <3>3
    <3> QED
      BY <3>2, <3>3
  <2> QED
    BY <2>1, <2>2
<1>3. S \in P
  <2> HIDE DEF P
  <2> QED
    BY <1>1, <1>2, FiniteInduction
<1> QED
  BY <1>3
\* And a least one, as Min asks for it.
LEMMA Least ==
  ASSUME NEW S, IsFiniteSet(S), S \subseteq Int, S # {}
  PROVE  \E m \in S : \A n \in S : m <= n
<1> DEFINE P == {T \in SUBSET S : T # {} => \E m \in T : \A n \in T : m <= n}
<1>1. {} \in P
  OBVIOUS
<1>2. ASSUME NEW T \in SUBSET S, NEW x \in S, T \in P, x \notin T
      PROVE  T \union {x} \in P
  <2>1. CASE T = {}
    BY <2>1
  <2>2. CASE T # {}
    <3>1. PICK m \in T : \A n \in T : m <= n
      BY <1>2, <2>2
    <3>2. CASE m <= x
      BY <3>1, <3>2
    <3>3. CASE ~(m <= x)
      BY <3>1, <3>3
    <3> QED
      BY <3>2, <3>3
  <2> QED
    BY <2>1, <2>2
<1>3. S \in P
  <2> HIDE DEF P
  <2> QED
    BY <1>1, <1>2, FiniteInduction
<1> QED
  BY <1>3

-----------------------------------------------------------------------------
(* Sequences of events *)

\* A sequence, of whatever it holds.
IsStream(s) == s \in Seq(Range(s))

\* A sequence over any set is a sequence of what it holds.
LEMMA StreamOf ==
  ASSUME NEW S, NEW s \in Seq(S)
  PROVE  IsStream(s)
BY SeqOfRange DEF IsStream

\* The places of a stream.
LEMMA Places ==
  ASSUME NEW s, IsStream(s)
  PROVE  Len(s) \in Nat /\ Range(s) = {s[i] : i \in 1..Len(s)}
BY LenProperties, RangeEquality DEF IsStream

\* The empty stream holds nothing.
LEMMA NoEvents == IsStream(<<>>) /\ Range(<<>>) = {}
<1>1. <<>> \in Seq({}) /\ Len(<<>>) = 0
  BY EmptySeq
<1>2. Range(<<>>) = {<<>>[i] : i \in 1..Len(<<>>)}
  BY <1>1, RangeEquality
<1>3. {<<>>[i] : i \in 1..Len(<<>>)} = {}
  BY <1>1
<1> QED
  BY <1>1, <1>2, <1>3, StreamOf

\* A stream of one event holds it alone.
LEMMA OneEvent ==
  ASSUME NEW e
  PROVE  IsStream(<<e>>) /\ Range(<<e>>) = {e}
<1>1. <<e>> \in Seq({e}) /\ Len(<<e>>) = 1 /\ <<e>>[1] = e
  OBVIOUS
<1>2. Range(<<e>>) = {<<e>>[i] : i \in 1..Len(<<e>>)}
  BY <1>1, RangeEquality
<1>3. {<<e>>[i] : i \in 1..Len(<<e>>)} = {e}
  BY <1>1
<1> QED
  BY <1>1, <1>2, <1>3, StreamOf

\* A stream of two events holds both.
LEMMA TwoEvents ==
  ASSUME NEW a, NEW b
  PROVE  IsStream(<<a, b>>) /\ Range(<<a, b>>) = {a, b}
<1>1. /\ <<a, b>> \in Seq({a, b}) /\ Len(<<a, b>>) = 2
      /\ <<a, b>>[1] = a /\ <<a, b>>[2] = b
  OBVIOUS
<1>2. Range(<<a, b>>) = {<<a, b>>[i] : i \in 1..Len(<<a, b>>)}
  BY <1>1, RangeEquality
<1>3. {<<a, b>>[i] : i \in 1..Len(<<a, b>>)} = {a, b}
  BY <1>1
<1> QED
  BY <1>1, <1>2, <1>3, StreamOf

\* Two streams, one after the other, hold what both do.
LEMMA Joined ==
  ASSUME NEW s, NEW t, IsStream(s), IsStream(t)
  PROVE  IsStream(s \o t) /\ Range(s \o t) = Range(s) \union Range(t)
<1>1. s \in Seq(Range(s) \union Range(t)) /\ t \in Seq(Range(s) \union Range(t))
  BY SeqMonotonic DEF IsStream
<1>2. s \o t \in Seq(Range(s) \union Range(t))
  BY <1>1
<1> QED
  BY <1>1, <1>2, StreamOf, RangeConcatenation

\* A stream with one event more holds it as well.
LEMMA Appended ==
  ASSUME NEW s, NEW e, IsStream(s)
  PROVE  IsStream(Append(s, e)) /\ Range(Append(s, e)) = Range(s) \union {e}
<1>1. s \in Seq(Range(s) \union {e}) /\ e \in Range(s) \union {e}
  BY SeqMonotonic DEF IsStream
<1>2. Append(s, e) = s \o <<e>>
  BY <1>1, AppendIsConcat
<1> QED
  BY <1>2, OneEvent, Joined

\* A stream is its first event and the rest.
LEMMA Consumed ==
  ASSUME NEW s, IsStream(s), s # <<>>
  PROVE  /\ IsStream(Tail(s))
         /\ Range(s) = Range(Tail(s)) \union {Head(s)}
<1>1. s = <<Head(s)>> \o Tail(s) /\ Tail(s) \in Seq(Range(s))
  BY HeadTailProperties, ConcatProperties, SeqEqual DEF IsStream
<1>2. IsStream(Tail(s))
  BY <1>1, StreamOf
<1>3. IsStream(<<Head(s)>>) /\ Range(<<Head(s)>>) = {Head(s)}
  BY OneEvent
<1>4. Range(s) = Range(<<Head(s)>>) \union Range(Tail(s))
  BY <1>1, <1>2, <1>3, Joined
<1> QED
  BY <1>2, <1>3, <1>4

\* Induction, with the numbers that have a property given as their set.
LEMMA SetInduction ==
  ASSUME NEW P, 0 \in P, \A n \in Nat : n \in P => n + 1 \in P
  PROVE  Nat \subseteq P
<1> DEFINE bad == {n \in Nat : n \notin P}
<1>1. SUFFICES ASSUME bad # {} PROVE FALSE
  OBVIOUS
<1>2. PICK m \in bad : \A k \in bad : ~(<<k, m>> \in OpToRel(<, Nat))
  <2>1. bad \subseteq Nat
    OBVIOUS
  <2> HIDE DEF bad
  <2> QED
    BY <1>1, <2>1, NatLessThanWellFounded, WFMin
<1>3. m # 0 /\ m - 1 \in Nat
  OBVIOUS
<1>4. <<m - 1, m>> \in OpToRel(<, Nat)
  BY <1>3 DEF OpToRel
<1>5. m - 1 \in P
  BY <1>2, <1>3, <1>4
<1> QED
  BY <1>3, <1>5

\* A sequence over S is a stream of members of S.
LEMMA Members ==
  ASSUME NEW S, NEW s \in Seq(S)
  PROVE  IsStream(s) /\ Range(s) \subseteq S
<1>1. Range(s) = {s[i] : i \in 1..Len(s)}
  BY RangeEquality
<1>2. \A i \in 1..Len(s) : s[i] \in S
  OBVIOUS
<1> QED
  BY <1>1, <1>2, StreamOf

\* Without one of its events, a stream holds no other than before.
LEMMA Removed ==
  ASSUME NEW s, IsStream(s), NEW k \in DOMAIN s
  PROVE  IsStream(RemoveAt(s, k)) /\ Range(RemoveAt(s, k)) \subseteq Range(s)
<1>1. s \in Seq(Range(s)) /\ Len(s) \in Nat /\ k \in 1..Len(s)
  BY LenProperties DEF IsStream
<1>2. \A i \in 1..(k - 1) : s[i] \in Range(s)
  BY <1>1
<1>3. \A i \in (k + 1)..Len(s) : s[i] \in Range(s)
  BY <1>1
<1>4. SubSeq(s, 1, k - 1) \in Seq(Range(s))
  BY <1>1, <1>2, SubSeqProperties
<1>5. SubSeq(s, k + 1, Len(s)) \in Seq(Range(s))
  BY <1>1, <1>3, SubSeqProperties
<1>6. RemoveAt(s, k) \in Seq(Range(s))
  BY <1>4, <1>5 DEF RemoveAt
<1> QED
  BY <1>6, Members

\* With one of its events replaced, it holds the new one besides.
LEMMA Replaced ==
  ASSUME NEW s, IsStream(s), NEW k \in DOMAIN s, NEW e
  PROVE  /\ IsStream([s EXCEPT ![k] = e])
         /\ Range([s EXCEPT ![k] = e]) \subseteq Range(s) \union {e}
<1> DEFINE S == Range(s) \union {e}
<1>1. s \in Seq(S) /\ e \in S
  BY SeqMonotonic DEF IsStream
<1>2. k \in 1..Len(s)
  BY <1>1
<1>3. [s EXCEPT ![k] = e] \in Seq(S)
  BY <1>1, <1>2, ExceptSeq
<1> QED
  BY <1>3, Members

\* A finite set can be listed.
LEMMA Listed ==
  ASSUME NEW S, IsFiniteSet(S)
  PROVE  SetToSeq(S) \in Seq(S) /\ Range(SetToSeq(S)) = S
<1> DEFINE n == Cardinality(S)
           list == SetToSeq(S)
<1>1. n \in Nat /\ ExistsBijection(1..n, S)
  BY FS_CardinalityType
<1>2. PICK f \in [1..n -> S] : \A a, b \in 1..n : f[a] = f[b] => a = b
  BY <1>1 DEF ExistsBijection, Bijection, Injection, IsInjective
<1>3. IsInjective(f)
  BY <1>2 DEF IsInjective
<1>4. list \in [1..n -> S] /\ IsInjective(list)
  BY <1>2, <1>3 DEF SetToSeq
<1> HIDE DEF list
<1>5. Range(list) \subseteq S /\ list \in [1..n -> Range(list)]
  BY <1>4 DEF Range
<1>6. \A y \in Range(list) : \E i \in 1..n : list[i] = y
  BY <1>4 DEF Range
<1>7. ExistsBijection(1..n, Range(list))
  BY <1>4, <1>5, <1>6
     DEF ExistsBijection, Bijection, Injection, Surjection, IsInjective
<1>8. IsFiniteSet(1..n) /\ Cardinality(1..n) = n
  BY <1>1, FS_Interval
<1>9. Cardinality(Range(list)) = n
  BY <1>7, <1>8, FS_Bijection
<1> QED
  BY <1>1, <1>4, <1>5, <1>9, FS_Subset DEF list

\* What FlattenSeq makes of the first i sequences, given what it makes of fewer.
FlatStep(ss, f, i) == IF i = 1 THEN ss[i] ELSE f[i - 1] \o ss[i]
IsFlat(ss, m, f) == f = [i \in 1..m |-> FlatStep(ss, f, i)]

\* There is the function that FlattenSeq is defined by.
LEMMA FlatExists ==
  ASSUME NEW ss, NEW k \in Nat
  PROVE  \E f : IsFlat(ss, k, f)
<1> DEFINE P == {m \in Nat : \E f : IsFlat(ss, m, f)}
<1>1. 0 \in P
  <2>1. IsFlat(ss, 0, [i \in 1..0 |-> <<>>])
    BY DEF IsFlat
  <2> QED
    BY <2>1
<1>2. ASSUME NEW m \in Nat, m \in P PROVE m + 1 \in P
  <2>1. PICK f : IsFlat(ss, m, f)
    BY <1>2
  <2> DEFINE g == [i \in 1..(m + 1) |->
                     IF i = m + 1 THEN FlatStep(ss, f, i) ELSE f[i]]
  <2>2. ASSUME NEW i \in 1..(m + 1) PROVE g[i] = FlatStep(ss, g, i)
    <3>1. CASE i = 1
      BY <2>1, <3>1 DEF IsFlat, FlatStep
    <3>2. CASE i # 1
      <4>1. i - 1 \in 1..m /\ g[i - 1] = f[i - 1]
        BY <3>2
      <4>2. g[i] = FlatStep(ss, f, i)
        BY <2>1 DEF IsFlat
      <4> HIDE DEF g
      <4> QED
        BY <3>2, <4>1, <4>2 DEF FlatStep
    <3> QED
      BY <3>1, <3>2
  <2>3. IsFlat(ss, m + 1, g)
    <3>1. g = [i \in 1..(m + 1) |-> g[i]]
      OBVIOUS
    <3> HIDE DEF g
    <3> QED
      BY <2>2, <3>1 DEF IsFlat
  <2> QED
    BY <2>3
<1> HIDE DEF P
<1>3. Nat \subseteq P
  BY <1>1, <1>2, SetInduction
<1> QED
  BY <1>3 DEF P

\* Sequences over S put after one another are a sequence over S.
LEMMA Flattened ==
  ASSUME NEW S, NEW ss \in Seq(Seq(S))
  PROVE  FlattenSeq(ss) \in Seq(S)
<1> DEFINE f == CHOOSE g : IsFlat(ss, Len(ss), g)
<1>1. Len(ss) \in Nat /\ \A i \in 1..Len(ss) : ss[i] \in Seq(S)
  OBVIOUS
<1>2. IsFlat(ss, Len(ss), f)
  BY <1>1, FlatExists
<1>3. Len(ss) # 0 => FlattenSeq(ss) = f[Len(ss)]
  BY DEF FlattenSeq, IsFlat, FlatStep
<1> HIDE DEF f
<1> DEFINE P == {n \in Nat : n \in 1..Len(ss) => f[n] \in Seq(S)}
<1>4. 0 \in P
  OBVIOUS
<1>5. ASSUME NEW n \in Nat, n \in P PROVE n + 1 \in P
  <2> SUFFICES ASSUME n + 1 \in 1..Len(ss) PROVE f[n + 1] \in Seq(S)
    OBVIOUS
  <2>1. f[n + 1] = FlatStep(ss, f, n + 1)
    BY <1>2 DEF IsFlat
  <2>2. CASE n = 0
    BY <1>1, <2>1, <2>2 DEF FlatStep
  <2>3. CASE n # 0
    <3>1. n \in 1..Len(ss) /\ n + 1 # 1 /\ (n + 1) - 1 = n
      BY <1>1, <2>3
    <3>2. f[n] \in Seq(S) /\ ss[n + 1] \in Seq(S)
      BY <1>1, <1>5, <3>1
    <3>3. f[n + 1] = f[n] \o ss[n + 1]
      BY <2>1, <3>1 DEF FlatStep
    <3> QED
      BY <3>2, <3>3
  <2> QED
    BY <2>2, <2>3
<1>6. Nat \subseteq P
  <2> HIDE DEF P
  <2> QED
    BY <1>4, <1>5, SetInduction
<1>7. CASE Len(ss) = 0
  <2>1. ss = <<>>
    BY <1>7
  <2> QED
    BY <1>7, <2>1 DEF FlattenSeq
<1>8. CASE Len(ss) # 0
  <2>1. Len(ss) \in 1..Len(ss)
    BY <1>1, <1>8
  <2> QED
    BY <1>1, <1>3, <1>6, <1>8, <2>1
<1> QED
  BY <1>7, <1>8

\* One sequence more each time.
Runs(ss, f) ==
  /\ f[1] = ss[1]
  /\ \A i \in 1..(Len(ss) - 1) : f[i + 1] = f[i] \o ss[i + 1]

\* FlattenSeq puts one sequence after the other ...
LEMMA FlatRuns ==
  ASSUME NEW S, NEW ss \in Seq(Seq(S)), ss # <<>>
  PROVE  \E f : Runs(ss, f) /\ f[Len(ss)] = FlattenSeq(ss)
<1> DEFINE f == CHOOSE g : IsFlat(ss, Len(ss), g)
<1>1. Len(ss) \in Nat /\ Len(ss) # 0
  OBVIOUS
<1>2. IsFlat(ss, Len(ss), f)
  BY <1>1, FlatExists
<1>3. FlattenSeq(ss) = f[Len(ss)]
  BY <1>1 DEF FlattenSeq, IsFlat, FlatStep
<1> HIDE DEF f
<1>4. f[1] = ss[1]
  BY <1>1, <1>2 DEF IsFlat, FlatStep
<1>5. ASSUME NEW i \in 1..(Len(ss) - 1) PROVE f[i + 1] = f[i] \o ss[i + 1]
  <2>1. i + 1 \in 1..Len(ss) /\ i + 1 # 1 /\ (i + 1) - 1 = i
    BY <1>1
  <2>2. f[i + 1] = FlatStep(ss, f, i + 1)
    BY <1>2, <2>1 DEF IsFlat
  <2> QED
    BY <2>1, <2>2 DEF FlatStep
<1> QED
  BY <1>3, <1>4, <1>5 DEF Runs

\* ... and whatever does so gives the same.
LEMMA FlatOnce ==
  ASSUME NEW S, NEW ss \in Seq(Seq(S)), ss # <<>>, NEW f, Runs(ss, f)
  PROVE  f[Len(ss)] = FlattenSeq(ss)
<1>1. PICK g : Runs(ss, g) /\ g[Len(ss)] = FlattenSeq(ss)
  BY FlatRuns
<1> DEFINE P == {n \in Nat : n \in 1..Len(ss) => f[n] = g[n]}
<1>2. 0 \in P
  OBVIOUS
<1>3. ASSUME NEW n \in Nat, n \in P PROVE n + 1 \in P
  <2> SUFFICES ASSUME n + 1 \in 1..Len(ss) PROVE f[n + 1] = g[n + 1]
    OBVIOUS
  <2>1. CASE n = 0
    BY <1>1, <2>1 DEF Runs
  <2>2. CASE n # 0
    <3>1. n \in 1..Len(ss) /\ n \in 1..(Len(ss) - 1)
      BY <2>2
    <3> QED
      BY <1>1, <1>3, <3>1 DEF Runs
  <2> QED
    BY <2>1, <2>2
<1>4. Nat \subseteq P
  <2> HIDE DEF P
  <2> QED
    BY <1>2, <1>3, SetInduction
<1>5. Len(ss) \in Nat /\ Len(ss) \in 1..Len(ss)
  OBVIOUS
<1> QED
  BY <1>1, <1>4, <1>5

\* The sequences after one another are the first and the others after it ...
LEMMA FlatFirst ==
  ASSUME NEW S, NEW ss \in Seq(Seq(S)), ss # <<>>
  PROVE  FlattenSeq(ss) = ss[1] \o FlattenSeq(Tail(ss))
<1> DEFINE rest == Tail(ss)
<1>1. /\ rest \in Seq(Seq(S)) /\ Len(rest) = Len(ss) - 1 /\ Len(ss) \in Nat \ {0}
      /\ \A i \in 1..Len(rest) : rest[i] = ss[i + 1]
      /\ \A i \in 1..Len(ss) : ss[i] \in Seq(S)
  BY HeadTailProperties
<1> HIDE DEF rest
<1>4. \A x, y, z \in Seq(S) : (x \o y) \o z = x \o (y \o z)
  BY ConcatAssociative
<1>2. CASE rest = <<>>
  <2>1. Len(ss) = 1 /\ FlattenSeq(rest) = <<>>
    BY <1>1, <1>2 DEF FlattenSeq
  <2>2. PICK f : Runs(ss, f) /\ f[Len(ss)] = FlattenSeq(ss)
    BY FlatRuns
  <2>3. ss[1] \o <<>> = ss[1]
    BY <1>1, ConcatEmptySeq
  <2> QED
    BY <2>1, <2>2, <2>3 DEF Runs, rest
<1>3. CASE rest # <<>>
  <2>1. PICK g : Runs(rest, g) /\ g[Len(rest)] = FlattenSeq(rest)
    BY <1>1, <1>3, FlatRuns
  <2> DEFINE f == [i \in 1..Len(ss) |-> IF i = 1 THEN ss[1] ELSE ss[1] \o g[i - 1]]
             P == {n \in Nat : n \in 1..Len(rest) => g[n] \in Seq(S)}
  <2>2. Len(rest) \in Nat \ {0} /\ Len(ss) = Len(rest) + 1
    <3> HIDE DEF f, P
    <3>1. Len(rest) \in Nat /\ Len(rest) # 0
      BY <1>1, <1>3, EmptySeq
    <3> QED
      BY <1>1, <3>1
  <2>3. ASSUME NEW n \in Nat, n \in P PROVE n + 1 \in P
    <3> SUFFICES ASSUME n + 1 \in 1..Len(rest) PROVE g[n + 1] \in Seq(S)
      OBVIOUS
    <3>1. CASE n = 0
      BY <1>1, <2>1, <3>1 DEF Runs
    <3>2. CASE n # 0
      <4>1. n \in 1..Len(rest) /\ n \in 1..(Len(rest) - 1)
        BY <2>2, <3>2
      <4>2. g[n + 1] = g[n] \o rest[n + 1]
        BY <2>1, <4>1 DEF Runs
      <4>3. g[n] \in Seq(S) /\ rest[n + 1] \in Seq(S)
        BY <1>1, <2>3, <4>1
      <4> QED
        BY <4>2, <4>3
    <3> QED
      BY <3>1, <3>2
  <2>4. Nat \subseteq P
    <3>1. 0 \in P
      OBVIOUS
    <3> HIDE DEF P
    <3> QED
      BY <2>3, <3>1, SetInduction
  <2>5. \A i \in 1..Len(rest) : g[i] \in Seq(S)
    BY <2>2, <2>4
  <2>6. ASSUME NEW i \in 1..(Len(ss) - 1) PROVE f[i + 1] = f[i] \o ss[i + 1]
    <3>1. /\ i + 1 \in 1..Len(ss) /\ i \in 1..Len(ss) /\ i + 1 # 1 /\ (i + 1) - 1 = i
          /\ i \in 1..Len(rest)
      BY <2>2
    <3>2. f[i + 1] = ss[1] \o g[i]
      BY <3>1
    <3>3. CASE i = 1
      BY <1>1, <2>1, <3>1, <3>2, <3>3 DEF Runs
    <3>4. CASE i # 1
      <4>1. i - 1 \in 1..Len(rest) /\ i - 1 \in 1..(Len(rest) - 1) /\ (i - 1) + 1 = i
        BY <2>2, <3>4
      <4>2. g[i] = g[i - 1] \o rest[i]
        BY <2>1, <4>1 DEF Runs
      <4>3. f[i] = ss[1] \o g[i - 1]
        BY <3>1, <3>4
      <4>4. ss[1] \in Seq(S) /\ g[i - 1] \in Seq(S) /\ rest[i] \in Seq(S) /\ rest[i] = ss[i + 1]
        BY <1>1, <2>2, <2>5, <3>1, <4>1
      <4>5. (ss[1] \o g[i - 1]) \o rest[i] = ss[1] \o (g[i - 1] \o rest[i])
        BY Zenon, <1>4, <4>4
      <4> HIDE DEF f
      <4> QED
        BY <3>2, <4>2, <4>3, <4>4, <4>5
    <3> QED
      BY <3>3, <3>4
  <2>7. f[1] = ss[1] /\ f[Len(ss)] = ss[1] \o g[Len(rest)]
    <3>1. 1 \in 1..Len(ss) /\ Len(ss) \in 1..Len(ss) /\ Len(ss) # 1 /\ Len(ss) - 1 = Len(rest)
      BY <2>2
    <3> QED
      BY <3>1
  <2> HIDE DEF f
  <2>8. f[Len(ss)] = FlattenSeq(ss)
    BY <2>6, <2>7, FlatOnce DEF Runs
  <2> QED
    BY <2>1, <2>7, <2>8 DEF rest
<1> QED
  BY <1>2, <1>3

\* ... or the others and the last after them.
LEMMA FlatLast ==
  ASSUME NEW S, NEW ss \in Seq(Seq(S)), NEW s \in Seq(S)
  PROVE  FlattenSeq(Append(ss, s)) = FlattenSeq(ss) \o s
<1> DEFINE more == Append(ss, s)
<1>1. /\ more \in Seq(Seq(S)) /\ more # <<>> /\ Len(more) = Len(ss) + 1
      /\ \A i \in 1..Len(ss) : more[i] = ss[i]
      /\ more[Len(ss) + 1] = s /\ Len(ss) \in Nat
  BY AppendProperties
<1> HIDE DEF more
<1>2. CASE ss = <<>>
  <2>1. PICK f : Runs(more, f) /\ f[Len(more)] = FlattenSeq(more)
    BY <1>1, FlatRuns
  <2>2. FlattenSeq(ss) = <<>> /\ <<>> \o s = s
    BY <1>2, ConcatEmptySeq DEF FlattenSeq
  <2> QED
    BY <1>1, <1>2, <2>1, <2>2 DEF Runs, more
<1>3. CASE ss # <<>>
  <2>1. PICK g : Runs(ss, g) /\ g[Len(ss)] = FlattenSeq(ss)
    BY <1>3, FlatRuns
  <2> DEFINE f == [i \in 1..Len(more) |-> IF i = Len(more) THEN g[Len(ss)] \o s ELSE g[i]]
  <2>2. Len(ss) # 0 /\ 1 \in 1..Len(ss)
    BY <1>1, <1>3
  <2>3. f[1] = more[1] /\ f[Len(more)] = g[Len(ss)] \o s
    BY <1>1, <2>1, <2>2 DEF Runs
  <2>4. ASSUME NEW i \in 1..(Len(more) - 1) PROVE f[i + 1] = f[i] \o more[i + 1]
    <3>1. i \in 1..Len(ss) /\ f[i] = g[i]
      <4>1. i \in 1..Len(ss) /\ i \in 1..Len(more) /\ i # Len(more)
        BY <1>1
      <4> QED
        BY <4>1
    <3>2. CASE i = Len(ss)
      <4>1. i + 1 = Len(more)
        BY <1>1, <3>2
      <4> HIDE DEF f
      <4> QED
        BY <1>1, <2>3, <3>1, <3>2, <4>1
    <3>3. CASE i # Len(ss)
      <4>1. i \in 1..(Len(ss) - 1) /\ i + 1 \in 1..Len(ss) /\ f[i + 1] = g[i + 1]
        BY <1>1, <3>1, <3>3
      <4> HIDE DEF f
      <4> QED
        BY <1>1, <2>1, <3>1, <4>1 DEF Runs
    <3> QED
      BY <3>2, <3>3
  <2> HIDE DEF f
  <2>5. f[Len(more)] = FlattenSeq(more)
    BY <1>1, <2>3, <2>4, FlatOnce DEF Runs
  <2> QED
    BY <2>1, <2>3, <2>5 DEF more
<1> QED
  BY <1>2, <1>3

\* Each of the sequences is there, with something before it and after it.
Within(s, t, S) == \E a, b \in Seq(S) : t = (a \o s) \o b

LEMMA FlatPart ==
  ASSUME NEW S, NEW ss \in Seq(Seq(S)), NEW k \in DOMAIN ss
  PROVE  Within(ss[k], FlattenSeq(ss), S)
<1> DEFINE P == {n \in Nat : \A tt \in Seq(Seq(S)) :
                   n \in 1..Len(tt) => Within(tt[n], FlattenSeq(tt), S)}
<1>5. \A x, y, z \in Seq(S) : (x \o y) \o z = x \o (y \o z) /\ x \o y \in Seq(S)
  BY ConcatAssociative, ConcatProperties
<1>1. 0 \in P
  OBVIOUS
<1>2. ASSUME NEW n \in Nat, n \in P PROVE n + 1 \in P
  <2> SUFFICES ASSUME NEW tt \in Seq(Seq(S)), n + 1 \in 1..Len(tt)
               PROVE  Within(tt[n + 1], FlattenSeq(tt), S)
    OBVIOUS
  <2>1. tt # <<>> /\ Len(tt) \in Nat
    OBVIOUS
  <2>2. /\ FlattenSeq(tt) = tt[1] \o FlattenSeq(Tail(tt)) /\ Tail(tt) \in Seq(Seq(S))
        /\ tt[1] \in Seq(S) /\ FlattenSeq(Tail(tt)) \in Seq(S) /\ tt[n + 1] \in Seq(S)
    <3>1. Tail(tt) \in Seq(Seq(S))
      BY <2>1, HeadTailProperties
    <3>2. tt[1] \in Seq(S) /\ tt[n + 1] \in Seq(S)
      BY <2>1
    <3> QED
      BY <2>1, <3>1, <3>2, FlatFirst, Flattened
  <2>3. CASE n = 0
    <3>1. <<>> \in Seq(S) /\ <<>> \o tt[1] = tt[1]
      BY <2>2, ConcatEmptySeq
    <3>2. FlattenSeq(tt) = (<<>> \o tt[n + 1]) \o FlattenSeq(Tail(tt))
      BY <2>2, <2>3, <3>1
    <3> QED
      BY <2>2, <3>1, <3>2 DEF Within
  <2>4. CASE n # 0
    <3>1. n \in 1..Len(Tail(tt)) /\ Tail(tt)[n] = tt[n + 1]
      BY <2>1, <2>4, HeadTailProperties
    <3>2. Within(tt[n + 1], FlattenSeq(Tail(tt)), S)
      BY <1>2, <2>2, <3>1
    <3>3. PICK a \in Seq(S), b \in Seq(S) : FlattenSeq(Tail(tt)) = (a \o tt[n + 1]) \o b
      BY <3>2 DEF Within
    <3>4. PICK x \in Seq(S), y \in Seq(S) : x = tt[1] /\ y = tt[n + 1]
      BY <2>2
    <3>5. x \o ((a \o y) \o b) = ((x \o a) \o y) \o b /\ x \o a \in Seq(S)
      <4>1. x \o a \in Seq(S) /\ a \o y \in Seq(S) /\ x \o (a \o y) = (x \o a) \o y
        BY <1>5
      <4>2. x \o ((a \o y) \o b) = (x \o (a \o y)) \o b
        BY <1>5, <4>1
      <4> QED
        BY <4>1, <4>2
    <3> QED
      BY <2>2, <3>3, <3>4, <3>5 DEF Within
  <2> QED
    BY <2>3, <2>4
<1>3. Nat \subseteq P
  <2> HIDE DEF P
  <2> QED
    BY <1>1, <1>2, SetInduction
<1>4. k \in Nat /\ k \in 1..Len(ss)
  OBVIOUS
<1> QED
  BY <1>3, <1>4
=============================================================================
