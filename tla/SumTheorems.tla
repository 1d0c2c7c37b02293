---------------------------- MODULE SumTheorems ----------------------------
(***************************************************************************)
(* Sums over finite sets.  The quantities the tables keep up to date are   *)
(* compared with sums over the rows they summarize, so every proof about   *)
(* them needs to know what SumFunctionOnSet, a fold of the community       *)
(* modules, does when a row is added, removed or changed.                  *)
(***************************************************************************)
EXTENDS Integers, Functions, FiniteSetTheorems, TLAPS

\* Induction over finite sets, about a set of sets instead of a predicate: the
\* strict subset ordering is well-founded, so there is no smallest exception.
LEMMA SetInduction ==
  ASSUME NEW S, IsFiniteSet(S), NEW P,
         \A T \in SUBSET S : (\A x \in T : T \ {x} \in P) => T \in P
  PROVE  SUBSET S \subseteq P
<1> DEFINE Bad == (SUBSET S) \ P
<1>1. SUFFICES ASSUME Bad # {} PROVE FALSE
  OBVIOUS
<1>2. IsWellFoundedOn(StrictSubsetOrdering(S), FiniteSubsetsOf(S))
  BY FS_StrictSubsetOrderingWellFounded
<1>3. Bad \subseteq FiniteSubsetsOf(S)
  BY FS_FiniteSubsetsOfFinite
<1>4. PICK T \in Bad : \A U \in Bad : ~ (<<U, T>> \in StrictSubsetOrdering(S))
  <2> HIDE DEF Bad
  <2> QED BY <1>1, <1>2, <1>3, WFMin
<1>5. ASSUME NEW x \in T PROVE T \ {x} \in P
  <2>1. <<T \ {x}, T>> \in StrictSubsetOrdering(S)
    BY <1>4 DEF StrictSubsetOrdering
  <2> QED
    BY <1>4, <2>1
<1> QED
  BY <1>4, <1>5

-----------------------------------------------------------------------------
(* The recursive function the fold is made of *)

PickOf(s) == CHOOSE x \in s : TRUE

IsSum(g, f, S) ==
  g = [s \in SUBSET S |-> IF s = {} THEN 0 ELSE f[PickOf(s)] + g[s \ {PickOf(s)}]]

FoldOf(f, S) == (CHOOSE g : IsSum(g, f, S))[S]

\* SumFunctionOnSet is the value of that function.
LEMMA SumIsFold ==
  ASSUME NEW f, NEW S
  PROVE  SumFunctionOnSet(f, S) = FoldOf(f, S)
BY DEF SumFunctionOnSet, FoldFunctionOnSet, MapThenFoldSet, FoldOf, IsSum, PickOf

\* One for a set is one for its subsets.
LEMMA SumRestricts ==
  ASSUME NEW f, NEW S, NEW T \in SUBSET S, NEW g, IsSum(g, f, S)
  PROVE  IsSum([s \in SUBSET T |-> g[s]], f, T)
BY DEF IsSum, PickOf

\* Any two agree on the sets they are both about.
LEMMA SumUnique ==
  ASSUME NEW f, NEW S, IsFiniteSet(S), NEW g, IsSum(g, f, S), NEW h, IsSum(h, f, S)
  PROVE  \A s \in SUBSET S : g[s] = h[s]
<1> DEFINE P == {s \in SUBSET S : g[s] = h[s]}
<1>1. ASSUME NEW T \in SUBSET S, \A x \in T : T \ {x} \in P
      PROVE  T \in P
  <2>1. CASE T = {}
    BY <2>1 DEF IsSum
  <2>2. CASE T # {}
    <3>1. PickOf(T) \in T
      BY <2>2 DEF PickOf
    <3>2. g[T \ {PickOf(T)}] = h[T \ {PickOf(T)}]
      BY <1>1, <3>1
    <3>3. /\ g[T] = f[PickOf(T)] + g[T \ {PickOf(T)}]
          /\ h[T] = f[PickOf(T)] + h[T \ {PickOf(T)}]
      BY <2>2 DEF IsSum
    <3> QED
      BY <3>2, <3>3
  <2> QED
    BY <2>1, <2>2
<1>2. SUBSET S \subseteq P
  <2> HIDE DEF P
  <2> QED BY <1>1, SetInduction
<1> QED
  BY <1>2

\* Whatever the set, the value of one is FoldOf.
LEMMA SumIsFoldOf ==
  ASSUME NEW f, NEW S, IsFiniteSet(S), NEW g, IsSum(g, f, S), NEW T \in SUBSET S
  PROVE  g[T] = FoldOf(f, T)
<1> DEFINE r == [s \in SUBSET T |-> g[s]]
           c == CHOOSE q : IsSum(q, f, T)
<1>1. IsSum(r, f, T)
  BY SumRestricts
<1>2. IsSum(c, f, T)
  BY <1>1
<1>3. IsFiniteSet(T)
  BY FS_Subset
<1>4. r[T] = c[T]
  <2> HIDE DEF r, c
  <2> QED BY <1>1, <1>2, <1>3, SumUnique
<1> QED
  BY <1>4 DEF FoldOf

\* There is one for every finite set.
LEMMA SumExists ==
  ASSUME NEW f, NEW S, IsFiniteSet(S)
  PROVE  \E g : IsSum(g, f, S)
<1> DEFINE P == {T \in SUBSET S : \E g : IsSum(g, f, T)}
<1>1. ASSUME NEW T \in SUBSET S, \A x \in T : T \ {x} \in P
      PROVE  T \in P
  <2> DEFINE h == [s \in SUBSET T |->
                     IF s = {} THEN 0 ELSE f[PickOf(s)] + FoldOf(f, s \ {PickOf(s)})]
  <2>1. ASSUME NEW U \in SUBSET T, U # T
        PROVE  h[U] = FoldOf(f, U)
    <3>1. PICK x \in T : U \subseteq T \ {x}
      BY <2>1
    <3>2. PICK g : IsSum(g, f, T \ {x})
      BY <1>1
    <3>3. IsFiniteSet(T \ {x})
      BY FS_Subset
    <3>4. g[U] = FoldOf(f, U)
      BY <3>1, <3>2, <3>3, SumIsFoldOf
    <3>5. g[U \ {PickOf(U)}] = FoldOf(f, U \ {PickOf(U)})
      <4>1. U \ {PickOf(U)} \in SUBSET (T \ {x})
        BY <3>1
      <4> QED
        BY <4>1, <3>2, <3>3, SumIsFoldOf
    <3>6. g[U] = IF U = {} THEN 0 ELSE f[PickOf(U)] + g[U \ {PickOf(U)}]
      BY <3>1, <3>2 DEF IsSum
    <3> QED
      BY <3>4, <3>5, <3>6
  <2>2. ASSUME NEW s \in SUBSET T, s # {}
        PROVE  h[s \ {PickOf(s)}] = FoldOf(f, s \ {PickOf(s)})
    <3>1. PickOf(s) \in s
      BY <2>2 DEF PickOf
    <3> QED
      BY <3>1, <2>1
  <2>3. IsSum(h, f, T)
    BY <2>2 DEF IsSum
  <2> QED
    BY <2>3
<1>2. SUBSET S \subseteq P
  <2> HIDE DEF P
  <2> QED BY <1>1, SetInduction
<1> QED
  BY <1>2

-----------------------------------------------------------------------------
(* Sums *)

\* The sum of nothing, and of something: the recursion of the fold.
LEMMA SumUnfolds ==
  ASSUME NEW f, NEW S, IsFiniteSet(S)
  PROVE  SumFunctionOnSet(f, S) =
           IF S = {} THEN 0
           ELSE f[PickOf(S)] + SumFunctionOnSet(f, S \ {PickOf(S)})
<1>1. PICK g : IsSum(g, f, S)
  BY SumExists
<1>2. /\ g[S] = FoldOf(f, S)
      /\ g[S \ {PickOf(S)}] = FoldOf(f, S \ {PickOf(S)})
  <2>1. S \in SUBSET S /\ S \ {PickOf(S)} \in SUBSET S
    OBVIOUS
  <2> QED
    BY <1>1, <2>1, SumIsFoldOf
<1>3. g[S] = IF S = {} THEN 0 ELSE f[PickOf(S)] + g[S \ {PickOf(S)}]
  BY <1>1 DEF IsSum
<1> QED
  BY <1>2, <1>3, SumIsFold

LEMMA SumEmpty == \A f : SumFunctionOnSet(f, {}) = 0
BY SumUnfolds, FS_EmptySet

\* Sums of integers are integers; any element can be taken out of one.
LEMMA SumInt ==
  ASSUME NEW f, NEW S, IsFiniteSet(S), \A x \in S : f[x] \in Int
  PROVE  SumFunctionOnSet(f, S) \in Int
<1> DEFINE P == {T \in SUBSET S : SumFunctionOnSet(f, T) \in Int}
<1>1. ASSUME NEW T \in SUBSET S, \A x \in T : T \ {x} \in P
      PROVE  T \in P
  <2>1. IsFiniteSet(T)
    BY FS_Subset
  <2>2. T # {} => PickOf(T) \in T
    BY DEF PickOf
  <2>3. CASE T = {}
    BY <2>3, SumEmpty
  <2>4. CASE T # {}
    <3>1. SumFunctionOnSet(f, T) = f[PickOf(T)] + SumFunctionOnSet(f, T \ {PickOf(T)})
      BY <2>1, <2>4, SumUnfolds
    <3>2. f[PickOf(T)] \in Int /\ SumFunctionOnSet(f, T \ {PickOf(T)}) \in Int
      BY <1>1, <2>2, <2>4
    <3> QED
      BY <3>1, <3>2
  <2> QED
    BY <2>3, <2>4
<1>2. SUBSET S \subseteq P
  <2> HIDE DEF P
  <2> QED BY <1>1, SetInduction
<1> QED
  BY <1>2

LEMMA SumRemove ==
  ASSUME NEW f, NEW S, IsFiniteSet(S), \A x \in S : f[x] \in Int, NEW y \in S
  PROVE  SumFunctionOnSet(f, S) = f[y] + SumFunctionOnSet(f, S \ {y})
<1> DEFINE Sum(T) == SumFunctionOnSet(f, T)
           P == {T \in SUBSET S : \A x \in T : Sum(T) = f[x] + Sum(T \ {x})}
<1>1. ASSUME NEW T \in SUBSET S, \A x \in T : T \ {x} \in P
      PROVE  T \in P
  <2>1. SUFFICES ASSUME NEW x \in T PROVE Sum(T) = f[x] + Sum(T \ {x})
    OBVIOUS
  <2> DEFINE p == PickOf(T)
  <2>2. p \in T
    BY DEF PickOf
  <2>3. Sum(T) = f[p] + Sum(T \ {p})
    BY SumUnfolds, FS_Subset
  <2>4. CASE x = p
    BY <2>3, <2>4
  <2>5. CASE x # p
    <3>1. Sum(T \ {p}) = f[x] + Sum((T \ {p}) \ {x})
      BY <1>1, <2>2, <2>5
    <3>2. Sum(T \ {x}) = f[p] + Sum((T \ {x}) \ {p})
      BY <1>1, <2>2, <2>5
    <3>3. Sum((T \ {p}) \ {x}) = Sum((T \ {x}) \ {p})
      <4>1. (T \ {p}) \ {x} = (T \ {x}) \ {p}
        OBVIOUS
      <4> QED
        BY <4>1
    <3>4. Sum((T \ {p}) \ {x}) \in Int /\ f[x] \in Int /\ f[p] \in Int
      <4>1. (T \ {p}) \ {x} \in SUBSET S
        OBVIOUS
      <4> QED
        BY <4>1, <2>2, SumInt, FS_Subset
    <3> HIDE DEF p, Sum
    <3> QED
      BY <2>3, <3>1, <3>2, <3>3, <3>4
  <2> QED
    BY <2>4, <2>5
<1>2. SUBSET S \subseteq P
  <2> HIDE DEF P
  <2> QED BY <1>1, SetInduction
<1> QED
  BY <1>2
\* Adding an element.
LEMMA SumAdd ==
  ASSUME NEW f, NEW S, IsFiniteSet(S), NEW y, y \notin S, \A x \in S \cup {y} : f[x] \in Int
  PROVE  SumFunctionOnSet(f, S \cup {y}) = f[y] + SumFunctionOnSet(f, S)
<1>1. IsFiniteSet(S \cup {y})
  BY FS_AddElement
<1>2. (S \cup {y}) \ {y} = S
  OBVIOUS
<1> QED
  BY <1>1, <1>2, SumRemove

\* Sums of terms that are the same, or at least as large.
LEMMA SumEqual ==
  ASSUME NEW f, NEW g, NEW S, IsFiniteSet(S), \A x \in S : f[x] = g[x]
  PROVE  SumFunctionOnSet(f, S) = SumFunctionOnSet(g, S)
<1> DEFINE P == {T \in SUBSET S : SumFunctionOnSet(f, T) = SumFunctionOnSet(g, T)}
<1>1. ASSUME NEW T \in SUBSET S, \A x \in T : T \ {x} \in P
      PROVE  T \in P
  <2>1. IsFiniteSet(T)
    BY FS_Subset
  <2>2. CASE T = {}
    BY <2>2, SumEmpty
  <2>3. CASE T # {}
    <3>1. PickOf(T) \in T
      BY <2>3 DEF PickOf
    <3>2. f[PickOf(T)] = g[PickOf(T)]
      BY <3>1
    <3>3. SumFunctionOnSet(f, T \ {PickOf(T)}) = SumFunctionOnSet(g, T \ {PickOf(T)})
      BY <1>1, <3>1
    <3> QED
      BY <2>1, <2>3, <3>2, <3>3, SumUnfolds
  <2> QED
    BY <2>2, <2>3
<1>2. SUBSET S \subseteq P
  <2> HIDE DEF P
  <2> QED BY <1>1, SetInduction
<1> QED
  BY <1>2

LEMMA SumMonotone ==
  ASSUME NEW f, NEW g, NEW S, IsFiniteSet(S),
         \A x \in S : f[x] \in Int /\ g[x] \in Int /\ f[x] <= g[x]
  PROVE  SumFunctionOnSet(f, S) <= SumFunctionOnSet(g, S)
<1> DEFINE P == {T \in SUBSET S : SumFunctionOnSet(f, T) <= SumFunctionOnSet(g, T)}
<1>1. ASSUME NEW T \in SUBSET S, \A x \in T : T \ {x} \in P
      PROVE  T \in P
  <2>1. IsFiniteSet(T)
    BY FS_Subset
  <2>2. CASE T = {}
    BY <2>2, SumEmpty
  <2>3. ASSUME NEW x \in T
        PROVE  T \in P
    <3>1. /\ SumFunctionOnSet(f, T) = f[x] + SumFunctionOnSet(f, T \ {x})
          /\ SumFunctionOnSet(g, T) = g[x] + SumFunctionOnSet(g, T \ {x})
      BY <2>1, SumRemove
    <3>2. IsFiniteSet(T \ {x})
      BY <2>1, FS_RemoveElement
    <3>3. SumFunctionOnSet(f, T \ {x}) \in Int /\ SumFunctionOnSet(g, T \ {x}) \in Int
      BY <3>2, SumInt
    <3>4. SumFunctionOnSet(f, T \ {x}) <= SumFunctionOnSet(g, T \ {x})
      BY <1>1
    <3>5. f[x] \in Int /\ g[x] \in Int /\ f[x] <= g[x]
      OBVIOUS
    <3> QED
      BY <3>1, <3>3, <3>4, <3>5
  <2> QED
    BY <2>2, <2>3
<1>2. SUBSET S \subseteq P
  <2> HIDE DEF P
  <2> QED BY <1>1, SetInduction
<1> QED
  BY <1>2

\* The sum of sums.
LEMMA SumPlus ==
  ASSUME NEW f, NEW g, NEW h, NEW S, IsFiniteSet(S),
         \A x \in S : f[x] \in Int /\ g[x] \in Int /\ h[x] = f[x] + g[x]
  PROVE  SumFunctionOnSet(h, S) = SumFunctionOnSet(f, S) + SumFunctionOnSet(g, S)
<1> DEFINE P == {T \in SUBSET S :
                   SumFunctionOnSet(h, T) = SumFunctionOnSet(f, T) + SumFunctionOnSet(g, T)}
<1>1. ASSUME NEW T \in SUBSET S, \A x \in T : T \ {x} \in P
      PROVE  T \in P
  <2>1. IsFiniteSet(T)
    BY FS_Subset
  <2>2. CASE T = {}
    BY <2>2, SumEmpty
  <2>3. ASSUME NEW x \in T
        PROVE  T \in P
    <3>1. /\ SumFunctionOnSet(f, T) = f[x] + SumFunctionOnSet(f, T \ {x})
          /\ SumFunctionOnSet(g, T) = g[x] + SumFunctionOnSet(g, T \ {x})
          /\ SumFunctionOnSet(h, T) = h[x] + SumFunctionOnSet(h, T \ {x})
      BY <2>1, SumRemove
    <3>2. IsFiniteSet(T \ {x})
      BY <2>1, FS_RemoveElement
    <3>3. SumFunctionOnSet(f, T \ {x}) \in Int /\ SumFunctionOnSet(g, T \ {x}) \in Int
      BY <3>2, SumInt
    <3>4. SumFunctionOnSet(h, T \ {x}) =
            SumFunctionOnSet(f, T \ {x}) + SumFunctionOnSet(g, T \ {x})
      BY <1>1
    <3>5. f[x] \in Int /\ g[x] \in Int /\ h[x] = f[x] + g[x]
      OBVIOUS
    <3> QED
      BY <3>1, <3>3, <3>4, <3>5
  <2> QED
    BY <2>2, <2>3
<1>2. SUBSET S \subseteq P
  <2> HIDE DEF P
  <2> QED BY <1>1, SetInduction
<1> QED
  BY <1>2

-----------------------------------------------------------------------------
(* What the proofs about the tables cite *)

\* One term changes.
LEMMA SumChange ==
  ASSUME NEW f, NEW g, NEW S, IsFiniteSet(S), NEW y \in S,
         \A x \in S : f[x] \in Int /\ g[x] \in Int,
         \A x \in S \ {y} : f[x] = g[x]
  PROVE  SumFunctionOnSet(g, S) = SumFunctionOnSet(f, S) - f[y] + g[y]
<1>1. IsFiniteSet(S \ {y})
  BY FS_RemoveElement
<1>2. SumFunctionOnSet(f, S \ {y}) = SumFunctionOnSet(g, S \ {y})
  BY <1>1, SumEqual
<1>3. SumFunctionOnSet(f, S \ {y}) \in Int
  BY <1>1, SumInt
<1>4. /\ SumFunctionOnSet(f, S) = f[y] + SumFunctionOnSet(f, S \ {y})
      /\ SumFunctionOnSet(g, S) = g[y] + SumFunctionOnSet(g, S \ {y})
  BY SumRemove
<1> QED
  BY <1>2, <1>3, <1>4

\* No term of a sum of naturals exceeds it, nor does the sum over a subset.
LEMMA SumNat ==
  ASSUME NEW f, NEW S, IsFiniteSet(S), \A x \in S : f[x] \in Nat
  PROVE  /\ SumFunctionOnSet(f, S) \in Nat
         /\ \A x \in S : f[x] <= SumFunctionOnSet(f, S)
<1>1. ASSUME NEW T \in SUBSET S
      PROVE  SumFunctionOnSet(f, T) \in Nat
  <2> DEFINE zero == [x \in T |-> 0]
  <2>1. IsFiniteSet(T)
    BY FS_Subset
  <2>2. \A x \in T : zero[x] \in Int /\ f[x] \in Int /\ zero[x] <= f[x]
    OBVIOUS
  <2>3. SumFunctionOnSet(zero, T) <= SumFunctionOnSet(f, T)
    <3> HIDE DEF zero
    <3> QED BY <2>1, <2>2, SumMonotone
  <2>4. SumFunctionOnSet(zero, T) = SumFunctionOnSet(zero, T) + SumFunctionOnSet(zero, T)
    <3>1. \A x \in T : zero[x] \in Int /\ zero[x] = zero[x] + zero[x]
      OBVIOUS
    <3> HIDE DEF zero
    <3> QED BY <2>1, <3>1, SumPlus
  <2>5. SumFunctionOnSet(zero, T) \in Int /\ SumFunctionOnSet(f, T) \in Int
    <3> HIDE DEF zero
    <3> QED BY <2>1, <2>2, SumInt
  <2> HIDE DEF zero
  <2> QED
    BY <2>3, <2>4, <2>5
<1>2. ASSUME NEW x \in S
      PROVE  f[x] <= SumFunctionOnSet(f, S)
  <2>1. SumFunctionOnSet(f, S) = f[x] + SumFunctionOnSet(f, S \ {x})
    BY SumRemove
  <2>2. SumFunctionOnSet(f, S \ {x}) \in Nat
    BY <1>1
  <2>3. f[x] \in Nat
    OBVIOUS
  <2> QED
    BY <2>1, <2>2, <2>3
<1> QED
  BY <1>1, <1>2

LEMMA SumZero ==
  ASSUME NEW f, NEW S, IsFiniteSet(S), \A x \in S : f[x] = 0
  PROVE  SumFunctionOnSet(f, S) = 0
<1>1. SumFunctionOnSet(f, S) = SumFunctionOnSet(f, S) + SumFunctionOnSet(f, S)
  BY SumPlus
<1>2. SumFunctionOnSet(f, S) \in Int
  BY SumInt
<1>3. \A n \in Int : n = n + n => n = 0
  OBVIOUS
<1> QED
  BY <1>1, <1>2, <1>3

\* Terms outside a subset that are zero do not count.
LEMMA SumSubset ==
  ASSUME NEW f, NEW S, IsFiniteSet(S), NEW T \in SUBSET S,
         \A x \in S : f[x] \in Int, \A x \in S \ T : f[x] = 0
  PROVE  SumFunctionOnSet(f, T) = SumFunctionOnSet(f, S)
<1> DEFINE P == {U \in SUBSET S :
                   SumFunctionOnSet(f, U \cap T) = SumFunctionOnSet(f, U)}
<1>1. ASSUME NEW U \in SUBSET S, \A x \in U : U \ {x} \in P
      PROVE  U \in P
  <2>1. IsFiniteSet(U) /\ IsFiniteSet(U \cap T)
    <3>1. U \cap T \in SUBSET S
      OBVIOUS
    <3> QED BY <3>1, FS_Subset
  <2>2. CASE U = {}
    <3>1. U \cap T = U
      BY <2>2
    <3> QED BY <3>1
  <2>3. ASSUME NEW x \in U
        PROVE  U \in P
    <3>1. SumFunctionOnSet(f, U) = f[x] + SumFunctionOnSet(f, U \ {x})
      BY <2>1, SumRemove
    <3>2. SumFunctionOnSet(f, (U \ {x}) \cap T) = SumFunctionOnSet(f, U \ {x})
      BY <1>1
    <3>3. CASE x \in T
      <4>1. SumFunctionOnSet(f, U \cap T) = f[x] + SumFunctionOnSet(f, (U \cap T) \ {x})
        BY <2>1, <3>3, SumRemove
      <4>2. (U \cap T) \ {x} = (U \ {x}) \cap T
        OBVIOUS
      <4> QED
        BY <3>1, <3>2, <4>1, <4>2
    <3>4. CASE x \notin T
      <4>1. U \cap T = (U \ {x}) \cap T
        BY <3>4
      <4>2. SumFunctionOnSet(f, U \ {x}) \in Int
        BY <2>1, FS_RemoveElement, SumInt
      <4>3. f[x] = 0
        BY <3>4
      <4>4. SumFunctionOnSet(f, U) = SumFunctionOnSet(f, U \ {x})
        BY <3>1, <4>2, <4>3
      <4> QED
        BY <3>2, <4>1, <4>4
    <3> QED
      BY <3>3, <3>4
  <2> QED
    BY <2>2, <2>3
<1>2. SUBSET S \subseteq P
  <2> HIDE DEF P
  <2> QED BY <1>1, SetInduction
<1>3. S \cap T = T
  OBVIOUS
<1> QED
  BY <1>2, <1>3

\* The sum of a function of two elements, of none and of one.
LEMMA SumTwo ==
  ASSUME NEW f, DOMAIN f = {1, 2}, f[1] \in Int, f[2] \in Int
  PROVE  SumFunction(f) = f[1] + f[2]
<1>1. SumFunction(f) = SumFunctionOnSet(f, {1} \cup {2})
  BY DEF SumFunction
<1>2. SumFunctionOnSet(f, {} \cup {1}) = f[1] + SumFunctionOnSet(f, {})
  <2>1. IsFiniteSet({}) /\ 1 \notin {} /\ \A x \in {} \cup {1} : f[x] \in Int
    BY FS_EmptySet
  <2> QED
    BY <2>1, SumAdd
<1>3. SumFunctionOnSet(f, {1} \cup {2}) = f[2] + SumFunctionOnSet(f, {1})
  <2>1. IsFiniteSet({1}) /\ 2 \notin {1} /\ \A x \in {1} \cup {2} : f[x] \in Int
    BY FS_Singleton
  <2> QED
    BY <2>1, SumAdd
<1>4. {1} = {} \cup {1}
  OBVIOUS
<1>5. SumFunctionOnSet(f, {}) = 0
  BY SumEmpty
<1>6. SumFunctionOnSet(f, {1}) = f[1]
  BY <1>2, <1>4, <1>5
<1>7. SumFunction(f) = f[2] + f[1]
  BY <1>1, <1>3, <1>6, Zenon
<1> QED
  BY <1>7

LEMMA SumNone ==
  ASSUME NEW f, DOMAIN f = {}
  PROVE  SumFunction(f) = 0
  BY SumEmpty DEF SumFunction

LEMMA SumOne ==
  ASSUME NEW x, NEW f, DOMAIN f = {x}, f[x] \in Int
  PROVE  SumFunction(f) = f[x]
<1>1. SumFunctionOnSet(f, {} \cup {x}) = f[x] + SumFunctionOnSet(f, {})
  <2>1. IsFiniteSet({}) /\ x \notin {} /\ \A y \in {} \cup {x} : f[y] \in Int
    BY FS_EmptySet
  <2> QED
    BY <2>1, SumAdd
<1>2. SumFunction(f) = f[x] + SumFunctionOnSet(f, {})
  <2>1. DOMAIN f = {} \cup {x}
    OBVIOUS
  <2> QED
    BY <1>1, <2>1 DEF SumFunction
<1>3. SumFunctionOnSet(f, {}) = 0
  BY SumEmpty
<1> QED
  BY <1>2, <1>3
=============================================================================
