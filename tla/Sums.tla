-------------------------------- MODULE Sums --------------------------------
(***************************************************************************)
(* Sums over finite sets, for the proofs about money.  MapThenSumSet of    *)
(* the community modules is a recursive function on the subsets of a set;  *)
(* that this function exists, and that its order of summation does not     *)
(* matter, is proved here once, by induction on finite sets in a form      *)
(* without operator parameters (SubsetInduction).  The facts to cite are   *)
(* TotalEmpty, TotalNothing, TotalType, TotalIsInt, TotalTakes,            *)
(* TotalRemove, TotalAdd, TotalUnion, TotalGrows, TotalAtMost,             *)
(* TotalOneMore, TotalExtended and TotalSame.                              *)
(***************************************************************************)
EXTENDS Integers, FiniteSets, FiniteSetsExt, FiniteSetTheorems, TLAPS

\* The sum of w over S, as MapThenSumSet computes it.
Total(w, S) == MapThenSumSet(LAMBDA x : w[x], S)

-----------------------------------------------------------------------------
\* What holds of a finite set as soon as it holds of its proper subsets.
LEMMA SubsetInduction ==
  ASSUME NEW S, IsFiniteSet(S), NEW Good,
         \A T \in SUBSET S : (\A U \in SUBSET T : U # T => U \in Good) => T \in Good
  PROVE  \A T \in SUBSET S : T \in Good
<1> DEFINE Bad == {T \in SUBSET S : T \notin Good}
<1>1. IsWellFoundedOn(StrictSubsetOrdering(S), SUBSET S)
  BY FS_StrictSubsetOrderingWellFounded, FS_FiniteSubsetsOfFinite
<1>2. Bad \subseteq SUBSET S
  OBVIOUS
<1> SUFFICES ASSUME Bad # {} PROVE FALSE
  OBVIOUS
<1> HIDE DEF Bad
<1>3. PICK T \in Bad : \A U \in Bad : <<U, T>> \notin StrictSubsetOrdering(S)
  BY <1>1, <1>2, WFMin
<1>4. ASSUME NEW U \in SUBSET T, U # T PROVE U \in Good
  <2>1. U \in SUBSET S /\ T \in SUBSET S
    BY <1>2, <1>4
  <2>2. <<U, T>> \in StrictSubsetOrdering(S)
    BY <1>4, <2>1 DEF StrictSubsetOrdering
  <2> QED
    BY <1>3, <2>1, <2>2 DEF Bad
<1> QED
  BY <1>4 DEF Bad

\* The function that MapThenSumSet chooses.
Pick(s) == CHOOSE x \in s : TRUE

AddPick(w, g, s) == IF s = {} THEN 0 ELSE w[Pick(s)] + g[s \ {Pick(s)}]

IsSum(w, S, g) == g = [s \in SUBSET S |-> AddPick(w, g, s)]

LEMMA TotalUnfolds ==
  ASSUME NEW w, NEW S
  PROVE  Total(w, S) = (CHOOSE g : IsSum(w, S, g))[S]
  BY DEF Total, MapThenSumSet, MapThenFoldSet, IsSum, AddPick, Pick

\* Two such functions agree where both are defined.
LEMMA SumsAgree ==
  ASSUME NEW w, NEW S, IsFiniteSet(S), NEW T \in SUBSET S, NEW g, NEW h,
         IsSum(w, S, g), IsSum(w, T, h)
  PROVE  g[T] = h[T]
<1> DEFINE Good == {s \in SUBSET T : g[s] = h[s]}
<1>1. IsFiniteSet(T)
  BY FS_Subset
<1>2. ASSUME NEW s \in SUBSET T, \A u \in SUBSET s : u # s => u \in Good PROVE s \in Good
  <2>1. g[s] = AddPick(w, g, s) /\ h[s] = AddPick(w, h, s)
    BY DEF IsSum
  <2>2. CASE s = {}
    BY <2>1, <2>2 DEF AddPick
  <2>3. CASE s # {}
    <3>1. Pick(s) \in s
      BY <2>3 DEF Pick
    <3>2. s \ {Pick(s)} \in Good
      BY <1>2, <3>1
    <3> QED
      BY <2>1, <2>3, <3>2 DEF AddPick
  <2> QED
    BY <2>2, <2>3
<1> HIDE DEF Good
<1>3. \A s \in SUBSET T : s \in Good
  BY <1>1, <1>2, SubsetInduction
<1> QED
  BY <1>3 DEF Good

\* There is one for every finite set.
LEMMA SumExists ==
  ASSUME NEW w, NEW S, IsFiniteSet(S)
  PROVE  IsSum(w, S, CHOOSE g : IsSum(w, S, g))
<1> DEFINE G(T) == CHOOSE g : IsSum(w, T, g)
           Good == {T \in SUBSET S : \E g : IsSum(w, T, g)}
<1>1. ASSUME NEW T \in SUBSET S, \A U \in SUBSET T : U # T => U \in Good PROVE T \in Good
  <2>1. \A U \in SUBSET T : U # T => IsSum(w, U, G(U)) /\ IsFiniteSet(U)
    BY <1>1, FS_Subset
  <2> HIDE DEF G
  <2> DEFINE h == [s \in SUBSET T |-> IF s = {} THEN 0 ELSE w[Pick(s)] + G(s \ {Pick(s)})[s \ {Pick(s)}]]
  <2>2. ASSUME NEW s \in SUBSET T, s # {} PROVE h[s \ {Pick(s)}] = G(s \ {Pick(s)})[s \ {Pick(s)}]
    <3> DEFINE U == s \ {Pick(s)}
    <3>1. Pick(s) \in s
      BY <2>2 DEF Pick
    <3>2. U \in SUBSET T /\ U # T
      BY <3>1
    <3> HIDE DEF U
    <3>3. G(U)[U] = AddPick(w, G(U), U)
      BY <2>1, <3>2 DEF IsSum
    <3>4. CASE U = {}
      BY <3>2, <3>3, <3>4 DEF AddPick, U
    <3>5. CASE U # {}
      <4> DEFINE V == U \ {Pick(U)}
      <4>1. Pick(U) \in U
        BY <3>5 DEF Pick
      <4>2. V \in SUBSET U /\ V \in SUBSET T /\ V # T
        BY <3>2, <4>1
      <4> HIDE DEF V
      <4>3. G(U)[V] = G(V)[V]
        BY <2>1, <3>2, <4>2, SumsAgree
      <4>4. h[U] = w[Pick(U)] + G(V)[V]
        BY <3>2, <3>5 DEF V
      <4>5. G(U)[U] = w[Pick(U)] + G(U)[V]
        BY <3>3, <3>5 DEF AddPick, V
      <4> QED
        BY <4>3, <4>4, <4>5 DEF U
    <3> QED
      BY <3>4, <3>5
  <2>3. ASSUME NEW s \in SUBSET T PROVE h[s] = AddPick(w, h, s)
    <3>1. CASE s = {}
      BY <3>1 DEF AddPick
    <3>2. CASE s # {}
      <4>1. h[s] = w[Pick(s)] + G(s \ {Pick(s)})[s \ {Pick(s)}]
        BY <3>2
      <4> HIDE DEF h
      <4> QED
        BY <2>2, <3>2, <4>1 DEF AddPick
    <3> QED
      BY <3>1, <3>2
  <2>4. h = [s \in SUBSET T |-> h[s]]
    OBVIOUS
  <2> HIDE DEF h
  <2>5. IsSum(w, T, h)
    BY <2>3, <2>4 DEF IsSum
  <2> QED
    BY <2>5
<1> HIDE DEF Good
<1>2. \A T \in SUBSET S : T \in Good
  BY <1>1, SubsetInduction
<1> QED
  BY <1>2 DEF Good

-----------------------------------------------------------------------------
\* Nothing adds up to nothing.
LEMMA TotalEmpty == ASSUME NEW w PROVE Total(w, {}) = 0
<1> DEFINE g == CHOOSE g : IsSum(w, {}, g)
<1>1. IsSum(w, {}, g)
  BY SumExists, FS_EmptySet
<1>2. Total(w, {}) = g[{}]
  BY TotalUnfolds
<1> HIDE DEF g
<1>3. g[{}] = AddPick(w, g, {})
  BY <1>1 DEF IsSum
<1> QED
  BY <1>2, <1>3 DEF AddPick

\* The element that the sum picks, and the others.
LEMMA TotalPick ==
  ASSUME NEW w, NEW S, IsFiniteSet(S), S # {}
  PROVE  Pick(S) \in S /\ Total(w, S) = w[Pick(S)] + Total(w, S \ {Pick(S)})
<1> DEFINE G(T) == CHOOSE g : IsSum(w, T, g)
           U == S \ {Pick(S)}
<1>1. Pick(S) \in S
  BY DEF Pick
<1>2. IsFiniteSet(U) /\ U \in SUBSET S
  BY FS_Subset
<1>3. IsSum(w, S, G(S)) /\ IsSum(w, U, G(U))
  BY <1>2, SumExists
<1>4. Total(w, S) = G(S)[S] /\ Total(w, U) = G(U)[U]
  BY TotalUnfolds
<1> HIDE DEF G, U
<1>5. G(S)[U] = G(U)[U]
  BY <1>2, <1>3, SumsAgree
<1>6. G(S)[S] = AddPick(w, G(S), S)
  BY <1>3 DEF IsSum
<1> QED
  BY <1>1, <1>4, <1>5, <1>6 DEF AddPick, U

\* A sum of integers is one, and one of naturals is natural.
LEMMA TotalIn ==
  ASSUME NEW S, IsFiniteSet(S), NEW N \in {Nat, Int}, NEW w, \A x \in S : w[x] \in N
  PROVE  \A T \in SUBSET S : Total(w, T) \in N
<1> DEFINE Good == {T \in SUBSET S : Total(w, T) \in N}
<1>1. ASSUME NEW T \in SUBSET S, \A U \in SUBSET T : U # T => U \in Good PROVE T \in Good
  <2>1. CASE T = {}
    BY <2>1, TotalEmpty
  <2>2. CASE T # {}
    <3>1. IsFiniteSet(T)
      BY FS_Subset
    <3>2. Pick(T) \in T /\ Total(w, T) = w[Pick(T)] + Total(w, T \ {Pick(T)})
      BY <2>2, <3>1, TotalPick
    <3>3. T \ {Pick(T)} \in Good
      BY <1>1, <3>2
    <3>4. w[Pick(T)] \in N /\ Total(w, T \ {Pick(T)}) \in N
      BY <3>2, <3>3
    <3> QED
      BY <3>2, <3>4
  <2> QED
    BY <2>1, <2>2
<1> HIDE DEF Good
<1>2. \A T \in SUBSET S : T \in Good
  BY <1>1, SubsetInduction
<1> QED
  BY <1>2 DEF Good

LEMMA TotalType ==
  ASSUME NEW S, IsFiniteSet(S), NEW w \in [S -> Nat]
  PROVE  \A T \in SUBSET S : Total(w, T) \in Nat
  BY TotalIn

LEMMA TotalIsInt ==
  ASSUME NEW S, IsFiniteSet(S), NEW w, \A x \in S : w[x] \in Int
  PROVE  \A T \in SUBSET S : Total(w, T) \in Int
  BY TotalIn

\* Any element may be taken first.
LEMMA TotalTakes ==
  ASSUME NEW S, IsFiniteSet(S), NEW w \in [S -> Int]
  PROVE  \A T \in SUBSET S : \A x \in T : Total(w, T) = w[x] + Total(w, T \ {x})
<1> DEFINE Good == {T \in SUBSET S : \A x \in T : Total(w, T) = w[x] + Total(w, T \ {x})}
<1>1. ASSUME NEW T \in SUBSET S, \A U \in SUBSET T : U # T => U \in Good PROVE T \in Good
  <2> SUFFICES ASSUME NEW x \in T PROVE Total(w, T) = w[x] + Total(w, T \ {x})
    OBVIOUS
  <2> DEFINE p == Pick(T)
  <2>1. IsFiniteSet(T) /\ T # {}
    BY FS_Subset
  <2>2. p \in T /\ Total(w, T) = w[p] + Total(w, T \ {p})
    BY <2>1, TotalPick
  <2> HIDE DEF p
  <2>3. CASE x = p
    BY <2>2, <2>3
  <2>4. CASE x # p
    <3>1. T \ {p} \in Good /\ T \ {x} \in Good
      BY <1>1, <2>2
    <3>2. Total(w, T \ {p}) = w[x] + Total(w, (T \ {p}) \ {x})
      BY <2>4, <3>1
    <3>3. Total(w, T \ {x}) = w[p] + Total(w, (T \ {x}) \ {p})
      BY <2>2, <2>4, <3>1
    <3>4. (T \ {p}) \ {x} = (T \ {x}) \ {p}
      OBVIOUS
    <3> DEFINE rest == Total(w, (T \ {x}) \ {p})
    <3>5. rest \in Int /\ w[x] \in Int /\ w[p] \in Int
      BY <2>2, TotalIsInt
    <3> HIDE DEF rest
    <3>6. Total(w, T \ {p}) = w[x] + rest /\ Total(w, T \ {x}) = w[p] + rest
      BY <3>2, <3>3, <3>4 DEF rest
    <3> QED
      BY <2>2, <3>5, <3>6
  <2> QED
    BY <2>3, <2>4
<1> HIDE DEF Good
<1>2. \A T \in SUBSET S : T \in Good
  BY <1>1, SubsetInduction
<1> QED
  BY <1>2 DEF Good

LEMMA TotalRemove ==
  ASSUME NEW S, IsFiniteSet(S), NEW w \in [S -> Nat]
  PROVE  \A T \in SUBSET S : \A x \in T : Total(w, T) = w[x] + Total(w, T \ {x})
<1> SUFFICES ASSUME NEW T \in SUBSET S, NEW x \in T PROVE Total(w, T) = w[x] + Total(w, T \ {x})
  OBVIOUS
<1>1. w \in [S -> Int]
  OBVIOUS
<1> QED
  BY <1>1, TotalTakes

\* One element more adds its weight.
LEMMA TotalAdd ==
  ASSUME NEW S, IsFiniteSet(S), NEW w \in [S -> Nat], NEW T \in SUBSET S, NEW x \in S, x \notin T
  PROVE  Total(w, T \cup {x}) = Total(w, T) + w[x] /\ Total(w, T) \in Nat /\ w[x] \in Nat
<1>1. T \cup {x} \in SUBSET S /\ (T \cup {x}) \ {x} = T
  OBVIOUS
<1>2. Total(w, T \cup {x}) = w[x] + Total(w, T)
  BY <1>1, TotalRemove
<1>3. Total(w, T) \in Nat /\ w[x] \in Nat
  BY TotalType
<1> QED
  BY <1>2, <1>3

\* More elements, no less in all.
LEMMA TotalGrows ==
  ASSUME NEW S, IsFiniteSet(S), NEW w \in [S -> Nat], NEW U \in SUBSET S
  PROVE  \A T \in SUBSET U : Total(w, T) <= Total(w, U)
<1> SUFFICES ASSUME NEW T \in SUBSET U PROVE Total(w, T) <= Total(w, U)
  OBVIOUS
<1> DEFINE Good == {V \in SUBSET S : T \subseteq V => Total(w, T) <= Total(w, V)}
<1>1. ASSUME NEW V \in SUBSET S, \A X \in SUBSET V : X # V => X \in Good PROVE V \in Good
  <2> SUFFICES ASSUME T \subseteq V PROVE Total(w, T) <= Total(w, V)
    OBVIOUS
  <2>1. CASE T = V
    BY <2>1, TotalType
  <2>2. CASE T # V
    <3>1. PICK x \in V : x \notin T
      BY <2>2
    <3>2. V \ {x} \in Good /\ T \subseteq V \ {x}
      BY <1>1, <3>1
    <3>3. Total(w, V) = w[x] + Total(w, V \ {x}) /\ Total(w, V \ {x}) \in Nat /\ w[x] \in Nat
      BY TotalRemove, TotalType
    <3>4. Total(w, T) <= Total(w, V \ {x}) /\ Total(w, T) \in Nat
      BY <3>2, TotalType
    <3> QED
      BY <3>3, <3>4
  <2> QED
    BY <2>1, <2>2
<1> HIDE DEF Good
<1>2. U \in Good
  BY <1>1, SubsetInduction
<1> QED
  BY <1>2 DEF Good

\* Weights that agree on a set have the same sum.
LEMMA TotalSame ==
  ASSUME NEW S, IsFiniteSet(S), NEW w, NEW v, \A x \in S : w[x] = v[x]
  PROVE  Total(w, S) = Total(v, S)
<1> DEFINE Good == {T \in SUBSET S : Total(w, T) = Total(v, T)}
<1>1. ASSUME NEW T \in SUBSET S, \A U \in SUBSET T : U # T => U \in Good PROVE T \in Good
  <2>1. CASE T = {}
    BY <2>1, TotalEmpty
  <2>2. CASE T # {}
    <3>1. IsFiniteSet(T)
      BY FS_Subset
    <3>2. Pick(T) \in T /\ Total(w, T) = w[Pick(T)] + Total(w, T \ {Pick(T)})
          /\ Total(v, T) = v[Pick(T)] + Total(v, T \ {Pick(T)})
      BY <2>2, <3>1, TotalPick
    <3>3. T \ {Pick(T)} \in Good
      BY <1>1, <3>2
    <3> QED
      BY <3>2, <3>3
  <2> QED
    BY <2>1, <2>2
<1> HIDE DEF Good
<1>2. S \in Good
  BY <1>1, SubsetInduction
<1> QED
  BY <1>2 DEF Good

\* Two parts without common elements.
LEMMA TotalUnion ==
  ASSUME NEW S, IsFiniteSet(S), NEW w \in [S -> Nat], NEW B \in SUBSET S
  PROVE  \A A \in SUBSET S : A \cap B = {} => Total(w, A \cup B) = Total(w, A) + Total(w, B)
<1> DEFINE Good == {A \in SUBSET S : A \cap B = {} => Total(w, A \cup B) = Total(w, A) + Total(w, B)}
<1>1. ASSUME NEW A \in SUBSET S, \A U \in SUBSET A : U # A => U \in Good PROVE A \in Good
  <2> SUFFICES ASSUME A \cap B = {} PROVE Total(w, A \cup B) = Total(w, A) + Total(w, B)
    OBVIOUS
  <2>0. Total(w, B) \in Nat
    BY TotalType
  <2>1. CASE A = {}
    BY <2>0, <2>1, TotalEmpty
  <2>2. CASE A # {}
    <3>1. PICK x \in A : TRUE
      BY <2>2
    <3>2. A \ {x} \in Good /\ (A \ {x}) \cap B = {}
      BY <1>1, <3>1
    <3>3. Total(w, A) = w[x] + Total(w, A \ {x}) /\ Total(w, A \ {x}) \in Nat /\ w[x] \in Nat
      BY TotalRemove, TotalType
    <3>4. Total(w, A \cup B) = w[x] + Total(w, (A \cup B) \ {x})
      <4>1. A \cup B \in SUBSET S /\ x \in A \cup B
        BY <3>1
      <4> QED
        BY <4>1, TotalRemove
    <3>5. (A \cup B) \ {x} = (A \ {x}) \cup B
      <4>1. x \notin B
        BY <3>1
      <4> QED
        BY <3>1, <4>1
    <3>6. Total(w, (A \ {x}) \cup B) = Total(w, A \ {x}) + Total(w, B)
      BY <3>2
    <3>7. Total(w, A \cup B) = w[x] + (Total(w, A \ {x}) + Total(w, B))
      BY <3>4, <3>5, <3>6
    <3> HIDE DEF Good
    <3> QED
      BY <2>0, <3>3, <3>7
  <2> QED
    BY <2>1, <2>2
<1> HIDE DEF Good
<1>2. \A A \in SUBSET S : A \in Good
  BY <1>1, SubsetInduction
<1> QED
  BY <1>2 DEF Good

\* No weight, no sum.
LEMMA TotalNothing ==
  ASSUME NEW S, IsFiniteSet(S), NEW w, \A x \in S : w[x] = 0
  PROVE  Total(w, S) = 0
<1> DEFINE Good == {T \in SUBSET S : Total(w, T) = 0}
<1>1. ASSUME NEW T \in SUBSET S, \A U \in SUBSET T : U # T => U \in Good PROVE T \in Good
  <2>1. CASE T = {}
    BY <2>1, TotalEmpty
  <2>2. CASE T # {}
    <3>1. IsFiniteSet(T)
      BY FS_Subset
    <3>2. Pick(T) \in T /\ Total(w, T) = w[Pick(T)] + Total(w, T \ {Pick(T)})
      BY <2>2, <3>1, TotalPick
    <3>3. T \ {Pick(T)} \in Good
      BY <1>1, <3>2
    <3> QED
      BY <3>2, <3>3
  <2> QED
    BY <2>1, <2>2
<1> HIDE DEF Good
<1>2. S \in Good
  BY <1>1, SubsetInduction
<1> QED
  BY <1>2 DEF Good

\* Smaller weights, no larger sum.
LEMMA TotalAtMost ==
  ASSUME NEW S, IsFiniteSet(S), NEW w \in [S -> Nat], NEW v \in [S -> Nat], \A x \in S : w[x] <= v[x]
  PROVE  Total(w, S) <= Total(v, S)
<1> DEFINE Good == {T \in SUBSET S : Total(w, T) <= Total(v, T)}
<1>1. ASSUME NEW T \in SUBSET S, \A U \in SUBSET T : U # T => U \in Good PROVE T \in Good
  <2>1. CASE T = {}
    BY <2>1, TotalEmpty
  <2>2. CASE T # {}
    <3>1. PICK x \in T : TRUE
      BY <2>2
    <3>2. T \ {x} \in Good /\ T \ {x} \in SUBSET S
      BY <1>1, <3>1
    <3>3. /\ Total(w, T) = w[x] + Total(w, T \ {x}) /\ Total(v, T) = v[x] + Total(v, T \ {x})
          /\ w[x] \in Nat /\ v[x] \in Nat /\ w[x] <= v[x]
      BY TotalRemove
    <3>4. Total(w, T \ {x}) \in Nat /\ Total(v, T \ {x}) \in Nat
      BY <3>2, TotalType
    <3>5. Total(w, T \ {x}) <= Total(v, T \ {x})
      BY <3>2
    <3>6. Total(w, T) <= Total(v, T)
      BY <3>3, <3>4, <3>5
    <3> QED
      BY <3>6
  <2> QED
    BY <2>1, <2>2
<1> HIDE DEF Good
<1>2. S \in Good
  BY <1>1, SubsetInduction
<1> QED
  BY <1>2 DEF Good

\* One weight is larger by k.
LEMMA TotalOneMore ==
  ASSUME NEW S, IsFiniteSet(S), NEW w \in [S -> Nat], NEW v \in [S -> Nat], NEW x \in S, NEW k \in Nat,
         \A y \in S : y # x => v[y] = w[y], v[x] = w[x] + k
  PROVE  Total(v, S) = Total(w, S) + k
<1> DEFINE U == S \ {x}
<1>1. U \in SUBSET S /\ S \in SUBSET S /\ IsFiniteSet(U) /\ \A y \in U : v[y] = w[y]
  BY FS_Subset
<1>2. Total(w, S) = w[x] + Total(w, U) /\ Total(v, S) = v[x] + Total(v, U)
  BY <1>1, TotalRemove
<1> HIDE DEF U
<1>3. Total(v, U) = Total(w, U)
  BY <1>1, TotalSame
<1>4. Total(w, U) \in Nat /\ w[x] \in Nat
  BY <1>1, TotalType
<1> QED
  BY <1>2, <1>3, <1>4

\* There are more elements, without weight.
LEMMA TotalExtended ==
  ASSUME NEW S, IsFiniteSet(S), NEW v \in [S -> Nat], NEW T \in SUBSET S, NEW w,
         \A x \in T : v[x] = w[x], \A x \in S \ T : v[x] = 0
  PROVE  Total(v, S) = Total(w, T)
<1> DEFINE U == S \ T
<1>1. U \in SUBSET S /\ IsFiniteSet(U) /\ IsFiniteSet(T) /\ T \cap U = {} /\ S = T \cup U
  BY FS_Subset
<1>2. \A x \in U : v[x] = 0
  OBVIOUS
<1> HIDE DEF U
<1>3. Total(v, T \cup U) = Total(v, T) + Total(v, U)
  BY <1>1, TotalUnion
<1>4. Total(v, U) = 0
  BY <1>1, <1>2, TotalNothing
<1>5. Total(v, T) = Total(w, T)
  BY <1>1, TotalSame
<1>6. Total(v, T) \in Nat
  BY TotalType
<1> QED
  BY <1>1, <1>3, <1>4, <1>5, <1>6
=============================================================================
