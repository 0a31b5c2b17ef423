--------------------------- MODULE AnsweringProofs ---------------------------
(***************************************************************************)
(* For any messages, classifications, documents, searches and failures:    *)
(* what an AI run shows is approved, a customer who needs a human gets     *)
(* one, and the stages of the run agree; its evidence is recent, fusion    *)
(* keeps what the searches agree on, and the context is as full as its     *)
(* budget allows.  And for any number of requests, permits, retries and    *)
(* any timing of the calls that the runs make to a provider: no permit is  *)
(* lost, starts stay apart, retries are bounded.                           *)
(*                                                                         *)
(* The module goes from sums and folds over finite sets to fusion and the  *)
(* grounding context, which are functions of what the searches return,     *)
(* then to the invariant of the run, and last to the provider's calls.     *)
(***************************************************************************)
EXTENDS Answering, ProviderCapacity, FiniteSetTheorems, WellFoundedInduction, TLAPS

-----------------------------------------------------------------------------
(* Least elements: of a set of numbers, and of a set of finite sets.       *)

\* A set of naturals has a least one.
LEMMA LeastNumber ==
  ASSUME NEW S \in SUBSET Nat, S # {}
  PROVE  \E n \in S : \A m \in S : n <= m
<1> DEFINE R == {ss \in Nat \X Nat : ss[1] < ss[2]}
<1>1. R = OpToRel(<, Nat)
  BY Zenon DEF OpToRel
<1>2. IsWellFoundedOn(R, Nat)
  BY <1>1, NatLessThanWellFounded, Zenon
<1>3. PICK n \in S : \A m \in S : <<m, n>> \notin R
  BY <1>2, WFMin
<1>4. \A m \in S : ~(m < n)
  <2> TAKE m \in S
  <2>1. <<m, n>> \in Nat \X Nat /\ <<m, n>>[1] = m /\ <<m, n>>[2] = n
    OBVIOUS
  <2> QED
    BY <2>1, <1>3
<1> QED
  BY <1>4

\* Among finite sets one has no proper subset among them.
LEMMA LeastSubset ==
  ASSUME NEW S, IsFiniteSet(S), NEW F \in SUBSET (SUBSET S), F # {}
  PROVE  \E T \in F : \A U \in F : U \subseteq T => U = T
<1>1. IsWellFoundedOn(StrictSubsetOrdering(S), SUBSET S)
  BY FS_StrictSubsetOrderingWellFounded, FS_FiniteSubsetsOfFinite
<1>2. PICK T \in F : \A U \in F : <<U, T>> \notin StrictSubsetOrdering(S)
  BY <1>1, WFMin
<1>3. ASSUME NEW U \in F, U \subseteq T, U # T
      PROVE  FALSE
  <2>1. <<U, T>> \in (SUBSET S) \X (SUBSET S) /\ <<U, T>>[1] = U /\ <<U, T>>[2] = T
    BY <1>2, <1>3
  <2> QED
    BY <2>1, <1>2, <1>3 DEF StrictSubsetOrdering
<1> QED
  BY <1>3

-----------------------------------------------------------------------------
(* What a fold over a finite set S computes: pick names the element that a *)
(* subset loses, and op takes it and the value of what remains.            *)

Picks(S) == {pick \in [(SUBSET S) \ {{}} -> S] : \A T \in (SUBSET S) \ {{}} : pick[T] \in T}

Folds(S, pick, op, base, g) ==
    g = [T \in SUBSET S |-> IF T = {} THEN base ELSE op[<<pick[T], g[T \ {pick[T]}]>>]]

Foldable(S, V, pick, op, base) == pick \in Picks(S) /\ op \in [S \X V -> V] /\ base \in V

\* op takes two elements in either order.
OrderFree(S, V, op) == \A a, b \in S : \A v \in V : op[<<a, op[<<b, v>>]>>] = op[<<b, op[<<a, v>>]>>]

\* Two functions of sets agree on a set whenever they do on the rest of it.
Inherits(R, pick, g, h) ==
    \A T \in SUBSET R : (T # {} => g[T \ {pick[T]}] = h[T \ {pick[T]}]) => g[T] = h[T]

\* Two such functions agree on every finite set.
LEMMA FoldInduction ==
  ASSUME NEW S, IsFiniteSet(S), NEW R \in SUBSET S, NEW pick \in Picks(S), NEW g, NEW h,
         Inherits(R, pick, g, h)
  PROVE  g[R] = h[R]
<1> DEFINE F == {T \in SUBSET R : g[T] # h[T]}
<1>1. SUFFICES ASSUME F # {} PROVE FALSE
  OBVIOUS
<1>2. PICK T \in F : \A U \in F : U \subseteq T => U = T
  <2>1. F \in SUBSET (SUBSET S)
    OBVIOUS
  <2> HIDE DEF F
  <2> QED
    BY <1>1, <2>1, LeastSubset
<1>3. T # {} => pick[T] \in T
  BY <1>2 DEF Picks
<1>4. T # {} => T \ {pick[T]} \notin F
  BY <1>2, <1>3
<1> QED
  BY <1>2, <1>4 DEF Inherits

\* Folds over two sets agree on the subsets the two share.
LEMMA FoldUnique ==
  ASSUME NEW S, IsFiniteSet(S), NEW R \in SUBSET S, NEW Q \in SUBSET S,
         NEW pick \in Picks(S), NEW op, NEW base, NEW g, NEW h,
         Folds(R, pick, op, base, g), Folds(Q, pick, op, base, h)
  PROVE  \A T \in SUBSET (R \cap Q) : g[T] = h[T]
<1>1. \A W \in SUBSET R : g[W] = IF W = {} THEN base ELSE op[<<pick[W], g[W \ {pick[W]}]>>]
  BY DEF Folds
<1>2. \A W \in SUBSET Q : h[W] = IF W = {} THEN base ELSE op[<<pick[W], h[W \ {pick[W]}]>>]
  BY DEF Folds
<1>3. ASSUME NEW T \in SUBSET (R \cap Q)
      PROVE  g[T] = h[T]
  <2>1. T \in SUBSET S
    OBVIOUS
  <2>2. Inherits(T, pick, g, h)
    BY <1>1, <1>2 DEF Inherits
  <2> QED
    BY <2>1, <2>2, FoldInduction
<1> QED
  BY <1>3

\* The value on a subset does not depend on the set folded over.
LEMMA FoldAgrees ==
  ASSUME NEW S, IsFiniteSet(S), NEW R \in SUBSET S, NEW Q \in SUBSET R,
         NEW pick \in Picks(S), NEW op, NEW base, NEW g, NEW h,
         Folds(R, pick, op, base, g), Folds(Q, pick, op, base, h)
  PROVE  g[Q] = h[Q]
<1>1. Q \in SUBSET S /\ Q \in SUBSET (R \cap Q)
  OBVIOUS
<1>2. \A T \in SUBSET (R \cap Q) : g[T] = h[T]
  BY <1>1, FoldUnique
<1> QED
  BY <1>1, <1>2

\* There is a fold over every finite set.
LEMMA FoldExists ==
  ASSUME NEW S, IsFiniteSet(S), NEW V, NEW pick, NEW op, NEW base, Foldable(S, V, pick, op, base)
  PROVE  \A R \in SUBSET S : \E g \in [SUBSET R -> V] : Folds(R, pick, op, base, g)
<1> DEFINE G(T) == {g \in [SUBSET T -> V] : Folds(T, pick, op, base, g)}
           F == {T \in SUBSET S : G(T) = {}}
<1>0. pick \in Picks(S) /\ op \in [S \X V -> V] /\ base \in V
  BY DEF Foldable
<1>1. SUFFICES ASSUME F # {} PROVE FALSE
  OBVIOUS
<1>2. PICK T \in F : \A U \in F : U \subseteq T => U = T
  <2>1. F \in SUBSET (SUBSET S)
    OBVIOUS
  <2> HIDE DEF F
  <2> QED
    BY <1>1, <2>1, LeastSubset
<1> DEFINE fold(U) == CHOOSE g : g \in G(U)
           rest(U) == U \ {pick[U]}
           h == [U \in SUBSET T |-> IF U = {} THEN base ELSE op[<<pick[U], fold(rest(U))[rest(U)]>>]]
<1>3. ASSUME NEW U \in SUBSET T, U # {}
      PROVE  pick[U] \in U /\ pick[U] \in S /\ rest(U) \in SUBSET T /\ rest(U) # T
  BY <1>0, <1>2, <1>3 DEF Picks
<1>4. ASSUME NEW U \in SUBSET T, U # T
      PROVE  fold(U) \in G(U)
  BY <1>2, <1>4
<1>5. ASSUME NEW U \in SUBSET T, U # {}
      PROVE  fold(rest(U))[rest(U)] \in V
  <2>1. fold(rest(U)) \in [SUBSET rest(U) -> V]
    BY <1>3, <1>4, <1>5
  <2> HIDE DEF fold, rest
  <2> QED
    BY <2>1
<1>6. h \in [SUBSET T -> V]
  <2> HIDE DEF fold, rest
  <2> QED
    BY <1>0, <1>3, <1>5
<1>7. ASSUME NEW U \in SUBSET T, U # T
      PROVE  h[U] = fold(U)[U]
  <2>1. Folds(U, pick, op, base, fold(U))
    BY <1>4, <1>7
  <2>2. fold(U)[U] = IF U = {} THEN base ELSE op[<<pick[U], fold(U)[rest(U)]>>]
    <3> HIDE DEF fold
    <3> QED
      BY <2>1 DEF Folds
  <2>3. CASE U = {}
    BY <2>2, <2>3
  <2>4. CASE U # {}
    <3>1. Folds(rest(U), pick, op, base, fold(rest(U)))
      BY <1>3, <1>4, <2>4
    <3>2. rest(U) \in SUBSET (U \cap rest(U))
      OBVIOUS
    <3>3. fold(U)[rest(U)] = fold(rest(U))[rest(U)]
      <4> HIDE DEF fold
      <4>1. U \in SUBSET S /\ rest(U) \in SUBSET S
        BY <1>2, <1>7
      <4> HIDE DEF rest, h, F
      <4>2. ASSUME NEW a, NEW b, Folds(U, pick, op, base, a), Folds(rest(U), pick, op, base, b)
            PROVE  a[rest(U)] = b[rest(U)]
        BY <1>0, <3>2, <4>1, <4>2, FoldAgrees
      <4> QED
        BY <2>1, <3>1, <4>2, Zenon
    <3> QED
      BY <2>2, <2>4, <3>3
  <2> QED
    BY <2>3, <2>4
<1>8. Folds(T, pick, op, base, h)
  <2>1. ASSUME NEW U \in SUBSET T
        PROVE  h[U] = IF U = {} THEN base ELSE op[<<pick[U], h[rest(U)]>>]
    <3>1. h[U] = IF U = {} THEN base ELSE op[<<pick[U], fold(rest(U))[rest(U)]>>]
      BY <2>1
    <3> HIDE DEF h, fold
    <3>2. U # {} => h[rest(U)] = fold(rest(U))[rest(U)]
      BY <1>3, <1>7, <2>1
    <3> QED
      BY <3>1, <3>2
  <2> HIDE DEF h
  <2>2. h = [U \in SUBSET T |-> h[U]]
    BY <1>6
  <2> QED
    BY <2>1, <2>2 DEF Folds
<1>9. h \in G(T)
  BY <1>6, <1>8
<1> QED
  BY <1>2, <1>9

\* If op takes elements in any order, a fold may lose any element first.
LEMMA FoldAnyOrder ==
  ASSUME NEW S, IsFiniteSet(S), NEW V, NEW pick, NEW op, NEW base, NEW g,
         Foldable(S, V, pick, op, base), Folds(S, pick, op, base, g), OrderFree(S, V, op)
  PROVE  \A T \in SUBSET S : \A x \in T : g[T] = op[<<x, g[T \ {x}]>>]
<1> DEFINE F == {T \in SUBSET S : \E x \in T : g[T] # op[<<x, g[T \ {x}]>>]}
<1>0. pick \in Picks(S)
  BY DEF Foldable
<1>1. SUFFICES ASSUME F # {} PROVE FALSE
  OBVIOUS
<1>2. PICK T \in F : \A U \in F : U \subseteq T => U = T
  <2>1. F \in SUBSET (SUBSET S)
    OBVIOUS
  <2> HIDE DEF F
  <2> QED
    BY <1>1, <2>1, LeastSubset
<1>3. PICK x \in T : g[T] # op[<<x, g[T \ {x}]>>]
  OBVIOUS
<1> DEFINE y == pick[T]
           R == (T \ {x}) \ {y}
<1>4. T \in SUBSET S /\ y \in T
  BY <1>0, <1>3 DEF Picks
<1>5. g[T] = op[<<y, g[T \ {y}]>>]
  BY <1>3, <1>4 DEF Folds
<1>6. x # y
  BY <1>3, <1>5
<1> HIDE DEF y
<1>7. T \ {y} \notin F /\ T \ {x} \notin F
  BY <1>2, <1>3, <1>4
<1>8. g[T \ {y}] = op[<<x, g[R]>>]
  <2>1. x \in T \ {y} /\ T \ {y} \in SUBSET S /\ (T \ {y}) \ {x} = R
    BY <1>3, <1>4, <1>6
  <2> QED
    BY <1>7, <2>1
<1>9. g[T \ {x}] = op[<<y, g[R]>>]
  BY <1>4, <1>6, <1>7
<1>10. g[R] \in V
  <2>1. R \in SUBSET S
    BY <1>4
  <2> HIDE DEF R, F
  <2>2. PICK h \in [SUBSET R -> V] : Folds(R, pick, op, base, h)
    BY <2>1, FoldExists
  <2>3. g[R] = h[R]
    BY <1>0, <2>1, <2>2, FoldAgrees
  <2> QED
    BY <2>2, <2>3
<1>11. x \in S /\ y \in S
  BY <1>3, <1>4
<1> HIDE DEF R, F
<1>12. op[<<y, op[<<x, g[R]>>]>>] = op[<<x, op[<<y, g[R]>>]>>]
  BY <1>10, <1>11 DEF OrderFree
<1> QED
  BY <1>3, <1>5, <1>8, <1>9, <1>12

-----------------------------------------------------------------------------
(* Sums.                                                                   *)

Chosen(S) == [T \in (SUBSET S) \ {{}} |-> CHOOSE x \in T : TRUE]

Plus(f, S) == [p \in S \X Nat |-> f[p[1]] + p[2]]

\* The element that a sum removes is one of the set.
LEMMA ChosenPicks ==
  ASSUME NEW S
  PROVE  Chosen(S) \in Picks(S)
<1> DEFINE first(T) == CHOOSE x \in T : TRUE
<1>1. \A T \in (SUBSET S) \ {{}} : first(T) \in T
  OBVIOUS
<1>2. Chosen(S) = [T \in (SUBSET S) \ {{}} |-> first(T)]
  BY DEF Chosen
<1> HIDE DEF first
<1> QED
  BY <1>1, <1>2 DEF Picks

\* A sum over part of a set is a fold.
LEMMA SumFolds ==
  ASSUME NEW S, IsFiniteSet(S), NEW R \in SUBSET S, NEW f, \A x \in S : f[x] \in Nat
  PROVE  \E g \in [SUBSET R -> Nat] :
             Folds(R, Chosen(S), Plus(f, S), 0, g) /\ SumFunctionOnSet(f, R) = g[R]
<1>1. Foldable(S, Nat, Chosen(S), Plus(f, S), 0)
  BY ChosenPicks DEF Foldable, Plus
<1>3. PICK g \in [SUBSET R -> Nat] : Folds(R, Chosen(S), Plus(f, S), 0, g)
  BY <1>1, FoldExists
<1> DEFINE first(T) == CHOOSE x \in T : TRUE
           Raw(c) == c = [T \in SUBSET R |-> IF T = {} THEN 0 ELSE f[first(T)] + c[T \ {first(T)}]]
<1>4. ASSUME NEW T \in SUBSET R, T # {}
      PROVE  first(T) \in T /\ Chosen(S)[T] = first(T) /\ T \ {first(T)} \in SUBSET R
  BY <1>4 DEF Chosen
<1>5. ASSUME NEW T \in SUBSET R
      PROVE  g[T] = IF T = {} THEN 0 ELSE f[first(T)] + g[T \ {first(T)}]
  <2>1. g[T] = IF T = {} THEN 0 ELSE Plus(f, S)[<<first(T), g[T \ {first(T)}]>>]
    BY <1>3, <1>4 DEF Folds
  <2> HIDE DEF first
  <2>2. T # {} => <<first(T), g[T \ {first(T)}]>> \in S \X Nat
    BY <1>4
  <2> QED
    BY <2>1, <2>2 DEF Plus
<1>6. Raw(g)
  <2> HIDE DEF first
  <2> QED
    BY <1>5
<1>7. SumFunctionOnSet(f, R) = (CHOOSE c : Raw(c))[R]
  BY DEF SumFunctionOnSet, FoldFunctionOnSet, MapThenFoldSet
<1> DEFINE c == CHOOSE c : Raw(c)
<1>8. Raw(c)
  <2> HIDE DEF Raw
  <2> QED
    BY <1>6
<1> HIDE DEF c
<1>9. c[R] = g[R]
  <2>1. ASSUME NEW T \in SUBSET R
        PROVE  c[T] = IF T = {} THEN 0 ELSE f[first(T)] + c[T \ {first(T)}]
    BY <1>8
  <2> HIDE DEF first, Raw
  <2>2. ASSUME NEW T \in SUBSET R, T # {} => c[T \ {Chosen(S)[T]}] = g[T \ {Chosen(S)[T]}]
        PROVE  c[T] = g[T]
    <3>1. CASE T = {}
      BY <1>5, <2>1, <3>1
    <3>2. CASE T # {}
      <4>1. c[T \ {first(T)}] = g[T \ {first(T)}]
        BY <1>4, <2>2, <3>2
      <4> QED
        BY <1>5, <2>1, <3>2, <4>1
    <3> QED
      BY <3>1, <3>2
  <2>4. Inherits(R, Chosen(S), c, g)
    BY <2>2 DEF Inherits
  <2>3. Chosen(S) \in Picks(S)
    BY ChosenPicks
  <2> QED
    BY <2>3, <2>4, FoldInduction
<1> QED
  BY <1>3, <1>7, <1>9 DEF c

\* A sum of naturals is one, and is what one element adds to the others.
LEMMA Sums ==
  ASSUME NEW S, IsFiniteSet(S), NEW f, \A x \in S : f[x] \in Nat
  PROVE  /\ SumFunctionOnSet(f, S) \in Nat
         /\ SumFunctionOnSet(f, {}) = 0
         /\ \A x \in S : SumFunctionOnSet(f, S) = f[x] + SumFunctionOnSet(f, S \ {x})
<1> DEFINE pick == Chosen(S)
           op == Plus(f, S)
<1>0. Foldable(S, Nat, pick, op, 0)
  BY ChosenPicks DEF Foldable, Plus
<1>1. PICK g \in [SUBSET S -> Nat] : Folds(S, pick, op, 0, g) /\ SumFunctionOnSet(f, S) = g[S]
  BY SumFolds
<1>2. pick \in Picks(S)
  BY ChosenPicks
<1>3. ASSUME NEW R \in SUBSET S
      PROVE  SumFunctionOnSet(f, R) = g[R]
  <2>1. PICK h \in [SUBSET R -> Nat] : Folds(R, pick, op, 0, h) /\ SumFunctionOnSet(f, R) = h[R]
    BY SumFolds
  <2> HIDE DEF pick, op
  <2>2. g[R] = h[R]
    BY <1>1, <1>2, <2>1, FoldAgrees
  <2> QED
    BY <2>1, <2>2
<1>4. g[{}] = 0
  BY <1>1 DEF Folds
<1>5. \A a \in S : \A v \in Nat : op[<<a, v>>] = f[a] + v /\ f[a] + v \in Nat
  BY DEF Plus
<1> HIDE DEF pick, op
<1>6. OrderFree(S, Nat, op)
  BY <1>5 DEF OrderFree
<1>7. \A T \in SUBSET S : \A x \in T : g[T] = op[<<x, g[T \ {x}]>>]
  BY <1>0, <1>1, <1>6, FoldAnyOrder
<1>8. ASSUME NEW x \in S
      PROVE  g[S] = f[x] + g[S \ {x}]
  <2>1. S \in SUBSET S /\ S \ {x} \in SUBSET S
    OBVIOUS
  <2>2. g[S \ {x}] \in Nat
    BY <2>1
  <2> QED
    BY <1>5, <1>7, <2>1, <2>2
<1> QED
  BY <1>1, <1>3, <1>4, <1>8

-----------------------------------------------------------------------------
(* Products of positive numbers.                                           *)

Positive == Nat \ {0}

Times(S) == [p \in S \X Positive |-> p[1] * p[2]]

\* A product over part of a set is a fold.
LEMMA ProductFolds ==
  ASSUME NEW S, IsFiniteSet(S), S \subseteq Positive, NEW R \in SUBSET S
  PROVE  \E g \in [SUBSET R -> Positive] :
             Folds(R, Chosen(S), Times(S), 1, g) /\ ProductSet(R) = g[R]
<1>0. \A a, b \in Positive : a * b \in Positive
  BY DEF Positive
<1>1. Foldable(S, Positive, Chosen(S), Times(S), 1)
  <2>1. Times(S) \in [S \X Positive -> Positive]
    BY <1>0 DEF Times
  <2>2. 1 \in Positive
    BY DEF Positive
  <2> QED
    BY <2>1, <2>2, ChosenPicks DEF Foldable
<1>3. PICK g \in [SUBSET R -> Positive] : Folds(R, Chosen(S), Times(S), 1, g)
  BY <1>1, FoldExists
<1> DEFINE first(T) == CHOOSE x \in T : TRUE
           Raw(c) == c = [T \in SUBSET R |-> IF T = {} THEN 1 ELSE first(T) * c[T \ {first(T)}]]
<1>4. ASSUME NEW T \in SUBSET R, T # {}
      PROVE  first(T) \in T /\ Chosen(S)[T] = first(T) /\ T \ {first(T)} \in SUBSET R
  BY <1>4 DEF Chosen
<1>5. ASSUME NEW T \in SUBSET R
      PROVE  g[T] = IF T = {} THEN 1 ELSE first(T) * g[T \ {first(T)}]
  <2>1. g[T] = IF T = {} THEN 1 ELSE Times(S)[<<first(T), g[T \ {first(T)}]>>]
    BY <1>3, <1>4 DEF Folds
  <2> HIDE DEF first
  <2>2. T # {} => <<first(T), g[T \ {first(T)}]>> \in S \X Positive
    BY <1>4
  <2> QED
    BY <2>1, <2>2 DEF Times
<1>6. Raw(g)
  <2> HIDE DEF first
  <2> QED
    BY <1>5
<1>7. ProductSet(R) = (CHOOSE c : Raw(c))[R]
  BY DEF ProductSet, FoldSet, MapThenFoldSet
<1> DEFINE c == CHOOSE c : Raw(c)
<1>8. Raw(c)
  <2> HIDE DEF Raw
  <2> QED
    BY <1>6
<1> HIDE DEF c
<1>9. c[R] = g[R]
  <2>1. ASSUME NEW T \in SUBSET R
        PROVE  c[T] = IF T = {} THEN 1 ELSE first(T) * c[T \ {first(T)}]
    BY <1>8
  <2> HIDE DEF first, Raw
  <2>2. ASSUME NEW T \in SUBSET R, T # {} => c[T \ {Chosen(S)[T]}] = g[T \ {Chosen(S)[T]}]
        PROVE  c[T] = g[T]
    <3>1. CASE T = {}
      BY <1>5, <2>1, <3>1
    <3>2. CASE T # {}
      <4>1. c[T \ {first(T)}] = g[T \ {first(T)}]
        BY <1>4, <2>2, <3>2
      <4> QED
        BY <1>5, <2>1, <3>2, <4>1
    <3> QED
      BY <3>1, <3>2
  <2>4. Inherits(R, Chosen(S), c, g)
    BY <2>2 DEF Inherits
  <2>3. Chosen(S) \in Picks(S)
    BY ChosenPicks
  <2> QED
    BY <2>3, <2>4, FoldInduction
<1> QED
  BY <1>3, <1>7, <1>9 DEF c

\* A product is a positive number, and every factor divides it.
LEMMA Products ==
  ASSUME NEW S, IsFiniteSet(S), S \subseteq Positive
  PROVE  /\ ProductSet(S) \in Positive
         /\ \A x \in S : \E q \in Positive : ProductSet(S) = x * q
<1> DEFINE pick == Chosen(S)
           op == Times(S)
<1>0. \A a, b \in Positive : a * b \in Positive
  BY DEF Positive
<1>1. Foldable(S, Positive, pick, op, 1)
  <2>1. Times(S) \in [S \X Positive -> Positive]
    BY <1>0 DEF Times
  <2>2. 1 \in Positive
    BY DEF Positive
  <2> QED
    BY <2>1, <2>2, ChosenPicks DEF Foldable
<1>2. PICK g \in [SUBSET S -> Positive] : Folds(S, pick, op, 1, g) /\ ProductSet(S) = g[S]
  BY ProductFolds
<1>3. \A a \in S : \A v \in Positive : op[<<a, v>>] = a * v
  BY DEF Times
<1> HIDE DEF pick, op
<1>4. OrderFree(S, Positive, op)
  <2> SUFFICES ASSUME NEW a \in S, NEW b \in S, NEW v \in Positive
               PROVE  op[<<a, op[<<b, v>>]>>] = op[<<b, op[<<a, v>>]>>]
    BY DEF OrderFree
  <2>1. b * v \in Positive /\ a * v \in Positive
    BY <1>0
  <2>2. op[<<a, op[<<b, v>>]>>] = a * (b * v) /\ op[<<b, op[<<a, v>>]>>] = b * (a * v)
    BY <1>3, <2>1
  <2>3. a \in Nat /\ b \in Nat /\ v \in Nat
    BY DEF Positive
  <2>4. a * (b * v) = b * (a * v)
    BY <2>3
  <2> QED
    BY <2>2, <2>4
<1>5. \A T \in SUBSET S : \A x \in T : g[T] = op[<<x, g[T \ {x}]>>]
  BY <1>1, <1>2, <1>4, FoldAnyOrder
<1>6. ASSUME NEW x \in S
      PROVE  g[S] = x * g[S \ {x}] /\ g[S \ {x}] \in Positive
  <2>1. S \in SUBSET S /\ S \ {x} \in SUBSET S
    OBVIOUS
  <2>2. g[S \ {x}] \in Positive
    BY <2>1
  <2> QED
    BY <1>3, <1>5, <2>1, <2>2
<1> QED
  BY <1>2, <1>6

-----------------------------------------------------------------------------
(* The context is built one candidate after the other.                     *)

Contexts(C) == [blocks : Seq(C), truncated : BOOLEAN]

NoBlocks == [blocks |-> <<>>, truncated |-> FALSE]

\* A candidate turns a context into a context.
LEMMA AdmitType ==
  ASSUME NEW C, NEW b \in Contexts(C), NEW c \in C
  PROVE  Admit(b, c) \in Contexts(C)
<1>1. b.blocks \in Seq(C) /\ b.truncated \in BOOLEAN /\ b = [blocks |-> b.blocks, truncated |-> b.truncated]
  BY DEF Contexts
<1>2. Append(b.blocks, c) \in Seq(C)
  BY <1>1
<1> QED
  BY <1>1, <1>2 DEF Admit, Contexts

\* A set of numbers up to n has a greatest one.
LEMMA MaxBelow ==
  ASSUME NEW n \in Nat, NEW T \in SUBSET (1..n), T # {}
  PROVE  Max(T) \in T /\ \A i \in T : i <= Max(T)
<1>1. \A t \in T : n - t \in Nat
  OBVIOUS
<1>2. PICK m \in {n - t : t \in T} : \A k \in {n - t : t \in T} : m <= k
  <2> DEFINE M == {n - t : t \in T}
  <2>1. M \in SUBSET Nat /\ M # {}
    BY <1>1
  <2> HIDE DEF M
  <2>2. \E m \in M : \A k \in M : m <= k
    BY <2>1, LeastNumber
  <2> QED
    BY <2>2 DEF M
<1>3. PICK x \in T : m = n - x
  OBVIOUS
<1>4. \A y \in T : x >= y
  <2> TAKE y \in T
  <2>1. m <= n - y
    BY <1>2
  <2> QED
    BY <1>3, <2>1
<1> QED
  BY <1>4 DEF Max

\* The contexts after each of the candidates.
LEMMA ContextTrace ==
  ASSUME NEW C, NEW s \in Seq(C)
  PROVE  \E trace \in [0..Len(s) -> Contexts(C)] :
             /\ trace[0] = NoBlocks
             /\ \A i \in 1..Len(s) : trace[i] = Admit(trace[i - 1], s[i])
             /\ GroundingContext(s) = trace[Len(s)]
<1> DEFINE n == Len(s)
           D == 1..n
           V == Contexts(C)
           pick == [T \in (SUBSET D) \ {{}} |-> Max(T)]
           op == [p \in D \X V |-> Admit(p[2], s[p[1]])]
<1>0. n \in Nat /\ DOMAIN s = D /\ IsFiniteSet(D) /\ NoBlocks \in V /\ \A i \in D : s[i] \in C
  BY FS_Interval DEF Contexts, NoBlocks
<1>1. Foldable(D, V, pick, op, NoBlocks)
  <2> HIDE DEF D, V, n
  <2>1. \A T \in (SUBSET D) \ {{}} : Max(T) \in T
    BY <1>0, MaxBelow DEF D
  <2>2. pick \in Picks(D)
    BY <2>1 DEF Picks
  <2>3. op \in [D \X V -> V]
    BY <1>0, AdmitType DEF V
  <2> QED
    BY <1>0, <2>2, <2>3 DEF Foldable
<1>2. PICK g \in [SUBSET D -> V] : Folds(D, pick, op, NoBlocks, g)
  <2> HIDE DEF D, V, n, pick, op
  <2>0. IsFiniteSet(D)
    BY <1>0
  <2>1. \A R \in SUBSET D : \E g \in [SUBSET R -> V] : Folds(R, pick, op, NoBlocks, g)
    BY <1>1, <2>0, FoldExists
  <2> QED
    BY <2>1
<1> DEFINE Raw(c) == c = [T \in SUBSET D |-> IF T = {} THEN NoBlocks
                                            ELSE Admit(c[T \ {Max(T)}], s[Max(T)])]
<1>3. ASSUME NEW T \in SUBSET D, T # {}
      PROVE  Max(T) \in T /\ pick[T] = Max(T) /\ T \ {Max(T)} \in SUBSET D
  BY <1>0, <1>3, MaxBelow
<1>4. ASSUME NEW T \in SUBSET D
      PROVE  g[T] = IF T = {} THEN NoBlocks ELSE Admit(g[T \ {Max(T)}], s[Max(T)])
  <2> HIDE DEF D, V, n
  <2>1. g[T] = IF T = {} THEN NoBlocks ELSE op[<<Max(T), g[T \ {Max(T)}]>>]
    <3> HIDE DEF op, pick
    <3> QED
      BY <1>2, <1>3 DEF Folds
  <2>2. T # {} => <<Max(T), g[T \ {Max(T)}]>> \in D \X V
    BY <1>3
  <2> QED
    BY <2>1, <2>2
<1>5. Raw(g)
  <2> HIDE DEF D, V, n
  <2> QED
    BY <1>4
<1>6. GroundingContext(s) = (CHOOSE c : Raw(c))[D]
  BY <1>0 DEF GroundingContext, FoldLeft, MapThenFoldSet, NoBlocks
<1> DEFINE c == CHOOSE c : Raw(c)
<1>7. Raw(c)
  <2> HIDE DEF Raw
  <2> QED
    BY <1>5
<1> HIDE DEF c
<1>8. c[D] = g[D]
  <2>1. Inherits(D, pick, c, g)
    <3>1. ASSUME NEW T \in SUBSET D
          PROVE  c[T] = IF T = {} THEN NoBlocks ELSE Admit(c[T \ {Max(T)}], s[Max(T)])
      BY <1>7
    <3> HIDE DEF D, n, V, pick, Raw
    <3>2. ASSUME NEW T \in SUBSET D, T # {} => c[T \ {pick[T]}] = g[T \ {pick[T]}]
          PROVE  c[T] = g[T]
      <4>1. CASE T = {}
        BY <1>4, <3>1, <4>1
      <4>2. CASE T # {}
        <5>1. c[T \ {Max(T)}] = g[T \ {Max(T)}]
          BY <1>3, <3>2, <4>2
        <5> QED
          BY <1>4, <3>1, <4>2, <5>1
      <4> QED
        BY <4>1, <4>2
    <3> QED
      BY <3>2 DEF Inherits
  <2>2. pick \in Picks(D)
    BY <1>1 DEF Foldable
  <2>3. D \in SUBSET D
    OBVIOUS
  <2>4. IsFiniteSet(D)
    BY <1>0
  <2> HIDE DEF D, n, V, pick
  <2> QED
    BY <2>1, <2>2, <2>3, <2>4, FoldInduction
<1> DEFINE trace == [i \in 0..n |-> g[1..i]]
<1>9. n \in Nat /\ D \in SUBSET D /\ \A i \in 0..n : 1..i \in SUBSET D
  BY <1>0
<1>10. trace \in [0..n -> V]
  <2> HIDE DEF V, D
  <2> QED
    BY <1>9
<1>11. trace[0] = NoBlocks
  <2>1. 1..0 = {} /\ {} \in SUBSET D /\ 0 \in 0..n
    BY <1>9
  <2> HIDE DEF V, D, n
  <2> QED
    BY <1>4, <2>1
<1>12. ASSUME NEW i \in 1..n
       PROVE  trace[i] = Admit(trace[i - 1], s[i])
  <2>1. i \in Nat /\ i \in 0..n /\ i - 1 \in 0..n /\ 1..i # {} /\ i \in 1..i
    <3>1. n \in Nat
      BY <1>9
    <3> HIDE DEF D, V, n
    <3>2. i \in Nat /\ 1 <= i /\ i <= n
      BY <3>1
    <3>3. i \in 1..i
      BY <3>2
    <3>4. i \in 0..n /\ i - 1 \in 0..n
      BY <3>1, <3>2
    <3> QED
      BY <3>2, <3>3, <3>4
  <2>2. Max(1..i) = i
    <3>1. Max(1..i) \in 1..i /\ \A j \in 1..i : j <= Max(1..i)
      <4>1. 1..i \in SUBSET (1..i)
        OBVIOUS
      <4> QED
        BY <2>1, <4>1, MaxBelow
    <3> QED
      BY <2>1, <3>1
  <2>3. (1..i) \ {i} = 1..(i - 1)
    BY <2>1
  <2> HIDE DEF V, D, n
  <2>4. g[1..i] = Admit(g[1..(i - 1)], s[i])
    BY <1>4, <1>9, <2>1, <2>2, <2>3
  <2> QED
    BY <2>1, <2>4
<1>13. GroundingContext(s) = trace[n]
  <2>1. trace[n] = g[D]
    <3>1. n \in 0..n
      BY <1>9
    <3> HIDE DEF n
    <3> QED
      BY <3>1
  <2> QED
    BY <1>6, <1>8, <2>1, Zenon DEF c
<1> QED
  BY <1>10, <1>11, <1>12, <1>13

-----------------------------------------------------------------------------
(* What the fusion's sums and shares are.                                  *)

\* A sum over a set is a fold.
LEMMA SumFold ==
  ASSUME NEW S, IsFiniteSet(S), NEW f, \A x \in S : f[x] \in Nat
  PROVE  \E g : Folds(S, Chosen(S), Plus(f, S), 0, g) /\ SumFunctionOnSet(f, S) = g[S]
<1>1. \E g \in [SUBSET S -> Nat] :
          Folds(S, Chosen(S), Plus(f, S), 0, g) /\ SumFunctionOnSet(f, S) = g[S]
  BY SumFolds
<1> QED
  BY <1>1

\* A sum depends on nothing but the values of its elements.
LEMMA SumAgree ==
  ASSUME NEW S, IsFiniteSet(S), NEW f, NEW h, \A x \in S : f[x] \in Nat /\ f[x] = h[x]
  PROVE  SumFunctionOnSet(f, S) = SumFunctionOnSet(h, S)
<1>1. Plus(f, S) = Plus(h, S)
  BY DEF Plus
<1>2. (\A x \in S : f[x] \in Nat) /\ (\A x \in S : h[x] \in Nat)
  OBVIOUS
<1>3. PICK a : Folds(S, Chosen(S), Plus(f, S), 0, a) /\ SumFunctionOnSet(f, S) = a[S]
  BY <1>2, SumFold
<1>4. PICK b : Folds(S, Chosen(S), Plus(h, S), 0, b) /\ SumFunctionOnSet(h, S) = b[S]
  BY <1>2, SumFold
<1>5. Chosen(S) \in Picks(S)
  BY ChosenPicks
<1>6. a[S] = b[S]
  BY <1>1, <1>3, <1>4, <1>5, FoldAgrees
<1> QED
  BY <1>3, <1>4, <1>6

\* The sum of a function is the one over its domain.
LEMMA SumFunctionIs ==
  ASSUME NEW S, NEW f, S = DOMAIN f
  PROVE  SumFunction(f) = SumFunctionOnSet(f, S)
  BY DEF SumFunction, SumFunctionOnSet, FoldFunction, FoldFunctionOnSet

\* Division undoes multiplication.
LEMMA DivTimes ==
  ASSUME NEW a \in Positive, NEW q \in Nat
  PROVE  (a * q) \div a = q
  BY DEF Positive

\* The greater a divisor, the less its share.
LEMMA Divisors ==
  ASSUME NEW a \in Positive, NEW b \in Positive, NEW q \in Positive, NEW r \in Positive,
         a < b, a * q = b * r
  PROVE  q > r
<1>1. SUFFICES ASSUME q <= r PROVE FALSE
  BY DEF Positive
<1>2. a * q <= a * r
  BY <1>1 DEF Positive
<1>3. a * r < b * r
  BY DEF Positive
<1> QED
  BY <1>2, <1>3 DEF Positive

-----------------------------------------------------------------------------
(* Positions in the searches.                                              *)

\* The ranks within one search.
LEMMA RankingFacts ==
  ASSUME NEW C, NEW r \in Rankings(C)
  PROVE  /\ r \in Seq(C) /\ Len(r) \in 0..SearchLimit /\ DOMAIN r = 1..Len(r)
         /\ ToSet(r) \subseteq C /\ IsFiniteSet(ToSet(r))
         /\ \A c \in ToSet(r) : Position(r, c) \in 1..Len(r) /\ r[Position(r, c)] = c
         /\ \A i \in 1..Len(r) : r[i] \in ToSet(r) /\ Position(r, r[i]) = i
<1>1. PICK m \in 0..SearchLimit : r \in [1..m -> C]
  BY DEF Rankings, BoundedSeq, SeqOf
<1>2. m \in Nat /\ SearchLimit \in Nat
  BY RetrievalAssumption
<1>3. r \in Seq(C) /\ Len(r) = m /\ DOMAIN r = 1..m
  BY <1>1, <1>2
<1>4. IsFiniteSet(ToSet(r))
  <2>1. IsFiniteSet(1..m)
    BY <1>2, FS_Interval
  <2>2. r \in Surjection(1..m, ToSet(r))
    BY <1>1, <1>3 DEF Surjection, ToSet
  <2> QED
    BY <2>1, <2>2, FS_Surjection
<1>5. ASSUME NEW c \in ToSet(r)
      PROVE  Position(r, c) \in 1..m /\ r[Position(r, c)] = c
  <2>1. \E i \in DOMAIN r : r[i] = c
    BY DEF ToSet
  <2> QED
    BY <1>3, <2>1 DEF Position
<1>6. ASSUME NEW i \in 1..m
      PROVE  r[i] \in ToSet(r) /\ Position(r, r[i]) = i
  <2>1. r[i] \in ToSet(r)
    BY <1>3 DEF ToSet
  <2>2. Position(r, r[i]) \in 1..m /\ r[Position(r, r[i])] = r[i]
    BY <1>5, <2>1
  <2> QED
    BY <1>3, <2>1, <2>2 DEF Rankings, IsInjective
<1> QED
  BY <1>1, <1>2, <1>3, <1>4, <1>5, <1>6 DEF ToSet

\* The ranks of a chunk in several searches.
LEMMA ListingFacts ==
  ASSUME NEW searches \in Seq(Rankings(Chunks)), NEW c
  PROVE  /\ Listing(searches, c) \subseteq 1..Len(searches) /\ IsFiniteSet(Listing(searches, c))
         /\ c \in Listed(searches) <=> Listing(searches, c) # {}
         /\ \A k \in Listing(searches, c) :
                /\ Position(searches[k], c) \in 1..SearchLimit
                /\ Position(searches[k], c) \in 1..Len(searches[k])
                /\ searches[k][Position(searches[k], c)] = c
<1>1. DOMAIN searches = 1..Len(searches) /\ Len(searches) \in Nat
  OBVIOUS
<1>2. Listing(searches, c) \subseteq 1..Len(searches)
  BY <1>1 DEF Listing
<1>3. IsFiniteSet(1..Len(searches))
  BY <1>1, FS_Interval
<1>4. IsFiniteSet(Listing(searches, c))
  BY <1>2, <1>3, FS_Subset
<1>5. c \in Listed(searches) <=> Listing(searches, c) # {}
  BY DEF Listed, Listing
<1>6. ASSUME NEW k \in Listing(searches, c)
      PROVE  /\ Position(searches[k], c) \in 1..SearchLimit
             /\ Position(searches[k], c) \in 1..Len(searches[k])
             /\ searches[k][Position(searches[k], c)] = c
  <2>1. searches[k] \in Rankings(Chunks) /\ c \in ToSet(searches[k])
    BY <1>1 DEF Listing
  <2>2. /\ Len(searches[k]) \in 0..SearchLimit
        /\ Position(searches[k], c) \in 1..Len(searches[k])
        /\ searches[k][Position(searches[k], c)] = c
    BY <2>1, RankingFacts
  <2> QED
    BY <2>2, RetrievalAssumption
<1> QED
  BY <1>2, <1>4, <1>5, <1>6

\* Finitely many chunks are listed.
LEMMA ListedFacts ==
  ASSUME NEW searches \in Seq(Rankings(Chunks))
  PROVE  IsFiniteSet(Listed(searches)) /\ Listed(searches) \subseteq Chunks
<1>1. DOMAIN searches = 1..Len(searches) /\ Len(searches) \in Nat
  OBVIOUS
<1>2. \A k \in 1..Len(searches) : IsFiniteSet(ToSet(searches[k])) /\ ToSet(searches[k]) \subseteq Chunks
  BY <1>1, RankingFacts
<1> DEFINE L == {ToSet(searches[k]) : k \in 1..Len(searches)}
           f == [k \in 1..Len(searches) |-> ToSet(searches[k])]
<1>3. IsFiniteSet(L)
  <2>1. IsFiniteSet(1..Len(searches))
    BY <1>1, FS_Interval
  <2>2. f \in Surjection(1..Len(searches), L)
    BY DEF Surjection
  <2> HIDE DEF f, L
  <2> QED
    BY <2>1, <2>2, FS_Surjection
<1>4. \A T \in L : IsFiniteSet(T)
  BY <1>2
<1>5. Listed(searches) = UNION L
  BY <1>1 DEF Listed
<1>6. IsFiniteSet(UNION L)
  <2> HIDE DEF L
  <2> QED
    BY <1>3, <1>4, FS_UNION
<1>7. Listed(searches) \subseteq Chunks
  BY <1>2, <1>5
<1> QED
  BY <1>5, <1>6, <1>7

\* Shares are positive and fall with the rank.
LEMMA Shares ==
  /\ \A i \in 1..SearchLimit : Share(i) \in Positive
  /\ \A i, j \in 1..SearchLimit : i < j => Share(i) > Share(j)
<1> DEFINE S == {RankConstant + i : i \in 1..SearchLimit}
<1>1. RankConstant \in Positive /\ SearchLimit \in Nat
  BY RetrievalAssumption DEF Positive
<1>2. S \subseteq Positive
  BY <1>1 DEF Positive
<1>3. IsFiniteSet(S)
  <2> DEFINE f == [i \in 1..SearchLimit |-> RankConstant + i]
  <2>1. IsFiniteSet(1..SearchLimit)
    BY <1>1, FS_Interval
  <2>2. f \in Surjection(1..SearchLimit, S)
    BY DEF Surjection
  <2> HIDE DEF f, S
  <2> QED
    BY <2>1, <2>2, FS_Surjection
<1>4. \A i \in 1..SearchLimit : RankConstant + i \in S
  OBVIOUS
<1>5. Unit = ProductSet(S)
  BY DEF Unit
<1> HIDE DEF S
<1>6. \A i \in 1..SearchLimit : \E q \in Positive : Unit = (RankConstant + i) * q
  BY <1>2, <1>3, <1>4, <1>5, Products
<1>7. ASSUME NEW i \in 1..SearchLimit
      PROVE  Share(i) \in Positive /\ Unit = (RankConstant + i) * Share(i) /\ RankConstant + i \in Positive
  <2>1. PICK q \in Positive : Unit = (RankConstant + i) * q
    BY <1>6
  <2>2. RankConstant + i \in Positive
    BY <1>2, <1>4
  <2>3. Unit \div (RankConstant + i) = q
    BY <2>1, <2>2, DivTimes DEF Positive
  <2> QED
    BY <2>1, <2>2, <2>3 DEF Share
<1>8. ASSUME NEW i \in 1..SearchLimit, NEW j \in 1..SearchLimit, i < j
      PROVE  Share(i) > Share(j)
  <2>1. RankConstant + i < RankConstant + j
    BY <1>1, <1>8 DEF Positive
  <2> QED
    BY <1>7, <2>1, Divisors
<1> QED
  BY <1>7, <1>8


\* Sums grow with their elements and with their values.
LEMMA SumAtMost ==
  ASSUME NEW S, IsFiniteSet(S), NEW R \in SUBSET S, NEW f, NEW h,
         \A x \in S : f[x] \in Nat, \A x \in S : h[x] \in Nat, \A x \in R : h[x] <= f[x]
  PROVE  SumFunctionOnSet(h, R) <= SumFunctionOnSet(f, S)
<1> DEFINE F == {T \in SUBSET S : ~(SumFunctionOnSet(h, T \cap R) <= SumFunctionOnSet(f, T))}
<1>1. SUFFICES F = {}
  <2>1. S \notin F
    BY <1>1
  <2>2. S \cap R = R
    OBVIOUS
  <2> QED
    BY <2>1, <2>2
<1>2. SUFFICES ASSUME F # {} PROVE FALSE
  OBVIOUS
<1>3. PICK T \in F : \A U \in F : U \subseteq T => U = T
  <2>1. F \in SUBSET (SUBSET S)
    OBVIOUS
  <2> HIDE DEF F
  <2> QED
    BY <1>2, <2>1, LeastSubset
<1>4. T \in SUBSET S /\ ~(SumFunctionOnSet(h, T \cap R) <= SumFunctionOnSet(f, T))
  OBVIOUS
<1>5. ASSUME NEW U \in SUBSET S
      PROVE  /\ SumFunctionOnSet(f, U) \in Nat /\ SumFunctionOnSet(f, {}) = 0
             /\ \A x \in U : SumFunctionOnSet(f, U) = f[x] + SumFunctionOnSet(f, U \ {x})
  <2>1. IsFiniteSet(U) /\ \A x \in U : f[x] \in Nat
    BY FS_Subset
  <2> QED
    BY <2>1, Sums
<1>6. ASSUME NEW U \in SUBSET S
      PROVE  /\ SumFunctionOnSet(h, U) \in Nat /\ SumFunctionOnSet(h, {}) = 0
             /\ \A x \in U : SumFunctionOnSet(h, U) = h[x] + SumFunctionOnSet(h, U \ {x})
  <2>1. IsFiniteSet(U) /\ \A x \in U : h[x] \in Nat
    BY FS_Subset
  <2> QED
    BY <2>1, Sums
<1>7. T # {}
  <2>1. SUFFICES ASSUME T = {} PROVE FALSE
    OBVIOUS
  <2>2. T \cap R = {} /\ {} \in SUBSET S
    BY <2>1
  <2>3. SumFunctionOnSet(h, T \cap R) = 0 /\ SumFunctionOnSet(f, T) = 0
    BY <1>5, <1>6, <2>1, <2>2
  <2> QED
    BY <1>4, <2>3
<1>8. PICK x \in T : TRUE
  BY <1>7
<1> DEFINE U == T \ {x}
<1>9. U \in SUBSET S /\ U \notin F
  BY <1>3, <1>4
<1>10. SumFunctionOnSet(h, U \cap R) <= SumFunctionOnSet(f, U)
  BY <1>9
<1>11. SumFunctionOnSet(f, T) = f[x] + SumFunctionOnSet(f, U)
  BY <1>4, <1>5
<1>12. /\ SumFunctionOnSet(f, U) \in Nat /\ SumFunctionOnSet(h, U \cap R) \in Nat
       /\ f[x] \in Nat /\ h[x] \in Nat
  <2>1. U \cap R \in SUBSET S /\ x \in S
    BY <1>4
  <2> HIDE DEF U, F
  <2> QED
    BY <1>5, <1>6, <1>9, <2>1
<1>13. CASE x \in R
  <2>1. x \in T \cap R /\ (T \cap R) \ {x} = U \cap R /\ T \cap R \in SUBSET S
    BY <1>13
  <2>2. SumFunctionOnSet(h, T \cap R) = h[x] + SumFunctionOnSet(h, U \cap R)
    BY <1>6, <2>1
  <2>3. h[x] <= f[x]
    BY <1>13
  <2> HIDE DEF U, F
  <2> QED
    BY <1>4, <1>10, <1>11, <1>12, <2>2, <2>3
<1>14. CASE x \notin R
  <2>1. SumFunctionOnSet(h, T \cap R) = SumFunctionOnSet(h, U \cap R)
    <3>1. T \cap R = U \cap R
      BY <1>14
    <3> QED
      BY <3>1
  <2> HIDE DEF U, F
  <2> QED
    BY <1>4, <1>10, <1>11, <1>12, <2>1
<1> QED
  BY <1>13, <1>14

\* One element that is left out or smaller makes a sum smaller.
LEMMA SumLess ==
  ASSUME NEW S, IsFiniteSet(S), NEW R \in SUBSET S, NEW f, NEW h,
         \A x \in S : f[x] \in Nat, \A x \in S : h[x] \in Nat, \A x \in R : h[x] <= f[x],
         NEW y \in S, f[y] > 0, y \in R => h[y] < f[y]
  PROVE  SumFunctionOnSet(h, R) < SumFunctionOnSet(f, S)
<1> DEFINE U == S \ {y}
           Q == R \ {y}
<1>1. IsFiniteSet(U) /\ IsFiniteSet(R) /\ Q \in SUBSET U /\ IsFiniteSet(Q)
  <2>1. U \in SUBSET S /\ Q \in SUBSET S /\ Q \in SUBSET U
    OBVIOUS
  <2> HIDE DEF U, Q
  <2> QED
    BY <2>1, FS_Subset
<1>2. SumFunctionOnSet(h, Q) <= SumFunctionOnSet(f, U)
  <2>1. (\A x \in U : f[x] \in Nat) /\ (\A x \in U : h[x] \in Nat) /\ (\A x \in Q : h[x] <= f[x])
    OBVIOUS
  <2> HIDE DEF U, Q
  <2> QED
    BY <1>1, <2>1, SumAtMost
<1>3. SumFunctionOnSet(f, S) = f[y] + SumFunctionOnSet(f, U)
  BY Sums
<1>4. SumFunctionOnSet(f, U) \in Nat
  <2>1. \A x \in U : f[x] \in Nat
    OBVIOUS
  <2> HIDE DEF U
  <2> QED
    BY <1>1, <2>1, Sums
<1>5. SumFunctionOnSet(h, Q) \in Nat
  <2>1. \A x \in Q : h[x] \in Nat
    OBVIOUS
  <2> HIDE DEF Q
  <2> QED
    BY <1>1, <2>1, Sums
<1>6. f[y] \in Nat /\ h[y] \in Nat
  OBVIOUS
<1>7. CASE y \in R
  <2>1. \A x \in R : h[x] \in Nat
    OBVIOUS
  <2>2. SumFunctionOnSet(h, R) = h[y] + SumFunctionOnSet(h, Q)
    BY <1>1, <1>7, <2>1, Sums
  <2> HIDE DEF Q, U
  <2> QED
    BY <1>2, <1>3, <1>4, <1>5, <1>6, <1>7, <2>2
<1>8. CASE y \notin R
  <2>1. R = Q
    BY <1>8
  <2> HIDE DEF Q, U
  <2> QED
    BY <1>2, <1>3, <1>4, <1>5, <1>6, <2>1
<1> QED
  BY <1>7, <1>8

-----------------------------------------------------------------------------
(* Rank fusion.                                                            *)

\* A set of ranks has a best one.
LEMMA LeastRank ==
  ASSUME NEW S \in SUBSET Nat, S # {}
  PROVE  Min(S) \in S /\ \A n \in S : Min(S) <= n
  BY LeastNumber DEF Min

\* The keys of the order are numbers.
LEMMA Keys ==
  ASSUME NEW searches \in Seq(Rankings(Chunks)), NEW c \in Listed(searches)
  PROVE  Score(searches, c) \in Nat /\ RankSum(searches, c) \in Nat /\ BestRank(searches, c) \in Nat
<1> DEFINE L == Listing(searches, c)
           share == [k \in L |-> Share(Position(searches[k], c))]
           rank == [k \in L |-> Position(searches[k], c)]
<1>1. IsFiniteSet(L) /\ L # {} /\ \A k \in L : Position(searches[k], c) \in 1..SearchLimit
  BY ListingFacts
<1>2. Score(searches, c) = SumFunctionOnSet(share, L) /\ RankSum(searches, c) = SumFunctionOnSet(rank, L)
  <2>1. DOMAIN share = L /\ DOMAIN rank = L
    OBVIOUS
  <2>2. Score(searches, c) = SumFunction(share) /\ RankSum(searches, c) = SumFunction(rank)
    BY DEF Score, RankSum
  <2> HIDE DEF share, rank, L
  <2> QED
    BY <2>1, <2>2, SumFunctionIs
<1>3. \A k \in L : share[k] \in Nat /\ rank[k] \in Nat
  BY <1>1, Shares DEF Positive
<1>4. SumFunctionOnSet(share, L) \in Nat
  <2> HIDE DEF share, rank, L
  <2> QED
    BY <1>1, <1>3, Sums
<1>5. SumFunctionOnSet(rank, L) \in Nat
  <2> HIDE DEF share, rank, L
  <2> QED
    BY <1>1, <1>3, Sums
<1>6. BestRank(searches, c) \in Nat
  <2> DEFINE P == {Position(searches[k], c) : k \in L}
  <2>1. P \in SUBSET Nat /\ P # {}
    BY <1>1
  <2>2. BestRank(searches, c) = Min(P)
    BY DEF BestRank
  <2> HIDE DEF P
  <2> QED
    BY <2>1, <2>2, LeastRank
<1> QED
  BY <1>2, <1>4, <1>5, <1>6

\* It is a strict order on the chunks found.
LEMMA OutranksOrders ==
  ASSUME NEW searches \in Seq(Rankings(Chunks)),
         NEW c \in Listed(searches), NEW d \in Listed(searches), NEW e \in Listed(searches)
  PROVE  /\ ~Outranks(searches, c, c)
         /\ Outranks(searches, c, d) /\ Outranks(searches, d, e) => Outranks(searches, c, e)
         /\ c # d => Outranks(searches, c, d) \/ Outranks(searches, d, c)
<1>1. /\ Score(searches, c) \in Nat /\ RankSum(searches, c) \in Nat /\ BestRank(searches, c) \in Nat
      /\ Score(searches, d) \in Nat /\ RankSum(searches, d) \in Nat /\ BestRank(searches, d) \in Nat
      /\ Score(searches, e) \in Nat /\ RankSum(searches, e) \in Nat /\ BestRank(searches, e) \in Nat
  BY Keys
<1>2. c \in Chunks /\ d \in Chunks /\ e \in Chunks
  BY ListedFacts
<1>3. /\ c.doc \in Nat /\ c.version \in Nat /\ c.part \in Nat
      /\ d.doc \in Nat /\ d.version \in Nat /\ d.part \in Nat
      /\ e.doc \in Nat /\ e.version \in Nat /\ e.part \in Nat
  <2>1. \A x \in Chunks : x.doc \in Documents /\ x.version \in 1..MaxPublished /\ x.part \in Parts
    BY DEF Chunks
  <2>2. Documents \subseteq Nat /\ Parts \subseteq Nat /\ 1..MaxPublished \subseteq Nat
    BY RetrievalAssumption
  <2> QED
    BY <1>2, <2>1, <2>2
<1>4. ~IdBefore(c, c) /\ (IdBefore(c, d) /\ IdBefore(d, e) => IdBefore(c, e))
  BY SMTT(30), <1>3 DEF IdBefore
<1>5. c # d => IdBefore(c, d) \/ IdBefore(d, c)
  <2>1. c = [doc |-> c.doc, version |-> c.version, part |-> c.part]
    BY <1>2 DEF Chunks
  <2>2. d = [doc |-> d.doc, version |-> d.version, part |-> d.part]
    BY <1>2 DEF Chunks
  <2> QED
    BY <1>3, <2>1, <2>2 DEF IdBefore
<1>6. ~Outranks(searches, c, c)
  BY <1>1, <1>4 DEF Outranks
<1>7. Outranks(searches, c, d) /\ Outranks(searches, d, e) => Outranks(searches, c, e)
  BY <1>1, <1>4 DEF Outranks
<1>8. c # d => Outranks(searches, c, d) \/ Outranks(searches, d, c)
  BY <1>1, <1>5 DEF Outranks
<1> QED
  BY <1>6, <1>7, <1>8

\* Places count from one up, and every chunk found has its own.
LEMMA Places ==
  ASSUME NEW searches \in Seq(Rankings(Chunks))
  PROVE  LET L == Listed(searches) IN
         /\ \A c \in L : Place(searches, c) \in 1..Cardinality(L)
         /\ \A c, d \in L : Outranks(searches, c, d) => Place(searches, c) < Place(searches, d)
         /\ \A i \in 1..Cardinality(L) : \E c \in L : Place(searches, c) = i
<1> DEFINE L == Listed(searches)
           n == Cardinality(L)
           ahead(c) == {e \in L : Outranks(searches, e, c)}
           place == [c \in L |-> Place(searches, c)]
<1>1. IsFiniteSet(L) /\ n \in Nat
  BY ListedFacts, FS_CardinalityType
<1>2. ASSUME NEW c \in L
      PROVE  /\ IsFiniteSet(ahead(c)) /\ Cardinality(ahead(c)) \in Nat
             /\ Place(searches, c) = Cardinality(ahead(c)) + 1
  <2>1. ahead(c) \in SUBSET L
    OBVIOUS
  <2>2. Place(searches, c) = Cardinality(ahead(c)) + 1
    BY DEF Place
  <2> HIDE DEF ahead, L
  <2> QED
    BY <1>1, <2>1, <2>2, FS_Subset, FS_CardinalityType
<1>3. ASSUME NEW c \in L
      PROVE  Place(searches, c) \in 1..n
  <2>1. ahead(c) \in SUBSET (L \ {c})
    BY OutranksOrders
  <2>2. IsFiniteSet(L \ {c}) /\ Cardinality(L \ {c}) = n - 1
    BY <1>1, FS_RemoveElement
  <2>3. Cardinality(ahead(c)) <= n - 1
    <3> HIDE DEF ahead, L, n
    <3> QED
      BY <2>1, <2>2, FS_Subset
  <2> HIDE DEF ahead, L, n
  <2> QED
    BY <1>1, <1>2, <2>3
<1>4. ASSUME NEW c \in L, NEW d \in L, Outranks(searches, c, d)
      PROVE  Place(searches, c) < Place(searches, d)
  <2>1. ahead(c) \cup {c} \in SUBSET ahead(d) /\ c \notin ahead(c)
    BY <1>4, OutranksOrders
  <2>2. Cardinality(ahead(c) \cup {c}) = Cardinality(ahead(c)) + 1
    <3> HIDE DEF ahead, L
    <3> QED
      BY <1>2, <2>1, FS_AddElement
  <2>3. Cardinality(ahead(c) \cup {c}) <= Cardinality(ahead(d))
    <3> HIDE DEF ahead, L
    <3> QED
      BY <1>2, <2>1, FS_Subset
  <2> HIDE DEF ahead, L, n
  <2> QED
    BY <1>2, <2>2, <2>3
<1>5. place \in Injection(L, 1..n)
  <2>1. ASSUME NEW c \in L, NEW d \in L, c # d
        PROVE  place[c] # place[d]
    <3>1. Outranks(searches, c, d) \/ Outranks(searches, d, c)
      BY <2>1, OutranksOrders
    <3>2. Place(searches, c) \in Nat /\ Place(searches, d) \in Nat
      BY <1>1, <1>3
    <3> QED
      BY <1>4, <3>1, <3>2
  <2> HIDE DEF n
  <2>2. place \in [L -> 1..n]
    BY <1>3
  <2> HIDE DEF place, L
  <2> QED
    BY <2>1, <2>2 DEF Injection, IsInjective
<1>6. place \in Surjection(L, 1..n)
  <2>1. IsFiniteSet(1..n) /\ Cardinality(1..n) = n
    BY <1>1, FS_Interval
  <2> HIDE DEF place, L
  <2> QED
    BY <1>5, <2>1, FS_Injection
<1>7. \A i \in 1..n : \E c \in L : Place(searches, c) = i
  <2> HIDE DEF L, n
  <2> QED
    BY <1>6 DEF Surjection
<1> QED
  BY <1>3, <1>4, <1>7

-----------------------------------------------------------------------------
(* The sorted chunks and the candidates.                                   *)

\* Sorting puts every listed chunk at its place.
LEMMA SortedFacts ==
  ASSUME NEW searches \in Seq(Rankings(Chunks))
  PROVE  LET L == Listed(searches)
             s == Sorted(searches)
         IN  /\ s \in Seq(L) /\ Len(s) = Cardinality(L)
             /\ \A i \in 1..Len(s) : Place(searches, s[i]) = i
             /\ \A c \in L : Place(searches, c) \in 1..Len(s) /\ s[Place(searches, c)] = c
<1> DEFINE L == Listed(searches)
           n == Cardinality(L)
           placed == {<<Place(searches, c), c>> : c \in L}
           chunk(i) == CHOOSE c \in L : <<i, c>> \in placed
           s == Sorted(searches)
<1>1. IsFiniteSet(L) /\ n \in Nat
  BY ListedFacts, FS_CardinalityType
<1>2. /\ \A c \in L : Place(searches, c) \in 1..n
      /\ \A c, d \in L : Outranks(searches, c, d) => Place(searches, c) < Place(searches, d)
      /\ \A i \in 1..n : \E c \in L : Place(searches, c) = i
  BY Places
<1>3. \A c, d \in L : Place(searches, c) = Place(searches, d) => c = d
  <2> SUFFICES ASSUME NEW c \in L, NEW d \in L, c # d
               PROVE  Place(searches, c) # Place(searches, d)
    OBVIOUS
  <2>1. Outranks(searches, c, d) \/ Outranks(searches, d, c)
    BY OutranksOrders
  <2>2. Place(searches, c) \in Nat /\ Place(searches, d) \in Nat
    BY <1>1, <1>2
  <2> QED
    BY <1>2, <2>1, <2>2
<1>4. Cardinality(placed) = n
  <2> DEFINE f == [c \in L |-> <<Place(searches, c), c>>]
  <2>1. f \in Bijection(L, placed)
    <3>1. f \in [L -> placed] /\ \A c, d \in L : f[c] = f[d] => c = d
      OBVIOUS
    <3>2. \A t \in placed : \E c \in L : f[c] = t
      OBVIOUS
    <3> HIDE DEF f, placed, L
    <3> QED
      BY <3>1, <3>2 DEF Bijection, Injection, Surjection, IsInjective
  <2> HIDE DEF f, placed, L
  <2> QED
    BY <1>1, <2>1, FS_Bijection DEF ExistsBijection
<1>5. \A i, c : <<i, c>> \in placed <=> c \in L /\ Place(searches, c) = i
  OBVIOUS
<1>6. \A i \in 1..n : chunk(i) \in L /\ Place(searches, chunk(i)) = i
  <2> HIDE DEF placed, L, n
  <2> QED
    BY <1>2, <1>5
<1>7. s = [i \in 1..n |-> chunk(i)]
  <2>1. s = [i \in 1..Cardinality(placed) |-> chunk(i)]
    BY Zenon DEF Sorted
  <2> QED
    BY <1>4, <2>1
<1> HIDE DEF chunk, placed, n, L, s
<1>8. s \in Seq(L) /\ Len(s) = n /\ DOMAIN s = 1..n
  BY <1>1, <1>6, <1>7
<1>9. \A i \in 1..n : Place(searches, s[i]) = i /\ s[i] \in L
  BY <1>6, <1>7
<1>10. \A c \in L : Place(searches, c) \in 1..n /\ s[Place(searches, c)] = c
  BY <1>2, <1>3, <1>9
<1> QED
  BY <1>8, <1>9, <1>10 DEF s, L, n

\* The first elements of a sequence.
LEMMA FirstOfFacts ==
  ASSUME NEW C, NEW s \in Seq(C), NEW n \in Nat
  PROVE  /\ FirstOf(s, n) \in Seq(C) /\ Len(FirstOf(s, n)) = IF Len(s) < n THEN Len(s) ELSE n
         /\ \A i \in 1..Len(FirstOf(s, n)) : FirstOf(s, n)[i] = s[i]
<1> DEFINE m == IF Len(s) < n THEN Len(s) ELSE n
<1>1. Len(s) \in Nat /\ m \in 0..Len(s)
  OBVIOUS
<1>2. FirstOf(s, n) = SubSeq(s, 1, m)
  BY DEF FirstOf
<1> HIDE DEF m
<1>3. FirstOf(s, n) \in Seq(C) /\ Len(FirstOf(s, n)) = m /\ \A i \in 1..m : FirstOf(s, n)[i] = s[i]
  BY <1>1, <1>2
<1> QED
  BY <1>3 DEF m

\* The candidates are the first of the sorted chunks.
LEMMA CandidateFacts ==
  ASSUME NEW searches \in Seq(Rankings(Chunks))
  PROVE  LET t == Candidates(searches) IN
         /\ t \in Seq(Listed(searches)) /\ ToSet(t) \subseteq Listed(searches)
         /\ \A i \in 1..Len(t) : Place(searches, t[i]) = i
         /\ \A c \in Listed(searches) :
                /\ c \in ToSet(t) <=> Place(searches, c) <= Len(t)
                /\ c \in ToSet(t) => Position(t, c) = Place(searches, c)
<1> DEFINE L == Listed(searches)
           s == Sorted(searches)
           f == Fused(searches)
           t == Candidates(searches)
<1>1. FusedLimit \in Nat /\ FinalLimit \in Nat
  BY RetrievalAssumption
<1>2. /\ s \in Seq(L) /\ \A i \in 1..Len(s) : Place(searches, s[i]) = i
      /\ \A c \in L : Place(searches, c) \in 1..Len(s) /\ s[Place(searches, c)] = c
  BY SortedFacts
<1>3. f \in Seq(L) /\ Len(f) <= Len(s) /\ \A i \in 1..Len(f) : f[i] = s[i]
  <2>1. f = FirstOf(s, FusedLimit)
    BY DEF Fused
  <2> HIDE DEF f, s, L
  <2> QED
    BY SMTT(30), <1>1, <1>2, <2>1, FirstOfFacts
<1>4. t \in Seq(L) /\ Len(t) <= Len(f) /\ \A i \in 1..Len(t) : t[i] = f[i]
  <2>1. t = FirstOf(f, FinalLimit)
    BY DEF Candidates
  <2> HIDE DEF f, t, L
  <2> QED
    BY <1>1, <1>3, <2>1, FirstOfFacts
<1> HIDE DEF f, t, s, L
<1>5. /\ Len(t) \in Nat /\ Len(f) \in Nat /\ Len(s) \in Nat /\ Len(t) <= Len(s)
      /\ DOMAIN t = 1..Len(t) /\ \A i \in 1..Len(t) : t[i] = s[i] /\ t[i] \in L
  <2>1. Len(t) \in Nat /\ Len(f) \in Nat /\ Len(s) \in Nat /\ Len(t) <= Len(s) /\ DOMAIN t = 1..Len(t)
    BY <1>2, <1>3, <1>4
  <2>2. ASSUME NEW i \in 1..Len(t)
        PROVE  t[i] = s[i] /\ t[i] \in L
    <3>1. i \in 1..Len(f)
      BY <1>4, <2>1
    <3>2. t[i] = s[i]
      BY <1>3, <1>4, <3>1
    <3> QED
      BY <1>4, <3>2
  <2> QED
    BY <2>1, <2>2
<1>6. ASSUME NEW i \in 1..Len(t)
      PROVE  Place(searches, t[i]) = i
  <2>1. i \in 1..Len(s) /\ t[i] = s[i]
    BY <1>5
  <2> QED
    BY <1>2, <2>1
<1>7. ToSet(t) \subseteq L
  BY <1>5 DEF ToSet
<1>8. ASSUME NEW c \in L
      PROVE  /\ c \in ToSet(t) <=> Place(searches, c) <= Len(t)
             /\ c \in ToSet(t) => Position(t, c) = Place(searches, c)
  <2>1. Place(searches, c) \in 1..Len(s) /\ s[Place(searches, c)] = c
    BY <1>2
  <2>2. c \in ToSet(t) <=> \E i \in 1..Len(t) : t[i] = c
    BY <1>5 DEF ToSet
  <2>3. c \in ToSet(t) <=> Place(searches, c) <= Len(t)
    BY <1>5, <1>6, <2>1, <2>2
  <2>4. ASSUME c \in ToSet(t)
        PROVE  Position(t, c) = Place(searches, c)
    <3>1. \E i \in DOMAIN t : t[i] = c
      BY <2>4 DEF ToSet
    <3>2. Position(t, c) \in DOMAIN t /\ t[Position(t, c)] = c
      BY <3>1 DEF Position
    <3> QED
      BY <1>5, <1>6, <3>2
  <2> QED
    BY <2>3, <2>4
<1> QED
  BY <1>4, <1>6, <1>7, <1>8 DEF t, L

\* Who dominates goes first.
LEMMA DominanceOutranks ==
  ASSUME NEW searches \in Seq(Rankings(Chunks)),
         NEW c \in Listed(searches), NEW e \in Listed(searches), Dominates(searches, c, e)
  PROVE  Outranks(searches, c, e)
<1> DEFINE A == Listing(searches, c)
           B == Listing(searches, e)
           pos(k, x) == Position(searches[k], x)
           f == [k \in A |-> Share(pos(k, c))]
           h == [k \in B |-> Share(pos(k, e))]
<1>1. IsFiniteSet(A) /\ \A k \in A : pos(k, c) \in 1..SearchLimit
  BY ListingFacts
<1>2. IsFiniteSet(B) /\ \A k \in B : pos(k, e) \in 1..SearchLimit
  BY ListingFacts
<1>3. B \subseteq A /\ \A k \in B : pos(k, c) < pos(k, e)
  BY DEF Dominates
<1>4. PICK y \in A : y \in B => pos(y, c) < pos(y, e)
  BY DEF Dominates
<1> DEFINE g == [k \in A |-> IF k \in B THEN Share(pos(k, e)) ELSE 0]
<1>5. Score(searches, c) = SumFunctionOnSet(f, A)
  <2>1. DOMAIN f = A
    OBVIOUS
  <2>2. Score(searches, c) = SumFunction(f)
    BY DEF Score
  <2> HIDE DEF f, A
  <2> QED
    BY <2>1, <2>2, SumFunctionIs
<1>6. Score(searches, e) = SumFunctionOnSet(g, B)
  <2>1. DOMAIN h = B
    OBVIOUS
  <2>2. Score(searches, e) = SumFunction(h)
    BY DEF Score
  <2>3. \A k \in B : h[k] \in Nat /\ h[k] = g[k]
    BY <1>2, <1>3, Shares DEF Positive
  <2> HIDE DEF h, g, B
  <2>4. Score(searches, e) = SumFunctionOnSet(h, B)
    BY <2>1, <2>2, SumFunctionIs
  <2> QED
    BY <1>2, <2>3, <2>4, SumAgree
<1>7. \A k \in A : f[k] \in Nat /\ g[k] \in Nat /\ f[k] > 0
  BY <1>1, <1>2, Shares DEF Positive
<1>8. \A k \in B : g[k] < f[k]
  <2> SUFFICES ASSUME NEW k \in B PROVE g[k] < f[k]
    OBVIOUS
  <2>1. pos(k, c) \in 1..SearchLimit /\ pos(k, e) \in 1..SearchLimit /\ pos(k, c) < pos(k, e)
    BY <1>1, <1>2, <1>3
  <2>2. Share(pos(k, c)) > Share(pos(k, e)) /\ Share(pos(k, c)) \in Nat /\ Share(pos(k, e)) \in Nat
    BY <2>1, Shares DEF Positive
  <2>3. f[k] = Share(pos(k, c)) /\ g[k] = Share(pos(k, e))
    BY <1>3
  <2> QED
    BY <2>2, <2>3
<1>9. SumFunctionOnSet(g, B) < SumFunctionOnSet(f, A)
  <2>1. /\ B \in SUBSET A /\ (\A k \in A : f[k] \in Nat) /\ (\A k \in A : g[k] \in Nat)
        /\ f[y] > 0 /\ (y \in B => g[y] < f[y])
    BY <1>3, <1>7, <1>8
  <2>2. \A k \in B : g[k] <= f[k]
    <3> HIDE DEF f, g
    <3> QED
      BY <1>3, <1>7, <1>8
  <2> HIDE DEF f, g, A, B
  <2> QED
    BY <1>1, <2>1, <2>2, SumLess
<1>10. Score(searches, c) \in Nat /\ Score(searches, e) \in Nat
  BY Keys
<1>11. Score(searches, c) > Score(searches, e)
  <2> HIDE DEF f, g, A, B
  <2> QED
    BY <1>5, <1>6, <1>9, <1>10
<1> QED
  BY <1>11 DEF Outranks

\* Fusion keeps what the searches agree on.
LEMMA FusionRespects ==
  ASSUME NEW searches \in Seq(Rankings(Chunks))
  PROVE  Respects(searches, Candidates(searches))
<1> DEFINE t == Candidates(searches)
<1> SUFFICES ASSUME NEW c \in Listed(searches), NEW e \in Listed(searches),
                    Dominates(searches, c, e), e \in ToSet(t)
             PROVE  c \in ToSet(t) /\ Position(t, c) < Position(t, e)
  BY DEF Respects
<1>1. Outranks(searches, c, e)
  BY DominanceOutranks
<1>2. /\ Place(searches, c) < Place(searches, e)
      /\ Place(searches, c) \in 1..Cardinality(Listed(searches))
      /\ Place(searches, e) \in 1..Cardinality(Listed(searches))
  BY <1>1, Places
<1>3. Cardinality(Listed(searches)) \in Nat
  BY ListedFacts, FS_CardinalityType
<1>4. /\ Len(t) \in Nat
      /\ c \in ToSet(t) <=> Place(searches, c) <= Len(t)
      /\ c \in ToSet(t) => Position(t, c) = Place(searches, c)
      /\ e \in ToSet(t) <=> Place(searches, e) <= Len(t)
      /\ e \in ToSet(t) => Position(t, e) = Place(searches, e)
  BY CandidateFacts
<1> HIDE DEF t
<1> QED
  BY <1>2, <1>3, <1>4

-----------------------------------------------------------------------------
(* The grounding context.                                                  *)

\* Induction, for a set of naturals.
LEMMA Induct ==
  ASSUME NEW S \in SUBSET Nat, 0 \in S, \A n \in S : n + 1 \in S
  PROVE  S = Nat
<1> SUFFICES ASSUME Nat \ S # {} PROVE FALSE
  OBVIOUS
<1>1. PICK n \in Nat \ S : \A m \in Nat \ S : n <= m
  BY LeastNumber
<1>2. n # 0 /\ n - 1 \in Nat
  BY <1>1
<1>3. n - 1 \in S
  BY <1>1, <1>2
<1> QED
  BY <1>1, <1>3

\* Every chunk has an estimate and a document.
LEMMA TokenFacts ==
  \A c \in Chunks : Tokens[c.part] \in Nat /\ c.doc \in Documents
<1>1. \A c \in Chunks : c.part \in Parts /\ c.doc \in Documents
  BY DEF Chunks
<1>2. \A p \in Parts : Tokens[p] \in Nat
  BY RetrievalAssumption
<1> QED
  BY <1>1, <1>2

\* The estimate of a set of blocks grows by that of each block added.
LEMMA Estimates ==
  ASSUME NEW S \in SUBSET Chunks, IsFiniteSet(S)
  PROVE  /\ Estimate(S) \in Nat
         /\ \A c \in Chunks \ S : Estimate(S \cup {c}) = Estimate(S) + Tokens[c.part]
         /\ \A R \in SUBSET S : Estimate(R) <= Estimate(S)
         /\ Estimate({}) = 0
<1> DEFINE W == [c \in Chunks |-> Tokens[c.part]]
<1>1. \A c \in Chunks : W[c] \in Nat /\ W[c] = Tokens[c.part]
  BY TokenFacts
<1>2. ASSUME NEW T \in SUBSET Chunks, IsFiniteSet(T)
      PROVE  /\ Estimate(T) = SumFunctionOnSet(W, T) /\ Estimate(T) \in Nat
             /\ \A c \in T : Estimate(T) = W[c] + SumFunctionOnSet(W, T \ {c})
             /\ SumFunctionOnSet(W, {}) = 0
  <2> DEFINE f == [c \in T |-> Tokens[c.part]]
  <2>1. DOMAIN f = T /\ Estimate(T) = SumFunction(f)
    BY DEF Estimate
  <2>2. \A c \in T : f[c] \in Nat /\ f[c] = W[c]
    BY <1>1
  <2>3. \A c \in T : W[c] \in Nat
    BY <1>1
  <2> HIDE DEF f, W
  <2>4. Estimate(T) = SumFunctionOnSet(f, T)
    BY <2>1, SumFunctionIs
  <2>5. SumFunctionOnSet(f, T) = SumFunctionOnSet(W, T)
    BY <1>2, <2>2, SumAgree
  <2>6. /\ SumFunctionOnSet(W, T) \in Nat /\ SumFunctionOnSet(W, {}) = 0
        /\ \A c \in T : SumFunctionOnSet(W, T) = W[c] + SumFunctionOnSet(W, T \ {c})
    BY <1>2, <2>3, Sums
  <2> QED
    BY <2>4, <2>5, <2>6
<1>3. ASSUME NEW c \in Chunks \ S
      PROVE  Estimate(S \cup {c}) = Estimate(S) + Tokens[c.part]
  <2>1. S \cup {c} \in SUBSET Chunks /\ IsFiniteSet(S \cup {c}) /\ c \in S \cup {c} /\ (S \cup {c}) \ {c} = S
    BY FS_AddElement
  <2>2. Estimate(S \cup {c}) = W[c] + SumFunctionOnSet(W, S)
    <3> HIDE DEF W
    <3> QED
      BY <1>2, <2>1
  <2>3. Estimate(S) = SumFunctionOnSet(W, S) /\ Estimate(S) \in Nat
    BY <1>2
  <2>4. W[c] = Tokens[c.part] /\ Tokens[c.part] \in Nat
    BY <1>1
  <2> HIDE DEF W
  <2> QED
    BY <2>2, <2>3, <2>4
<1>4. ASSUME NEW R \in SUBSET S
      PROVE  Estimate(R) <= Estimate(S)
  <2>1. IsFiniteSet(R) /\ R \in SUBSET Chunks
    BY FS_Subset
  <2>2. Estimate(R) = SumFunctionOnSet(W, R) /\ Estimate(S) = SumFunctionOnSet(W, S)
    BY <1>2, <2>1
  <2>3. (\A x \in S : W[x] \in Nat) /\ (\A x \in R : W[x] <= W[x])
    BY <1>1
  <2> HIDE DEF W
  <2>4. SumFunctionOnSet(W, R) <= SumFunctionOnSet(W, S)
    BY <2>3, SumAtMost
  <2> QED
    BY <2>2, <2>4
<1>5. Estimate({}) = 0
  <2>1. {} \in SUBSET Chunks /\ IsFiniteSet({})
    BY FS_EmptySet
  <2> HIDE DEF W
  <2> QED
    BY <1>2, <2>1
<1>6. Estimate(S) \in Nat
  <2> HIDE DEF W
  <2> QED
    BY <1>2
<1> QED
  BY <1>3, <1>4, <1>5, <1>6

\* A block that has room leaves the context within its budget.
LEMMA FitsKeepsBudget ==
  ASSUME NEW b \in Seq(Chunks), NEW c \in Chunks \ ToSet(b), Fits(c, b),
         IsFiniteSet(ToSet(b)), Len(b) = Cardinality(ToSet(b)), WithinBudget(ToSet(b))
  PROVE  /\ WithinBudget(ToSet(b) \cup {c}) /\ IsFiniteSet(ToSet(b) \cup {c})
         /\ Cardinality(ToSet(b) \cup {c}) = Len(b) + 1
<1> DEFINE S == ToSet(b)
<1>1. S \in SUBSET Chunks /\ Len(b) \in Nat
  BY DEF ToSet
<1>2. IsFiniteSet(S \cup {c}) /\ Cardinality(S \cup {c}) = Len(b) + 1
  BY FS_AddElement
<1>3. MaxBlocks \in Nat /\ MaxTokens \in Nat /\ MaxBlocksPerDocument \in Nat
  BY RetrievalAssumption
<1>4. Cardinality(S \cup {c}) <= MaxBlocks
  BY <1>1, <1>2, <1>3 DEF Fits
<1>5. Estimate(S \cup {c}) <= MaxTokens
  <2>1. Estimate(S) + Tokens[c.part] <= MaxTokens
    BY DEF Fits
  <2> HIDE DEF S
  <2> QED
    BY <1>1, <2>1, Estimates DEF S
<1>6. ASSUME NEW d \in Documents
      PROVE  Cardinality(OfDocument(d, S \cup {c})) <= MaxBlocksPerDocument
  <2>1. OfDocument(d, S) \in SUBSET S
    BY DEF OfDocument
  <2>2. IsFiniteSet(OfDocument(d, S)) /\ Cardinality(OfDocument(d, S)) \in Nat
    BY <2>1, FS_Subset, FS_CardinalityType
  <2>3. Cardinality(OfDocument(d, S)) <= MaxBlocksPerDocument
    BY DEF WithinBudget
  <2>4. CASE c.doc = d
    <3>1. OfDocument(d, S \cup {c}) = OfDocument(d, S) \cup {c}
      BY <2>4 DEF OfDocument
    <3>2. Cardinality(OfDocument(d, S)) < MaxBlocksPerDocument
      BY <2>4 DEF Fits
    <3>3. c \notin OfDocument(d, S)
      BY <2>1
    <3>4. Cardinality(OfDocument(d, S) \cup {c}) = Cardinality(OfDocument(d, S)) + 1
      BY <2>2, <3>3, FS_AddElement
    <3>5. Cardinality(OfDocument(d, S) \cup {c}) <= MaxBlocksPerDocument
      <4> HIDE DEF S
      <4> QED
        BY <1>3, <2>2, <3>2, <3>4
    <3> QED
      BY <3>1, <3>5
  <2>5. CASE c.doc # d
    <3>1. OfDocument(d, S \cup {c}) = OfDocument(d, S)
      BY <2>5 DEF OfDocument
    <3> QED
      BY <2>3, <3>1
  <2> QED
    BY <2>4, <2>5
<1> QED
  BY <1>2, <1>4, <1>5, <1>6 DEF WithinBudget

\* A block that had no room has none later either.
LEMMA NoRoomLater ==
  ASSUME NEW b \in Seq(Chunks), NEW c \in Chunks, ~Fits(c, b),
         Len(b) = Cardinality(ToSet(b)),
         NEW S \in SUBSET Chunks, IsFiniteSet(S), ToSet(b) \subseteq S, c \notin S
  PROVE  ~WithinBudget(S \cup {c})
<1> DEFINE R == ToSet(b)
<1>1. R \in SUBSET S /\ IsFiniteSet(R) /\ R \in SUBSET Chunks
  BY FS_Subset
<1>2. /\ IsFiniteSet(S \cup {c}) /\ Cardinality(S \cup {c}) = Cardinality(S) + 1
      /\ Cardinality(S) \in Nat /\ Cardinality(R) \in Nat /\ Cardinality(R) <= Cardinality(S)
  <2> HIDE DEF R
  <2> QED
    BY <1>1, FS_AddElement, FS_CardinalityType, FS_Subset
<1>3. MaxBlocks \in Nat /\ MaxTokens \in Nat /\ MaxBlocksPerDocument \in Nat
  BY RetrievalAssumption
<1>4. CASE ~(Len(b) < MaxBlocks)
  <2>1. Cardinality(S \cup {c}) > MaxBlocks
    BY <1>2, <1>3, <1>4
  <2> QED
    BY <1>2, <1>3, <2>1 DEF WithinBudget
<1>5. CASE ~(Cardinality(OfDocument(c.doc, R)) < MaxBlocksPerDocument)
  <2> DEFINE A == OfDocument(c.doc, R)
             B == OfDocument(c.doc, S \cup {c})
  <2>1. A \cup {c} \in SUBSET B /\ A \in SUBSET R /\ B \in SUBSET (S \cup {c}) /\ c \notin A
    BY <1>1 DEF OfDocument
  <2>2. IsFiniteSet(A) /\ IsFiniteSet(B) /\ Cardinality(A) \in Nat /\ Cardinality(B) \in Nat
    <3> HIDE DEF A, B, R
    <3> QED
      BY <1>1, <1>2, <2>1, FS_Subset, FS_CardinalityType
  <2>3. Cardinality(A \cup {c}) = Cardinality(A) + 1 /\ Cardinality(A \cup {c}) <= Cardinality(B)
    <3> HIDE DEF A, B, R
    <3> QED
      BY <2>1, <2>2, FS_AddElement, FS_Subset
  <2>4. Cardinality(B) > MaxBlocksPerDocument
    <3>1. ~(Cardinality(A) < MaxBlocksPerDocument)
      BY <1>5
    <3> HIDE DEF A, B, R
    <3> QED
      BY <1>3, <2>2, <2>3, <3>1
  <2>5. c.doc \in Documents
    BY TokenFacts
  <2>6. ~(Cardinality(B) <= MaxBlocksPerDocument)
    <3> HIDE DEF A, B, R
    <3> QED
      BY <1>3, <2>2, <2>4
  <2> QED
    BY <2>5, <2>6 DEF WithinBudget
<1>6. CASE ~(Estimate(R) + Tokens[c.part] <= MaxTokens)
  <2>1. Estimate(S \cup {c}) = Estimate(S) + Tokens[c.part] /\ Estimate(R) <= Estimate(S) /\ Estimate(S) \in Nat
    <3> HIDE DEF R
    <3> QED
      BY <1>1, Estimates
  <2>2. Estimate(R) \in Nat /\ Tokens[c.part] \in Nat
    <3> HIDE DEF R
    <3> QED
      BY <1>1, Estimates, TokenFacts
  <2>3. ~(Estimate(S \cup {c}) <= MaxTokens)
    <3> HIDE DEF R
    <3> QED
      BY <1>3, <1>6, <2>1, <2>2
  <2> QED
    BY <2>3 DEF WithinBudget
<1> QED
  BY <1>4, <1>5, <1>6 DEF Fits

\* What is decided for the i-th candidate, given the context before it.
Room(t, trace, i) ==
    ~Redundant(t[i], ToSet(trace[i - 1].blocks)) /\ Fits(t[i], trace[i - 1].blocks)
NoRoom(t, trace, i) ==
    ~Redundant(t[i], ToSet(trace[i - 1].blocks)) /\ ~Fits(t[i], trace[i - 1].blocks)

\* The context after i candidates holds those that were neither redundant
\* nor without room, and tells whether one had no room.
Reflects(t, trace, i) ==
    /\ ToSet(trace[i].blocks) = {t[j] : j \in {k \in 1..i : Room(t, trace, k)}}
    /\ IsFiniteSet(ToSet(trace[i].blocks))
    /\ Len(trace[i].blocks) = Cardinality(ToSet(trace[i].blocks))
    /\ WithinBudget(ToSet(trace[i].blocks))
    /\ trace[i].truncated <=> \E k \in 1..i : NoRoom(t, trace, k)

Distinct(t) == \A i, j \in 1..Len(t) : t[i] = t[j] => i = j

IsTrace(t, trace) ==
    /\ trace \in [0..Len(t) -> Contexts(Chunks)] /\ trace[0] = NoBlocks
    /\ \A i \in 1..Len(t) : trace[i] = Admit(trace[i - 1], t[i])

\* A sequence with one more element.
LEMMA Appended ==
  ASSUME NEW C, NEW s \in Seq(C), NEW c \in C
  PROVE  /\ Append(s, c) \in Seq(C) /\ Len(Append(s, c)) = Len(s) + 1
         /\ ToSet(Append(s, c)) = ToSet(s) \cup {c}
<1> DEFINE a == Append(s, c)
           n == Len(s) + 1
<1>1. /\ Len(s) \in Nat /\ DOMAIN s = 1..Len(s) /\ DOMAIN a = 1..n /\ a[n] = c
      /\ \A i \in 1..Len(s) : a[i] = s[i]
  OBVIOUS
<1>2. (1..n) = (1..Len(s)) \cup {n}
  BY <1>1
<1>3. Len(a) = n
  OBVIOUS
<1>4. a \in Seq(C)
  OBVIOUS
<1> HIDE DEF a, n
<1>5. ToSet(a) = ToSet(s) \cup {c}
  BY <1>1, <1>2 DEF ToSet
<1> QED
  BY <1>3, <1>4, <1>5 DEF a, n

\* One more candidate keeps the description of the context true.
LEMMA ReflectsStep ==
  ASSUME NEW t \in Seq(Chunks), Distinct(t), NEW trace, IsTrace(t, trace),
         NEW i \in 1..Len(t), Reflects(t, trace, i - 1)
  PROVE  Reflects(t, trace, i)
<1> DEFINE old == trace[i - 1]
           new == trace[i]
           c == t[i]
           S == ToSet(old.blocks)
           Kept(m) == {t[j] : j \in {k \in 1..m : Room(t, trace, k)}}
<1>1. /\ i \in Nat /\ i - 1 \in 0..Len(t) /\ i \in 0..Len(t) /\ Len(t) \in Nat
      /\ (1..i) = (1..(i - 1)) \cup {i} /\ \A k \in 1..(i - 1) : k \in 1..Len(t) /\ k # i
  <2>1. Len(t) \in Nat
    OBVIOUS
  <2> QED
    BY <2>1
<1>2. c \in Chunks /\ old \in Contexts(Chunks) /\ new = Admit(old, c)
  BY <1>1 DEF IsTrace
<1>3. old.blocks \in Seq(Chunks) /\ old.truncated \in BOOLEAN
      /\ old = [blocks |-> old.blocks, truncated |-> old.truncated]
  BY <1>2 DEF Contexts
<1>4. /\ S = Kept(i - 1) /\ IsFiniteSet(S) /\ Len(old.blocks) = Cardinality(S) /\ WithinBudget(S)
      /\ old.truncated <=> \E k \in 1..(i - 1) : NoRoom(t, trace, k)
  BY DEF Reflects
<1>5. c \notin S
  BY <1>1, <1>4 DEF Distinct
<1>6. CASE Redundant(c, S)
  <2>1. new = old
    BY <1>2, <1>6 DEF Admit
  <2>2. ~Room(t, trace, i) /\ ~NoRoom(t, trace, i)
    BY <1>6 DEF Room, NoRoom
  <2>3. Kept(i) = Kept(i - 1)
    BY <1>1, <2>2
  <2>4. (\E k \in 1..i : NoRoom(t, trace, k)) <=> \E k \in 1..(i - 1) : NoRoom(t, trace, k)
    BY <1>1, <2>2
  <2> QED
    BY <1>4, <2>1, <2>3, <2>4 DEF Reflects
<1>7. CASE ~Redundant(c, S) /\ Fits(c, old.blocks)
  <2>1. new.blocks = Append(old.blocks, c) /\ new.truncated = old.truncated
    BY <1>2, <1>3, <1>7 DEF Admit
  <2>2. Room(t, trace, i) /\ ~NoRoom(t, trace, i)
    BY <1>7 DEF Room, NoRoom
  <2>3. Kept(i) = Kept(i - 1) \cup {c}
    BY <1>1, <2>2
  <2>4. (\E k \in 1..i : NoRoom(t, trace, k)) <=> \E k \in 1..(i - 1) : NoRoom(t, trace, k)
    BY <1>1, <2>2
  <2>5. ToSet(new.blocks) = S \cup {c} /\ Len(new.blocks) = Len(old.blocks) + 1
    BY <1>2, <1>3, <2>1, Appended
  <2>6. WithinBudget(S \cup {c}) /\ IsFiniteSet(S \cup {c}) /\ Cardinality(S \cup {c}) = Len(old.blocks) + 1
    BY <1>2, <1>3, <1>4, <1>5, <1>7, FitsKeepsBudget
  <2>7. ToSet(new.blocks) = Kept(i)
    BY <1>4, <2>3, <2>5
  <2>8. new.truncated <=> \E k \in 1..i : NoRoom(t, trace, k)
    BY <1>4, <2>1, <2>4
  <2> HIDE DEF S, c, old
  <2> QED
    BY <2>5, <2>6, <2>7, <2>8 DEF Reflects
<1>8. CASE ~Redundant(c, S) /\ ~Fits(c, old.blocks)
  <2>1. new.blocks = old.blocks /\ new.truncated = TRUE
    BY <1>2, <1>3, <1>8 DEF Admit
  <2>2. ~Room(t, trace, i) /\ NoRoom(t, trace, i)
    BY <1>8 DEF Room, NoRoom
  <2>3. Kept(i) = Kept(i - 1)
    BY <1>1, <2>2
  <2>4. \E k \in 1..i : NoRoom(t, trace, k)
    BY <2>2
  <2> QED
    BY <1>4, <2>1, <2>3, <2>4 DEF Reflects
<1> QED
  BY <1>6, <1>7, <1>8


\* The description holds after any number of candidates.
LEMMA TraceReflects ==
  ASSUME NEW t \in Seq(Chunks), Distinct(t), NEW trace, IsTrace(t, trace)
  PROVE  \A i \in 0..Len(t) : Reflects(t, trace, i)
<1> DEFINE P == {i \in Nat : i <= Len(t) => Reflects(t, trace, i)}
<1>0. Len(t) \in Nat
  OBVIOUS
<1>1. Reflects(t, trace, 0)
  <2>1. trace[0] = NoBlocks
    BY DEF IsTrace
  <2>2. trace[0].blocks = <<>> /\ trace[0].truncated = FALSE
    BY <2>1 DEF NoBlocks
  <2>3. ToSet(trace[0].blocks) = {}
    BY <2>2 DEF ToSet
  <2>4. 1..0 = {}
    OBVIOUS
  <2>5. {} \in SUBSET Chunks /\ IsFiniteSet({}) /\ Cardinality({}) = 0 /\ Len(<<>>) = 0
    BY FS_EmptySet
  <2>6. WithinBudget({})
    <3>1. Estimate({}) = 0
      BY <2>5, Estimates
    <3>2. \A d \in Documents : OfDocument(d, {}) = {}
      BY DEF OfDocument
    <3>3. MaxBlocks \in Nat /\ MaxTokens \in Nat /\ MaxBlocksPerDocument \in Nat
      BY RetrievalAssumption
    <3>4. Cardinality({}) <= MaxBlocks /\ Estimate({}) <= MaxTokens
      BY <2>5, <3>1, <3>3
    <3>5. \A d \in Documents : Cardinality(OfDocument(d, {})) <= MaxBlocksPerDocument
      <4> TAKE d \in Documents
      <4>1. Cardinality(OfDocument(d, {})) = 0
        BY <2>5, <3>2
      <4> QED
        BY <3>3, <4>1
    <3> QED
      BY <3>4, <3>5 DEF WithinBudget
  <2>7. {t[j] : j \in {k \in 1..0 : Room(t, trace, k)}} = {}
    BY <2>4
  <2>8. ~(\E k \in 1..0 : NoRoom(t, trace, k))
    BY <2>4
  <2> QED
    BY <2>2, <2>3, <2>5, <2>6, <2>7, <2>8 DEF Reflects
<1>2. 0 \in P
  BY <1>1
<1>3. ASSUME NEW i \in P
      PROVE  i + 1 \in P
  <2>1. CASE i + 1 <= Len(t)
    <3>1. i \in Nat /\ i + 1 \in 1..Len(t) /\ (i + 1) - 1 = i /\ i <= Len(t)
      BY <1>0, <2>1
    <3>2. Reflects(t, trace, (i + 1) - 1)
      BY <3>1
    <3>3. Reflects(t, trace, i + 1)
      BY <3>1, <3>2, ReflectsStep
    <3> QED
      BY <3>1, <3>3
  <2> QED
    BY <2>1
<1>4. P = Nat
  <2> HIDE DEF P
  <2>1. P \in SUBSET Nat
    BY DEF P
  <2> QED
    BY <1>2, <1>3, <2>1, Induct
<1> QED
  BY <1>0, <1>4

\* What stands before the i-th of distinct candidates.
LEMMA BeforeFacts ==
  ASSUME NEW C, NEW t \in Seq(C), Distinct(t), NEW i \in 1..Len(t)
  PROVE  ToSet(Before(t, t[i])) = {t[j] : j \in 1..(i - 1)}
<1> DEFINE b == Before(t, t[i])
<1>0. Len(t) \in Nat /\ DOMAIN t = 1..Len(t)
  OBVIOUS
<1>1. Position(t, t[i]) = i
  BY <1>0 DEF Position, Distinct
<1>2. i - 1 \in Nat /\ i - 1 <= Len(t)
  BY <1>0
<1>3. b = FirstOf(t, i - 1)
  BY <1>1 DEF Before
<1>4. b \in Seq(C) /\ Len(b) = i - 1 /\ \A j \in 1..(i - 1) : b[j] = t[j]
  <2> HIDE DEF b
  <2>1. b \in Seq(C) /\ Len(b) = (IF Len(t) < i - 1 THEN Len(t) ELSE i - 1)
         /\ \A j \in 1..Len(b) : b[j] = t[j]
    BY <1>2, <1>3, FirstOfFacts
  <2>2. Len(b) = i - 1
    BY <1>0, <1>2, <2>1
  <2> QED
    BY <2>1, <2>2
<1> HIDE DEF b
<1>5. DOMAIN b = 1..(i - 1)
  BY <1>4
<1> QED
  BY <1>4, <1>5 DEF ToSet, b

\* The context of any distinct candidates is explained by their order.
LEMMA ContextExplained ==
  ASSUME NEW t \in Seq(Chunks), Distinct(t)
  PROVE  Explains(GroundingContext(t), t)
<1> DEFINE n == Len(t)
           context == GroundingContext(t)
           chosen == ToSet(context.blocks)
           repeated(c) == Redundant(c, ToSet(Before(t, c)) \cap chosen)
           omitted == {c \in ToSet(t) \ chosen : ~repeated(c)}
<1>0. n \in Nat /\ n \in 0..n /\ DOMAIN t = 1..n /\ \A i \in 1..n : t[i] \in Chunks
  OBVIOUS
<1>1. PICK trace : IsTrace(t, trace) /\ context = trace[n]
  BY ContextTrace DEF IsTrace
<1>2. \A i \in 0..n : Reflects(t, trace, i) /\ trace[i].blocks \in Seq(Chunks)
  <2>1. \A i \in 0..n : trace[i] \in Contexts(Chunks)
    BY <1>1 DEF IsTrace
  <2> QED
    BY <1>1, <2>1, TraceReflects DEF Contexts
<1> HIDE DEF context
<1>3. /\ chosen = {t[j] : j \in {k \in 1..n : Room(t, trace, k)}}
      /\ IsFiniteSet(chosen) /\ WithinBudget(chosen)
      /\ context.truncated <=> \E k \in 1..n : NoRoom(t, trace, k)
  BY <1>0, <1>1, <1>2 DEF Reflects
<1>4. chosen \subseteq ToSet(t) /\ chosen \in SUBSET Chunks
  BY <1>0, <1>3 DEF ToSet
<1>5. ASSUME NEW i \in 1..n
      PROVE  /\ t[i] \in chosen <=> Room(t, trace, i)
             /\ ToSet(trace[i - 1].blocks) \subseteq chosen
             /\ repeated(t[i]) <=> Redundant(t[i], ToSet(trace[i - 1].blocks))
  <2>1. i - 1 \in 0..n /\ \A k \in 1..(i - 1) : k \in 1..n
    BY <1>0
  <2>2. ToSet(trace[i - 1].blocks) = {t[j] : j \in {k \in 1..(i - 1) : Room(t, trace, k)}}
    BY <1>2, <2>1 DEF Reflects
  <2>3. \A k \in 1..n : t[k] \in chosen <=> Room(t, trace, k)
    BY <1>3 DEF Distinct
  <2>4. ToSet(Before(t, t[i])) = {t[j] : j \in 1..(i - 1)}
    BY BeforeFacts
  <2>5. ToSet(Before(t, t[i])) \cap chosen = ToSet(trace[i - 1].blocks)
    <3> HIDE DEF chosen
    <3> QED
      BY <2>1, <2>2, <2>3, <2>4
  <2> HIDE DEF chosen
  <2> QED
    BY <2>3, <2>5
<1> HIDE DEF chosen, repeated
<1>6. \A c \in ToSet(t) : \E i \in 1..n : c = t[i]
  BY <1>0 DEF ToSet
<1>7. \A c \in chosen : ~repeated(c)
  <2> SUFFICES ASSUME NEW c \in chosen PROVE ~repeated(c)
    OBVIOUS
  <2>1. PICK i \in 1..n : c = t[i]
    BY <1>4, <1>6
  <2> QED
    BY <1>5, <2>1 DEF Room
<1>8. ASSUME NEW i \in 1..n
      PROVE  t[i] \in omitted <=> NoRoom(t, trace, i)
  <2>1. t[i] \in ToSet(t)
    BY <1>0 DEF ToSet
  <2> QED
    BY <1>5, <2>1 DEF Room, NoRoom
<1>9. \A c \in omitted : ~WithinBudget(chosen \cup {c})
  <2> SUFFICES ASSUME NEW c \in omitted PROVE ~WithinBudget(chosen \cup {c})
    OBVIOUS
  <2>1. PICK i \in 1..n : c = t[i]
    BY <1>6
  <2> DEFINE b == trace[i - 1].blocks
  <2>2. ~Fits(c, b)
    BY <1>8, <2>1 DEF NoRoom
  <2>3. b \in Seq(Chunks) /\ Len(b) = Cardinality(ToSet(b))
    <3>1. i - 1 \in 0..n
      BY <1>0
    <3> QED
      BY <1>2, <3>1 DEF Reflects
  <2>4. ToSet(b) \subseteq chosen /\ c \in Chunks /\ c \notin chosen
    BY <1>0, <1>5, <2>1
  <2> HIDE DEF b, omitted
  <2> QED
    BY <1>3, <1>4, <2>2, <2>3, <2>4, NoRoomLater
<1>10. context.truncated <=> omitted # {}
  <2>1. omitted \subseteq ToSet(t)
    OBVIOUS
  <2> HIDE DEF omitted
  <2> QED
    BY <1>3, <1>6, <1>8, <2>1
<1>11. context.truncated \in BOOLEAN
  <2>1. trace[n] \in Contexts(Chunks)
    BY <1>0, <1>1 DEF IsTrace
  <2> QED
    BY <1>1, <2>1 DEF Contexts
<1>12. context.truncated = (omitted # {})
  <2> HIDE DEF omitted
  <2> QED
    BY <1>10, <1>11
<1> QED
  BY <1>3, <1>4, <1>7, <1>9, <1>12 DEF Explains, chosen, repeated, context

-----------------------------------------------------------------------------
(* The run.                                                                *)

\* What the rules make of a classification.
LEMMA DecideFacts ==
  ASSUME NEW r \in Classifications
  PROVE  /\ Decide(r) \in Decisions
         /\ Decide(r).act = "retrieve" => Routable(Decide(r))
         /\ Decide(r).act = "answer" => r.intent \in {"conversational", "out_of_scope"} /\ ~r.unclear
         /\ r.signals # {} \/ r.intent = "privacy_security" => Decide(r).act = "escalate"
<1>1. r.intent \in Intents /\ r.signals \subseteq {"human", "dissatisfied"}
  BY DEF Classifications
<1>2. ASSUME NEW act, NEW reason
      PROVE  Decision(act, reason).act = act /\ Decision(act, reason).reason = reason
  BY DEF Decision
<1>3. /\ \A i \in KnowledgeIntents : Policy(i) = Decision("retrieve", "policy_retrieval_required")
      /\ Policy("order_status") = Decision("escalate", "operational_lookup_unavailable")
      /\ Policy("privacy_security") = Decision("escalate", "security_sensitive_request")
      /\ Policy("conversational") = Decision("answer", "direct_informational_response")
      /\ Policy("out_of_scope") = Decision("answer", "unsupported_request")
  BY DEF Policy, KnowledgeIntents
<1>4. Decide(r) \in Decisions
  BY <1>1, <1>3 DEF Decide, Decision, Decisions, Intents
<1>5. Decide(r).act = "retrieve" => Routable(Decide(r))
  BY <1>1, <1>2, <1>3 DEF Decide, Routable, Intents
<1>6. Decide(r).act = "answer" => r.intent \in {"conversational", "out_of_scope"} /\ ~r.unclear
  BY <1>1, <1>2, <1>3 DEF Decide, Intents
<1>7. r.signals # {} \/ r.intent = "privacy_security" => Decide(r).act = "escalate"
  BY <1>1, <1>2, <1>3 DEF Decide
<1> QED
  BY <1>4, <1>5, <1>6, <1>7

-----------------------------------------------------------------------------
(* The run: what each stage may rely on.                                   *)

Fields == {"stage", "message", "intent", "decision", "evidence", "response", "code"}

Decided == {"decided", "searched", "ranked", "grounded", "generated", "passed", "refused", "escalated"}

\* What a text must be before the guardrails see it, and after they passed it.
Supported(text, evidence) ==
    text.by = "model" => text.cites # {} /\ text.cites \subseteq ToSet(evidence)

Passed(text, evidence, message) ==
    /\ Supported(text, evidence)
    /\ text.by = "model" => ~text.claims /\ ~message.manipulative

StageInv ==
    /\ DOMAIN run = Fields
    /\ run.stage \in Active \cup Terminal \cup {"aborted"}
    /\ run.message \in Messages
    /\ run.intent # None => run.intent \in Classifications /\ run.decision = Decide(run.intent)
    /\ run.intent = None => run.decision = None
    /\ run.stage = "received" => run.intent = None
    /\ run.stage \in Decided => run.intent # None
    /\ run.stage \in Active => run.code = None
    /\ run.stage \in {"searched", "ranked", "grounded"} => run.decision.act = "retrieve"
    /\ run.stage = "generated" =>
           /\ Supported(run.response, run.evidence)
           /\ run.decision.act \in {"answer", "retrieve", "clarify"}

OutcomeInv ==
    /\ run.stage = "passed" =>
           Passed(run.response, run.evidence, run.message)
    /\ run.stage = "refused" => run.response = AppText
    /\ run.stage \in {"passed", "refused"} => run.decision.act # "escalate"
    /\ run.intent # None /\ run.stage = "failed" => run.decision.act # "escalate"

RowInv ==
    /\ DOMAIN row = {"status", "text", "escalated"}
    /\ row.status = "running" => row.text = None
    /\ row.status # "running" => run.stage \in Terminal \cup {"aborted"}
    /\ row.text # None => /\ row.status = "completed"
                          /\ run.stage \in Terminal \ {"failed"} /\ row.text = Shown
                          /\ row.escalated = (run.stage = "escalated")

RunInv == StageInv /\ OutcomeInv /\ RowInv /\ StagesAgree

\* A run that has just begun.
LEMMA InitRunInv == Init => RunInv
  BY AnsweringAssumption, NoneAssumption
  DEF Codes, Init, RunInv, StageInv, OutcomeInv, RowInv, StagesAgree, Fields, Active, Terminal, Decided, Shown

\* Steps of the run leave the row alone until it is finalized.
LEMMA StagesStep ==
  ASSUME RunInv, row' = row, row.status = "running", StageInv', OutcomeInv', StagesAgree'
  PROVE  RunInv'
  BY DEF RunInv, RowInv

\* Classification and what the decision leads to.
LEMMA DecisionSteps ==
  ASSUME RunInv,
         \/ \E r \in Classified \cup {Route(run.message)} : Understand(r)
         \/ ClassifierFails \/ AnswerDirectly \/ RequestClarification \/ EscalateFromDecision
  PROVE  RunInv'
<1> USE DEF RunInv
<1>0. run.stage \in {"received", "decided"} /\ row' = row /\ row.status = "running"
  BY DEF Understand, ClassifierFails, AnswerDirectly, RequestClarification, EscalateFromDecision,
         RowInv, Terminal
<1>1. ASSUME NEW r \in Classified \cup {Route(run.message)}, Understand(r) PROVE RunInv'
  <2>1. r \in Classifications /\ r # None
    <3>1. Route(run.message) \in Classifications
      BY DEF Route, Classifications, Intents
    <3> QED
      BY <3>1, AnsweringAssumption, NoneAssumption
  <2>2. run' = [run EXCEPT !.stage = "decided", !.intent = r, !.decision = Decide(r)]
    BY <1>1 DEF Understand
  <2>3. /\ DOMAIN run' = Fields /\ run'.stage = "decided" /\ run'.intent = r
        /\ run'.decision = Decide(r) /\ run'.message = run.message /\ run'.code = None
    BY <1>1, <2>2 DEF StageInv, Fields, Active, Understand
  <2> QED
    BY <1>0, <2>1, <2>3, StagesStep
    DEF StageInv, OutcomeInv, StagesAgree, Active, Terminal, Decided
<1>2. CASE ClassifierFails
  <2>1. run' = [run EXCEPT !.stage = "failed", !.code = "INTENT_FAILURE"] /\ run.stage = "received"
    BY <1>2 DEF ClassifierFails, Fail
  <2>2. /\ DOMAIN run' = Fields /\ run'.stage = "failed" /\ run'.code = "INTENT_FAILURE"
        /\ run'.message = run.message /\ run'.intent = run.intent /\ run'.decision = run.decision
    BY <2>1 DEF StageInv, Fields
  <2> QED
    BY <1>0, <2>1, <2>2, StagesStep, NoneAssumption
    DEF StageInv, OutcomeInv, StagesAgree, Active, Terminal, Decided
<1>3. CASE AnswerDirectly
  <2>1. run.stage = "decided" /\ run.decision.act = "answer" /\ run.intent \in Classifications
         /\ run.decision = Decide(run.intent) /\ run.intent # None
    BY <1>3 DEF AnswerDirectly, StageInv, Decided
  <2>2. CASE Answerable(run.message, run.intent, run.decision)
    <3>1. run' = [run EXCEPT !.stage = "generated", !.response = AppText]
      BY <1>3, <2>2 DEF AnswerDirectly, Generated
    <3>2. /\ DOMAIN run' = Fields /\ run'.stage = "generated" /\ run'.response = AppText
          /\ run'.message = run.message /\ run'.intent = run.intent /\ run'.decision = run.decision
          /\ run'.code = None /\ run'.evidence = run.evidence
      BY <2>1, <3>1 DEF StageInv, Fields, Active
    <3>3. Supported(AppText, run.evidence)
      BY <3>1 DEF AppText, Supported
    <3> QED
      BY <1>0, <2>1, <3>2, <3>3, StagesStep
      DEF StageInv, OutcomeInv, StagesAgree, Active, Terminal, Decided
  <2>3. CASE ~Answerable(run.message, run.intent, run.decision)
    <3>1. run' = [run EXCEPT !.stage = "failed", !.code = "DIRECT_RESPONSE_UNAVAILABLE"]
      BY <1>3, <2>3 DEF AnswerDirectly, Fail
    <3>2. /\ DOMAIN run' = Fields /\ run'.stage = "failed"
          /\ run'.code = "DIRECT_RESPONSE_UNAVAILABLE"
          /\ run'.message = run.message /\ run'.intent = run.intent /\ run'.decision = run.decision
      BY <3>1 DEF StageInv, Fields
    <3>3. run.message.kind = "wordless"
      BY <2>1, <2>3, DecideFacts DEF Answerable
    <3> QED
      BY <1>0, <2>1, <3>2, <3>3, StagesStep, NoneAssumption
      DEF StageInv, OutcomeInv, StagesAgree, Active, Terminal, Decided
  <2> QED
    BY <2>2, <2>3
<1>4. CASE RequestClarification
  <2>1. run.stage = "decided" /\ run.decision.act = "clarify"
         /\ run' = [run EXCEPT !.stage = "generated", !.response = AppText]
    BY <1>4 DEF RequestClarification, Generated
  <2>2. /\ DOMAIN run' = Fields /\ run'.stage = "generated" /\ run'.response = AppText
        /\ run'.message = run.message /\ run'.intent = run.intent /\ run'.decision = run.decision
        /\ run'.code = None /\ run'.evidence = run.evidence
    BY <2>1 DEF StageInv, Fields, Active
  <2>3. Supported(AppText, run.evidence)
    BY DEF AppText, Supported
  <2> QED
    BY <1>0, <2>1, <2>2, <2>3, StagesStep
    DEF StageInv, OutcomeInv, StagesAgree, Active, Terminal, Decided
<1>5. CASE EscalateFromDecision
  <2>1. run.stage = "decided" /\ run' = [run EXCEPT !.stage = "escalated"]
    BY <1>5 DEF EscalateFromDecision
  <2>2. /\ DOMAIN run' = Fields /\ run'.stage = "escalated"
        /\ run'.message = run.message /\ run'.intent = run.intent /\ run'.decision = run.decision
        /\ run'.code = None
    BY <2>1 DEF StageInv, Fields, Active
  <2> QED
    BY <1>0, <2>1, <2>2, StagesStep
    DEF StageInv, OutcomeInv, StagesAgree, Active, Terminal, Decided
<1> QED
  BY <1>1, <1>2, <1>3, <1>4, <1>5

\* A stage that only moves the run on, or gives it up.
LEMMA RetrievalSteps ==
  ASSUME RunInv, SearchVector \/ SearchLexical \/ RetrievalFails \/ Ground \/ GeneratorFails
  PROVE  RunInv'
<1> USE DEF RunInv
<1>0. /\ run.stage \in {"decided", "searched", "ranked", "grounded"}
      /\ row' = row /\ row.status = "running"
      /\ run.decision.act = "retrieve" /\ run.intent \in Classifications /\ run.intent # None
      /\ run.decision = Decide(run.intent) /\ run.code = None
  BY DEF SearchVector, SearchLexical, RetrievalFails, Ground, GeneratorFails, Retrieving,
         RowInv, StageInv, Terminal, Active, Decided
<1>1. \/ \E stage \in {"searched", "ranked", "aborted"} : run' = [run EXCEPT !.stage = stage]
      \/ \E evidence : run' = [run EXCEPT !.stage = "grounded", !.evidence = evidence]
      \/ run' = [run EXCEPT !.stage = "failed", !.code = "GENERATION_FAILURE"]
  <2>1. Routable(run.decision)
    BY <1>0, DecideFacts
  <2> QED
    BY <1>0, <2>1
    DEF SearchVector, SearchLexical, RetrievalFails, Ground, GeneratorFails, Escape, Fail
<1>2. /\ DOMAIN run' = Fields /\ run'.message = run.message /\ run'.intent = run.intent
      /\ run'.decision = run.decision
      /\ \/ run'.stage \in {"searched", "ranked", "grounded", "aborted"} /\ run'.code = None
         \/ run'.stage = "failed" /\ run'.code = "GENERATION_FAILURE"
  BY <1>0, <1>1 DEF StageInv, Fields
<1> QED
  BY <1>0, <1>2, StagesStep, NoneAssumption
  DEF StageInv, OutcomeInv, StagesAgree, Active, Terminal, Decided

\* An answer that passed validation cites what it was given.
LEMMA GenerateStep ==
  ASSUME RunInv, NEW answer \in Answers(run.evidence), Generate(answer)
  PROVE  RunInv'
<1> USE DEF RunInv
<1> DEFINE text == [by |-> "model", cites |-> answer.cites, claims |-> answer.claims]
<1>0. /\ run.stage = "grounded" /\ row' = row /\ row.status = "running"
      /\ run.decision.act = "retrieve" /\ run.intent \in Classifications /\ run.intent # None
      /\ run.decision = Decide(run.intent) /\ run.code = None
  BY DEF Generate, RowInv, StageInv, Terminal, Active, Decided
<1>1. answer.status \in {"grounded", "insufficient", "not_required"}
  BY DEF Answers
<1>2. \/ /\ Valid(answer, run.evidence) /\ answer.status = "grounded"
         /\ run' = [run EXCEPT !.stage = "generated", !.response = text]
      \/ run' = [run EXCEPT !.stage = "escalated", !.response = text]
      \/ run' = [run EXCEPT !.stage = "failed", !.response = text, !.code = "GROUNDING_STATUS_INVALID"]
      \/ run' = [run EXCEPT !.stage = "failed", !.code = "GENERATION_INVALID_RESPONSE"]
  BY <1>1 DEF Generate, Generated, Fail
<1>3. Valid(answer, run.evidence) /\ answer.status = "grounded" => Supported(text, run.evidence)
  BY DEF Valid, Supported
<1> HIDE DEF text
<1>4. /\ DOMAIN run' = Fields /\ run'.message = run.message /\ run'.intent = run.intent
      /\ run'.decision = run.decision /\ run'.evidence = run.evidence
      /\ \/ /\ run'.stage = "generated" /\ run'.code = None
            /\ run'.response = text /\ Supported(text, run.evidence)
         \/ run'.stage = "escalated" /\ run'.code = None
         \/ /\ run'.stage = "failed"
            /\ run'.code \in {"GROUNDING_STATUS_INVALID", "GENERATION_INVALID_RESPONSE"}
  BY <1>0, <1>2, <1>3 DEF StageInv, Fields
<1> QED
  BY <1>0, <1>4, StagesStep, NoneAssumption
  DEF StageInv, OutcomeInv, StagesAgree, Active, Terminal, Decided

\* The guardrails let through what claims nothing.
LEMMA ReviewStep ==
  ASSUME RunInv, Review
  PROVE  RunInv'
<1> USE DEF RunInv
<1> DEFINE verdict == Verdict(run.message, run.decision, run.response)
<1>0. /\ run.stage = "generated" /\ row' = row /\ row.status = "running"
      /\ run.intent \in Classifications /\ run.intent # None
      /\ run.decision = Decide(run.intent) /\ run.code = None
      /\ run.decision.act \in {"answer", "retrieve", "clarify"}
      /\ Supported(run.response, run.evidence)
  BY DEF Review, RowInv, StageInv, Terminal, Active, Decided
<1>1. /\ verdict \in {"pass", "refuse", "escalate"}
      /\ verdict = "pass" => ~run.message.manipulative /\ ~run.response.claims
  BY <1>0 DEF Verdict
<1>2. run' = CASE verdict = "pass" -> [run EXCEPT !.stage = "passed"]
               [] verdict = "refuse" -> [run EXCEPT !.stage = "refused", !.response = AppText]
               [] verdict = "escalate" -> [run EXCEPT !.stage = "escalated"]
               [] verdict = "mismatch" -> [run EXCEPT !.stage = "escalated",
                                                      !.code = "DECISION_RESPONSE_MISMATCH"]
  BY DEF Review
<1> HIDE DEF verdict
<1>3. \/ verdict = "pass" /\ run' = [run EXCEPT !.stage = "passed"]
      \/ run' = [run EXCEPT !.stage = "refused", !.response = AppText]
      \/ run' = [run EXCEPT !.stage = "escalated"]
  BY <1>1, <1>2
<1>4. /\ DOMAIN run' = Fields /\ run'.message = run.message /\ run'.intent = run.intent
      /\ run'.decision = run.decision /\ run'.evidence = run.evidence /\ run'.code = None
      /\ \/ verdict = "pass" /\ run'.stage = "passed" /\ run'.response = run.response
         \/ run'.stage = "refused" /\ run'.response = AppText
         \/ run'.stage = "escalated"
  BY <1>0, <1>3 DEF StageInv, Fields
<1>5. verdict = "pass" => Passed(run.response, run.evidence, run.message)
  BY <1>0, <1>1 DEF Passed
<1> QED
  BY <1>0, <1>4, <1>5, StagesStep
  DEF StageInv, OutcomeInv, StagesAgree, Active, Terminal, Decided

\* The row is written once, from what the run came to.
LEMMA FinalSteps ==
  ASSUME RunInv, Finalize \/ FinalizeFails \/ MarkAborted
  PROVE  RunInv'
<1> USE DEF RunInv
<1>1. CASE Finalize
  <2>1. /\ run' = run /\ run.stage \in Terminal /\ row.status = "running" /\ row.text = None
        /\ \/ run.stage = "failed" /\ row' = [row EXCEPT !.status = "failed"]
           \/ /\ run.stage # "failed"
              /\ row' = [status |-> "completed", text |-> Shown,
                         escalated |-> run.stage = "escalated"]
    BY <1>1 DEF Finalize, RowInv
  <2>2. Shown' = Shown /\ StageInv' /\ OutcomeInv' /\ StagesAgree'
    BY <2>1 DEF Shown, StageInv, OutcomeInv, StagesAgree, NeedsHuman
  <2>3. RowInv'
    BY <2>1, <2>2 DEF RowInv, Terminal
  <2> QED
    BY <2>2, <2>3
<1>2. CASE FinalizeFails
  <2>1. /\ run' = [run EXCEPT !.stage = "aborted"] /\ row' = row
        /\ run.stage \in Terminal /\ row.status = "running"
    BY <1>2 DEF FinalizeFails, Escape
  <2>2. /\ DOMAIN run' = Fields /\ run'.stage = "aborted" /\ run'.message = run.message
        /\ run'.intent = run.intent /\ run'.decision = run.decision /\ run'.code = run.code
    BY <2>1 DEF StageInv, Fields
  <2> QED
    BY <2>1, <2>2, StagesStep DEF StageInv, OutcomeInv, StagesAgree, Active, Terminal, Decided
<1>3. CASE MarkAborted
  <2>1. /\ run' = run /\ run.stage = "aborted" /\ row.status = "running" /\ row.text = None
        /\ row' = [row EXCEPT !.status = "failed"]
    BY <1>3 DEF MarkAborted, RowInv
  <2>2. StageInv' /\ OutcomeInv' /\ StagesAgree'
    BY <2>1 DEF StageInv, OutcomeInv, StagesAgree
  <2>3. RowInv'
    BY <2>1 DEF RowInv
  <2> QED
    BY <2>2, <2>3
<1> QED
  BY <1>1, <1>2, <1>3

\* Every step preserves the invariant of the run.
LEMMA StepRunInv == RunInv /\ [Next]_vars => RunInv'
<1> SUFFICES ASSUME RunInv, [Next]_vars PROVE RunInv'
  OBVIOUS
<1>1. CASE UNCHANGED <<run, row>>
  BY <1>1 DEF RunInv, StageInv, OutcomeInv, RowInv, StagesAgree, Shown
<1>2. (\E d \in Documents : Publish(d) \/ Archive(d)) \/ UNCHANGED vars => UNCHANGED <<run, row>>
  BY DEF Publish, Archive, vars
<1> QED
  BY <1>1, <1>2, DecisionSteps, RetrievalSteps, GenerateStep, ReviewStep, FinalSteps DEF Next

\* The invariant of the run holds throughout.
LEMMA RunInvariance == Spec => []RunInv
  BY InitRunInv, StepRunInv, PTL DEF Spec

\* Whatever the model wrote, what a customer reads is fixed text or an answer
\* with supplied citations that claims nothing and was not manipulated.
THEOREM OnlyApprovedIsShown == Spec => []ShownIsApproved
<1>1. RunInv => ShownIsApproved
  <2> SUFFICES ASSUME RunInv, row.text # None PROVE ShownIsApproved
    BY DEF ShownIsApproved
  <2>1. /\ row.status = "completed" /\ row.text = Shown
        /\ run.stage \in {"passed", "refused", "escalated"}
    BY DEF RunInv, RowInv, Terminal
  <2>2. AppText.by # "model"
    BY DEF AppText
  <2>3. CASE run.stage = "passed"
    BY <2>1, <2>3 DEF RunInv, OutcomeInv, Shown, ShownIsApproved, Passed, Supported
  <2>4. CASE run.stage \in {"refused", "escalated"}
    BY <2>1, <2>2, <2>4 DEF RunInv, OutcomeInv, Shown, ShownIsApproved
  <2> QED
    BY <2>1, <2>3, <2>4
<1> QED
  BY <1>1, RunInvariance, PTL

\* A customer who needs a human is escalated or the run is lost; no other
\* outcome is recorded.
THEOREM HumansAreCalled == Spec => []EscalationWins
<1>1. RunInv => EscalationWins
  <2> SUFFICES ASSUME RunInv, run.intent # None, NeedsHuman PROVE EscalationWins
    BY DEF EscalationWins
  <2>1. run.decision.act = "escalate"
    BY DecideFacts DEF RunInv, StageInv, NeedsHuman
  <2>2. run.stage \in {"decided", "escalated", "aborted"}
    BY <2>1 DEF RunInv, StageInv, OutcomeInv, Active, Terminal
  <2>3. row.text # None => row.escalated
    BY <2>2 DEF RunInv, RowInv, Terminal
  <2> QED
    BY <2>2, <2>3 DEF EscalationWins
<1> QED
  BY <1>1, RunInvariance, PTL

\* No stage refuses what an earlier one decided.
THEOREM StagesNeverDisagree == Spec => []StagesAgree
<1>1. RunInv => StagesAgree
  BY DEF RunInv
<1> QED
  BY <1>1, RunInvariance, PTL

-----------------------------------------------------------------------------
(* What the run holds: every value of its kind, and evidence that was      *)
(* served while it ran.                                                    *)

\* Served at some moment since the run began.
Recent(c) ==
    /\ c.doc \in initial.open
    /\ c.version \in initial.published[c.doc] .. published[c.doc]

SearchInv ==
    /\ published \in [Documents -> 0..MaxPublished]
    /\ initial.published \in [Documents -> 0..MaxPublished]
    /\ open \subseteq initial.open /\ initial.open \subseteq Documents
    /\ \A d \in Documents : initial.published[d] <= published[d]
    /\ rankings \in Seq(Rankings(Chunks)) /\ Len(rankings) <= 2
    /\ run.stage = "searched" => Len(rankings) = 1
    /\ ToSet(run.evidence) \subseteq Chunks
    /\ \A c \in Listed(rankings) \cup ToSet(run.evidence) : Recent(c)

ValueInv ==
    /\ run.response \in Texts \cup {None}
    /\ run.code \in Codes \cup {None}
    /\ row.text \in Texts \cup {None}

\* What a search returns now.
LEMMA SearchFacts ==
  ASSUME SearchInv, NEW r \in Rankings(Searchable)
  PROVE  r \in Rankings(Chunks) /\ \A c \in ToSet(r) : Recent(c)
<1>1. ASSUME NEW c \in Searchable
      PROVE  c \in Chunks /\ Recent(c)
  <2>1. /\ c \in Chunks /\ c.doc \in Documents /\ c.doc \in initial.open
        /\ c.version = published[c.doc] /\ initial.published[c.doc] <= published[c.doc]
    BY DEF SearchInv, Searchable
  <2>2. initial.published[c.doc] \in Nat /\ published[c.doc] \in Nat
    <3>1. published[c.doc] \in 0..MaxPublished /\ initial.published[c.doc] \in 0..MaxPublished
      BY <2>1 DEF SearchInv
    <3> QED
      BY <3>1
  <2> QED
    BY <2>1, <2>2 DEF Recent
<1>2. r \in Rankings(Chunks)
  <2>1. PICK m \in 0..SearchLimit : r \in [1..m -> Searchable]
    BY DEF Rankings, BoundedSeq, SeqOf
  <2>2. r \in [1..m -> Chunks]
    BY <1>1, <2>1
  <2>3. IsInjective(r)
    BY DEF Rankings
  <2> QED
    BY <2>1, <2>2, <2>3 DEF Rankings, BoundedSeq, SeqOf
<1>3. ToSet(r) \subseteq Searchable
  BY RankingFacts
<1> QED
  BY <1>1, <1>2, <1>3

\* The evidence of a run comes from the chunks that its searches listed.
LEMMA EvidenceFacts ==
  ASSUME rankings \in Seq(Rankings(Chunks))
  PROVE  LET t == Candidates(rankings) IN
         /\ Explains(GroundingContext(t), t)
         /\ ToSet(GroundingContext(t).blocks) \subseteq Listed(rankings)
<1> DEFINE t == Candidates(rankings)
<1>1. /\ t \in Seq(Listed(rankings)) /\ ToSet(t) \subseteq Listed(rankings)
      /\ \A i \in 1..Len(t) : Place(rankings, t[i]) = i
  BY CandidateFacts
<1> HIDE DEF t
<1>2. Distinct(t)
  <2> SUFFICES ASSUME NEW i \in 1..Len(t), NEW j \in 1..Len(t), t[i] = t[j] PROVE i = j
    BY DEF Distinct
  <2> QED
    BY <1>1
<1>3. t \in Seq(Chunks)
  <2>1. Listed(rankings) \subseteq Chunks
    BY ListedFacts
  <2> QED
    BY <1>1, <2>1
<1>4. Explains(GroundingContext(t), t)
  BY <1>2, <1>3, ContextExplained
<1>5. ToSet(GroundingContext(t).blocks) \subseteq ToSet(t)
  BY <1>4 DEF Explains
<1> QED
  BY <1>1, <1>4, <1>5 DEF t

\* The steps that search, ground, publish or archive.
LEMMA SearchSteps ==
  ASSUME RunInv, SearchInv, [Next]_vars
  PROVE  SearchInv'
<1> USE DEF SearchInv
<1>0. DOMAIN run = Fields /\ \A x \in {"stage", "evidence"} : x \in Fields
  BY DEF RunInv, StageInv, Fields
<1>1. CASE SearchVector
  <2>1. initial' = initial /\ published' = published /\ open' = open
    BY <1>1 DEF SearchVector, KnowledgeUnchanged
  <2>2. run'.evidence = run.evidence
    BY <1>0, <1>1 DEF SearchVector, Fail
  <2>3. CASE Routable(run.decision)
    <3>1. PICK r \in Rankings(Searchable) : rankings' = <<r>>
      BY <1>1, <2>3 DEF SearchVector
    <3>2. r \in Rankings(Chunks) /\ \A c \in ToSet(r) : Recent(c)
      BY SearchFacts
    <3>3. rankings' \in Seq(Rankings(Chunks)) /\ Len(rankings') = 1 /\ Listed(rankings') = ToSet(r)
      BY <3>1, <3>2 DEF Listed
    <3> QED
      BY <2>1, <2>2, <3>2, <3>3 DEF Recent
  <2>4. CASE ~Routable(run.decision)
    <3>1. rankings' = rankings /\ run'.stage = "failed"
      BY <1>0, <1>1, <2>4 DEF SearchVector, Fail
    <3> QED
      BY <2>1, <2>2, <3>1 DEF Recent
  <2> QED
    BY <2>3, <2>4
<1>2. CASE SearchLexical
  <2>1. /\ initial' = initial /\ published' = published /\ open' = open
        /\ run.stage = "searched" /\ run' = [run EXCEPT !.stage = "ranked"]
    BY <1>2 DEF SearchLexical, KnowledgeUnchanged
  <2>2. run'.evidence = run.evidence /\ run'.stage = "ranked"
    BY <1>0, <2>1
  <2>3. PICK r \in Rankings(Searchable) : rankings' = Append(rankings, r)
    BY <1>2 DEF SearchLexical
  <2>4. r \in Rankings(Chunks) /\ \A c \in ToSet(r) : Recent(c)
    BY SearchFacts
  <2>5. rankings \in Seq(Rankings(Chunks)) /\ Len(rankings) = 1
    BY <2>1
  <2>6. /\ rankings' \in Seq(Rankings(Chunks)) /\ Len(rankings') = 2
        /\ ToSet(rankings') = ToSet(rankings) \cup {r}
    <3>1. /\ Append(rankings, r) \in Seq(Rankings(Chunks))
          /\ Len(Append(rankings, r)) = Len(rankings) + 1
          /\ ToSet(Append(rankings, r)) = ToSet(rankings) \cup {r}
      <4> HIDE DEF SearchInv
      <4>1. r \in Rankings(Chunks) /\ rankings \in Seq(Rankings(Chunks))
        BY <2>4, <2>5
      <4> QED
        BY <4>1, Appended
    <3> QED
      BY <2>3, <2>5, <3>1
  <2>7. Listed(rankings') = Listed(rankings) \cup ToSet(r)
    <3>1. \A s : Listed(s) = UNION {ToSet(q) : q \in ToSet(s)}
      <4> SUFFICES ASSUME NEW s PROVE Listed(s) = UNION {ToSet(q) : q \in ToSet(s)}
        OBVIOUS
      <4>1. {ToSet(s[k]) : k \in DOMAIN s} = {ToSet(q) : q \in {s[k] : k \in DOMAIN s}}
        OBVIOUS
      <4>2. ToSet(s) = {s[k] : k \in DOMAIN s}
        BY DEF ToSet
      <4> QED
        BY <4>1, <4>2 DEF Listed
    <3> QED
      BY <2>6, <3>1
  <2> QED
    BY <2>1, <2>2, <2>4, <2>6, <2>7 DEF Recent
<1>3. CASE Ground
  <2>1. /\ initial' = initial /\ published' = published /\ open' = open /\ rankings' = <<>>
        /\ run' = [run EXCEPT !.stage = "grounded",
                              !.evidence = GroundingContext(Candidates(rankings)).blocks]
    BY <1>3 DEF Ground, KnowledgeUnchanged
  <2>2. run'.stage = "grounded" /\ run'.evidence = GroundingContext(Candidates(rankings)).blocks
    BY <1>0, <2>1
  <2>3. ToSet(run'.evidence) \subseteq Listed(rankings) /\ Listed(rankings) \subseteq Chunks
    BY <2>2, EvidenceFacts, ListedFacts
  <2>4. rankings' \in Seq(Rankings(Chunks)) /\ Len(rankings') <= 2 /\ Listed(rankings') = {}
    BY <2>1 DEF Listed
  <2> QED
    BY <2>1, <2>2, <2>3, <2>4 DEF Recent
<1>4. ASSUME NEW d \in Documents, Publish(d)
      PROVE  SearchInv'
  <2>1. /\ published[d] < MaxPublished /\ published' = [published EXCEPT ![d] = @ + 1]
        /\ UNCHANGED <<open, initial, run, rankings>>
    BY <1>4 DEF Publish
  <2>2. MaxPublished \in Nat
    BY RetrievalAssumption
  <2>3. \A e \in Documents : /\ published[e] \in Nat /\ initial.published[e] \in Nat
                             /\ published[e] <= published'[e] /\ published'[e] \in 0..MaxPublished
    BY <2>1, <2>2
  <2>4. \A c : Recent(c) => Recent(c)'
    BY <2>1, <2>2, <2>3 DEF Recent
  <2>5. published' \in [Documents -> 0..MaxPublished]
    BY <2>1, <2>3
  <2>6. \A e \in Documents : initial.published[e] <= published'[e]
    BY <2>3
  <2> QED
    BY <2>1, <2>4, <2>5, <2>6
<1>5. ASSUME NEW d \in Documents, Archive(d)
      PROVE  SearchInv'
  BY <1>5 DEF Archive, Recent
<1>6. CASE UNCHANGED <<published, open, initial, rankings>> /\ run'.evidence = run.evidence
           /\ run'.stage # "searched"
  BY <1>6 DEF Recent
<1>7. CASE UNCHANGED <<published, open, initial, rankings, run>>
  BY <1>7 DEF Recent
<1>8. CASE \/ \E r \in Classified \cup {Route(run.message)} : Understand(r)
           \/ ClassifierFails \/ AnswerDirectly \/ RequestClarification \/ EscalateFromDecision
           \/ RetrievalFails \/ GeneratorFails \/ FinalizeFails
  <2>1. UNCHANGED <<published, open, initial, rankings>>
    BY <1>8 DEF Understand, ClassifierFails, AnswerDirectly, RequestClarification,
                EscalateFromDecision, RetrievalFails, GeneratorFails, FinalizeFails, KnowledgeUnchanged
  <2>2. run'.evidence = run.evidence /\ run'.stage # "searched"
    BY <1>0, <1>8
    DEF Understand, ClassifierFails, AnswerDirectly, RequestClarification, EscalateFromDecision,
        RetrievalFails, GeneratorFails, FinalizeFails, Fail, Escape, Generated
  <2> QED
    BY <1>6, <2>1, <2>2
<1>9. ASSUME NEW answer \in Answers(run.evidence), Generate(answer)
      PROVE  SearchInv'
  <2>1. answer.status \in {"grounded", "insufficient", "not_required"}
    BY DEF Answers
  <2>2. UNCHANGED <<published, open, initial, rankings>>
    BY <1>9 DEF Generate, KnowledgeUnchanged
  <2>3. run'.evidence = run.evidence /\ run'.stage # "searched"
    BY <1>0, <1>9, <2>1 DEF Generate, Fail, Generated
  <2> QED
    BY <1>6, <2>2, <2>3
<1>10. CASE Review
  <2>1. UNCHANGED <<published, open, initial, rankings>>
    BY <1>10 DEF Review, KnowledgeUnchanged
  <2>2. Verdict(run.message, run.decision, run.response) \in {"pass", "refuse", "escalate", "mismatch"}
    BY DEF Verdict
  <2>3. run'.evidence = run.evidence /\ run'.stage # "searched"
    BY <1>0, <1>10, <2>2 DEF Review
  <2> QED
    BY <1>6, <2>1, <2>3
<1>11. CASE Finalize \/ MarkAborted \/ UNCHANGED vars
  BY <1>7, <1>11 DEF Finalize, MarkAborted, KnowledgeUnchanged, vars
<1> QED
  BY <1>1, <1>2, <1>3, <1>4, <1>5, <1>8, <1>9, <1>10, <1>11 DEF Next

\* Every text is a fixed one or cites chunks or the one thing that is none.
LEMMA ValueSteps ==
  ASSUME RunInv, SearchInv, ValueInv, [Next]_vars
  PROVE  ValueInv'
<1> USE DEF ValueInv
<1>0. DOMAIN run = Fields /\ DOMAIN row = {"status", "text", "escalated"}
      /\ \A x \in {"stage", "response", "code"} : x \in Fields
  BY DEF RunInv, StageInv, RowInv, Fields
<1>1. AppText \in Texts
  BY DEF AppText, Texts
<1>2. CASE \/ \E r \in Classified \cup {Route(run.message)} : Understand(r)
           \/ ClassifierFails \/ AnswerDirectly \/ RequestClarification \/ EscalateFromDecision
           \/ SearchVector \/ SearchLexical \/ RetrievalFails \/ Ground \/ GeneratorFails
           \/ FinalizeFails
  <2>1. row' = row
    BY <1>2 DEF Understand, ClassifierFails, AnswerDirectly, RequestClarification,
                EscalateFromDecision, SearchVector, SearchLexical, RetrievalFails, Ground,
                GeneratorFails, FinalizeFails
  <2>2. run'.response \in {run.response, AppText} /\ run'.code \in Codes \cup {run.code}
    BY <1>0, <1>2
    DEF Understand, ClassifierFails, AnswerDirectly, RequestClarification, EscalateFromDecision,
        SearchVector, SearchLexical, RetrievalFails, Ground, GeneratorFails, FinalizeFails,
        Fail, Escape, Generated, Codes
  <2> QED
    BY <1>1, <2>1, <2>2
<1>3. ASSUME NEW answer \in Answers(run.evidence), Generate(answer)
      PROVE  ValueInv'
  <2> DEFINE text == [by |-> "model", cites |-> answer.cites, claims |-> answer.claims]
  <2>1. answer.status \in {"grounded", "insufficient", "not_required"}
        /\ answer.cites \subseteq ToSet(run.evidence) \cup {Foreign} /\ answer.claims \in BOOLEAN
    BY DEF Answers
  <2>2. text \in Texts
    BY <2>1 DEF Texts, SearchInv
  <2>3. row' = row
    BY <1>3 DEF Generate
  <2>4. \/ run' = [run EXCEPT !.stage = "generated", !.response = text]
        \/ run' = [run EXCEPT !.stage = "escalated", !.response = text]
        \/ run' = [run EXCEPT !.stage = "failed", !.response = text, !.code = "GROUNDING_STATUS_INVALID"]
        \/ run' = [run EXCEPT !.stage = "failed", !.code = "GENERATION_INVALID_RESPONSE"]
    BY <1>3, <2>1 DEF Generate, Generated, Fail
  <2> HIDE DEF text
  <2>5. run'.response \in {run.response, text} /\ run'.code \in Codes \cup {run.code}
    BY <1>0, <2>4 DEF Codes
  <2> QED
    BY <2>2, <2>3, <2>5
<1>4. CASE Review
  <2>1. Verdict(run.message, run.decision, run.response) \in {"pass", "refuse", "escalate", "mismatch"}
    BY DEF Verdict
  <2>2. row' = row
    BY <1>4 DEF Review
  <2>3. run'.response \in {run.response, AppText} /\ run'.code \in Codes \cup {run.code}
    BY <1>0, <1>4, <2>1 DEF Review, Codes
  <2> QED
    BY <1>1, <2>2, <2>3
<1>5. CASE Finalize
  <2>1. run' = run
    BY <1>5 DEF Finalize
  <2>2. row'.text \in {row.text, AppText, run.response}
    BY <1>0, <1>5 DEF Finalize, Shown
  <2> QED
    BY <1>1, <2>1, <2>2
<1>6. CASE MarkAborted
  BY <1>0, <1>6 DEF MarkAborted
<1>7. CASE UNCHANGED <<run, row>>
  BY <1>7
<1>8. (\E d \in Documents : Publish(d) \/ Archive(d)) \/ UNCHANGED vars => UNCHANGED <<run, row>>
  BY DEF Publish, Archive, vars
<1> QED
  BY <1>2, <1>3, <1>4, <1>5, <1>6, <1>7, <1>8 DEF Next

\* All parts of the invariant hold throughout.
LEMMA SearchInvariance == Spec => [](RunInv /\ SearchInv /\ ValueInv)
<1>1. Init => SearchInv /\ ValueInv
  <2> SUFFICES ASSUME Init PROVE SearchInv /\ ValueInv
    OBVIOUS
  <2>1. /\ initial.published = published /\ initial.open = open /\ rankings = <<>>
        /\ published \in [Documents -> 0..MaxPublished] /\ open \subseteq Documents
        /\ run.stage = "received" /\ run.evidence = <<>> /\ run.response = None /\ run.code = None
        /\ row.text = None
    BY DEF Init
  <2>2. Listed(rankings) = {} /\ ToSet(run.evidence) = {}
    BY <2>1 DEF Listed, ToSet
  <2>3. rankings \in Seq(Rankings(Chunks)) /\ Len(rankings) <= 2
    BY <2>1
  <2>4. \A d \in Documents : initial.published[d] <= published[d]
    BY <2>1, RetrievalAssumption
  <2> QED
    BY <2>1, <2>2, <2>3, <2>4 DEF SearchInv, ValueInv
<1>2. RunInv /\ SearchInv /\ ValueInv /\ [Next]_vars => SearchInv' /\ ValueInv'
  BY SearchSteps, ValueSteps
<1> QED
  BY <1>1, <1>2, InitRunInv, StepRunInv, PTL DEF Spec

\* Every stage of the run holds values of its kind.
THEOREM AnsweringTypeCorrect == Spec => []TypeOK
<1>1. RunInv /\ SearchInv /\ ValueInv => TypeOK
  <2> SUFFICES ASSUME RunInv, SearchInv, ValueInv PROVE TypeOK
    OBVIOUS
  <2>1. run.intent \in Classifications \cup {None} /\ run.decision \in Decisions \cup {None}
    BY DecideFacts DEF RunInv, StageInv
  <2>2. Listed(rankings) \subseteq Chunks
    BY ListedFacts DEF SearchInv
  <2> QED
    BY <2>1, <2>2 DEF TypeOK, RunInv, StageInv, SearchInv, ValueInv
<1> QED
  BY <1>1, SearchInvariance, PTL

\* However documents change while the run searches and thinks, it rests on
\* nothing that was replaced or archived before it began.
THEOREM EvidenceStaysRecent == Spec => []EvidenceIsRecent
<1>1. SearchInv => EvidenceIsRecent
  BY DEF SearchInv, EvidenceIsRecent, Recent
<1> QED
  BY <1>1, SearchInvariance, PTL

\* Whatever the searches return, a chunk that one of them ranks higher and
\* none ranks lower comes first.
THEOREM FusionKeepsAgreement == Spec => []FusionRespectsAgreement
<1>1. SearchInv => FusionRespectsAgreement
  BY FusionRespects DEF SearchInv, FusionRespectsAgreement
<1> QED
  BY <1>1, SearchInvariance, PTL

\* Whatever the budget, the context is as full as it allows, repeats nothing
\* and tells truthfully whether something was left out.
THEOREM ContextStaysExplained == Spec => []ContextIsExplained
<1>1. SearchInv => ContextIsExplained
  BY EvidenceFacts DEF SearchInv, ContextIsExplained
<1> QED
  BY <1>1, SearchInvariance, PTL

-----------------------------------------------------------------------------
(* The admission of provider calls.  The spacing argument: the time to the *)
(* next start and the time since the last one always add up to the         *)
(* interval, and the sleeper that holds the start lock never has less left *)
(* to sleep than the next start is away.                                   *)

Locations == Working \cup {"idle", "answered", "failed"}

\* CapacityTypeOK without the bound on permits, which follows from PermitsConserved.
CapacityTyping ==
    /\ pc \in [Requests -> Locations]
    /\ timer \in [Requests -> Nat]
    /\ retries \in [Requests -> 0..MaxRetries]
    /\ calls \in [Requests -> Nat]
    /\ permits \in Nat
    /\ startLock \in Requests \cup {Nobody}
    /\ nextStart \in 0..Interval
    /\ sinceStart \in 0..Interval

\* The request that is spacing its start holds the lock and sleeps enough.
SpacingInv ==
    /\ nextStart + sinceStart = Interval
    /\ \A r \in Requests : pc[r] = "spacing" => startLock = r /\ timer[r] >= nextStart

\* Calls made so far against retries used so far.
CallsInv ==
    \A r \in Requests :
        /\ calls[r] <= retries[r] + 1
        /\ pc[r] \in {"idle", "queued", "admitted", "spacing", "granted", "backoff"} => calls[r] <= retries[r]

CapacityInv == CapacityTyping /\ SpacingInv /\ CallsInv

\* Nobody has asked for anything yet.
LEMMA InitCapacityInv == CapacityInit => CapacityInv
  BY ConfigAssumption, NobodyAssumption
  DEF CapacityInit, CapacityInv, CapacityTyping, SpacingInv, CallsInv, Locations, Working, Admitted

\* A transient error uses up a retry or ends the request.
LEMMA RetryStep ==
  ASSUME CapacityInv, NEW r \in Requests, RetryOrRaise(r), pc[r] \in {"queued", "calling"},
         permits' \in Nat, UNCHANGED <<calls, startLock, nextStart, sinceStart>>
  PROVE  CapacityInv'
<1>1. CASE Exhausted(r)
  BY <1>1 DEF RetryOrRaise, CapacityInv, CapacityTyping, SpacingInv, CallsInv, Locations, Working, Admitted
<1>2. CASE ~Exhausted(r)
  <2>1. /\ retries[r] + 1 \in 0..MaxRetries
        /\ pc' = [pc EXCEPT ![r] = "backoff"]
        /\ retries' = [retries EXCEPT ![r] = @ + 1]
    BY <1>2, ConfigAssumption DEF RetryOrRaise, Exhausted, CapacityInv, CapacityTyping
  <2>2. PICK delay \in 0..MaxDelay : timer' = [timer EXCEPT ![r] = delay]
    BY <1>2 DEF RetryOrRaise
  <2>3. delay \in Nat
    BY ConfigAssumption
  <2> QED
    BY <2>1, <2>2, <2>3
    DEF CapacityInv, CapacityTyping, SpacingInv, CallsInv, Locations, Working, Admitted
<1> QED
  BY <1>1, <1>2

\* Every step preserves the invariant.
LEMMA StepCapacityInv == CapacityInv /\ [CapacityNext]_capacityVars => CapacityInv'
<1> SUFFICES ASSUME CapacityInv, [CapacityNext]_capacityVars PROVE CapacityInv'
  OBVIOUS
<1> USE ConfigAssumption, NobodyAssumption
<1>1. ASSUME NEW r \in Requests, Ask(r) PROVE CapacityInv'
  BY <1>1 DEF Ask, CapacityInv, CapacityTyping, SpacingInv, CallsInv, Locations, Working, Admitted
<1>2. ASSUME NEW r \in Requests, Acquire(r) PROVE CapacityInv'
  BY <1>2 DEF Acquire, Taken, CapacityInv, CapacityTyping, SpacingInv, CallsInv, Locations, Working, Admitted
<1>3. ASSUME NEW r \in Requests, TimeOut(r) PROVE CapacityInv'
  BY <1>3, RetryStep DEF TimeOut, CapacityInv, CapacityTyping
<1>4. ASSUME NEW r \in Requests, Space(r) PROVE CapacityInv'
  BY <1>4 DEF Space, StartLockFree, CapacityInv, CapacityTyping, SpacingInv, CallsInv, Locations, Working, Admitted
<1>5. ASSUME NEW r \in Requests, Start(r) PROVE CapacityInv'
  BY <1>5 DEF Start, Unlocked, CapacityInv, CapacityTyping, SpacingInv, CallsInv, Locations, Working, Admitted
<1>9. ASSUME NEW r \in Requests, Call(r) PROVE CapacityInv'
  BY <1>9 DEF Call, CapacityInv, CapacityTyping, SpacingInv, CallsInv, Locations, Working, Admitted
<1>6. ASSUME NEW r \in Requests, NEW o, Finish(r, o) PROVE CapacityInv'
  <2>1. pc[r] = "calling" /\ permits' \in Nat /\ UNCHANGED <<calls, startLock, nextStart, sinceStart>>
    BY <1>6 DEF Finish, Released, CapacityInv, CapacityTyping
  <2>2. CASE o = "transient"
    BY <1>6, <2>1, <2>2, RetryStep DEF Finish
  <2>3. CASE o # "transient"
    <3>1. PICK l \in {"answered", "failed"} :
            pc' = [pc EXCEPT ![r] = l] /\ UNCHANGED <<timer, retries>>
      BY <1>6, <2>3 DEF Finish
    <3> QED
      BY <2>1, <3>1 DEF CapacityInv, CapacityTyping, SpacingInv, CallsInv, Locations, Working, Admitted
  <2> QED
    BY <2>2, <2>3
<1>7. CASE Tick
  BY <1>7 DEF Tick, CapacityInv, CapacityTyping, SpacingInv, CallsInv
<1>8. CASE UNCHANGED capacityVars
  BY <1>8 DEF capacityVars, CapacityInv, CapacityTyping, SpacingInv, CallsInv
<1> QED
  BY <1>1, <1>2, <1>3, <1>4, <1>5, <1>6, <1>7, <1>8, <1>9 DEF CapacityNext, Progress

\* The invariant holds in every reachable state.
THEOREM CapacityInvariance == CapacitySpec => []CapacityInv
  BY InitCapacityInv, StepCapacityInv, PTL DEF CapacitySpec

\* Start slots are never granted closer than the interval, which may be zero.
THEOREM StartsStayApart == CapacitySpec => StartsSpaced
<1>1. ASSUME CapacityInv, [CapacityNext]_capacityVars, NEW r \in Requests,
             pc[r] # "granted", pc'[r] = "granted"
      PROVE  sinceStart = Interval
  <2>1. Space(r) \/ Start(r)
    BY <1>1
    DEF CapacityInv, CapacityTyping, capacityVars, CapacityNext, Progress, Ask, Acquire, TimeOut,
        RetryOrRaise, Space, Start, Call, Finish, Tick
  <2>2. nextStart = 0
    BY <1>1, <2>1, ConfigAssumption
    DEF Space, Start, CapacityInv, CapacityTyping, SpacingInv
  <2> QED
    BY <1>1, <2>2, ConfigAssumption DEF CapacityInv, CapacityTyping, SpacingInv
<1>2. CapacityInv /\ [CapacityNext]_capacityVars
        => [\A r \in Requests :
               pc[r] # "granted" /\ pc'[r] = "granted" => sinceStart = Interval]_capacityVars
  BY <1>1
<1> QED
  BY <1>2, CapacityInvariance, PTL DEF CapacitySpec, StartsSpaced

\* However errors and timeouts alternate, retries bound the calls.
THEOREM RetriesBoundCalls == CapacitySpec => []CallsBounded
<1>1. CapacityInv => CallsBounded
  BY ConfigAssumption DEF CapacityInv, CapacityTyping, CallsInv, CallsBounded
<1> QED
  BY <1>1, CapacityInvariance, PTL

-----------------------------------------------------------------------------

\* One request enters or leaves the admitted ones with its permit.
LEMMA PermitStep ==
  ASSUME CapacityInv, [CapacityNext]_capacityVars, PermitsConserved
  PROVE  PermitsConserved'
<1> DEFINE S == {r \in Requests : pc[r] \in Admitted}
<1>0. IsFiniteSet(S) /\ Cardinality(S) \in Nat
  BY FS_Subset, FS_CardinalityType, RequestsAssumption
<1>1. permits + Cardinality(S) = MaxConcurrency
  BY DEF PermitsConserved
<1> HIDE DEF S
<1>2. ASSUME NEW r \in Requests, Acquire(r) PROVE PermitsConserved'
  <2>1. r \notin S /\ S' = S \cup {r}
    BY <1>2 DEF Acquire, S, Admitted, CapacityInv, CapacityTyping
  <2>2. Cardinality(S') = Cardinality(S) + 1
    BY <1>0, <2>1, FS_AddElement
  <2>3. permits' = permits - 1
    BY <1>2 DEF Acquire, Taken
  <2> QED
    BY <1>0, <1>1, <2>2, <2>3 DEF PermitsConserved, S, CapacityInv, CapacityTyping
<1>3. ASSUME NEW r \in Requests, NEW o, Finish(r, o) PROVE PermitsConserved'
  <2>1. PICK l \in {"answered", "failed", "backoff"} : pc' = [pc EXCEPT ![r] = l]
    BY <1>3 DEF Finish, RetryOrRaise
  <2>2. r \in S /\ S' = S \ {r}
    BY <1>3, <2>1 DEF Finish, S, Admitted, CapacityInv, CapacityTyping
  <2>3. Cardinality(S') = Cardinality(S) - 1
    BY <1>0, <2>2, FS_RemoveElement
  <2>4. permits' = permits + 1
    BY <1>3 DEF Finish, Released
  <2> QED
    BY <1>0, <1>1, <2>3, <2>4 DEF PermitsConserved, S, CapacityInv, CapacityTyping
<1>4. ASSUME S' = S, permits' = permits PROVE PermitsConserved'
  BY <1>1, <1>4 DEF PermitsConserved, S
<1>5. ASSUME NEW r \in Requests, Ask(r) \/ TimeOut(r) \/ Space(r) \/ Start(r) \/ Call(r)
      PROVE  PermitsConserved'
  <2>1. permits' = permits
    BY <1>5 DEF Ask, TimeOut, Space, Start, Call
  <2>2. S' = S
    BY <1>5 DEF Ask, TimeOut, RetryOrRaise, Space, Start, Call, S, Admitted, CapacityInv, CapacityTyping
  <2> QED
    BY <1>4, <2>1, <2>2
<1>6. CASE Tick \/ UNCHANGED capacityVars
  <2>1. S' = S /\ permits' = permits
    BY <1>6 DEF Tick, capacityVars, S
  <2> QED
    BY <1>4, <2>1
<1> QED
  BY <1>2, <1>3, <1>5, <1>6 DEF CapacityNext, Progress

\* Permits are neither lost nor doubled, for any finite set of requests.
THEOREM NoPermitLost == CapacitySpec => []PermitsConserved
<1>1. CapacityInit => PermitsConserved
  <2> SUFFICES ASSUME CapacityInit PROVE PermitsConserved
    OBVIOUS
  <2>1. {r \in Requests : pc[r] \in Admitted} = {}
    BY DEF CapacityInit, Admitted
  <2> QED
    BY <2>1, FS_EmptySet, ConfigAssumption DEF CapacityInit, PermitsConserved
<1>2. CapacityInv /\ PermitsConserved /\ [CapacityNext]_capacityVars => PermitsConserved'
  BY PermitStep
<1> QED
  BY <1>1, <1>2, CapacityInvariance, PTL DEF CapacitySpec

\* The types, the bound of the semaphore included.
THEOREM CapacityTypeCorrect == CapacitySpec => []CapacityTypeOK
<1>1. CapacityInv /\ PermitsConserved => CapacityTypeOK
  <2> SUFFICES ASSUME CapacityInv, PermitsConserved PROVE CapacityTypeOK
    OBVIOUS
  <2>1. Cardinality({r \in Requests : pc[r] \in Admitted}) \in Nat
    BY FS_Subset, FS_CardinalityType, RequestsAssumption
  <2>2. permits \in 0..MaxConcurrency
    BY <2>1, ConfigAssumption DEF PermitsConserved, CapacityInv, CapacityTyping
  <2> QED
    BY <2>2 DEF CapacityInv, CapacityTyping, CapacityTypeOK, Locations
<1> QED
  BY <1>1, CapacityInvariance, NoPermitLost, PTL
=============================================================================
