------------------------------ MODULE SumFacts ------------------------------
(***************************************************************************)
(* Sums over finite sets.  The models count money and bytes with the       *)
(* library's SumFunctionOnSet, a fold whose recursion takes the elements   *)
(* in an unspecified order.  The facts below are what their proofs need of *)
(* it: the empty sum, one element more or less, whichever it is, the range *)
(* of the sum and the values it depends on.  They rest on an induction     *)
(* over finite sets which names the sets it holds for as a set, and so     *)
(* needs no operator as a parameter.                                       *)
(***************************************************************************)
EXTENDS Integers, FiniteSets, Functions, FiniteSetTheorems, TLAPS

\* One unfolding of the fold, for the subsets of D.
Unfolded(f, D, g) ==
  [s \in SUBSET D |-> IF s = {} THEN 0
                      ELSE LET x == CHOOSE x \in s : TRUE IN f[x] + g[s \ {x}]]

Partial(f, D) == CHOOSE g : g = Unfolded(f, D, g)

\* The sum is what the fold's function gives for the whole set.
LEMMA SumIsPartial ==
  ASSUME NEW f, NEW D
  PROVE  SumFunctionOnSet(f, D) = Partial(f, D)[D]
BY DEF SumFunctionOnSet, FoldFunctionOnSet, MapThenFoldSet, Partial, Unfolded

-----------------------------------------------------------------------------
(***************************************************************************)
(* Induction: a set that holds every subset of D whose own strict subsets  *)
(* it holds is a set of all the subsets of D.                              *)
(***************************************************************************)
LEMMA SubsetInduction ==
  ASSUME NEW D, IsFiniteSet(D), NEW G,
         \A U \in SUBSET D : (\A V \in SUBSET U : V # U => V \in G) => U \in G
  PROVE  SUBSET D \subseteq G
<1> DEFINE R   == StrictSubsetOrdering(D)
           Bad == (SUBSET D) \ G
<1> SUFFICES ASSUME Bad # {} PROVE FALSE
  OBVIOUS
<1>1. IsWellFoundedOn(R, FiniteSubsetsOf(D)) /\ FiniteSubsetsOf(D) = SUBSET D
  BY FS_StrictSubsetOrderingWellFounded, FS_FiniteSubsetsOfFinite
<1>2. IsWellFoundedOn(R, SUBSET D)
  BY <1>1
<1>3. PICK U \in Bad : \A V \in Bad : <<V, U>> \notin R
  <2> HIDE DEF R
  <2>1. Bad \subseteq SUBSET D
    OBVIOUS
  <2> HIDE DEF Bad
  <2> QED
    BY <1>2, <2>1, WFMin
<1>4. \A V \in SUBSET U : V # U => V \in G
  BY <1>3 DEF StrictSubsetOrdering
<1> QED
  BY <1>3, <1>4

\* A set of numbers that has 0 and with each number the next has all.
LEMMA Counting ==
  ASSUME NEW G, 0 \in G, \A n \in Nat : n \in G => n + 1 \in G
  PROVE  Nat \subseteq G
<1> DEFINE Bad == Nat \ G
<1> SUFFICES ASSUME Bad # {} PROVE FALSE
  OBVIOUS
<1>1. PICK x \in Bad : \A y \in Bad : ~(<<y, x>> \in OpToRel(<, Nat))
  <2>1. Bad \subseteq Nat
    OBVIOUS
  <2> HIDE DEF Bad
  <2> QED BY <2>1, WFMin, NatLessThanWellFounded
<1>2. \A y \in Bad : ~(y < x)
  BY <1>1 DEF OpToRel
<1>3. x \in Nat /\ x # 0
  OBVIOUS
<1>4. x - 1 \in Nat /\ x - 1 < x /\ (x - 1) + 1 = x
  BY <1>3
<1>5. x - 1 \in G
  BY <1>2, <1>4
<1> QED BY <1>4, <1>5

-----------------------------------------------------------------------------
(***************************************************************************)
(* The fold is well defined.                                               *)
(***************************************************************************)

\* Two functions that unfold agree where both are defined.
LEMMA UnfoldedUnique ==
  ASSUME NEW f, NEW D, NEW E, IsFiniteSet(D), NEW g, NEW h,
         g = Unfolded(f, D, g), h = Unfolded(f, E, h),
         NEW s \in SUBSET (D \cap E)
  PROVE  g[s] = h[s]
<1> DEFINE C    == D \cap E
           Same == {u \in SUBSET C : g[u] = h[u]}
<1>1. IsFiniteSet(C)
  BY FS_Intersection
<1>2. ASSUME NEW u \in SUBSET C, \A v \in SUBSET u : v # u => v \in Same
      PROVE  u \in Same
  <2> DEFINE x == CHOOSE x \in u : TRUE
  <2>1. g[u] = (IF u = {} THEN 0 ELSE f[x] + g[u \ {x}])
    BY DEF Unfolded
  <2>2. h[u] = (IF u = {} THEN 0 ELSE f[x] + h[u \ {x}])
    BY DEF Unfolded
  <2>3. CASE u = {}
    BY <2>1, <2>2, <2>3
  <2>4. CASE u # {}
    <3>1. x \in u
      BY <2>4
    <3> HIDE DEF x
    <3>2. g[u \ {x}] = h[u \ {x}]
      BY <1>2, <3>1
    <3> QED
      BY <2>1, <2>2, <2>4, <3>2
  <2> QED
    BY <2>3, <2>4
<1>3. SUBSET C \subseteq Same
  <2> HIDE DEF Same, C
  <2> QED
    BY <1>1, <1>2, SubsetInduction
<1> QED
  BY <1>3

\* The function the fold chooses does unfold.
LEMMA PartialUnfolds ==
  ASSUME NEW f, NEW D, IsFiniteSet(D)
  PROVE  Partial(f, D) = Unfolded(f, D, Partial(f, D))
<1> DEFINE Good == {U \in SUBSET D : Partial(f, U) = Unfolded(f, U, Partial(f, U))}
<1>1. ASSUME NEW U \in SUBSET D, \A V \in SUBSET U : V # U => V \in Good
      PROVE  U \in Good
  <2> DEFINE pick(s) == CHOOSE x \in s : TRUE
             g == [s \in SUBSET U |-> IF s = {} THEN 0
                                      ELSE f[pick(s)] + Partial(f, s \ {pick(s)})[s \ {pick(s)}]]
  <2>0. \A s \in SUBSET U : s # {} => pick(s) \in s
    OBVIOUS
  <2>1. ASSUME NEW s \in SUBSET U, s # U
        PROVE  g[s] = Partial(f, s)[s]
    <3>1. Partial(f, s) = Unfolded(f, s, Partial(f, s))
      BY <1>1, <2>1
    <3>2. Partial(f, s)[s] = (IF s = {} THEN 0 ELSE f[pick(s)] + Partial(f, s)[s \ {pick(s)}])
      BY <3>1 DEF Unfolded
    <3>3. CASE s = {}
      BY <3>2, <3>3
    <3>4. CASE s # {}
      <4> DEFINE t == s \ {pick(s)}
      <4>1. t \in SUBSET U /\ t \in SUBSET (s \cap t) /\ t # U
        BY <2>0, <3>4
      <4>2. Partial(f, t) = Unfolded(f, t, Partial(f, t))
        BY <1>1, <4>1
      <4>3. IsFiniteSet(s)
        BY FS_Subset
      <4>4. Partial(f, s)[t] = Partial(f, t)[t]
        <5> HIDE DEF t
        <5> QED
          BY <3>1, <4>1, <4>2, <4>3, UnfoldedUnique
      <4>5. g[s] = f[pick(s)] + Partial(f, t)[t]
        BY <3>4
      <4> QED
        BY <3>2, <3>4, <4>4, <4>5
    <3> QED
      BY <3>3, <3>4
  <2>2. g = Unfolded(f, U, g)
    <3>1. ASSUME NEW s \in SUBSET U, s # {}
          PROVE  g[s \ {pick(s)}] = Partial(f, s \ {pick(s)})[s \ {pick(s)}]
      <4>1. s \ {pick(s)} \in SUBSET U /\ s \ {pick(s)} # U
        BY <2>0, <3>1
      <4> HIDE DEF g, pick
      <4> QED
        BY <2>1, <4>1
    <3>2. \A s \in SUBSET U : g[s] = IF s = {} THEN 0 ELSE f[pick(s)] + g[s \ {pick(s)}]
      <4> TAKE s \in SUBSET U
      <4>1. g[s] = IF s = {} THEN 0 ELSE f[pick(s)] + Partial(f, s \ {pick(s)})[s \ {pick(s)}]
        OBVIOUS
      <4> HIDE DEF g
      <4> QED
        BY <3>1, <4>1
    <3>3. g = [s \in SUBSET U |-> g[s]]
      OBVIOUS
    <3> HIDE DEF g
    <3>4. g = [s \in SUBSET U |-> IF s = {} THEN 0 ELSE f[pick(s)] + g[s \ {pick(s)}]]
      BY <3>2, <3>3
    <3> QED
      BY <3>4 DEF Unfolded
  <2> HIDE DEF g
  <2>3. Partial(f, U) = Unfolded(f, U, Partial(f, U))
    BY <2>2 DEF Partial
  <2> QED
    BY <2>3
<1>2. SUBSET D \subseteq Good
  <2> HIDE DEF Good
  <2> QED
    BY <1>1, SubsetInduction
<1> QED
  BY <1>2

-----------------------------------------------------------------------------
(***************************************************************************)
(* What the proofs cite.                                                   *)
(***************************************************************************)

\* Nothing sums to zero.
LEMMA SumOfNone ==
  ASSUME NEW f
  PROVE  SumFunctionOnSet(f, {}) = 0
<1>1. Partial(f, {}) = Unfolded(f, {}, Partial(f, {}))
  BY PartialUnfolds, FS_EmptySet
<1>2. Partial(f, {})[{}] = 0
  BY <1>1 DEF Unfolded
<1> QED
  BY <1>2, SumIsPartial

\* The element the fold takes first.
LEMMA SumFirst ==
  ASSUME NEW f, NEW D, IsFiniteSet(D), D # {}
  PROVE  \E x \in D : SumFunctionOnSet(f, D) = f[x] + SumFunctionOnSet(f, D \ {x})
<1> DEFINE x == CHOOSE x \in D : TRUE
           E == D \ {x}
<1>1. x \in D
  OBVIOUS
<1> HIDE DEF x
<1>2. Partial(f, D) = Unfolded(f, D, Partial(f, D))
  BY PartialUnfolds
<1>3. IsFiniteSet(E) /\ E \in SUBSET (D \cap E)
  BY FS_RemoveElement
<1>4. Partial(f, E) = Unfolded(f, E, Partial(f, E))
  BY <1>3, PartialUnfolds
<1>5. Partial(f, D)[D] = f[x] + Partial(f, D)[E]
  BY <1>2 DEF Unfolded, x
<1>6. Partial(f, D)[E] = Partial(f, E)[E]
  <2> HIDE DEF E
  <2> QED
    BY <1>2, <1>3, <1>4, UnfoldedUnique
<1> QED
  BY <1>1, <1>5, <1>6, SumIsPartial

\* A sum of integers is one.
LEMMA SumType ==
  ASSUME NEW f, NEW D, IsFiniteSet(D), \A x \in D : f[x] \in Int
  PROVE  SumFunctionOnSet(f, D) \in Int
<1> DEFINE Good == {U \in SUBSET D : SumFunctionOnSet(f, U) \in Int}
<1>1. ASSUME NEW U \in SUBSET D, \A V \in SUBSET U : V # U => V \in Good
      PROVE  U \in Good
  <2>1. CASE U = {}
    BY <2>1, SumOfNone
  <2>2. CASE U # {}
    <3>1. IsFiniteSet(U)
      BY FS_Subset
    <3>2. PICK x \in U : SumFunctionOnSet(f, U) = f[x] + SumFunctionOnSet(f, U \ {x})
      BY <2>2, <3>1, SumFirst
    <3>3. SumFunctionOnSet(f, U \ {x}) \in Int
      BY <1>1, <3>2
    <3> QED
      BY <3>2, <3>3
  <2> QED
    BY <2>1, <2>2
<1>2. SUBSET D \subseteq Good
  <2> HIDE DEF Good
  <2> QED
    BY <1>1, SubsetInduction
<1> QED
  BY <1>2

\* Any element can be taken first.
LEMMA SumTakes ==
  ASSUME NEW f, NEW D, IsFiniteSet(D), \A x \in D : f[x] \in Int
  PROVE  \A y \in D : SumFunctionOnSet(f, D) = f[y] + SumFunctionOnSet(f, D \ {y})
<1> DEFINE Good == {U \in SUBSET D : \A y \in U :
                      SumFunctionOnSet(f, U) = f[y] + SumFunctionOnSet(f, U \ {y})}
<1>1. ASSUME NEW U \in SUBSET D, \A V \in SUBSET U : V # U => V \in Good
      PROVE  U \in Good
  <2> SUFFICES ASSUME NEW y \in U
               PROVE  SumFunctionOnSet(f, U) = f[y] + SumFunctionOnSet(f, U \ {y})
    OBVIOUS
  <2>1. IsFiniteSet(U)
    BY FS_Subset
  <2>2. PICK x \in U : SumFunctionOnSet(f, U) = f[x] + SumFunctionOnSet(f, U \ {x})
    BY <2>1, SumFirst
  <2>3. CASE y = x
    BY <2>2, <2>3
  <2>4. CASE y # x
    <3> DEFINE both == (U \ {x}) \ {y}
    <3>1. SumFunctionOnSet(f, U \ {x}) = f[y] + SumFunctionOnSet(f, both)
      BY <1>1, <2>2, <2>4
    <3>2. SumFunctionOnSet(f, U \ {y}) = f[x] + SumFunctionOnSet(f, (U \ {y}) \ {x})
      BY <1>1, <2>2, <2>4
    <3>3. SumFunctionOnSet(f, U \ {y}) = f[x] + SumFunctionOnSet(f, both)
      <4>1. (U \ {y}) \ {x} = both
        OBVIOUS
      <4> HIDE DEF both
      <4> QED
        BY <3>2, <4>1
    <3>4. SumFunctionOnSet(f, both) \in Int
      <4>1. both \in SUBSET D
        OBVIOUS
      <4>2. IsFiniteSet(both)
        BY <4>1, FS_Subset
      <4> HIDE DEF both
      <4> QED
        BY <4>1, <4>2, SumType
    <3>5. f[x] \in Int /\ f[y] \in Int
      OBVIOUS
    <3> HIDE DEF both
    <3> QED
      BY <2>2, <3>1, <3>3, <3>4, <3>5
  <2> QED
    BY <2>3, <2>4
<1>2. SUBSET D \subseteq Good
  <2> HIDE DEF Good
  <2> QED
    BY <1>1, SubsetInduction
<1> QED
  BY <1>2

\* One element more.
LEMMA SumAdds ==
  ASSUME NEW f, NEW D, IsFiniteSet(D), NEW y, y \notin D, \A x \in D \cup {y} : f[x] \in Int
  PROVE  SumFunctionOnSet(f, D \cup {y}) = SumFunctionOnSet(f, D) + f[y]
<1> DEFINE E == D \cup {y}
<1>1. IsFiniteSet(E) /\ y \in E /\ E \ {y} = D
  BY FS_AddElement
<1>2. SumFunctionOnSet(f, E) = f[y] + SumFunctionOnSet(f, D)
  <2>1. \A x \in E : f[x] \in Int
    OBVIOUS
  <2> HIDE DEF E
  <2> QED
    BY <1>1, <2>1, SumTakes
<1>3. SumFunctionOnSet(f, D) \in Int /\ f[y] \in Int
  BY SumType
<1> QED
  BY <1>2, <1>3

\* One element less.
LEMMA SumRemoves ==
  ASSUME NEW f, NEW D, IsFiniteSet(D), NEW y \in D, \A x \in D : f[x] \in Int
  PROVE  SumFunctionOnSet(f, D \ {y}) = SumFunctionOnSet(f, D) - f[y]
<1>1. SumFunctionOnSet(f, D) = f[y] + SumFunctionOnSet(f, D \ {y})
  BY SumTakes
<1>2. IsFiniteSet(D \ {y})
  BY FS_RemoveElement
<1>3. SumFunctionOnSet(f, D \ {y}) \in Int /\ f[y] \in Int
  <2> DEFINE E == D \ {y}
  <2>1. \A x \in E : f[x] \in Int
    OBVIOUS
  <2> HIDE DEF E
  <2> QED
    BY <1>2, <2>1, SumType DEF E
<1> QED
  BY <1>1, <1>3

\* The values on the set are all the sum depends on.
LEMMA SumAgrees ==
  ASSUME NEW f, NEW g, NEW D, IsFiniteSet(D), \A x \in D : f[x] = g[x] /\ f[x] \in Int
  PROVE  SumFunctionOnSet(f, D) = SumFunctionOnSet(g, D)
<1> DEFINE Good == {U \in SUBSET D : SumFunctionOnSet(f, U) = SumFunctionOnSet(g, U)}
<1>1. ASSUME NEW U \in SUBSET D, \A V \in SUBSET U : V # U => V \in Good
      PROVE  U \in Good
  <2>1. CASE U = {}
    BY <2>1, SumOfNone
  <2>2. CASE U # {}
    <3>1. IsFiniteSet(U)
      BY FS_Subset
    <3>2. PICK x \in U : SumFunctionOnSet(f, U) = f[x] + SumFunctionOnSet(f, U \ {x})
      BY <2>2, <3>1, SumFirst
    <3>3. SumFunctionOnSet(g, U) = g[x] + SumFunctionOnSet(g, U \ {x})
      BY <3>1, SumTakes
    <3>4. SumFunctionOnSet(f, U \ {x}) = SumFunctionOnSet(g, U \ {x})
      BY <1>1
    <3> QED
      BY <3>2, <3>3, <3>4
  <2> QED
    BY <2>1, <2>2
<1>2. SUBSET D \subseteq Good
  <2> HIDE DEF Good
  <2> QED
    BY <1>1, SubsetInduction
<1> QED
  BY <1>2

\* What is not negative does not sum to less.
LEMMA SumNat ==
  ASSUME NEW f, NEW D, IsFiniteSet(D), \A x \in D : f[x] \in Nat
  PROVE  SumFunctionOnSet(f, D) \in Nat
<1> DEFINE Good == {U \in SUBSET D : SumFunctionOnSet(f, U) \in Nat}
<1>1. ASSUME NEW U \in SUBSET D, \A V \in SUBSET U : V # U => V \in Good
      PROVE  U \in Good
  <2>1. CASE U = {}
    BY <2>1, SumOfNone
  <2>2. CASE U # {}
    <3>1. IsFiniteSet(U)
      BY FS_Subset
    <3>2. PICK x \in U : SumFunctionOnSet(f, U) = f[x] + SumFunctionOnSet(f, U \ {x})
      BY <2>2, <3>1, SumFirst
    <3>3. SumFunctionOnSet(f, U \ {x}) \in Nat
      BY <1>1, <3>2
    <3> QED
      BY <3>2, <3>3
  <2> QED
    BY <2>1, <2>2
<1>2. SUBSET D \subseteq Good
  <2> HIDE DEF Good
  <2> QED
    BY <1>1, SubsetInduction
<1> QED
  BY <1>2

\* Nothing but zeros outside.
LEMMA SumWithin ==
  ASSUME NEW f, NEW g, NEW D, NEW E, IsFiniteSet(E), D \subseteq E,
         \A x \in D : f[x] \in Int /\ g[x] = f[x], \A x \in E \ D : g[x] = 0
  PROVE  SumFunctionOnSet(g, E) = SumFunctionOnSet(f, D)
<1> DEFINE Good == {U \in SUBSET E : SumFunctionOnSet(g, U) = SumFunctionOnSet(f, U \cap D)}
<1>1. ASSUME NEW U \in SUBSET E, \A V \in SUBSET U : V # U => V \in Good
      PROVE  U \in Good
  <2>0. IsFiniteSet(U) /\ \A x \in U : g[x] \in Int
    BY FS_Subset
  <2>1. CASE U = {}
    <3>1. U \cap D = {}
      BY <2>1
    <3> QED
      BY <2>1, <3>1, SumOfNone
  <2>2. CASE U # {}
    <3>1. PICK x \in U : SumFunctionOnSet(g, U) = g[x] + SumFunctionOnSet(g, U \ {x})
      BY <2>0, <2>2, SumFirst
    <3>2. SumFunctionOnSet(g, U \ {x}) = SumFunctionOnSet(f, (U \ {x}) \cap D)
      BY <1>1, <3>1
    <3>3. CASE x \in D
      <4> DEFINE W == U \cap D
      <4>1. (U \ {x}) \cap D = W \ {x} /\ x \in W /\ \A y \in W : f[y] \in Int
        BY <3>1, <3>3
      <4>2. IsFiniteSet(W)
        BY <2>0, FS_Intersection
      <4> HIDE DEF W
      <4>3. SumFunctionOnSet(f, W) = f[x] + SumFunctionOnSet(f, W \ {x})
        BY <4>1, <4>2, SumTakes
      <4>4. SumFunctionOnSet(g, U) = SumFunctionOnSet(f, W)
        BY <3>1, <3>2, <3>3, <4>1, <4>3
      <4> QED
        BY <4>4 DEF W
    <3>4. CASE x \notin D
      <4>1. (U \ {x}) \cap D = U \cap D /\ g[x] = 0
        BY <3>1, <3>4
      <4>2. SumFunctionOnSet(g, U \ {x}) \in Int
        <5> DEFINE W == U \ {x}
        <5>1. IsFiniteSet(W) /\ \A y \in W : g[y] \in Int
          BY <2>0, FS_RemoveElement
        <5> HIDE DEF W
        <5>2. SumFunctionOnSet(g, W) \in Int
          BY <5>1, SumType
        <5> QED
          BY <5>2 DEF W
      <4>3. SumFunctionOnSet(g, U) = SumFunctionOnSet(g, U \ {x})
        BY <3>1, <4>1, <4>2
      <4>4. SumFunctionOnSet(g, U) = SumFunctionOnSet(f, U \cap D)
        BY <3>2, <4>1, <4>3
      <4> QED
        BY <4>4
    <3> QED
      BY <3>3, <3>4
  <2> QED
    BY <2>1, <2>2
<1>2. SUBSET E \subseteq Good
  <2> HIDE DEF Good
  <2> QED
    BY <1>1, SubsetInduction
<1>3. E \cap D = D
  OBVIOUS
<1> QED
  BY <1>2, <1>3

\* Sums of sums.
LEMMA SumPlus ==
  ASSUME NEW f, NEW g, NEW h, NEW D, IsFiniteSet(D),
         \A x \in D : f[x] \in Int /\ g[x] \in Int /\ h[x] = f[x] + g[x]
  PROVE  SumFunctionOnSet(h, D) = SumFunctionOnSet(f, D) + SumFunctionOnSet(g, D)
<1> DEFINE Good == {U \in SUBSET D : SumFunctionOnSet(h, U) =
                                      SumFunctionOnSet(f, U) + SumFunctionOnSet(g, U)}
<1>1. ASSUME NEW U \in SUBSET D, \A V \in SUBSET U : V # U => V \in Good
      PROVE  U \in Good
  <2>0. IsFiniteSet(U)
    BY FS_Subset
  <2>1. CASE U = {}
    BY <2>1, SumOfNone
  <2>2. CASE U # {}
    <3>1. PICK x \in U : SumFunctionOnSet(h, U) = h[x] + SumFunctionOnSet(h, U \ {x})
      BY <2>0, <2>2, SumFirst
    <3> DEFINE W == U \ {x}
    <3>2. SumFunctionOnSet(h, W) = SumFunctionOnSet(f, W) + SumFunctionOnSet(g, W)
      BY <1>1, <3>1
    <3>3. IsFiniteSet(W) /\ \A y \in W : f[y] \in Int /\ g[y] \in Int
      BY <2>0, FS_RemoveElement
    <3>4. /\ SumFunctionOnSet(f, U) = f[x] + SumFunctionOnSet(f, W)
          /\ SumFunctionOnSet(g, U) = g[x] + SumFunctionOnSet(g, W)
      BY <2>0, <3>1, SumTakes
    <3>5. SumFunctionOnSet(h, U) = h[x] + SumFunctionOnSet(h, W)
      BY <3>1
    <3>6. h[x] = f[x] + g[x] /\ f[x] \in Int /\ g[x] \in Int
      BY <3>1
    <3> HIDE DEF W
    <3>7. SumFunctionOnSet(f, W) \in Int /\ SumFunctionOnSet(g, W) \in Int
      BY <3>3, SumType
    <3>8. SumFunctionOnSet(h, U) = SumFunctionOnSet(f, U) + SumFunctionOnSet(g, U)
      BY <3>2, <3>4, <3>5, <3>6, <3>7
    <3> QED
      BY <3>8
  <2> QED
    BY <2>1, <2>2
<1>2. SUBSET D \subseteq Good
  <2> HIDE DEF Good
  <2> QED
    BY <1>1, SubsetInduction
<1> QED
  BY <1>2

\* No value less, no sum less.
LEMMA SumLeq ==
  ASSUME NEW f, NEW g, NEW D, IsFiniteSet(D),
         \A x \in D : f[x] \in Int /\ g[x] \in Int /\ f[x] <= g[x]
  PROVE  SumFunctionOnSet(f, D) <= SumFunctionOnSet(g, D)
<1> DEFINE more == [x \in D |-> g[x] - f[x]]
<1>1. \A x \in D : more[x] \in Nat /\ g[x] = f[x] + more[x]
  OBVIOUS
<1> HIDE DEF more
<1>2. SumFunctionOnSet(g, D) = SumFunctionOnSet(f, D) + SumFunctionOnSet(more, D)
  BY <1>1, SumPlus
<1>3. SumFunctionOnSet(f, D) \in Int /\ SumFunctionOnSet(more, D) \in Nat
  BY <1>1, SumType, SumNat
<1> QED
  BY <1>2, <1>3

\* One value that counts makes a sum that does.
LEMMA SumPositive ==
  ASSUME NEW f, NEW D, IsFiniteSet(D), \A x \in D : f[x] \in Nat, NEW y \in D, f[y] > 0
  PROVE  SumFunctionOnSet(f, D) > 0
<1> DEFINE E == D \ {y}
<1>1. SumFunctionOnSet(f, D) = f[y] + SumFunctionOnSet(f, E)
  BY SumTakes
<1>2. IsFiniteSet(E) /\ \A x \in E : f[x] \in Nat
  BY FS_RemoveElement
<1> HIDE DEF E
<1>3. SumFunctionOnSet(f, E) \in Nat
  BY <1>2, SumNat
<1> QED
  BY <1>1, <1>3

\* The parts of a set, one for each key, have as many elements together as it has.
LEMMA SumOfParts ==
  ASSUME NEW C, IsFiniteSet(C), NEW K, IsFiniteSet(K), NEW key, \A x \in C : key[x] \in K,
         NEW part, NEW n,
         \A k \in K : /\ n[k] = Cardinality(part[k]) /\ part[k] \subseteq C
                      /\ \A x \in C : x \in part[k] <=> key[x] = k
  PROVE  SumFunctionOnSet(n, K) = Cardinality(C)
<1> DEFINE Part(P) == {x \in C : key[x] \in P}
           Good    == {P \in SUBSET K : SumFunctionOnSet(n, P) = Cardinality(Part(P))}
<1>1. ASSUME NEW P \in SUBSET K, \A V \in SUBSET P : V # P => V \in Good
      PROVE  P \in Good
  <2>1. CASE P = {}
    <3>1. Part(P) = {}
      BY <2>1
    <3> QED
      BY <2>1, <3>1, SumOfNone, FS_EmptySet
  <2>2. CASE P # {}
    <3>1. IsFiniteSet(P)
      BY FS_Subset
    <3>2. PICK k \in P : SumFunctionOnSet(n, P) = n[k] + SumFunctionOnSet(n, P \ {k})
      BY <2>2, <3>1, SumFirst
    <3> DEFINE A == part[k]
               B == Part(P \ {k})
    <3>3. SumFunctionOnSet(n, P \ {k}) = Cardinality(B)
      BY <1>1, <3>2
    <3>4. A \cup B = Part(P) /\ A \cap B = {} /\ A \subseteq C /\ B \subseteq C
      BY <3>2
    <3>5. n[k] = Cardinality(A)
      BY <3>2
    <3> HIDE DEF A, B, Part
    <3>6. IsFiniteSet(A) /\ IsFiniteSet(B)
      BY <3>4, FS_Subset
    <3>7. Cardinality(A \cup B) = Cardinality(A) + Cardinality(B) - Cardinality({})
      BY <3>4, <3>6, FS_Union
    <3>8. Cardinality(A) \in Nat /\ Cardinality(B) \in Nat /\ Cardinality({}) = 0
      BY <3>6, FS_CardinalityType, FS_EmptySet
    <3>9. Cardinality(A \cup B) = Cardinality(A) + Cardinality(B)
      BY <3>7, <3>8
    <3>10. SumFunctionOnSet(n, P) = Cardinality(Part(P))
      BY <3>2, <3>3, <3>4, <3>5, <3>9
    <3> QED
      BY <3>10
  <2> QED
    BY <2>1, <2>2
<1>2. SUBSET K \subseteq Good
  <2> HIDE DEF Good
  <2> QED
    BY <1>1, SubsetInduction
<1>3. Part(K) = C
  OBVIOUS
<1> QED
  BY <1>2, <1>3

\* What a function makes of a finite set is one.
LEMMA ImageFinite ==
  ASSUME NEW S, IsFiniteSet(S), NEW f
  PROVE  IsFiniteSet({f[x] : x \in S})
<1> DEFINE g == [x \in S |-> f[x]]
<1>1. g \in Surjection(S, {f[x] : x \in S})
  BY DEF Surjection
<1> QED
  BY <1>1, FS_Surjection

-----------------------------------------------------------------------------
(* The same induction shows of a set of numbers where it ends.             *)

\* A finite set of numbers with any in it has a greatest and a least.
LEMMA Extremes ==
  ASSUME NEW S, IsFiniteSet(S), S # {}, S \subseteq Int
  PROVE  /\ \E x \in S : \A y \in S : x >= y
         /\ \E x \in S : \A y \in S : x <= y
<1> DEFINE Good == {T \in SUBSET S : T = {} \/ /\ \E x \in T : \A y \in T : x >= y
                                               /\ \E x \in T : \A y \in T : x <= y}
<1>1. ASSUME NEW T \in SUBSET S, \A V \in SUBSET T : V # T => V \in Good
      PROVE  T \in Good
  <2>1. CASE T = {}
    BY <2>1
  <2>2. CASE T # {}
    <3>1. PICK t \in T : TRUE
      BY <2>2
    <3>2. T \ {t} \in Good
      BY <1>1, <3>1
    <3>3. CASE T \ {t} = {}
      BY <3>1, <3>3
    <3>4. CASE T \ {t} # {}
      <4>1. PICK x \in T \ {t} : \A y \in T \ {t} : x >= y
        BY <3>2, <3>4
      <4>2. PICK z \in T \ {t} : \A y \in T \ {t} : z <= y
        BY <3>2, <3>4
      <4>3. {x, z, t} \subseteq Int /\ T \subseteq Int
        BY <3>1, <4>1, <4>2
      <4>4. \E a \in T : \A y \in T : a >= y
        <5>1. CASE x >= t
          BY <4>1, <4>3, <5>1
        <5>2. CASE ~(x >= t)
          BY <3>1, <4>1, <4>3, <5>2
        <5> QED
          BY <5>1, <5>2
      <4>5. \E a \in T : \A y \in T : a <= y
        <5>1. CASE z <= t
          BY <4>2, <4>3, <5>1
        <5>2. CASE ~(z <= t)
          BY <3>1, <4>2, <4>3, <5>2
        <5> QED
          BY <5>1, <5>2
      <4> QED
        BY <4>4, <4>5
    <3> QED
      BY <3>3, <3>4
  <2> QED
    BY <2>1, <2>2
<1>2. SUBSET S \subseteq Good
  <2> HIDE DEF Good
  <2> QED
    BY <1>1, SubsetInduction
<1> QED
  BY <1>2

=============================================================================
