------------------------------- MODULE Lemmas -------------------------------
(***************************************************************************)
(* What the proofs of the components share: facts about numbers, sets and  *)
(* sequences, and what the decision about one pair guarantees of the order *)
(* it proposes, for every pair and every snapshot.                         *)
(*                                                                         *)
(* Induction is used in the form of the least counterexample: the          *)
(* induction theorems of the library take an operator, which the provers   *)
(* cannot instantiate, but that every set of numbers or of finite sets has *)
(* a least element is a statement about sets.                              *)
(***************************************************************************)
EXTENDS RebalanceDecision, Subsequences, FiniteSetTheorems, FiniteSetsExt, TLAPS

----------------------------------------------------------------------------
(* Induction. *)

(* A set of natural numbers that is not empty has a least element. *)
LEMMA LeastNumber ==
    ASSUME NEW A \in SUBSET Nat, A # {}
    PROVE  \E m \in A : \A k \in A : m <= k
  <1> DEFINE R == OpToRel(<, Nat)
  <1>1. R = {ss \in Nat \X Nat : ss[1] < ss[2]}
    BY DEF OpToRel
  <1>2. IsWellFoundedOn(R, Nat)
    BY NatLessThanWellFounded
  <1> HIDE DEF R
  <1>3. PICK m \in A : \A k \in A : <<k, m>> \notin R
    BY <1>2, WFMin
  <1>4. ASSUME NEW k \in A
        PROVE  m <= k
    <2>1. k \in Nat /\ m \in Nat /\ ~(k < m)
      BY <1>1, <1>3
    <2> QED
      BY <2>1
  <1> QED
    BY <1>4

(* A set that holds 0 and with each number the next holds them all. *)
LEMMA NatSetInduction ==
    ASSUME NEW A, 0 \in A, \A n \in Nat : n \in A => n + 1 \in A
    PROVE  Nat \subseteq A
  <1> SUFFICES ASSUME Nat \ A # {}
               PROVE  FALSE
    OBVIOUS
  <1>1. PICK m \in Nat \ A : \A k \in Nat \ A : m <= k
    BY LeastNumber
  <1>2. m # 0 /\ m - 1 \in Nat /\ m - 1 \in A
    BY <1>1
  <1> QED
    BY <1>1, <1>2

(* A set that holds each subset of a finite S of which it holds all smaller
   ones holds all subsets of S. *)
LEMMA FiniteSetInduction ==
    ASSUME NEW S, IsFiniteSet(S), NEW A,
           ASSUME NEW T \in SUBSET S, \A U \in SUBSET T : U # T => U \in A
           PROVE  T \in A
    PROVE  SUBSET S \subseteq A
  <1> SUFFICES ASSUME (SUBSET S) \ A # {}
               PROVE  FALSE
    OBVIOUS
  <1>1. IsWellFoundedOn(StrictSubsetOrdering(S), SUBSET S)
    <2>1. FiniteSubsetsOf(S) = SUBSET S
      BY FS_FiniteSubsetsOfFinite
    <2>2. IsWellFoundedOn(StrictSubsetOrdering(S), FiniteSubsetsOf(S))
      BY FS_StrictSubsetOrderingWellFounded
    <2> QED
      BY <2>1, <2>2
  <1>2. PICK T \in (SUBSET S) \ A : \A U \in (SUBSET S) \ A :
                 <<U, T>> \notin StrictSubsetOrdering(S)
    <2> DEFINE B == (SUBSET S) \ A
               Q == SUBSET S
    <2>1. B \subseteq Q /\ B # {} /\ IsWellFoundedOn(StrictSubsetOrdering(S), Q)
      BY <1>1
    <2> HIDE DEF B, Q
    <2>2. \E T \in B : \A U \in B : <<U, T>> \notin StrictSubsetOrdering(S)
      BY <2>1, WFMin
    <2> QED
      BY <2>2 DEF B
  <1>3. ASSUME NEW U \in SUBSET T, U # T
        PROVE  U \in A
    <2>1. U \in SUBSET S
      BY <1>3
    <2> QED
      BY <1>2, <1>3, <2>1 DEF StrictSubsetOrdering
  <1> QED
    BY <1>2, <1>3

(* The image of a finite set under a function is finite. *)
LEMMA ImageIsFinite ==
    ASSUME NEW S, IsFiniteSet(S), NEW f
    PROVE  IsFiniteSet({f[x] : x \in S})
  <1> DEFINE T == {f[x] : x \in S}
             g == [x \in S |-> f[x]]
  <1>1. g \in Surjection(S, T)
    BY DEF Surjection
  <1> QED
    BY <1>1, FS_Surjection

----------------------------------------------------------------------------
(* Sums. *)

(* The folds of the community modules take the elements of a set in the
   order CHOOSE gives, by a recursion over its subsets: this is that
   recursion. *)
AnyOf(T) == CHOOSE x \in T : TRUE

(* g is the recursion over the subsets of S, and IterOf(f, S) the one the
   definition chooses. *)
IsIter(g, f, S) ==
    g = [T \in SUBSET S |-> IF T = {} THEN 0 ELSE f[AnyOf(T)] + g[T \ {AnyOf(T)}]]

(* The function that iterates f over S. *)
IterOf(f, S) == CHOOSE g : IsIter(g, f, S)

(* SumFunctionOnSet is defined by it. *)
LEMMA SumIsIter ==
    ASSUME NEW f, NEW S
    PROVE  SumFunctionOnSet(f, S) = IterOf(f, S)[S]
  BY DEF SumFunctionOnSet, FoldFunctionOnSet, MapThenFoldSet, IterOf, IsIter, AnyOf

(* The element taken is an element. *)
LEMMA AnyOfIsMember ==
    ASSUME NEW T, T # {}
    PROVE  AnyOf(T) \in T
  BY DEF AnyOf

(* One step of the recursion. *)
LEMMA IterStep ==
    ASSUME NEW f, NEW S, NEW g, IsIter(g, f, S), NEW T \in SUBSET S
    PROVE  g[T] = IF T = {} THEN 0 ELSE f[AnyOf(T)] + g[T \ {AnyOf(T)}]
  BY DEF IsIter

(* Two recursions over different sets agree where both are defined ... *)
LEMMA IterUnique ==
    ASSUME NEW f, NEW S, NEW P, NEW g, NEW h, NEW T \in SUBSET S, T \in SUBSET P,
           IsFiniteSet(S), IsIter(g, f, S), IsIter(h, f, P)
    PROVE  g[T] = h[T]
  <1> DEFINE Same == {U \in SUBSET T : g[U] = h[U]}
  <1>1. ASSUME NEW U \in SUBSET T, \A V \in SUBSET U : V # U => V \in Same
        PROVE  U \in Same
    <2>1. U \in SUBSET S /\ U \in SUBSET P
      OBVIOUS
    <2>2. CASE U = {}
      BY <2>1, <2>2, IterStep
    <2>3. CASE U # {}
      <3>1. AnyOf(U) \in U
        BY <2>3, AnyOfIsMember
      <3>2. U \ {AnyOf(U)} \in SUBSET U /\ U \ {AnyOf(U)} # U
        BY <3>1
      <3>3. g[U \ {AnyOf(U)}] = h[U \ {AnyOf(U)}]
        BY <1>1, <3>2
      <3>4. g[U] = f[AnyOf(U)] + g[U \ {AnyOf(U)}]
        BY <2>1, <2>3, IterStep
      <3>5. h[U] = f[AnyOf(U)] + h[U \ {AnyOf(U)}]
        <4> HIDE DEF Same
        <4>1. U \in SUBSET P
          BY <2>1
        <4> QED
          BY <2>3, <4>1 DEF IsIter
      <3> QED
        BY <3>3, <3>4, <3>5
    <2> QED
      BY <2>2, <2>3
  <1>2. IsFiniteSet(T)
    BY FS_Subset
  <1>3. SUBSET T \subseteq Same
    <2> HIDE DEF Same
    <2> QED
      BY <1>1, <1>2, FiniteSetInduction
  <1> QED
    BY <1>3

(* ... and there is one over every finite set. *)
LEMMA IterExists ==
    ASSUME NEW f, NEW S, IsFiniteSet(S)
    PROVE  IsIter(IterOf(f, S), f, S)
  <1> DEFINE Has == {T \in SUBSET S : \E g : IsIter(g, f, T)}
  <1>1. ASSUME NEW T \in SUBSET S, \A U \in SUBSET T : U # T => U \in Has
        PROVE  T \in Has
    <2> DEFINE val(U) == IterOf(f, U)[U]
               h == [U \in SUBSET T |->
                        IF U = {} THEN 0
                        ELSE IF U = T THEN f[AnyOf(T)] + val(T \ {AnyOf(T)})
                        ELSE val(U)]
    <2>0. IsFiniteSet(T)
      BY FS_Subset
    <2>1. ASSUME NEW U \in SUBSET T, U # T
          PROVE  IsIter(IterOf(f, U), f, U)
      BY <1>1, <2>1 DEF IterOf
    <2>2. ASSUME NEW U \in SUBSET T, U # {}
          PROVE  h[U] = f[AnyOf(U)] + h[U \ {AnyOf(U)}]
      <3> DEFINE V == U \ {AnyOf(U)}
      <3>1. AnyOf(U) \in U /\ V \in SUBSET T /\ V # T /\ V \in SUBSET U /\ V # U
        BY <2>2, AnyOfIsMember
      <3>2. h[V] = val(V)
        <4>1. CASE V = {}
          <5>1. IsIter(IterOf(f, V), f, V) /\ V \in SUBSET V
            BY <2>1, <3>1
          <5>2. IterOf(f, V)[V] = 0
            <6> HIDE DEF V
            <6> QED
              BY <4>1, <5>1, IterStep
          <5> QED
            BY <3>1, <4>1, <5>2
        <4>2. CASE V # {}
          BY <3>1, <4>2
        <4> QED
          BY <4>1, <4>2
      <3>3. CASE U = T
        BY <2>2, <3>1, <3>2, <3>3
      <3>4. CASE U # T
        <4>1. val(U) = f[AnyOf(U)] + IterOf(f, U)[V]
          BY <2>1, <2>2, <3>4, IterStep
        <4>2. IterOf(f, U)[V] = val(V)
          <5>1. IsIter(IterOf(f, U), f, U) /\ IsIter(IterOf(f, V), f, V) /\ IsFiniteSet(U)
            BY <2>0, <2>1, <3>1, <3>4, FS_Subset
          <5>2. V \in SUBSET U /\ V \in SUBSET V
            BY <3>1
          <5> HIDE DEF V
          <5> QED
            BY <5>1, <5>2, IterUnique
        <4>3. h[U] = val(U)
          BY <2>2, <3>4
        <4> QED
          BY <3>2, <4>1, <4>2, <4>3
      <3> QED
        BY <3>3, <3>4
    <2>3. h[{}] = 0
      OBVIOUS
    <2>4. IsIter(h, f, T)
      <3>1. h = [U \in SUBSET T |-> h[U]]
        OBVIOUS
      <3>2. \A U \in SUBSET T : h[U] = IF U = {} THEN 0 ELSE f[AnyOf(U)] + h[U \ {AnyOf(U)}]
        <4> HIDE DEF h
        <4> QED
          BY <2>2, <2>3
      <3> HIDE DEF h
      <3> QED
        BY <3>1, <3>2 DEF IsIter
    <2> QED
      BY <2>4
  <1>2. SUBSET S \subseteq Has
    <2> HIDE DEF Has
    <2> QED
      BY <1>1, FiniteSetInduction
  <1> QED
    BY <1>2 DEF IterOf

(* The sum takes one element and goes on with the rest. *)
LEMMA SumStep ==
    ASSUME NEW f, NEW S, IsFiniteSet(S)
    PROVE  SumFunctionOnSet(f, S) =
              IF S = {} THEN 0 ELSE f[AnyOf(S)] + SumFunctionOnSet(f, S \ {AnyOf(S)})
  <1> DEFINE V == S \ {AnyOf(S)}
  <1>1. IsIter(IterOf(f, S), f, S) /\ IsFiniteSet(V) /\ IsIter(IterOf(f, V), f, V)
    BY IterExists, FS_Subset
  <1>2. IterOf(f, S)[V] = IterOf(f, V)[V]
    BY <1>1, IterUnique
  <1>3. IterOf(f, S)[S] = IF S = {} THEN 0 ELSE f[AnyOf(S)] + IterOf(f, S)[V]
    BY <1>1, IterStep
  <1> QED
    BY <1>2, <1>3, SumIsIter

(* The sum over nothing. *)
LEMMA SumOfNone == \A f : SumFunctionOnSet(f, {}) = 0
  BY SumStep, FS_EmptySet

(* A sum of integers is one. *)
LEMMA SumIsInt ==
    ASSUME NEW f, NEW S, IsFiniteSet(S), \A x \in S : f[x] \in Int
    PROVE  SumFunctionOnSet(f, S) \in Int
  <1> DEFINE A == {T \in SUBSET S : SumFunctionOnSet(f, T) \in Int}
  <1>1. ASSUME NEW T \in SUBSET S, \A U \in SUBSET T : U # T => U \in A
        PROVE  T \in A
    <2>1. IsFiniteSet(T)
      BY FS_Subset
    <2>2. CASE T = {}
      BY <2>2, SumOfNone
    <2>3. CASE T # {}
      <3>1. AnyOf(T) \in T
        BY <2>3, AnyOfIsMember
      <3>2. SumFunctionOnSet(f, T) = f[AnyOf(T)] + SumFunctionOnSet(f, T \ {AnyOf(T)})
        BY <2>1, <2>3, SumStep
      <3>3. T \ {AnyOf(T)} \in A
        BY <1>1, <3>1
      <3> QED
        BY <3>1, <3>2, <3>3
    <2> QED
      BY <2>2, <2>3
  <1>2. SUBSET S \subseteq A
    <2> HIDE DEF A
    <2> QED
      BY <1>1, FiniteSetInduction
  <1> QED
    BY <1>2

(* Any element may be taken out first. *)
LEMMA SumWithout ==
    ASSUME NEW f, NEW S, IsFiniteSet(S), \A x \in S : f[x] \in Int, NEW e \in S
    PROVE  SumFunctionOnSet(f, S) = f[e] + SumFunctionOnSet(f, S \ {e})
  <1> DEFINE A == {T \in SUBSET S : \A y \in T :
                      SumFunctionOnSet(f, T) = f[y] + SumFunctionOnSet(f, T \ {y})}
  <1>1. ASSUME NEW T \in SUBSET S, \A U \in SUBSET T : U # T => U \in A, NEW y \in T
        PROVE  SumFunctionOnSet(f, T) = f[y] + SumFunctionOnSet(f, T \ {y})
    <2> DEFINE c == AnyOf(T)
               V == T \ {c}
               W == T \ {y}
    <2>1. IsFiniteSet(T) /\ c \in T
      BY FS_Subset, AnyOfIsMember
    <2>2. SumFunctionOnSet(f, T) = f[c] + SumFunctionOnSet(f, V)
      BY <2>1, SumStep
    <2>3. CASE y = c
      BY <2>2, <2>3
    <2>4. CASE y # c
      <3>1. V \in A /\ W \in A /\ y \in V /\ c \in W /\ V \ {y} = W \ {c}
        BY <1>1, <2>1, <2>4
      <3>2. SumFunctionOnSet(f, V) = f[y] + SumFunctionOnSet(f, V \ {y})
        BY <3>1
      <3>3. SumFunctionOnSet(f, W) = f[c] + SumFunctionOnSet(f, V \ {y})
        BY <3>1
      <3>4. SumFunctionOnSet(f, V \ {y}) \in Int
        <4>1. V \ {y} \in SUBSET S /\ IsFiniteSet(V \ {y})
          BY FS_Subset
        <4> QED
          BY <4>1, SumIsInt
      <3>5. f[y] \in Int /\ f[c] \in Int
        BY <2>1
      <3> HIDE DEF V, W, c
      <3>6. f[c] + (f[y] + SumFunctionOnSet(f, V \ {y}))
                = f[y] + (f[c] + SumFunctionOnSet(f, V \ {y}))
        BY <3>4, <3>5
      <3>7. SumFunctionOnSet(f, T) = f[y] + SumFunctionOnSet(f, W)
        BY <2>2, <3>2, <3>3, <3>6
      <3> QED
        BY <3>7 DEF W
    <2> QED
      BY <2>3, <2>4
  <1>2. SUBSET S \subseteq A
    <2>1. ASSUME NEW T \in SUBSET S, \A U \in SUBSET T : U # T => U \in A
          PROVE  T \in A
      BY <1>1, <2>1
    <2> HIDE DEF A
    <2> QED
      BY <2>1, FiniteSetInduction
  <1>3. S \in A
    BY <1>2
  <1> QED
    BY <1>3

(* An element put in is added. *)
LEMMA SumWith ==
    ASSUME NEW f, NEW S, IsFiniteSet(S), \A x \in S : f[x] \in Int, NEW e, e \notin S,
           f[e] \in Int
    PROVE  SumFunctionOnSet(f, S \cup {e}) = f[e] + SumFunctionOnSet(f, S)
  <1> DEFINE T == S \cup {e}
  <1>1. IsFiniteSet(T)
    BY FS_AddElement
  <1>2. (\A x \in T : f[x] \in Int) /\ e \in T /\ T \ {e} = S
    OBVIOUS
  <1> HIDE DEF T
  <1>3. SumFunctionOnSet(f, T) = f[e] + SumFunctionOnSet(f, T \ {e})
    BY <1>1, <1>2, SumWithout
  <1> QED
    BY <1>2, <1>3 DEF T

(* The sum depends on the values on the set only. *)
LEMMA SumSame ==
    ASSUME NEW f, NEW g, NEW S, IsFiniteSet(S), \A x \in S : f[x] = g[x]
    PROVE  SumFunctionOnSet(f, S) = SumFunctionOnSet(g, S)
  <1> DEFINE A == {T \in SUBSET S : SumFunctionOnSet(f, T) = SumFunctionOnSet(g, T)}
  <1>1. ASSUME NEW T \in SUBSET S, \A U \in SUBSET T : U # T => U \in A
        PROVE  T \in A
    <2>1. IsFiniteSet(T)
      BY FS_Subset
    <2>2. CASE T = {}
      BY <2>2, SumOfNone
    <2>3. CASE T # {}
      <3>1. AnyOf(T) \in T
        BY <2>3, AnyOfIsMember
      <3>2. SumFunctionOnSet(f, T) = f[AnyOf(T)] + SumFunctionOnSet(f, T \ {AnyOf(T)})
        BY <2>1, <2>3, SumStep
      <3>3. SumFunctionOnSet(g, T) = g[AnyOf(T)] + SumFunctionOnSet(g, T \ {AnyOf(T)})
        BY <2>1, <2>3, SumStep
      <3>4. T \ {AnyOf(T)} \in A
        BY <1>1, <3>1
      <3> QED
        BY <3>1, <3>2, <3>3, <3>4
    <2> QED
      BY <2>2, <2>3
  <1>2. SUBSET S \subseteq A
    <2> HIDE DEF A
    <2> QED
      BY <1>1, FiniteSetInduction
  <1> QED
    BY <1>2

(* What is zero adds nothing. *)
LEMMA SumOfRest ==
    ASSUME NEW f, NEW S, IsFiniteSet(S), \A x \in S : f[x] \in Int,
           NEW T \in SUBSET S, \A x \in S \ T : f[x] = 0
    PROVE  SumFunctionOnSet(f, S) = SumFunctionOnSet(f, T)
  <1> DEFINE R == S \ T
             A == {U \in SUBSET R : SumFunctionOnSet(f, T \cup U) = SumFunctionOnSet(f, T)}
  <1>1. ASSUME NEW U \in SUBSET R, \A V \in SUBSET U : V # U => V \in A
        PROVE  U \in A
    <2>1. CASE U = {}
      <3>1. T \cup U = T
        BY <2>1
      <3> QED
        BY <3>1
    <2>2. CASE U # {}
      <3>1. PICK e \in U : TRUE
        BY <2>2
      <3> DEFINE W == T \cup (U \ {e})
      <3>2. /\ W \in SUBSET S /\ T \cup U = W \cup {e} /\ e \notin W
            /\ U \ {e} \in SUBSET U /\ U \ {e} # U
        OBVIOUS
      <3>3. IsFiniteSet(W) /\ (\A x \in W : f[x] \in Int) /\ f[e] = 0
        BY <3>2, FS_Subset
      <3>4. U \ {e} \in A
        BY <1>1, <3>2
      <3>5. SumFunctionOnSet(f, W) = SumFunctionOnSet(f, T)
        BY <3>4
      <3> HIDE DEF W
      <3>6. SumFunctionOnSet(f, W \cup {e}) = f[e] + SumFunctionOnSet(f, W)
                /\ SumFunctionOnSet(f, W) \in Int
        BY <3>2, <3>3, SumWith, SumIsInt
      <3>7. SumFunctionOnSet(f, W \cup {e}) = SumFunctionOnSet(f, T)
        BY <3>3, <3>5, <3>6
      <3>8. SumFunctionOnSet(f, T \cup U) = SumFunctionOnSet(f, T)
        BY <3>2, <3>7
      <3> QED
        BY <3>8
    <2> QED
      BY <2>1, <2>2
  <1>2. SUBSET R \subseteq A
    <2>1. IsFiniteSet(R)
      BY FS_Subset
    <2> HIDE DEF A, R
    <2> QED
      BY <1>1, <2>1, FiniteSetInduction
  <1>3. R \in A /\ T \cup R = S
    BY <1>2
  <1> QED
    BY <1>3

(* A sum of natural numbers is one. *)
LEMMA SumIsNat ==
    ASSUME NEW f, NEW S, IsFiniteSet(S), \A x \in S : f[x] \in Nat
    PROVE  SumFunctionOnSet(f, S) \in Nat
  <1> DEFINE A == {T \in SUBSET S : SumFunctionOnSet(f, T) \in Nat}
  <1>1. ASSUME NEW T \in SUBSET S, \A U \in SUBSET T : U # T => U \in A
        PROVE  T \in A
    <2>1. IsFiniteSet(T)
      BY FS_Subset
    <2>2. CASE T = {}
      BY <2>2, SumOfNone
    <2>3. CASE T # {}
      <3>1. AnyOf(T) \in T
        BY <2>3, AnyOfIsMember
      <3>2. SumFunctionOnSet(f, T) = f[AnyOf(T)] + SumFunctionOnSet(f, T \ {AnyOf(T)})
        BY <2>1, <2>3, SumStep
      <3>3. T \ {AnyOf(T)} \in A
        BY <1>1, <3>1
      <3> QED
        BY <3>1, <3>2, <3>3
    <2> QED
      BY <2>2, <2>3
  <1>2. SUBSET S \subseteq A
    <2> HIDE DEF A
    <2> QED
      BY <1>1, FiniteSetInduction
  <1> QED
    BY <1>2

(* Summands none of which is greater have no greater sum. *)
LEMMA SumAtMost ==
    ASSUME NEW f, NEW g, NEW S, IsFiniteSet(S),
           \A x \in S : f[x] \in Int /\ g[x] \in Int /\ f[x] <= g[x]
    PROVE  SumFunctionOnSet(f, S) <= SumFunctionOnSet(g, S)
  <1> DEFINE A == {T \in SUBSET S : SumFunctionOnSet(f, T) <= SumFunctionOnSet(g, T)}
  <1>1. ASSUME NEW T \in SUBSET S, \A U \in SUBSET T : U # T => U \in A
        PROVE  T \in A
    <2>1. IsFiniteSet(T)
      BY FS_Subset
    <2>2. CASE T = {}
      BY <2>2, SumOfNone
    <2>3. CASE T # {}
      <3> DEFINE e == AnyOf(T)
                 U == T \ {e}
      <3>1. e \in T /\ IsFiniteSet(U) /\ \A x \in U : f[x] \in Int /\ g[x] \in Int
        BY <2>1, <2>3, AnyOfIsMember, FS_Subset
      <3>2. SumFunctionOnSet(f, T) = f[e] + SumFunctionOnSet(f, U)
        BY <2>1, <2>3, SumStep
      <3>3. SumFunctionOnSet(g, T) = g[e] + SumFunctionOnSet(g, U)
        BY <2>1, <2>3, SumStep
      <3>4. U \in A
        BY <1>1, <3>1
      <3>5. SumFunctionOnSet(f, U) <= SumFunctionOnSet(g, U)
        BY <3>4
      <3>6. f[e] \in Int /\ g[e] \in Int /\ f[e] <= g[e]
        BY <3>1
      <3> HIDE DEF e, U
      <3>7. SumFunctionOnSet(f, U) \in Int /\ SumFunctionOnSet(g, U) \in Int
        BY <3>1, SumIsInt
      <3> QED
        BY <3>2, <3>3, <3>5, <3>6, <3>7
    <2> QED
      BY <2>2, <2>3
  <1>2. SUBSET S \subseteq A
    <2> HIDE DEF A
    <2> QED
      BY <1>1, FiniteSetInduction
  <1> QED
    BY <1>2

(* The sum over a part of a set is no greater than the sum over the set. *)
LEMMA SumOfPart ==
    ASSUME NEW f, NEW S, IsFiniteSet(S), \A x \in S : f[x] \in Nat, NEW T \in SUBSET S
    PROVE  SumFunctionOnSet(f, T) <= SumFunctionOnSet(f, S)
  <1> DEFINE g == [x \in S |-> IF x \in T THEN f[x] ELSE 0]
  <1>1. IsFiniteSet(T) /\ \A x \in T : f[x] = g[x]
    BY FS_Subset
  <1>2. \A x \in S : g[x] \in Int /\ f[x] \in Int /\ g[x] <= f[x]
    OBVIOUS
  <1>3. \A x \in S \ T : g[x] = 0
    OBVIOUS
  <1> HIDE DEF g
  <1>4. SumFunctionOnSet(f, T) = SumFunctionOnSet(g, T)
    BY <1>1, SumSame
  <1>5. SumFunctionOnSet(g, S) = SumFunctionOnSet(g, T)
    BY <1>2, <1>3, SumOfRest
  <1>6. SumFunctionOnSet(g, S) <= SumFunctionOnSet(f, S)
    BY <1>2, SumAtMost
  <1> QED
    BY <1>4, <1>5, <1>6

(* A sum is the sum of the sums over classes. *)
LEMMA SumByClass ==
    ASSUME NEW f, NEW S, IsFiniteSet(S), \A x \in S : f[x] \in Int,
           NEW class, NEW K, IsFiniteSet(K), \A x \in S : class[x] \in K
    PROVE  SumFunctionOnSet(f, S)
              = SumFunctionOnSet([k \in K |-> SumFunctionOnSet(f, {x \in S : class[x] = k})], K)
  <1> DEFINE In(T, k) == {x \in T : class[x] = k}
             g(T) == [k \in K |-> SumFunctionOnSet(f, In(T, k))]
             A == {T \in SUBSET S : SumFunctionOnSet(f, T) = SumFunctionOnSet(g(T), K)}
  <1>1. ASSUME NEW T \in SUBSET S, NEW k \in K
        PROVE  /\ In(T, k) \in SUBSET S /\ IsFiniteSet(In(T, k))
               /\ g(T)[k] = SumFunctionOnSet(f, In(T, k)) /\ g(T)[k] \in Int
    <2>1. In(T, k) \in SUBSET S
      OBVIOUS
    <2>2. g(T)[k] = SumFunctionOnSet(f, In(T, k))
      OBVIOUS
    <2> HIDE DEF In, g
    <2>3. IsFiniteSet(In(T, k)) /\ \A x \in In(T, k) : f[x] \in Int
      BY <2>1, FS_Subset
    <2> QED
      BY <2>1, <2>2, <2>3, SumIsInt
  <1>2. ASSUME NEW T \in SUBSET S, \A U \in SUBSET T : U # T => U \in A
        PROVE  T \in A
    <2>1. CASE T = {}
      <3>1. \A k \in K : g(T)[k] = 0
        <4>1. \A k \in K : In(T, k) = {}
          BY <2>1
        <4> HIDE DEF In, g
        <4> QED
          BY <1>1, <4>1, SumOfNone
      <3> HIDE DEF g
      <3>2. {} \in SUBSET K /\ (\A k \in K : g(T)[k] \in Int) /\ \A k \in K \ {} : g(T)[k] = 0
        BY <3>1
      <3>3. SumFunctionOnSet(g(T), K) = SumFunctionOnSet(g(T), {})
        BY <3>2, SumOfRest
      <3> QED
        BY <2>1, <3>3, SumOfNone
    <2>2. CASE T # {}
      <3>1. PICK e \in T : TRUE
        BY <2>2
      <3> DEFINE U == T \ {e}
                 c == class[e]
                 R == K \ {c}
      <3>2. U \in SUBSET S /\ U \in SUBSET T /\ U # T /\ c \in K /\ f[e] \in Int
        OBVIOUS
      <3>3. U \in A
        BY <1>2, <3>2
      <3>4. SumFunctionOnSet(f, U) = SumFunctionOnSet(g(U), K)
        BY <3>3
      <3>5. (\A k \in R : In(T, k) = In(U, k)) /\ e \in In(T, c) /\ In(T, c) \ {e} = In(U, c)
        OBVIOUS
      <3> HIDE DEF In, g, U, c, R, A
      <3>6. SumFunctionOnSet(f, T) = f[e] + SumFunctionOnSet(f, U)
        <4>1. IsFiniteSet(T) /\ \A x \in T : f[x] \in Int
          BY FS_Subset
        <4> QED
          BY <4>1, SumWithout DEF U
      <3>7. R \in SUBSET K /\ IsFiniteSet(R)
        BY FS_Subset DEF R
      <3>8. \A k \in R : g(T)[k] = g(U)[k]
        BY <1>1, <3>2, <3>5, <3>7
      <3>9. g(T)[c] = f[e] + g(U)[c]
        <4>1. IsFiniteSet(In(T, c)) /\ \A x \in In(T, c) : f[x] \in Int
          BY <1>1, <3>2
        <4>2. SumFunctionOnSet(f, In(T, c)) = f[e] + SumFunctionOnSet(f, In(T, c) \ {e})
          BY <3>5, <4>1, SumWithout
        <4> QED
          BY <1>1, <3>2, <3>5, <4>2
      <3>10. SumFunctionOnSet(g(T), K) = g(T)[c] + SumFunctionOnSet(g(T), R)
        BY <1>1, <3>2, SumWithout DEF R
      <3>11. SumFunctionOnSet(g(U), K) = g(U)[c] + SumFunctionOnSet(g(U), R)
        BY <1>1, <3>2, SumWithout DEF R
      <3>12. SumFunctionOnSet(g(T), R) = SumFunctionOnSet(g(U), R)
        BY <3>7, <3>8, SumSame
      <3>13. SumFunctionOnSet(g(U), R) \in Int
        BY <1>1, <3>2, <3>7, SumIsInt
      <3>14. g(U)[c] \in Int
        BY <1>1, <3>2
      <3>15. SumFunctionOnSet(f, T) = SumFunctionOnSet(g(T), K)
        BY <3>2, <3>4, <3>6, <3>9, <3>10, <3>11, <3>12, <3>13, <3>14
      <3> QED
        BY <3>15 DEF A
    <2> QED
      BY <2>1, <2>2
  <1>3. SUBSET S \subseteq A
    <2> HIDE DEF A
    <2> QED
      BY <1>2, FiniteSetInduction
  <1>4. S \in A
    BY <1>3
  <1> QED
    BY <1>4

----------------------------------------------------------------------------
(* Finite sets of numbers in order. *)

(* How many numbers of S are below t. *)
Rank(S, t) == Cardinality({u \in S : u < t})

(* A greater number of S has more below it. *)
LEMMA RankRises ==
    ASSUME NEW S \in SUBSET Int, IsFiniteSet(S), NEW t \in S, NEW u \in S, t < u
    PROVE  Rank(S, t) < Rank(S, u)
  <1> DEFINE below(x) == {v \in S : v < x}
  <1>1. below(t) \in SUBSET below(u) /\ t \in below(u) /\ t \notin below(t)
    <2>1. t \in Int /\ u \in Int /\ \A v \in S : v \in Int
      OBVIOUS
    <2>2. (\A v \in S : v < t => v < u) /\ ~(t < t)
      BY <2>1
    <2> QED
      BY <2>2
  <1>2. IsFiniteSet(below(u))
    BY FS_Subset
  <1>3. IsFiniteSet(below(t)) /\ Cardinality(below(t)) <= Cardinality(below(u))
        /\ (Cardinality(below(u)) = Cardinality(below(t)) => below(u) = below(t))
    <2> HIDE DEF below
    <2> QED
      BY <1>1, <1>2, FS_Subset
  <1>4. Cardinality(below(t)) \in Nat /\ Cardinality(below(u)) \in Nat
    <2> HIDE DEF below
    <2> QED
      BY <1>2, <1>3, FS_CardinalityType
  <1> QED
    BY <1>1, <1>3, <1>4 DEF Rank

(* There are as many ranks as numbers. *)
LEMMA RankInRange ==
    ASSUME NEW S \in SUBSET Int, IsFiniteSet(S), NEW t \in S
    PROVE  Rank(S, t) \in 0..(Cardinality(S) - 1)
  <1> DEFINE B == {v \in S : v < t}
  <1>1. B \in SUBSET S /\ t \notin B
    OBVIOUS
  <1>2. IsFiniteSet(B) /\ Cardinality(B) <= Cardinality(S)
            /\ (Cardinality(S) = Cardinality(B) => S = B)
    <2> HIDE DEF B
    <2> QED
      BY <1>1, FS_Subset
  <1>3. Cardinality(B) \in Nat /\ Cardinality(S) \in Nat
    BY <1>2, FS_CardinalityType
  <1> QED
    BY <1>1, <1>2, <1>3 DEF Rank

(* Each rank is taken: the ranks are an injection between sets of one size. *)
LEMMA RankTaken ==
    ASSUME NEW S \in SUBSET Int, IsFiniteSet(S), NEW i \in 1..Cardinality(S)
    PROVE  \E t \in S : Rank(S, t) = i - 1
  <1> DEFINE n == Cardinality(S)
             R == 0..(n - 1)
             rank == [t \in S |-> Rank(S, t)]
  <1>1. n \in Nat
    BY FS_CardinalityType
  <1>2. IsFiniteSet(R) /\ Cardinality(R) = n
    <2>1. n - 1 \in Int /\ (0 > n - 1 <=> n = 0) /\ n - 1 - 0 + 1 = n
      BY <1>1
    <2> HIDE DEF n
    <2> QED
      BY <1>1, <2>1, FS_Interval
  <1>3. rank \in [S -> R]
    BY RankInRange
  <1>4. \A t, u \in S : rank[t] = rank[u] => t = u
    <2> SUFFICES ASSUME NEW t \in S, NEW u \in S, t # u
                 PROVE  Rank(S, t) # Rank(S, u)
      OBVIOUS
    <2>1. Rank(S, t) \in Nat /\ Rank(S, u) \in Nat
      BY RankInRange
    <2>2. CASE t < u
      BY <2>1, <2>2, RankRises
    <2>3. CASE u < t
      BY <2>1, <2>3, RankRises
    <2> QED
      BY <2>2, <2>3
  <1>5. rank \in Injection(S, R)
    <2>1. DOMAIN rank = S
      OBVIOUS
    <2> HIDE DEF rank, R
    <2> QED
      BY <1>3, <1>4, <2>1 DEF Injection, IsInjective
  <1>6. rank \in Surjection(S, R)
    <2> HIDE DEF rank, R
    <2> QED
      BY <1>2, <1>5, FS_Injection
  <1>7. i - 1 \in R
    BY <1>1
  <1>8. \E t \in S : rank[t] = i - 1
    <2> HIDE DEF rank, R
    <2> QED
      BY <1>6, <1>7 DEF Surjection
  <1> QED
    BY <1>8

(* Ascending(S) has the number of rank i - 1 in place i. *)
LEMMA AscendingAt ==
    ASSUME NEW S \in SUBSET Int, IsFiniteSet(S), NEW i \in 1..Cardinality(S)
    PROVE  Ascending(S)[i] \in S /\ Rank(S, Ascending(S)[i]) = i - 1
  BY RankTaken DEF Ascending, Rank

(* Ascending(S) lists S, and in order. *)
LEMMA AscendingLists ==
    ASSUME NEW S \in SUBSET Int, IsFiniteSet(S)
    PROVE  /\ Cardinality(S) \in Nat
           /\ Ascending(S) \in Seq(S)
           /\ Len(Ascending(S)) = Cardinality(S)
           /\ \A i, j \in 1..Cardinality(S) : i < j => Ascending(S)[i] < Ascending(S)[j]
           /\ \A t \in S : \E i \in 1..Cardinality(S) : Ascending(S)[i] = t
  <1> DEFINE n == Cardinality(S)
             a == Ascending(S)
  <1>1. n \in Nat
    BY FS_CardinalityType
  <1>2. a \in [1..n -> S]
    BY AscendingAt DEF Ascending
  <1>3. a \in Seq(S) /\ Len(a) = n
    <2> HIDE DEF n, a
    <2> QED
      BY <1>1, <1>2
  <1>4. ASSUME NEW i \in 1..n, NEW j \in 1..n, i < j
        PROVE  a[i] < a[j]
    <2>1. a[i] \in S /\ a[j] \in S /\ Rank(S, a[i]) = i - 1 /\ Rank(S, a[j]) = j - 1
      BY AscendingAt
    <2>2. CASE a[i] = a[j]
      BY <1>1, <1>4, <2>1, <2>2
    <2>3. CASE a[j] < a[i]
      <3>1. j - 1 < i - 1
        BY <2>1, <2>3, RankRises
      <3> QED
        BY <1>1, <1>4, <3>1
    <2>4. a[i] \in Int /\ a[j] \in Int
      BY <2>1
    <2> HIDE DEF a
    <2> QED
      BY <2>2, <2>3, <2>4
  <1>5. ASSUME NEW t \in S
        PROVE  \E i \in 1..n : a[i] = t
    <2>1. Rank(S, t) + 1 \in 1..n
      BY <1>1, RankInRange
    <2> DEFINE i == Rank(S, t) + 1
    <2>2. a[i] \in S /\ Rank(S, a[i]) = Rank(S, t)
      <3>1. Rank(S, t) \in Nat
        BY RankInRange
      <3>2. a[i] \in S /\ Rank(S, a[i]) = i - 1
        BY <2>1, AscendingAt
      <3> QED
        BY <3>1, <3>2
    <2>3. a[i] = t
      <3>1. Rank(S, t) \in Nat /\ a[i] \in Int /\ t \in Int
        <4>1. Rank(S, t) \in Nat
          BY RankInRange
        <4>2. a[i] \in Int /\ t \in Int
          BY <2>2
        <4> QED
          BY <4>1, <4>2
      <3>2. CASE a[i] < t
        <4>1. Rank(S, a[i]) < Rank(S, t)
          BY <2>2, <3>2, RankRises
        <4> QED
          BY <2>2, <3>1, <4>1
      <3>3. CASE t < a[i]
        <4>1. Rank(S, t) < Rank(S, a[i])
          BY <2>2, <3>3, RankRises
        <4> QED
          BY <2>2, <3>1, <4>1
      <3> HIDE DEF a, i
      <3> QED
        BY <3>1, <3>2, <3>3
    <2> QED
      BY <2>1, <2>3
  <1> QED
    BY <1>1, <1>3, <1>4, <1>5

(* A list of the numbers of S in order is the one Ascending gives, and as long
   as S is large. *)
LEMMA AscendingIsTheList ==
    ASSUME NEW S \in SUBSET Int, NEW s \in Seq(S),
           \A i, j \in 1..Len(s) : i < j => s[i] < s[j],
           \A t \in S : \E i \in 1..Len(s) : s[i] = t
    PROVE  /\ IsFiniteSet(S)
           /\ Cardinality(S) = Len(s)
           /\ Ascending(S) = s
  <1> DEFINE n == Len(s)
  <1>1. n \in Nat /\ DOMAIN s = 1..n /\ s \in [1..n -> S] /\ s = [i \in 1..n |-> s[i]]
    OBVIOUS
  <1>2. \A i \in 1..n : s[i] \in S /\ s[i] \in Int
    BY <1>1
  <1>3. \A i, j \in 1..n : s[i] < s[j] <=> i < j
    BY <1>2
  <1> HIDE DEF n
  \* the numbers below the i-th are those before it
  <1>4. ASSUME NEW i \in 1..(n + 1), NEW B \in SUBSET S,
               \A j \in 1..n : s[j] \in B <=> j < i
        PROVE  IsFiniteSet(B) /\ Cardinality(B) = i - 1
    <2> DEFINE D == 1..(i - 1)
               f == [j \in D |-> s[j]]
    <2>1. D \subseteq 1..n /\ \A j \in D : j < i
      BY <1>1
    <2>2. IsFiniteSet(D) /\ Cardinality(D) = i - 1
      <3>1. i - 1 \in Nat /\ i - 1 \in Int /\ 1 \in Int /\ i - 1 - 1 + 1 = i - 1
            /\ (1 > i - 1 <=> i - 1 = 0)
        BY <1>1
      <3> QED
        BY <3>1, FS_Interval
    <2> HIDE DEF D
    <2>3. f \in [D -> B]
      BY <1>4, <2>1
    <2>4. \A j, k \in D : f[j] = f[k] => j = k
      <3> SUFFICES ASSUME NEW j \in D, NEW k \in D, s[j] = s[k]
                   PROVE  j = k
        OBVIOUS
      <3>1. j \in 1..n /\ k \in 1..n
        BY <2>1
      <3>2. ~(s[j] < s[k]) /\ ~(s[k] < s[j])
        BY <1>2, <3>1
      <3> QED
        BY <1>1, <1>3, <3>1, <3>2
    <2>5. \A t \in B : \E j \in D : f[j] = t
      <3> SUFFICES ASSUME NEW t \in B
                   PROVE  \E j \in D : s[j] = t
        OBVIOUS
      <3>1. PICK j \in 1..n : s[j] = t
        BY DEF n
      <3>2. j < i
        BY <1>4, <3>1
      <3> QED
        BY <1>1, <3>1, <3>2 DEF D
    <2>6. f \in Bijection(D, B)
      <3>1. DOMAIN f = D
        OBVIOUS
      <3> HIDE DEF f
      <3> QED
        BY <2>3, <2>4, <2>5, <3>1 DEF Bijection, Injection, Surjection, IsInjective
    <2> QED
      BY <2>2, <2>6, FS_Bijection DEF ExistsBijection
  <1>5. IsFiniteSet(S) /\ Cardinality(S) = n
    <2>1. n + 1 \in 1..(n + 1) /\ \A j \in 1..n : j < n + 1
      BY <1>1
    <2>2. \A j \in 1..n : s[j] \in S <=> j < n + 1
      BY <1>2, <2>1
    <2>3. IsFiniteSet(S) /\ Cardinality(S) = (n + 1) - 1
      BY <1>4, <2>1, <2>2
    <2> QED
      BY <1>1, <2>3
  <1>6. ASSUME NEW i \in 1..n
        PROVE  Ascending(S)[i] = s[i]
    <2>1. \A t \in S : Cardinality({u \in S : u < t}) = i - 1 <=> t = s[i]
      <3> SUFFICES ASSUME NEW t \in S
                   PROVE  Cardinality({u \in S : u < t}) = i - 1 <=> t = s[i]
        OBVIOUS
      <3>1. PICK k \in 1..n : s[k] = t
        BY DEF n
      <3>2. k \in 1..(n + 1) /\ \A j \in 1..n : s[j] \in {u \in S : u < t} <=> j < k
        BY <1>1, <1>2, <1>3, <3>1
      <3>3. Cardinality({u \in S : u < t}) = k - 1
        BY <1>4, <3>2
      <3>4. CASE k = i
        BY <3>1, <3>3, <3>4
      <3>5. CASE k # i
        <4>1. k - 1 # i - 1
          BY <1>1, <3>5
        <4>2. s[k] # s[i]
          <5>1. k < i \/ i < k
            BY <1>1, <3>5
          <5> QED
            BY <1>2, <1>3, <5>1
        <4> QED
          BY <3>1, <3>3, <4>1, <4>2
      <3> QED
        BY <3>4, <3>5
    <2>2. s[i] \in S
      BY <1>2
    <2> QED
      BY <1>5, <2>1, <2>2 DEF Ascending
  <1>7. Ascending(S) = [i \in 1..n |-> Ascending(S)[i]]
    <2> DEFINE a == Ascending(S)
    <2>1. a \in Seq(S) /\ Len(a) = n
      BY <1>5, AscendingLists
    <2> HIDE DEF a
    <2>2. a = [i \in 1..n |-> a[i]]
      BY <2>1
    <2> QED
      BY <2>2 DEF a
  <1>8. Ascending(S) = s
    BY <1>1, <1>6, <1>7
  <1> QED
    BY <1>5, <1>8 DEF n

(* A finite set of numbers has a greatest. *)
LEMMA GreatestNumber ==
    ASSUME NEW S \in SUBSET Int, IsFiniteSet(S), S # {}
    PROVE  \E m \in S : \A k \in S : k <= m
  <1> DEFINE n == Cardinality(S)
             a == Ascending(S)
  <1>1. /\ n \in Nat /\ a \in Seq(S) /\ Len(a) = n
        /\ \A i, j \in 1..n : i < j => a[i] < a[j]
        /\ \A t \in S : \E i \in 1..n : a[i] = t
    BY AscendingLists
  <1> HIDE DEF n, a
  <1>2. n \in 1..n
    <2>1. \E i \in 1..n : TRUE
      BY <1>1
    <2> QED
      BY <1>1, <2>1
  <1>3. a[n] \in S /\ a[n] \in Int
    <2>1. DOMAIN a = 1..n
      BY <1>1
    <2>2. a[n] \in S
      BY <1>1, <1>2, <2>1
    <2> QED
      BY <2>2
  <1>4. ASSUME NEW k \in S
        PROVE  k <= a[n]
    <2>1. PICK i \in 1..n : a[i] = k
      BY <1>1
    <2>2. CASE i = n
      BY <1>3, <2>1, <2>2
    <2>3. CASE i < n
      BY <1>1, <1>2, <1>3, <2>1, <2>3
    <2> QED
      BY <1>1, <2>1, <2>2, <2>3
  <1> QED
    BY <1>3, <1>4

(* The positions of a sequence, and what is at them. *)
LEMMA PlacesOf ==
    ASSUME NEW S, NEW s \in Seq(S)
    PROVE  /\ DOMAIN s = 1..Len(s) /\ Len(s) \in Nat
           /\ \A i \in DOMAIN s : s[i] \in S
  OBVIOUS

(* What is picked of a sequence: the elements at those positions, each of
   them, in the order of the sequence. *)
LEMMA PickedLists ==
    ASSUME NEW S, NEW s \in Seq(S), NEW I \in SUBSET DOMAIN s
    PROVE  /\ Picked(s, I) \in Seq(S)
           /\ Len(Picked(s, I)) = Cardinality(I)
           /\ DOMAIN Picked(s, I) = 1..Cardinality(I)
           /\ Cardinality(I) \in Nat
           /\ IsFiniteSet(I)
           /\ Ascending(I) \in [1..Cardinality(I) -> I]
           /\ \A k \in 1..Cardinality(I) : Picked(s, I)[k] = s[Ascending(I)[k]]
           /\ \A k, m \in 1..Cardinality(I) : k < m => Ascending(I)[k] < Ascending(I)[m]
           /\ \A i \in I : \E k \in 1..Cardinality(I) : Ascending(I)[k] = i
  <1> DEFINE n == Cardinality(I)
             at == Ascending(I)
  <1>1. I \in SUBSET Int /\ IsFiniteSet(I)
    <2>1. DOMAIN s = 1..Len(s) /\ Len(s) \in Int
      OBVIOUS
    <2>2. IsFiniteSet(1..Len(s))
      BY <2>1, FS_Interval
    <2> QED
      BY <2>1, <2>2, FS_Subset
  <1>2. /\ n \in Nat /\ at \in Seq(I) /\ Len(at) = n
        /\ \A i, j \in 1..n : i < j => at[i] < at[j]
        /\ \A t \in I : \E i \in 1..n : at[i] = t
    BY <1>1, AscendingLists
  <1> HIDE DEF n, at
  <1>3. at \in [1..n -> I]
    BY <1>2
  <1>4. Picked(s, I) = [k \in 1..n |-> s[at[k]]]
    BY DEF Picked, n, at
  <1>5. \A k \in 1..n : s[at[k]] \in S
    BY <1>3
  <1>6. Picked(s, I) \in [1..n -> S]
    BY <1>4, <1>5
  <1>7. Picked(s, I) \in Seq(S) /\ Len(Picked(s, I)) = n
    BY <1>2, <1>6
  <1>8. \A k \in 1..n : Picked(s, I)[k] = s[at[k]]
    BY <1>4
  <1> QED
    BY <1>1, <1>2, <1>3, <1>6, <1>7, <1>8 DEF n, at

(* The positions it picks from, in order and one after the other. *)
LEMMA PickedInTurn ==
    ASSUME NEW S, NEW s \in Seq(S), NEW I \in SUBSET DOMAIN s,
           NEW q \in 1..(Len(Picked(s, I)) - 1)
    PROVE  LET i == Ascending(I)[q]
               j == Ascending(I)[q + 1]
           IN  /\ i \in I /\ j \in I /\ i < j
               /\ Picked(s, I)[q] = s[i] /\ Picked(s, I)[q + 1] = s[j]
               /\ \A k \in I : ~(i < k /\ k < j)
  <1> DEFINE n == Cardinality(I)
             at == Ascending(I)
  <1>1. Len(Picked(s, I)) = n /\ n \in Nat /\ \A k \in I : k \in Int
    BY PickedLists
  <1>2. /\ at \in [1..n -> I]
        /\ \A k \in 1..n : Picked(s, I)[k] = s[at[k]]
        /\ \A k, m \in 1..n : k < m => at[k] < at[m]
        /\ \A i \in I : \E k \in 1..n : at[k] = i
    BY PickedLists
  <1> HIDE DEF at, n
  <1>3. q \in 1..n /\ q + 1 \in 1..n /\ q < q + 1
    BY <1>1
  <1>4. at[q] \in I /\ at[q + 1] \in I /\ at[q] < at[q + 1]
    BY <1>2, <1>3
  <1>5. ASSUME NEW k \in I, at[q] < k, k < at[q + 1]
        PROVE  FALSE
    <2>1. PICK m \in 1..n : at[m] = k
      BY <1>2
    <2>2. at[m] \in Int /\ at[q] \in Int /\ at[q + 1] \in Int
      BY <1>1, <1>4, <2>1
    <2>3. ~(m < q) /\ m # q /\ ~(q + 1 < m) /\ m # q + 1
      BY <1>2, <1>3, <1>5, <2>1, <2>2
    <2> QED
      BY <1>3, <2>3
  <1> QED
    BY <1>2, <1>3, <1>4, <1>5 DEF at

(* One list after another. *)
LEMMA JoinedLists ==
    ASSUME NEW S, NEW s \in Seq(S), NEW t \in Seq(S)
    PROVE  /\ s \o t \in Seq(S) /\ Len(s \o t) = Len(s) + Len(t)
           /\ Len(s) \in Nat /\ Len(t) \in Nat
           /\ \A i \in 1..Len(s) : (s \o t)[i] = s[i]
           /\ \A i \in 1..Len(t) : (s \o t)[Len(s) + i] = t[i]
  <1>1. s \o t \in Seq(S) /\ Len(s \o t) = Len(s) + Len(t) /\ Len(s) \in Nat /\ Len(t) \in Nat
    OBVIOUS
  <1>2. \A i \in 1..Len(s) : (s \o t)[i] = s[i]
    OBVIOUS
  <1>3. \A i \in 1..Len(t) : (s \o t)[Len(s) + i] = t[i]
    OBVIOUS
  <1> QED
    BY <1>1, <1>2, <1>3

(* A list that has the elements of one, then those of another, is the two
   joined. *)
LEMMA IsJoined ==
    ASSUME NEW S, NEW s \in Seq(S), NEW t \in Seq(S), NEW h \in Seq(S),
           Len(h) = Len(s) + Len(t),
           \A i \in 1..Len(s) : h[i] = s[i],
           \A i \in 1..Len(t) : h[Len(s) + i] = t[i]
    PROVE  s \o t = h
  <1> DEFINE r == s \o t
             n == Len(s) + Len(t)
  <1>1. /\ r \in Seq(S) /\ Len(r) = n /\ Len(s) \in Nat /\ Len(t) \in Nat
        /\ \A i \in 1..Len(s) : r[i] = s[i]
        /\ \A i \in 1..Len(t) : r[Len(s) + i] = t[i]
    BY JoinedLists
  <1> HIDE DEF r
  <1>2. r = [i \in 1..n |-> r[i]]
    BY <1>1
  <1>3. \A i \in 1..n : r[i] = h[i]
    <2> SUFFICES ASSUME NEW i \in 1..n
                 PROVE  r[i] = h[i]
      OBVIOUS
    <2>1. CASE i \in 1..Len(s)
      BY <1>1, <2>1
    <2>2. CASE i \notin 1..Len(s)
      <3> DEFINE k == i - Len(s)
      <3>1. k \in 1..Len(t) /\ i = Len(s) + k
        BY <1>1, <2>2
      <3> HIDE DEF k
      <3> QED
        BY <1>1, <3>1
    <2> QED
      BY <2>1, <2>2
  <1>4. h = [i \in 1..n |-> h[i]]
    BY <1>1
  <1>5. r = h
    BY <1>2, <1>3, <1>4
  <1> QED
    BY <1>5 DEF r

----------------------------------------------------------------------------
(* Multiples. *)

(* A smaller number times the same is less. *)
LEMMA TimesKeepsOrder ==
    ASSUME NEW x \in Int, NEW y \in Int, NEW k \in Nat, x <= y
    PROVE  x * k <= y * k /\ k * x <= k * y /\ x * k \in Int /\ y * k \in Int
  <1>1. (y - x) * k >= 0
    <2>1. y - x \in Nat
      OBVIOUS
    <2>2. \A m, n \in Nat : m * n >= 0
      OBVIOUS
    <2> QED
      BY <2>1, <2>2
  <1>2. (y - x) * k = y * k - x * k /\ k * x = x * k /\ k * y = y * k
    OBVIOUS
  <1>3. x * k \in Int /\ y * k \in Int
    OBVIOUS
  <1> QED
    BY <1>1, <1>2, <1>3

(* A multiple of n is n times something. *)
LEMMA MultipleOf ==
    ASSUME NEW n \in Nat \ {0}, NEW a \in Int, a % n = 0
    PROVE  a \div n \in Int /\ a = n * (a \div n)
  <1>1. a = (n * (a \div n)) + (a % n) /\ a \div n \in Int
    OBVIOUS
  <1>2. n * (a \div n) \in Int
    BY <1>1
  <1> QED
    BY <1>1, <1>2

(* Two multiples of n lie n apart. *)
LEMMA MultiplesApart ==
    ASSUME NEW n \in Nat \ {0}, NEW a \in Int, NEW b \in Int,
           a % n = 0, b % n = 0, a < b
    PROVE  a + n <= b
  <1> DEFINE p == a \div n
             q == b \div n
  <1>1. p \in Int /\ a = n * p /\ q \in Int /\ b = n * q
    BY MultipleOf
  <1> HIDE DEF p, q
  <1>2. p + 1 <= q
    BY <1>1
  <1>3. n * (p + 1) <= n * q
    BY <1>1, <1>2
  <1> QED
    BY <1>1, <1>3

(* So does their distance. *)
LEMMA DistanceOfMultiples ==
    ASSUME NEW n \in Nat \ {0}, NEW a \in Int, NEW b \in Int, a % n = 0, b % n = 0
    PROVE  (b - a) % n = 0
  <1> DEFINE p == a \div n
             q == b \div n
  <1>1. p \in Int /\ a = n * p /\ q \in Int /\ b = n * q
    BY MultipleOf
  <1> HIDE DEF p, q
  <1>2. b - a = n * (q - p)
    BY <1>1
  <1>3. (n * (q - p)) % n = 0
    BY <1>1
  <1> QED
    BY <1>2, <1>3

----------------------------------------------------------------------------
(* The decision about one pair. *)

(* The quotient of an integer division, multiplied back, is never more than
   what was divided (round_amount, _clamp). *)
LEMMA QuotientTimesDivisor ==
    ASSUME NEW a \in Nat, NEW b \in Nat \ {0}
    PROVE  a \div b \in Nat /\ (a \div b) * b <= a
  OBVIOUS

(* Rounding to the lot never rounds up (round_amount). *)
LEMMA RoundedDown ==
    ASSUME NEW q \in Nat
    PROVE  RoundAmount(q) \in Nat /\ RoundAmount(q) <= q
  <1>1. Lot \in Nat \ {0}
    BY DecisionAssumption
  <1>2. q \div Lot \in Nat /\ (q \div Lot) * Lot <= q
    BY <1>1, QuotientTimesDivisor
  <1>3. (q \div Lot) * Lot \in Nat
    BY <1>1, <1>2
  <1> QED
    BY <1>2, <1>3 DEF RoundAmount

(* An actionable pair has passed every guard (decide). *)
LEMMA GuardsPassed ==
    ASSUME NEW p, NEW n, Actionable(p, n)
    PROVE  \A i \in DOMAIN GuardOrder : ~Skips(GuardOrder[i], p, n)
  <1> DEFINE Bad(i) == Skips(GuardOrder[i], p, n)
             First(i) == Bad(i) /\ \A j \in 1..(i - 1) : ~Bad(j)
  <1>1. DOMAIN GuardOrder = 1..6
    BY DEF GuardOrder
  <1>2. \A i \in 1..6 : GuardOrder[i] # "OK"
    BY DEF GuardOrder
  <1>3. SUFFICES ASSUME \E i \in 1..6 : Bad(i)
                 PROVE  FALSE
    BY <1>1
  <1>4. \E i \in 1..6 : First(i)
    <2> HIDE DEF Bad
    <2>1. CASE Bad(1)
      BY <2>1
    <2>2. CASE ~Bad(1) /\ Bad(2)
      BY <2>2
    <2>3. CASE ~Bad(1) /\ ~Bad(2) /\ Bad(3)
      BY <2>3
    <2>4. CASE ~Bad(1) /\ ~Bad(2) /\ ~Bad(3) /\ Bad(4)
      BY <2>4
    <2>5. CASE ~Bad(1) /\ ~Bad(2) /\ ~Bad(3) /\ ~Bad(4) /\ Bad(5)
      BY <2>5
    <2>6. CASE ~Bad(1) /\ ~Bad(2) /\ ~Bad(3) /\ ~Bad(4) /\ ~Bad(5) /\ Bad(6)
      BY <2>6
    <2> QED
      BY <1>3, <2>1, <2>2, <2>3, <2>4, <2>5, <2>6
  <1>5. (CHOOSE i \in 1..6 : First(i)) \in 1..6
    BY <1>4
  <1>6. Reason(p, n) = GuardOrder[CHOOSE i \in 1..6 : First(i)]
    BY <1>1, <1>3 DEF Reason
  <1> QED
    BY <1>2, <1>5, <1>6 DEF Actionable

(* The limit of an actionable pair is a price: both sides of the book are
   positive and the offset is less than the whole of it (_limit_price). *)
LEMMA LimitIsAPrice ==
    ASSUME NEW p, NEW n, n.bid \in Nat, n.ask \in Nat, Actionable(p, n)
    PROVE  Limit(p, n) \in Nat \ {0}
  <1>1. ~AbnormalPrice(n)
    <2>1. 1 \in DOMAIN GuardOrder /\ GuardOrder[1] = "ABNORMAL_PRICE"
      BY DEF GuardOrder
    <2> QED
      BY <2>1, GuardsPassed DEF Skips
  <1>2. n.bid \in Nat \ {0} /\ n.ask \in Nat \ {0}
    BY <1>1 DEF AbnormalPrice
  <1>3. 100 - OffsetPct \in Nat \ {0} /\ 100 + OffsetPct \in Nat \ {0}
    BY DecisionAssumption
  <1>4. \A x, y \in Nat \ {0} : x * y \in Nat \ {0}
    OBVIOUS
  <1> QED
    BY <1>2, <1>3, <1>4 DEF Limit

(* Clamped or not, an order costs at most max_trade_notional at its own
   limit (_clamp). *)
LEMMA ClampHolds ==
    ASSUME NEW p, NEW n, p.maxTrade \in Nat \ {0},
           NEW side, NEW amount, NEW limit \in Nat \ {0}
    PROVE  LET o == Clamp(OrderOf(side, amount, limit), p, n)
           IN  o.amount * o.limit <= p.maxTrade
  <1> DEFINE cut == RoundAmount(p.maxTrade \div limit)
  <1>1. CASE amount * limit <= p.maxTrade
    BY <1>1 DEF Clamp, OrderOf
  <1>2. CASE ~(amount * limit <= p.maxTrade)
    <2>1. Clamp(OrderOf(side, amount, limit), p, n) = OrderOf(side, cut, limit)
      BY <1>2 DEF Clamp, OrderOf
    <2>2. p.maxTrade \div limit \in Nat /\ (p.maxTrade \div limit) * limit <= p.maxTrade
      BY QuotientTimesDivisor
    <2>3. cut \in Nat /\ cut <= p.maxTrade \div limit
      BY <2>2, RoundedDown
    <2>4. \A x, y \in Nat : x <= y => x * limit <= y * limit
      OBVIOUS
    <2>5. cut * limit <= p.maxTrade
      <3> HIDE DEF cut
      <3>1. cut * limit <= (p.maxTrade \div limit) * limit
        BY <2>2, <2>3, <2>4
      <3>2. cut * limit \in Int /\ (p.maxTrade \div limit) * limit \in Int
        BY <2>2, <2>3
      <3> QED
        BY <2>2, <3>1, <3>2
    <2> QED
      BY <2>1, <2>5 DEF OrderOf
  <1> QED
    BY <1>1, <1>2

(* Rounding to the lot takes off less than a lot (round_amount). *)
LEMMA RoundedByLessThanALot ==
    ASSUME NEW q \in Nat
    PROVE  q < RoundAmount(q) + Lot
  <1>1. Lot \in Nat \ {0}
    BY DecisionAssumption
  <1>2. q = (q \div Lot) * Lot + (q % Lot) /\ q % Lot < Lot /\ q % Lot \in Nat
            /\ q \div Lot \in Nat
    BY <1>1
  <1>3. (q \div Lot) * Lot \in Nat
    BY <1>1, <1>2
  <1> QED
    BY <1>1, <1>2, <1>3 DEF RoundAmount

(* An integer division leaves less than the divisor. *)
LEMMA LessThanNextMultiple ==
    ASSUME NEW a \in Nat, NEW b \in Nat \ {0}, NEW c \in Nat, a \div b < c
    PROVE  a < c * b
  <1>1. a \div b \in Nat /\ a < (a \div b + 1) * b
    <2>1. a = (a \div b) * b + (a % b) /\ a % b < b /\ a % b \in Nat /\ a \div b \in Nat
      OBVIOUS
    <2>2. (a \div b + 1) * b = (a \div b) * b + b /\ (a \div b) * b \in Nat
      BY <2>1
    <2> QED
      BY <2>1, <2>2
  <1>2. \A x, y \in Nat : x <= y => x * b <= y * b
    OBVIOUS
  <1>3. a \div b + 1 \in Nat /\ a \div b + 1 <= c
    BY <1>1
  <1>4. (a \div b + 1) * b <= c * b
    BY <1>2, <1>3
  <1>5. (a \div b + 1) * b \in Nat /\ c * b \in Nat
    BY <1>3
  <1> QED
    BY <1>1, <1>4, <1>5

(* A snapshot in numbers. *)
IsSnapshot(n) ==
    /\ n.base \in Int /\ n.stable \in Int
    /\ n.last \in Nat /\ n.bid \in Nat /\ n.ask \in Nat

(* The numbers of an actionable pair (_metrics, _size_order, _clamp). *)
LEMMA ActionableNumbers ==
    ASSUME NEW p \in PairConfig, NEW n, IsSnapshot(n), Actionable(p, n)
    PROVE  /\ LastPrice(n) \in Nat \ {0} /\ Limit(p, n) \in Nat \ {0}
           /\ Abs(Drift(p, n)) \in Nat
           /\ Abs(Drift(p, n)) \div (100 * LastPrice(n)) \in Nat
           /\ Amount(p, n) \in Nat
           /\ 100 * p.minNotional <= Abs(Drift(p, n))
  <1>1. Limit(p, n) \in Nat \ {0}
    BY LimitIsAPrice DEF IsSnapshot
  <1>2. LastPrice(n) \in Nat \ {0}
    <2>1. ~AbnormalPrice(n)
      <3>1. 1 \in DOMAIN GuardOrder /\ GuardOrder[1] = "ABNORMAL_PRICE"
        BY DEF GuardOrder
      <3> QED
        BY <3>1, GuardsPassed DEF Skips
    <2>2. n.last \in Nat \ {0}
      BY <2>1 DEF AbnormalPrice, IsSnapshot
    <2> QED
      BY <2>2 DEF LastPrice
  <1>3. Drift(p, n) \in Int
    <2>1. p.target \in Int /\ n.stable \in Int /\ n.base \in Int /\ LastPrice(n) \in Int
      BY <1>2 DEF PairConfig, IsSnapshot
    <2>2. \A x, y \in Int : x * y \in Int /\ x + y \in Int /\ x - y \in Int
      OBVIOUS
    <2>3. BaseValue(n) \in Int
      BY <2>1, <2>2 DEF BaseValue
    <2>4. Total(n) \in Int
      BY <2>1, <2>2, <2>3 DEF Total
    <2>5. 100 * BaseValue(n) \in Int /\ p.target * Total(n) \in Int
      BY <2>1, <2>2, <2>3, <2>4
    <2> QED
      BY <2>2, <2>5 DEF Drift
  <1>4. Abs(Drift(p, n)) \in Nat
    BY <1>3 DEF Abs
  <1>5. Abs(Drift(p, n)) \div (100 * LastPrice(n)) \in Nat
    <2>1. 100 * LastPrice(n) \in Nat \ {0}
      BY <1>2
    <2> QED
      BY <1>4, <2>1, QuotientTimesDivisor
  <1>6. Amount(p, n) \in Nat
    BY <1>5, RoundedDown DEF Amount
  <1>7. 100 * p.minNotional <= Abs(Drift(p, n))
    <2>1. ~BelowMinNotional(p, n)
      <3>1. 5 \in DOMAIN GuardOrder /\ GuardOrder[5] = "BELOW_MIN_NOTIONAL"
        BY DEF GuardOrder
      <3> QED
        BY <3>1, GuardsPassed DEF Skips
    <2>2. p.minNotional \in Nat
      BY DEF PairConfig
    <2> QED
      BY <1>4, <2>1, <2>2 DEF BelowMinNotional
  <1> QED
    BY <1>1, <1>2, <1>4, <1>5, <1>6, <1>7

(* The order proposed, in numbers. *)
LEMMA ProposedNumbers ==
    ASSUME NEW p \in PairConfig, NEW n, IsSnapshot(n), Actionable(p, n)
    PROVE  LET o == Proposed(p, n)
           IN  /\ o.amount \in Nat /\ o.limit = Limit(p, n) /\ o.notional = o.amount * o.limit
               /\ o.notional \in Nat
               /\ \/ o.amount = Amount(p, n)
                  \/ p.maxTrade # 0 /\ o.amount = RoundAmount(p.maxTrade \div Limit(p, n))
  <1>1. Limit(p, n) \in Nat \ {0} /\ Amount(p, n) \in Nat /\ p.maxTrade \in Nat
    BY ActionableNumbers DEF PairConfig
  <1>2. RoundAmount(p.maxTrade \div Limit(p, n)) \in Nat
    BY <1>1, QuotientTimesDivisor, RoundedDown
  <1>3. \A x \in Nat : x * Limit(p, n) \in Nat
    BY <1>1
  <1>4. \/ Proposed(p, n) = OrderOf(SideOf(p, n), Amount(p, n), Limit(p, n))
        \/ /\ p.maxTrade # 0
           /\ Proposed(p, n) =
                 OrderOf(SideOf(p, n), RoundAmount(p.maxTrade \div Limit(p, n)), Limit(p, n))
    BY DEF Proposed, Clamp, Sized, OrderOf
  <1> QED
    BY <1>1, <1>2, <1>3, <1>4 DEF OrderOf

(* The floor as the order keeps it. *)
LEMMA FloorHolds ==
    ASSUME NEW p \in PairConfig, NEW n, IsSnapshot(n), Actionable(p, n), NEW o,
           o = Proposed(p, n),
           p.maxTrade = 0 \/ o.notional + Lot * o.limit <= p.maxTrade
    PROVE  o.notional + Lot * LastPrice(n) + o.amount * Abs(LastPrice(n) - o.limit) > p.minNotional
  <1> DEFINE last == LastPrice(n)
             limit == Limit(p, n)
             a == Amount(p, n)
             drift == Abs(Drift(p, n))
  <1>1. /\ last \in Nat \ {0} /\ limit \in Nat \ {0} /\ a \in Nat /\ drift \in Nat
        /\ drift \div (100 * last) \in Nat /\ 100 * p.minNotional <= drift
        /\ p.minNotional \in Nat /\ p.maxTrade \in Nat /\ Lot \in Nat \ {0}
    BY ActionableNumbers, DecisionAssumption DEF PairConfig
  <1>2. a = RoundAmount(drift \div (100 * last))
    BY DEF Amount
  <1>3. /\ o.amount \in Nat /\ o.limit = limit /\ o.notional = o.amount * limit
        /\ o.amount = a \/ (p.maxTrade # 0 /\ o.amount = RoundAmount(p.maxTrade \div limit))
    BY ProposedNumbers
  <1> HIDE DEF last, limit, a, drift
  <1>4. drift \div (100 * last) < a + Lot
    BY <1>1, <1>2, RoundedByLessThanALot
  <1>5. p.minNotional < a * last + Lot * last
    <2>1. 100 * last \in Nat \ {0} /\ a + Lot \in Nat
      BY <1>1
    <2>2. drift < (a + Lot) * (100 * last)
      BY <1>1, <1>4, <2>1, LessThanNextMultiple
    <2>3. (a + Lot) * (100 * last) = 100 * (a * last + Lot * last)
      BY <1>1
    <2>4. a * last \in Nat /\ Lot * last \in Nat
      BY <1>1
    <2> QED
      BY <1>1, <2>2, <2>3, <2>4
  <1>6. o.amount = a
    <2>1. CASE p.maxTrade = 0
      BY <1>3, <2>1
    <2>2. CASE o.amount = RoundAmount(p.maxTrade \div limit) /\ p.maxTrade # 0
      <3>1. p.maxTrade \div limit \in Nat
        BY <1>1, QuotientTimesDivisor
      <3>2. p.maxTrade \div limit < o.amount + Lot /\ o.amount + Lot \in Nat
        BY <1>1, <1>3, <2>2, <3>1, RoundedByLessThanALot
      <3>3. p.maxTrade < (o.amount + Lot) * limit
        BY <1>1, <3>2, LessThanNextMultiple
      <3>4. (o.amount + Lot) * limit = o.amount * limit + Lot * limit
        BY <1>1, <1>3
      <3>5. o.amount * limit + Lot * limit <= p.maxTrade
        BY <1>3, <2>2
      <3>6. o.amount * limit \in Nat /\ Lot * limit \in Nat
        BY <1>1, <1>3
      <3> QED
        BY <1>1, <3>3, <3>4, <3>5, <3>6
    <2> QED
      BY <1>3, <2>1, <2>2
  <1>7. a * last <= a * limit + a * Abs(last - limit)
    <2>1. Abs(last - limit) \in Nat /\ last <= limit + Abs(last - limit)
      BY <1>1 DEF Abs
    <2>2. \A x, y \in Nat : x <= y => a * x <= a * y
      BY <1>1
    <2>3. limit + Abs(last - limit) \in Nat /\ last \in Nat
      BY <1>1, <2>1
    <2>4. a * last <= a * (limit + Abs(last - limit))
      BY <2>1, <2>2, <2>3
    <2>5. a * (limit + Abs(last - limit)) = a * limit + a * Abs(last - limit)
      BY <1>1, <2>1
    <2> QED
      BY <2>4, <2>5
  <1>8. /\ a * last \in Nat /\ a * limit \in Nat /\ a * Abs(last - limit) \in Nat
        /\ Lot * last \in Nat
    <2>1. Abs(last - limit) \in Nat
      BY <1>1 DEF Abs
    <2> QED
      BY <1>1, <2>1
  <1>9. a * limit + Lot * last + a * Abs(last - limit) > p.minNotional
    BY <1>1, <1>5, <1>7, <1>8
  <1> QED
    BY <1>3, <1>6, <1>9 DEF last

(* The numbers of an order. *)
LEMMA OrdersAreNumbers ==
    ASSUME NEW o, IsOrder(o)
    PROVE  o.amount \in Nat /\ o.limit \in Nat /\ o.notional \in Nat
        /\ o.side \in {"buy", "sell"}
  <1>1. o.amount \in Nat /\ o.limit \in Nat /\ o.notional = o.amount * o.limit
    BY DEF IsOrder
  <1>2. o.amount * o.limit \in Nat
    BY <1>1
  <1> QED
    BY <1>1, <1>2 DEF IsOrder


(* What an OK decision proposes is an order (_size_order, _clamp). *)
LEMMA ProposedIsOrder ==
    ASSUME NEW p \in PairConfig, NEW n, IsSnapshot(n), Actionable(p, n)
    PROVE  IsOrder(Proposed(p, n))
  <1> DEFINE o == Proposed(p, n)
  <1>1. /\ o.amount \in Nat /\ o.limit = Limit(p, n) /\ o.notional = o.amount * o.limit
        /\ Limit(p, n) \in Nat
    BY ActionableNumbers, ProposedNumbers
  <1>2. DOMAIN o = {"side", "amount", "limit", "notional"} /\ o.side \in {"buy", "sell"}
    BY DEF Proposed, Clamp, Sized, OrderOf, SideOf
  <1> QED
    BY <1>1, <1>2 DEF IsOrder

(* A pair whose minimum interval still runs is not actionable (decide). *)
LEMMA NotCooling ==
    ASSUME NEW p, NEW n, Actionable(p, n)
    PROVE  ~n.cooling
  <1>1. 3 \in DOMAIN GuardOrder /\ GuardOrder[3] = "TOO_SOON"
    BY DEF GuardOrder
  <1> QED
    BY <1>1, GuardsPassed DEF Skips

(* Cutting an order down to max_trade makes it smaller (_clamp). *)
LEMMA ClampedIsSmaller ==
    ASSUME NEW p \in PairConfig, NEW n, IsSnapshot(n), Actionable(p, n)
    PROVE  /\ Proposed(p, n).amount <= Amount(p, n)
           /\ Proposed(p, n).notional <= Amount(p, n) * Limit(p, n)
           /\ Proposed(p, n).side = SideOf(p, n)
  <1> DEFINE o == Proposed(p, n)
             a == Amount(p, n)
             limit == Limit(p, n)
             cut == RoundAmount(p.maxTrade \div limit)
  <1>1. limit \in Nat \ {0} /\ a \in Nat /\ p.maxTrade \in Nat
    BY ActionableNumbers DEF PairConfig
  <1>2. CASE p.maxTrade = 0 \/ a * limit <= p.maxTrade
    <2>1. o = OrderOf(SideOf(p, n), a, limit)
      BY <1>2 DEF Proposed, Clamp, Sized, OrderOf
    <2> HIDE DEF a, limit
    <2>2. a * limit \in Nat
      BY <1>1
    <2> QED
      BY <1>1, <2>1, <2>2 DEF OrderOf, a, limit
  <1>3. CASE ~(p.maxTrade = 0 \/ a * limit <= p.maxTrade)
    <2>1. o = OrderOf(SideOf(p, n), cut, limit)
      BY <1>3 DEF Proposed, Clamp, Sized, OrderOf
    <2> HIDE DEF a, limit, cut, o
    <2>2. p.maxTrade \div limit \in Nat /\ (p.maxTrade \div limit) * limit <= p.maxTrade
      BY <1>1, QuotientTimesDivisor
    <2>3. cut \in Nat /\ cut <= p.maxTrade \div limit
      BY <2>2, RoundedDown DEF cut
    <2>4. \A x, y \in Nat : x <= y => x * limit <= y * limit
      BY <1>1
    <2>5. cut * limit <= (p.maxTrade \div limit) * limit
      BY <2>2, <2>3, <2>4
    <2>6. \A x \in Nat : x * limit \in Nat
      BY <1>1
    <2>7. cut * limit \in Nat /\ a * limit \in Nat /\ (p.maxTrade \div limit) * limit \in Nat
      BY <1>1, <2>2, <2>3, <2>6
    <2>8. cut * limit < a * limit
      BY <1>1, <1>3, <2>2, <2>5, <2>7
    <2>9. cut <= a
      <3>1. ~(a <= cut)
        BY <1>1, <2>3, <2>4, <2>7, <2>8
      <3> QED
        BY <1>1, <2>3, <3>1
    <2> QED
      BY <2>1, <2>7, <2>8, <2>9 DEF OrderOf, o, a, limit
  <1> QED
    BY <1>2, <1>3

(* The funds an order ties up are free when it is decided on
   (INSUFFICIENT_BALANCE). *)
LEMMA ProposedIsCovered ==
    ASSUME NEW p \in PairConfig, NEW n, IsSnapshot(n), Actionable(p, n),
           n.baseFree \in Int, n.stableFree \in Int
    PROVE  /\ Proposed(p, n).side = "sell" => Proposed(p, n).amount <= n.baseFree
           /\ Proposed(p, n).side = "buy" => Proposed(p, n).notional <= n.stableFree
  <1>1. ~InsufficientBalance(p, n)
    <2>1. 6 \in DOMAIN GuardOrder /\ GuardOrder[6] = "INSUFFICIENT_BALANCE"
      BY DEF GuardOrder
    <2> QED
      BY <2>1, GuardsPassed DEF Skips
  <1>2. /\ Proposed(p, n).amount <= Amount(p, n)
        /\ Proposed(p, n).notional <= Amount(p, n) * Limit(p, n)
        /\ Proposed(p, n).side = SideOf(p, n)
    BY ClampedIsSmaller
  <1>3. Amount(p, n) \in Nat /\ Limit(p, n) \in Nat
    BY ActionableNumbers
  <1>4. Proposed(p, n).amount \in Nat /\ Proposed(p, n).notional \in Nat
    BY ProposedNumbers
  <1>5. Sized(p, n).notional = Amount(p, n) * Limit(p, n)
    BY DEF Sized, OrderOf
  <1>6. Amount(p, n) * Limit(p, n) \in Nat
    BY <1>3
  <1>7. SideOf(p, n) = "sell" => Amount(p, n) <= n.baseFree
    BY <1>1, <1>3 DEF InsufficientBalance
  <1>8. SideOf(p, n) = "buy" => Amount(p, n) * Limit(p, n) <= n.stableFree
    BY <1>1, <1>5, <1>6 DEF InsufficientBalance
  <1> QED
    BY <1>2, <1>3, <1>4, <1>6, <1>7, <1>8
=============================================================================
