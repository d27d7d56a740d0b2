------------------------------ MODULE Induction ------------------------------
(***************************************************************************)
(* Induction and recursion over data, said of sets and functions only.     *)
(* The induction theorems of the library take the induction hypothesis as  *)
(* an operator; here it is the set of the numbers, or of the finite sets,  *)
(* it holds of, and the step of a recursion is a function of the index and *)
(* of the value before. All of it rests on minimal elements: WFMin.        *)
(***************************************************************************)
EXTENDS Integers, FiniteSets, FiniteSetTheorems, WellFoundedInduction, TLAPS

(* A set of naturals that is not empty has a least element.                *)
LEMMA LeastNatural ==
    ASSUME NEW T \in SUBSET Nat, T # {}
    PROVE  \E x \in T : \A y \in T : x <= y
<1> DEFINE R == OpToRel(<, Nat)
<1>1. IsWellFoundedOn(R, Nat) BY NatLessThanWellFounded
<1>2. T \subseteq Nat OBVIOUS
<1> HIDE DEF R
<1>3. PICK x \in T : \A y \in T : <<y, x>> \notin R
    BY <1>1, <1>2, WFMin
<1>4. \A y \in T : ~ (y < x)
    <2> TAKE y \in T
    <2>1. <<y, x>> \in Nat \X Nat BY <1>2
    <2>2. y < x => <<y, x>> \in R BY <2>1 DEF R, OpToRel
    <2> QED BY <2>2, <1>3
<1> QED BY <1>3, <1>4, <1>2

(* Induction over the naturals: S is the set of those the claim holds of.  *)
LEMMA Induct ==
    ASSUME NEW S, 0 \in S, \A n \in Nat : n \in S => n + 1 \in S
    PROVE  Nat \subseteq S
<1> DEFINE T == Nat \ S
<1>1. SUFFICES ASSUME T # {} PROVE FALSE OBVIOUS
<1>2. T \in SUBSET Nat OBVIOUS
<1> HIDE DEF T
<1>3. PICK x \in T : \A y \in T : x <= y BY <1>1, <1>2, LeastNatural
<1>4. x \in Nat /\ x # 0 BY <1>3, <1>2 DEF T
<1>5. x - 1 \in Nat /\ ~(x <= x - 1) BY <1>4
<1>6. x - 1 \in S BY <1>3, <1>5 DEF T
<1>7. (x - 1) + 1 \in S BY <1>5, <1>6
<1>8. x \in S BY <1>4, <1>7
<1> QED BY <1>3, <1>8 DEF T

(* Induction over the subsets of a finite set, an element at a time.       *)
LEMMA InductSubsets ==
    ASSUME NEW U, IsFiniteSet(U), NEW G, {} \in G,
           \A A \in SUBSET U : \A a \in U \ A : A \in G => A \cup {a} \in G
    PROVE  SUBSET U \subseteq G
<1> DEFINE T == {A \in FiniteSubsetsOf(U) : A \notin G}
<1> DEFINE R == StrictSubsetOrdering(U)
<1>1. SUFFICES ASSUME NEW B \in SUBSET U, B \notin G PROVE FALSE OBVIOUS
<1>2. IsWellFoundedOn(R, FiniteSubsetsOf(U)) BY FS_StrictSubsetOrderingWellFounded
<1>3. T \subseteq FiniteSubsetsOf(U) OBVIOUS
<1>4. B \in T BY <1>1, FS_Subset DEF FiniteSubsetsOf
<1> HIDE DEF T, R
<1>5. PICK A \in T : \A C \in T : <<C, A>> \notin R BY <1>2, <1>3, <1>4, WFMin
<1>6. A \in SUBSET U /\ A \notin G /\ IsFiniteSet(A) BY <1>5 DEF T, FiniteSubsetsOf
<1>7. PICK a \in A : TRUE BY <1>6
<1>8. A \ {a} \in SUBSET U /\ IsFiniteSet(A \ {a}) BY <1>6, FS_Subset
<1>9. <<A \ {a}, A>> \in R BY <1>6, <1>7, <1>8 DEF R, StrictSubsetOrdering
<1>10. A \ {a} \notin T BY <1>5, <1>9
<1>11. A \ {a} \in G BY <1>10, <1>8 DEF T, FiniteSubsetsOf
<1>12. (A \ {a}) \cup {a} = A BY <1>7
<1>13. a \in U \ (A \ {a}) BY <1>6, <1>7
<1> QED BY <1>11, <1>12, <1>13, <1>8, <1>6

(* A finite set of integers has a greatest element and a least one.        *)
LEMMA GreatestLeast ==
    ASSUME NEW U \in SUBSET Int, IsFiniteSet(U), U # {}
    PROVE  /\ \E x \in U : \A y \in U : y <= x
           /\ \E x \in U : \A y \in U : x <= y
<1> DEFINE Bounded(A) == /\ \E x \in A : \A y \in A : y <= x
                         /\ \E x \in A : \A y \in A : x <= y
<1> DEFINE G == {A \in SUBSET U : A = {} \/ Bounded(A)}
<1>1. {} \in G OBVIOUS
<1>2. ASSUME NEW A \in SUBSET U, NEW a \in U \ A, A \in G
      PROVE  A \cup {a} \in G
    <2>1. CASE A = {}
        <3>1. A \cup {a} = {a} /\ a <= a BY <2>1
        <3> QED BY <3>1
    <2>2. CASE A # {}
        <3>1. Bounded(A) BY <1>2, <2>2
        <3>2. PICK x \in A : \A y \in A : y <= x BY <3>1
        <3>3. PICK z \in A : \A y \in A : z <= y BY <3>1
        <3>4. A \subseteq Int /\ a \in Int BY <1>2
        <3>5. \E b \in A \cup {a} : \A y \in A \cup {a} : y <= b
            <4>1. CASE a <= x BY <3>2, <3>4, <4>1
            <4>2. CASE ~(a <= x) BY <3>2, <3>4, <4>2
            <4> QED BY <4>1, <4>2
        <3>6. \E b \in A \cup {a} : \A y \in A \cup {a} : b <= y
            <4>1. CASE z <= a BY <3>3, <3>4, <4>1
            <4>2. CASE ~(z <= a) BY <3>3, <3>4, <4>2
            <4> QED BY <4>1, <4>2
        <3> QED BY <3>5, <3>6
    <2> QED BY <2>1, <2>2
<1> HIDE DEF G
<1>3. SUBSET U \subseteq G BY <1>1, <1>2, InductSubsets
<1>4. U \in G BY <1>3
<1> QED BY <1>4 DEF G

(* What a recursion over 0..N computes, step being a function of the index *)
(* and of the value before it; and that such a function exists.            *)
Unfolds(f, N, base, step) ==
    f[0] = base /\ \A n \in 1..N : f[n] = step[<<n, f[n - 1]>>]

LEMMA RecursionExists ==
    ASSUME NEW N \in Nat, NEW V, NEW base \in V, NEW step \in [(1..N) \X V -> V]
    PROVE  \E f \in [0..N -> V] : Unfolds(f, N, base, step)
<1> DEFINE Sat(f, m) == f[0] = base /\ \A n \in 1..m : f[n] = step[<<n, f[n - 1]>>]
<1> DEFINE S == {m \in Nat : m <= N => \E f \in [0..m -> V] : Sat(f, m)}
<1>1. 0 \in S
    <2> DEFINE f == [n \in 0..0 |-> base]
    <2>1. f \in [0..0 -> V] /\ Sat(f, 0) OBVIOUS
    <2> QED BY <2>1
<1>2. ASSUME NEW m \in Nat, m \in S PROVE m + 1 \in S
    <2>1. SUFFICES ASSUME m + 1 <= N PROVE \E f \in [0..(m+1) -> V] : Sat(f, m + 1)
        OBVIOUS
    <2>2. PICK f \in [0..m -> V] : Sat(f, m) BY <1>2, <2>1
    <2> DEFINE last == step[<<m + 1, f[m]>>]
    <2> DEFINE g == [n \in 0..(m+1) |-> IF n <= m THEN f[n] ELSE last]
    <2>3. last \in V
        <3>1. m + 1 \in 1..N /\ f[m] \in V BY <2>1, <2>2
        <3> QED BY <3>1
    <2>4. g \in [0..(m+1) -> V] BY <2>3, <2>2
    <2>5. \A n \in 1..(m+1) : g[n] = step[<<n, g[n - 1]>>]
        <3> TAKE n \in 1..(m+1)
        <3>1. CASE n <= m
            <4>1. n - 1 \in 0..m /\ n \in 0..m /\ n \in 1..m BY <3>1
            <4>2. f[n] = step[<<n, f[n - 1]>>] BY <2>2, <4>1
            <4>3. g[n] = f[n] /\ g[n-1] = f[n-1] BY <4>1, <3>1
            <4> QED BY <4>2, <4>3
        <3>2. CASE n = m + 1
            <4>1. n - 1 = m /\ n \in 0..(m+1) /\ ~(n <= m) /\ m \in 0..(m+1) BY <3>2
            <4>2. g[n] = last /\ g[m] = f[m] BY <4>1
            <4> QED BY <4>1, <4>2, <3>2
        <3> QED BY <3>1, <3>2
    <2>6. g[0] = base BY <2>2
    <2>7. Sat(g, m + 1) BY <2>5, <2>6
    <2> QED BY <2>4, <2>7
<1> HIDE DEF S
<1>3. Nat \subseteq S BY <1>1, <1>2, Induct
<1> QED BY <1>3 DEF S, Unfolds
=============================================================================
