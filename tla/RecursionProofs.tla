----------------------------- MODULE RecursionProofs -----------------------------
(***************************************************************************)
(* Induction over numbers, and the existence of recursive functions over   *)
(* them, from the library's WFMin: a property of all numbers of a range    *)
(* holds if the set of those that have it contains the first one and with  *)
(* each one the next.  Sets and functions stand where the library's        *)
(* induction theorems have operators.                                      *)
(***************************************************************************)
EXTENDS Integers, WellFoundedInduction, TLAPS

\* A set of numbers that is not empty has a least one.
LEMMA LeastNumber ==
  ASSUME NEW T \in SUBSET Nat, T # {}
  PROVE  \E x \in T : \A y \in T : x <= y
<1> DEFINE R == OpToRel(<, Nat)
<1>1. IsWellFoundedOn(R, Nat)
  BY NatLessThanWellFounded
<1>2. \A x, y \in Nat : y < x => <<y, x>> \in R
  BY DEF OpToRel
<1> HIDE DEF R
<1>3. \E x \in T : \A y \in T : ~ (<<y, x>> \in R)
  BY <1>1, WFMin
<1>4. \A x \in T : x \in Nat
  OBVIOUS
<1>5. \A x, y \in Nat : ~(<<y, x>> \in R) => x <= y
  BY <1>2
<1> QED BY <1>3, <1>4, <1>5

\* Induction upwards from a to b.
LEMMA Upwards ==
  ASSUME NEW a \in Int, NEW b \in Int, NEW T, a \in T,
         \A k \in a .. b - 1 : k \in T => k + 1 \in T
  PROVE  \A k \in a .. b : k \in T
<1> DEFINE Bad == {n \in Nat : a + n <= b /\ a + n \notin T}
<1>1. SUFFICES ASSUME Bad # {} PROVE FALSE
  <2> SUFFICES ASSUME NEW k \in a .. b, k \notin T PROVE Bad # {}
    BY <1>1
  <2>1. k - a \in Nat /\ a + (k - a) = k /\ k <= b
    OBVIOUS
  <2>2. k - a \in Bad
    BY <2>1
  <2> QED BY <2>2
<1>2. PICK n \in Bad : \A j \in Bad : n <= j
  <2> HIDE DEF Bad
  <2>1. Bad \in SUBSET Nat
    BY DEF Bad
  <2> QED BY <2>1, <1>1, LeastNumber
<1>3. n \in Nat /\ n # 0 /\ a + n <= b /\ a + n \notin T
  OBVIOUS
<1>4. n - 1 \in Nat /\ n - 1 \notin Bad
  BY <1>2, <1>3
<1>5. a + (n - 1) \in T /\ a + (n - 1) \in a .. b - 1
  BY <1>3, <1>4
<1>6. a + (n - 1) + 1 = a + n
  BY <1>3
<1> QED BY <1>3, <1>5, <1>6

\* Induction downwards from b to a.
LEMMA Downwards ==
  ASSUME NEW a \in Int, NEW b \in Int, NEW T, b \in T,
         \A k \in a + 1 .. b : k \in T => k - 1 \in T
  PROVE  \A k \in a .. b : k \in T
<1> DEFINE U == {n \in Int : a + b - n \in T}
<1>1. a \in U
  <2>1. a + b - a = b
    OBVIOUS
  <2> QED BY <2>1
<1>2. ASSUME NEW n \in a .. b - 1, n \in U PROVE n + 1 \in U
  <2>1. a + b - n \in a + 1 .. b /\ a + b - n \in T
    BY <1>2
  <2>2. (a + b - n) - 1 = a + b - (n + 1)
    OBVIOUS
  <2> QED BY <2>1, <2>2
<1>3. \A n \in a .. b : n \in U
  <2> HIDE DEF U
  <2> QED BY <1>1, <1>2, Upwards
<1> SUFFICES ASSUME NEW k \in a .. b PROVE k \in T
  OBVIOUS
<1>4. a + b - k \in a .. b /\ a + b - (a + b - k) = k
  OBVIOUS
<1> QED BY <1>3, <1>4

\* A function can be defined from 0 up, each value from the one before.
StepsUpwards(N, X, c, G) ==
  N \in Nat /\ c \in X /\ G \in [1 .. N -> [X -> X]]

LEMMA RecursionUpwards ==
  ASSUME NEW N, NEW X, NEW c, NEW G, StepsUpwards(N, X, c, G)
  PROVE  \E f \in [0 .. N -> X] :
           f[0] = c /\ \A n \in 1 .. N : f[n] = G[n][f[n - 1]]
<1> USE DEF StepsUpwards
<1> DEFINE Good(f, m) == f[0] = c /\ \A n \in 1 .. m : f[n] = G[n][f[n - 1]]
           T == {m \in 0 .. N : \E f \in [0 .. N -> X] : Good(f, m)}
<1>1. 0 \in T
  <2> DEFINE f == [n \in 0 .. N |-> c]
  <2>1. f \in [0 .. N -> X] /\ Good(f, 0)
    OBVIOUS
  <2> HIDE DEF f
  <2> QED BY <2>1
<1>2. ASSUME NEW m \in 0 .. N - 1, m \in T PROVE m + 1 \in T
  <2>1. PICK f \in [0 .. N -> X] : Good(f, m)
    BY <1>2
  <2>2. f[m] \in X /\ G[m + 1][f[m]] \in X
    OBVIOUS
  <2> DEFINE v == G[m + 1][f[m]]
             g == [f EXCEPT ![m + 1] = v]
  <2> HIDE DEF v
  <2>3. g \in [0 .. N -> X]
    BY <2>2 DEF v
  <2>4. g[m + 1] = v /\ \A n \in 0 .. m : g[n] = f[n]
    OBVIOUS
  <2>5. g[0] = c
    BY <2>1, <2>4
  <2>6. ASSUME NEW n \in 1 .. m + 1 PROVE g[n] = G[n][g[n - 1]]
    <3>1. CASE n = m + 1
      BY <2>4, <3>1 DEF v
    <3>2. CASE n # m + 1
      <4>1. n \in 1 .. m /\ n - 1 \in 0 .. m
        BY <3>2
      <4> QED BY <4>1, <2>4, <2>1
    <3> QED BY <3>1, <3>2
  <2>7. Good(g, m + 1)
    BY <2>5, <2>6
  <2> HIDE DEF g
  <2> QED BY <2>3, <2>7
<1>3. N \in T
  <2>1. 0 \in Int /\ N \in Int /\ N \in 0 .. N
    OBVIOUS
  <2> HIDE DEF T
  <2>2. \A m \in 0 .. N : m \in T
    BY <1>1, <1>2, <2>1, Upwards
  <2> QED BY <2>1, <2>2
<1> QED BY <1>3

\* A function can be defined from b down, each value from the ones above it.
StepsDownwards(b, X, G) ==
  /\ b \in Nat /\ X # {}
  /\ G \in [1 .. b -> [[1 .. b -> X] -> X]]
  /\ \A k \in 1 .. b : \A g, h \in [1 .. b -> X] :
       (\A i \in k + 1 .. b : g[i] = h[i]) => G[k][g] = G[k][h]

LEMMA RecursionDownwards ==
  ASSUME NEW b, NEW X, NEW G, StepsDownwards(b, X, G)
  PROVE  \E f \in [1 .. b -> X] : \A k \in 1 .. b : f[k] = G[k][f]
<1> USE DEF StepsDownwards
<1> DEFINE Good(f, m) == \A k \in m .. b : f[k] = G[k][f]
           T == {m \in 1 .. b + 1 : \E f \in [1 .. b -> X] : Good(f, m)}
<1>1. b + 1 \in T
  <2>1. PICK x \in X : TRUE
    OBVIOUS
  <2> DEFINE f == [k \in 1 .. b |-> x]
  <2>2. f \in [1 .. b -> X] /\ Good(f, b + 1)
    OBVIOUS
  <2>3. b + 1 \in 1 .. b + 1
    OBVIOUS
  <2> HIDE DEF f
  <2> QED BY <2>2, <2>3
<1>2. ASSUME NEW m \in 1 + 1 .. b + 1, m \in T PROVE m - 1 \in T
  <2>1. PICK f \in [1 .. b -> X] : Good(f, m)
    BY <1>2
  <2>2. m - 1 \in 1 .. b /\ G[m - 1][f] \in X
    OBVIOUS
  <2> DEFINE v == G[m - 1][f]
             g == [f EXCEPT ![m - 1] = v]
  <2> HIDE DEF v
  <2>3. g \in [1 .. b -> X]
    BY <2>2 DEF v
  <2>4. g[m - 1] = v /\ \A n \in m .. b : g[n] = f[n]
    BY <2>2
  <2> HIDE DEF g
  <2>5. ASSUME NEW k \in m - 1 .. b PROVE g[k] = G[k][g]
    <3>1. k \in 1 .. b /\ \A i \in k + 1 .. b : g[i] = f[i]
      BY <2>4
    <3>2. G[k][g] = G[k][f]
      BY <3>1, <2>3
    <3>3. CASE k = m - 1
      BY <2>4, <3>2, <3>3 DEF v
    <3>4. CASE k # m - 1
      <4>1. k \in m .. b
        BY <3>4
      <4> QED BY <4>1, <2>4, <2>1, <3>2
    <3> QED BY <3>3, <3>4
  <2>7. Good(g, m - 1)
    BY <2>5
  <2>8. m - 1 \in 1 .. b + 1
    OBVIOUS
  <2> QED BY <2>3, <2>7, <2>8
<1>3. 1 \in T
  <2>1. 1 \in 1 .. b + 1 /\ 1 \in Int /\ b + 1 \in Int
    OBVIOUS
  <2> HIDE DEF T
  <2>2. \A m \in 1 .. b + 1 : m \in T
    BY <1>1, <1>2, <2>1, Downwards
  <2> QED BY <2>1, <2>2
<1> QED BY <1>3
=============================================================================
