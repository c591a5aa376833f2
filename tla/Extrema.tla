------------------------------ MODULE Extrema ------------------------------
(***************************************************************************)
(* Least and greatest elements of sets of naturals: the facts the proofs   *)
(* about tracking need where the code takes the latest of several          *)
(* locations. They rest on the well-foundedness of < on the naturals,      *)
(* which also serves as induction: whatever fails for some natural fails   *)
(* for a least one.                                                        *)
(***************************************************************************)
EXTENDS Naturals, FiniteSetTheorems, WellFoundedInduction, TLAPS

LEMMA Least ==
    ASSUME NEW T, T \subseteq Nat, T # {}
    PROVE  \E m \in T : \A n \in T : m <= n
<1>1. \E m \in T : \A n \in T : ~(<<n, m>> \in OpToRel(<, Nat))
  BY WFMin, NatLessThanWellFounded, Zenon
<1>2. PICK m \in T : \A n \in T : ~(<<n, m>> \in OpToRel(<, Nat))
  BY <1>1
<1>3. \A n \in T : m \in Nat /\ n \in Nat
  OBVIOUS
<1>4. \A n \in T : ~(n < m)
  BY <1>2, <1>3 DEF OpToRel
<1> QED  BY <1>3, <1>4

(* What a function does to a finite set has an upper bound: a least subset   *)
(* without one cannot be empty, and is bounded once one element is gone.     *)
Bounds(f, X) == {b \in Nat : \A x \in X : f[x] <= b}

LEMMA BoundExists ==
    ASSUME NEW S, IsFiniteSet(S), NEW f \in [S -> Nat]
    PROVE  Bounds(f, S) # {}
<1> DEFINE Open == {n \in Nat : \E X \in SUBSET S : Cardinality(X) = n /\ Bounds(f, X) = {}}
<1>1. SUFFICES ASSUME Bounds(f, S) = {}  PROVE FALSE
  OBVIOUS
<1>2. \A X \in SUBSET S : IsFiniteSet(X) /\ Cardinality(X) \in Nat
  BY FS_Subset, FS_CardinalityType
<1>3. Cardinality(S) \in Open
  BY <1>1, <1>2
<1>4. PICK n \in Open : \A m \in Open : n <= m
  BY <1>3, Least, Zenon
<1>5. PICK X \in SUBSET S : Cardinality(X) = n /\ Bounds(f, X) = {}
  BY <1>4
<1>6. X # {}
  <2>1. 0 \in Bounds(f, {})
    BY DEF Bounds
  <2> QED  BY <1>5, <2>1
<1>7. PICK x \in X : TRUE
  BY <1>6
<1>8. Cardinality(X \ {x}) = n - 1 /\ n - 1 \in Nat
  <2>1. Cardinality(X \ {x}) = Cardinality(X) - 1
    BY <1>2, <1>7, FS_RemoveElement
  <2>2. Cardinality(X \ {x}) \in Nat
    BY <1>2
  <2> QED  BY <1>5, <2>1, <2>2
<1>9. ~(n <= n - 1)
  BY <1>8
<1>10. X \ {x} \in SUBSET S /\ n - 1 \notin Open
  BY <1>4, <1>9
<1>11. Bounds(f, X \ {x}) # {}
  BY <1>8, <1>10
<1>12. PICK b \in Nat : \A y \in X \ {x} : f[y] <= b
  BY <1>11 DEF Bounds
<1>13. \A y \in X : f[y] \in Nat
  OBVIOUS
<1>14. CASE f[x] <= b
  <2>1. b \in Bounds(f, X)
    BY <1>12, <1>14 DEF Bounds
  <2> QED  BY <1>5, <2>1
<1>15. CASE ~(f[x] <= b)
  <2>1. \A y \in X : f[y] <= f[x]
    BY <1>12, <1>13, <1>15
  <2>2. f[x] \in Bounds(f, X)
    BY <1>13, <2>1 DEF Bounds
  <2> QED  BY <1>5, <2>2
<1> QED  BY <1>14, <1>15

(* A finite set that is not empty has a highest element by any measure: the  *)
(* least upper bound is reached, or the one below it would be a bound.       *)
LEMMA HighestExists ==
    ASSUME NEW S, IsFiniteSet(S), S # {}, NEW f \in [S -> Nat]
    PROVE  \E m \in S : \A x \in S : f[x] <= f[m]
<1>1. Bounds(f, S) \subseteq Nat
  BY DEF Bounds
<1>2. PICK b \in Bounds(f, S) : \A c \in Bounds(f, S) : b <= c
  BY <1>1, BoundExists, Least, Zenon
<1>3. b \in Nat /\ \A x \in S : f[x] \in Nat /\ f[x] <= b
  BY <1>2 DEF Bounds
<1>4. \E m \in S : f[m] = b
  <2>1. SUFFICES ASSUME \A m \in S : f[m] # b  PROVE FALSE
    OBVIOUS
  <2>2. \A x \in S : f[x] <= b - 1
    BY <1>3, <2>1
  <2>3. b - 1 \in Nat
    BY <1>3, <2>1
  <2>4. b - 1 \in Bounds(f, S)
    BY <2>2, <2>3 DEF Bounds
  <2> QED  BY <1>2, <1>3, <2>4
<1> QED  BY <1>3, <1>4

=============================================================================
