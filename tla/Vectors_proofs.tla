---------------------------- MODULE Vectors_proofs ----------------------------
(***************************************************************************)
(* What erasing from a vector leaves: every entry that stays, once, and    *)
(* nothing else.                                                           *)
(*                                                                         *)
(* Different entries that stay have different places, all of them within   *)
(* 1..Cardinality(stay); there are as many of the ones as of the others,   *)
(* so every place is taken.                                                *)
(***************************************************************************)
EXTENDS Vectors, FiniteSetTheorems, TLAPS

LEMMA FirstOnes ==
  ASSUME NEW n \in Nat
  PROVE  IsFiniteSet(1..n) /\ Cardinality(1..n) = n
BY FS_Interval

LEMMA PlaceRises ==
  ASSUME NEW n \in Nat, NEW stay \in SUBSET (1..n)
  PROVE  /\ IsFiniteSet(stay) /\ Cardinality(stay) \in Nat
         /\ \A k \in stay : Place(stay, k) \in 1..Cardinality(stay)
         /\ \A j, k \in stay : j < k => Place(stay, j) < Place(stay, k)
<1>0. \A k \in stay : k \in Nat
  OBVIOUS
<1>1. IsFiniteSet(stay) /\ Cardinality(stay) \in Nat
  <2>1. IsFiniteSet(1..n)
    BY FirstOnes
  <2>2. IsFiniteSet(stay)
    BY ONLY <2>1, FS_Subset, stay \in SUBSET (1..n)
  <2> QED BY ONLY <2>2, FS_CardinalityType
<1> DEFINE upTo(k) == {j \in stay : j <= k}
<1>2. \A k : /\ upTo(k) \in SUBSET stay
             /\ IsFiniteSet(upTo(k)) /\ Cardinality(upTo(k)) \in Nat
             /\ Cardinality(upTo(k)) <= Cardinality(stay)
  <2> TAKE k
  <2>1. upTo(k) \in SUBSET stay
    OBVIOUS
  <2> HIDE DEF upTo
  <2>2. IsFiniteSet(upTo(k)) /\ Cardinality(upTo(k)) <= Cardinality(stay)
    BY ONLY <1>1, <2>1, FS_Subset
  <2> QED BY ONLY <2>1, <2>2, FS_CardinalityType
<1>3. ASSUME NEW k \in stay PROVE Cardinality(upTo(k)) >= 1
  <2>1. k \in upTo(k)
    OBVIOUS
  <2>2. Cardinality(upTo(k)) # 0
    <3> HIDE DEF upTo
    <3> QED BY ONLY <1>2, <2>1, FS_EmptySet
  <2> HIDE DEF upTo
  <2> QED BY <1>2, <2>2
<1>4. ASSUME NEW j \in stay, NEW k \in stay, j < k
      PROVE  Cardinality(upTo(j)) < Cardinality(upTo(k))
  <2>1. upTo(j) \in SUBSET upTo(k) /\ k \in upTo(k) /\ k \notin upTo(j)
    <3>1. j \in Nat /\ k \in Nat /\ ~(k <= j)
      BY <1>0, <1>4
    <3>2. \A l \in stay : l <= j => l <= k
      BY <1>0, <1>4, <3>1
    <3>3. k \in upTo(k) /\ k \notin upTo(j)
      BY <3>1
    <3>4. upTo(j) \in SUBSET upTo(k)
      BY <3>2
    <3> QED BY <3>3, <3>4
  <2> HIDE DEF upTo
  <2>2. /\ Cardinality(upTo(j)) <= Cardinality(upTo(k))
        /\ Cardinality(upTo(k)) # Cardinality(upTo(j))
    <3>1. IsFiniteSet(upTo(k)) /\ upTo(k) # upTo(j)
      BY <1>2, <2>1
    <3> QED BY ONLY <2>1, <3>1, FS_Subset
  <2> QED BY <1>2, <2>2
<1> QED BY <1>1, <1>2, <1>3, <1>4 DEF Place

LEMMA PlacesTaken ==
  ASSUME NEW n \in Nat, NEW stay \in SUBSET (1..n), NEW i \in 1..Cardinality(stay)
  PROVE  AtPlace(stay, i) \in stay /\ Place(stay, AtPlace(stay, i)) = i
<1> DEFINE m == Cardinality(stay)
           place == [k \in stay |-> Place(stay, k)]
<1>1. IsFiniteSet(stay) /\ m \in Nat
  BY PlaceRises
<1>2. place \in Injection(stay, 1..m)
  <2>1. \A k \in stay : Place(stay, k) \in 1..m
    BY PlaceRises
  <2>2. place \in [stay -> 1..m]
    BY <2>1
  <2>3. ASSUME NEW j \in stay, NEW k \in stay, place[j] = place[k] PROVE j = k
    <3>1. Place(stay, j) = Place(stay, k) /\ Place(stay, j) \in Nat
      BY <1>1, <2>1, <2>3
    <3>2. ~(j < k) /\ ~(k < j)
      <4>1. \A a, b \in stay : a < b => Place(stay, a) < Place(stay, b)
        BY PlaceRises
      <4> QED BY ONLY <3>1, <4>1, j \in stay, k \in stay
    <3> QED BY <3>2, j \in Nat, k \in Nat
  <2>4. IsInjective(place)
    <3> HIDE DEF m, place
    <3> QED BY ONLY <2>2, <2>3 DEF IsInjective
  <2> QED BY ONLY <2>2, <2>4 DEF Injection
<1>3. IsFiniteSet(1..m) /\ Cardinality(1..m) = m
  BY <1>1, FirstOnes
<1>4. place \in Surjection(stay, 1..m)
  BY ONLY <1>2, <1>3, FS_Injection
<1>5. \E k \in stay : place[k] = i
  BY ONLY <1>4, i \in 1..m DEF Surjection
<1>6. \E k \in stay : Place(stay, k) = i
  BY <1>5
<1> QED BY <1>6 DEF AtPlace

\* Erased(s, gone): the place of each entry that stays, and the entry of each place.
THEOREM ErasedFacts ==
  ASSUME NEW T, NEW s \in Seq(T), NEW gone \in SUBSET DOMAIN s
  PROVE  /\ Erased(s, gone) \in Seq(T)
         /\ Len(Erased(s, gone)) = Cardinality(Stay(s, gone))
         /\ Len(Erased(s, gone)) \in Nat /\ Len(Erased(s, gone)) <= Len(s)
         /\ DOMAIN Erased(s, gone) = 1..Len(Erased(s, gone))
         /\ \A i \in DOMAIN Erased(s, gone) :
              /\ AtPlace(Stay(s, gone), i) \in Stay(s, gone)
              /\ Place(Stay(s, gone), AtPlace(Stay(s, gone), i)) = i
              /\ Erased(s, gone)[i] = s[AtPlace(Stay(s, gone), i)]
         /\ \A k \in Stay(s, gone) :
              /\ Place(Stay(s, gone), k) \in DOMAIN Erased(s, gone)
              /\ Erased(s, gone)[Place(Stay(s, gone), k)] = s[k]
<1> DEFINE stay == Stay(s, gone)
           m == Cardinality(stay)
           t == Erased(s, gone)
<1>1. /\ Len(s) \in Nat /\ DOMAIN s = 1..Len(s) /\ stay \in SUBSET (1..Len(s))
      /\ \A k \in stay : k \in Nat
  BY DEF Stay
<1>2. m \in Nat /\ \A k \in stay : Place(stay, k) \in 1..m
  BY <1>1, PlaceRises
<1>3. \A i \in 1..m : AtPlace(stay, i) \in stay /\ Place(stay, AtPlace(stay, i)) = i
  BY <1>1, PlacesTaken
<1>4. m <= Len(s)
  <2>1. IsFiniteSet(1..Len(s)) /\ Cardinality(1..Len(s)) = Len(s)
    BY <1>1, FirstOnes
  <2> QED BY ONLY <1>1, <2>1, FS_Subset
<1>5. t = [i \in 1..m |-> s[AtPlace(stay, i)]]
  BY DEF Erased
<1>6. \A k \in stay : s[k] \in T
  BY <1>1
<1> HIDE DEF stay, t
<1>7. t \in [1..m -> T]
  BY <1>3, <1>5, <1>6
<1>8. t \in Seq(T) /\ Len(t) = m /\ DOMAIN t = 1..m
  <2>1. t \in Seq(T) /\ DOMAIN t = 1..m
    BY <1>2, <1>7
  <2> QED BY <1>2, <2>1
<1>9. ASSUME NEW k \in stay PROVE t[Place(stay, k)] = s[k]
  <2>1. Place(stay, k) \in 1..m
    BY <1>2
  <2>2. AtPlace(stay, Place(stay, k)) = k
    <3> DEFINE i == Place(stay, k)
               l == AtPlace(stay, i)
    <3>1. l \in stay /\ Place(stay, l) = i
      BY <1>3, <2>1
    <3>2. ~(l < k) /\ ~(k < l)
      <4>1. \A a, b \in stay : a < b => Place(stay, a) < Place(stay, b)
        BY <1>1, PlaceRises
      <4> QED BY <1>2, <3>1, <4>1
    <3>3. l \in Nat /\ k \in Nat
      BY <1>1, <3>1
    <3> QED BY <3>2, <3>3
  <2> QED BY <1>5, <2>1, <2>2
<1> QED BY <1>2, <1>3, <1>4, <1>5, <1>8, <1>9 DEF stay, t

\* Erased(s, gone): and they keep their order.
THEOREM ErasedKeepsOrder ==
  ASSUME NEW T, NEW s \in Seq(T), NEW gone \in SUBSET DOMAIN s,
         NEW i \in DOMAIN Erased(s, gone), NEW j \in DOMAIN Erased(s, gone), i < j
  PROVE  AtPlace(Stay(s, gone), i) < AtPlace(Stay(s, gone), j)
<1> DEFINE stay == Stay(s, gone)
           a == AtPlace(stay, i)
           b == AtPlace(stay, j)
<1>1. a \in stay /\ Place(stay, a) = i /\ b \in stay /\ Place(stay, b) = j
  BY ErasedFacts
<1>2. stay \in SUBSET (1..Len(s)) /\ Len(s) \in Nat
  BY DEF Stay
<1>3. i \in Nat /\ j \in Nat
  BY ErasedFacts
<1> HIDE DEF stay, a, b
<1>4. b < a => Place(stay, b) < Place(stay, a)
  BY <1>1, <1>2, PlaceRises
<1>5. a \in Nat /\ b \in Nat
  BY <1>1, <1>2
<1>6. a # b /\ ~(b < a)
  BY <1>1, <1>3, <1>4
<1>7. a < b
  BY <1>5, <1>6
<1> QED BY <1>7 DEF a, b, stay
=============================================================================
