----------------------------- MODULE DataLemmas -----------------------------
(* What adding to a bag and removing from it does, what joining sequences and *)
(* removing a row does to them, and the least element of a set of natural     *)
(* numbers, with which the other proofs do their inductions.                  *)
EXTENDS Integers, SequencesExt, BagsExt, SequenceTheorems, TLAPS

Order == INSTANCE WellFoundedInduction

\* Adding an element adds it to the set.
LEMMA InBagAdd ==
    ASSUME NEW B, NEW x
    PROVE  BagToSet(BagAdd(B, x)) = BagToSet(B) \union {x}
BY DEF BagToSet, BagAdd

\* Removing one copy adds nothing.
LEMMA InBagRemove ==
    ASSUME NEW B, NEW x
    PROVE  BagToSet(BagRemove(B, x)) \subseteq BagToSet(B)
BY DEF BagToSet, BagRemove

LEMMA InEmptyBag == BagToSet(EmptyBag) = {}
BY DEF BagToSet, EmptyBag, SetToBag

\* A new element is there once, and the number of the others stays.
LEMMA AddNew ==
    ASSUME NEW B, NEW x, x \notin BagToSet(B)
    PROVE  /\ BagAdd(B, x)[x] = 1
           /\ \A y \in BagToSet(B) : BagAdd(B, x)[y] = B[y]
BY DEF BagToSet, BagAdd

\* Adding to a bag and removing from it give a bag.
LEMMA BagAddType ==
    ASSUME NEW B, IsABag(B), NEW x
    PROVE  IsABag(BagAdd(B, x))
BY DEF IsABag, BagAdd

LEMMA BagRemoveType ==
    ASSUME NEW B, IsABag(B), NEW x
    PROVE  IsABag(BagRemove(B, x))
BY DEF IsABag, BagRemove

LEMMA EmptyBagType == IsABag(EmptyBag)
BY DEF IsABag, EmptyBag, SetToBag

\* Putting one sequence behind another adds its elements.
LEMMA ConcatSet ==
    ASSUME NEW S, NEW a \in Seq(S), NEW b \in Seq(S)
    PROVE  a \o b \in Seq(S) /\ ToSet(a \o b) \subseteq ToSet(a) \union ToSet(b)
<1> DEFINE list == a \o b
<1>1. /\ list \in Seq(S) /\ Len(list) = Len(a) + Len(b)
      /\ \A k \in 1..(Len(a) + Len(b)) :
             list[k] = IF k <= Len(a) THEN a[k] ELSE b[k - Len(a)]
  BY ConcatProperties
<1> HIDE DEF list
<1>2. /\ DOMAIN a = 1..Len(a) /\ DOMAIN b = 1..Len(b) /\ Len(a) \in Nat /\ Len(b) \in Nat
      /\ DOMAIN list = 1..(Len(a) + Len(b))
  BY <1>1, LenProperties
<1>3. ASSUME NEW k \in DOMAIN list
      PROVE  list[k] \in ToSet(a) \union ToSet(b)
  <2>1. CASE k <= Len(a)
    BY <1>1, <1>2, <2>1 DEF ToSet
  <2>2. CASE ~ (k <= Len(a))
    <3>1. k - Len(a) \in DOMAIN b /\ list[k] = b[k - Len(a)]
      BY <1>1, <1>2, <2>2
    <3> QED  BY <3>1 DEF ToSet
  <2> QED  BY <2>1, <2>2
<1> QED  BY <1>1, <1>3 DEF list, ToSet

\* The elements behind one that is removed move up by one.
LEMMA RemoveAtElements ==
    ASSUME NEW S, NEW list \in Seq(S), NEW i \in DOMAIN list
    PROVE  /\ Len(list) \in Nat /\ i \in 1..Len(list)
           /\ RemoveAt(list, i) \in Seq(S)
           /\ Len(RemoveAt(list, i)) = Len(list) - 1
           /\ DOMAIN RemoveAt(list, i) = 1..(Len(list) - 1)
           /\ \A j \in 1..(i - 1) : RemoveAt(list, i)[j] = list[j]
           /\ \A j \in i..(Len(list) - 1) : RemoveAt(list, i)[j] = list[j + 1]
<1> DEFINE new   == RemoveAt(list, i)
           front == SubSeq(list, 1, i - 1)
           back  == SubSeq(list, i + 1, Len(list))
<1>1. Len(list) \in Nat /\ i \in 1..Len(list) /\ DOMAIN list = 1..Len(list)
  BY LenProperties
<1>2. /\ front \in Seq(S) /\ Len(front) = i - 1
      /\ \A j \in 1..(i - 1) : front[j] = list[j]
  BY <1>1, SubSeqProperties
<1>3. /\ back \in Seq(S) /\ Len(back) = Len(list) - i
      /\ \A j \in 1..(Len(list) - i) : back[j] = list[i + j]
  BY <1>1, SubSeqProperties
<1>4. new = front \o back
  BY DEF RemoveAt
<1> HIDE DEF new, front, back
<1>5. /\ new \in Seq(S)
      /\ Len(new) = Len(front) + Len(back)
      /\ \A j \in 1..(Len(front) + Len(back)) :
             new[j] = IF j <= Len(front) THEN front[j] ELSE back[j - Len(front)]
  BY <1>2, <1>3, <1>4, ConcatProperties
<1>6. Len(front) + Len(back) = Len(list) - 1
  BY <1>1, <1>2, <1>3
<1>7. ASSUME NEW j \in 1..(i - 1)
      PROVE  new[j] = list[j]
  <2>1. j <= Len(front) /\ j \in 1..(Len(front) + Len(back))
    BY <1>1, <1>2, <1>3
  <2> QED  BY <1>2, <1>5, <2>1
<1>8. ASSUME NEW j \in i..(Len(list) - 1)
      PROVE  new[j] = list[j + 1]
  <2>1. new[j] = back[j - (i - 1)] /\ j - (i - 1) \in 1..(Len(list) - i)
    BY <1>1, <1>2, <1>3, <1>5
  <2>2. i + (j - (i - 1)) = j + 1
    BY <1>1
  <2> QED  BY <1>3, <2>1, <2>2
<1>9. DOMAIN new = 1..(Len(list) - 1)
  BY <1>5, <1>6, LenProperties
<1> QED  BY <1>1, <1>5, <1>6, <1>7, <1>8, <1>9 DEF new

\* No element is new, and only the one that is removed can be missing.
LEMMA RemoveAtSet ==
    ASSUME NEW S, NEW list \in Seq(S), NEW i \in DOMAIN list
    PROVE  /\ ToSet(RemoveAt(list, i)) \subseteq ToSet(list)
           /\ ToSet(list) \ {list[i]} \subseteq ToSet(RemoveAt(list, i))
<1> DEFINE new == RemoveAt(list, i)
<1>1. /\ Len(list) \in Nat /\ i \in 1..Len(list)
      /\ DOMAIN list = 1..Len(list) /\ DOMAIN new = 1..(Len(list) - 1)
      /\ \A j \in 1..(i - 1) : new[j] = list[j]
      /\ \A j \in i..(Len(list) - 1) : new[j] = list[j + 1]
  BY RemoveAtElements, LenProperties
<1> HIDE DEF new
<1>2. ASSUME NEW j \in DOMAIN new
      PROVE  new[j] \in ToSet(list)
  <2>1. CASE j < i
    BY <1>1, <2>1 DEF ToSet
  <2>2. CASE j >= i
    <3>1. j + 1 \in DOMAIN list /\ new[j] = list[j + 1]
      BY <1>1, <2>2
    <3> QED  BY <3>1 DEF ToSet
  <2> QED  BY <1>1, <2>1, <2>2
<1>3. ASSUME NEW j \in DOMAIN list, j # i
      PROVE  list[j] \in ToSet(new)
  <2>1. CASE j < i
    <3>1. j \in DOMAIN new /\ new[j] = list[j]
      BY <1>1, <2>1
    <3> QED  BY <3>1 DEF ToSet
  <2>2. CASE j > i
    <3>1. j - 1 \in DOMAIN new /\ j - 1 \in i..(Len(list) - 1) /\ (j - 1) + 1 = j
      BY <1>1, <2>2
    <3>2. new[j - 1] = list[j]
      BY <1>1, <3>1
    <3> QED  BY <3>1, <3>2 DEF ToSet
  <2> QED  BY <1>1, <1>3, <2>1, <2>2
<1> QED  BY <1>2, <1>3 DEF new, ToSet

\* A set of natural numbers that is not empty has a least element.
LEMMA LeastNatural ==
    ASSUME NEW S \in SUBSET Nat, S # {}
    PROVE  \E n \in S : \A k \in S : n <= k
<1>1. PICK n \in S : \A k \in S : <<k, n>> \notin Order!OpToRel(<, Nat)
  BY Order!NatLessThanWellFounded, Order!WFMin
<1>2. ASSUME NEW k \in S
      PROVE  n <= k
  <2>1. ~ (k < n)
    BY <1>1, <1>2 DEF Order!OpToRel
  <2> QED  BY <2>1
<1> QED  BY <1>2

=============================================================================
