--------------------------- MODULE Analyzers_proofs ---------------------------
(***************************************************************************)
(* What the analyzers compute, for tensors of every length: the stable     *)
(* sort of the classification is a permutation by falling score, the loop  *)
(* of the detection keeps the wanted elements in their order, and a vector *)
(* that holds anything has exactly one first best element.                 *)
(*                                                                         *)
(* None of it is an induction over the tensor.  The places in an order are *)
(* counted, and an injection of a finite set into one of its own size is   *)
(* a bijection; the loop is compared with what it should give, and the     *)
(* first place where the two differ is none.                               *)
(***************************************************************************)
EXTENDS Detections, Predictions, FiniteSetTheorems, FunctionTheorems,
        WellFoundedInduction, TLAPS

-----------------------------------------------------------------------------
(* Places in an order.                                                     *)

LEMMA FirstNumbers ==
  ASSUME NEW n \in Nat
  PROVE  IsFiniteSet(1..n) /\ Cardinality(1..n) = n
<1>1. IsFiniteSet(1..n) /\ Cardinality(1..n) = IF 1 > n THEN 0 ELSE n - 1 + 1
  BY FS_Interval
<1>. QED
  BY <1>1

\* The places counted from 1 that are all different are all taken.
LEMMA AllPlacesTaken ==
  ASSUME NEW S, IsFiniteSet(S), NEW r \in [S -> 1..Cardinality(S)],
         \A x, y \in S : r[x] = r[y] => x = y
  PROVE  \A k \in 1..Cardinality(S) : \E x \in S : r[x] = k
<1>. DEFINE n == Cardinality(S)
<1>1. n \in Nat
  BY FS_CardinalityType
<1>2. IsFiniteSet(1..n) /\ Cardinality(1..n) = n
  BY <1>1, FirstNumbers
<1>3. r \in Injection(S, 1..n)
  BY Fun_IsInj
<1>4. r \in Surjection(S, 1..n)
  BY <1>2, <1>3, FS_Injection
<1>. QED
  BY <1>4, Fun_SurjectionProperties

-----------------------------------------------------------------------------
(* The stable sort.                                                        *)

Ahead(t, i) == {j \in DOMAIN t : Before(t, j, i)}
Place(t, i) == 1 + Cardinality(Ahead(t, i))

\* "Before" is a strict total order of the indices.
LEMMA BeforeIsOrder ==
  ASSUME NEW t \in Seq(Int)
  PROVE  /\ \A i \in DOMAIN t : ~Before(t, i, i)
         /\ \A i, j \in DOMAIN t : Before(t, i, j) \/ Before(t, j, i) \/ i = j
         /\ \A i, j, k \in DOMAIN t : Before(t, i, j) /\ Before(t, j, k) => Before(t, i, k)
<1>1. DOMAIN t \subseteq Nat /\ \A i \in DOMAIN t : t[i] \in Int
  OBVIOUS
<1>. QED
  BY <1>1 DEF Before

\* Every place is in the vector, and an earlier element has a lower place.
LEMMA PlacesInOrder ==
  ASSUME NEW t \in Seq(Int)
  PROVE  /\ \A i \in DOMAIN t : Place(t, i) \in 1..Len(t)
         /\ \A i, j \in DOMAIN t : Before(t, i, j) => Place(t, i) < Place(t, j)
<1>. DEFINE n == Len(t)
<1>1. n \in Nat /\ DOMAIN t = 1..n /\ IsFiniteSet(1..n) /\ Cardinality(1..n) = n
  BY FirstNumbers
<1>2. ASSUME NEW i \in 1..n
      PROVE  IsFiniteSet(Ahead(t, i)) /\ Cardinality(Ahead(t, i)) \in 0..n - 1
  <2>1. Ahead(t, i) \in SUBSET (1..n) /\ i \in 1..n /\ i \notin Ahead(t, i)
    BY <1>1, BeforeIsOrder DEF Ahead
  <2>2. IsFiniteSet(Ahead(t, i)) /\ Cardinality(Ahead(t, i)) <= n /\ Cardinality(Ahead(t, i)) # n
    BY <1>1, <2>1, FS_Subset
  <2>3. Cardinality(Ahead(t, i)) \in Nat
    BY <2>2, FS_CardinalityType
  <2>. QED
    BY <1>1, <2>2, <2>3
<1>3. ASSUME NEW i \in 1..n, NEW j \in 1..n, Before(t, i, j)
      PROVE  Cardinality(Ahead(t, i)) < Cardinality(Ahead(t, j))
  <2>1. Ahead(t, i) \in SUBSET Ahead(t, j) /\ i \in Ahead(t, j) /\ i \notin Ahead(t, i)
    BY <1>1, <1>3, BeforeIsOrder DEF Ahead
  <2>2. /\ Cardinality(Ahead(t, i)) <= Cardinality(Ahead(t, j))
        /\ Cardinality(Ahead(t, i)) # Cardinality(Ahead(t, j))
    BY <1>2, <2>1, FS_Subset
  <2>. QED
    BY <1>2, <2>2
<1>. QED
  BY <1>1, <1>2, <1>3 DEF Place

\* The index of the element that the sort puts at place k.
Sorted(t, k) == CHOOSE i \in DOMAIN t : Place(t, i) = k

\* The sort is a permutation of the indices that respects the order.
LEMMA SortedIs ==
  ASSUME NEW t \in Seq(Int)
  PROVE  /\ \A k \in DOMAIN t : Sorted(t, k) \in DOMAIN t /\ Place(t, Sorted(t, k)) = k
         /\ \A i \in DOMAIN t : Place(t, i) \in DOMAIN t /\ Sorted(t, Place(t, i)) = i
         /\ \A k, l \in DOMAIN t : k < l => Before(t, Sorted(t, k), Sorted(t, l))
<1>. DEFINE n == Len(t)
<1>1. n \in Nat /\ DOMAIN t = 1..n /\ IsFiniteSet(1..n) /\ Cardinality(1..n) = n
  BY FirstNumbers
<1>2. \A i, j \in 1..n : Place(t, i) = Place(t, j) => i = j
  BY <1>1, PlacesInOrder, BeforeIsOrder
<1>. DEFINE r == [i \in 1..n |-> Place(t, i)]
<1>3. r \in [1..n -> 1..n] /\ \A i, j \in 1..n : r[i] = r[j] => i = j
  BY <1>1, <1>2, PlacesInOrder
<1>4. \A k \in 1..n : \E i \in 1..n : r[i] = k
  <2>1. r \in [1..n -> 1..Cardinality(1..n)]
    BY <1>1, <1>3
  <2>2. \A k \in 1..Cardinality(1..n) : \E i \in 1..n : r[i] = k
    BY <1>1, <1>3, <2>1, AllPlacesTaken
  <2>. QED
    BY <1>1, <2>2
<1>5. \A k \in 1..n : Sorted(t, k) \in 1..n /\ Place(t, Sorted(t, k)) = k
  BY <1>1, <1>4 DEF Sorted
<1>6. \A i \in 1..n : Place(t, i) \in 1..n /\ Sorted(t, Place(t, i)) = i
  BY <1>1, <1>2, <1>5, PlacesInOrder
<1>7. ASSUME NEW k \in 1..n, NEW l \in 1..n, k < l
      PROVE  Before(t, Sorted(t, k), Sorted(t, l))
  <2>1. Sorted(t, k) # Sorted(t, l)
    BY <1>5, <1>7
  <2>2. ~Before(t, Sorted(t, l), Sorted(t, k))
    <3>1. ~(Place(t, Sorted(t, l)) < Place(t, Sorted(t, k)))
      BY <1>5, <1>7
    <3>. QED
      BY <1>1, <1>5, <3>1, PlacesInOrder
  <2>. QED
    BY <1>1, <1>5, <2>1, <2>2, BeforeIsOrder
<1>. QED
  BY <1>1, <1>5, <1>6, <1>7

\* The message lists the elements at the first max places.
LEMMA ClassificationIs ==
  ASSUME NEW t \in Seq(Int), NEW max \in 0..Len(t)
  PROVE  LET output == createClassificationFlatbuffer(analyzeClassificationOutput(t, max))
         IN  /\ output \in Seq([class_id : Nat, score : Int]) /\ Len(output) = max
             /\ \A k \in 1..max : /\ output[k] \in [class_id : Nat, score : Int]
                                  /\ output[k].class_id = Sorted(t, k) - 1
                                  /\ output[k].score = t[Sorted(t, k)]
<1>. DEFINE n == Len(t)
            items == [k \in 1..max |-> Item(t, Sorted(t, k))]
            message == [k \in 1..max |-> GeneralClassification(items[k])]
<1>1. n \in Nat /\ DOMAIN t = 1..n /\ 1..max \subseteq 1..n
  OBVIOUS
<1>2. \A k \in 1..max : Sorted(t, k) \in 1..n /\ t[Sorted(t, k)] \in Int
  BY <1>1, SortedIs
<1>3. analyzeClassificationOutput(t, max) = items
  <2>1. StableSorted(t) = [k \in DOMAIN t |-> Item(t, Sorted(t, k))]
    BY DEF StableSorted, Sorted, Place, Ahead
  <2>. QED
    BY <1>1, <2>1 DEF analyzeClassificationOutput
<1>4. \A k \in 1..max : items[k] \in [index : Nat, score : Int] /\ items[k] # Garbage
  BY <1>2, PredictionsAssumption DEF Item
<1>5. createClassificationFlatbuffer(items) = message
  BY <1>4 DEF createClassificationFlatbuffer
<1>6. \A k \in 1..max : /\ message[k] \in [class_id : Nat, score : Int]
                        /\ message[k].class_id = Sorted(t, k) - 1
                        /\ message[k].score = t[Sorted(t, k)]
  BY <1>2 DEF Item, GeneralClassification
<1>7. message \in Seq([class_id : Nat, score : Int]) /\ Len(message) = max
  BY <1>6
<1>. QED
  BY <1>3, <1>5, <1>6, <1>7

\* The message lists the max best classes of t, no class twice, by falling score, the
\* lower index first among equals.
ListsBest(output, t, max) ==
    LET listed == {output[k].class_id + 1 : k \in DOMAIN output}
    IN  /\ Cardinality(listed) = Len(output)
        /\ Len(output) = max
        /\ \A k \in DOMAIN output :
             output[k] # Garbage /\ output[k].score = t[output[k].class_id + 1]
        /\ \A k \in 1..Len(output) - 1 :
             \/ output[k].score > output[k+1].score
             \/ /\ output[k].score = output[k+1].score
                /\ output[k].class_id < output[k+1].class_id
        /\ \A i \in DOMAIN t \ listed, j \in listed : t[i] <= t[j]

\* For scores of any number and kind, what the two classification analyzers make of
\* them lists the best classes, as long as no more are wanted than there are.
THEOREM BestPredictions ==
  ASSUME NEW t \in Seq(Int), NEW max \in 0..Len(t), NEW output,
         output = createClassificationFlatbuffer(analyzeClassificationOutput(t, max))
  PROVE  ListsBest(output, t, max)
<1>. DEFINE n == Len(t)
            listed == {output[k].class_id + 1 : k \in DOMAIN output}
<1>1. n \in Nat /\ DOMAIN t = 1..n /\ 1..max \subseteq 1..n /\ max \in Nat
      /\ \A i \in 1..n : t[i] \in Int
  OBVIOUS
<1>2. /\ output \in Seq([class_id : Nat, score : Int]) /\ Len(output) = max
      /\ \A k \in 1..max : /\ output[k] \in [class_id : Nat, score : Int]
                           /\ output[k].class_id = Sorted(t, k) - 1
                           /\ output[k].score = t[Sorted(t, k)]
  BY ClassificationIs
<1>3. DOMAIN output = 1..max
  BY <1>2
<1>4. \A k \in 1..max : Sorted(t, k) \in 1..n /\ Place(t, Sorted(t, k)) = k
  BY <1>1, SortedIs
<1>5. \A k \in 1..max : output[k].class_id + 1 = Sorted(t, k)
  BY <1>2, <1>4
<1>6. Cardinality(listed) = max
  <2>. DEFINE s == [k \in 1..max |-> Sorted(t, k)]
  <2>1. s \in [1..max -> listed] /\ \A k, l \in 1..max : s[k] = s[l] => k = l
    BY <1>3, <1>4, <1>5
  <2>2. \A x \in listed : \E k \in 1..max : s[k] = x
    BY <1>3, <1>5
  <2>3. s \in Bijection(1..max, listed)
    BY <2>1, <2>2, Fun_IsBij
  <2>4. ExistsBijection(1..max, listed)
    BY <2>3 DEF ExistsBijection
  <2>. QED
    BY <1>1, <2>4, FS_CountingElements
<1>7. \A k \in 1..max : output[k] # Garbage /\ output[k].score = t[output[k].class_id + 1]
  <2>1. \A k \in 1..max : output[k] \in [class_id : Nat, score : Int]
    BY <1>2
  <2>2. \A x \in [class_id : Nat, score : Int] : x # Garbage
    BY PredictionsAssumption
  <2>3. \A k \in 1..max : output[k].score = t[output[k].class_id + 1]
    BY <1>2, <1>5
  <2>. QED
    BY <2>1, <2>2, <2>3
<1>8. ASSUME NEW k \in 1..max - 1
      PROVE  \/ output[k].score > output[k+1].score
             \/ /\ output[k].score = output[k+1].score
                /\ output[k].class_id < output[k+1].class_id
  <2>1. k \in 1..max /\ k + 1 \in 1..max /\ k < k + 1
    BY <1>1
  <2>2. Before(t, Sorted(t, k), Sorted(t, k + 1))
    BY <1>1, <2>1, SortedIs
  <2>. QED
    BY <1>2, <1>4, <2>1, <2>2 DEF Before
<1>9. ASSUME NEW i \in DOMAIN t \ listed, NEW j \in listed
      PROVE  t[i] <= t[j]
  <2>1. PICK k \in 1..max : j = Sorted(t, k)
    BY <1>3, <1>5
  <2>2. i \in 1..n /\ Place(t, i) \in 1..n /\ Sorted(t, Place(t, i)) = i
    BY <1>1, SortedIs
  <2>3. Place(t, i) \notin 1..max
    <3>1. \A l \in 1..max : Sorted(t, l) \in listed
      BY <1>3, <1>5
    <3>. QED
      BY <2>2, <3>1
  <2>4. k \in 1..n /\ k < Place(t, i)
    BY <1>1, <2>2, <2>3
  <2>5. Before(t, j, i)
    BY <1>1, <2>1, <2>2, <2>4, SortedIs
  <2>. QED
    BY <1>1, <1>4, <2>1, <2>2, <2>5 DEF Before
<1>. QED
  BY <1>2, <1>3, <1>6, <1>7, <1>8, <1>9 DEF ListsBest

-----------------------------------------------------------------------------
(* The loop that keeps what is wanted.                                     *)

\* How many places up to i are kept.
Rank(kept, i) == Cardinality({j \in kept : j <= i})

LEMMA Ranks ==
  ASSUME NEW n \in Nat, NEW kept \in SUBSET (1..n)
  PROVE  /\ IsFiniteSet(kept) /\ Cardinality(kept) \in Nat
         /\ Rank(kept, 0) = 0 /\ Rank(kept, n) = Cardinality(kept)
         /\ \A i \in 0..n : Rank(kept, i) \in 0..Cardinality(kept)
         /\ \A i \in 1..n : Rank(kept, i) = IF i \in kept THEN Rank(kept, i - 1) + 1
                                                          ELSE Rank(kept, i - 1)
         /\ \A i, j \in 0..n : i <= j => Rank(kept, i) <= Rank(kept, j)
         /\ \A i, j \in kept : i < j => Rank(kept, i) < Rank(kept, j)
<1>. DEFINE Upto(i) == {j \in kept : j <= i}
<1>1. IsFiniteSet(kept) /\ Cardinality(kept) \in Nat
  BY FirstNumbers, FS_Subset, FS_CardinalityType
<1>2. \A i \in 0..n : /\ IsFiniteSet(Upto(i)) /\ Cardinality(Upto(i)) \in Nat
                      /\ Cardinality(Upto(i)) <= Cardinality(kept)
  <2>1. \A i \in 0..n : Upto(i) \in SUBSET kept
    OBVIOUS
  <2>. QED
    BY <1>1, <2>1, FS_Subset, FS_CardinalityType
<1>0. \A j \in kept : j \in 1..n /\ j \in Int /\ 1 <= j /\ j <= n
  OBVIOUS
<1>3. Upto(0) = {} /\ Upto(n) = kept
  <2>1. \A j \in kept : ~(j <= 0) /\ j <= n
    BY <1>0
  <2>2. Upto(0) = {}
    BY <2>1
  <2>3. Upto(n) = kept
    BY <2>1
  <2>. QED
    BY <2>2, <2>3
<1>4. ASSUME NEW i \in 1..n
      PROVE  Upto(i) = IF i \in kept THEN Upto(i - 1) \cup {i} ELSE Upto(i - 1)
  <2>1. \A j \in kept : j <= i <=> j <= i - 1 \/ j = i
    BY <1>0
  <2>. QED
    BY <2>1
<1>5. ASSUME NEW i \in 1..n
      PROVE  Cardinality(Upto(i)) = IF i \in kept THEN Cardinality(Upto(i - 1)) + 1
                                                  ELSE Cardinality(Upto(i - 1))
  <2>0. i - 1 \in 0..n /\ ~(i <= i - 1)
    OBVIOUS
  <2>1. i \notin Upto(i - 1) /\ IsFiniteSet(Upto(i - 1))
    BY <1>2, <2>0
  <2>2. Cardinality(Upto(i - 1) \cup {i}) = Cardinality(Upto(i - 1)) + 1
    BY <2>1, FS_AddElement
  <2>. QED
    BY <1>4, <2>2
<1>6. ASSUME NEW i \in 0..n, NEW j \in 0..n, i <= j
      PROVE  Cardinality(Upto(i)) <= Cardinality(Upto(j))
  <2>1. \A k \in kept : k <= i => k <= j
    BY <1>0, <1>6
  <2>2. Upto(i) \in SUBSET Upto(j)
    BY <2>1
  <2>. QED
    BY <1>2, <2>2, FS_Subset
<1>7. ASSUME NEW i \in kept, NEW j \in kept, i < j
      PROVE  Cardinality(Upto(i)) < Cardinality(Upto(j))
  <2>1. i \in 0..n /\ j - 1 \in 0..n /\ j \in 1..n /\ i <= j - 1 /\ j \in 0..n
    BY <1>7
  <2>2. /\ Cardinality(Upto(i)) <= Cardinality(Upto(j - 1))
        /\ Cardinality(Upto(j)) = Cardinality(Upto(j - 1)) + 1
    BY <1>5, <1>6, <2>1
  <2>3. /\ Cardinality(Upto(i)) \in Nat /\ Cardinality(Upto(j)) \in Nat
        /\ Cardinality(Upto(j - 1)) \in Nat
    BY <1>2, <2>1
  <2>. QED
    BY <2>2, <2>3
<1>8. Cardinality(Upto(0)) = 0 /\ Cardinality(Upto(n)) = Cardinality(kept)
  BY <1>3, FS_EmptySet
<1>. QED
  BY <1>1, <1>2, <1>5, <1>6, <1>7, <1>8 DEF Rank

\* What the loop has on its vector after i elements, if it has v[i - 1] before.
Loop(v, s, n, kept) ==
    [i \in 0..n |-> IF i = 0 THEN <<>>
                    ELSE IF i \in kept THEN Append(v[i - 1], s[i]) ELSE v[i - 1]]

\* Two vectors that the same loop fills are the same: there is no first element after
\* which they differ.
LEMMA LoopIsUnique ==
  ASSUME NEW n \in Nat, NEW s, NEW kept,
         NEW v, v = Loop(v, s, n, kept), NEW w, w = Loop(w, s, n, kept)
  PROVE  v = w
<1>. DEFINE Bad == {i \in 0..n : v[i] # w[i]}
<1>1. \A i \in 0..n : /\ v[i] = Loop(v, s, n, kept)[i]
                      /\ w[i] = Loop(w, s, n, kept)[i]
  OBVIOUS
<1>2. v[0] = <<>> /\ w[0] = <<>>
  BY <1>1 DEF Loop
<1>3. ASSUME NEW i \in 1..n, v[i - 1] = w[i - 1]
      PROVE  v[i] = w[i]
  <2>1. i \in 0..n /\ i # 0
    OBVIOUS
  <2>2. v[i] = IF i \in kept THEN Append(v[i - 1], s[i]) ELSE v[i - 1]
    BY <1>1, <2>1 DEF Loop
  <2>3. w[i] = IF i \in kept THEN Append(w[i - 1], s[i]) ELSE w[i - 1]
    BY <1>1, <2>1 DEF Loop
  <2>. QED
    BY <1>3, <2>2, <2>3
<1>4. Bad = {}
  <2>1. SUFFICES ASSUME Bad # {} PROVE FALSE
    OBVIOUS
  <2>2. IsWellFoundedOn(OpToRel(<, Nat), Nat)
    BY NatLessThanWellFounded
  <2>3. Bad \subseteq Nat
    OBVIOUS
  <2>4. PICK i \in Bad : \A j \in Bad : <<j, i>> \notin OpToRel(<, Nat)
    BY <2>1, <2>2, <2>3, WFMin
  <2>5. i \in 1..n
    BY <1>2
  <2>6. i - 1 \notin Bad
    <3>1. <<i - 1, i>> \in OpToRel(<, Nat)
      BY <2>5 DEF OpToRel
    <3>. QED
      BY <2>4, <3>1
  <2>. QED
    BY <1>3, <2>5, <2>6
<1>. QED
  <2>1. DOMAIN v = 0..n /\ v = [i \in 0..n |-> v[i]]
    BY DEF Loop
  <2>2. DOMAIN w = 0..n /\ w = [i \in 0..n |-> w[i]]
    BY DEF Loop
  <2>. QED
    BY <1>4, <2>1, <2>2

\* The loop keeps the wanted elements in their order.
LEMMA PushedIs ==
  ASSUME NEW n \in Nat, NEW kept \in SUBSET (1..n), NEW X, NEW s, \A i \in kept : s[i] \in X
  PROVE  /\ Pushed(s, n, kept) \in Seq(X)
         /\ Len(Pushed(s, n, kept)) = Cardinality(kept)
         /\ \A i \in kept : /\ Rank(kept, i) \in 1..Cardinality(kept)
                            /\ Pushed(s, n, kept)[Rank(kept, i)] = s[i]
         /\ \A k \in 1..Cardinality(kept) : \E i \in kept : Rank(kept, i) = k
<1>. DEFINE c == Cardinality(kept)
            nth(k) == CHOOSE i \in kept : Rank(kept, i) = k
            first(m) == [k \in 1..m |-> s[nth(k)]]
            full == [i \in 0..n |-> first(Rank(kept, i))]
<1>1. IsFiniteSet(kept) /\ c \in Nat /\ Rank(kept, 0) = 0 /\ Rank(kept, n) = c
  BY Ranks
<1>0. \A i \in 1..n : /\ Rank(kept, i) \in 0..c /\ Rank(kept, i - 1) \in 0..c
                      /\ Rank(kept, i) = IF i \in kept THEN Rank(kept, i - 1) + 1
                                                       ELSE Rank(kept, i - 1)
  <2>1. \A i \in 1..n : i \in 0..n /\ i - 1 \in 0..n
    OBVIOUS
  <2>. QED
    BY <2>1, Ranks
<1>2. \A i \in kept : i \in 1..n /\ Rank(kept, i) \in 1..c /\ Rank(kept, i - 1) \in 0..c
  <2>1. \A i \in kept : i \in 1..n
    OBVIOUS
  <2>. QED
    BY <1>0, <1>1, <2>1
<1>3. \A i, j \in kept : Rank(kept, i) = Rank(kept, j) => i = j
  <2>1. \A i, j \in kept : i < j \/ j < i \/ i = j
    BY <1>2
  <2>2. \A i, j \in kept : i < j => Rank(kept, i) < Rank(kept, j)
    BY Ranks
  <2>. QED
    BY <1>2, <2>1, <2>2
<1>4. \A k \in 1..c : \E i \in kept : Rank(kept, i) = k
  <2>1. IsFiniteSet(kept)
    BY Ranks
  <2>. HIDE DEF c
  <2>. DEFINE r == [i \in kept |-> Rank(kept, i)]
  <2>2. r \in [kept -> 1..c]
    BY <1>2
  <2>3. \A i, j \in kept : r[i] = r[j] => i = j
    BY <1>3
  <2>. HIDE DEF r
  <2>4. \A k \in 1..c : \E i \in kept : r[i] = k
    BY <2>1, <2>2, <2>3, AllPlacesTaken DEF c
  <2>. QED
    BY <2>4 DEF r
<1>5. \A k \in 1..c : nth(k) \in kept /\ Rank(kept, nth(k)) = k
  BY <1>4
<1>6. \A i \in kept : nth(Rank(kept, i)) = i
  BY <1>2, <1>3, <1>5
<1>7. \A m \in 0..c : first(m) \in Seq(X) /\ Len(first(m)) = m
  <2>1. \A k \in 1..c : s[nth(k)] \in X
    BY <1>5
  <2>2. \A m \in 0..c : 1..m \subseteq 1..c /\ m \in Nat
    BY <1>1
  <2>. QED
    BY <2>1, <2>2
<1>8. first(0) = <<>>
  OBVIOUS
<1>9. ASSUME NEW i \in kept
      PROVE  first(Rank(kept, i)) = Append(first(Rank(kept, i - 1)), s[i])
  <2>. DEFINE m == Rank(kept, i - 1)
  <2>1. m \in 0..c /\ Rank(kept, i) = m + 1
    BY <1>0, <1>2
  <2>2. nth(m + 1) = i
    BY <1>6, <2>1
  <2>3. first(m) \in Seq(X) /\ Len(first(m)) = m
    BY <1>7, <2>1
  <2>. HIDE DEF nth, m
  <2>4. Append(first(m), s[i]) = [k \in 1..m + 1 |-> IF k = m + 1 THEN s[i] ELSE first(m)[k]]
    BY <2>1, <2>3
  <2>5. first(m + 1) = [k \in 1..m + 1 |-> IF k = m + 1 THEN s[i] ELSE first(m)[k]]
    BY <1>1, <2>1, <2>2
  <2>. QED
    BY <2>1, <2>4, <2>5 DEF m
<1>10. full = Loop(full, s, n, kept)
  <2>. HIDE DEF first
  <2>1. full[0] = <<>>
    BY <1>1, <1>8
  <2>2. ASSUME NEW i \in 1..n
        PROVE  full[i] = IF i \in kept THEN Append(full[i - 1], s[i]) ELSE full[i - 1]
    <3>1. i \in 0..n /\ i - 1 \in 0..n
      OBVIOUS
    <3>2. full[i] = first(Rank(kept, i)) /\ full[i - 1] = first(Rank(kept, i - 1))
      BY <3>1
    <3>3. i \in kept => first(Rank(kept, i)) = Append(first(Rank(kept, i - 1)), s[i])
      BY <1>9
    <3>4. i \notin kept => Rank(kept, i) = Rank(kept, i - 1)
      BY <1>0
    <3>. HIDE DEF full
    <3>. QED
      BY <3>2, <3>3, <3>4
  <2>3. \A i \in 0..n : i # 0 => i \in 1..n
    OBVIOUS
  <2>. HIDE DEF full
  <2>4. Loop(full, s, n, kept) = [i \in 0..n |-> full[i]]
    BY <2>1, <2>2, <2>3 DEF Loop
  <2>. QED
    BY <2>4 DEF full
<1>11. Pushed(s, n, kept) = first(c)
  <2>. DEFINE vector == CHOOSE v : v = Loop(v, s, n, kept)
  <2>1. Pushed(s, n, kept) = vector[n]
    BY DEF Pushed, Loop
  <2>2. vector = Loop(vector, s, n, kept)
    BY <1>10
  <2>3. vector = full
    BY <1>10, <2>2, LoopIsUnique
  <2>4. full[n] = first(c)
    BY <1>1
  <2>. QED
    BY <2>1, <2>3, <2>4
<1>12. \A i \in kept : first(c)[Rank(kept, i)] = s[i]
  BY <1>2, <1>6
<1>13. first(c) \in Seq(X) /\ Len(first(c)) = c
  <2>1. c \in 0..c
    BY <1>1
  <2>. HIDE DEF first, c
  <2>. QED
    BY <1>7, <2>1
<1>. HIDE DEF first
<1>. QED
  BY <1>2, <1>4, <1>11, <1>12, <1>13

-----------------------------------------------------------------------------
(* The detections of a tensor.                                             *)

LEMMA LeastIs ==
  ASSUME NEW a \in Nat, NEW b \in Nat
  PROVE  Least(a, b) \in Nat /\ Least(a, b) <= a /\ Least(a, b) <= b /\ Least(a, b) = Least(b, a)
BY DEF Least

\* A conversion to uint8_t keeps what fits, and never gets larger.
LEMMA Uint8Is ==
  ASSUME NEW v \in Int
  PROVE  /\ uint8(v) \in 0..Byte - 1
         /\ v >= 0 => uint8(v) <= v
         /\ v \in 0..Byte - 1 => uint8(v) = v
BY DetectionsAssumption DEF uint8

\* At most max elements are left, and they are the first ones.
LEMMA TruncatedIs ==
  ASSUME NEW X, NEW s \in Seq(X), NEW max \in Nat
  PROVE  /\ Truncated(s, max) \in Seq(X)
         /\ Len(Truncated(s, max)) = Least(Len(s), max)
         /\ \A k \in 1..Least(Len(s), max) : k \in 1..Len(s) /\ Truncated(s, max)[k] = s[k]
<1>1. Least(Len(s), max) \in 0..Len(s)
  <2>1. Len(s) \in Nat
    OBVIOUS
  <2>. QED
    BY <2>1 DEF Least
<1>. DEFINE l == Least(Len(s), max)
<1>. HIDE DEF l
<1>2. l \in 0..Len(s) /\ Len(s) \in Nat
  BY <1>1 DEF l
<1>3. /\ SubSeq(s, 1, l) \in Seq(X) /\ Len(SubSeq(s, 1, l)) = l
      /\ \A k \in 1..l : k \in 1..Len(s) /\ SubSeq(s, 1, l)[k] = s[k]
  BY <1>2
<1>. QED
  BY <1>3 DEF Truncated, l

\* The detections as they come out of a tensor.
Decoded == [y_min : Int, x_min : Int, y_max : Int, x_max : Int, class : Int, score : Int]

LEMMA DetectionFields ==
  ASSUME NEW y1, NEW x1, NEW y2, NEW x2, NEW class, NEW score, NEW d,
         d = Detection(y1, x1, y2, x2, class, score)
  PROVE  d.y_min = y1 /\ d.x_min = x1 /\ d.y_max = y2 /\ d.x_max = x2
         /\ d.class = class /\ d.score = score
BY DEF Detection

\* The decoding stays inside of a tensor of the right size, also when the number of
\* detections does not fit in a uint8_t.
LEMMA DecodedIs ==
  ASSUME NEW n \in Nat, NEW t \in Seq(Int), Len(t) = DNN_OUTPUT_TENSOR_SIZE(n),
         NEW out, out = createDetectionData(t, n)
  PROVE  /\ uint8(n) \in 0..n
         /\ out.num_of_detections \in 0..uint8(n)
         /\ out.num_of_detections = Least(uint8(t[6*uint8(n) + 1]), uint8(n))
         /\ \A i \in 1..uint8(n) :
              LET total == uint8(n) IN
              /\ out.detections[i] \in Decoded
              /\ out.detections[i] = Detection(t[i], t[total + i], t[2*total + i],
                                               t[3*total + i], t[4*total + i], t[5*total + i])
              /\ 3*total + i <= 4*n
<1>. DEFINE total == uint8(n)
<1>1. total \in 0..n
  BY Uint8Is
<1>2. Len(t) = 6*n + 1 /\ DOMAIN t = 1..6*n + 1 /\ \A i \in 1..6*n + 1 : t[i] \in Int
  BY DEF DNN_OUTPUT_TENSOR_SIZE
<1>. HIDE DEF total
<1>3. 6*total + 1 \in 1..6*n + 1
  BY <1>1
<1>4. \A i \in 1..total :
         /\ i \in 1..6*n + 1 /\ total + i \in 1..6*n + 1 /\ 2*total + i \in 1..6*n + 1
         /\ 3*total + i \in 1..6*n + 1 /\ 4*total + i \in 1..6*n + 1
         /\ 5*total + i \in 1..6*n + 1 /\ 3*total + i <= 4*n
  BY <1>1
<1>5. /\ out.num_of_detections = Least(uint8(t[6*total + 1]), total)
      /\ \A i \in 1..total : out.detections[i] =
             Detection(t[i], t[total + i], t[2*total + i], t[3*total + i],
                       t[4*total + i], t[5*total + i])
  BY DEF createDetectionData, total
<1>6. out.num_of_detections \in 0..total
  <2>1. uint8(t[6*total + 1]) \in 0..Byte - 1
    BY <1>2, <1>3, Uint8Is
  <2>. QED
    BY <1>1, <1>5, <2>1, LeastIs
<1>7. ASSUME NEW i \in 1..total
      PROVE  out.detections[i] \in Decoded
  <2>1. /\ t[i] \in Int /\ t[total + i] \in Int /\ t[2*total + i] \in Int
        /\ t[3*total + i] \in Int /\ t[4*total + i] \in Int /\ t[5*total + i] \in Int
    BY <1>2, <1>4
  <2>2. \A a, b, c, d, e, f \in Int : Detection(a, b, c, d, e, f) \in Decoded
    BY DEF Detection, Decoded
  <2>3. Detection(t[i], t[total + i], t[2*total + i], t[3*total + i],
                  t[4*total + i], t[5*total + i]) \in Decoded
    BY <2>1, <2>2
  <2>. QED
    BY <1>5, <2>3
<1>. QED
  BY <1>1, <1>4, <1>5, <1>6, <1>7 DEF total

\* kept are the first max elements of s whose index is wanted, in their order.
KeepsFirst(kept, s, wanted, max) ==
    /\ kept \in Seq(Decoded)
    /\ Len(kept) = Least(Cardinality(wanted), max)
    /\ \A i \in wanted : /\ Rank(wanted, i) \in Nat \ {0}
                         /\ Rank(wanted, i) <= Len(kept) => kept[Rank(wanted, i)] = s[i]
    /\ \A k \in 1..Len(kept) : \E i \in wanted : Rank(wanted, i) = k /\ kept[k] = s[i]

\* Whatever the analyzers want of a tensor, they keep the first ones of it.
THEOREM FirstWanted ==
  ASSUME NEW n \in Nat, NEW t \in Seq(Int), Len(t) = DNN_OUTPUT_TENSOR_SIZE(n),
         NEW wanted \in SUBSET (1..createDetectionData(t, n).num_of_detections),
         NEW max \in Nat
  PROVE  LET out == createDetectionData(t, n)
         IN  KeepsFirst(Truncated(Pushed(out.detections, out.num_of_detections, wanted), max),
                        out.detections, wanted, max)
<1>. DEFINE out == createDetectionData(t, n)
            kept == Truncated(Pushed(out.detections, out.num_of_detections, wanted), max)
<1>0. out = createDetectionData(t, n) /\ wanted \in SUBSET (1..out.num_of_detections)
  OBVIOUS
<1>. HIDE DEF out
<1>. DEFINE m == out.num_of_detections
            s == Pushed(out.detections, m, wanted)
            c == Cardinality(wanted)
<1>1. m \in Nat /\ \A i \in wanted : out.detections[i] \in Decoded
  <2>1. uint8(n) \in 0..n /\ m \in 0..uint8(n)
        /\ \A i \in 1..uint8(n) : out.detections[i] \in Decoded
    BY <1>0, DecodedIs
  <2>. HIDE DEF m
  <2>2. \A i \in 1..m : i \in 1..uint8(n)
    BY <2>1
  <2>3. \A i \in wanted : i \in 1..m
    BY <1>0 DEF m
  <2>. QED
    BY <2>1, <2>2, <2>3
<1>2. IsFiniteSet(wanted) /\ c \in Nat
  BY <1>0, <1>1, Ranks
<1>3. /\ s \in Seq(Decoded) /\ Len(s) = c
      /\ \A i \in wanted : Rank(wanted, i) \in 1..c /\ s[Rank(wanted, i)] = out.detections[i]
      /\ \A k \in 1..c : \E i \in wanted : Rank(wanted, i) = k
  <2>. DEFINE d == out.detections
  <2>1. wanted \in SUBSET (1..m) /\ \A i \in wanted : d[i] \in Decoded
    BY <1>0, <1>1
  <2>2. m \in Nat
    BY <1>1
  <2>. HIDE DEF m, d
  <2>3. /\ Pushed(d, m, wanted) \in Seq(Decoded)
        /\ Len(Pushed(d, m, wanted)) = Cardinality(wanted)
        /\ \A i \in wanted : /\ Rank(wanted, i) \in 1..Cardinality(wanted)
                              /\ Pushed(d, m, wanted)[Rank(wanted, i)] = d[i]
        /\ \A k \in 1..Cardinality(wanted) : \E i \in wanted : Rank(wanted, i) = k
    BY <2>1, <2>2, PushedIs
  <2>. QED
    BY <2>3 DEF d
<1>. HIDE DEF c
<1>4. /\ kept \in Seq(Decoded) /\ Len(kept) = Least(c, max)
      /\ \A k \in 1..Len(kept) : k \in 1..c /\ kept[k] = s[k]
  <2>1. kept = Truncated(s, max)
    OBVIOUS
  <2>. HIDE DEF s
  <2>2. s \in Seq(Decoded)
    BY <1>3
  <2>3. /\ Truncated(s, max) \in Seq(Decoded) /\ Len(Truncated(s, max)) = Least(Len(s), max)
        /\ \A k \in 1..Least(Len(s), max) : k \in 1..Len(s) /\ Truncated(s, max)[k] = s[k]
    BY <2>2, TruncatedIs
  <2>. QED
    BY <1>3, <2>1, <2>3
<1>. HIDE DEF s
<1>5. ASSUME NEW i \in wanted, Rank(wanted, i) <= Len(kept)
      PROVE  kept[Rank(wanted, i)] = out.detections[i]
  <2>1. Rank(wanted, i) \in 1..Len(kept)
    BY <1>2, <1>3, <1>4, <1>5
  <2>. QED
    BY <1>3, <1>4, <2>1
<1>6. ASSUME NEW k \in 1..Len(kept)
      PROVE  \E i \in wanted : Rank(wanted, i) = k /\ kept[k] = out.detections[i]
  BY <1>3, <1>4
<1>. HIDE DEF kept
<1>7. KeepsFirst(kept, out.detections, wanted, max)
  BY <1>3, <1>4, <1>5, <1>6 DEF KeepsFirst, c
<1>. QED
  BY <1>7 DEF kept, out

-----------------------------------------------------------------------------
(* The first best of what is kept.                                         *)

IsFirstBest(s, i) ==
    \A j \in DOMAIN s : s[j].score <= s[i].score /\ (j < i => s[j].score < s[i].score)

\* The search finds the one element that no other beats or precedes.
LEMMA FirstBest ==
  ASSUME NEW s, NEW n \in Nat \ {0}, DOMAIN s = 1..n, \A i \in 1..n : s[i].score \in Int
  PROVE  /\ HighestScoreIndex(s) \in 1..n /\ IsFirstBest(s, HighestScoreIndex(s))
         /\ \A i \in 1..n : IsFirstBest(s, i) => i = HighestScoreIndex(s)
<1>. DEFINE t == [i \in 1..n |-> s[i].score]
<1>1. t \in Seq(Int) /\ Len(t) = n /\ DOMAIN t = 1..n /\ 1 \in 1..n
      /\ \A i \in 1..n : t[i] = s[i].score /\ t[i] \in Int
  OBVIOUS
<1>. HIDE DEF t
<1>2. \E i \in 1..n : IsFirstBest(s, i)
  <2>1. Sorted(t, 1) \in 1..n
    BY <1>1, SortedIs
  <2>2. ASSUME NEW j \in 1..n
        PROVE  j = Sorted(t, 1) \/ Before(t, Sorted(t, 1), j)
    <3>1. Place(t, j) \in 1..n /\ Sorted(t, Place(t, j)) = j
      BY <1>1, SortedIs
    <3>2. Place(t, j) = 1 \/ 1 < Place(t, j)
      BY <3>1
    <3>. QED
      BY <1>1, <3>1, <3>2, SortedIs
  <2>. HIDE DEF IsFirstBest
  <2>3. \A j \in 1..n : t[j] <= t[Sorted(t, 1)] /\ (j < Sorted(t, 1) => t[j] < t[Sorted(t, 1)])
    BY <1>1, <2>1, <2>2 DEF Before
  <2>4. IsFirstBest(s, Sorted(t, 1))
    BY <1>1, <2>1, <2>3 DEF IsFirstBest
  <2>. QED
    BY <2>1, <2>4
<1>3. HighestScoreIndex(s) = CHOOSE i \in 1..n : IsFirstBest(s, i)
  BY DEF HighestScoreIndex, IsFirstBest
<1>4. \A i, j \in 1..n : IsFirstBest(s, i) /\ IsFirstBest(s, j) => i = j
  <2>1. ASSUME NEW i \in 1..n, NEW j \in 1..n, IsFirstBest(s, i), IsFirstBest(s, j)
        PROVE  i = j
    <3>1. s[i].score <= s[j].score /\ s[j].score <= s[i].score
          /\ (i < j => s[i].score < s[j].score) /\ (j < i => s[j].score < s[i].score)
      BY <2>1 DEF IsFirstBest
    <3>. QED
      BY <3>1
  <2>. QED
    BY <2>1
<1>. QED
  BY <1>2, <1>3, <1>4

-----------------------------------------------------------------------------
(* Scores that fall from each detection to the next.                       *)

LEMMA FallingScores ==
  ASSUME NEW n \in Nat, NEW f, \A i \in 1..n : f[i] \in Int,
         \A i \in 1..n - 1 : f[i] >= f[i + 1]
  PROVE  \A i, j \in 1..n : i <= j => f[i] >= f[j]
<1>. DEFINE Bad == {j \in 1..n : \E i \in 1..n : i <= j /\ ~(f[i] >= f[j])}
<1>1. Bad = {}
  <2>1. SUFFICES ASSUME Bad # {} PROVE FALSE
    OBVIOUS
  <2>0. IsWellFoundedOn(OpToRel(<, Nat), Nat)
    BY NatLessThanWellFounded
  <2>2. Bad \subseteq Nat
    OBVIOUS
  <2>3. PICK j \in Bad : \A k \in Bad : <<k, j>> \notin OpToRel(<, Nat)
    BY <2>0, <2>1, <2>2, WFMin
  <2>4. PICK i \in 1..n : i <= j /\ ~(f[i] >= f[j])
    OBVIOUS
  <2>5. j \in 1..n /\ i # j
    BY <2>4
  <2>6. j - 1 \in 1..n - 1 /\ j - 1 \in 1..n /\ i <= j - 1
    BY <2>4, <2>5
  <2>7. <<j - 1, j>> \in OpToRel(<, Nat)
    BY <2>5, <2>6 DEF OpToRel
  <2>8. j - 1 \notin Bad
    BY <2>3, <2>7
  <2>9. f[i] >= f[j - 1] /\ f[j - 1] >= f[j]
    <3>1. f[j - 1] >= f[j - 1 + 1] /\ j - 1 + 1 = j
      BY <2>5, <2>6
    <3>. QED
      BY <2>4, <2>6, <2>8, <3>1
  <2>. QED
    BY <2>4, <2>5, <2>6, <2>9
<1>. QED
  BY <1>1

-----------------------------------------------------------------------------
(* The scaling.                                                            *)

\* What is added after two divisions is no more than what one division gives.
LEMMA DivAdds ==
  ASSUME NEW a \in Int, NEW b \in Int, NEW w \in Nat \ {0}
  PROVE  (a \div w) + (b \div w) <= (a + b) \div w
OBVIOUS

LEMMA DivBelow ==
  ASSUME NEW a \in Int, NEW w \in Nat \ {0}, NEW m \in Int, a <= m * w
  PROVE  a \div w <= m
OBVIOUS

LEMMA PixelType ==
  ASSUME NEW k \in Int, NEW size \in Nat
  PROVE  Pixel(k, size) \in Int
<1>. DEFINE a == 2 * k * (size - 1) + Unit
            b == 2 * Unit
<1>1. a \in Int /\ b \in Nat \ {0}
  BY DetectionsAssumption
<1>. HIDE DEF a, b
<1>2. a \div b \in Int
  BY <1>1
<1>. QED
  BY <1>2 DEF Pixel, a, b

\* A coordinate of at most 1 is a pixel of the picture.
LEMMA PixelInside ==
  ASSUME NEW k \in Int, k <= Unit, NEW size \in Nat \ {0}
  PROVE  Pixel(k, size) \in Int /\ Pixel(k, size) <= size - 1
<1>. DEFINE u == Unit
<1>1. u \in Nat \ {0}
  BY DetectionsAssumption
<1>. HIDE DEF u
<1>2. k * (size - 1) <= u * (size - 1)
  BY <1>1 DEF u
<1>. QED
  BY <1>1, <1>2 DEF Pixel, u

\* A side from lo to hi, scaled from a tensor of size w to a picture of size m, ends
\* inside of the picture.
LEMMA ScaledInside ==
  ASSUME NEW lo \in Int, NEW hi \in Int, NEW w \in Nat \ {0}, hi <= w, NEW m \in Nat
  PROVE  ((lo * m) \div w) + (((hi - lo) * m) \div w) <= m
<1>1. lo * m \in Int /\ (hi - lo) * m \in Int /\ hi * m \in Int
  OBVIOUS
<1>2. lo * m + (hi - lo) * m = hi * m
  OBVIOUS
<1>3. hi * m <= m * w
  OBVIOUS
<1>. DEFINE a == lo * m
            b == (hi - lo) * m
<1>4. (a \div w) + (b \div w) <= (a + b) \div w
  BY <1>1, DivAdds
<1>5. (a + b) \div w <= m
  BY <1>1, <1>2, <1>3, DivBelow
<1>6. a \div w \in Int /\ b \div w \in Int /\ (a + b) \div w \in Int
  BY <1>1
<1>. HIDE DEF a, b
<1>7. (a \div w) + (b \div w) <= m
  BY <1>4, <1>5, <1>6
<1>. QED
  BY <1>7 DEF a, b

-----------------------------------------------------------------------------
(* The result of the switching application.                                *)

\* What the loop of AnalyzerOd wants.
Birds(out, p) ==
    {i \in 1..out.num_of_detections :
        IsBird(out.detections[i]) /\ out.detections[i].score >= p.threshold_}

LEMMA KeptAre ==
  ASSUME NEW n \in Nat, NEW t \in Seq(Int), Len(t) = DNN_OUTPUT_TENSOR_SIZE(n),
         NEW p, p.max_detections_ \in Nat
  PROVE  LET out == createDetectionData(t, n)
         IN  KeepsFirst(KeptDetections(out, p), out.detections, Birds(out, p), p.max_detections_)
<1>. DEFINE out == createDetectionData(t, n)
            max == p.max_detections_
            birds == Birds(out, p)
<1>1. birds \in SUBSET (1..out.num_of_detections)
  BY DEF Birds
<1>2. max \in Nat
  OBVIOUS
<1>3. KeptDetections(out, p) = Truncated(Pushed(out.detections, out.num_of_detections, birds), max)
  BY DEF KeptDetections, Birds
<1>. HIDE DEF birds, max
<1>4. KeepsFirst(Truncated(Pushed(out.detections, out.num_of_detections, birds), max),
                 out.detections, birds, max)
  BY <1>1, <1>2, FirstWanted, Zenon
<1>. HIDE DEF out
<1>. QED
  BY <1>3, <1>4, Zenon DEF birds, max, out

\* Each element of the result is the one that was kept, and the first best is marked.
ResultOf(data, kept, p) ==
    /\ DOMAIN data = 1..Len(kept)
    /\ \A k \in 1..Len(kept) :
         /\ data[k].rect = Rect(kept[k], p.input_width_, p.input_height_)
         /\ data[k].score = kept[k].score
         /\ data[k].class = uint8(kept[k].class)
         /\ data[k].is_used_for_cropping = (k = HighestScoreIndex(kept))

LEMMA ResultIs ==
  ASSUME NEW out, NEW p, KeptDetections(out, p) \in Seq(Decoded)
  PROVE  ResultOf(analyzeDetectionOutput(out, p), KeptDetections(out, p), p)
<1>. DEFINE kept == KeptDetections(out, p)
            best == HighestScoreIndex(kept)
            data == [i \in 1..Len(kept) |->
                       [rect |-> Rect(kept[i], p.input_width_, p.input_height_),
                        score |-> kept[i].score,
                        class |-> uint8(kept[i].class),
                        is_used_for_cropping |-> i = best]]
<1>1. DOMAIN kept = 1..Len(kept)
  OBVIOUS
<1>2. analyzeDetectionOutput(out, p) = data
  BY <1>1 DEF analyzeDetectionOutput
<1>. HIDE DEF kept, best
<1>3. ASSUME NEW k \in 1..Len(kept)
      PROVE  /\ data[k].rect = Rect(kept[k], p.input_width_, p.input_height_)
             /\ data[k].score = kept[k].score
             /\ data[k].class = uint8(kept[k].class)
             /\ data[k].is_used_for_cropping = (k = best)
  BY Zenon
<1>4. DOMAIN data = 1..Len(kept)
  OBVIOUS
<1>. HIDE DEF data
<1>. QED
  BY <1>2, <1>3, <1>4, Zenon DEF ResultOf, kept, best

\* The message says the same of each element.
LEMMA MessageIs ==
  ASSUME NEW data, NEW k \in DOMAIN data
  PROVE  LET output == createSSDOutputFlatbuffer(data)
         IN  /\ DOMAIN output = DOMAIN data
             /\ output[k] = GeneralObject(data[k].class, data[k].rect, data[k].score,
                                          data[k].is_used_for_cropping)
             /\ output[k].score = data[k].score
             /\ output[k].is_used_for_cropping = data[k].is_used_for_cropping
BY Zenon DEF createSSDOutputFlatbuffer, GeneralObject

\* The first best of what is kept.
LEMMA BestIs ==
  ASSUME NEW kept \in Seq(Decoded), kept # <<>>
  PROVE  /\ Len(kept) \in Nat \ {0}
         /\ HighestScoreIndex(kept) \in 1..Len(kept)
         /\ \A k \in 1..Len(kept) :
              /\ kept[k].score \in Int
              /\ \/ kept[k].score < kept[HighestScoreIndex(kept)].score
                 \/ /\ kept[k].score = kept[HighestScoreIndex(kept)].score
                    /\ HighestScoreIndex(kept) <= k
<1>. DEFINE best == HighestScoreIndex(kept)
<1>1. Len(kept) \in Nat \ {0} /\ DOMAIN kept = 1..Len(kept)
  OBVIOUS
<1>2. \A k \in 1..Len(kept) : kept[k].score \in Int
  <2>1. \A k \in 1..Len(kept) : kept[k] \in Decoded
    OBVIOUS
  <2>2. \A d \in Decoded : d.score \in Int
    BY DEF Decoded
  <2>. QED
    BY <2>1, <2>2
<1>3. best \in 1..Len(kept) /\ IsFirstBest(kept, best)
  BY <1>1, <1>2, FirstBest
<1>. HIDE DEF best
<1>4. ASSUME NEW k \in 1..Len(kept)
      PROVE  \/ kept[k].score < kept[best].score
             \/ kept[k].score = kept[best].score /\ best <= k
  <2>1. kept[k].score <= kept[best].score /\ (k < best => kept[k].score < kept[best].score)
    BY <1>1, <1>3 DEF IsFirstBest
  <2>2. kept[k].score \in Int /\ kept[best].score \in Int
    BY <1>2, <1>3
  <2>. QED
    BY <1>1, <1>3, <2>1, <2>2
<1>. QED
  BY <1>1, <1>2, <1>3, <1>4 DEF best

\* Exactly one detection of a message is marked, the first of those with the highest
\* score, and it is its box that the next crop is made from.
MarksBest(output, data, kept, p) ==
    LET best == HighestScoreIndex(kept)
        marked == {k \in DOMAIN output : output[k].is_used_for_cropping}
    IN  /\ DOMAIN output = 1..Len(kept)
        /\ \A k \in 1..Len(kept) : output[k].score = kept[k].score
        /\ marked = {best} /\ Cardinality(marked) = 1
        /\ \A k \in DOMAIN output :
             \/ output[k].score < output[best].score
             \/ output[k].score = output[best].score /\ best <= k
        /\ (CHOOSE d \in {data[i] : i \in DOMAIN data} : d.is_used_for_cropping).rect
             = Rect(kept[best], p.input_width_, p.input_height_)

\* Whatever the loop of AnalyzerOd keeps, unless it is nothing, one detection is marked.
THEOREM OneMarked ==
  ASSUME NEW kept \in Seq(Decoded), kept # <<>>, NEW p, NEW data, ResultOf(data, kept, p),
         NEW output, output = createSSDOutputFlatbuffer(data)
  PROVE  MarksBest(output, data, kept, p)
<1>. DEFINE best == HighestScoreIndex(kept)
            marked == {k \in DOMAIN output : output[k].is_used_for_cropping}
<1>1. DOMAIN data = 1..Len(kept)
  BY DEF ResultOf
<1>2. /\ DOMAIN output = 1..Len(kept)
      /\ \A k \in 1..Len(kept) : output[k].is_used_for_cropping = data[k].is_used_for_cropping
      /\ \A k \in 1..Len(kept) : output[k].score = data[k].score
  <2>1. DOMAIN output = DOMAIN data
    BY DEF createSSDOutputFlatbuffer
  <2>. QED
    BY <1>1, <2>1, MessageIs, Zenon
<1>3. best \in 1..Len(kept)
  BY BestIs
<1>4. \A k \in 1..Len(kept) : data[k].is_used_for_cropping = (k = best)
  BY Zenon DEF ResultOf
<1>5. \A k \in 1..Len(kept) : output[k].score = kept[k].score
  BY <1>2 DEF ResultOf
<1>6. marked = {best}
  <2>1. \A k \in 1..Len(kept) : output[k].is_used_for_cropping <=> k = best
    BY <1>2, <1>4, Zenon
  <2>. HIDE DEF best
  <2>. QED
    BY <1>2, <1>3, <2>1, Zenon
<1>7. Cardinality({best}) = 1
  BY FS_Singleton
<1>8. ASSUME NEW k \in DOMAIN output
      PROVE  \/ output[k].score < output[best].score
             \/ output[k].score = output[best].score /\ best <= k
  BY <1>2, <1>3, <1>5, BestIs
<1>9. (CHOOSE d \in {data[i] : i \in DOMAIN data} : d.is_used_for_cropping).rect
        = Rect(kept[best], p.input_width_, p.input_height_)
  <2>. DEFINE D == {data[i] : i \in DOMAIN data}
              chosen == CHOOSE d \in D : d.is_used_for_cropping
  <2>. HIDE DEF best
  <2>1. data[best] \in D /\ data[best].is_used_for_cropping
    BY <1>1, <1>3, <1>4, Zenon
  <2>2. chosen \in D /\ chosen.is_used_for_cropping
    <3>. HIDE DEF D
    <3>. QED
      BY <2>1, Zenon
  <2>. HIDE DEF chosen
  <2>3. PICK i \in 1..Len(kept) : chosen = data[i]
    BY <1>1, <2>2, Zenon
  <2>4. i = best
    BY <1>4, <2>2, <2>3, Zenon
  <2>5. data[best].rect = Rect(kept[best], p.input_width_, p.input_height_)
    BY <1>3, Zenon DEF ResultOf
  <2>. QED
    BY <2>3, <2>4, <2>5, Zenon DEF chosen
<1>. HIDE DEF best, marked
<1>10. Cardinality(marked) = 1
  BY <1>6, <1>7, Zenon
<1>. QED
  BY <1>2, <1>5, <1>6, <1>8, <1>9, <1>10, Zenon DEF MarksBest, best, marked

\* When the scores of the tensor fall from each detection to the next, the best of what
\* is kept is as good as any bird of the tensor.
LEMMA BestOfAll ==
  ASSUME NEW n \in Nat, n < Byte, NEW t \in Seq(Int), Len(t) = DNN_OUTPUT_TENSOR_SIZE(n),
         \A i \in 1..n - 1 : t[5*n + i] >= t[5*n + i + 1],
         NEW out, out = createDetectionData(t, n),
         NEW p, NEW max, NEW kept, kept # <<>>,
         KeepsFirst(kept, out.detections, Birds(out, p), max),
         NEW i \in Birds(out, p)
  PROVE  kept[HighestScoreIndex(kept)].score >= t[5*n + i]
<1>. DEFINE num == out.num_of_detections
            birds == Birds(out, p)
<1>1. uint8(n) = n
  <2>1. n \in 0..Byte - 1
    BY DetectionsAssumption
  <2>. QED
    BY <2>1, Uint8Is
<1>2. /\ num \in 0..n
      /\ \A j \in 1..n : out.detections[j].score = t[5*n + j]
  <2>1. /\ num \in 0..uint8(n)
        /\ \A j \in 1..uint8(n) : LET total == uint8(n) IN
             out.detections[j] = Detection(t[j], t[total + j], t[2*total + j],
                                           t[3*total + j], t[4*total + j], t[5*total + j])
    BY DecodedIs
  <2>2. ASSUME NEW j \in 1..n PROVE out.detections[j].score = t[5*n + j]
    <3>1. out.detections[j] = Detection(t[j], t[n + j], t[2*n + j],
                                        t[3*n + j], t[4*n + j], t[5*n + j])
      BY <1>1, <2>1
    <3>. QED
      BY ONLY <3>1 DEF Detection
  <2>. HIDE DEF num
  <2>. QED
    BY <1>1, <2>1, <2>2
<1>3. num \in Nat /\ birds \in SUBSET (1..num) /\ birds \in SUBSET (1..n)
  <2>1. birds \in SUBSET (1..num)
    BY DEF Birds
  <2>. HIDE DEF num, birds
  <2>. QED
    BY <1>2, <2>1
<1>. HIDE DEF num, birds
<1>4. /\ kept \in Seq(Decoded) /\ Len(kept) \in Nat \ {0}
      /\ \E j \in birds : Rank(birds, j) = 1 /\ kept[1] = out.detections[j]
  <2>1. kept \in Seq(Decoded)
    BY DEF KeepsFirst
  <2>2. 1 \in 1..Len(kept) /\ Len(kept) \in Nat \ {0}
    BY <2>1, BestIs
  <2>. QED
    BY <2>1, <2>2 DEF KeepsFirst, birds
<1>5. PICK j \in birds : Rank(birds, j) = 1 /\ kept[1] = out.detections[j]
  BY <1>4
<1>6. i \in birds /\ i \in 1..n /\ j \in 1..n
  BY <1>3 DEF birds
<1>7. j <= i
  <2>1. i < j => Rank(birds, i) < Rank(birds, j)
    BY <1>3, <1>6, Ranks
  <2>2. Rank(birds, i) \in Nat \ {0}
    BY DEF KeepsFirst, birds
  <2>. QED
    BY <1>5, <1>6, <2>1, <2>2
<1>8. t[5*n + j] >= t[5*n + i] /\ t[5*n + i] \in Int
  <2>. DEFINE f == [k \in 1..n |-> t[5*n + k]]
  <2>1. \A k \in 1..n : f[k] = t[5*n + k] /\ f[k] \in Int
    <3>1. \A k \in 1..n : 5*n + k \in 1..Len(t)
      BY DEF DNN_OUTPUT_TENSOR_SIZE
    <3>. QED
      BY <3>1
  <2>2. \A k \in 1..n - 1 : f[k] >= f[k + 1]
    <3>1. ASSUME NEW k \in 1..n - 1 PROVE f[k] >= f[k + 1]
      <4>1. k \in 1..n /\ k + 1 \in 1..n /\ 5*n + (k + 1) = 5*n + k + 1
        OBVIOUS
      <4>2. f[k] = t[5*n + k] /\ f[k + 1] = t[5*n + k + 1]
        BY <2>1, <4>1
      <4>. QED
        BY <4>2
    <3>. QED
      BY <3>1
  <2>. HIDE DEF f
  <2>3. \A k, l \in 1..n : k <= l => f[k] >= f[l]
    BY <2>1, <2>2, FallingScores
  <2>. QED
    BY <1>6, <1>7, <2>1, <2>3
<1>9. kept[1].score = t[5*n + j]
  BY <1>2, <1>5, <1>6
<1>10. /\ kept[1].score \in Int /\ kept[HighestScoreIndex(kept)].score \in Int
       /\ kept[HighestScoreIndex(kept)].score >= kept[1].score
  <2>1. 1 \in 1..Len(kept) /\ HighestScoreIndex(kept) \in 1..Len(kept)
    BY <1>4, BestIs
  <2>. QED
    BY <1>4, <2>1, BestIs
<1>. QED
  BY <1>8, <1>9, <1>10
=============================================================================
