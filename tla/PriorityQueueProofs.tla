------------------------- MODULE PriorityQueueProofs -------------------------
(* Proofs about PriorityQueue, for every set of keys and size: the vector      *)
(* never loses or doubles an item, and a queue that is small whenever an item  *)
(* is removed from its middle keeps the item of top priority first.            *)
EXTENDS PriorityQueue, WellFoundedInduction, TLAPS

(* Where the calls and loops may be.                                           *)
Placed ==
    /\ loop = "none" => ~removing /\ first = 0 /\ index = 0
    /\ loop = "up"   => ~removing /\ first = 0 /\ index < size
    /\ loop = "down" => /\ size > 0 /\ first + index <= size - 1
                        /\ removing => first < size - 1
                        /\ ~removing => first = 0
                        /\ first > 0 => cut >= size

(* The elements of the queue are those before the one that is going.           *)
Count == IF loop = "down" THEN size - 1 ELSE size

Held ==
    /\ contents = {vec[i] : i \in 0 .. Count - 1}
    /\ \A i, j \in 0 .. size - 1 : vec[i] = vec[j] => i = j

(* The heap property of the first n elements; the same but for one element     *)
(* that may exceed its parent; and but for one whose children may exceed it.   *)
Ordered(a, n) == \A i \in 1 .. n - 1 : a[i] <= a[Parent(i)]

Rising(a, n, k) ==
    \A i \in 1 .. n - 1 : /\ i # k => a[i] <= a[Parent(i)]
                          /\ Parent(i) = k /\ k > 0 => a[i] <= a[Parent(k)]

Sinking(a, n, k) ==
    \A i \in 1 .. n - 1 : /\ Parent(i) # k => a[i] <= a[Parent(i)]
                          /\ Parent(i) = k /\ k > 0 => a[i] <= a[Parent(k)]

(* After an element p of the middle of at most five changed places with the    *)
(* last: what pop_heap of the range from p has before its first turn.          *)
Gapped(a, n, p) ==
    /\ \A i \in 1 .. n - 1 : a[i] <= a[0]
    /\ n = 4 /\ p \in {2, 3} => a[p] <= a[1] /\ a[3] <= a[1]

HeapOrder ==
    /\ loop = "none" => Ordered(vec, size)
    /\ loop = "up"   => Rising(vec, size, index)
    /\ loop = "down" /\ first = 0 => Sinking(vec, size - 1, index)
    /\ loop = "down" /\ first > 0 => /\ index = 0 => Gapped(vec, size - 1, first)
                                     /\ index > 0 => Ordered(vec, size - 1)

IInv == TypeOK /\ Placed /\ Held /\ (cut < 6 => HeapOrder)

------------------------------------------------------------------------------
LEMMA LeastOf ==
    ASSUME NEW T \in SUBSET Nat, T # {}
    PROVE  \E x \in T : \A y \in T : x <= y
<1> DEFINE R == {ss \in Nat \X Nat : ss[1] < ss[2]}
<1>1. IsWellFoundedOn(R, Nat)
  BY NatLessThanWellFounded DEF OpToRel
<1>2. PICK x \in T : \A y \in T : ~ (<<y, x>> \in R)
  BY <1>1, WFMin, Zenon
<1>3. ASSUME NEW y \in T PROVE x <= y
  <2>1. x \in Nat /\ y \in Nat
    OBVIOUS
  <2>2. <<y, x>> \notin R
    BY <1>2
  <2>3. ~(y < x)
    BY <2>1, <2>2
  <2> QED BY <2>1, <2>3
<1>4. QED BY <1>3

(* In a heap no element exceeds the first: the least index of one that did     *)
(* would have a parent that does.                                              *)
LEMMA TopOfHeap ==
    ASSUME NEW n \in Nat, NEW a \in [0 .. n - 1 -> Nat], Ordered(a, n)
    PROVE  \A i \in 0 .. n - 1 : a[i] <= a[0]
<1> DEFINE T == {i \in 0 .. n - 1 : a[i] > a[0]}
<1>1. SUFFICES ASSUME T # {} PROVE FALSE
  OBVIOUS
<1>2. T \in SUBSET Nat
  OBVIOUS
<1>3. PICK x \in T : \A y \in T : x <= y
  BY <1>1, <1>2, LeastOf
<1>4. x \in 1 .. n - 1 /\ x \in Nat \ {0}
  BY <1>3
<1>5. Parent(x) \in 0 .. n - 1 /\ Parent(x) < x
  BY <1>4 DEF Parent
<1>6. a[x] <= a[Parent(x)]
  BY <1>4 DEF Ordered
<1>7. a[Parent(x)] > a[0]
  BY <1>3, <1>4, <1>5, <1>6
<1>8. Parent(x) \in T
  BY <1>5, <1>7
<1>9. QED BY <1>3, <1>5, <1>8

(* A swap keeps the type, the set of the elements and that they differ.        *)
LEMMA SwapKeeps ==
    ASSUME NEW D, NEW K, NEW a \in [D -> K], NEW i \in D, NEW j \in D
    PROVE  /\ Swap(a, i, j) \in [D -> K]
           /\ Swap(a, i, j)[i] = a[j] /\ Swap(a, i, j)[j] = a[i]
           /\ \A x \in D \ {i, j} : Swap(a, i, j)[x] = a[x]
BY DEF Swap

LEMMA SameImage ==
    ASSUME NEW S, NEW a, NEW b,
           \A x \in S : \E y \in S : b[x] = a[y],
           \A x \in S : \E y \in S : a[x] = b[y]
    PROVE  {b[x] : x \in S} = {a[x] : x \in S}
OBVIOUS

------------------------------------------------------------------------------
(* What a turn of a loop, or what starts it, does to the order of the heap.    *)

(* An element that rises over its parent.                                      *)
LEMMA RisesOn ==
    ASSUME NEW n \in Nat, NEW a \in [0 .. n - 1 -> Nat], NEW k \in 1 .. n - 1,
           Rising(a, n, k), a[Parent(k)] < a[k]
    PROVE  Rising(Swap(a, k, Parent(k)), n, Parent(k))
<1> DEFINE p == Parent(k)
           b == Swap(a, k, p)
<1>1. p \in 0 .. n - 1 /\ p < k /\ k \in 0 .. n - 1
  BY DEF Parent
<1>2. b[k] = a[p] /\ b[p] = a[k] /\ \A x \in (0 .. n - 1) \ {k, p} : b[x] = a[x]
  BY <1>1 DEF Swap
<1>3. \A i \in 1 .. n - 1 : Parent(i) \in 0 .. n - 1 /\ Parent(i) < i
  BY DEF Parent
<1>4. ASSUME NEW i \in 1 .. n - 1, i # p
      PROVE  b[i] <= b[Parent(i)]
  <2>1. CASE i = k
    BY <1>1, <1>2, <2>1
  <2>2. CASE i # k /\ Parent(i) = k
    <3>1. a[i] <= a[p]
      BY <2>2, <1>1 DEF Rising
    <3> QED BY <3>1, <2>2, <1>1, <1>2, <1>3, <1>4
  <2>3. CASE i # k /\ Parent(i) = p
    <3>1. a[i] <= a[p]
      BY <2>3 DEF Rising
    <3>2. a[i] \in Nat /\ a[p] \in Nat /\ a[k] \in Nat
      BY <1>1
    <3> QED BY <3>1, <3>2, <2>3, <1>1, <1>2, <1>4
  <2>4. CASE i # k /\ Parent(i) # p /\ Parent(i) # k
    <3>1. a[i] <= a[Parent(i)]
      BY <2>4 DEF Rising
    <3> QED BY <3>1, <2>4, <1>1, <1>2, <1>3, <1>4
  <2> QED BY <2>1, <2>2, <2>3, <2>4
<1>5. ASSUME NEW i \in 1 .. n - 1, Parent(i) = p, p > 0
      PROVE  b[i] <= b[Parent(p)]
  <2>1. Parent(p) \in 0 .. n - 1 /\ Parent(p) < p /\ p \in 1 .. n - 1
    BY <1>1, <1>5 DEF Parent
  <2>2. a[p] <= a[Parent(p)] /\ b[Parent(p)] = a[Parent(p)]
    BY <2>1, <1>1, <1>2 DEF Rising
  <2>3. CASE i = k
    BY <2>2, <2>3, <1>2
  <2>4. CASE i # k
    <3>1. a[i] <= a[p] /\ b[i] = a[i]
      BY <2>4, <1>5, <1>2, <1>3 DEF Rising
    <3>2. a[i] \in Nat /\ a[p] \in Nat /\ a[Parent(p)] \in Nat
      BY <1>1, <2>1
    <3> QED BY <3>1, <3>2, <2>2
  <2> QED BY <2>3, <2>4
<1> HIDE DEF b, p
<1>6. Rising(b, n, p)
  BY <1>4, <1>5 DEF Rising
<1> QED BY <1>6 DEF b, p

LEMMA RisenIsOrdered ==
    ASSUME NEW n \in Nat, NEW a \in [0 .. n - 1 -> Nat], NEW k \in 0 .. n - 1,
           Rising(a, n, k), k > 0 => ~(a[Parent(k)] < a[k])
    PROVE  Ordered(a, n)
<1> SUFFICES ASSUME NEW i \in 1 .. n - 1 PROVE a[i] <= a[Parent(i)]
  BY DEF Ordered
<1>1. CASE i # k
  BY <1>1 DEF Rising
<1>2. CASE i = k
  <2>1. Parent(k) \in 0 .. n - 1
    BY <1>2 DEF Parent
  <2> QED BY <1>2, <2>1
<1> QED BY <1>1, <1>2

LEMMA OrderedRises ==
    ASSUME NEW n \in Nat, NEW a \in [0 .. n - 1 -> Nat], NEW k \in 0 .. n - 1,
           Ordered(a, n)
    PROVE  Rising(a, n, k)
<1> SUFFICES ASSUME NEW i \in 1 .. n - 1, Parent(i) = k, k > 0
             PROVE  a[i] <= a[Parent(k)]
  BY DEF Rising, Ordered
<1>1. Parent(k) \in 0 .. n - 1 /\ k \in 1 .. n - 1
  BY DEF Parent
<1>2. a[i] <= a[k] /\ a[k] <= a[Parent(k)]
  BY <1>1 DEF Ordered
<1> QED BY <1>1, <1>2

(* An element that sinks below the larger of its children.                     *)
LEMMA SinksOn ==
    ASSUME NEW n \in Nat, NEW a \in [0 .. n -> Nat], NEW k \in 0 .. n - 1,
           NEW c \in 1 .. n - 1, Parent(c) = k, k < c, a[k] < a[c],
           \A i \in 1 .. n - 1 : Parent(i) = k => a[i] <= a[c],
           Sinking(a, n, k)
    PROVE  Sinking(Swap(a, k, c), n, c)
<1> DEFINE b == Swap(a, k, c)
<1>1. b[k] = a[c] /\ b[c] = a[k] /\ \A x \in (0 .. n) \ {k, c} : b[x] = a[x]
  BY DEF Swap
<1>2. \A i \in 1 .. n - 1 : Parent(i) \in 0 .. n - 1 /\ Parent(i) < i
  BY DEF Parent
<1>3. ASSUME NEW i \in 1 .. n - 1, Parent(i) # c
      PROVE  b[i] <= b[Parent(i)]
  <2>1. CASE i = c
    BY <2>1, <1>1
  <2>2. CASE i # c /\ Parent(i) = k
    <3>1. i # k
      BY <2>2, <1>2
    <3> QED BY <3>1, <2>2, <1>1
  <2>3. CASE i = k
    <3>1. a[c] <= a[Parent(k)] /\ Parent(k) # k
      BY <2>3, <1>2 DEF Sinking
    <3>2. b[Parent(k)] = a[Parent(k)]
      BY <3>1, <2>3, <1>1, <1>2, <1>3
    <3> QED BY ONLY <3>1, <3>2, <2>3, <1>1
  <2>4. CASE i # c /\ i # k /\ Parent(i) # k
    <3>1. a[i] <= a[Parent(i)]
      BY <2>4 DEF Sinking
    <3>2. b[i] = a[i]
      BY <2>4, <1>1
    <3>3. b[Parent(i)] = a[Parent(i)]
      BY <2>4, <1>1, <1>2, <1>3
    <3> QED BY ONLY <3>1, <3>2, <3>3
  <2> QED BY <2>1, <2>2, <2>3, <2>4
<1>4. ASSUME NEW i \in 1 .. n - 1, Parent(i) = c
      PROVE  b[i] <= b[Parent(c)]
  <2>1. i # c /\ i # k /\ c # k
    BY <1>2, <1>4
  <2>2. a[i] <= a[c]
    BY <1>4, <2>1 DEF Sinking
  <2> QED BY <2>1, <2>2, <1>1
<1> HIDE DEF b
<1>5. Sinking(b, n, c)
  BY <1>3, <1>4 DEF Sinking
<1> QED BY <1>5 DEF b

LEMMA SunkIsOrdered ==
    ASSUME NEW n \in Nat, NEW a \in [0 .. n -> Nat], NEW k \in Nat,
           \A i \in 1 .. n - 1 : Parent(i) = k => a[i] <= a[k],
           Sinking(a, n, k)
    PROVE  Ordered(a, n)
BY DEF Sinking, Ordered

------------------------------------------------------------------------------
(* The invariant holds at first and through every step.                        *)
LEMMA InitIInv == Init => IInv
<1> SUFFICES ASSUME Init PROVE IInv
  OBVIOUS
<1>1. TypeOK
  <2>1. MaxSize \in Nat /\ size = 0 /\ size - 1 = -1
    BY SizeAssumption DEF Init, SizeAssumption
  <2>2. vec \in [0 .. size - 1 -> Key]
    BY <2>1 DEF Init
  <2>3. size \in 0 .. MaxSize /\ 0 \in 0 .. MaxSize
    BY <2>1
  <2>4. /\ loop \in {"none", "up", "down"} /\ removing \in BOOLEAN
        /\ {first, index} \subseteq (0 .. size - 1) \cup {0}
        /\ contents \subseteq Key /\ cut \in 0 .. MaxSize
    BY <2>3 DEF Init
  <2> QED BY <2>2, <2>3, <2>4 DEF TypeOK
<1>2. Placed /\ Held
  BY DEF Init, Placed, Held, Count
<1>3. HeapOrder
  BY DEF Init, HeapOrder, Ordered
<1> QED BY <1>1, <1>2, <1>3 DEF IInv

LEMMA VectorType ==
    ASSUME TypeOK
    PROVE  vec \in [0 .. size - 1 -> Nat] /\ size \in Nat
<1>1. vec \in [0 .. size - 1 -> Key] /\ size \in Nat
  BY SizeAssumption DEF TypeOK, SizeAssumption
<1>2. \A i \in 0 .. size - 1 : vec[i] \in Nat
  BY <1>1, KeyAssumption DEF KeyAssumption
<1> QED BY <1>1, <1>2

(* A swap of two of the first m elements keeps the set of these, and that no   *)
(* two are equal.                                                              *)
LEMMA SwapHolds ==
    ASSUME TypeOK, Held, NEW m \in 0 .. size,
           NEW i \in 0 .. m - 1, NEW j \in 0 .. m - 1, vec' = Swap(vec, i, j)
    PROVE  /\ {vec'[x] : x \in 0 .. m - 1} = {vec[x] : x \in 0 .. m - 1}
           /\ \A x, y \in 0 .. size - 1 : vec'[x] = vec'[y] => x = y
<1> DEFINE D == 0 .. size - 1
           S == 0 .. m - 1
<1>1. S \subseteq D /\ i \in S /\ j \in S
  BY VectorType
<1>2. vec'[i] = vec[j] /\ vec'[j] = vec[i] /\ \A x \in D \ {i, j} : vec'[x] = vec[x]
  BY <1>1, VectorType DEF Swap
<1>3. \A x, y \in D : vec[x] = vec[y] => x = y
  BY DEF Held
<1> HIDE DEF D, S
<1>4. \A x \in S : \E y \in S : vec'[x] = vec[y]
  BY <1>1, <1>2
<1>5. \A x \in S : \E y \in S : vec[x] = vec'[y]
  BY <1>1, <1>2
<1>6. \A x, y \in D : vec'[x] = vec'[y] => x = y
  BY <1>1, <1>2, <1>3
<1>7. {vec'[x] : x \in S} = {vec[x] : x \in S}
  BY <1>4, <1>5, SameImage
<1>8. QED BY <1>6, <1>7 DEF D, S

LEMMA PushIInv ==
    ASSUME IInv, NEW x \in Key, Push(x)
    PROVE  IInv'
<1> USE DEF IInv, Push, Idle
<1>1. vec \in [0 .. size - 1 -> Key] /\ size \in 0 .. MaxSize /\ MaxSize \in Nat
  BY SizeAssumption DEF TypeOK, SizeAssumption
<1>2. vec' \in [0 .. size -> Key] /\ size' = size + 1
  BY <1>1
<1>3. TypeOK'
  BY <1>1, <1>2 DEF TypeOK
<1>4. Placed'
  BY <1>1 DEF Placed
<1>5. Held'
  <2>1. contents = {vec[i] : i \in 0 .. size - 1} /\ Count' = size + 1
    BY <1>1, <1>2 DEF Held, Count
  <2>2. contents' = {vec'[i] : i \in 0 .. size}
    BY <1>1, <2>1
  <2>3. ASSUME NEW i \in 0 .. size, NEW j \in 0 .. size, vec'[i] = vec'[j] PROVE i = j
    <3>1. \A k \in 0 .. size - 1 : vec'[k] = vec[k] /\ vec[k] # x
      BY <1>1, <2>1
    <3>2. vec'[size] = x
      BY <1>1
    <3>3. \A k, l \in 0 .. size - 1 : vec[k] = vec[l] => k = l
      BY DEF Held
    <3>4. (i \in 0 .. size - 1 \/ i = size) /\ (j \in 0 .. size - 1 \/ j = size)
      BY <1>1
    <3> QED BY <2>3, <3>1, <3>2, <3>3, <3>4, Zenon
  <2>4. 0 .. size' - 1 = 0 .. size /\ 0 .. Count' - 1 = 0 .. size
    BY <1>1, <1>2, <2>1
  <2> QED BY <2>2, <2>3, <2>4 DEF Held
<1>6. ASSUME cut' < 6 PROVE HeapOrder'
  <2>1. Ordered(vec, size)
    BY <1>6 DEF HeapOrder
  <2>2. \A i \in 1 .. size : i # size => /\ vec'[i] = vec[i] /\ Parent(i) \in 0 .. size - 1
                                        /\ vec'[Parent(i)] = vec[Parent(i)]
    BY <1>1 DEF Parent
  <2>3. \A i \in 1 .. size : Parent(i) # size
    BY <1>1 DEF Parent
  <2>4. Rising(vec', size + 1, size)
    BY <1>1, <2>1, <2>2, <2>3 DEF Rising, Ordered
  <2> QED BY <1>1, <2>4 DEF HeapOrder
<1> QED BY <1>3, <1>4, <1>5, <1>6

LEMMA SiftUpIInv ==
    ASSUME IInv, SiftUp
    PROVE  IInv'
<1> USE DEF IInv
<1>1. /\ vec \in [0 .. size - 1 -> Nat] /\ vec \in [0 .. size - 1 -> Key]
      /\ size \in Nat /\ index \in 0 .. size - 1
      /\ size' = size /\ first' = first /\ removing' = removing /\ contents' = contents
      /\ cut' = cut /\ loop = "up"
  BY VectorType DEF SiftUp, TypeOK, Placed
<1>2. CASE index > 0 /\ vec[Parent(index)] < vec[index]
  <2> DEFINE p == Parent(index)
  <2>1. p \in 0 .. size - 1 /\ p < index
    BY <1>1, <1>2 DEF Parent
  <2>2. vec' = Swap(vec, index, p) /\ index' = p /\ loop' = "up"
    BY <1>1, <1>2 DEF SiftUp
  <2>3. vec' \in [0 .. size - 1 -> Key]
    BY <1>1, <2>1, <2>2 DEF Swap
  <2>4. TypeOK'
    BY <1>1, <2>1, <2>2, <2>3 DEF TypeOK
  <2>5. Placed'
    BY <1>1, <2>1, <2>2 DEF Placed
  <2>6. Held'
    <3>1. /\ {vec'[i] : i \in 0 .. size - 1} = {vec[i] : i \in 0 .. size - 1}
          /\ \A i, j \in 0 .. size - 1 : vec'[i] = vec'[j] => i = j
      <4>1. size \in 0 .. size
        BY <1>1
      <4> HIDE DEF p
      <4> QED BY <1>1, <2>1, <2>2, <4>1, SwapHolds
    <3>2. Count = size /\ Count' = size
      BY <1>1, <2>2 DEF Count
    <3> HIDE DEF p
    <3> QED BY <1>1, <3>1, <3>2 DEF Held
  <2>7. ASSUME cut' < 6 PROVE HeapOrder'
    <3>1. Rising(vec, size, index)
      BY <1>1, <2>7 DEF HeapOrder
    <3>2. Rising(Swap(vec, index, p), size, p)
      BY <1>1, <1>2, <3>1, RisesOn
    <3> QED BY <1>1, <2>2, <3>2 DEF HeapOrder
  <2> QED BY <2>4, <2>5, <2>6, <2>7
<1>3. CASE ~(index > 0 /\ vec[Parent(index)] < vec[index])
  <2>1. loop' = "none" /\ index' = 0 /\ vec' = vec
    BY <1>3, <1>1 DEF SiftUp
  <2>2. TypeOK' /\ Placed'
    BY <1>1, <2>1 DEF TypeOK, Placed
  <2>3. Held'
    BY <1>1, <2>1 DEF Held, Count
  <2>4. ASSUME cut' < 6 PROVE HeapOrder'
    <3>1. Rising(vec, size, index)
      BY <1>1, <2>4 DEF HeapOrder
    <3>2. Ordered(vec, size)
      BY <1>1, <1>3, <3>1, RisenIsOrdered
    <3> QED BY <1>1, <2>1, <3>2 DEF HeapOrder
  <2> QED BY <2>2, <2>3, <2>4
<1> QED BY <1>2, <1>3

(* pop_heap of the range from p: the element at p leaves the contents.         *)
LEMMA PopHeapHolds ==
    ASSUME IInv, Idle, NEW p \in 0 .. size - 1, PopHeap(p),
           size' = size, contents' = contents \ {vec[p]}
    PROVE  /\ vec' \in [0 .. size - 1 -> Key]
           /\ vec'[p] = vec[size - 1] /\ vec'[size - 1] = vec[p]
           /\ \A x \in 0 .. size - 1 : x # p /\ x # size - 1 => vec'[x] = vec[x]
           /\ Held'
<1> USE DEF IInv
<1>1. /\ vec \in [0 .. size - 1 -> Key] /\ size \in Nat /\ size - 1 \in 0 .. size - 1
      /\ vec' = Swap(vec, p, size - 1) /\ loop' = "down" /\ loop = "none"
  BY VectorType DEF TypeOK, PopHeap, Idle
<1>2. vec' \in [0 .. size - 1 -> Key]
  BY <1>1 DEF Swap
<1>3. /\ vec'[p] = vec[size - 1] /\ vec'[size - 1] = vec[p]
      /\ \A x \in 0 .. size - 1 : x # p /\ x # size - 1 => vec'[x] = vec[x]
  BY <1>1 DEF Swap
<1>4. /\ {vec'[x] : x \in 0 .. size - 1} = {vec[x] : x \in 0 .. size - 1}
      /\ \A x, y \in 0 .. size - 1 : vec'[x] = vec'[y] => x = y
  <2>1. size \in 0 .. size
    BY <1>1
  <2> QED BY <1>1, <2>1, SwapHolds
<1>5. contents = {vec'[x] : x \in 0 .. size - 1}
  BY <1>1, <1>4 DEF Held, Count
<1>6. contents' = {vec'[x] : x \in 0 .. size - 2}
  <2>1. \A x \in 0 .. size - 1 : x \in 0 .. size - 2 \/ x = size - 1
    BY <1>1
  <2>2. \A x \in 0 .. size - 2 : x \in 0 .. size - 1 /\ x # size - 1
    BY <1>1
  <2> QED BY <1>1, <1>3, <1>4, <1>5, <2>1, <2>2
<1>7. Count' - 1 = size - 2
  BY <1>1 DEF Count
<1> QED BY <1>2, <1>3, <1>4, <1>6, <1>7 DEF Held

LEMMA PopIInv ==
    ASSUME IInv, Pop
    PROVE  IInv'
<1> USE DEF IInv
<1>1. /\ size \in Nat /\ 0 \in 0 .. size - 1 /\ size > 0 /\ vec \in [0 .. size - 1 -> Nat]
      /\ Idle /\ PopHeap(0) /\ size' = size /\ contents' = contents \ {vec[0]}
      /\ loop' = "down" /\ first' = 0 /\ index' = 0 /\ ~removing' /\ cut' = cut
  BY VectorType DEF Pop, PopHeap
<1>2. /\ vec' \in [0 .. size - 1 -> Key] /\ Held'
      /\ \A x \in 0 .. size - 1 : x # 0 /\ x # size - 1 => vec'[x] = vec[x]
  BY <1>1, PopHeapHolds
<1>3. TypeOK'
  BY <1>1, <1>2 DEF TypeOK, Pop
<1>4. Placed'
  BY <1>1 DEF Placed
<1>5. ASSUME cut' < 6 PROVE HeapOrder'
  <2>1. Ordered(vec, size)
    BY <1>1, <1>5 DEF HeapOrder, Idle
  <2>2. ASSUME NEW i \in 1 .. size - 2, Parent(i) # 0 PROVE vec'[i] <= vec'[Parent(i)]
    <3>1. i \in 1 .. size - 1 /\ Parent(i) \in 1 .. size - 2 /\ i # size - 1
      BY <1>1, <2>2 DEF Parent
    <3>2. vec'[i] = vec[i] /\ vec'[Parent(i)] = vec[Parent(i)]
      BY <1>1, <1>2, <3>1
    <3>3. vec[i] <= vec[Parent(i)]
      BY <2>1, <3>1 DEF Ordered
    <3> QED BY <3>2, <3>3
  <2>3. Sinking(vec', size - 1, 0)
    BY <1>1, <2>2 DEF Sinking
  <2> QED BY <1>1, <2>3 DEF HeapOrder
<1> QED BY <1>2, <1>3, <1>4, <1>5

LEMMA RemoveIInv ==
    ASSUME IInv, NEW p \in Indices, Remove(p)
    PROVE  IInv'
<1> USE DEF IInv
<1>1. /\ size \in Nat /\ p \in 0 .. size - 2 /\ p \in 0 .. size - 1
      /\ vec \in [0 .. size - 1 -> Nat] /\ cut \in Nat /\ size <= MaxSize /\ MaxSize \in Nat
      /\ Idle /\ PopHeap(p) /\ size' = size /\ contents' = contents \ {vec[p]}
      /\ loop' = "down" /\ first' = p /\ index' = 0 /\ removing'
      /\ cut' = IF p > 0 /\ size > cut THEN size ELSE cut
  BY VectorType, SizeAssumption DEF Remove, PopHeap, Indices, SizeAssumption, TypeOK
<1>2. /\ vec' \in [0 .. size - 1 -> Key] /\ Held'
      /\ vec'[p] = vec[size - 1]
      /\ \A x \in 0 .. size - 1 : x # p /\ x # size - 1 => vec'[x] = vec[x]
  BY <1>1, PopHeapHolds
<1>3. TypeOK'
  BY <1>1, <1>2 DEF TypeOK, Remove
<1>4. Placed'
  BY <1>1 DEF Placed
<1>5. ASSUME cut' < 6 PROVE HeapOrder'
  <2>1. Ordered(vec, size) /\ (p > 0 => size <= 5)
    BY <1>1, <1>5 DEF HeapOrder, Idle
  <2>2. CASE p = 0
    <3>2. ASSUME NEW i \in 1 .. size - 2, Parent(i) # 0 PROVE vec'[i] <= vec'[Parent(i)]
      <4>1. i \in 1 .. size - 1 /\ Parent(i) \in 1 .. size - 2 /\ i # size - 1
        BY <1>1, <3>2 DEF Parent
      <4>2. vec'[i] = vec[i] /\ vec'[Parent(i)] = vec[Parent(i)]
        BY <1>1, <1>2, <2>2, <4>1
      <4>3. vec[i] <= vec[Parent(i)]
        BY <2>1, <4>1 DEF Ordered
      <4> QED BY <4>2, <4>3
    <3>3. Sinking(vec', size - 1, 0)
      BY <1>1, <3>2 DEF Sinking
    <3> QED BY <1>1, <2>2, <3>3 DEF HeapOrder
  <2>3. CASE p > 0
    <3>1. \A i \in 0 .. size - 1 : vec[i] <= vec[0]
      BY <1>1, <2>1, TopOfHeap
    <3>2. vec'[0] = vec[0]
      BY <1>1, <1>2, <2>3
    <3>3. \A i \in 1 .. size - 2 : vec'[i] <= vec'[0]
      BY <1>1, <1>2, <3>1, <3>2
    <3>4. ASSUME size - 1 = 4, p \in {2, 3} PROVE vec'[p] <= vec'[1] /\ vec'[3] <= vec'[1]
      <4>1. size = 5 /\ Parent(4) = 1 /\ Parent(3) = 1
        BY <1>1, <3>4 DEF Parent
      <4>2. vec[4] <= vec[1] /\ vec[3] <= vec[1]
        BY <2>1, <4>1 DEF Ordered
      <4>3. vec'[p] = vec[4] /\ vec'[1] = vec[1] /\ (p # 3 => vec'[3] = vec[3])
        BY <1>2, <3>4, <4>1
      <4> QED BY <3>4, <4>2, <4>3
    <3>5. Gapped(vec', size - 1, p)
      <4>1. (size - 1) - 1 = size - 2
        BY <1>1
      <4> QED BY <3>3, <3>4, <4>1 DEF Gapped
    <3> QED BY <1>1, <2>3, <3>5 DEF HeapOrder
  <2> QED BY <1>1, <2>2, <2>3
<1> QED BY <1>2, <1>3, <1>4, <1>5

LEMMA RemoveLastIInv ==
    ASSUME IInv, RemoveLast
    PROVE  IInv'
<1> USE DEF IInv
<1>1. /\ size \in Nat /\ size > 0 /\ vec \in [0 .. size - 1 -> Key] /\ size <= MaxSize
      /\ vec' = [i \in 0 .. size - 2 |-> vec[i]] /\ size' = size - 1
      /\ loop = "none" /\ loop' = "none" /\ ~removing' /\ first' = 0 /\ index' = 0
      /\ contents' = contents \ {vec[size - 1]} /\ cut' = cut
      /\ MaxSize \in Nat
  BY VectorType, SizeAssumption DEF RemoveLast, PopBack, Idle, TypeOK, Placed, SizeAssumption
<1>2. /\ vec' \in [0 .. size' - 1 -> Key] /\ size' - 1 = size - 2
      /\ \A i \in 0 .. size - 2 : vec'[i] = vec[i] /\ i \in 0 .. size - 1 /\ i # size - 1
  <2>1. size' - 1 = size - 2 /\ \A i \in 0 .. size - 2 : i \in 0 .. size - 1 /\ i # size - 1
    BY <1>1
  <2> QED BY <1>1, <2>1
<1>3. TypeOK' /\ Placed'
  BY <1>1, <1>2 DEF TypeOK, Placed, RemoveLast
<1>4. Held'
  <2>1. contents = {vec[i] : i \in 0 .. size - 1} /\ Count' - 1 = size - 2
    BY <1>1 DEF Held, Count
  <2>2. \A i, j \in 0 .. size - 1 : vec[i] = vec[j] => i = j
    BY DEF Held
  <2>3. \A i \in 0 .. size - 1 : i \in 0 .. size - 2 \/ i = size - 1
    BY <1>1
  <2>4. contents' = {vec'[i] : i \in 0 .. size - 2}
    BY <1>1, <1>2, <2>1, <2>2, <2>3
  <2> QED BY <1>2, <2>1, <2>2, <2>4 DEF Held
<1>5. ASSUME cut' < 6 PROVE HeapOrder'
  <2>1. Ordered(vec, size)
    BY <1>1, <1>5 DEF HeapOrder
  <2>2. \A i \in 1 .. size - 2 : Parent(i) \in 0 .. size - 2
    BY <1>1 DEF Parent
  <2>3. Ordered(vec', size - 1)
    BY <1>1, <1>2, <2>1, <2>2 DEF Ordered
  <2> QED BY <1>1, <2>3 DEF HeapOrder
<1> QED BY <1>3, <1>4, <1>5

(* What pop_heap of a range from the middle leaves when it has done one turn.  *)
LEMMA GapSinks ==
    ASSUME NEW n \in 1 .. 4, NEW a \in [0 .. n -> Nat], NEW p \in 1 .. n - 1,
           NEW c \in 1 .. 2, p + c < n, a[p] < a[p + c],
           c = 1 /\ p + 2 < n => ~(a[p + 1] < a[p + 2]),
           Gapped(a, n, p)
    PROVE  Ordered(Swap(a, p, p + c), n)
<1> DEFINE b == Swap(a, p, p + c)
<1>1. /\ b[p] = a[p + c] /\ b[p + c] = a[p]
      /\ \A x \in (0 .. n) \ {p, p + c} : b[x] = a[x]
  BY DEF Swap
<1>2. \A i \in 0 .. n : a[i] \in Nat
  OBVIOUS
<1>3. b[0] = a[0] /\ \A i \in 1 .. n - 1 : b[i] <= a[0]
  BY <1>1, <1>2 DEF Gapped
<1> SUFFICES ASSUME NEW i \in 1 .. n - 1 PROVE b[i] <= b[Parent(i)]
  BY DEF Ordered
<1> HIDE DEF b
<1>4. CASE i \in {1, 2}
  BY <1>3, <1>4 DEF Parent
<1>5. CASE i = 3
  <2>1. n = 4 /\ Parent(i) = 1 /\ <<p, c>> \in {<<1, 1>>, <<1, 2>>, <<2, 1>>}
    BY <1>5 DEF Parent
  <2>2. CASE p = 1 /\ c = 1
    BY <1>1, <1>2, <1>5, <2>1, <2>2
  <2>3. CASE p = 1 /\ c = 2
    BY <1>1, <1>2, <1>5, <2>1, <2>3
  <2>4. CASE p = 2 /\ c = 1
    BY <1>1, <1>2, <1>5, <2>1, <2>4 DEF Gapped
  <2> QED BY <2>1, <2>2, <2>3, <2>4
<1> QED BY <1>4, <1>5

(* And when it has nothing to do.                                              *)
LEMMA GapIsOrdered ==
    ASSUME NEW n \in 1 .. 4, NEW a \in [0 .. n -> Nat], NEW p \in 1 .. n - 1,
           \A c \in 1 .. 2 : p + c < n => a[p + c] <= a[p],
           Gapped(a, n, p)
    PROVE  Ordered(a, n)
<1> SUFFICES ASSUME NEW i \in 1 .. n - 1 PROVE a[i] <= a[Parent(i)]
  BY DEF Ordered
<1>1. CASE i \in {1, 2}
  BY <1>1 DEF Parent, Gapped
<1>2. CASE i = 3
  <2>1. n = 4 /\ Parent(i) = 1 /\ p \in {1, 2, 3}
    BY <1>2 DEF Parent
  <2>2. CASE p = 1
    BY <1>2, <2>1, <2>2
  <2>3. CASE p \in {2, 3}
    BY <1>2, <2>1, <2>3 DEF Gapped
  <2> QED BY <2>1, <2>2, <2>3
<1> QED BY <1>1, <1>2

LEMMA SiftDownIInv ==
    ASSUME IInv, SiftDown
    PROVE  IInv'
<1> USE DEF IInv
<1> DEFINE end == size - 1 - first
           c   == LargerChild(index, end)
<1>1. /\ size \in Nat /\ size > 0 /\ size \in 0 .. MaxSize /\ MaxSize \in Nat
      /\ vec \in [0 .. size - 1 -> Nat] /\ vec \in [0 .. size - 1 -> Key]
      /\ first \in Nat /\ index \in Nat /\ first + index <= size - 1
      /\ loop = "down" /\ contents' = contents /\ cut' = cut /\ removing \in BOOLEAN
      /\ (removing => first < size - 1) /\ (~removing => first = 0)
      /\ (first > 0 => cut >= size) /\ cut \in Nat
  BY VectorType, SizeAssumption DEF SiftDown, TypeOK, Placed, SizeAssumption
<1>2. CASE 2 * index + 1 < end /\ vec[first + index] < vec[first + c]
  <2>1. /\ vec' = Swap(vec, first + index, first + c) /\ index' = c
        /\ size' = size /\ loop' = "down" /\ removing' = removing /\ first' = first
    BY <1>1, <1>2 DEF SiftDown
  <2>2. /\ c \in Nat /\ c < end /\ index < c /\ c \in {2 * index + 1, 2 * index + 2}
        /\ (c = 2 * index + 1 /\ 2 * index + 2 < end =>
              ~(vec[first + (2 * index + 1)] < vec[first + (2 * index + 1) + 1]))
        /\ (c = 2 * index + 2 => vec[first + (2 * index + 1)] < vec[first + (2 * index + 1) + 1])
    BY <1>1, <1>2 DEF LargerChild
  <2> HIDE DEF c
  <2>3. first + index \in 0 .. size - 2 /\ first + c \in 0 .. size - 2
    BY <1>1, <1>2, <2>2
  <2>4. vec' \in [0 .. size - 1 -> Key]
    BY <1>1, <2>1, <2>3 DEF Swap
  <2>5. TypeOK'
    BY <1>1, <2>1, <2>2, <2>3, <2>4 DEF TypeOK
  <2>6. Placed'
    BY <1>1, <2>1, <2>2, <2>3 DEF Placed
  <2>7. Held'
    <3>1. /\ {vec'[i] : i \in 0 .. (size - 1) - 1} = {vec[i] : i \in 0 .. (size - 1) - 1}
          /\ \A i, j \in 0 .. size - 1 : vec'[i] = vec'[j] => i = j
      <4>1. size - 1 \in 0 .. size /\ (size - 1) - 1 = size - 2
        BY <1>1
      <4> QED BY <1>1, <2>1, <2>3, <4>1, SwapHolds
    <3>2. Count = size - 1 /\ Count' = size - 1
      BY <1>1, <2>1 DEF Count
    <3> QED BY <1>1, <2>1, <3>1, <3>2 DEF Held
  <2>8. ASSUME cut' < 6 PROVE HeapOrder'
    <3>1. CASE first = 0
      <4>1. Sinking(vec, size - 1, index)
        BY <1>1, <2>8, <3>1 DEF HeapOrder
      <4>2. /\ Parent(c) = index /\ c \in 1 .. (size - 1) - 1 /\ index \in 0 .. (size - 1) - 1
            /\ vec[index] < vec[c] /\ size - 1 \in Nat
        BY <1>1, <1>2, <2>2, <3>1 DEF Parent
      <4>3. ASSUME NEW i \in 1 .. (size - 1) - 1, Parent(i) = index PROVE vec[i] <= vec[c]
        <5>1. i \in {2 * index + 1, 2 * index + 2} /\ i < end
          BY <1>1, <3>1, <4>3 DEF Parent
        <5>2. first + (2 * index + 1) = 2 * index + 1 /\ first + (2 * index + 1) + 1 = 2 * index + 2
          BY <1>1, <3>1
        <5>3. vec[i] \in Nat /\ vec[c] \in Nat
          BY <1>1, <4>2
        <5>4. CASE i = c
          BY <5>3, <5>4
        <5>5. CASE i # c /\ c = 2 * index + 1
          BY <1>1, <5>1, <5>2, <5>3, <5>5, <2>2
        <5>6. CASE i # c /\ c = 2 * index + 2
          BY <1>1, <5>1, <5>2, <5>3, <5>6, <2>2
        <5> QED BY <2>2, <5>4, <5>5, <5>6
      <4>4. Sinking(Swap(vec, index, c), size - 1, c)
        BY <1>1, <2>2, <4>1, <4>2, <4>3, SinksOn
      <4>5. first + index = index /\ first + c = c
        BY <1>1, <2>2, <3>1
      <4> QED BY <1>1, <2>1, <3>1, <4>4, <4>5 DEF HeapOrder
    <3>2. CASE first > 0
      <4>1. size <= 5 /\ index = 0 /\ c \in 1 .. 2 /\ c > 0
        BY <1>1, <1>2, <2>2, <2>8, <3>2
      <4>2. Gapped(vec, size - 1, first)
        BY <1>1, <2>8, <3>2, <4>1 DEF HeapOrder
      <4>3. /\ size - 1 \in 1 .. 4 /\ first \in 1 .. (size - 1) - 1 /\ first + c < size - 1
            /\ vec[first] < vec[first + c] /\ first + index = first
            /\ (c = 1 /\ first + 2 < size - 1 => ~(vec[first + 1] < vec[first + 2]))
        BY <1>1, <1>2, <2>2, <3>2, <4>1
      <4>4. Ordered(Swap(vec, first, first + c), size - 1)
        BY <1>1, <4>1, <4>2, <4>3, GapSinks
      <4> QED BY <1>1, <2>1, <3>2, <4>1, <4>3, <4>4 DEF HeapOrder
    <3> QED BY <1>1, <3>1, <3>2
  <2> QED BY <2>5, <2>6, <2>7, <2>8
<1>3. CASE ~(2 * index + 1 < end /\ vec[first + index] < vec[first + c])
  <2>1. /\ vec' = [i \in 0 .. size - 2 |-> vec[i]] /\ size' = size - 1
        /\ first' = 0 /\ removing' = FALSE
        /\ (removing => loop' = "up" /\ index' = first)
        /\ (~removing => loop' = "none" /\ index' = 0)
    BY <1>1, <1>3 DEF SiftDown, PopBack, ThenPushHeap
  <2>2. /\ size' - 1 = size - 2 /\ vec' \in [0 .. size' - 1 -> Key]
        /\ \A i \in 0 .. size - 2 : vec'[i] = vec[i] /\ i \in 0 .. size - 1
    <3>1. size' - 1 = size - 2 /\ \A i \in 0 .. size - 2 : i \in 0 .. size - 1
      BY <1>1, <2>1
    <3> QED BY <1>1, <2>1, <3>1
  <2>3. TypeOK'
    <3>1. index' \in (0 .. size' - 1) \cup {0} /\ loop' \in {"none", "up", "down"}
      BY <1>1, <2>1
    <3>2. size' \in 0 .. MaxSize
      BY <1>1, <2>1
    <3> QED BY <1>1, <2>1, <2>2, <3>1, <3>2 DEF TypeOK
  <2>4. Placed'
    BY <1>1, <2>1, <2>2 DEF Placed
  <2>5. Held'
    <3>1. /\ contents = {vec[i] : i \in 0 .. size - 2} /\ Count' - 1 = size - 2
      BY <1>1, <2>1 DEF Held, Count
    <3>2. contents' = {vec'[i] : i \in 0 .. size - 2}
      BY <1>1, <2>2, <3>1
    <3>3. \A i, j \in 0 .. size - 1 : vec[i] = vec[j] => i = j
      BY DEF Held
    <3> QED BY <2>2, <3>1, <3>2, <3>3 DEF Held
  <2>6. ASSUME cut' < 6 PROVE HeapOrder'
    <3>1. Ordered(vec, size - 1)
      <4>1. CASE first = 0
        <5>1. Sinking(vec, size - 1, index)
          BY <1>1, <2>6, <4>1 DEF HeapOrder
        <5>2. ASSUME NEW i \in 1 .. (size - 1) - 1, Parent(i) = index PROVE vec[i] <= vec[index]
          <6>1. i \in {2 * index + 1, 2 * index + 2} /\ i < end /\ 2 * index + 1 < end
            BY <1>1, <4>1, <5>2 DEF Parent
          <6>3. /\ vec[i] \in Nat /\ vec[index] \in Nat /\ vec[2 * index + 1] \in Nat
                /\ first + (2 * index + 1) = 2 * index + 1
                /\ first + (2 * index + 1) + 1 = 2 * index + 2
                /\ (2 * index + 2 < end => vec[2 * index + 2] \in Nat)
            BY <1>1, <4>1, <6>1
          <6>4. /\ c = IF 2 * index + 2 < end /\ vec[2 * index + 1] < vec[2 * index + 2]
                       THEN 2 * index + 2 ELSE 2 * index + 1
            BY <1>1, <6>3 DEF LargerChild
          <6>5. ~(vec[index] < vec[c])
            BY <1>1, <1>3, <4>1, <6>1, <6>4
          <6> HIDE DEF c, end
          <6> QED BY <6>1, <6>3, <6>4, <6>5
        <5> QED BY <1>1, <5>1, <5>2, SunkIsOrdered
      <4>2. CASE first > 0 /\ index > 0
        BY <1>1, <2>6, <4>2 DEF HeapOrder
      <4>3. CASE first > 0 /\ index = 0
        <5>1. Gapped(vec, size - 1, first) /\ size <= 5 /\ removing
          BY <1>1, <2>6, <4>3 DEF HeapOrder
        <5>2. size - 1 \in 1 .. 4 /\ first \in 1 .. (size - 1) - 1
          BY <1>1, <4>3, <5>1
        <5>3. ASSUME NEW d \in 1 .. 2, first + d < size - 1 PROVE vec[first + d] <= vec[first]
          <6>1. /\ 1 < end /\ (d = 2 => 2 < end) /\ first + (2 * 0 + 1) = first + 1
                /\ first + (2 * 0 + 1) + 1 = first + 2 /\ first + index = first
                /\ vec[first] \in Nat /\ vec[first + 1] \in Nat
                /\ (2 < end => vec[first + 2] \in Nat)
            BY <1>1, <4>3, <5>2, <5>3
          <6>2. ~(vec[first] < vec[first + c])
            BY <1>1, <1>3, <4>3, <6>1
          <6>3. c = IF 2 < end /\ vec[first + 1] < vec[first + 2] THEN 2 ELSE 1
            BY <4>3, <6>1 DEF LargerChild
          <6> HIDE DEF c, end
          <6> QED BY <6>1, <6>2, <6>3
        <5> QED BY <1>1, <5>1, <5>2, <5>3, GapIsOrdered
      <4> QED BY <1>1, <4>1, <4>2, <4>3
    <3>2. \A i \in 1 .. size - 2 : Parent(i) \in 0 .. size - 2
      BY <1>1 DEF Parent
    <3>3. Ordered(vec', size') /\ vec' \in [0 .. size' - 1 -> Nat] /\ size' \in Nat
      BY <1>1, <2>1, <2>2, <3>1, <3>2 DEF Ordered
    <3>4. removing => Rising(vec', size', first)
      <4>1. removing => first \in 0 .. size' - 1
        BY <1>1, <2>1
      <4> QED BY <3>3, <4>1, OrderedRises
    <3> QED BY <1>1, <2>1, <3>3, <3>4 DEF HeapOrder
  <2> QED BY <2>3, <2>4, <2>5, <2>6
<1> QED BY <1>2, <1>3

LEMMA SpecIInv == Spec => []IInv
<1>1. IInv /\ [Next]_vars => IInv'
  <2>1. ASSUME IInv, UNCHANGED vars PROVE IInv'
    BY <2>1 DEF IInv, TypeOK, Placed, Held, Count, HeapOrder, vars
  <2> QED BY <2>1, PushIInv, SiftUpIInv, SiftDownIInv, PopIInv, RemoveLastIInv, RemoveIInv
             DEF Next
<1> QED BY <1>1, InitIInv, PTL DEF Spec

(* The type invariant: push, pop and remove keep their indices in the vector.  *)
THEOREM HeapTypeCorrect == Spec => []TypeOK
BY SpecIInv, PTL DEF IInv

(* The queue never loses an item or holds it twice, whatever is pushed, popped *)
(* and removed: not even when its order is already broken.                     *)
THEOREM ContentsHeld == Spec => []HoldsContents
<1>1. IInv => HoldsContents
  BY DEF IInv, Held, Count, HoldsContents, Idle, Elements
<1> QED BY <1>1, SpecIInv, PTL

(* The first element is the item of top priority as long as the queue is small *)
(* whenever an item is removed from its middle.                                *)
THEOREM SmallQueueOrdered == Spec => []SmallQueueKeepsOrder
<1>1. ASSUME IInv PROVE SmallQueueKeepsOrder
  <2> SUFFICES ASSUME cut < 6, Idle, size > 0, NEW x \in contents PROVE x <= vec[0]
    BY DEF SmallQueueKeepsOrder, TopIsGreatest
  <2>1. Ordered(vec, size)
    BY <1>1 DEF IInv, HeapOrder, Idle
  <2>2. vec \in [0 .. size - 1 -> Nat] /\ size \in Nat
    BY <1>1, VectorType DEF IInv
  <2>3. \A i \in 0 .. size - 1 : vec[i] <= vec[0]
    BY <2>1, <2>2, TopOfHeap
  <2>4. contents = {vec[i] : i \in 0 .. size - 1}
    BY <1>1 DEF IInv, Held, Count, Idle
  <2> QED BY <2>3, <2>4
<1> QED BY <1>1, SpecIInv, PTL
==============================================================================
