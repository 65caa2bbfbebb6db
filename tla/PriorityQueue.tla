---------------------------- MODULE PriorityQueue ----------------------------
(* OsclPriorityQueue, the heap beneath the scheduler's ready queue and timer   *)
(* queue. A step is one turn of a loop of push_heap or pop_heap, indices are   *)
(* those of the vector, from 0.                                                *)
EXTENDS Integers

CONSTANTS
    Key,           \* what is queued, by its rank: no two compare as equal
    MaxSize        \* room in the vector

ASSUME KeyAssumption  == Key \subseteq Nat
ASSUME SizeAssumption == MaxSize \in Nat

VARIABLES
    vec,           \* the vector c
    size,          \* c.size()
    loop,          \* the loop under way: "none", "up" in push_heap, "down" in pop_heap
    removing,      \* the call under way is remove
    first,         \* where the range given to pop_heap begins
    index,         \* the loop's index: in "down" counted from first
    contents,      \* history: what was queued and neither popped nor removed
    cut            \* history: the largest size at which an element between the
                   \* first and the last was removed

vars == <<vec, size, loop, removing, first, index, contents, cut>>

Indices  == 0 .. MaxSize - 1
Elements == {vec[i] : i \in 0 .. size - 1}
Idle     == loop = "none"

Parent(i) == (i - 1) \div 2

Swap(a, i, j) == [a EXCEPT ![i] = a[j], ![j] = a[i]]

Init ==
    /\ vec \in [0 .. -1 -> Key] /\ size = 0
    /\ loop = "none" /\ removing = FALSE /\ first = 0 /\ index = 0
    /\ contents = {} /\ cut = 0

(* push: the element is put at the end and sifted up.                          *)
Push(x) ==
    /\ Idle /\ size < MaxSize /\ x \notin contents
    /\ vec' = [i \in 0 .. size |-> IF i = size THEN x ELSE vec[i]]
    /\ size' = size + 1
    /\ loop' = "up" /\ index' = size
    /\ contents' = contents \cup {x}
    /\ UNCHANGED <<removing, first, cut>>

(* A turn of push_heap.                                                        *)
SiftUp ==
    /\ loop = "up"
    /\ LET up == Parent(index)
       IN  IF index > 0 /\ vec[up] < vec[index]
           THEN /\ vec' = Swap(vec, index, up) /\ index' = up
                /\ UNCHANGED loop
           ELSE /\ loop' = "none" /\ index' = 0
                /\ UNCHANGED vec
    /\ UNCHANGED <<size, removing, first, contents, cut>>

(* pop_heap of the range from p on: its first element changes places with the  *)
(* last, and what came first is sifted down.                                   *)
PopHeap(p) ==
    /\ vec' = Swap(vec, p, size - 1)
    /\ loop' = "down" /\ first' = p /\ index' = 0

Pop ==
    /\ Idle /\ size > 0
    /\ PopHeap(0) /\ removing' = FALSE
    /\ contents' = contents \ {vec[0]}
    /\ UNCHANGED <<size, cut>>

PopBack ==
    /\ vec' = [i \in 0 .. size - 2 |-> vec[i]]
    /\ size' = size - 1

\* mutant: push_heap is given one element more
ThenPushBehind ==
    IF removing THEN loop' = "up" /\ index' = first + 1
    ELSE loop' = "none" /\ index' = 0

(* remove goes on with push_heap of the range that ends behind the element.    *)
ThenPushHeap ==
    IF removing THEN loop' = "up" /\ index' = first
    ELSE loop' = "none" /\ index' = 0

\* mutant: the first child, whichever is larger
FirstChild(i, end) == 2 * i + 1

\* mutant: the element that goes is compared too
LargerOrLast(i, end) ==
    LET c == 2 * i + 1
    IN  IF c + 1 <= end /\ vec[first + c] < vec[first + c + 1] THEN c + 1 ELSE c

(* The child to compare with, of the two there may be before the end.          *)
LargerChild(i, end) ==
    LET c == 2 * i + 1
    IN  IF c + 1 < end /\ vec[first + c] < vec[first + c + 1] THEN c + 1 ELSE c

(* A turn of pop_heap; after the last the vector loses its last element.       *)
SiftDown ==
    /\ loop = "down"
    /\ LET end == size - 1 - first
           c   == LargerChild(index, end)
       IN  IF 2 * index + 1 < end /\ vec[first + index] < vec[first + c]
           THEN /\ vec' = Swap(vec, first + index, first + c) /\ index' = c
                /\ UNCHANGED <<size, loop, removing, first>>
           ELSE /\ PopBack /\ ThenPushHeap
                /\ first' = 0 /\ removing' = FALSE
    /\ UNCHANGED <<contents, cut>>

(* remove: the last element just goes.                                         *)
RemoveLast ==
    /\ Idle /\ size > 0
    /\ PopBack
    /\ contents' = contents \ {vec[size - 1]}
    /\ UNCHANGED <<loop, removing, first, index, cut>>

Remove(p) ==
    /\ Idle /\ p < size - 1
    /\ PopHeap(p) /\ removing' = TRUE
    /\ cut' = IF p > 0 /\ size > cut THEN size ELSE cut
    /\ contents' = contents \ {vec[p]}
    /\ UNCHANGED size

Next ==
    \/ \E x \in Key : Push(x)
    \/ SiftUp \/ SiftDown \/ Pop \/ RemoveLast
    \/ \E p \in Indices : Remove(p)

Spec == Init /\ [][Next]_vars
------------------------------------------------------------------------------
TypeOK ==
    /\ size \in 0 .. MaxSize /\ vec \in [0 .. size - 1 -> Key]
    /\ loop \in {"none", "up", "down"} /\ removing \in BOOLEAN
    /\ {first, index} \subseteq (0 .. size - 1) \cup {0}
    /\ contents \subseteq Key /\ cut \in 0 .. MaxSize

(* After all the swaps of a call the vector holds what is queued, each once:   *)
(* what was popped or removed is gone, and nothing else.                       *)
HoldsContents ==
    Idle => /\ Elements = contents
            /\ \A i, j \in 0 .. size - 1 : vec[i] = vec[j] => i = j

(* "O(1) complexity to access the top priority item": between two calls the    *)
(* first element is that item.                                                 *)
TopIsGreatest == Idle /\ size > 0 => \A x \in contents : x <= vec[0]

(* As long as the queue has five elements at most whenever one of them is      *)
(* removed from its middle, top is the item of top priority.                   *)
SmallQueueKeepsOrder == cut < 6 => TopIsGreatest
==============================================================================
