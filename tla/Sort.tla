-------------------------------- MODULE Sort --------------------------------
(***************************************************************************)
(* sort.c: an array is shuffled, its parts are sorted (by threads, outside *)
(* of this file) and a heap of the parts' heads merges them. Items are     *)
(* numbers with keys, so that equal keys do not make items equal.          *)
(* Indices count from 0, as in the code: element i is array[i + 1].        *)
(***************************************************************************)
EXTENDS Integers, FiniteSets, Sequences, SequencesExt

CONSTANTS MaxItems,   \* longest array
          Keys,       \* what compare looks at
          RandMax     \* INT32_MAX: the greatest number of rand_int

SortAssumption ==
  MaxItems \in Nat /\ Keys \subseteq Int /\ RandMax \in Nat

VARIABLES
  key,      \* key of each item
  parts,    \* p: in how many parts the array is sorted
  array,
  i,        \* the loop counter of the shuffle or of the merge
  heap,     \* the parts' heads: index of the item, and the part
  live,     \* heap_length
  taken,    \* indices: items of each part that went to the output
  output,
  pc        \* "shuffle", "sort", "build", "heapify", "merge" or "done"

vars == <<key, parts, array, i, heap, live, taken, output, pc>>

n == Len(array)

Init ==
  /\ \E len \in 0..MaxItems :
       /\ array = [j \in 1..len |-> j]
       /\ key \in [1..len -> Keys]
       /\ parts \in 1..Max({len, 1})
  /\ i = 0 /\ heap = <<>> /\ live = 0 /\ taken = <<>> /\ output = <<>>
  /\ pc = "shuffle"

-----------------------------------------------------------------------------
(* sort_shuffle *)

\* The element that element i is exchanged with.
Picked(rnd) == i + rnd \div (RandMax \div (n - i) + 1)

Exchange(j) ==
  array' = [array EXCEPT ![i + 1] = array[j + 1], ![j + 1] = array[i + 1]]

Shuffle ==
  /\ pc = "shuffle"
  /\ IF i < n - 1
     THEN /\ \E rnd \in 0..RandMax : Exchange(Picked(rnd))
          /\ i' = i + 1 /\ UNCHANGED pc
     ELSE pc' = "sort" /\ UNCHANGED <<array, i>>
  /\ UNCHANGED <<key, parts, heap, live, taken, output>>

-----------------------------------------------------------------------------
(* The parts *)

\* n_sub: the last part has what the division leaves.
PartSize(k) == IF k < parts - 1 THEN n \div parts ELSE n \div parts + (n % parts)

Offset(k) == k * (n \div parts)

PartItems(k) == Offset(k)..Offset(k) + PartSize(k) - 1

\* The callers sort each part by itself; equal keys come in any order.
SortParts ==
  /\ pc = "sort"
  /\ \E sorted \in [1..n -> 1..n] :
       /\ \A k \in 0..parts - 1 :
            /\ {sorted[x + 1] : x \in PartItems(k)} = {array[x + 1] : x \in PartItems(k)}
            /\ \A x, y \in PartItems(k) : x < y =>
                 sorted[x + 1] # sorted[y + 1] /\ key[sorted[x + 1]] <= key[sorted[y + 1]]
       /\ array' = sorted
  /\ pc' = IF n <= 1 \/ parts = 1 THEN "done" ELSE "build"
  /\ UNCHANGED <<key, parts, i, heap, live, taken, output>>

-----------------------------------------------------------------------------
(* sort_heapify and sort_merge_subsorted *)

KeyAt(h, x) == key[array[h[x + 1].value + 1]]

\* Of a node and its children below the length len, the one to stand on top.
\* Mutant: only the left child is compared.
Smallest_OneChild(h, len, x) ==
  IF 2 * x + 1 < len /\ KeyAt(h, 2 * x + 1) < KeyAt(h, x) THEN 2 * x + 1 ELSE x

Smallest(h, len, x) ==
  LET left  == IF 2 * x + 1 < len /\ KeyAt(h, 2 * x + 1) < KeyAt(h, x)
               THEN 2 * x + 1 ELSE x
  IN IF 2 * x + 2 < len /\ KeyAt(h, 2 * x + 2) < KeyAt(h, left)
     THEN 2 * x + 2 ELSE left

\* sort_heapify: the node at x sinks below its smaller children.
Heapified(h, len, x) ==
  LET Turn(s, step) ==
        LET least == Smallest(s.heap, len, s.at)
        IN [heap |-> [s.heap EXCEPT ![s.at + 1] = s.heap[least + 1],
                                    ![least + 1] = s.heap[s.at + 1]],
            at |-> least]
  IN FoldLeft(Turn, [heap |-> h, at |-> x], [step \in 1..len |-> step]).heap

\* The heap begins with the heads of the parts.
BuildHeap ==
  /\ pc = "build"
  /\ heap' = [k \in 1..parts |-> [value |-> Offset(k - 1), p_index |-> k - 1]]
  /\ live' = parts /\ taken' = [k \in 1..parts |-> 0]
  /\ i' = parts \div 2
  /\ pc' = "heapify"
  /\ UNCHANGED <<key, parts, array, output>>

\* The loop of sort_heapify over the nodes that have children, from below; the
\* counter k of the code is i - 1.
HeapifyNode ==
  /\ pc = "heapify"
  /\ IF i > 0
     THEN heap' = Heapified(heap, parts, i - 1) /\ i' = i - 1 /\ UNCHANGED pc
     ELSE pc' = "merge" /\ UNCHANGED <<heap, i>>
  /\ UNCHANGED <<key, parts, array, live, taken, output>>

\* The heap after its top was taken: the next item of that part, or the last
\* node in its place when the part is used up.
Advanced(part, count) ==
  IF count < PartSize(part)
  THEN [h |-> [heap EXCEPT ![1].value = Offset(part) + count], len |-> live]
  ELSE [h |-> IF live > 1 THEN [heap EXCEPT ![1] = heap[live]] ELSE heap,
        len |-> live - 1]

Merge ==
  /\ pc = "merge" /\ i < n
  /\ LET part  == heap[1].p_index
         count == taken[part + 1] + 1
         next  == Advanced(part, count)
     IN /\ output' = output \o <<array[heap[1].value + 1]>>
        /\ taken' = [taken EXCEPT ![part + 1] = count]
        /\ live' = next.len
        /\ heap' = IF next.len > 0 THEN Heapified(next.h, next.len, 0) ELSE next.h
  /\ i' = i + 1
  /\ UNCHANGED <<key, parts, array, pc>>

\* The output is copied over the array.
Finish ==
  /\ pc = "merge" /\ i >= n
  /\ array' = output
  /\ pc' = "done"
  /\ UNCHANGED <<key, parts, i, heap, live, taken, output>>

Next == Shuffle \/ SortParts \/ BuildHeap \/ HeapifyNode \/ Merge \/ Finish

Spec == Init /\ [][Next]_vars

-----------------------------------------------------------------------------
(* Properties *)

Rest(k) == {array[x + 1] : x \in Offset(k) + taken[k + 1]..Offset(k) + PartSize(k) - 1}

\* Every index stays inside of the arrays and of its part: the numbers that
\* rand_int gives never exchange with what is past the end.
TypeOK ==
  /\ array \in [1..n -> 1..n] /\ parts \in 1..Max({n, 1})
  /\ i \in 0..n /\ live \in 0..parts /\ Len(output) <= n
  /\ \A x \in 1..live : heap[x].value \in PartItems(heap[x].p_index)

\* No item is lost or doubled, by the shuffle, by the merge or by the copy
\* back: what is in the output and what the parts still have is everything.
ItemsAreKept ==
  /\ {array[x] : x \in 1..n} = 1..n
  /\ pc = "merge" =>
       /\ Cardinality({output[x] : x \in 1..Len(output)}) = Len(output)
       /\ {output[x] : x \in 1..Len(output)}
            \cup UNION {Rest(k) : k \in 0..parts - 1} = 1..n

\* The heap holds the head of every part that is not used up, once, and its
\* order is that of a heap; it is empty at the end (ASSERT_ZERO(heap_length)).
HeapHasHeads ==
  /\ pc = "merge" =>
       /\ {heap[x] : x \in 1..live} =
            {[value |-> Offset(k) + taken[k + 1], p_index |-> k] :
               k \in {q \in 0..parts - 1 : Rest(q) # {}}}
       /\ \A x \in 1..live - 1 : KeyAt(heap, (x - 1) \div 2) <= KeyAt(heap, x)
  /\ pc = "done" => live = 0

\* When the call returns the array is sorted, however many parts there were
\* and whichever of them ran out first.
ArrayIsSorted ==
  pc = "done" => \A x \in 1..n - 1 : key[array[x]] <= key[array[x + 1]]
=============================================================================
