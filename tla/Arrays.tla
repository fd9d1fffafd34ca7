------------------------------- MODULE Arrays -------------------------------
(***************************************************************************)
(* The growing arrays of cbase: the generic array of array.c, whose header *)
(* holds count and capacity, and the StrBuilderArray of string.c, whose    *)
(* items own blocks of their own.                                          *)
(*                                                                         *)
(* An array is the sequence of its slots, as long as it was allocated.     *)
(***************************************************************************)
EXTENDS Integers, Sequences, FiniteSets, SequencesExt, FiniteSetsExt

CONSTANTS
  Values,       \* what is stored
  Capacities,   \* the capacities callers ask for
  FirstCap,     \* capacity of an array that starts with a push: 8
  MaxCount,     \* items of an array at most
  Lists,        \* the StrBuilderArrays
  Ptrs          \* addresses of the blocks of their items

NULL == "NULL"
Garbage == "garbage"
Free == "free"

ArraysAssumption ==
  /\ Capacities \subseteq Nat /\ FirstCap \in Nat \ {0} /\ MaxCount \in Nat
  /\ NULL \notin Ptrs /\ Free \notin Values

VARIABLES
  array,    \* the generic array; NULL or its header and slots
  stored,   \* what its user stored, in order
  list,     \* items and length of each StrBuilderArray
  block,    \* the string in each block of an item
  wrong     \* something was given back with a size that is not its own

vars == <<array, stored, list, block, wrong>>

NullArray == [null |-> TRUE, count |-> 0, cap |-> 0, slots |-> <<>>]

NoItems == [len |-> 0, cap |-> 0, items |-> <<>>]

Init ==
  /\ array = NullArray
  /\ stored = <<>>
  /\ list = [l \in Lists |-> NoItems]
  /\ block = [p \in Ptrs |-> Free]
  /\ wrong = FALSE

Slots(s, n) == [i \in 1..n |-> IF i <= Len(s) THEN s[i] ELSE Garbage]

Doubled(first, needed) ==
  first * 2^Min({i \in 0..needed : first * 2^i >= needed})

-----------------------------------------------------------------------------
(* array.c *)

\* generic_array_init
Fresh(cap) == [null |-> FALSE, count |-> 0, cap |-> cap, slots |-> Slots(<<>>, cap)]

\* generic_array_grow: twice as much room when there is none left.
Grown(a) ==
  IF ~a.null /\ a.count < a.cap THEN a
  ELSE LET cap == IF a.null THEN FirstCap ELSE 2 * a.cap IN
       [a EXCEPT !.null = FALSE, !.cap = cap, !.slots = Slots(@, cap)]

\* generic_array_reserve and generic_array_next_capacity
Reserved(a, needed) ==
  IF needed = 0 THEN a
  ELSE IF a.null THEN Fresh(needed)
  ELSE IF needed <= a.cap THEN a
  ELSE LET cap == IF a.cap = 0 THEN needed ELSE Doubled(a.cap, needed) IN
       [a EXCEPT !.cap = cap, !.slots = Slots(@, cap)]

Lists1 == <<list, block>>

\* A block that is reallocated or freed by its header's capacity.
HeaderIsWrong == ~array.null /\ Len(array.slots) # array.cap

\* ARRAY_INIT of a variable that has no array.
InitArray(cap) ==
  /\ array.null
  /\ array' = Fresh(cap)
  /\ UNCHANGED <<stored, wrong, Lists1>>

\* ARRAY_INIT_COUNT: the user fills all of the items.
InitCount(n, v) ==
  /\ array.null
  /\ array' = [Fresh(n) EXCEPT !.count = n, !.slots = [i \in 1..n |-> v]]
  /\ stored' = [i \in 1..n |-> v]
  /\ UNCHANGED <<wrong, Lists1>>

\* ARRAY_PUSH. One into an array that was made with room for no item would
\* write outside of it, as generic_array_grow doubles 0; no caller does that.
Push(v) ==
  LET a == Grown(array) IN
  /\ array.null \/ array.cap > 0
  /\ array.count < MaxCount
  /\ wrong' = (wrong \/ HeaderIsWrong)
  /\ array' = [a EXCEPT !.count = @ + 1,
                        !.slots = [i \in DOMAIN @ |->
                                     IF i = a.count + 1 THEN v ELSE @[i]]]
  /\ stored' = Append(stored, v)
  /\ UNCHANGED Lists1

\* ARRAY_RESERVE
Reserve(n) ==
  /\ array' = Reserved(array, n)
  /\ wrong' = (wrong \/ HeaderIsWrong)
  /\ UNCHANGED <<stored, Lists1>>

\* ARRAY_SET_COUNT to fewer items; ARRAY_CLEAR is the case of none.
SetCount(n) ==
  /\ ~array.null /\ n <= array.count
  /\ array' = [array EXCEPT !.count = n]
  /\ stored' = SubSeq(stored, 1, n)
  /\ UNCHANGED <<wrong, Lists1>>

\* ARRAY_FREE
FreeArray ==
  /\ ~array.null
  /\ array' = NullArray
  /\ wrong' = (wrong \/ HeaderIsWrong)
  /\ stored' = <<>>
  /\ UNCHANGED Lists1

-----------------------------------------------------------------------------
(* StrBuilderArray *)

Generic == <<array, stored>>

\* str_builder_array_reserve
Room(l, extra) ==
  IF extra <= 0 \/ l.len + extra <= l.cap THEN l
  ELSE LET cap == Doubled(IF l.cap <= 0 THEN FirstCap ELSE l.cap, l.len + extra) IN
       [l EXCEPT !.cap = cap, !.items = Slots(@, cap)]

ListIsWrong(l) == Len(l.items) # l.cap

Blocks(l) == {l.items[i] : i \in 1..l.len} \ {NULL}

\* The blocks after those of P were freed.
Without(P) == [p \in Ptrs |-> IF p \in P THEN Free ELSE block[p]]

\* str_builder_array_append: a new item, an empty builder.
AppendItem(l) ==
  LET room == Room(list[l], 1) IN
  /\ list[l].len < MaxCount
  /\ list' = [list EXCEPT ![l] =
                [room EXCEPT !.len = @ + 1, !.items[room.len + 1] = NULL]]
  /\ wrong' = (wrong \/ ListIsWrong(list[l]))
  /\ UNCHANGED <<block, Generic>>

\* The user writes a string to an item, which takes a block.
WriteItem(l, i, v) ==
  /\ i \in 1..list[l].len /\ list[l].items[i] = NULL
  /\ \E p \in Ptrs :
       /\ block[p] = Free
       /\ block' = [block EXCEPT ![p] = v]
       /\ list' = [list EXCEPT ![l].items[i] = p]
  /\ UNCHANGED <<wrong, Generic>>

\* str_builder_array_clear: every item is freed, the room stays.
Clear(l) ==
  /\ block' = Without(Blocks(list[l]))
  /\ list' = [list EXCEPT ![l].len = 0]
  /\ UNCHANGED <<wrong, Generic>>

\* str_builder_array_destroy
Destroy(l) ==
  /\ block' = Without(Blocks(list[l]))
  /\ list' = [list EXCEPT ![l] = NoItems]
  /\ wrong' = (wrong \/ ListIsWrong(list[l]))
  /\ UNCHANGED Generic

\* Mutant: the copies share the blocks of the items.
Copy_Shares(d, s) ==
  /\ d # s
  /\ block' = Without(Blocks(list[d]))
  /\ list' = [list EXCEPT ![d] = list[s]]
  /\ UNCHANGED <<wrong, Generic>>

\* The items of a list that have blocks.
Full(l) == {i \in 1..l.len : l.items[i] # NULL}

\* A new array for as many items as l has, those of Full(l) with blocks f.
Replacement(l, f) ==
  LET room == Room(NoItems, l.len) IN
  [room EXCEPT !.len = l.len,
               !.items = [i \in DOMAIN room.items |->
                            IF i \in DOMAIN f THEN f[i]
                            ELSE IF i <= l.len THEN NULL ELSE room.items[i]]]

\* str_builder_array_copy: a replacement with copies of the items is made
\* first, then the old array is destroyed.
Copy(d, s) ==
  LET src == list[s] IN
  /\ d # s
  /\ \E f \in [Full(src) -> {p \in Ptrs : block[p] = Free}] :
       /\ IsInjective(f)
       /\ block' = [p \in Ptrs |->
                      IF \E i \in Full(src) : f[i] = p
                      THEN block[src.items[CHOOSE i \in Full(src) : f[i] = p]]
                      ELSE IF p \in Blocks(list[d]) THEN Free ELSE block[p]]
       /\ list' = [list EXCEPT ![d] = Replacement(src, f)]
  /\ wrong' = (wrong \/ ListIsWrong(list[d]))
  /\ UNCHANGED Generic

\* str_builder_array_move
Move(d, s) ==
  /\ d # s
  /\ block' = Without(Blocks(list[d]))
  /\ list' = [list EXCEPT ![d] = list[s], ![s] = NoItems]
  /\ wrong' = (wrong \/ ListIsWrong(list[d]))
  /\ UNCHANGED Generic

\* str_builder_array_swap
Swap(d, s) ==
  /\ list' = [list EXCEPT ![d] = list[s], ![s] = list[d]]
  /\ UNCHANGED <<block, wrong, Generic>>

\* The two are independent: a run exercises one of them.
NextGeneric ==
  \/ \E c \in Capacities : InitArray(c) \/ Reserve(c)
  \/ Reserve(0)
  \/ \E v \in Values : Push(v) \/ \E n \in Capacities : InitCount(n, v)
  \/ \E n \in 0..MaxCount : SetCount(n)
  \/ FreeArray

NextLists ==
  \/ \E l \in Lists :
       \/ AppendItem(l) \/ Clear(l) \/ Destroy(l)
       \/ \E i \in 1..MaxCount, v \in Values : WriteItem(l, i, v)
  \/ \E d, s \in Lists : Copy(d, s) \/ Move(d, s) \/ Swap(d, s)

SpecGeneric == Init /\ [][NextGeneric]_vars
SpecLists == Init /\ [][NextLists]_vars

-----------------------------------------------------------------------------
(* Properties *)

\* Counts stay within capacities, and capacities are what was allocated: no
\* write is outside of an array.
TypeOK ==
  /\ array.count <= array.cap /\ Len(array.slots) = array.cap
  /\ \A l \in Lists :
       /\ list[l].len <= list[l].cap /\ Len(list[l].items) = list[l].cap
       /\ \A i \in 1..list[l].len : list[l].items[i] \in Ptrs \cup {NULL}
  /\ ~wrong

\* Growing and reserving in any order keep count and items: what was pushed
\* is there (array_test_reserve_and_counts).
ItemsAreKept ==
  /\ array.count = Len(stored)
  /\ \A i \in 1..array.count : array.slots[i] = stored[i]

\* After any copies, moves and swaps each block is of one item of one list,
\* and a block that no item has was freed.
ItemsOwnTheirBlocks ==
  \A p \in Ptrs :
    Cardinality({x \in Lists \X (1..MaxCount) :
                   x[2] <= list[x[1]].len /\ list[x[1]].items[x[2]] = p})
      = (IF block[p] = Free THEN 0 ELSE 1)

\* What the items of a list read.
Strings(l) == [i \in 1..list[l].len |->
                 IF list[l].items[i] = NULL THEN NULL ELSE block[list[l].items[i]]]

\* A list changes by calls on it only: writing to, clearing or destroying
\* a copy or what was moved or swapped away leaves it as it is.
ListsAreSeparate ==
  [][ \A l \in Lists :
        (\E k \in Lists \ {l} : Clear(k) \/ Destroy(k) \/ AppendItem(k)
            \/ \E i \in 1..MaxCount, v \in Values : WriteItem(k, i, v))
        => Strings(l)' = Strings(l) ]_vars

=============================================================================
