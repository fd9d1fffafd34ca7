------------------------------ MODULE MCBlocks ------------------------------
(***************************************************************************)
(* What owns blocks, for TLC: the debug allocator with two threads and     *)
(* four blocks, under each choice of options; two string builders and a    *)
(* caller that takes strings away; a generic array; two lists of builders; *)
(* an array that is sorted in parts.                                       *)
(* They share no state, so a behaviour lets one of them run while the      *)
(* others stay as they are at first.                                       *)
(***************************************************************************)
EXTENDS DebugAlloc, Sequences, FiniteSets, TLC

CONSTANTS InitialCapacity, MaxLen, MaxText, Capacities, FirstCap, MaxCount,
          MaxItems,  \* items of a list of builders
          MaxSorted, Keys, RandMax

VARIABLES
  part,   \* who runs: "debug", "builder", "array", "lists" or "sort"
  bytes, sb, stolen, wrong,
  array, stored, list, block, listWrong,
  key, parts, items, turn, nodes, live, taken, output, sortPc

builderVars == <<bytes, sb, stolen, wrong>>
arrayVars == <<array, stored, list, block, listWrong>>
sortVars == <<key, parts, items, turn, nodes, live, taken, output, sortPc>>
blocksVars == <<part, vars, builderVars, arrayVars, sortVars>>

\* A block of no bytes, one of two, and a size that is refused.
MCSizes == {-1, 0, 2}

MCLiterals == {<<1>>, <<2, 1>>}

\* The model values of the threads and addresses name builders, lists, values
\* and addresses in the other parts too: the group of symmetries stays small.
B == INSTANCE StrBuilder
       WITH heap <- bytes, Literals <- MCLiterals,
            Builders <- Threads, Ptrs <- Pointers

A == INSTANCE Arrays
       WITH wrong <- listWrong, Lists <- Threads, Values <- Threads,
            Ptrs <- Pointers

L == INSTANCE Arrays
       WITH wrong <- listWrong, Lists <- Threads, Values <- Threads,
            Ptrs <- Pointers, MaxCount <- MaxItems

Sorting == INSTANCE Sort
       WITH MaxItems <- MaxSorted, array <- items, i <- turn, heap <- nodes,
            pc <- sortPc

ASSUME Instances ==
  /\ B!StrBuilderAssumption /\ A!ArraysAssumption /\ L!ArraysAssumption
  /\ Sorting!SortAssumption

BlocksInit ==
  /\ part \in {"debug", "builder", "array", "lists", "sort"}
  /\ Init /\ B!Init /\ A!Init /\ Sorting!Init
  /\ part # "debug" => checks = [doubleFree |-> FALSE, useAfterFree |-> FALSE]
  /\ part # "sort" => items = <<>>

BlocksNext ==
  \/ part = "debug" /\ Next /\ UNCHANGED <<part, builderVars, arrayVars, sortVars>>
  \/ part = "builder" /\ B!Next /\ UNCHANGED <<part, vars, arrayVars, sortVars>>
  \/ part = "array" /\ A!NextGeneric /\ UNCHANGED <<part, vars, builderVars, sortVars>>
  \/ part = "lists" /\ L!NextLists /\ UNCHANGED <<part, vars, builderVars, sortVars>>
  \/ part = "sort" /\ Sorting!Next /\ UNCHANGED <<part, vars, builderVars, arrayVars>>

BlocksSpec == BlocksInit /\ [][BlocksNext]_blocksVars

\* Builders grow no further when they have MaxText bytes between them.
TextIsBounded ==
  \A b, c \in Threads : b # c => sb[b].len + sb[c].len + stolen.len <= MaxText

AreAlike == Permutations(Threads) \cup Permutations(Pointers)

-----------------------------------------------------------------------------
(* Properties of the builders and arrays; those of the debug allocator are *)
(* in DebugAlloc.                                                          *)

\* After any growth, moves, copies, thefts and swaps every block has exactly
\* one owner, which knows its size; no block is lost, every string of a builder
\* ends with its NUL inside the block, and a generic array keeps its items.
BlocksAndItemsAreExact ==
  /\ B!TypeOK /\ B!BlocksHaveOneOwner /\ B!IsTerminated
  /\ A!TypeOK /\ A!ItemsAreKept /\ L!ItemsOwnTheirBlocks

\* The builders implement string variables: what is read back is what was
\* written, also when a builder is appended to or set from its own bytes and
\* its block moves meanwhile.
ImplementsStrings == B!ImplementsStrings

\* A list of builders changes by calls on it only: writing to, clearing or
\* destroying a copy or what was moved or swapped away leaves it as it is.
ListsAreSeparate == L!ListsAreSeparate

\* The parallel sort keeps every item through the shuffle, the parts and the
\* merge, whose heap has the head of each part left, and ends sorted.
SortIsExact ==
  Sorting!TypeOK /\ Sorting!ItemsAreKept /\ Sorting!HeapHasHeads /\ Sorting!ArrayIsSorted

=============================================================================
