----------------------------- MODULE DebugAlloc ------------------------------
(***************************************************************************)
(* The debug allocator of cbase/memory.c: malloc2, realloc2, realloc_flex  *)
(* and free2 of a build with DEBUGGING_MEMORY.  Each block has a padding   *)
(* on both sides, and its size is kept in a table under a mutex; what a    *)
(* caller gives back is compared with both.                                *)
(*                                                                         *)
(* Callers may be wrong: they write outside of a block or to one that was  *)
(* freed, free it twice, or give another size.  `misused` says that one    *)
(* did.  malloc takes the mutex only for the table; realloc, free and      *)
(* memory_check hold it all along and are one step.  malloc and realloc of *)
(* libc are external and do not fail.                                      *)
(***************************************************************************)
EXTENDS Integers

CONSTANTS
  Threads,
  Pointers,   (* blocks of the heap                                        *)
  Null,
  Sizes       (* that callers ask for and give back                        *)

(* intact: no byte of the padding was written; poisoned: filled with 0xCD  *)
(* since it was freed.                                                     *)
Blocks == [size : Nat, intact : BOOLEAN, poisoned : BOOLEAN]
Infos  == [size : Nat, freed : BOOLEAN]

ASSUME ConstantsAssumption ==
  /\ Sizes \subseteq Int
  /\ Null \notin Pointers \cup Blocks \cup Infos

VARIABLES
  checks,       (* MEMORY_CHECK_DOUBLE_FREE, MEMORY_CHECK_USE_AFTER_FREE   *)
  heap,         (* what libc has given for each pointer                    *)
  allocations,  (* the table                                               *)
  making,       (* what each thread has from malloc and not yet tracked    *)
  held,         (* pointers callers were given and have not given back     *)
  misused,      (* history: a caller was wrong                             *)
  checked,      (* history: what the last memory_check let pass and nobody *)
                (* has damaged since                                       *)
  dead          (* fatal was called                                        *)

vars == <<checks, heap, allocations, making, held, misused, checked, dead>>

NewBlock(size) == [size |-> size, intact |-> TRUE, poisoned |-> FALSE]

(* An option that detects uses after free turns the other on. *)
Options == {o \in [doubleFree : BOOLEAN, useAfterFree : BOOLEAN] :
              o.useAfterFree => o.doubleFree}
KeepsFreed == checks.doubleFree \/ checks.useAfterFree

TypeOK ==
  /\ checks \in Options
  /\ heap \in [Pointers -> Blocks \cup {Null}]
  /\ allocations \in [Pointers -> Infos \cup {Null}]
  /\ making \in [Threads -> Pointers \cup {Null}]
  /\ held \in SUBSET Pointers
  /\ checked \in SUBSET Pointers
  /\ misused \in BOOLEAN /\ dead \in BOOLEAN

Init ==
  /\ checks \in Options
  /\ heap = [p \in Pointers |-> Null]
  /\ allocations = [p \in Pointers |-> Null]
  /\ making = [t \in Threads |-> Null]
  /\ held = {}
  /\ checked = {}
  /\ misused = FALSE /\ dead = FALSE

Unused == {p \in Pointers : heap[p] = Null}

(* hash_insert_alloc_map: a key that is there keeps its value. *)
Inserted(table, p, info) ==
  IF table[p] # Null THEN table ELSE [table EXCEPT ![p] = info]

Removed(table, p) == [table EXCEPT ![p] = Null]

Live(size)  == [size |-> size, freed |-> FALSE]
Freed(size) == [size |-> size, freed |-> TRUE]

(* error_impl, fatal *)
Fatal ==
  /\ dead' = TRUE
  /\ UNCHANGED <<checks, heap, allocations, making, held, checked>>
-----------------------------------------------------------------------------
(* malloc_debug before it takes the mutex: the block has its padding. *)
Malloc(t, size) ==
  /\ making[t] = Null
  /\ IF size < 0
     THEN Fatal /\ misused' = TRUE
     ELSE /\ \E p \in Unused :
               /\ heap' = [heap EXCEPT ![p] = NewBlock(size)]
               /\ making' = [making EXCEPT ![t] = p]
          /\ UNCHANGED <<checks, allocations, held, misused, checked, dead>>

(* malloc_debug with the mutex, to its return. *)
MallocTracks(t) ==
  LET p == making[t]
  IN /\ p # Null
     /\ allocations' = Inserted(allocations, p, Live(heap[p].size))
     /\ making' = [making EXCEPT ![t] = Null]
     /\ held' = held \cup {p}
     /\ UNCHANGED <<checks, heap, misused, checked, dead>>

(* What realloc and free accept: a pointer of the table that was not       *)
(* freed, with its size, and with its padding intact.                      *)
Valid(p, size) ==
  /\ allocations[p] # Null
  /\ ~allocations[p].freed
  /\ allocations[p].size = size
  /\ heap[p].intact

(* A caller is wrong if it gives back what it does not hold. *)
Misuse(p, size) == p \notin held \/ heap[p].size # size

(* Mutant: it is not filled. *)
Kept_NotFilled(p) == heap[p]

(* The block of a freed pointer that is kept: filled with 0xCD if uses     *)
(* after free are looked for. *)
Kept(p) == [heap[p] EXCEPT !.poisoned = checks.useAfterFree \/ @]

(* free_debug of a pointer: with NULL it does nothing. *)
Free(p, size) ==
  /\ misused' = (misused \/ Misuse(p, size))
  /\ IF ~Valid(p, size)
     THEN Fatal
     ELSE /\ held' = held \ {p}
          /\ IF KeepsFreed
             THEN /\ allocations' = Inserted(Removed(allocations, p), p, Freed(size))
                  /\ heap' = [heap EXCEPT ![p] = Kept(p)]
             ELSE /\ allocations' = Removed(allocations, p)
                  /\ heap' = [heap EXCEPT ![p] = Null]
          /\ UNCHANGED <<checks, making, checked, dead>>

(* realloc_debug and realloc_flex_debug without an old pointer. *)
ReallocNull(size) ==
  IF size < 0
  THEN Fatal /\ misused' = TRUE
  ELSE /\ \E p \in Unused :
            /\ heap' = [heap EXCEPT ![p] = NewBlock(size)]
            /\ allocations' = Inserted(allocations, p, Live(size))
            /\ held' = held \cup {p}
       /\ UNCHANGED <<checks, making, misused, checked, dead>>

(* Mutant: the old pointer stays in the table. *)
Moved_KeepsOld(old, size, p, newSize) ==
  /\ allocations' = Inserted(allocations, p, Live(newSize))
  /\ heap' = [heap EXCEPT ![old] = Null, ![p] = NewBlock(newSize)]

(* The block at p is the new one.  If freed blocks are kept, it is another *)
(* one and the old one stays; otherwise realloc may return the same.       *)
Moved(old, size, p, newSize) ==
  IF KeepsFreed
  THEN /\ p # old
       /\ allocations' =
            Inserted(Inserted(Removed(allocations, old), old, Freed(size)), p, Live(newSize))
       /\ heap' = [heap EXCEPT ![old] = Kept(old), ![p] = NewBlock(newSize)]
  ELSE /\ allocations' = Inserted(Removed(allocations, old), p, Live(newSize))
       /\ heap' = [heap EXCEPT ![old] = Null, ![p] = NewBlock(newSize)]

(* realloc_debug and realloc_flex_debug with an old pointer. *)
Realloc(old, size, newSize) ==
  /\ misused' = (misused \/ Misuse(old, size) \/ newSize < 0)
  /\ IF newSize < 0 \/ ~Valid(old, size)
     THEN Fatal
     ELSE /\ \E p \in Unused \cup {old} :
               /\ Moved(old, size, p, newSize)
               /\ held' = (held \ {old}) \cup {p}
          /\ UNCHANGED <<checks, making, checked, dead>>

(* Mutant: blocks that were given back and are kept are passed over. *)
Clean_SkipsFreed(p) == allocations[p].freed \/ heap[p].intact

(* The bytes of a block of the table are as the allocator left them. *)
Clean(p) ==
  /\ heap[p].intact
  /\ checks.useAfterFree /\ allocations[p].freed => heap[p].poisoned

Tracked == {p \in Pointers : allocations[p] # Null}

(* memory_check *)
MemoryCheck ==
  /\ UNCHANGED misused
  /\ IF \A p \in Tracked : Clean(p)
     THEN /\ checked' = Tracked
          /\ UNCHANGED <<checks, heap, allocations, making, held, dead>>
     ELSE Fatal
-----------------------------------------------------------------------------
Damage(p, block) ==
  /\ heap' = [heap EXCEPT ![p] = block]
  /\ misused' = TRUE
  /\ checked' = checked \ {p}
  /\ UNCHANGED <<checks, allocations, making, held, dead>>

(* A caller writes next to a block. *)
WriteOutside(p) ==
  heap[p] # Null /\ Damage(p, [heap[p] EXCEPT !.intact = FALSE])

(* A caller writes to a block that it freed and that is kept. *)
WriteFreed(p) ==
  /\ allocations[p] # Null
  /\ allocations[p].freed /\ allocations[p].size > 0
  /\ Damage(p, [heap[p] EXCEPT !.poisoned = FALSE])

Next ==
  /\ ~dead
  /\ \/ \E t \in Threads, size \in Sizes : Malloc(t, size)
     \/ \E t \in Threads : MallocTracks(t)
     \/ \E p \in Pointers, size \in Sizes : Free(p, size)
     \/ \E size \in Sizes : ReallocNull(size)
     \/ \E p \in Pointers, size, newSize \in Sizes : Realloc(p, size, newSize)
     \/ MemoryCheck
     \/ \E p \in Pointers : WriteOutside(p) \/ WriteFreed(p)

Spec == Init /\ [][Next]_vars
-----------------------------------------------------------------------------
(* Properties. *)

(* The table has every block that libc gave and only those, with the size  *)
(* its caller asked for, and knows which were given back: also for a       *)
(* pointer that libc gives a second time, and while other threads are      *)
(* between malloc and the table.                                           *)
TableIsExact ==
  \A p \in Pointers :
    /\ p \in held => allocations[p] = Live(heap[p].size)
    /\ p \notin held => allocations[p] \in
         IF heap[p] # Null /\ \A t \in Threads : making[t] # p
         THEN {Freed(heap[p].size)} ELSE {Null}
    /\ p \in held => heap[p] # Null

(* The allocator ends the process only when a caller was wrong: a correct  *)
(* program, of any number of threads, has no false alarm.                  *)
NoFalseAlarm == dead => misused

(* What a memory_check let pass was undamaged, and stays so until somebody *)
(* writes there, whatever is freed, moved and allocated meanwhile: both    *)
(* paddings of blocks that are used and of those that are kept, and the    *)
(* bytes of the latter if uses after free are looked for.                  *)
CheckFindsDamage ==
  \A p \in checked \cap Tracked :
    /\ heap[p].intact
    /\ checks.useAfterFree /\ allocations[p].freed => heap[p].poisoned
=============================================================================
