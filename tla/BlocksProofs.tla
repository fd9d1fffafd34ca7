---------------------------- MODULE BlocksProofs -----------------------------
(***************************************************************************)
(* What owns blocks, for any number of threads, blocks, builders and lists *)
(* and any sizes, literals, capacities and lengths: the table of the debug *)
(* allocator is exact and its alarms are right; every block has one owner, *)
(* an array keeps its items, builders implement string variables, and the  *)
(* merge of an array that is sorted in parts sorts it.                     *)
(***************************************************************************)
EXTENDS MCBlocks, SequenceTheorems, FiniteSetTheorems, WellFoundedInduction, TLAPS

-----------------------------------------------------------------------------
(* The debug allocator: its table is exact, and it raises an alarm only for *)
(* a caller that was wrong.                                                 *)

InTransit(p) == \E t \in Threads : making[t] = p

(* A pointer is libc's, on its way to the table, with a caller, or kept.   *)
Row(p) ==
  \/ /\ heap[p] = Null /\ allocations[p] = Null
     /\ p \notin held /\ ~InTransit(p)
  \/ /\ heap[p] # Null /\ allocations[p] = Null
     /\ p \notin held /\ InTransit(p)
  \/ /\ heap[p] # Null /\ allocations[p] = Live(heap[p].size)
     /\ p \in held /\ ~InTransit(p)
  \/ /\ heap[p] # Null /\ allocations[p] = Freed(heap[p].size)
     /\ p \notin held /\ ~InTransit(p)

OneThread == \A t, u \in Threads : making[t] # Null /\ making[t] = making[u] => t = u

Undamaged(p) ==
  /\ heap[p].intact
  /\ checks.useAfterFree /\ allocations[p] # Null /\ allocations[p].freed
       => heap[p].poisoned

(* As long as no caller was wrong, no block is damaged. *)
CorrectCallers ==
  ~misused => ~dead /\ \A p \in Pointers : heap[p] # Null => Undamaged(p)

IInv ==
  /\ TypeOK
  /\ OneThread
  /\ \A p \in Pointers : Row(p)
  /\ CorrectCallers
  /\ \A p \in checked : heap[p] # Null => Undamaged(p)

LEMMA NotNull ==
  ASSUME NEW size \in Nat
  PROVE  /\ NewBlock(size) # Null /\ NewBlock(size) \in Blocks
         /\ NewBlock(size).size = size /\ NewBlock(size).intact
         /\ Live(size) # Null /\ Live(size) \in Infos
         /\ Live(size).size = size /\ ~Live(size).freed
         /\ Freed(size) # Null /\ Freed(size) \in Infos
         /\ Freed(size).size = size /\ Freed(size).freed
<1>1. NewBlock(size) \in Blocks /\ Live(size) \in Infos /\ Freed(size) \in Infos
  BY DEF NewBlock, Blocks, Live, Freed, Infos
<1>2. NewBlock(size).size = size /\ NewBlock(size).intact
  BY DEF NewBlock
<1>3. Live(size).size = size /\ ~Live(size).freed /\ Freed(size).size = size /\ Freed(size).freed
  BY DEF Live, Freed
<1> QED
  BY <1>1, <1>2, <1>3, ConstantsAssumption

LEMMA BlockTypes ==
  ASSUME TypeOK, NEW p \in Pointers, heap[p] # Null
  PROVE  heap[p] \in Blocks /\ heap[p].size \in Nat
BY DEF TypeOK, Blocks

LEMMA PointerNotNull ==
  ASSUME NEW p \in Pointers
  PROVE  p # Null
BY ConstantsAssumption

(* IInv says what the properties say. *)
LEMMA IInvImplies == IInv => TypeOK /\ TableIsExact /\ NoFalseAlarm /\ CheckFindsDamage
<1> SUFFICES ASSUME IInv PROVE TableIsExact /\ NoFalseAlarm /\ CheckFindsDamage
  BY DEF IInv
<1>1. TableIsExact
  <2> SUFFICES ASSUME NEW p \in Pointers
               PROVE  /\ p \in held => allocations[p] = Live(heap[p].size)
                      /\ p \notin held => allocations[p] \in
                           IF heap[p] # Null /\ \A t \in Threads : making[t] # p
                           THEN {Freed(heap[p].size)} ELSE {Null}
                      /\ p \in held => heap[p] # Null
    BY DEF TableIsExact
  <2> QED
    BY DEF IInv, Row, InTransit
<1>2. NoFalseAlarm
  BY DEF IInv, TypeOK, CorrectCallers, NoFalseAlarm
<1>3. CheckFindsDamage
  <2> SUFFICES ASSUME NEW p \in checked \cap Tracked
               PROVE  /\ heap[p].intact
                      /\ checks.useAfterFree /\ allocations[p].freed => heap[p].poisoned
    BY DEF CheckFindsDamage
  <2>1. p \in Pointers /\ allocations[p] # Null /\ Row(p)
    BY DEF IInv, Tracked
  <2>2. heap[p] # Null
    BY <2>1 DEF Row
  <2> QED
    BY <2>1, <2>2 DEF IInv, Undamaged
<1> QED
  BY <1>1, <1>2, <1>3

(* A step has to be looked at for the pointers it touches only. *)
LEMMA Touching ==
  ASSUME IInv, TypeOK', OneThread', NEW T,
         UNCHANGED <<checks, dead>>, misused => misused', checked' \subseteq checked,
         \A q \in Pointers \ T :
           /\ heap'[q] = heap[q] /\ allocations'[q] = allocations[q]
           /\ q \in held' <=> q \in held
           /\ InTransit(q)' <=> InTransit(q),
         \A p \in T \cap Pointers :
           /\ Row(p)'
           /\ ~misused' /\ heap'[p] # Null => Undamaged(p)'
           /\ p \in checked' /\ heap'[p] # Null => Undamaged(p)'
  PROVE  IInv'
<1>1. \A q \in Pointers \ T : Row(q)' /\ (Undamaged(q)' <=> Undamaged(q))
  <2> SUFFICES ASSUME NEW q \in Pointers \ T
               PROVE  Row(q)' /\ (Undamaged(q)' <=> Undamaged(q))
    OBVIOUS
  <2>1. Row(q)
    BY DEF IInv
  <2>2. Row(q)'
    BY <2>1 DEF Row
  <2>3. Undamaged(q)' <=> Undamaged(q)
    BY DEF Undamaged
  <2> QED
    BY <2>2, <2>3
<1>2. \A p \in Pointers : Row(p)'
  BY <1>1
<1>3. CorrectCallers'
  <2> SUFFICES ASSUME ~misused'
               PROVE  ~dead' /\ \A p \in Pointers : heap'[p] # Null => Undamaged(p)'
    BY DEF CorrectCallers
  <2>1. ~dead /\ \A p \in Pointers : heap[p] # Null => Undamaged(p)
    BY DEF IInv, CorrectCallers
  <2> QED
    BY <1>1, <2>1
<1>4. \A p \in checked' : heap'[p] # Null => Undamaged(p)'
  <2> SUFFICES ASSUME NEW p \in checked', heap'[p] # Null
               PROVE  Undamaged(p)'
    OBVIOUS
  <2>1. p \in Pointers /\ p \in checked
    BY DEF IInv, TypeOK
  <2>2. CASE p \in T
    BY <2>1, <2>2
  <2>3. CASE p \notin T
    BY <1>1, <2>1, <2>3 DEF IInv
  <2> QED
    BY <2>2, <2>3
<1> QED
  BY <1>2, <1>3, <1>4 DEF IInv

LEMMA InitIInv == Init => IInv
<1> SUFFICES ASSUME Init PROVE IInv
  OBVIOUS
<1>1. \A p \in Pointers : Row(p)
  BY PointerNotNull DEF Init, Row, InTransit
<1> QED
  BY <1>1 DEF Init, IInv, TypeOK, OneThread, CorrectCallers

LEMMA FatalKeeps ==
  ASSUME IInv, Fatal, misused' = TRUE
  PROVE  IInv'
<1>1. \A p \in Pointers : Row(p)'
  BY DEF IInv, Fatal, Row, InTransit
<1>2. \A p \in checked' : heap'[p] # Null => Undamaged(p)'
  BY DEF IInv, Fatal, Undamaged
<1> QED
  BY <1>1, <1>2 DEF IInv, Fatal, TypeOK, OneThread, CorrectCallers

(* A new block, as malloc and realloc return it. *)
LEMMA NewIsUndamaged ==
  ASSUME NEW p \in Pointers, NEW size \in Nat, heap'[p] = NewBlock(size),
         allocations'[p] # Null => ~allocations'[p].freed
  PROVE  Undamaged(p)'
BY NotNull DEF Undamaged

LEMMA MallocKeeps ==
  ASSUME IInv, NEW t \in Threads, NEW size \in Sizes, Malloc(t, size)
  PROVE  IInv'
<1>1. CASE size < 0
  BY <1>1, FatalKeeps DEF Malloc
<1>2. CASE ~(size < 0)
  <2>1. PICK p \in Unused :
          /\ heap' = [heap EXCEPT ![p] = NewBlock(size)]
          /\ making' = [making EXCEPT ![t] = p]
    BY <1>2 DEF Malloc
  <2>2. /\ p \in Pointers /\ heap[p] = Null /\ making[t] = Null /\ p # Null
        /\ UNCHANGED <<checks, allocations, held, misused, checked, dead>>
    BY <1>2, <2>1, PointerNotNull DEF Malloc, Unused
  <2>3. size \in Nat
    BY <1>2, ConstantsAssumption
  <2>4. p \notin held /\ allocations[p] = Null /\ ~InTransit(p)
    BY <2>2 DEF IInv, Row
  <2>5. \A q \in Pointers : heap'[q] = IF q = p THEN NewBlock(size) ELSE heap[q]
    BY <2>1 DEF IInv, TypeOK
  <2>6. \A u \in Threads : making'[u] = IF u = t THEN p ELSE making[u]
    BY <2>1 DEF IInv, TypeOK
  <2>7. TypeOK'
    BY <2>1, <2>2, <2>3, NotNull DEF IInv, TypeOK
  <2>8. OneThread'
    BY <2>2, <2>4, <2>6 DEF IInv, OneThread, InTransit
  <2>9. \A q \in Pointers \ {p} : InTransit(q)' <=> InTransit(q)
    BY <2>2, <2>6, PointerNotNull DEF InTransit
  <2>10. Row(p)'
    <3>1. InTransit(p)'
      BY <2>6 DEF InTransit
    <3> QED
      BY <2>2, <2>3, <2>4, <2>5, <3>1, NotNull DEF Row
  <2>11. Undamaged(p)'
    BY <2>2, <2>3, <2>4, <2>5, NewIsUndamaged
  <2>12. \A q \in Pointers \ {p} :
           /\ heap'[q] = heap[q] /\ allocations'[q] = allocations[q]
           /\ q \in held' <=> q \in held
           /\ InTransit(q)' <=> InTransit(q)
    BY <2>2, <2>5, <2>9
  <2>13. \A r \in {p} \cap Pointers :
           /\ Row(r)'
           /\ ~misused' /\ heap'[r] # Null => Undamaged(r)'
           /\ r \in checked' /\ heap'[r] # Null => Undamaged(r)'
    BY <2>10, <2>11
  <2> QED
    BY <2>2, <2>7, <2>8, <2>12, <2>13, Touching
<1> QED
  BY <1>1, <1>2

LEMMA MallocTracksKeeps ==
  ASSUME IInv, NEW t \in Threads, MallocTracks(t)
  PROVE  IInv'
<1>0. PICK p \in Pointers : p = making[t]
  BY DEF IInv, TypeOK, MallocTracks
<1>1. p \in Pointers /\ p # Null /\ InTransit(p)
  BY <1>0, PointerNotNull DEF InTransit
<1>2. heap[p] # Null /\ allocations[p] = Null /\ p \notin held
  BY <1>1 DEF IInv, Row
<1>3. heap[p].size \in Nat
  BY <1>1, <1>2, BlockTypes DEF IInv
<1>4. /\ allocations' = [allocations EXCEPT ![p] = Live(heap[p].size)]
      /\ making' = [making EXCEPT ![t] = Null]
      /\ held' = held \cup {p}
      /\ UNCHANGED <<checks, heap, misused, checked, dead>>
  BY <1>0, <1>2 DEF MallocTracks, Inserted
<1>5. \A q \in Pointers : allocations'[q] = IF q = p THEN Live(heap[p].size) ELSE allocations[q]
  BY <1>4 DEF IInv, TypeOK
<1>6. \A u \in Threads : making'[u] = IF u = t THEN Null ELSE making[u]
  BY <1>4 DEF IInv, TypeOK
<1>7. TypeOK'
  BY <1>1, <1>3, <1>4, NotNull DEF IInv, TypeOK
<1>8. OneThread'
  BY <1>6 DEF IInv, OneThread
<1>9. \A q \in Pointers \ {p} : InTransit(q)' <=> InTransit(q)
  BY <1>0, <1>6, PointerNotNull DEF InTransit
<1>10. ~InTransit(p)'
  <2>1. \A u \in Threads : u # t => making[u] # p
    BY <1>0, <1>1 DEF IInv, OneThread
  <2> QED
    BY <1>1, <1>6, <2>1 DEF InTransit
<1>11. Row(p)'
  BY <1>1, <1>2, <1>4, <1>5, <1>10 DEF Row
<1>12. Undamaged(p) => Undamaged(p)'
  BY <1>1, <1>3, <1>4, <1>5, NotNull DEF Undamaged
<1>13. \A q \in Pointers \ {p} :
         /\ heap'[q] = heap[q] /\ allocations'[q] = allocations[q]
         /\ q \in held' <=> q \in held
         /\ InTransit(q)' <=> InTransit(q)
  BY <1>4, <1>5, <1>9
<1>14. \A r \in {p} \cap Pointers :
         /\ Row(r)'
         /\ ~misused' /\ heap'[r] # Null => Undamaged(r)'
         /\ r \in checked' /\ heap'[r] # Null => Undamaged(r)'
  BY <1>1, <1>2, <1>4, <1>11, <1>12 DEF IInv, CorrectCallers
<1> QED
  BY <1>4, <1>7, <1>8, <1>13, <1>14, Touching

(* What realloc and free accept is a block that a caller holds, and only a *)
(* caller that was wrong gives back what they do not accept.               *)
LEMMA ValidIsHeld ==
  ASSUME IInv, NEW p \in Pointers, NEW size, Valid(p, size)
  PROVE  /\ p \in held /\ heap[p] # Null /\ heap[p].intact
         /\ heap[p].size = size /\ size \in Nat /\ ~InTransit(p)
<1>1. Row(p) /\ allocations[p] # Null /\ ~allocations[p].freed /\ allocations[p].size = size
  BY DEF IInv, Valid
<1>2. heap[p] # Null
  BY <1>1 DEF Row
<1>3. heap[p].size \in Nat
  BY <1>2, BlockTypes DEF IInv
<1>4. allocations[p] = Live(heap[p].size) /\ p \in held /\ ~InTransit(p)
  BY <1>1, <1>3, NotNull DEF Row
<1> QED
  BY <1>1, <1>2, <1>3, <1>4, NotNull DEF Valid

LEMMA CorrectIsValid ==
  ASSUME IInv, ~misused, NEW p \in Pointers, NEW size, ~Misuse(p, size)
  PROVE  Valid(p, size)
<1>1. p \in held /\ heap[p].size = size /\ Row(p)
  BY DEF IInv, Misuse
<1>2. heap[p] # Null /\ allocations[p] = Live(heap[p].size)
  BY <1>1 DEF Row
<1>3. heap[p].size \in Nat
  BY <1>2, BlockTypes DEF IInv
<1>4. heap[p].intact
  BY <1>2 DEF IInv, CorrectCallers, Undamaged
<1> QED
  BY <1>1, <1>2, <1>3, <1>4, NotNull DEF Valid

(* A block that is kept after it was given back. *)
LEMMA KeptBlock ==
  ASSUME IInv, NEW p \in Pointers, heap[p] # Null
  PROVE  /\ Kept(p) \in Blocks /\ Kept(p) # Null /\ Kept(p).size = heap[p].size
         /\ Kept(p).intact = heap[p].intact
         /\ checks.useAfterFree => Kept(p).poisoned
<1>1. heap[p] \in Blocks /\ checks.useAfterFree \in BOOLEAN
  BY BlockTypes DEF IInv, TypeOK, Options
<1>2. Kept(p) \in Blocks
  BY <1>1 DEF Kept, Blocks
<1>3. Kept(p) # Null
  BY <1>2, ConstantsAssumption
<1> QED
  BY <1>1, <1>2, <1>3 DEF Kept, Blocks

LEMMA ReallocNullKeeps ==
  ASSUME IInv, NEW size \in Sizes, ReallocNull(size)
  PROVE  IInv'
<1>1. CASE size < 0
  BY <1>1, FatalKeeps DEF ReallocNull
<1>2. CASE ~(size < 0)
  <2>1. PICK p \in Unused :
          /\ heap' = [heap EXCEPT ![p] = NewBlock(size)]
          /\ allocations' = Inserted(allocations, p, Live(size))
          /\ held' = held \cup {p}
    BY <1>2 DEF ReallocNull
  <2>2. p \in Pointers /\ heap[p] = Null /\ UNCHANGED <<checks, making, misused, checked, dead>>
    BY <1>2 DEF ReallocNull, Unused
  <2>3. size \in Nat
    BY <1>2, ConstantsAssumption
  <2>4. allocations[p] = Null /\ ~InTransit(p)
    BY <2>2 DEF IInv, Row
  <2>5. allocations' = [allocations EXCEPT ![p] = Live(size)]
    BY <2>1, <2>4 DEF Inserted
  <2>6. \A q \in Pointers : /\ heap'[q] = IF q = p THEN NewBlock(size) ELSE heap[q]
                            /\ allocations'[q] = IF q = p THEN Live(size) ELSE allocations[q]
    BY <2>1, <2>5 DEF IInv, TypeOK
  <2>7. TypeOK'
    BY <2>1, <2>2, <2>3, <2>5, NotNull DEF IInv, TypeOK
  <2>8. OneThread'
    BY <2>2 DEF IInv, OneThread
  <2>9. \A q \in Pointers : InTransit(q)' <=> InTransit(q)
    BY <2>2 DEF InTransit
  <2>10. Row(p)'
    BY <2>1, <2>2, <2>3, <2>4, <2>6, <2>9, NotNull DEF Row
  <2>11. Undamaged(p)'
    BY <2>2, <2>3, <2>6, NotNull, NewIsUndamaged
  <2>12. \A q \in Pointers \ {p} :
           /\ heap'[q] = heap[q] /\ allocations'[q] = allocations[q]
           /\ q \in held' <=> q \in held
           /\ InTransit(q)' <=> InTransit(q)
    BY <2>1, <2>6, <2>9
  <2>13. \A r \in {p} \cap Pointers :
           /\ Row(r)'
           /\ ~misused' /\ heap'[r] # Null => Undamaged(r)'
           /\ r \in checked' /\ heap'[r] # Null => Undamaged(r)'
    BY <2>10, <2>11
  <2> QED
    BY <2>2, <2>7, <2>8, <2>12, <2>13, Touching
<1> QED
  BY <1>1, <1>2

LEMMA FreeKeeps ==
  ASSUME IInv, NEW p \in Pointers, NEW size \in Sizes, Free(p, size)
  PROVE  IInv'
<1>1. CASE ~Valid(p, size)
  <2>1. misused \/ Misuse(p, size)
    BY <1>1, CorrectIsValid
  <2> QED
    BY <1>1, <2>1, FatalKeeps DEF Free
<1>2. CASE Valid(p, size)
  <2>1. /\ p \in held /\ heap[p] # Null /\ heap[p].intact
        /\ heap[p].size = size /\ size \in Nat /\ ~InTransit(p)
    BY <1>2, ValidIsHeld
  <2>2. /\ held' = held \ {p}
        /\ UNCHANGED <<checks, making, checked, dead>>
        /\ misused' \in BOOLEAN
        /\ misused => misused'
    BY <1>2 DEF Free
  <2>3. OneThread'
    BY <2>2 DEF IInv, OneThread
  <2>4. \A q \in Pointers : InTransit(q)' <=> InTransit(q)
    BY <2>2 DEF InTransit
  <2>5. CASE KeepsFreed
    <3>1. /\ allocations' = Inserted(Removed(allocations, p), p, Freed(size))
          /\ heap' = [heap EXCEPT ![p] = Kept(p)]
      BY <1>2, <2>5 DEF Free
    <3>2. allocations' = [allocations EXCEPT ![p] = Freed(size)]
      BY <3>1 DEF IInv, TypeOK, Inserted, Removed
    <3>3. \A q \in Pointers : /\ heap'[q] = IF q = p THEN Kept(p) ELSE heap[q]
                              /\ allocations'[q] = IF q = p THEN Freed(size) ELSE allocations[q]
      BY <3>1, <3>2 DEF IInv, TypeOK
    <3>4. /\ Kept(p) \in Blocks /\ Kept(p) # Null /\ Kept(p).size = size /\ Kept(p).intact
          /\ checks.useAfterFree => Kept(p).poisoned
      BY <2>1, KeptBlock
    <3>5. TypeOK'
      BY <2>1, <2>2, <3>1, <3>2, <3>4, NotNull DEF IInv, TypeOK
    <3>6. Row(p)'
      BY <2>1, <2>2, <2>4, <3>3, <3>4, NotNull DEF Row
    <3>7. Undamaged(p)'
      BY <2>2, <3>3, <3>4 DEF Undamaged
    <3>8. \A q \in Pointers \ {p} :
             /\ heap'[q] = heap[q] /\ allocations'[q] = allocations[q]
             /\ q \in held' <=> q \in held
             /\ InTransit(q)' <=> InTransit(q)
      BY <2>2, <2>4, <3>3
    <3>9. \A r \in {p} \cap Pointers :
             /\ Row(r)'
             /\ ~misused' /\ heap'[r] # Null => Undamaged(r)'
             /\ r \in checked' /\ heap'[r] # Null => Undamaged(r)'
      BY <3>6, <3>7
    <3> QED
      BY <2>2, <2>3, <3>5, <3>8, <3>9, Touching
  <2>6. CASE ~KeepsFreed
    <3>1. /\ allocations' = [allocations EXCEPT ![p] = Null]
          /\ heap' = [heap EXCEPT ![p] = Null]
      BY <1>2, <2>6 DEF Free, Removed
    <3>2. \A q \in Pointers : /\ heap'[q] = IF q = p THEN Null ELSE heap[q]
                              /\ allocations'[q] = IF q = p THEN Null ELSE allocations[q]
      BY <3>1 DEF IInv, TypeOK
    <3>3. TypeOK'
      BY <2>2, <3>1 DEF IInv, TypeOK
    <3>4. Row(p)' /\ heap'[p] = Null
      BY <2>1, <2>2, <2>4, <3>2 DEF Row
    <3>5. \A q \in Pointers \ {p} :
             /\ heap'[q] = heap[q] /\ allocations'[q] = allocations[q]
             /\ q \in held' <=> q \in held
             /\ InTransit(q)' <=> InTransit(q)
      BY <2>2, <2>4, <3>2
    <3>6. \A r \in {p} \cap Pointers :
             /\ Row(r)'
             /\ ~misused' /\ heap'[r] # Null => Undamaged(r)'
             /\ r \in checked' /\ heap'[r] # Null => Undamaged(r)'
      BY <3>4
    <3> QED
      BY <2>2, <2>3, <3>3, <3>5, <3>6, Touching
  <2> QED
    BY <2>5, <2>6
<1> QED
  BY <1>1, <1>2

LEMMA ReallocKeeps ==
  ASSUME IInv, NEW old \in Pointers, NEW size \in Sizes, NEW newSize \in Sizes,
         Realloc(old, size, newSize)
  PROVE  IInv'
<1>1. CASE newSize < 0 \/ ~Valid(old, size)
  <2>1. misused \/ Misuse(old, size) \/ newSize < 0
    BY <1>1, CorrectIsValid
  <2> QED
    BY <1>1, <2>1, FatalKeeps DEF Realloc
<1>2. CASE ~(newSize < 0 \/ ~Valid(old, size))
  <2>1. PICK p \in Unused \cup {old} :
          /\ Moved(old, size, p, newSize)
          /\ held' = (held \ {old}) \cup {p}
    BY <1>2 DEF Realloc
  <2>2. /\ UNCHANGED <<checks, making, checked, dead>>
        /\ misused' \in BOOLEAN
        /\ misused => misused'
    BY <1>2 DEF Realloc
  <2>3. p \in Pointers /\ newSize \in Nat
    <3>1. p \in Pointers
      BY DEF Unused
    <3>2. newSize \in Int /\ ~(newSize < 0)
      BY <1>2, ConstantsAssumption
    <3> QED
      BY <3>1, <3>2
  <2>4. /\ old \in held /\ heap[old] # Null /\ heap[old].intact
        /\ heap[old].size = size /\ size \in Nat /\ ~InTransit(old)
    BY <1>2, ValidIsHeld
  <2>5. p # old => heap[p] = Null /\ allocations[p] = Null /\ ~InTransit(p)
    BY DEF IInv, Row, Unused
  <2>6. OneThread'
    BY <2>2 DEF IInv, OneThread
  <2>7. \A q \in Pointers : InTransit(q)' <=> InTransit(q)
    BY <2>2 DEF InTransit
  <2>8. CASE KeepsFreed
    <3>1. /\ p # old
          /\ allocations' =
               Inserted(Inserted(Removed(allocations, old), old, Freed(size)), p, Live(newSize))
          /\ heap' = [heap EXCEPT ![old] = Kept(old), ![p] = NewBlock(newSize)]
      BY <2>1, <2>8 DEF Moved
    <3>2. allocations' = [allocations EXCEPT ![old] = Freed(size), ![p] = Live(newSize)]
      BY <2>3, <2>5, <3>1 DEF IInv, TypeOK, Inserted, Removed
    <3>3. \A q \in Pointers :
             /\ heap'[q] = IF q = p THEN NewBlock(newSize)
                           ELSE IF q = old THEN Kept(old) ELSE heap[q]
             /\ allocations'[q] = IF q = p THEN Live(newSize)
                                  ELSE IF q = old THEN Freed(size) ELSE allocations[q]
      BY <2>3, <3>1, <3>2 DEF IInv, TypeOK
    <3>4. /\ Kept(old) \in Blocks /\ Kept(old) # Null
          /\ Kept(old).size = size /\ Kept(old).intact
          /\ checks.useAfterFree => Kept(old).poisoned
      BY <2>4, KeptBlock
    <3>5. TypeOK'
      BY <2>1, <2>2, <2>3, <2>4, <3>1, <3>2, <3>4, NotNull DEF IInv, TypeOK
    <3>6. Row(old)' /\ Undamaged(old)'
      <4>1. old \notin held' /\ ~InTransit(old)'
        BY <2>1, <2>4, <2>7, <3>1
      <4>2. heap'[old] = Kept(old) /\ allocations'[old] = Freed(size)
        BY <3>1, <3>3
      <4>3. Row(old)'
        BY <3>4, <4>1, <4>2 DEF Row
      <4>4. Undamaged(old)'
        BY <2>2, <3>4, <4>2 DEF Undamaged
      <4> QED
        BY <4>3, <4>4
    <3>7. Row(p)' /\ Undamaged(p)'
      <4>1. p \in held' /\ ~InTransit(p)'
        BY <2>1, <2>3, <2>5, <2>7, <3>1
      <4>2. heap'[p] = NewBlock(newSize) /\ allocations'[p] = Live(newSize)
        BY <2>3, <3>3
      <4>3. Row(p)'
        BY <2>3, <4>1, <4>2, NotNull DEF Row
      <4>4. Undamaged(p)'
        BY <2>3, <4>2, NotNull, NewIsUndamaged
      <4> QED
        BY <4>3, <4>4
    <3>8. \A q \in Pointers \ {old, p} :
             /\ heap'[q] = heap[q] /\ allocations'[q] = allocations[q]
             /\ q \in held' <=> q \in held
             /\ InTransit(q)' <=> InTransit(q)
      BY <2>1, <2>7, <3>3
    <3>9. \A r \in {old, p} \cap Pointers :
             /\ Row(r)'
             /\ ~misused' /\ heap'[r] # Null => Undamaged(r)'
             /\ r \in checked' /\ heap'[r] # Null => Undamaged(r)'
      BY <3>6, <3>7
    <3> QED
      BY <2>2, <2>6, <3>5, <3>8, <3>9, Touching
  <2>9. CASE ~KeepsFreed
    <3>1. /\ allocations' = Inserted(Removed(allocations, old), p, Live(newSize))
          /\ heap' = [heap EXCEPT ![old] = Null, ![p] = NewBlock(newSize)]
      BY <2>1, <2>9 DEF Moved
    <3>2. allocations' = [allocations EXCEPT ![old] = Null, ![p] = Live(newSize)]
      BY <2>3, <2>5, <3>1 DEF IInv, TypeOK, Inserted, Removed
    <3>3. \A q \in Pointers :
             /\ heap'[q] = IF q = p THEN NewBlock(newSize)
                           ELSE IF q = old THEN Null ELSE heap[q]
             /\ allocations'[q] = IF q = p THEN Live(newSize)
                                  ELSE IF q = old THEN Null ELSE allocations[q]
      BY <2>3, <3>1, <3>2 DEF IInv, TypeOK
    <3>4. TypeOK'
      BY <2>1, <2>2, <2>3, <3>1, <3>2, NotNull DEF IInv, TypeOK
    <3>5. p # old => Row(old)' /\ heap'[old] = Null
      BY <2>1, <2>4, <2>7, <3>3 DEF Row
    <3>6. Row(p)' /\ Undamaged(p)'
      <4>1. p \in held' /\ ~InTransit(p)'
        BY <2>1, <2>3, <2>4, <2>5, <2>7
      <4>2. heap'[p] = NewBlock(newSize) /\ allocations'[p] = Live(newSize)
        BY <2>3, <3>3
      <4>3. Row(p)'
        BY <2>3, <4>1, <4>2, NotNull DEF Row
      <4>4. Undamaged(p)'
        BY <2>3, <4>2, NotNull, NewIsUndamaged
      <4> QED
        BY <4>3, <4>4
    <3>7. \A q \in Pointers \ {old, p} :
             /\ heap'[q] = heap[q] /\ allocations'[q] = allocations[q]
             /\ q \in held' <=> q \in held
             /\ InTransit(q)' <=> InTransit(q)
      BY <2>1, <2>7, <3>3
    <3>8. \A r \in {old, p} \cap Pointers :
             /\ Row(r)'
             /\ ~misused' /\ heap'[r] # Null => Undamaged(r)'
             /\ r \in checked' /\ heap'[r] # Null => Undamaged(r)'
      BY <3>5, <3>6
    <3> QED
      BY <2>2, <2>6, <3>4, <3>7, <3>8, Touching
  <2> QED
    BY <2>8, <2>9
<1> QED
  BY <1>1, <1>2

LEMMA MemoryCheckKeeps ==
  ASSUME IInv, MemoryCheck
  PROVE  IInv'
<1>1. CASE \A p \in Tracked : Clean(p)
  <2>1. /\ checked' = Tracked
        /\ UNCHANGED <<checks, heap, allocations, making, held, misused, dead>>
    BY <1>1 DEF MemoryCheck
  <2>2. \A p \in checked' : Undamaged(p)'
    BY <1>1, <2>1 DEF Undamaged, Clean
  <2>3. \A p \in Pointers : Row(p)' /\ (Undamaged(p)' <=> Undamaged(p))
    BY <2>1 DEF IInv, Row, InTransit, Undamaged
  <2>4. TypeOK' /\ OneThread'
    BY <2>1 DEF IInv, TypeOK, OneThread, Tracked
  <2>5. CorrectCallers'
    BY <2>1, <2>3 DEF IInv, CorrectCallers
  <2> QED
    BY <2>2, <2>3, <2>4, <2>5 DEF IInv
<1>2. CASE ~(\A p \in Tracked : Clean(p))
  <2>1. PICK p \in Tracked : ~Clean(p)
    BY <1>2
  <2>2. p \in Pointers /\ allocations[p] # Null /\ Row(p)
    BY <2>1 DEF IInv, Tracked
  <2>3. heap[p] # Null /\ ~Undamaged(p)
    BY <2>1, <2>2 DEF Row, Undamaged, Clean
  <2>4. misused = TRUE
    BY <2>2, <2>3 DEF IInv, TypeOK, CorrectCallers
  <2> QED
    BY <1>2, <2>4, FatalKeeps DEF MemoryCheck
<1> QED
  BY <1>1, <1>2

(* A caller that writes where it must not. *)
LEMMA DamageKeeps ==
  ASSUME IInv, NEW p \in Pointers, heap[p] # Null, NEW b \in Blocks,
         b.size = heap[p].size, Damage(p, b)
  PROVE  IInv'
<1>1. /\ heap' = [heap EXCEPT ![p] = b]
      /\ misused' = TRUE /\ checked' = checked \ {p}
      /\ UNCHANGED <<checks, allocations, making, held, dead>>
  BY DEF Damage
<1>2. \A q \in Pointers : heap'[q] = IF q = p THEN b ELSE heap[q]
  BY <1>1 DEF IInv, TypeOK
<1>3. \A q \in Pointers : InTransit(q)' <=> InTransit(q)
  BY <1>1 DEF InTransit
<1>4. TypeOK' /\ OneThread'
  BY <1>1 DEF IInv, TypeOK, OneThread
<1>5. Row(p)'
  <2>1. b # Null
    BY ConstantsAssumption
  <2> QED
    BY <1>1, <1>2, <1>3, <2>1 DEF IInv, Row
<1>6. \A q \in Pointers \ {p} :
        /\ heap'[q] = heap[q] /\ allocations'[q] = allocations[q]
        /\ q \in held' <=> q \in held
        /\ InTransit(q)' <=> InTransit(q)
  BY <1>1, <1>2, <1>3
<1>7. \A r \in {p} \cap Pointers :
        /\ Row(r)'
        /\ ~misused' /\ heap'[r] # Null => Undamaged(r)'
        /\ r \in checked' /\ heap'[r] # Null => Undamaged(r)'
  BY <1>1, <1>5
<1> QED
  BY <1>1, <1>4, <1>6, <1>7, Touching

LEMMA WriteKeeps ==
  ASSUME IInv, NEW p \in Pointers, WriteOutside(p) \/ WriteFreed(p)
  PROVE  IInv'
<1>1. heap[p] # Null
  BY DEF IInv, Row, WriteOutside, WriteFreed
<1>2. heap[p] \in Blocks
  BY <1>1, BlockTypes DEF IInv
<1>3. CASE WriteOutside(p)
  <2>1. /\ [heap[p] EXCEPT !.intact = FALSE] \in Blocks
        /\ [heap[p] EXCEPT !.intact = FALSE].size = heap[p].size
    BY <1>2 DEF Blocks
  <2> QED
    BY <1>1, <1>3, <2>1, DamageKeeps DEF WriteOutside
<1>4. CASE WriteFreed(p)
  <2>1. /\ [heap[p] EXCEPT !.poisoned = FALSE] \in Blocks
        /\ [heap[p] EXCEPT !.poisoned = FALSE].size = heap[p].size
    BY <1>2 DEF Blocks
  <2> QED
    BY <1>1, <1>4, <2>1, DamageKeeps DEF WriteFreed
<1> QED
  BY <1>3, <1>4
-----------------------------------------------------------------------------
LEMMA NextIInv == IInv /\ [Next]_vars => IInv'
<1> SUFFICES ASSUME IInv, [Next]_vars
             PROVE  IInv'
  OBVIOUS
<1>1. ASSUME NEW t \in Threads, NEW size \in Sizes, Malloc(t, size)
      PROVE  IInv'
  BY <1>1, MallocKeeps
<1>2. ASSUME NEW t \in Threads, MallocTracks(t)
      PROVE  IInv'
  BY <1>2, MallocTracksKeeps
<1>3. ASSUME NEW p \in Pointers, NEW size \in Sizes, Free(p, size)
      PROVE  IInv'
  BY <1>3, FreeKeeps
<1>4. ASSUME NEW size \in Sizes, ReallocNull(size)
      PROVE  IInv'
  BY <1>4, ReallocNullKeeps
<1>5. ASSUME NEW p \in Pointers, NEW size \in Sizes, NEW newSize \in Sizes,
             Realloc(p, size, newSize)
      PROVE  IInv'
  BY <1>5, ReallocKeeps
<1>6. CASE MemoryCheck
  BY <1>6, MemoryCheckKeeps
<1>7. ASSUME NEW p \in Pointers, WriteOutside(p) \/ WriteFreed(p)
      PROVE  IInv'
  BY <1>7, WriteKeeps
<1>8. CASE UNCHANGED vars
  BY <1>8 DEF vars, IInv, TypeOK, OneThread, Row, InTransit, CorrectCallers, Undamaged
<1> QED
  BY <1>1, <1>2, <1>3, <1>4, <1>5, <1>6, <1>7, <1>8 DEF Next

LEMMA AlwaysIInv == Spec => []IInv
BY InitIInv, NextIInv, PTL DEF Spec

(* The state of the allocator has its types. *)
THEOREM TypeCorrect == Spec => []TypeOK
<1>1. IInv => TypeOK
  BY DEF IInv
<1> QED
  BY <1>1, AlwaysIInv, PTL

(* malloc_debug, realloc_debug and free_debug keep the table exact, though *)
(* the first allocates before it takes the mutex. *)
THEOREM TableAlwaysExact == Spec => []TableIsExact
BY IInvImplies, AlwaysIInv, PTL

(* A program whose callers are correct is never ended by the allocator. *)
THEOREM NeverFalseAlarm == Spec => []NoFalseAlarm
BY IInvImplies, AlwaysIInv, PTL

(* What a memory_check passed is clean until somebody writes next to it or  *)
(* into it: no later malloc, realloc or free of any thread makes a block    *)
(* look damaged that is not, or lets one pass that is.                      *)
THEOREM CheckAlwaysFindsDamage == Spec => []CheckFindsDamage
BY IInvImplies, AlwaysIInv, PTL

-----------------------------------------------------------------------------
(* Capacities that are doubled until they suffice. *)

(* Enough doublings suffice: a set has no more members than subsets. *)
LEMMA PowerFacts ==
  ASSUME NEW n \in Nat
  PROVE  2^n \in Nat \ {0} /\ n <= 2^n
<1>1. IsFiniteSet(1 .. n) /\ Cardinality(1 .. n) = n
  BY FS_Interval
<1>2. IsFiniteSet(SUBSET (1 .. n)) /\ Cardinality(SUBSET (1 .. n)) = 2^n
  BY <1>1, FS_SUBSET
<1>3. 2^n \in Nat
  BY <1>2, FS_CardinalityType
<1>4. 2^n # 0
  <2>1. SUBSET (1 .. n) # {}
    OBVIOUS
  <2> QED
    BY <1>2, <2>1, FS_EmptySet
<1> DEFINE f == [i \in 1 .. n |-> {i}]
<1>5. f \in Injection(1 .. n, SUBSET (1 .. n))
  BY DEF Injection, IsInjective
<1>6. Cardinality(1 .. n) <= Cardinality(SUBSET (1 .. n))
  BY <1>1, <1>2, <1>5, FS_Injection, Zenon
<1> QED
  BY <1>1, <1>2, <1>3, <1>4, <1>6

(* A set of naturals that is not empty has a least member. *)
LEMMA LeastExists ==
  ASSUME NEW S \in SUBSET Nat, S # {}
  PROVE  \E x \in S : \A y \in S : x <= y
<1> DEFINE R == OpToRel(<, Nat)
<1>1. IsWellFoundedOn(R, Nat)
  BY NatLessThanWellFounded
<1>2. \A x, y \in Nat : x < y => <<x, y>> \in R
  BY DEF OpToRel
<1> HIDE DEF R
<1>3. PICK x \in S : \A y \in S : ~ (<<y, x>> \in R)
  BY <1>1, WFMin
<1>4. \A y \in S : x \in Nat /\ y \in Nat /\ ~ (y < x)
  BY <1>2, <1>3
<1> QED
  BY <1>4

LEMMA LeastIsMember ==
  ASSUME NEW S \in SUBSET Nat, S # {}
  PROVE  B!Min(S) \in S /\ A!Min(S) \in S /\ L!Min(S) \in S
<1>1. PICK x \in S : \A y \in S : x <= y
  BY LeastExists
<1> QED
  BY <1>1 DEF B!Min, A!Min, L!Min

(* The least number of doublings that suffices. *)
LEMMA DoublingSuffices ==
  ASSUME NEW first \in Nat \ {0}, NEW needed \in Nat,
         NEW S, S = {i \in 0 .. needed : first * 2^i >= needed},
         NEW k, k \in {B!Min(S), A!Min(S), L!Min(S)}
  PROVE  first * 2^k \in Nat /\ first * 2^k >= needed /\ first * 2^k >= first
<1>1. needed \in S
  <2>1. 2^needed \in Nat \ {0} /\ needed <= 2^needed
    BY PowerFacts
  <2>2. first * 2^needed >= 2^needed
    BY <2>1
  <2> QED
    BY <2>1, <2>2
<1>2. S \in SUBSET Nat /\ S # {}
  <2>1. S \subseteq 0 .. needed
    OBVIOUS
  <2> QED
    BY <1>1, <2>1
<1>3. k \in S
  BY <1>2, LeastIsMember
<1>4. k \in Nat /\ first * 2^k >= needed
  BY <1>3
<1>5. 2^k \in Nat \ {0}
  BY <1>4, PowerFacts
<1>6. first * 2^k \in Nat /\ first * 2^k >= first
  BY <1>5
<1> QED
  BY <1>4, <1>6
-----------------------------------------------------------------------------
(* The modules that are instances count as this one does. *)
LEMMA CardinalityIs ==
  ASSUME NEW S
  PROVE  B!Cardinality(S) = Cardinality(S) /\ L!Cardinality(S) = Cardinality(S)
BY DEF B!Cardinality, L!Cardinality, Cardinality
-----------------------------------------------------------------------------
(* The owners of blocks: the builders, and the caller that took one away.  *)

Names == Threads \cup {"stolen"}
Records == [data : Pointers \cup {B!NULL}, len : 0 .. MaxLen, cap : Nat]

(* A record and the block it has. *)
Fits(h, s) ==
  /\ s.len < s.cap /\ Len(h[s.data]) = s.cap
  /\ h[s.data][s.len + 1] = B!Nul

(* The string of a record, which is B!Text. *)
Reads(h, s) == IF s.data = B!NULL THEN <<>> ELSE SubSeq(h[s.data], 1, s.len)

(* The owners of S read what they did. *)
SameText(S, h, o, h2, o2) == \A y \in S : Reads(h2, o2[y]) = Reads(h, o[y])

(* The invariant, of a heap h and of the records o of the owners: records  *)
(* without a block are empty, no two have the same one, and none is lost.  *)
Good(h, o) ==
  /\ h \in [Pointers -> Seq(Int)]
  /\ o \in [Names -> Records]
  /\ \A x \in Names : IF o[x].data = B!NULL THEN o[x] = B!NoData ELSE Fits(h, o[x])
  /\ \A x, y \in Names : o[x].data = o[y].data /\ o[x].data # B!NULL => x = y
  /\ \A p \in Pointers : h[p] # <<>> => \E x \in Names : o[x].data = p

LEMMA BuilderConstants ==
  /\ InitialCapacity \in Nat \ {0} /\ MaxLen \in Nat
  /\ \A t \in MCLiterals : t \in Seq(Int) /\ Len(t) \in 1 .. MaxLen
  /\ B!NULL \notin Pointers /\ "stolen" \notin Threads
  /\ B!NoData \in Records
  /\ B!NoData.data = B!NULL /\ B!NoData.len = 0 /\ B!NoData.cap = 0
<1>1. B!StrBuilderAssumption
  BY Instances
<1> QED
  BY <1>1 DEF B!StrBuilderAssumption, B!NoData, Records

LEMMA PrefixIs ==
  ASSUME NEW s \in Seq(Int), NEW t \in Seq(Int), Len(t) <= Len(s),
         \A i \in 1 .. Len(t) : s[i] = t[i]
  PROVE  SubSeq(s, 1, Len(t)) = t
<1>1. /\ SubSeq(s, 1, Len(t)) \in Seq(Int) /\ Len(SubSeq(s, 1, Len(t))) = Len(t)
      /\ \A i \in 1 .. Len(t) : SubSeq(s, 1, Len(t))[i] = s[i]
  OBVIOUS
<1> QED
  BY <1>1, SeqEqual

LEMMA PartIs ==
  ASSUME NEW s, NEW off \in Nat, NEW n \in Nat, \A i \in off + 1 .. off + n : s[i] \in Int
  PROVE  /\ SubSeq(s, off + 1, off + n) \in Seq(Int)
         /\ Len(SubSeq(s, off + 1, off + n)) = n
         /\ \A i \in 1 .. n : SubSeq(s, off + 1, off + n)[i] = s[off + i]
BY SubSeqProperties

LEMMA JoinedIs ==
  ASSUME NEW s \in Seq(Int), NEW t \in Seq(Int)
  PROVE  /\ s \o t \in Seq(Int) /\ Len(s \o t) = Len(s) + Len(t)
         /\ \A i \in 1 .. Len(s) + Len(t) :
              \/ i \in 1 .. Len(s) /\ (s \o t)[i] = s[i]
              \/ \E k \in 1 .. Len(t) : i = Len(s) + k /\ (s \o t)[i] = t[k]
<1>1. /\ s \o t \in Seq(Int) /\ Len(s \o t) = Len(s) + Len(t)
      /\ \A i \in 1 .. Len(s) + Len(t) :
           (s \o t)[i] = IF i <= Len(s) THEN s[i] ELSE t[i - Len(s)]
  BY ConcatProperties
<1> SUFFICES ASSUME NEW i \in 1 .. Len(s) + Len(t)
             PROVE  \/ i \in 1 .. Len(s) /\ (s \o t)[i] = s[i]
                    \/ \E k \in 1 .. Len(t) : i = Len(s) + k /\ (s \o t)[i] = t[k]
  BY <1>1
<1>2. Len(s) \in Nat /\ Len(t) \in Nat
  OBVIOUS
<1>3. CASE i <= Len(s)
  BY <1>1, <1>2, <1>3
<1>4. CASE ~ (i <= Len(s))
  <2>1. i - Len(s) \in 1 .. Len(t) /\ i = Len(s) + (i - Len(s))
    BY <1>2, <1>4
  <2> QED
    BY <1>1, <1>4, <2>1
<1> QED
  BY <1>3, <1>4

(* What an owner reads. *)
LEMMA TextFacts ==
  ASSUME NEW h, NEW o, Good(h, o), NEW x \in Names
  PROVE  /\ Reads(h, o[x]) \in Seq(Int)
         /\ Len(Reads(h, o[x])) = o[x].len
         /\ o[x].data # B!NULL =>
              \A i \in 1 .. o[x].len : Reads(h, o[x])[i] = h[o[x].data][i]
<1>1. o[x] \in Records
  BY DEF Good
<1>2. CASE o[x].data = B!NULL
  BY <1>2, BuilderConstants DEF Good, Reads
<1>3. CASE o[x].data # B!NULL
  <2>1. /\ h[o[x].data] \in Seq(Int) /\ o[x].len \in Nat
        /\ o[x].len < Len(h[o[x].data])
    BY <1>1, <1>3 DEF Good, Fits, Records
  <2> QED
    BY <1>3, <2>1 DEF Reads
<1> QED
  BY <1>2, <1>3

(* The owner x gets another record and the block for it, at the place it   *)
(* had or at a free one, and its old block is freed.                       *)
Replaced(h, o, x, h2, o2) ==
  /\ h2 \in [Pointers -> Seq(Int)] /\ o2 \in [Names -> Records]
  /\ o2[x].data # B!NULL
  /\ o2[x].data = o[x].data \/ h[o2[x].data] = <<>>
  /\ Fits(h2, o2[x])
  /\ \A p \in Pointers \ {o2[x].data} : h2[p] = IF p = o[x].data THEN <<>> ELSE h[p]
  /\ \A y \in Names \ {x} : o2[y] = o[y]

ReadsAs(h, s, t) ==
  t \in Seq(Int) /\ Len(t) = s.len /\ \A i \in 1 .. s.len : h[s.data][i] = t[i]

(* It reads what the block has now, and the others read what they did. *)
LEMMA Rewritten ==
  ASSUME NEW h, NEW o, Good(h, o), NEW x \in Names,
         NEW h2, NEW o2, Replaced(h, o, x, h2, o2),
         NEW t, ReadsAs(h2, o2[x], t)
  PROVE  /\ Good(h2, o2)
         /\ Reads(h2, o2[x]) = t
         /\ SameText(Names \ {x}, h, o, h2, o2)
<1>0. PICK r \in Records, content \in Seq(Int) : r = o2[x] /\ content = h2[r.data]
  BY DEF Records, Replaced
<1>1. /\ h \in [Pointers -> Seq(Int)] /\ o \in [Names -> Records]
      /\ h2 \in [Pointers -> Seq(Int)] /\ o2 \in [Names -> Records]
      /\ r.data \in Pointers /\ r.len \in Nat
  BY <1>0 DEF Good, Records, Replaced
<1>2. /\ o2[x] = r /\ h2[r.data] = content
      /\ Len(content) = r.cap /\ r.len < r.cap /\ content[r.len + 1] = B!Nul
      /\ t \in Seq(Int) /\ Len(t) = r.len /\ (\A i \in 1 .. r.len : content[i] = t[i])
      /\ r.data # B!NULL /\ (r.data = o[x].data \/ h[r.data] = <<>>)
      /\ \A y \in Names \ {x} : o2[y] = o[y]
      /\ \A p \in Pointers \ {r.data} : h2[p] = IF p = o[x].data THEN <<>> ELSE h[p]
  BY <1>0 DEF Fits, Replaced, ReadsAs
<1>3. ASSUME NEW y \in Names \ {x}, o[y].data # B!NULL
      PROVE  o[y].data # r.data /\ o[y].data # o[x].data /\ h2[o[y].data] = h[o[y].data]
  <2>1. o[y].data \in Pointers /\ o[y].data # o[x].data
    BY <1>1, <1>3 DEF Good, Records
  <2>2. h[o[y].data] # <<>>
    BY <1>1, <1>3, <2>1 DEF Good, Fits, Records
  <2> QED
    BY <1>1, <1>2, <2>1, <2>2
<1>4. Fits(h2, r)
  BY <1>2 DEF Fits
<1>5. ASSUME NEW y \in Names
      PROVE  IF o2[y].data = B!NULL THEN o2[y] = B!NoData ELSE Fits(h2, o2[y])
  <2>1. CASE y = x
    BY <2>1, <1>2, <1>4
  <2>2. CASE y # x
    <3>1. y \in Names \ {x} /\ o2[y] = o[y]
      BY <2>2, <1>2
    <3>2. CASE o[y].data = B!NULL
      BY <3>1, <3>2 DEF Good
    <3>3. CASE o[y].data # B!NULL
      <4>1. Fits(h, o[y]) /\ h2[o[y].data] = h[o[y].data]
        BY <3>1, <3>3, <1>3 DEF Good
      <4> QED
        BY <3>1, <3>3, <4>1 DEF Fits
    <3> QED
      BY <3>2, <3>3
  <2> QED
    BY <2>1, <2>2
<1>6. \A y, z \in Names : o2[y].data = o2[z].data /\ o2[y].data # B!NULL => y = z
  <2> SUFFICES ASSUME NEW y \in Names, NEW z \in Names,
                      o2[y].data = o2[z].data, o2[y].data # B!NULL
               PROVE  y = z
    OBVIOUS
  <2>1. CASE y # x /\ z # x
    BY <2>1, <1>2 DEF Good
  <2>2. CASE y = x /\ z # x
    BY <2>2, <1>2, <1>3
  <2>3. CASE y # x /\ z = x
    BY <2>3, <1>2, <1>3
  <2> QED
    BY <2>1, <2>2, <2>3
<1>7. ASSUME NEW p \in Pointers, h2[p] # <<>>
      PROVE  \E y \in Names : o2[y].data = p
  <2>1. CASE p = r.data
    BY <2>1, <1>2
  <2>2. CASE p # r.data
    <3>1. h[p] # <<>> /\ p # o[x].data
      BY <2>2, <1>1, <1>2, <1>7
    <3>2. PICK y \in Names : o[y].data = p
      BY <3>1 DEF Good
    <3> QED
      BY <3>1, <3>2, <1>2
  <2> QED
    BY <2>1, <2>2
<1>8. Good(h2, o2)
  BY <1>1, <1>5, <1>6, <1>7 DEF Good
<1>9. Reads(h2, o2[x]) = t
  <2>1. content \in Seq(Int) /\ t \in Seq(Int) /\ Len(t) <= Len(content)
        /\ (\A i \in 1 .. Len(t) : content[i] = t[i])
    BY <1>0, <1>1, <1>2 DEF Records
  <2>2. SubSeq(content, 1, Len(t)) = t
    BY <2>1, PrefixIs
  <2> QED
    BY <1>2, <2>2 DEF Reads
<1>10. \A y \in Names \ {x} : Reads(h2, o2[y]) = Reads(h, o[y])
  BY <1>2, <1>3 DEF Reads
<1> QED
  BY <1>8, <1>9, <1>10 DEF SameText

(* The owner x gives its block back. *)
LEMMA GivenBack ==
  ASSUME NEW h, NEW o, Good(h, o), NEW x \in Names,
         NEW h2, h2 = B!FreeBlock(h, o[x].data),
         NEW o2, o2 = [o EXCEPT ![x] = B!NoData]
  PROVE  /\ Good(h2, o2)
         /\ SameText(Names \ {x}, h, o, h2, o2)
<1>1. /\ h \in [Pointers -> Seq(Int)] /\ o \in [Names -> Records]
      /\ B!NoData \in Records /\ B!NoData.data = B!NULL /\ B!NULL \notin Pointers
      /\ <<>> \in Seq(Int)
  BY BuilderConstants DEF Good
<1>2. /\ h2 = [p \in Pointers |-> IF p = o[x].data THEN <<>> ELSE h[p]]
      /\ h2 \in [Pointers -> Seq(Int)] /\ o2 \in [Names -> Records]
      /\ o2[x] = B!NoData
      /\ \A y \in Names \ {x} : o2[y] = o[y]
  BY <1>1 DEF B!FreeBlock
<1>3. ASSUME NEW y \in Names \ {x}, o[y].data # B!NULL
      PROVE  h2[o[y].data] = h[o[y].data]
  <2>1. o[y].data \in Pointers /\ o[y].data # o[x].data
    BY <1>1, <1>3 DEF Good, Records
  <2> QED
    BY <1>2, <2>1
<1>4. ASSUME NEW y \in Names
      PROVE  IF o2[y].data = B!NULL THEN o2[y] = B!NoData ELSE Fits(h2, o2[y])
  <2>1. CASE y = x
    BY <2>1, <1>1, <1>2
  <2>2. CASE y # x
    <3>1. y \in Names \ {x} /\ o2[y] = o[y]
      BY <2>2, <1>2
    <3>2. CASE o[y].data = B!NULL
      BY <3>1, <3>2 DEF Good
    <3>3. CASE o[y].data # B!NULL
      <4>1. Fits(h, o[y]) /\ h2[o[y].data] = h[o[y].data]
        BY <3>1, <3>3, <1>3 DEF Good
      <4> QED
        BY <3>1, <3>3, <4>1 DEF Fits
    <3> QED
      BY <3>2, <3>3
  <2> QED
    BY <2>1, <2>2
<1>5. \A y, z \in Names : o2[y].data = o2[z].data /\ o2[y].data # B!NULL => y = z
  BY <1>1, <1>2 DEF Good
<1>6. ASSUME NEW p \in Pointers, h2[p] # <<>>
      PROVE  \E y \in Names : o2[y].data = p
  <2>1. h[p] # <<>> /\ p # o[x].data
    BY <1>2, <1>6
  <2>2. PICK y \in Names : o[y].data = p
    BY <2>1 DEF Good
  <2> QED
    BY <2>1, <2>2, <1>2
<1>7. \A y \in Names \ {x} : Reads(h2, o2[y]) = Reads(h, o[y])
  BY <1>2, <1>3 DEF Reads
<1>8. Good(h2, o2)
  BY <1>2, <1>4, <1>5, <1>6 DEF Good
<1> QED
  BY <1>7, <1>8 DEF SameText

(* The owner y, which has none, takes over the block of x. *)
HandedTo(o, x, y) == [o EXCEPT ![y] = o[x], ![x] = B!NoData]

LEMMA HandedOver ==
  ASSUME NEW h, NEW o, Good(h, o), NEW x \in Names, NEW y \in Names, x # y,
         o[y] = B!NoData,
         NEW o2, o2 = HandedTo(o, x, y)
  PROVE  /\ Good(h, o2)
         /\ Reads(h, o2[y]) = Reads(h, o[x]) /\ Reads(h, o2[x]) = <<>>
         /\ SameText(Names \ {x, y}, h, o, h, o2)
<1>1. /\ o \in [Names -> Records]
      /\ B!NoData \in Records /\ B!NoData.data = B!NULL
  BY BuilderConstants DEF Good
<1>2. /\ o2 \in [Names -> Records] /\ o2[y] = o[x] /\ o2[x] = B!NoData
      /\ \A z \in Names \ {x, y} : o2[z] = o[z]
  BY <1>1 DEF HandedTo
<1>3. \A z \in Names : IF o2[z].data = B!NULL THEN o2[z] = B!NoData ELSE Fits(h, o2[z])
  BY <1>1, <1>2 DEF Good
<1>4. \A z, w \in Names : o2[z].data = o2[w].data /\ o2[z].data # B!NULL => z = w
  BY <1>1, <1>2 DEF Good
<1>5. ASSUME NEW p \in Pointers, h[p] # <<>>
      PROVE  \E z \in Names : o2[z].data = p
  <2>1. PICK z \in Names : o[z].data = p
    BY <1>5 DEF Good
  <2>2. p # B!NULL
    BY BuilderConstants
  <2> QED
    BY <2>1, <2>2, <1>1, <1>2
<1> QED
  BY <1>1, <1>2, <1>3, <1>4, <1>5 DEF Good, Reads, SameText
-----------------------------------------------------------------------------
(* What an action of the builders does to the records of the owners. *)

LEMMA OwnersAre ==
  /\ DOMAIN B!Owners = Names
  /\ B!Owners["stolen"] = stolen
  /\ \A b \in Threads : B!Owners[b] = sb[b]
BY BuilderConstants DEF B!Owners, Names

(* The invariant of the builders. *)
BuilderInv ==
  /\ sb \in [Threads -> Records]
  /\ Good(bytes, B!Owners)
  /\ wrong = FALSE

LEMMA OwnerChanged ==
  ASSUME BuilderInv, NEW b \in Threads, NEW r,
         sb' = [sb EXCEPT ![b] = r], UNCHANGED stolen
  PROVE  B!Owners' = [B!Owners EXCEPT ![b] = r]
<1>1. sb \in [Threads -> Records] /\ b # "stolen"
  BY BuilderConstants DEF BuilderInv
<1>2. B!Owners' = [x \in Names |-> IF x = "stolen" THEN stolen ELSE sb'[x]]
  BY DEF B!Owners, Names
<1>3. [B!Owners EXCEPT ![b] = r] =
        [x \in Names |-> IF x = b THEN r ELSE B!Owners[x]]
  BY OwnersAre
<1>4. \A x \in Names : (IF x = "stolen" THEN stolen ELSE sb'[x])
                         = (IF x = b THEN r ELSE B!Owners[x])
  BY <1>1, OwnersAre DEF Names
<1> QED
  BY <1>2, <1>3, <1>4

LEMMA StolenChanged ==
  ASSUME BuilderInv, NEW r, stolen' = r, UNCHANGED sb
  PROVE  B!Owners' = [B!Owners EXCEPT !["stolen"] = r]
<1>1. B!Owners' = [x \in Names |-> IF x = "stolen" THEN r ELSE sb[x]]
  BY DEF B!Owners, Names
<1>2. [B!Owners EXCEPT !["stolen"] = r] =
        [x \in Names |-> IF x = "stolen" THEN r ELSE B!Owners[x]]
  BY OwnersAre
<1>3. \A x \in Names : x # "stolen" => B!Owners[x] = sb[x]
  BY OwnersAre DEF Names
<1> QED
  BY <1>1, <1>2, <1>3

(* Blocks are given back with the sizes they have. *)
LEMMA SizesAreRight ==
  ASSUME BuilderInv, NEW x \in Names
  PROVE  ~ B!SizeIsWrong(B!Owners[x].data, B!Owners[x].cap)
BY DEF BuilderInv, Good, Fits, B!SizeIsWrong
-----------------------------------------------------------------------------
(* Sources, and what is appended of them. *)

Content(src) ==
  IF src.ptr = B!NULL THEN src.lit
  ELSE SubSeq(bytes[src.ptr], src.off + 1, src.off + src.n)

(* A source is a literal or a part of the string of a builder. *)
LEMMA SourceFacts ==
  ASSUME BuilderInv, NEW src \in B!Sources, B!Within(src)
  PROVE  /\ src.n \in 1 .. MaxLen
         /\ \/ /\ src.ptr = B!NULL /\ src.lit \in MCLiterals
               /\ src.lit \in Seq(Int) /\ Len(src.lit) = src.n
            \/ \E c \in Threads :
                 /\ src.ptr = sb[c].data /\ src.ptr # B!NULL
                 /\ src.off \in Nat /\ src.off + src.n <= sb[c].len
<1>1. CASE \E t \in MCLiterals : src = B!Lit(t)
  <2>1. PICK t \in MCLiterals : src = B!Lit(t)
    BY <1>1
  <2>2. src.ptr = B!NULL /\ src.lit = t /\ src.n = Len(t)
    BY <2>1 DEF B!Lit
  <2> QED
    BY <2>2, BuilderConstants
<1>2. CASE \E c \in {d \in Threads : sb[d].data # B!NULL}, i \in 1 .. MaxLen,
              n \in 1 .. MaxLen : src = B!Part(c, i - 1, n)
  <2>1. PICK c \in Threads, i \in 1 .. MaxLen, n \in 1 .. MaxLen :
          sb[c].data # B!NULL /\ src = B!Part(c, i - 1, n)
    BY <1>2
  <2>2. src.ptr = sb[c].data /\ src.off = i - 1 /\ src.n = n
    BY <2>1 DEF B!Part
  <2>3. src.off + src.n <= sb[c].len
    BY <2>1, <2>2 DEF B!Within
  <2> QED
    BY <2>1, <2>2, <2>3, BuilderConstants
<1> QED
  BY <1>1, <1>2 DEF B!Sources

LEMMA ContentFacts ==
  ASSUME BuilderInv, NEW src \in B!Sources, B!Within(src)
  PROVE  /\ Content(src) \in Seq(Int) /\ Len(Content(src)) = src.n
         /\ src.ptr # B!NULL =>
              \A i \in 1 .. src.n : Content(src)[i] = bytes[src.ptr][src.off + i]
<1>1. src.n \in 1 .. MaxLen /\ MaxLen \in Nat
  BY SourceFacts, BuilderConstants
<1>2. CASE src.ptr = B!NULL
  <2>1. src.lit \in Seq(Int) /\ Len(src.lit) = src.n
    <3>1. ~ \E c \in Threads : src.ptr = sb[c].data /\ src.ptr # B!NULL
      BY <1>2
    <3> QED
      BY <3>1, SourceFacts
  <2> QED
    BY <1>2, <2>1 DEF Content
<1>3. CASE src.ptr # B!NULL
  <2>1. PICK c \in Threads :
          /\ src.ptr = sb[c].data /\ src.ptr # B!NULL
          /\ src.off \in Nat /\ src.off + src.n <= sb[c].len
    BY <1>3, SourceFacts
  <2>2. /\ c \in Names /\ B!Owners[c] = sb[c] /\ sb[c] \in Records
    BY OwnersAre DEF Names, BuilderInv
  <2>3. bytes[src.ptr] \in Seq(Int) /\ sb[c].len < Len(bytes[src.ptr])
    BY <2>1, <2>2 DEF BuilderInv, Good, Fits, Records
  <2>4. sb[c].len \in Nat
    BY <2>2 DEF Records
  <2>5. \A i \in src.off + 1 .. src.off + src.n : bytes[src.ptr][i] \in Int
    BY <1>1, <2>1, <2>3, <2>4, SMTT(20)
  <2>6. /\ SubSeq(bytes[src.ptr], src.off + 1, src.off + src.n) \in Seq(Int)
        /\ Len(SubSeq(bytes[src.ptr], src.off + 1, src.off + src.n)) = src.n
        /\ \A i \in 1 .. src.n :
             SubSeq(bytes[src.ptr], src.off + 1, src.off + src.n)[i]
               = bytes[src.ptr][src.off + i]
    BY <1>1, <2>1, <2>5, PartIs
  <2> QED
    BY <1>3, <2>6 DEF Content
<1> QED
  BY <1>2, <1>3
-----------------------------------------------------------------------------
(* sb_reserve leaves a block with room for the string, what is appended to *)
(* it and the NUL, which begins with all that the old one had.             *)
LEMMA ReservedFacts ==
  ASSUME BuilderInv, NEW b \in Threads, NEW s \in Records,
         s.data = sb[b].data, s.cap = sb[b].cap, s.len <= sb[b].len,
         NEW extra \in Nat, NEW q \in B!Places(s.data),
         NEW r, r = B!Reserved(s, extra, q)
  PROVE  /\ r.s = [data |-> r.s.data, len |-> s.len, cap |-> r.s.cap]
         /\ r.s.data \in Pointers /\ r.s.cap \in Nat
         /\ s.len + extra + 1 <= r.s.cap
         /\ r.s.data = s.data \/ bytes[r.s.data] = <<>>
         /\ r.h \in [Pointers -> Seq(Int)] /\ Len(r.h[r.s.data]) = r.s.cap
         /\ s.data # B!NULL =>
              /\ sb[b].len < r.s.cap
              /\ \A i \in 1 .. sb[b].len : r.h[r.s.data][i] = bytes[s.data][i]
         /\ \A p \in Pointers \ {r.s.data} :
              r.h[p] = IF p = s.data THEN <<>> ELSE bytes[p]
<1>n. PICK needed : needed = s.len + extra + 1
  OBVIOUS
<1>c. PICK cap : cap = B!NewCap(s.cap, needed)
  OBVIOUS
<1>1. /\ bytes \in [Pointers -> Seq(Int)] /\ B!NULL \notin Pointers
      /\ s.len \in Nat /\ s.cap \in Nat /\ s.data \in Pointers \cup {B!NULL}
      /\ sb[b] \in Records /\ sb[b].len \in Nat /\ needed \in Nat
      /\ s = [data |-> s.data, len |-> s.len, cap |-> s.cap]
  BY <1>n, BuilderConstants DEF BuilderInv, Good, Records
<1>2. s.data # B!NULL => Len(bytes[s.data]) = s.cap /\ sb[b].len < s.cap
  <2>1. b \in Names /\ B!Owners[b] = sb[b]
    BY OwnersAre DEF Names
  <2> QED
    BY <2>1 DEF BuilderInv, Good, Fits
<1>3. CASE B!Enough(s, needed)
  <2>1. r = [s |-> s, h |-> bytes] /\ s.data # B!NULL /\ needed <= s.cap
    BY <1>n, <1>3 DEF B!Reserved, B!Enough
  <2>2. r.s = s /\ r.h = bytes
    BY <2>1
  <2>3. /\ r.s = [data |-> r.s.data, len |-> s.len, cap |-> r.s.cap]
        /\ r.s.data \in Pointers /\ r.s.cap \in Nat
        /\ s.len + extra + 1 <= r.s.cap
    BY <1>n, <1>1, <2>1, <2>2
  <2> QED
    BY <1>1, <1>2, <2>1, <2>2, <2>3
<1>4. CASE ~ B!Enough(s, needed)
  <2>1. cap \in Nat /\ cap >= needed /\ cap >= s.cap
    <3> DEFINE first == IF s.cap <= 0 THEN InitialCapacity ELSE s.cap
    <3>1. first \in Nat \ {0} /\ first >= s.cap
      BY <1>1, BuilderConstants
    <3> HIDE DEF first
    <3>s. PICK S, k : /\ S = {i \in 0 .. needed : first * 2^i >= needed}
                      /\ k = B!Min(S)
      OBVIOUS
    <3>2. first * 2^k \in Nat /\ first * 2^k >= needed /\ first * 2^k >= first
      BY <1>1, <3>1, <3>s, DoublingSuffices
    <3>3. cap = first * 2^k
      BY <1>c, <3>s DEF first, B!NewCap
    <3> QED
      BY <1>1, <3>1, <3>2, <3>3
  <2>2. q \in Pointers /\ (q = s.data \/ bytes[q] = <<>>)
    BY <1>1 DEF B!Places
  <2>3. r = [s |-> [s EXCEPT !.data = q, !.cap = cap],
             h |-> B!Realloc(bytes, s.data, q, cap)]
    BY <1>n, <1>c, <1>4 DEF B!Reserved
  <2>4. r.s = [data |-> q, len |-> s.len, cap |-> cap]
    <3>1. r.s = [s EXCEPT !.data = q, !.cap = cap]
      BY <2>3
    <3>2. s \in [data : Pointers \cup {B!NULL}, len : 0 .. MaxLen, cap : Nat]
      BY DEF Records
    <3> QED
      BY <3>1, <3>2
  <2>o. PICK old : old = IF s.data = B!NULL THEN <<>> ELSE bytes[s.data]
    OBVIOUS
  <2>5. old \in Seq(Int) /\ Len(old) <= cap
        /\ (s.data # B!NULL => old = bytes[s.data])
    BY <2>o, <1>1, <1>2, <2>1
  <2>6. r.h = [p \in Pointers |-> IF p = q THEN B!Block(old, cap)
                                  ELSE IF p = s.data THEN <<>> ELSE bytes[p]]
    BY <2>o, <2>3 DEF B!Realloc
  <2>7. /\ B!Block(old, cap) \in Seq(Int) /\ Len(B!Block(old, cap)) = cap
        /\ \A i \in 1 .. Len(old) : B!Block(old, cap)[i] = old[i]
    <3>1. B!Block(old, cap) = [i \in 1 .. cap |-> IF i <= Len(old) THEN old[i]
                                                  ELSE B!Garbage]
      BY DEF B!Block
    <3>2. \A i \in 1 .. cap : (IF i <= Len(old) THEN old[i] ELSE B!Garbage) \in Int
      BY <2>1, <2>5 DEF B!Garbage
    <3>3. B!Block(old, cap) \in [1 .. cap -> Int]
      BY <3>1, <3>2
    <3> QED
      BY <2>1, <2>5, <3>1, <3>3, SMTT(20)
  <2>8. /\ r.h \in [Pointers -> Seq(Int)] /\ r.h[q] = B!Block(old, cap)
        /\ \A p \in Pointers \ {q} : r.h[p] = IF p = s.data THEN <<>> ELSE bytes[p]
    <3>1. <<>> \in Seq(Int)
      OBVIOUS
    <3> QED
      BY <1>1, <2>2, <2>6, <2>7, <3>1
  <2>9. s.data # B!NULL =>
          /\ sb[b].len < cap
          /\ \A i \in 1 .. sb[b].len : r.h[q][i] = bytes[s.data][i]
    <3> SUFFICES ASSUME s.data # B!NULL
                 PROVE  /\ sb[b].len < cap
                        /\ \A i \in 1 .. sb[b].len : r.h[q][i] = bytes[s.data][i]
      OBVIOUS
    <3>1. Len(old) = s.cap /\ sb[b].len < s.cap /\ old = bytes[s.data]
      BY <1>2, <2>5
    <3>2. \A i \in 1 .. sb[b].len : i \in 1 .. Len(old)
      BY <1>1, <3>1, SMTT(20)
    <3> QED
      BY <1>1, <2>1, <2>7, <2>8, <3>1, <3>2, SMTT(20)
  <2>10. r.s.data = q /\ r.s.cap = cap
    BY <2>4
  <2> QED
    BY <1>n, <1>1, <2>1, <2>2, <2>4, <2>7, <2>8, <2>9, <2>10
<1> QED
  BY <1>3, <1>4

(* sb_append: the string, which may have been cut before, the content of   *)
(* the source, although the block it is in may have moved, and a NUL.      *)
LEMMA AppendedFacts ==
  ASSUME BuilderInv, NEW b \in Threads, NEW s \in Records,
         s.data = sb[b].data, s.cap = sb[b].cap, s.len <= sb[b].len,
         NEW src \in B!Sources, B!Within(src), s.len + src.n <= MaxLen,
         NEW q \in B!Places(s.data),
         NEW a, a = B!Appended(s, src, q)
  PROVE  /\ a.s \in Records /\ a.s.data # B!NULL
         /\ a.s.data = s.data \/ bytes[a.s.data] = <<>>
         /\ a.s.len = s.len + src.n
         /\ a.h \in [Pointers -> Seq(Int)] /\ Fits(a.h, a.s)
         /\ \A i \in 1 .. s.len : a.h[a.s.data][i] = bytes[s.data][i]
         /\ \A i \in 1 .. src.n : a.h[a.s.data][s.len + i] = Content(src)[i]
         /\ \A p \in Pointers \ {a.s.data} :
              a.h[p] = IF p = s.data THEN <<>> ELSE bytes[p]
<1>r. PICK r : r = B!Reserved(s, src.n, q)
  OBVIOUS
<1>d. PICK d : d = r.s.data
  OBVIOUS
<1>f. PICK from : from = IF src.ptr = s.data /\ s.data # B!NULL
                         THEN [src EXCEPT !.ptr = d] ELSE src
  OBVIOUS
<1>w. PICK w : w = B!Bytes(from, r.h)
  OBVIOUS
<1>1. /\ bytes \in [Pointers -> Seq(Int)] /\ B!NULL \notin Pointers
      /\ s.len \in Nat /\ s.cap \in Nat /\ s.data \in Pointers \cup {B!NULL}
      /\ sb \in [Threads -> Records] /\ sb[b].len \in Nat
      /\ MaxLen \in Nat /\ src.n \in 1 .. MaxLen
  <2>1. src.n \in 1 .. MaxLen
    BY SourceFacts
  <2> QED
    BY <2>1, BuilderConstants DEF BuilderInv, Good, Records
<1>2. /\ r.s = [data |-> d, len |-> s.len, cap |-> r.s.cap]
      /\ d \in Pointers /\ r.s.cap \in Nat
      /\ s.len + src.n + 1 <= r.s.cap
      /\ d = s.data \/ bytes[d] = <<>>
      /\ r.h \in [Pointers -> Seq(Int)] /\ Len(r.h[d]) = r.s.cap
      /\ s.data # B!NULL =>
           /\ sb[b].len < r.s.cap
           /\ \A i \in 1 .. sb[b].len : r.h[d][i] = bytes[s.data][i]
      /\ \A p \in Pointers \ {d} : r.h[p] = IF p = s.data THEN <<>> ELSE bytes[p]
  <2>1. src.n \in Nat
    BY <1>1
  <2>2. /\ r.s = [data |-> r.s.data, len |-> s.len, cap |-> r.s.cap]
        /\ r.s.data \in Pointers /\ r.s.cap \in Nat
        /\ s.len + src.n + 1 <= r.s.cap
        /\ r.s.data = s.data \/ bytes[r.s.data] = <<>>
        /\ r.h \in [Pointers -> Seq(Int)] /\ Len(r.h[r.s.data]) = r.s.cap
        /\ s.data # B!NULL =>
             /\ sb[b].len < r.s.cap
             /\ \A i \in 1 .. sb[b].len : r.h[r.s.data][i] = bytes[s.data][i]
        /\ \A p \in Pointers \ {r.s.data} : r.h[p] = IF p = s.data THEN <<>> ELSE bytes[p]
    BY <1>r, <2>1, ReservedFacts
  <2> QED
    BY <1>d, <2>2
<1>3. a = [s |-> [r.s EXCEPT !.len = @ + src.n], h |-> B!Written(r.h, r.s, w)]
  BY <1>r, <1>d, <1>f, <1>w DEF B!Appended
<1>4. /\ a.s = [data |-> d, len |-> s.len + src.n, cap |-> r.s.cap]
      /\ a.h = B!Written(r.h, r.s, w)
  <2>1. a.s = [r.s EXCEPT !.len = @ + src.n] /\ a.h = B!Written(r.h, r.s, w)
    BY <1>3
  <2>2. r.s = [data |-> d, len |-> s.len, cap |-> r.s.cap]
    BY <1>2
  <2> QED
    BY <2>1, <2>2
<1>n. /\ s.len \in Nat /\ src.n \in Nat \ {0} /\ r.s.cap \in Nat
      /\ s.len + src.n + 1 <= r.s.cap
  <2>1. s.len \in Nat /\ MaxLen \in Nat /\ src.n \in 1 .. MaxLen
    BY <1>1
  <2>2. r.s.cap \in Nat /\ s.len + src.n + 1 <= r.s.cap
    BY <1>2
  <2> QED
    BY <2>1, <2>2
<1>5. w = Content(src)
  <2>1. CASE src.ptr = B!NULL
    <3>1. from = src
      BY <1>f, <2>1
    <3> QED
      BY <1>w, <2>1, <3>1 DEF B!Bytes, Content
  <2>2. CASE src.ptr # B!NULL
    <3>1. PICK c \in Threads :
            /\ src.ptr = sb[c].data /\ src.ptr # B!NULL
            /\ src.off \in Nat /\ src.off + src.n <= sb[c].len
      BY <2>2, SourceFacts
    <3>2. /\ c \in Names /\ b \in Names /\ B!Owners[c] = sb[c] /\ B!Owners[b] = sb[b]
          /\ src.ptr \in Pointers /\ sb[c].len \in Nat
      BY <1>1, <2>2, <3>1, OwnersAre DEF Names, Records
    <3>3. bytes[src.ptr] \in Seq(Int) /\ sb[c].len < Len(bytes[src.ptr])
          /\ bytes[src.ptr] # <<>>
      BY <1>1, <3>1, <3>2 DEF BuilderInv, Good, Fits
    <3>4. CASE src.ptr = s.data
      <4>1. c = b
        <5>1. B!Owners[c].data = B!Owners[b].data /\ B!Owners[c].data # B!NULL
          BY <3>1, <3>2, <3>4
        <5> QED
          BY <3>2, <5>1 DEF BuilderInv, Good
      <4>2. from = [src EXCEPT !.ptr = d]
        BY <1>f, <2>2, <3>4
      <4>3. from.ptr = d /\ from.off = src.off /\ from.n = src.n
        <5>1. \/ \E t \in MCLiterals : src = B!Lit(t)
              \/ \E e \in Threads, i \in 1 .. MaxLen, n \in 1 .. MaxLen :
                   src = B!Part(e, i - 1, n)
          BY DEF B!Sources
        <5> QED
          BY <4>2, <5>1 DEF B!Lit, B!Part
      <4>4. r.h[d] # <<>> /\ r.h[d] \in Seq(Int)
        <5>1. r.h[d] \in Seq(Int) /\ Len(r.h[d]) = r.s.cap /\ r.s.cap > 0
          BY <1>1, <1>2
        <5> QED
          BY <5>1
      <4>5. w = SubSeq(r.h[d], src.off + 1, src.off + src.n)
        BY <1>w, <1>1, <1>2, <4>3, <4>4 DEF B!Bytes
      <4>6. \A i \in src.off + 1 .. src.off + src.n :
              /\ r.h[d][i] = bytes[src.ptr][i]
              /\ r.h[d][i] \in Int /\ bytes[src.ptr][i] \in Int
        <5>1. /\ s.data # B!NULL
              /\ sb[b].len < r.s.cap
              /\ \A i \in 1 .. sb[b].len : r.h[d][i] = bytes[src.ptr][i]
          BY <1>2, <2>2, <3>4
        <5>2. /\ sb[b].len \in Nat /\ src.off \in Nat /\ src.off + src.n <= sb[b].len
              /\ Len(bytes[src.ptr]) \in Nat /\ sb[b].len < Len(bytes[src.ptr])
              /\ Len(r.h[d]) \in Nat /\ sb[b].len < Len(r.h[d])
          BY <1>1, <1>2, <3>1, <3>3, <4>1, <5>1
        <5>3. \A i \in src.off + 1 .. src.off + src.n :
                /\ i \in 1 .. sb[b].len
                /\ i \in 1 .. Len(bytes[src.ptr]) /\ i \in 1 .. Len(r.h[d])
          BY <1>n, <5>2, SMTT(20)
        <5> QED
          BY <3>3, <4>4, <5>1, <5>3
      <4>7. /\ w \in Seq(Int) /\ Len(w) = src.n
            /\ \A i \in 1 .. src.n : w[i] = r.h[d][src.off + i]
        <5>1. \A i \in src.off + 1 .. src.off + src.n : r.h[d][i] \in Int
          BY <4>6
        <5>2. src.off \in Nat /\ src.n \in Nat
          BY <1>n, <3>1
        <5> QED
          BY <4>5, <5>1, <5>2, PartIs
      <4>8. \A i \in 1 .. src.n : w[i] = Content(src)[i]
        <5>1. \A i \in 1 .. src.n : src.off + i \in src.off + 1 .. src.off + src.n
          BY <1>1, <3>1
        <5> QED
          BY <2>2, <4>6, <4>7, <5>1, ContentFacts
      <4> QED
        BY <4>7, <4>8, ContentFacts, SeqEqual
    <3>5. CASE src.ptr # s.data
      <4>1. from = src
        BY <1>f, <3>5
      <4>2. src.ptr # d
        BY <1>2, <3>3, <3>5
      <4>3. r.h[src.ptr] = bytes[src.ptr]
        BY <1>2, <3>2, <3>5, <4>2
      <4> QED
        BY <1>w, <2>2, <3>3, <4>1, <4>3 DEF B!Bytes, Content
    <3> QED
      BY <3>4, <3>5
  <2> QED
    BY <2>1, <2>2
<1>6. w \in Seq(Int) /\ Len(w) = src.n
  BY <1>5, ContentFacts
<1>t. PICK content :
        content = [i \in DOMAIN r.h[d] |->
                     IF i \in s.len + 1 .. s.len + src.n THEN w[i - s.len]
                     ELSE IF i = s.len + src.n + 1 THEN B!Nul ELSE r.h[d][i]]
  OBVIOUS
<1>7. a.h = [r.h EXCEPT ![d] = content]
  <2>1. r.s.len = s.len /\ r.s.data = d
    BY <1>d, <1>2
  <2>2. a.h = [r.h EXCEPT ![d] =
                 [i \in DOMAIN @ |->
                    IF i \in s.len + 1 .. s.len + src.n THEN w[i - s.len]
                    ELSE IF i = s.len + src.n + 1 THEN B!Nul ELSE @[i]]]
    BY <1>4, <1>6, <2>1 DEF B!Written
  <2> QED
    BY <1>2, <1>t, <2>2
<1>8. DOMAIN r.h[d] = 1 .. r.s.cap
  BY <1>2
<1>9. content \in Seq(Int) /\ Len(content) = r.s.cap
  <2>1. \A i \in 1 .. r.s.cap : r.h[d][i] \in Int
    BY <1>2
  <2>2. \A i \in s.len + 1 .. s.len + src.n : w[i - s.len] \in Int
    BY <1>1, <1>6
  <2>3. content \in [1 .. r.s.cap -> Int]
    BY <1>t, <1>8, <2>1, <2>2 DEF B!Nul
  <2> QED
    BY <1>2, <2>3
<1>10. /\ \A i \in 1 .. s.len : content[i] = r.h[d][i]
       /\ \A i \in 1 .. src.n : content[s.len + i] = w[i]
       /\ content[s.len + src.n + 1] = B!Nul
  <2>1. \A i \in 1 .. s.len :
          i \in 1 .. r.s.cap /\ i \notin s.len + 1 .. s.len + src.n /\ i # s.len + src.n + 1
    BY <1>n
  <2>2. \A i \in 1 .. src.n :
          s.len + i \in 1 .. r.s.cap /\ s.len + i \in s.len + 1 .. s.len + src.n
          /\ s.len + i - s.len = i
    BY <1>n
  <2>3. s.len + src.n + 1 \in 1 .. r.s.cap
        /\ s.len + src.n + 1 \notin s.len + 1 .. s.len + src.n
    BY <1>n
  <2> QED
    <3>1. \A i \in 1 .. r.s.cap :
            content[i] = IF i \in s.len + 1 .. s.len + src.n THEN w[i - s.len]
                         ELSE IF i = s.len + src.n + 1 THEN B!Nul ELSE r.h[d][i]
      BY <1>t, <1>8
    <3>2. \A i \in 1 .. s.len : content[i] = r.h[d][i]
      BY <2>1, <3>1
    <3>3. \A i \in 1 .. src.n : content[s.len + i] = w[i]
      <4> SUFFICES ASSUME NEW i \in 1 .. src.n
                   PROVE  content[s.len + i] = w[i]
        OBVIOUS
      <4>1. /\ s.len + i \in 1 .. r.s.cap /\ s.len + i \in s.len + 1 .. s.len + src.n
            /\ s.len + i - s.len = i
        BY <2>2
      <4>2. PICK k : k = s.len + i
        OBVIOUS
      <4>3. content[k] = w[k - s.len]
        BY <3>1, <4>1, <4>2
      <4>4. k - s.len = i
        BY <1>n, <4>2
      <4>5. content[k] = w[i]
        BY <4>3, <4>4
      <4> QED
        BY <4>2, <4>5
    <3> QED
      BY <2>3, <3>1, <3>2, <3>3
<1>11. \A i \in 1 .. s.len : content[i] = bytes[s.data][i]
  <2>1. CASE s.data = B!NULL
    <3>1. b \in Names /\ B!Owners[b] = sb[b]
      BY OwnersAre DEF Names
    <3>2. sb[b].len = 0
      BY <2>1, <3>1, BuilderConstants DEF BuilderInv, Good
    <3> QED
      BY <1>1, <3>2
  <2>2. CASE s.data # B!NULL
    <3>1. \A i \in 1 .. s.len : i \in 1 .. sb[b].len
      BY <1>1
    <3> QED
      BY <1>2, <1>10, <2>2, <3>1
  <2> QED
    BY <2>1, <2>2
<1>12. /\ a.h[d] = content
       /\ \A p \in Pointers \ {d} : a.h[p] = IF p = s.data THEN <<>> ELSE bytes[p]
       /\ a.h \in [Pointers -> Seq(Int)]
  <2>1. \A p \in Pointers : p # d => r.h[p] = IF p = s.data THEN <<>> ELSE bytes[p]
    BY <1>2
  <2> QED
    BY <1>2, <1>7, <1>9, <2>1
<1>13. /\ a.s.data = d /\ a.s.len = s.len + src.n /\ a.s.cap = r.s.cap
       /\ a.s \in Records
  BY <1>1, <1>2, <1>4 DEF Records
<1>14. Fits(a.h, a.s)
  <2>1. a.s.len < a.s.cap
    BY <1>n, <1>13
  <2> QED
    BY <1>9, <1>10, <1>12, <1>13, <2>1 DEF Fits
<1>15. \A i \in 1 .. src.n : content[s.len + i] = Content(src)[i]
  BY <1>5, <1>10
<1> QED
  BY <1>1, <1>2, <1>11, <1>12, <1>13, <1>14, <1>15
-----------------------------------------------------------------------------
(* A string that is appended to, or cut and then appended to. *)
LEMMA GrowsKeeps ==
  ASSUME BuilderInv, NEW b \in Threads, NEW s \in Records,
         s.data = sb[b].data, s.cap = sb[b].cap, s.len <= sb[b].len,
         NEW src \in B!Sources, B!Within(src), s.len + src.n <= MaxLen,
         \E q \in B!Places(s.data) :
           LET r == B!Appended(s, src, q)
           IN sb' = [sb EXCEPT ![b] = r.s] /\ bytes' = r.h,
         UNCHANGED <<stolen, wrong>>
  PROVE  /\ BuilderInv'
         /\ Reads(bytes', sb'[b]) = Reads(bytes, s) \o Content(src)
         /\ \A c \in Threads \ {b} : Reads(bytes', sb'[c]) = Reads(bytes, sb[c])
         /\ Reads(bytes', stolen') = Reads(bytes, stolen)
<1>0. PICK q \in B!Places(s.data) :
        LET r == B!Appended(s, src, q)
        IN sb' = [sb EXCEPT ![b] = r.s] /\ bytes' = r.h
  OBVIOUS
<1>1. PICK a : a = B!Appended(s, src, q) /\ sb' = [sb EXCEPT ![b] = a.s] /\ bytes' = a.h
  BY <1>0
<1>2. /\ a.s \in Records /\ a.s.data # B!NULL
      /\ (a.s.data = s.data \/ bytes[a.s.data] = <<>>)
      /\ a.s.len = s.len + src.n
      /\ a.h \in [Pointers -> Seq(Int)] /\ Fits(a.h, a.s)
      /\ \A i \in 1 .. s.len : a.h[a.s.data][i] = bytes[s.data][i]
      /\ \A i \in 1 .. src.n : a.h[a.s.data][s.len + i] = Content(src)[i]
      /\ \A p \in Pointers \ {a.s.data} :
           a.h[p] = IF p = s.data THEN <<>> ELSE bytes[p]
  <2>1. q \in B!Places(s.data)
    BY <1>0
  <2>2. a = B!Appended(s, src, q)
    BY <1>1
  <2>3. /\ BuilderInv /\ b \in Threads /\ s \in Records
        /\ s.data = sb[b].data /\ s.cap = sb[b].cap /\ s.len <= sb[b].len
        /\ src \in B!Sources /\ B!Within(src) /\ s.len + src.n <= MaxLen
    OBVIOUS
  <2> QED
    BY <2>1, <2>2, <2>3, AppendedFacts, SMTT(20)
<1>3. /\ Content(src) \in Seq(Int) /\ Len(Content(src)) = src.n
      /\ s.len \in Nat /\ src.n \in Nat
  BY ContentFacts, SourceFacts, BuilderConstants DEF Records
<1>4. /\ b \in Names /\ B!Owners[b] = sb[b] /\ "stolen" \in Names /\ b # "stolen"
      /\ Good(bytes, B!Owners)
  BY OwnersAre, BuilderConstants DEF Names, BuilderInv
<1>5. Reads(bytes, s) \in Seq(Int) /\ Len(Reads(bytes, s)) = s.len
      /\ (\A i \in 1 .. s.len : Reads(bytes, s)[i] = bytes[s.data][i])
  <2>1. CASE s.data = B!NULL
    <3>1. sb[b].len = 0
      BY <1>4, <2>1, BuilderConstants DEF Good
    <3>2. s.len = 0
      BY <1>3, <3>1
    <3> QED
      BY <2>1, <3>2 DEF Reads
  <2>2. CASE s.data # B!NULL
    <3>1. bytes[s.data] \in Seq(Int) /\ s.len < Len(bytes[s.data])
      <4>1. sb[b].len < Len(bytes[s.data]) /\ bytes[s.data] \in Seq(Int)
        BY <1>4, <2>2 DEF Good, Fits, Records
      <4>2. sb[b].len \in Nat
        BY <1>4 DEF Good, Records
      <4> QED
        BY <1>3, <4>1, <4>2
    <3>2. Len(bytes[s.data]) \in Nat
      BY <3>1
    <3>3. \A i \in 1 .. s.len : bytes[s.data][i] \in Int
      <4>1. \A i \in 1 .. s.len : i \in 1 .. Len(bytes[s.data])
        BY <1>3, <3>1, <3>2
      <4> QED
        BY <3>1, <4>1
    <3>4. Reads(bytes, s) = SubSeq(bytes[s.data], 0 + 1, 0 + s.len)
      BY <1>3, <2>2 DEF Reads
    <3>5. /\ \A i \in 0 + 1 .. 0 + s.len : bytes[s.data][i] \in Int
          /\ \A i \in 1 .. s.len : bytes[s.data][0 + i] = bytes[s.data][i]
      BY <1>3, <3>3
    <3>6. 0 \in Nat
      OBVIOUS
    <3> QED
      BY <1>3, <3>4, <3>5, <3>6, PartIs
  <2> QED
    BY <2>1, <2>2
<1>6. PICK u \in Seq(Int), v \in Seq(Int) : u = Reads(bytes, s) /\ v = Content(src)
  BY <1>3, <1>5
<1>t. PICK t : t = u \o v
  OBVIOUS
<1>7. /\ t \in Seq(Int) /\ Len(t) = a.s.len
      /\ \A i \in 1 .. a.s.len : a.h[a.s.data][i] = t[i]
  <2>1. Len(u) = s.len /\ Len(v) = src.n
    BY <1>3, <1>5, <1>6
  <2>2. /\ t \in Seq(Int) /\ Len(t) = Len(u) + Len(v)
        /\ \A i \in 1 .. Len(u) + Len(v) :
             \/ i \in 1 .. Len(u) /\ t[i] = u[i]
             \/ \E k \in 1 .. Len(v) : i = Len(u) + k /\ t[i] = v[k]
    <3>1. /\ u \o v \in Seq(Int) /\ Len(u \o v) = Len(u) + Len(v)
          /\ \A i \in 1 .. Len(u) + Len(v) :
               \/ i \in 1 .. Len(u) /\ (u \o v)[i] = u[i]
               \/ \E k \in 1 .. Len(v) : i = Len(u) + k /\ (u \o v)[i] = v[k]
      BY JoinedIs, Zenon
    <3> QED
      BY <1>t, <3>1
  <2>3. ASSUME NEW i \in 1 .. a.s.len
        PROVE  a.h[a.s.data][i] = t[i]
    <3>1. i \in 1 .. Len(u) + Len(v)
      BY <1>2, <2>1
    <3>2. CASE i \in 1 .. Len(u) /\ t[i] = u[i]
      <4>1. i \in 1 .. s.len
        BY <2>1, <3>2
      <4> QED
        BY <1>2, <1>5, <1>6, <3>2, <4>1
    <3>3. CASE \E k \in 1 .. Len(v) : i = Len(u) + k /\ t[i] = v[k]
      <4>1. PICK k \in 1 .. src.n : i = s.len + k /\ t[i] = v[k]
        BY <2>1, <3>3
      <4> QED
        BY <1>2, <1>6, <4>1
    <3> QED
      BY <2>2, <3>1, <3>2, <3>3
  <2> QED
    BY <1>2, <2>1, <2>2, <2>3
<1>8. B!Owners' = [B!Owners EXCEPT ![b] = a.s]
  BY <1>1, OwnerChanged
<1>9. PICK h, o, h2, o2 : /\ h = bytes /\ o = B!Owners /\ h2 = a.h
                          /\ o2 = [B!Owners EXCEPT ![b] = a.s]
  OBVIOUS
<1>10. /\ Good(h2, o2)
       /\ Reads(h2, o2[b]) = t
       /\ SameText(Names \ {b}, h, o, h2, o2)
  <2>1. Good(h, o) /\ o \in [Names -> Records] /\ o[b].data = s.data
    BY <1>4, <1>9 DEF Good
  <2>2. /\ o2[b] = a.s /\ (\A y \in Names \ {b} : o2[y] = o[y])
        /\ o2 \in [Names -> Records] /\ h2 \in [Pointers -> Seq(Int)]
    BY <1>2, <1>4, <1>9, <2>1
  <2>3. Replaced(h, o, b, h2, o2)
    BY <1>2, <1>9, <2>1, <2>2 DEF Replaced
  <2>4. ReadsAs(h2, o2[b], t)
    BY <1>7, <1>9, <2>2 DEF ReadsAs
  <2>5. b \in Names
    BY <1>4
  <2> QED
    BY <2>1, <2>3, <2>4, <2>5, Rewritten
<1>11. /\ Good(bytes', B!Owners')
       /\ Reads(bytes', B!Owners'[b]) = t
       /\ \A y \in Names \ {b} : Reads(bytes', B!Owners'[y]) = Reads(bytes, B!Owners[y])
  <2>1. h = bytes /\ o = B!Owners /\ h2 = bytes' /\ o2 = B!Owners'
    BY <1>1, <1>8, <1>9
  <2> QED
    BY <1>10, <2>1 DEF SameText
<1>12. sb' \in [Threads -> Records] /\ wrong' = FALSE
  BY <1>1, <1>2 DEF BuilderInv
<1>13. /\ B!Owners'["stolen"] = stolen'
       /\ \A c \in Threads : B!Owners'[c] = sb'[c]
  BY BuilderConstants DEF B!Owners, Names
<1>14. \A c \in Threads \ {b} : c \in Names \ {b} /\ B!Owners[c] = sb[c]
  BY OwnersAre DEF Names
<1> QED
  BY <1>4, <1>6, <1>t, <1>11, <1>12, <1>13, <1>14, OwnersAre DEF BuilderInv
-----------------------------------------------------------------------------
(* What the builders read, which is what string variables hold. *)
AbsText == [b \in Threads |-> B!Text(sb[b], bytes)]
AbsTaken == B!Text(stolen, bytes)

LEMMA TextIs ==
  /\ AbsTaken = Reads(bytes, stolen)
  /\ AbsTaken' = Reads(bytes', stolen')
  /\ DOMAIN AbsText = Threads
  /\ \A b \in Threads : AbsText[b] = Reads(bytes, sb[b])
  /\ \A b \in Threads : AbsText'[b] = Reads(bytes', sb'[b])
BY DEF AbsText, AbsTaken, Reads, B!Text

LEMMA OneTextChanges ==
  ASSUME NEW b \in Threads, NEW t, Reads(bytes', sb'[b]) = t,
         \A c \in Threads \ {b} : Reads(bytes', sb'[c]) = Reads(bytes, sb[c]),
         Reads(bytes', stolen') = Reads(bytes, stolen)
  PROVE  AbsText' = [AbsText EXCEPT ![b] = t] /\ AbsTaken' = AbsTaken
<1>1. \A c \in Threads : AbsText'[c] = IF c = b THEN t ELSE AbsText[c]
  BY TextIs
<1>2. AbsText' = [c \in Threads |-> AbsText'[c]]
  BY DEF AbsText
<1>3. AbsText' = [c \in Threads |-> IF c = b THEN t ELSE AbsText[c]]
  BY <1>1, <1>2
<1> QED
  BY <1>3, TextIs

LEMMA PartOfText ==
  ASSUME NEW t, NEW i \in 1 .. Len(t), NEW j \in 0 .. Len(t)
  PROVE  SubSeq(t, i, j) \in B!Abstract!Parts(t)
BY DEF B!Abstract!Parts

(* What a source stands for can be written to a string variable. *)
LEMMA SourceIsOfTexts ==
  ASSUME BuilderInv, NEW src \in B!Sources, B!Within(src)
  PROVE  Content(src) \in B!Abstract!Sources
<1>1. /\ src.n \in 1 .. MaxLen
      /\ \/ /\ src.ptr = B!NULL /\ src.lit \in MCLiterals
            /\ src.lit \in Seq(Int) /\ Len(src.lit) = src.n
         \/ \E c \in Threads :
              /\ src.ptr = sb[c].data /\ src.ptr # B!NULL
              /\ src.off \in Nat /\ src.off + src.n <= sb[c].len
  BY SourceFacts
<1>2. CASE src.ptr = B!NULL /\ src.lit \in MCLiterals
  <2>1. Content(src) \in MCLiterals
    BY <1>2 DEF Content
  <2> QED
    BY <2>1 DEF B!Abstract!Sources
<1>3. ASSUME NEW c \in Threads, src.ptr = sb[c].data, src.ptr # B!NULL,
             src.off \in Nat, src.off + src.n <= sb[c].len
      PROVE  Content(src) \in B!Abstract!Sources
  <2>t. PICK t : t = Reads(bytes, sb[c])
    OBVIOUS
  <2>1. c \in Names /\ B!Owners[c] = sb[c] /\ Good(bytes, B!Owners)
    BY OwnersAre DEF Names, BuilderInv
  <2>2. /\ t \in Seq(Int) /\ Len(t) = sb[c].len
        /\ \A i \in 1 .. sb[c].len : t[i] = bytes[sb[c].data][i]
    BY <1>3, <2>t, <2>1, TextFacts
  <2>3. /\ MaxLen \in Nat /\ src.n \in Nat \ {0} /\ src.off \in Nat
        /\ sb[c].len \in Nat /\ src.off + src.n <= sb[c].len
    BY <1>1, <1>3, <2>2, BuilderConstants
  <2>4. /\ src.off + 1 \in 1 .. Len(t) /\ src.off + src.n \in 0 .. Len(t)
        /\ \A i \in src.off + 1 .. src.off + src.n : i \in 1 .. sb[c].len
        /\ \A i \in 1 .. src.n : src.off + i \in 1 .. sb[c].len
    <3>1. src.off + 1 \in 1 .. Len(t) /\ src.off + src.n \in 0 .. Len(t)
      <4>1. Len(t) \in Nat /\ src.off + src.n <= Len(t)
        BY <2>2, <2>3
      <4> QED
        BY <2>3, <4>1
    <3>2. /\ \A i \in src.off + 1 .. src.off + src.n : i \in 1 .. sb[c].len
          /\ \A i \in 1 .. src.n : src.off + i \in 1 .. sb[c].len
      BY <2>3
    <3> QED
      BY <3>1, <3>2
  <2>p. PICK part1 : part1 = SubSeq(t, src.off + 1, src.off + src.n)
    OBVIOUS
  <2>5. /\ part1 \in Seq(Int) /\ Len(part1) = src.n
        /\ \A i \in 1 .. src.n : part1[i] = t[src.off + i]
    <3>1. \A i \in src.off + 1 .. src.off + src.n : t[i] \in Int
      BY <2>2, <2>4
    <3>2. src.off \in Nat /\ src.n \in Nat
      BY <2>3
    <3> QED
      BY <2>p, <3>1, <3>2, PartIs, ZenonT(30)
  <2>6. \A i \in 1 .. src.n : part1[i] = Content(src)[i]
    <3>1. \A i \in 1 .. src.n : Content(src)[i] = bytes[src.ptr][src.off + i]
      BY <1>3, ContentFacts
    <3> QED
      BY <1>3, <2>2, <2>4, <2>5, <3>1
  <2>7. part1 = Content(src)
    BY <2>5, <2>6, ContentFacts, SeqEqual
  <2>8. part1 \in B!Abstract!Parts(t)
    <3>1. PICK i, j : i = src.off + 1 /\ j = src.off + src.n
      OBVIOUS
    <3>2. i \in 1 .. Len(t) /\ j \in 0 .. Len(t) /\ part1 = SubSeq(t, i, j)
      BY <2>p, <2>4, <3>1
    <3> QED
      BY <3>2, PartOfText
  <2>9. t = [b \in Threads |-> B!Text(sb[b], bytes)][c]
    BY <2>t DEF Reads, B!Text
  <2> QED
    BY <2>7, <2>8, <2>9 DEF B!Abstract!Sources
<1> QED
  BY <1>1, <1>2, <1>3
-----------------------------------------------------------------------------
(* The steps of the string variables, in terms of what builders read. *)

LEMMA AbstractExtend ==
  ASSUME NEW b \in Threads, NEW t \in B!Abstract!Sources,
         AbsText' = [AbsText EXCEPT ![b] = AbsText[b] \o t], AbsTaken' = AbsTaken
  PROVE  B!Abstract!Next
<1>1. AbsText' = [AbsText EXCEPT ![b] = @ \o t]
  OBVIOUS
<1>2. B!Abstract!Extend(b)
  BY <1>1 DEF AbsText, B!Abstract!Extend
<1> QED
  BY <1>2 DEF AbsTaken, B!Abstract!Next

LEMMA AbstractAssign ==
  ASSUME NEW b \in Threads, NEW t \in B!Abstract!Sources \cup {<<>>},
         AbsText' = [AbsText EXCEPT ![b] = t], AbsTaken' = AbsTaken
  PROVE  B!Abstract!Next
<1>1. B!Abstract!Assign(b)
  BY DEF AbsText, B!Abstract!Assign
<1> QED
  BY <1>1 DEF AbsTaken, B!Abstract!Next

LEMMA AbstractMove ==
  ASSUME NEW b \in Threads, NEW c \in Threads,
         AbsText' = [AbsText EXCEPT ![b] = AbsText[c], ![c] = <<>>],
         AbsTaken' = AbsTaken
  PROVE  B!Abstract!Next
<1>1. B!Abstract!Move(b, c)
  BY DEF AbsText, B!Abstract!Move
<1> QED
  BY <1>1 DEF AbsTaken, B!Abstract!Next

LEMMA AbstractTake ==
  ASSUME NEW b \in Threads,
         AbsText' = [AbsText EXCEPT ![b] = <<>>], AbsTaken' = AbsText[b]
  PROVE  B!Abstract!Next
<1>1. B!Abstract!Take(b)
  BY DEF AbsText, AbsTaken, B!Abstract!Take
<1> QED
  BY <1>1 DEF B!Abstract!Next

LEMMA AbstractForget ==
  ASSUME AbsText' = AbsText, AbsTaken' = <<>>
  PROVE  B!Abstract!Next
BY DEF AbsText, AbsTaken, B!Abstract!Next
-----------------------------------------------------------------------------
(* The calls on builders. *)

LEMMA OwnersNow ==
  /\ "stolen" \in Names /\ Threads = Names \ {"stolen"}
  /\ B!Owners["stolen"] = stolen /\ B!Owners'["stolen"] = stolen'
  /\ \A b \in Threads : B!Owners[b] = sb[b] /\ B!Owners'[b] = sb'[b]
BY BuilderConstants DEF B!Owners, Names

LEMMA ExtendStep ==
  ASSUME BuilderInv, NEW b \in Threads, NEW src \in B!Sources, B!Extend(b, src)
  PROVE  BuilderInv' /\ B!Abstract!Next
<1>s. PICK s \in Records : s = sb[b]
  BY DEF BuilderInv
<1>1. /\ B!Within(src) /\ s.len + src.n <= MaxLen
      /\ \E q \in B!Places(s.data) :
           LET r == B!Appended(s, src, q)
           IN sb' = [sb EXCEPT ![b] = r.s] /\ bytes' = r.h
      /\ UNCHANGED <<stolen, wrong>>
  BY <1>s DEF B!Extend, B!Grows
<1>2. s.data = sb[b].data /\ s.cap = sb[b].cap /\ s.len <= sb[b].len
  BY <1>s DEF Records
<1>3. /\ BuilderInv'
      /\ Reads(bytes', sb'[b]) = Reads(bytes, s) \o Content(src)
      /\ \A c \in Threads \ {b} : Reads(bytes', sb'[c]) = Reads(bytes, sb[c])
      /\ Reads(bytes', stolen') = Reads(bytes, stolen)
  BY <1>1, <1>2, GrowsKeeps
<1>4. Content(src) \in B!Abstract!Sources
  BY <1>1, SourceIsOfTexts
<1>5. Reads(bytes, s) = AbsText[b]
  BY <1>s, TextIs
<1>6. /\ AbsText' = [AbsText EXCEPT ![b] = AbsText[b] \o Content(src)]
      /\ AbsTaken' = AbsTaken
  BY <1>3, <1>5, OneTextChanges
<1> QED
  BY <1>3, <1>4, <1>6, AbstractExtend

(* sb_set, of a source that need not be an input of it. *)
LEMMA SetStep ==
  ASSUME BuilderInv, NEW b \in Threads, NEW src \in B!Sources, B!Set(b, src)
  PROVE  BuilderInv' /\ B!Abstract!Next
<1>t. sb[b] \in Records
  BY DEF BuilderInv
<1>s. PICK s : s = [sb[b] EXCEPT !.len = 0]
  OBVIOUS
<1>1. /\ B!Within(src)
      /\ \E q \in B!Places(s.data) :
           LET r == B!Appended(s, src, q)
           IN sb' = [sb EXCEPT ![b] = r.s] /\ bytes' = r.h
      /\ UNCHANGED <<stolen, wrong>>
  BY <1>s DEF B!Set
<1>2. /\ s \in Records /\ s.data = sb[b].data /\ s.cap = sb[b].cap
      /\ s.len = 0 /\ s.len <= sb[b].len
  BY <1>s, <1>t, BuilderConstants DEF Records
<1>3. s.len + src.n <= MaxLen
  BY <1>1, <1>2, SourceFacts, BuilderConstants
<1>4. /\ BuilderInv'
      /\ Reads(bytes', sb'[b]) = Reads(bytes, s) \o Content(src)
      /\ \A c \in Threads \ {b} : Reads(bytes', sb'[c]) = Reads(bytes, sb[c])
      /\ Reads(bytes', stolen') = Reads(bytes, stolen)
  BY <1>1, <1>2, <1>3, GrowsKeeps
<1>5. Reads(bytes, s) \o Content(src) = Content(src)
  <2>1. Reads(bytes, s) = <<>>
    BY <1>2 DEF Reads
  <2> QED
    BY <1>1, <2>1, ContentFacts
<1>6. Content(src) \in B!Abstract!Sources \cup {<<>>}
  BY <1>1, SourceIsOfTexts
<1>7. Reads(bytes', sb'[b]) = Content(src)
  BY <1>4, <1>5
<1>8. /\ AbsText' = [AbsText EXCEPT ![b] = Content(src)]
      /\ AbsTaken' = AbsTaken
  BY <1>4, <1>7, OneTextChanges
<1> QED
  BY <1>4, <1>6, <1>8, AbstractAssign

LEMMA AppendByteIfNotStep ==
  ASSUME BuilderInv, NEW b \in Threads, NEW t \in MCLiterals, B!AppendByteIfNot(b, t)
  PROVE  BuilderInv' /\ B!Abstract!Next
<1>1. B!Extend(b, B!Lit(t)) /\ B!Lit(t) \in B!Sources
  BY DEF B!AppendByteIfNot, B!Sources
<1> QED
  BY <1>1, ExtendStep
(* The string of a builder is cut in its block. *)
LEMMA CutStep ==
  ASSUME BuilderInv, NEW b \in Threads, sb[b].data # B!NULL,
         NEW n \in 0 .. sb[b].len,
         sb' = [sb EXCEPT ![b].len = n],
         bytes' = [bytes EXCEPT ![sb[b].data][n + 1] = B!Nul],
         UNCHANGED <<stolen, wrong>>
  PROVE  BuilderInv' /\ B!Abstract!Next
<1>d. PICK d : d = sb[b].data
  OBVIOUS
<1>k. PICK old : old = bytes[d]
  OBVIOUS
<1>1. /\ sb \in [Threads -> Records] /\ sb[b] \in Records
      /\ bytes \in [Pointers -> Seq(Int)] /\ d \in Pointers /\ d # B!NULL
      /\ b \in Names /\ b # "stolen" /\ B!Owners[b] = sb[b]
      /\ Good(bytes, B!Owners) /\ B!Owners \in [Names -> Records]
  BY <1>d, OwnersNow DEF BuilderInv, Good, Records
<1>2. /\ sb[b].len \in 0 .. MaxLen /\ sb[b].cap \in Nat /\ MaxLen \in Nat
      /\ sb[b].len < sb[b].cap /\ old \in Seq(Int) /\ Len(old) = sb[b].cap
  BY <1>d, <1>k, <1>1, BuilderConstants DEF Good, Fits, Records
<1>n. /\ n \in Nat /\ n <= sb[b].len /\ n \in 0 .. MaxLen /\ n < sb[b].cap
      /\ n + 1 \in 1 .. Len(old) /\ \A i \in 1 .. n : i \in 1 .. Len(old) /\ i # n + 1
  <2>1. PICK len \in Nat, cap \in Nat :
          len = sb[b].len /\ cap = sb[b].cap /\ len < cap /\ len <= MaxLen /\ Len(old) = cap
    BY <1>2
  <2>2. n \in 0 .. len
    BY <2>1
  <2>3. len \in Nat /\ cap \in Nat /\ len < cap /\ len <= MaxLen /\ MaxLen \in Nat
    BY <1>2, <2>1
  <2>4. /\ n \in Nat /\ n <= len /\ n \in 0 .. MaxLen /\ n < cap
        /\ n + 1 \in 1 .. cap /\ \A i \in 1 .. n : i \in 1 .. cap /\ i # n + 1
    BY <2>2, <2>3
  <2> QED
    BY <2>1, <2>4
<1>r. PICK r : r = [data |-> d, len |-> n, cap |-> sb[b].cap]
  OBVIOUS
<1>3. r \in Records /\ r.data = d /\ r.len = n /\ r.cap = sb[b].cap
  BY <1>r, <1>1, <1>2, <1>n DEF Records
<1>4. sb' = [sb EXCEPT ![b] = r]
  <2>1. [sb[b] EXCEPT !.len = n] = r
    <3>1. sb[b] \in [data : Pointers \cup {B!NULL}, len : 0 .. MaxLen, cap : Nat]
      BY <1>1 DEF Records
    <3> QED
      BY <1>d, <1>r, <3>1
  <2>2. sb' = [sb EXCEPT ![b] = [sb[b] EXCEPT !.len = n]]
    OBVIOUS
  <2> QED
    BY <2>1, <2>2
<1>c. PICK content : content = [old EXCEPT ![n + 1] = B!Nul]
  OBVIOUS
<1>5. /\ content \in Seq(Int) /\ Len(content) = Len(old)
      /\ content[n + 1] = B!Nul
      /\ \A i \in 1 .. n : content[i] = old[i]
  <2>1. content \in Seq(Int) /\ Len(content) = Len(old)
    BY <1>c, <1>2 DEF B!Nul
  <2> QED
    BY <1>c, <1>2, <1>n, <2>1
<1>6. bytes' = [bytes EXCEPT ![d] = content]
  BY <1>d, <1>k, <1>c
<1>7. B!Owners' = [B!Owners EXCEPT ![b] = r]
  BY <1>4, OwnerChanged
<1>o. PICK o, o2 : o = B!Owners /\ o2 = B!Owners'
  OBVIOUS
<1>8. Replaced(bytes, o, b, bytes', o2)
  <2>1. /\ bytes' \in [Pointers -> Seq(Int)] /\ bytes'[d] = content
        /\ \A p \in Pointers \ {d} : bytes'[p] = bytes[p]
    BY <1>1, <1>5, <1>6
  <2>2. /\ o2 \in [Names -> Records] /\ o2[b] = r /\ o[b].data = d
        /\ \A y \in Names \ {b} : o2[y] = o[y]
    BY <1>d, <1>1, <1>3, <1>7, <1>o
  <2>3. Fits(bytes', r)
    BY <1>2, <1>n, <1>3, <1>5, <2>1 DEF Fits
  <2> QED
    BY <1>1, <1>3, <2>1, <2>2, <2>3 DEF Replaced
<1>t. PICK t : t = SubSeq(old, 0 + 1, 0 + n)
  OBVIOUS
<1>9. /\ t \in Seq(Int) /\ Len(t) = n /\ \A i \in 1 .. n : t[i] = old[0 + i]
  <2>1. \A i \in 0 + 1 .. 0 + n : old[i] \in Int
    BY <1>2, <1>n
  <2>2. 0 \in Nat /\ n \in Nat
    BY <1>n
  <2> QED
    BY <1>t, <2>1, <2>2, PartIs
<1>10. ReadsAs(bytes', o2[b], t)
  <2>1. o2[b] = r /\ bytes'[d] = content
    BY <1>1, <1>6, <1>7, <1>o
  <2>2. \A i \in 1 .. n : content[i] = t[i]
    <3>1. \A i \in 1 .. n : 0 + i = i
      OBVIOUS
    <3> QED
      BY <1>5, <1>9, <3>1
  <2> QED
    BY <1>3, <1>9, <2>1, <2>2 DEF ReadsAs
<1>11. /\ Good(bytes', o2) /\ Reads(bytes', o2[b]) = t
       /\ SameText(Names \ {b}, bytes, o, bytes', o2)
  <2>1. Good(bytes, o) /\ b \in Names
    BY <1>1, <1>o
  <2> QED
    BY <2>1, <1>8, <1>10, Rewritten
<1>12. BuilderInv'
  BY <1>1, <1>3, <1>4, <1>11, <1>o DEF BuilderInv
<1>13. /\ Reads(bytes', sb'[b]) = t
       /\ \A c \in Threads \ {b} : Reads(bytes', sb'[c]) = Reads(bytes, sb[c])
       /\ Reads(bytes', stolen') = Reads(bytes, stolen)
  BY <1>1, <1>11, <1>o, OwnersNow DEF SameText
<1>14. AbsText' = [AbsText EXCEPT ![b] = t] /\ AbsTaken' = AbsTaken
  BY <1>13, OneTextChanges
<1>15. t \in B!Abstract!Sources \cup {<<>>}
  <2>1. CASE n = 0
    BY <1>9, <2>1
  <2>2. CASE n # 0
    <3>u. PICK u : u = Reads(bytes, sb[b])
      OBVIOUS
    <3>1. /\ u \in Seq(Int) /\ Len(u) = sb[b].len
          /\ \A i \in 1 .. sb[b].len : u[i] = old[i]
      BY <1>d, <1>k, <1>1, <3>u, TextFacts
    <3>2. /\ \A i \in 1 .. n : i \in 1 .. sb[b].len
          /\ 1 \in 1 .. Len(u) /\ n \in 0 .. Len(u)
      BY <1>2, <1>n, <2>2, <3>1
    <3>3. SubSeq(u, 1, n) = t
      <4>1. \A i \in 1 .. n : u[i] = t[i]
        <5>1. \A i \in 1 .. n : 0 + i = i
          OBVIOUS
        <5> QED
          BY <1>9, <3>1, <3>2, <5>1
      <4>2. Len(t) <= Len(u)
        BY <1>9, <1>n, <3>1
      <4> QED
        BY <1>9, <3>1, <4>1, <4>2, PrefixIs
    <3>4. t \in B!Abstract!Parts(u)
      BY <3>2, <3>3, PartOfText
    <3>5. u = [c \in Threads |-> B!Text(sb[c], bytes)][b]
      BY <3>u DEF Reads, B!Text
    <3> QED
      BY <3>4, <3>5 DEF B!Abstract!Sources
  <2> QED
    BY <2>1, <2>2
<1> QED
  BY <1>12, <1>14, <1>15, AbstractAssign

LEMMA TruncateStep ==
  ASSUME BuilderInv, NEW b \in Threads, NEW n \in 0 .. MaxLen, B!Truncate(b, n)
  PROVE  BuilderInv' /\ B!Abstract!Next
<1>1. sb[b].len \in Nat
  BY DEF BuilderInv, Records
<1>2. /\ sb[b].data # B!NULL /\ n \in 0 .. sb[b].len
      /\ sb' = [sb EXCEPT ![b].len = n]
      /\ bytes' = [bytes EXCEPT ![sb[b].data][n + 1] = B!Nul]
      /\ UNCHANGED <<stolen, wrong>>
  BY <1>1, BuilderConstants DEF B!Truncate
<1> QED
  BY <1>2, CutStep

LEMMA ClearStep ==
  ASSUME BuilderInv, NEW b \in Threads, B!Clear(b)
  PROVE  BuilderInv' /\ (B!Abstract!Next \/ UNCHANGED <<AbsText, AbsTaken>>)
<1>1. /\ sb' = [sb EXCEPT ![b].len = 0]
      /\ UNCHANGED <<stolen, wrong>>
  BY DEF B!Clear
<1>2. CASE sb[b].data = B!NULL
  <2>1. bytes' = bytes
    BY <1>2 DEF B!Clear
  <2>2. sb[b] = B!NoData /\ sb \in [Threads -> Records]
    BY <1>2, OwnersNow DEF BuilderInv, Good
  <2>3. [sb[b] EXCEPT !.len = 0] = sb[b]
    BY <2>2 DEF B!NoData
  <2>4. sb' = sb
    BY <1>1, <2>2, <2>3
  <2>5. B!Owners' = B!Owners
    BY <1>1, <2>4 DEF B!Owners
  <2>6. BuilderInv'
    BY <1>1, <2>1, <2>4, <2>5 DEF BuilderInv
  <2> QED
    BY <1>1, <2>1, <2>4, <2>6 DEF AbsText, AbsTaken
<1>3. CASE sb[b].data # B!NULL
  <2>1. sb[b].len \in Nat
    BY DEF BuilderInv, Records
  <2>2. bytes' = [bytes EXCEPT ![sb[b].data][0 + 1] = B!Nul] /\ 0 \in 0 .. sb[b].len
    BY <1>3, <2>1 DEF B!Clear
  <2> QED
    BY <1>1, <1>3, <2>2, CutStep
<1> QED
  BY <1>2, <1>3

LEMMA CopyStep ==
  ASSUME BuilderInv, NEW b \in Threads, NEW c \in Threads, B!Copy(b, c)
  PROVE  BuilderInv' /\ (B!Abstract!Next \/ UNCHANGED <<AbsText, AbsTaken>>)
<1>1. CASE sb[c].len = 0
  BY <1>1, ClearStep DEF B!Copy
<1>2. CASE sb[c].len # 0
  <2>1. B!Set(b, B!Part(c, 0, sb[c].len))
    BY <1>2 DEF B!Copy
  <2>2. sb[c].data # B!NULL
    BY <1>2, OwnersNow, BuilderConstants DEF BuilderInv, Good
  <2>3. sb[c].len \in 1 .. MaxLen /\ 1 \in 1 .. MaxLen
    <3>1. sb[c].len \in 0 .. MaxLen /\ MaxLen \in Nat
      BY BuilderConstants DEF BuilderInv, Records
    <3> QED
      BY <1>2, <3>1
  <2>4. B!Part(c, 0, sb[c].len) = B!Part(c, 1 - 1, sb[c].len)
    OBVIOUS
  <2>5. B!Part(c, 0, sb[c].len) \in B!Sources
    <3>1. PICK i, n : i = 1 /\ n = sb[c].len
      OBVIOUS
    <3>2. i \in 1 .. MaxLen /\ n \in 1 .. MaxLen /\ c \in {e \in Threads : sb[e].data # B!NULL}
      BY <2>2, <2>3, <3>1
    <3>3. B!Part(c, i - 1, n) \in B!Sources
      BY <3>2 DEF B!Sources
    <3> QED
      BY <2>4, <3>1, <3>3
  <2> QED
    BY <2>1, <2>5, SetStep
<1> QED
  BY <1>1, <1>2
(* A builder gives its block back. *)
LEMMA FreedFacts ==
  ASSUME BuilderInv, NEW b \in Threads, NEW h2, h2 = B!FreeBlock(bytes, sb[b].data),
         NEW o2, o2 = [B!Owners EXCEPT ![b] = B!NoData]
  PROVE  /\ Good(h2, o2)
         /\ SameText(Names \ {b}, bytes, B!Owners, h2, o2)
         /\ ~ B!SizeIsWrong(sb[b].data, sb[b].cap)
<1>1. b \in Names /\ B!Owners[b] = sb[b] /\ Good(bytes, B!Owners)
  BY OwnersNow DEF BuilderInv
<1>2. h2 = B!FreeBlock(bytes, B!Owners[b].data)
  BY <1>1
<1>3. PICK o : o = B!Owners
  OBVIOUS
<1>4. Good(h2, o2) /\ SameText(Names \ {b}, bytes, o, h2, o2)
  <2>1. Good(bytes, o) /\ b \in Names /\ h2 = B!FreeBlock(bytes, o[b].data)
        /\ o2 = [o EXCEPT ![b] = B!NoData]
    BY <1>1, <1>2, <1>3
  <2> QED
    BY <2>1, GivenBack
<1>5. ~ B!SizeIsWrong(B!Owners[b].data, B!Owners[b].cap)
  BY <1>1, SizesAreRight
<1> QED
  BY <1>1, <1>3, <1>4, <1>5

LEMMA FreeStep ==
  ASSUME BuilderInv, NEW b \in Threads, B!Free(b)
  PROVE  BuilderInv' /\ B!Abstract!Next
<1>1. /\ sb' = [sb EXCEPT ![b] = B!NoData] /\ stolen' = stolen
      /\ bytes' = B!FreeBlock(bytes, sb[b].data)
      /\ wrong' = (wrong \/ B!SizeIsWrong(sb[b].data, sb[b].cap))
  BY DEF B!Free
<1>2. B!Owners' = [B!Owners EXCEPT ![b] = B!NoData]
  BY <1>1, OwnerChanged
<1>3. PICK h2, o2 : h2 = bytes' /\ o2 = B!Owners'
  OBVIOUS
<1>4. /\ Good(h2, o2)
      /\ SameText(Names \ {b}, bytes, B!Owners, h2, o2)
      /\ ~ B!SizeIsWrong(sb[b].data, sb[b].cap)
  <2>1. h2 = B!FreeBlock(bytes, sb[b].data) /\ o2 = [B!Owners EXCEPT ![b] = B!NoData]
    BY <1>1, <1>2, <1>3
  <2> QED
    BY <2>1, FreedFacts
<1>5. BuilderInv'
  <2>1. wrong' = FALSE
    BY <1>1, <1>4 DEF BuilderInv
  <2>2. sb' \in [Threads -> Records]
    BY <1>1, BuilderConstants DEF BuilderInv
  <2> QED
    BY <1>3, <1>4, <2>1, <2>2 DEF BuilderInv
<1>6. /\ Reads(bytes', sb'[b]) = <<>>
      /\ \A c \in Threads \ {b} : Reads(bytes', sb'[c]) = Reads(bytes, sb[c])
      /\ Reads(bytes', stolen') = Reads(bytes, stolen)
  <2>1. sb'[b] = B!NoData
    BY <1>1 DEF BuilderInv
  <2>2. Reads(bytes', sb'[b]) = <<>>
    BY <2>1, BuilderConstants DEF Reads
  <2>3. b # "stolen"
    BY BuilderConstants
  <2> QED
    BY <1>3, <1>4, <2>2, <2>3, OwnersNow DEF SameText
<1>7. AbsText' = [AbsText EXCEPT ![b] = <<>>] /\ AbsTaken' = AbsTaken
  BY <1>6, OneTextChanges
<1> QED
  BY <1>5, <1>7, AbstractAssign

LEMMA MoveStep ==
  ASSUME BuilderInv, NEW b \in Threads, NEW c \in Threads, B!Move(b, c)
  PROVE  BuilderInv' /\ B!Abstract!Next
<1>1. /\ b # c
      /\ sb' = [sb EXCEPT ![b] = sb[c], ![c] = B!NoData] /\ stolen' = stolen
      /\ bytes' = B!FreeBlock(bytes, sb[b].data)
      /\ wrong' = (wrong \/ B!SizeIsWrong(sb[b].data, sb[b].cap))
  BY DEF B!Move
<1>2. /\ sb \in [Threads -> Records] /\ b \in Names /\ c \in Names
      /\ b # "stolen" /\ c # "stolen"
      /\ B!Owners[b] = sb[b] /\ B!Owners[c] = sb[c] /\ B!Owners["stolen"] = stolen
      /\ B!Owners \in [Names -> Records] /\ B!NoData \in Records
  BY OwnersNow, BuilderConstants DEF BuilderInv, Good
<1>3. PICK h2, o1, o2 : /\ h2 = bytes' /\ o1 = [B!Owners EXCEPT ![b] = B!NoData]
                        /\ o2 = HandedTo(o1, c, b)
  OBVIOUS
<1>4. /\ Good(h2, o1)
      /\ SameText(Names \ {b}, bytes, B!Owners, h2, o1)
      /\ ~ B!SizeIsWrong(sb[b].data, sb[b].cap)
  <2>1. h2 = B!FreeBlock(bytes, sb[b].data) /\ o1 = [B!Owners EXCEPT ![b] = B!NoData]
    BY <1>1, <1>3
  <2> QED
    BY <2>1, FreedFacts
<1>5. o1[b] = B!NoData /\ o1[c] = sb[c]
  BY <1>1, <1>2, <1>3
<1>6. /\ Good(h2, o2)
      /\ Reads(h2, o2[b]) = Reads(h2, o1[c]) /\ Reads(h2, o2[c]) = <<>>
      /\ SameText(Names \ {c, b}, h2, o1, h2, o2)
  <2>1. /\ Good(h2, o1) /\ c \in Names /\ b \in Names /\ c # b
        /\ o1[b] = B!NoData /\ o2 = HandedTo(o1, c, b)
    BY <1>1, <1>2, <1>3, <1>4, <1>5
  <2> QED
    BY <2>1, HandedOver
<1>7. B!Owners' = o2
  <2>1. /\ B!Owners' = [x \in Names |-> IF x = "stolen" THEN stolen' ELSE sb'[x]]
    BY DEF B!Owners, Names
  <2>2. o1 = [x \in Names |-> IF x = b THEN B!NoData ELSE B!Owners[x]]
    BY <1>2, <1>3
  <2>3. o2 = [x \in Names |-> IF x = c THEN B!NoData
                              ELSE IF x = b THEN sb[c] ELSE B!Owners[x]]
    BY <1>1, <1>2, <1>3, <1>5, <2>2 DEF HandedTo
  <2>4. \A x \in Threads : sb'[x] = IF x = c THEN B!NoData
                                    ELSE IF x = b THEN sb[c] ELSE sb[x]
    BY <1>1, <1>2
  <2>5. \A x \in Names : (IF x = "stolen" THEN stolen' ELSE sb'[x])
                           = (IF x = c THEN B!NoData
                              ELSE IF x = b THEN sb[c] ELSE B!Owners[x])
    BY <1>1, <1>2, <2>4, OwnersNow DEF Names
  <2> QED
    BY <2>1, <2>3, <2>5
<1>8. BuilderInv'
  <2>1. wrong' = FALSE
    BY <1>1, <1>4 DEF BuilderInv
  <2>2. sb' \in [Threads -> Records]
    BY <1>1, <1>2
  <2> QED
    BY <1>3, <1>6, <1>7, <2>1, <2>2 DEF BuilderInv
<1>9. /\ AbsText'[b] = AbsText[c] /\ AbsText'[c] = <<>>
      /\ \A x \in Threads \ {b, c} : AbsText'[x] = AbsText[x]
      /\ AbsTaken' = AbsTaken
  <2>1. /\ Reads(h2, o1[c]) = Reads(bytes, sb[c])
        /\ \A x \in Names \ {b, c} : Reads(h2, o2[x]) = Reads(bytes, B!Owners[x])
    BY <1>1, <1>2, <1>4, <1>6 DEF SameText
  <2>2. /\ Reads(bytes', sb'[b]) = Reads(bytes, sb[c]) /\ Reads(bytes', sb'[c]) = <<>>
        /\ \A x \in Threads \ {b, c} : Reads(bytes', sb'[x]) = Reads(bytes, sb[x])
        /\ Reads(bytes', stolen') = Reads(bytes, stolen)
    BY <1>2, <1>3, <1>6, <1>7, <2>1, OwnersNow
  <2> QED
    BY <2>2, TextIs
<1>10. AbsText' = [AbsText EXCEPT ![b] = AbsText[c], ![c] = <<>>]
  <2>1. AbsText' = [x \in Threads |-> AbsText'[x]]
    BY DEF AbsText
  <2>2. [AbsText EXCEPT ![b] = AbsText[c], ![c] = <<>>]
          = [x \in Threads |-> IF x = c THEN <<>> ELSE IF x = b THEN AbsText[c]
                               ELSE AbsText[x]]
    BY <1>1 DEF AbsText
  <2>3. \A x \in Threads : AbsText'[x] = IF x = c THEN <<>> ELSE IF x = b THEN AbsText[c]
                                         ELSE AbsText[x]
    BY <1>9
  <2> QED
    BY <2>1, <2>2, <2>3
<1> QED
  BY <1>8, <1>9, <1>10, AbstractMove
(* The caller takes a block over from a builder, in whatever state a heap  *)
(* and the owners are.                                                     *)
LEMMA TakenFacts ==
  ASSUME NEW h, NEW o, Good(h, o), NEW b \in Threads, o["stolen"] = B!NoData,
         NEW o2, o2 = HandedTo(o, b, "stolen")
  PROVE  /\ Good(h, o2)
         /\ Reads(h, o2["stolen"]) = Reads(h, o[b]) /\ Reads(h, o2[b]) = <<>>
         /\ SameText(Names \ {b, "stolen"}, h, o, h, o2)
<1>1. "stolen" \in Names /\ b \in Names /\ b # "stolen"
  BY BuilderConstants DEF Names
<1> QED
  BY <1>1, HandedOver

(* What the variables hold after a string was taken away. *)
LEMMA TextTaken ==
  ASSUME BuilderInv, NEW b \in Threads,
         Reads(bytes', stolen') = Reads(bytes, sb[b]), Reads(bytes', sb'[b]) = <<>>,
         \A c \in Threads \ {b} : Reads(bytes', sb'[c]) = Reads(bytes, sb[c])
  PROVE  B!Abstract!Next
<1>1. AbsTaken' = AbsText[b]
  BY TextIs
<1>2. \A c \in Threads : AbsText'[c] = IF c = b THEN <<>> ELSE AbsText[c]
  BY TextIs
<1>3. AbsText' = [AbsText EXCEPT ![b] = <<>>]
  <2>1. AbsText' = [c \in Threads |-> AbsText'[c]]
    BY DEF AbsText
  <2>2. [AbsText EXCEPT ![b] = <<>>]
          = [c \in Threads |-> IF c = b THEN <<>> ELSE AbsText[c]]
    BY DEF AbsText
  <2> QED
    BY <1>2, <2>1, <2>2
<1> QED
  BY <1>1, <1>3, AbstractTake

LEMMA StealStep ==
  ASSUME BuilderInv, NEW b \in Threads, B!Steal(b)
  PROVE  BuilderInv' /\ B!Abstract!Next
<1>1. /\ stolen = B!NoData /\ stolen' = sb[b] /\ sb' = [sb EXCEPT ![b] = B!NoData]
      /\ bytes' = bytes /\ wrong' = wrong
  BY DEF B!Steal
<1>2. /\ sb \in [Threads -> Records] /\ B!NoData \in Records /\ b # "stolen"
      /\ Good(bytes, B!Owners) /\ B!Owners \in [Names -> Records]
  BY BuilderConstants DEF BuilderInv, Good
<1>3. PICK o, o2 : o = B!Owners /\ o2 = HandedTo(o, b, "stolen")
  OBVIOUS
<1>4. /\ Good(bytes, o2)
      /\ Reads(bytes, o2["stolen"]) = Reads(bytes, o[b]) /\ Reads(bytes, o2[b]) = <<>>
      /\ SameText(Names \ {b, "stolen"}, bytes, o, bytes, o2)
  <2>1. Good(bytes, o) /\ o["stolen"] = B!NoData
    BY <1>1, <1>2, <1>3, OwnersNow
  <2> QED
    BY <1>3, <2>1, TakenFacts
<1>5. B!Owners' = o2
  <2>1. B!Owners' = [x \in Names |-> IF x = "stolen" THEN sb[b] ELSE sb'[x]]
    BY <1>1 DEF B!Owners, Names
  <2>2. o2 = [x \in Names |-> IF x = b THEN B!NoData
                              ELSE IF x = "stolen" THEN sb[b] ELSE o[x]]
    BY <1>2, <1>3, OwnersNow DEF HandedTo
  <2>3. \A x \in Names : (IF x = "stolen" THEN sb[b] ELSE sb'[x])
                           = (IF x = b THEN B!NoData
                              ELSE IF x = "stolen" THEN sb[b] ELSE o[x])
    BY <1>1, <1>2, <1>3, OwnersNow
  <2> QED
    BY <2>1, <2>2, <2>3
<1>6. BuilderInv'
  <2>1. sb' \in [Threads -> Records]
    BY <1>1, <1>2
  <2> QED
    BY <1>1, <1>4, <1>5, <2>1 DEF BuilderInv
<1>7. /\ Reads(bytes', stolen') = Reads(bytes, sb[b]) /\ Reads(bytes', sb'[b]) = <<>>
      /\ \A c \in Threads \ {b} : Reads(bytes', sb'[c]) = Reads(bytes, sb[c])
  BY <1>1, <1>3, <1>4, <1>5, OwnersNow DEF SameText
<1> QED
  BY <1>6, <1>7, TextTaken

(* sb_steal_exact makes the block as long as the string and its NUL first. *)
ExactBlock(s, q) ==
  [(IF s.cap = s.len + 1 THEN bytes ELSE B!Realloc(bytes, s.data, q, s.len + 1))
     EXCEPT ![q][s.len + 1] = B!Nul]

LEMMA ExactFacts ==
  ASSUME BuilderInv, NEW b \in Threads, NEW q \in B!Places(sb[b].data),
         sb[b].cap = sb[b].len + 1 => q = sb[b].data,
         NEW h2, h2 = ExactBlock(sb[b], q),
         NEW r, r = [data |-> q, len |-> sb[b].len, cap |-> sb[b].len + 1],
         NEW o2, o2 = [B!Owners EXCEPT ![b] = r]
  PROVE  /\ Good(h2, o2)
         /\ Reads(h2, o2[b]) = Reads(bytes, sb[b])
         /\ SameText(Names \ {b}, bytes, B!Owners, h2, o2)
<1>s. PICK s, len, d : s = sb[b] /\ len = s.len /\ d = s.data
  OBVIOUS
<1>o. PICK old : old = IF d = B!NULL THEN <<>> ELSE bytes[d]
  OBVIOUS
<1>1. /\ s \in Records /\ bytes \in [Pointers -> Seq(Int)] /\ B!NULL \notin Pointers
      /\ b \in Names /\ B!Owners[b] = s
      /\ Good(bytes, B!Owners) /\ B!Owners \in [Names -> Records]
  BY <1>s, OwnersNow, BuilderConstants DEF BuilderInv, Good
<1>2. /\ len \in 0 .. MaxLen /\ len \in Nat /\ s.cap \in Nat
      /\ d \in Pointers \cup {B!NULL}
      /\ old \in Seq(Int)
      /\ IF d = B!NULL THEN len = 0 /\ s.cap = 0
         ELSE len < s.cap /\ Len(old) = s.cap
  BY <1>s, <1>o, <1>1, BuilderConstants DEF Good, Fits, Records
<1>3. q \in Pointers /\ (q = d \/ bytes[q] = <<>>) /\ (s.cap = len + 1 => q = d)
  BY <1>s, <1>2 DEF B!Places
<1>4. /\ r \in Records /\ r.data = q /\ r.len = len /\ r.cap = len + 1
  BY <1>s, <1>2, <1>3 DEF Records
(* The block before the NUL is written. *)
<1>h. PICK h : h = IF s.cap = len + 1 THEN bytes ELSE B!Realloc(bytes, d, q, len + 1)
  OBVIOUS
<1>5. /\ h \in [Pointers -> Seq(Int)] /\ Len(h[q]) = len + 1
      /\ \A i \in 1 .. len : h[q][i] = old[i]
      /\ \A p \in Pointers \ {q} : h[p] = IF p = d THEN <<>> ELSE bytes[p]
  <2>1. CASE s.cap = len + 1
    <3>1. h = bytes /\ q = d /\ d # B!NULL /\ old = bytes[q]
      BY <1>h, <1>o, <1>1, <1>3, <2>1
    <3> QED
      BY <1>1, <1>2, <2>1, <3>1
  <2>2. CASE s.cap # len + 1
    <3>k. PICK new, n : n = len + 1 /\ new = B!Block(old, n)
      OBVIOUS
    <3>1. h = [p \in Pointers |-> IF p = q THEN new
                                  ELSE IF p = d THEN <<>> ELSE bytes[p]]
      BY <1>h, <1>o, <2>2, <3>k DEF B!Realloc
    <3>2. /\ new \in Seq(Int) /\ Len(new) = len + 1
          /\ \A i \in 1 .. len : new[i] = old[i]
      <4>1. new = [i \in 1 .. n |-> IF i <= Len(old) THEN old[i] ELSE B!Garbage]
        BY <3>k DEF B!Block
      <4>2. n \in Nat /\ \A i \in 1 .. n : (IF i <= Len(old) THEN old[i] ELSE B!Garbage) \in Int
        BY <1>2, <3>k DEF B!Garbage
      <4>3. new \in [1 .. n -> Int]
        BY <4>1, <4>2
      <4>4. new \in Seq(Int) /\ Len(new) = n
        BY <4>2, <4>3
      <4>5. \A i \in 1 .. len : i \in 1 .. n /\ i <= Len(old)
        <5>1. \A i \in 1 .. len : i \in 1 .. n
          BY <1>2, <3>k
        <5>2. \A i \in 1 .. len : i <= Len(old)
          BY <1>2
        <5> QED
          BY <5>1, <5>2
      <4> QED
        BY <3>k, <4>1, <4>4, <4>5
    <3>3. <<>> \in Seq(Int)
      OBVIOUS
    <3> QED
      BY <1>1, <1>3, <3>1, <3>2, <3>3
  <2> QED
    BY <2>1, <2>2
<1>c. PICK content : content = [h[q] EXCEPT ![len + 1] = B!Nul]
  OBVIOUS
<1>6. /\ content \in Seq(Int) /\ Len(content) = len + 1
      /\ content[len + 1] = B!Nul
      /\ \A i \in 1 .. len : content[i] = old[i]
  <2>1. h[q] \in Seq(Int) /\ len + 1 \in 1 .. Len(h[q])
    BY <1>2, <1>3, <1>5
  <2>2. content \in Seq(Int) /\ Len(content) = Len(h[q])
    BY <1>c, <2>1 DEF B!Nul
  <2>3. content[len + 1] = B!Nul
    BY <1>c, <2>1
  <2>4. \A i \in 1 .. len : content[i] = h[q][i]
    BY <1>c, <1>2, <1>5, <2>1, SMTT(20)
  <2> QED
    BY <1>5, <2>2, <2>3, <2>4
<1>7. h2 = [h EXCEPT ![q] = content]
  BY <1>s, <1>h, <1>c DEF ExactBlock
<1>8. /\ h2 \in [Pointers -> Seq(Int)] /\ h2[q] = content
      /\ \A p \in Pointers \ {q} : h2[p] = IF p = d THEN <<>> ELSE bytes[p]
  BY <1>3, <1>5, <1>6, <1>7
<1>p. PICK o : o = B!Owners
  OBVIOUS
<1>9. /\ o2 \in [Names -> Records] /\ o2[b] = r /\ o[b].data = d
      /\ \A y \in Names \ {b} : o2[y] = o[y]
  BY <1>s, <1>p, <1>1, <1>4
<1>10. Replaced(bytes, o, b, h2, o2)
  <2>1. Fits(h2, r)
    BY <1>2, <1>4, <1>6, <1>8 DEF Fits
  <2>2. q # B!NULL
    BY <1>1, <1>3
  <2> QED
    BY <1>3, <1>4, <1>8, <1>9, <2>1, <2>2 DEF Replaced
<1>t. PICK t : t = Reads(bytes, s)
  OBVIOUS
<1>11. /\ t \in Seq(Int) /\ Len(t) = len /\ \A i \in 1 .. len : t[i] = old[i]
  <2>1. /\ t \in Seq(Int) /\ Len(t) = len
        /\ d # B!NULL => \A i \in 1 .. len : t[i] = bytes[d][i]
    BY <1>s, <1>t, <1>1, TextFacts
  <2>2. CASE d = B!NULL
    BY <1>2, <2>1, <2>2
  <2>3. CASE d # B!NULL
    BY <1>o, <2>1, <2>3
  <2> QED
    BY <2>2, <2>3
<1>12. ReadsAs(h2, o2[b], t)
  <2>1. /\ o2[b].len = len /\ h2[o2[b].data] = content
        /\ \A i \in 1 .. len : content[i] = t[i]
    BY <1>4, <1>6, <1>8, <1>9, <1>11
  <2> QED
    BY <1>11, <2>1 DEF ReadsAs
<1>13. /\ Good(h2, o2) /\ Reads(h2, o2[b]) = t
       /\ SameText(Names \ {b}, bytes, o, h2, o2)
  <2>1. Good(bytes, o) /\ b \in Names
    BY <1>1, <1>p
  <2> QED
    BY <2>1, <1>10, <1>12, Rewritten
<1> QED
  BY <1>13, <1>s, <1>p, <1>t

LEMMA StealExactStep ==
  ASSUME BuilderInv, NEW b \in Threads, B!StealExact(b)
  PROVE  BuilderInv' /\ B!Abstract!Next
<1>1. PICK q \in B!Places(sb[b].data) :
        /\ sb[b].cap = sb[b].len + 1 => q = sb[b].data
        /\ bytes' = ExactBlock(sb[b], q)
        /\ stolen' = [data |-> q, len |-> sb[b].len, cap |-> sb[b].len + 1]
  BY DEF B!StealExact, ExactBlock
<1>2. /\ stolen = B!NoData
      /\ wrong' = (wrong \/ B!SizeIsWrong(sb[b].data, sb[b].cap))
      /\ sb' = [sb EXCEPT ![b] = B!NoData]
  BY DEF B!StealExact
<1>3. /\ sb \in [Threads -> Records] /\ B!NoData \in Records
      /\ b # "stolen" /\ b \in Names
      /\ Good(bytes, B!Owners) /\ B!Owners \in [Names -> Records]
  BY OwnersNow, BuilderConstants DEF BuilderInv, Good
<1>4. PICK h2, r, o1, o2 :
        /\ h2 = bytes' /\ r = stolen'
        /\ o1 = [B!Owners EXCEPT ![b] = r] /\ o2 = HandedTo(o1, b, "stolen")
  OBVIOUS
<1>5. /\ Good(h2, o1)
      /\ Reads(h2, o1[b]) = Reads(bytes, sb[b])
      /\ SameText(Names \ {b}, bytes, B!Owners, h2, o1)
  <2>1. /\ q \in B!Places(sb[b].data)
        /\ sb[b].cap = sb[b].len + 1 => q = sb[b].data
        /\ h2 = ExactBlock(sb[b], q)
        /\ r = [data |-> q, len |-> sb[b].len, cap |-> sb[b].len + 1]
        /\ o1 = [B!Owners EXCEPT ![b] = r]
    BY <1>1, <1>4
  <2> QED
    BY <2>1, ExactFacts
<1>6. o1[b] = r /\ \A x \in Names \ {b} : o1[x] = B!Owners[x]
  BY <1>3, <1>4
<1>7. /\ Good(h2, o2)
      /\ Reads(h2, o2["stolen"]) = Reads(h2, o1[b]) /\ Reads(h2, o2[b]) = <<>>
      /\ SameText(Names \ {b, "stolen"}, h2, o1, h2, o2)
  <2>1. o1["stolen"] = B!NoData
    <3>1. "stolen" \in Names \ {b} /\ B!Owners["stolen"] = stolen
      BY <1>3, OwnersNow
    <3> QED
      BY <1>2, <1>6, <3>1
  <2>2. Good(h2, o1) /\ b \in Threads /\ o2 = HandedTo(o1, b, "stolen")
    BY <1>4, <1>5
  <2> QED
    BY <2>1, <2>2, TakenFacts
<1>8. B!Owners' = o2
  <2>1. B!Owners' = [x \in Names |-> IF x = "stolen" THEN r ELSE sb'[x]]
    BY <1>4 DEF B!Owners, Names
  <2>2. o2 = [x \in Names |-> IF x = b THEN B!NoData
                              ELSE IF x = "stolen" THEN r ELSE o1[x]]
    <3>1. DOMAIN o1 = Names
      BY <1>3, <1>4
    <3>2. o2 = [o1 EXCEPT !["stolen"] = r, ![b] = B!NoData]
      BY <1>4, <1>6 DEF HandedTo
    <3>3. o1 = [x \in Names |-> o1[x]]
      BY <1>3, <1>4
    <3> QED
      BY <1>3, <3>2, <3>3, OwnersNow
  <2>3. \A x \in Names : (IF x = "stolen" THEN r ELSE sb'[x])
                           = (IF x = b THEN B!NoData
                              ELSE IF x = "stolen" THEN r ELSE o1[x])
    BY <1>2, <1>3, <1>6, OwnersNow
  <2> QED
    BY <2>1, <2>2, <2>3
<1>9. BuilderInv'
  <2>1. sb' \in [Threads -> Records]
    BY <1>2, <1>3
  <2>2. wrong' = FALSE
    <3>1. ~ B!SizeIsWrong(sb[b].data, sb[b].cap)
      BY <1>3, SizesAreRight, OwnersNow
    <3> QED
      BY <1>2, <3>1 DEF BuilderInv
  <2> QED
    BY <1>4, <1>7, <1>8, <2>1, <2>2 DEF BuilderInv
<1>10. /\ Reads(bytes', stolen') = Reads(bytes, sb[b]) /\ Reads(bytes', sb'[b]) = <<>>
       /\ \A c \in Threads \ {b} : Reads(bytes', sb'[c]) = Reads(bytes, sb[c])
  <2>1. \A c \in Threads \ {b} : Reads(h2, o2[c]) = Reads(bytes, B!Owners[c])
    BY <1>5, <1>7, OwnersNow DEF SameText
  <2> QED
    BY <1>4, <1>5, <1>7, <1>8, <2>1, OwnersNow
<1> QED
  BY <1>9, <1>10, TextTaken

LEMMA FreeStolenStep ==
  ASSUME BuilderInv, B!FreeStolen
  PROVE  BuilderInv' /\ B!Abstract!Next
<1>1. /\ sb' = sb /\ stolen' = B!NoData
      /\ bytes' = B!FreeBlock(bytes, stolen.data)
      /\ wrong' = (wrong \/ B!SizeIsWrong(stolen.data, stolen.cap))
  BY DEF B!FreeStolen
<1>2. "stolen" \in Names /\ B!Owners["stolen"] = stolen /\ Good(bytes, B!Owners)
  BY OwnersNow DEF BuilderInv
<1>3. PICK x, h2, o, o2 :
        /\ x = "stolen" /\ h2 = bytes' /\ o = B!Owners /\ o2 = B!Owners'
  OBVIOUS
<1>4. Good(h2, o2) /\ SameText(Names \ {x}, bytes, o, h2, o2)
  <2>1. B!Owners' = [B!Owners EXCEPT !["stolen"] = B!NoData]
    BY <1>1, StolenChanged
  <2>2. /\ Good(bytes, o) /\ x \in Names /\ h2 = B!FreeBlock(bytes, o[x].data)
        /\ o2 = [o EXCEPT ![x] = B!NoData]
    BY <1>1, <1>2, <1>3, <2>1
  <2> QED
    BY <2>2, GivenBack
<1>5. BuilderInv'
  <2>1. wrong' = FALSE
    BY <1>1, <1>2, SizesAreRight DEF BuilderInv
  <2> QED
    BY <1>1, <1>3, <1>4, <2>1 DEF BuilderInv
<1>6. \A c \in Threads : Reads(bytes', sb'[c]) = Reads(bytes, sb[c])
  BY <1>3, <1>4, OwnersNow DEF SameText
<1>7. AbsText' = AbsText
  <2>1. \A c \in Threads : AbsText'[c] = AbsText[c]
    BY <1>6, TextIs
  <2>2. AbsText = [c \in Threads |-> AbsText[c]] /\ AbsText' = [c \in Threads |-> AbsText'[c]]
    BY DEF AbsText
  <2> QED
    BY <2>1, <2>2
<1>8. AbsTaken' = <<>>
  BY <1>1, BuilderConstants, TextIs DEF Reads
<1> QED
  BY <1>5, <1>7, <1>8, AbstractForget
-----------------------------------------------------------------------------
(* Every call on a builder keeps the invariant and is a step of a string   *)
(* variable, or one that changes none.                                     *)
LEMMA BuilderStep ==
  ASSUME BuilderInv, B!Next
  PROVE  BuilderInv' /\ (B!Abstract!Next \/ UNCHANGED <<AbsText, AbsTaken>>)
<1>1. ASSUME NEW b \in Threads, NEW src \in B!Sources, B!Extend(b, src) \/ B!Printf(b, src)
      PROVE  BuilderInv' /\ B!Abstract!Next
  <2>1. B!Extend(b, src)
    BY <1>1 DEF B!Printf, B!Extend
  <2> QED
    BY <2>1, ExtendStep
<1>2. ASSUME NEW b \in Threads, NEW src \in B!Sources, B!Set(b, src)
      PROVE  BuilderInv' /\ B!Abstract!Next
  BY <1>2, SetStep
<1>3. ASSUME NEW b \in Threads, NEW t \in MCLiterals, B!AppendByteIfNot(b, t)
      PROVE  BuilderInv' /\ B!Abstract!Next
  BY <1>3, AppendByteIfNotStep
<1>4. ASSUME NEW b \in Threads, B!Clear(b)
      PROVE  BuilderInv' /\ (B!Abstract!Next \/ UNCHANGED <<AbsText, AbsTaken>>)
  BY <1>4, ClearStep
<1>5. ASSUME NEW b \in Threads, B!Free(b)
      PROVE  BuilderInv' /\ B!Abstract!Next
  BY <1>5, FreeStep
<1>6. ASSUME NEW b \in Threads, B!Steal(b)
      PROVE  BuilderInv' /\ B!Abstract!Next
  BY <1>6, StealStep
<1>7. ASSUME NEW b \in Threads, B!StealExact(b)
      PROVE  BuilderInv' /\ B!Abstract!Next
  BY <1>7, StealExactStep
<1>8. ASSUME NEW b \in Threads, NEW n \in 0 .. MaxLen, B!Truncate(b, n)
      PROVE  BuilderInv' /\ B!Abstract!Next
  BY <1>8, TruncateStep
<1>9. ASSUME NEW b \in Threads, NEW c \in Threads, B!Copy(b, c)
      PROVE  BuilderInv' /\ (B!Abstract!Next \/ UNCHANGED <<AbsText, AbsTaken>>)
  BY <1>9, CopyStep
<1>10. ASSUME NEW b \in Threads, NEW c \in Threads, B!Move(b, c)
       PROVE  BuilderInv' /\ B!Abstract!Next
  BY <1>10, MoveStep
<1>11. ASSUME B!FreeStolen
       PROVE  BuilderInv' /\ B!Abstract!Next
  BY <1>11, FreeStolenStep
<1> QED
  BY <1>1, <1>2, <1>3, <1>4, <1>5, <1>6, <1>7, <1>8, <1>9, <1>10, <1>11 DEF B!Next

LEMMA BuilderStart ==
  ASSUME B!Init
  PROVE  BuilderInv /\ B!Abstract!Init
<1>1. /\ bytes = [p \in Pointers |-> <<>>] /\ sb = [b \in Threads |-> B!NoData]
      /\ stolen = B!NoData /\ wrong = FALSE
  BY DEF B!Init
<1>2. /\ B!NoData \in Records /\ B!NoData.data = B!NULL
      /\ \A x \in Names : B!Owners[x] = B!NoData
      /\ B!Owners \in [Names -> Records]
  <2>1. \A x \in Names : B!Owners[x] = B!NoData
    BY <1>1, OwnersNow
  <2>2. B!Owners = [x \in Names |-> B!Owners[x]]
    BY DEF B!Owners, Names
  <2> QED
    BY <2>1, <2>2, BuilderConstants
<1>3. Good(bytes, B!Owners)
  BY <1>1, <1>2 DEF Good
<1>4. BuilderInv
  BY <1>1, <1>2, <1>3 DEF BuilderInv
<1>5. AbsText = [b \in Threads |-> <<>>] /\ AbsTaken = <<>>
  BY <1>1, <1>2 DEF AbsText, AbsTaken, B!Text
<1> QED
  BY <1>4, <1>5 DEF AbsText, AbsTaken, B!Abstract!Init

LEMMA BuilderStays ==
  ASSUME BuilderInv, UNCHANGED builderVars
  PROVE  BuilderInv' /\ UNCHANGED <<AbsText, AbsTaken>>
BY ZenonT(30) DEF BuilderInv, builderVars, Good, Fits, B!Owners, AbsText, AbsTaken, B!Text

(* Whoever runs, the builders make steps of their own or none.             *)
LEMMA BuildersInBlocks ==
  /\ BlocksInit => BuilderInv /\ B!Abstract!Init
  /\ BuilderInv /\ [BlocksNext]_blocksVars =>
       BuilderInv' /\ [B!Abstract!Next]_<<AbsText, AbsTaken>>
<1>1. BlocksInit => BuilderInv /\ B!Abstract!Init
  BY BuilderStart DEF BlocksInit
<1>2. ASSUME BuilderInv, [BlocksNext]_blocksVars
      PROVE  BuilderInv' /\ [B!Abstract!Next]_<<AbsText, AbsTaken>>
  <2>1. B!Next \/ UNCHANGED builderVars
    BY <1>2 DEF BlocksNext, blocksVars
  <2> QED
    BY <1>2, <2>1, BuilderStep, BuilderStays
<1> QED
  BY <1>1, <1>2

(* What builders are implemented with is what string variables promise:    *)
(* every sb_ function of string.c, among them sb_append of a part of the   *)
(* builder itself while realloc2 moves its block (main of string.c tests   *)
(* one), changes what is read back as an assignment to a string does.      *)
THEOREM BuildersImplementStrings == BlocksSpec => ImplementsStrings
<1>1. BlocksInit => BuilderInv /\ B!Abstract!Init
  BY BuildersInBlocks
<1>2. BuilderInv /\ [BlocksNext]_blocksVars => BuilderInv'
  BY BuildersInBlocks
<1>3. BuilderInv /\ [BlocksNext]_blocksVars =>
        [B!Abstract!Next]_<<[b \in Threads |-> B!Text(sb[b], bytes)], B!Text(stolen, bytes)>>
  BY BuildersInBlocks DEF AbsText, AbsTaken
<1> QED
  BY <1>1, <1>2, <1>3, PTL
     DEF BlocksSpec, ImplementsStrings, B!ImplementsStrings, B!Abstract!Spec

(* The invariant says what the runs check of the builders. *)
LEMMA BuildersAreExact ==
  ASSUME BuilderInv
  PROVE  B!TypeOK /\ B!BlocksHaveOneOwner /\ B!IsTerminated
<1>1. /\ Good(bytes, B!Owners) /\ B!Owners \in [Names -> Records]
      /\ DOMAIN B!Owners = Names /\ B!NULL \notin Pointers
      /\ \A x \in Names : B!Owners[x].data # B!NULL => Fits(bytes, B!Owners[x])
  BY OwnersAre, BuilderConstants DEF BuilderInv, Good
<1>2. \A x \in Names : /\ B!Owners[x].data \in Pointers \cup {B!NULL}
                       /\ B!Owners[x].len \in 0 .. MaxLen /\ B!Owners[x].cap \in Nat
  BY <1>1 DEF Records
<1>3. DOMAIN bytes = Pointers /\ wrong = FALSE
  BY DEF BuilderInv, Good
<1>4. B!TypeOK
  <2>1. \A x \in Names : B!Owners[x].data # B!NULL => B!Owners[x].len < B!Owners[x].cap
    BY <1>1 DEF Fits
  <2> QED
    BY <1>1, <1>2, <1>3, <2>1 DEF B!TypeOK
<1>5. B!IsTerminated
  BY <1>1 DEF Fits, B!IsTerminated
<1>6. ASSUME NEW p \in Pointers, bytes[p] # <<>>
      PROVE  B!Cardinality({x \in DOMAIN B!Owners : B!Owners[x].data = p}) = 1
  <2>1. PICK x \in Names : B!Owners[x].data = p
    BY <1>1, <1>6 DEF Good
  <2>2. \A y \in Names : B!Owners[y].data = p => y = x
    BY <1>1, <2>1 DEF Good
  <2>3. {y \in DOMAIN B!Owners : B!Owners[y].data = p} = {x}
    BY <1>1, <2>1, <2>2
  <2> QED
    BY <2>3, FS_Singleton, CardinalityIs
<1>7. B!BlocksHaveOneOwner
  <2>1. \A p \in Pointers : bytes[p] # <<>> =>
          B!Cardinality({x \in DOMAIN B!Owners : B!Owners[x].data = p}) = 1
    BY <1>6
  <2>2. \A x \in DOMAIN B!Owners : B!Owners[x].data # B!NULL =>
          Len(bytes[B!Owners[x].data]) = B!Owners[x].cap
    BY <1>1 DEF Fits
  <2>3. ~ wrong
    BY <1>3
  <2> QED
    BY <2>1, <2>2, <2>3 DEF B!BlocksHaveOneOwner
<1> QED
  BY <1>4, <1>5, <1>7
-----------------------------------------------------------------------------
(* The generic array. *)

ArrayRecords ==
  [null : BOOLEAN, count : Nat, cap : Nat, slots : Seq(Threads \cup {A!Garbage})]

(* An array and what its user stored: it has the room its header says.     *)
Holds(a, st) ==
  /\ a \in ArrayRecords /\ st \in Seq(Threads)
  /\ a.count <= a.cap /\ Len(a.slots) = a.cap /\ a.count = Len(st)
  /\ \A i \in 1 .. a.count : a.slots[i] = st[i]
  /\ a.null => a = A!NullArray

LEMMA ArrayConstants ==
  /\ Capacities \subseteq Nat /\ FirstCap \in Nat \ {0}
  /\ MaxCount \in Nat /\ MaxItems \in Nat
  /\ A!NULL \notin Pointers /\ A!Free \notin Threads
  /\ A!NULL = L!NULL /\ A!Free = L!Free
BY Instances DEF A!ArraysAssumption, L!ArraysAssumption, A!NULL, L!NULL, A!Free, L!Free

LEMMA SlotsFacts ==
  ASSUME NEW T, NEW s \in Seq(T), NEW n \in Nat, A!Garbage \in T
  PROVE  /\ A!Slots(s, n) \in Seq(T) /\ Len(A!Slots(s, n)) = n
         /\ \A i \in 1 .. n : i <= Len(s) => A!Slots(s, n)[i] = s[i]
<1>1. A!Slots(s, n) = [i \in 1 .. n |-> IF i <= Len(s) THEN s[i] ELSE A!Garbage]
  BY DEF A!Slots
<1>2. \A i \in 1 .. n : (IF i <= Len(s) THEN s[i] ELSE A!Garbage) \in T
  OBVIOUS
<1>3. A!Slots(s, n) \in [1 .. n -> T]
  BY <1>1, <1>2
<1>4. A!Slots(s, n) \in Seq(T) /\ Len(A!Slots(s, n)) = n
  BY <1>3
<1> QED
  BY <1>1, <1>4

(* More room for the same items, as realloc2 gives. *)
LEMMA ResizedHolds ==
  ASSUME NEW a, NEW st, Holds(a, st), NEW cap \in Nat, cap >= a.cap,
         NEW r, r = [null |-> FALSE, count |-> a.count, cap |-> cap,
                     slots |-> A!Slots(a.slots, cap)]
  PROVE  Holds(r, st)
<1>1. /\ a.count \in Nat /\ a.cap \in Nat /\ st \in Seq(Threads)
      /\ a.slots \in Seq(Threads \cup {A!Garbage})
      /\ a.count <= a.cap /\ Len(a.slots) = a.cap /\ a.count = Len(st)
      /\ \A i \in 1 .. a.count : a.slots[i] = st[i]
  BY DEF Holds, ArrayRecords
<1>s. PICK new : new = A!Slots(a.slots, cap)
  OBVIOUS
<1>2. /\ new \in Seq(Threads \cup {A!Garbage}) /\ Len(new) = cap
      /\ \A i \in 1 .. cap : i <= Len(a.slots) => new[i] = a.slots[i]
  <2>1. PICK T : T = Threads \cup {A!Garbage}
    OBVIOUS
  <2>2. a.slots \in Seq(T) /\ A!Garbage \in T
    BY <1>1, <2>1
  <2> QED
    BY <1>s, <2>1, <2>2, SlotsFacts
<1>3. r.null = FALSE /\ r.count = a.count /\ r.cap = cap /\ r.slots = new
  BY <1>s
<1>4. r \in ArrayRecords
  BY <1>1, <1>2, <1>s DEF ArrayRecords
<1>5. \A i \in 1 .. a.count : i \in 1 .. cap /\ i <= Len(a.slots)
  BY <1>1
<1>6. \A i \in 1 .. r.count : r.slots[i] = st[i]
  BY <1>1, <1>2, <1>3, <1>5
<1>7. r.count <= r.cap
  BY <1>1, <1>3
<1> QED
  BY <1>1, <1>2, <1>3, <1>4, <1>6, <1>7 DEF Holds

LEMMA NullHolds ==
  ASSUME NEW a, NEW st, Holds(a, st), a.null
  PROVE  /\ a.count = 0 /\ a.cap = 0 /\ a.slots = <<>> /\ st = <<>>
         /\ \A cap : A!Fresh(cap) = [null |-> FALSE, count |-> a.count, cap |-> cap,
                                     slots |-> A!Slots(a.slots, cap)]
<1>1. a = A!NullArray /\ st \in Seq(Threads) /\ a.count = Len(st)
  BY DEF Holds
<1>2. a.count = 0 /\ a.cap = 0 /\ a.slots = <<>>
  BY <1>1 DEF A!NullArray
<1>3. st = <<>>
  <2>1. st \in Seq(Threads) /\ Len(st) = 0
    BY <1>1, <1>2
  <2> QED
    BY <2>1, EmptySeq
<1> QED
  BY <1>2, <1>3 DEF A!Fresh

LEMMA EmptyHolds ==
  Holds(A!NullArray, <<>>)
BY DEF Holds, ArrayRecords, A!NullArray

(* generic_array_grow leaves room for one more. *)
LEMMA GrownHolds ==
  ASSUME NEW a, NEW st, Holds(a, st), a.null \/ a.cap > 0, NEW g, g = A!Grown(a)
  PROVE  Holds(g, st) /\ g.count = a.count /\ g.count < g.cap /\ g.null = FALSE
<1>1. /\ a.null \in BOOLEAN /\ a.count \in Nat /\ a.cap \in Nat /\ a.count <= a.cap
      /\ a \in [null : BOOLEAN, count : Nat, cap : Nat, slots : Seq(Threads \cup {A!Garbage})]
  BY DEF Holds, ArrayRecords
<1>2. CASE ~ a.null /\ a.count < a.cap
  <2>1. g = a
    BY <1>2 DEF A!Grown
  <2> QED
    BY <1>1, <1>2, <2>1
<1>3. CASE ~ (~ a.null /\ a.count < a.cap)
  <2>c. PICK cap : cap = IF a.null THEN FirstCap ELSE 2 * a.cap
    OBVIOUS
  <2>1. cap \in Nat /\ cap >= a.cap /\ a.count < cap
    <3>1. CASE a.null
      BY <2>c, <3>1, NullHolds, ArrayConstants
    <3>2. CASE ~ a.null
      BY <1>1, <2>c, <3>2
    <3> QED
      BY <3>1, <3>2
  <2>2. g = [null |-> FALSE, count |-> a.count, cap |-> cap,
             slots |-> A!Slots(a.slots, cap)]
    <3>1. g = [a EXCEPT !.null = FALSE, !.cap = cap, !.slots = A!Slots(@, cap)]
      BY <1>3, <2>c DEF A!Grown
    <3> QED
      BY <1>1, <3>1
  <2>3. Holds(g, st)
    BY <2>1, <2>2, ResizedHolds
  <2> QED
    BY <2>1, <2>2, <2>3
<1> QED
  BY <1>2, <1>3

(* generic_array_reserve *)
LEMMA ReservedHolds ==
  ASSUME NEW a, NEW st, Holds(a, st), NEW n \in Nat
  PROVE  Holds(A!Reserved(a, n), st)
<1>1. /\ a.null \in BOOLEAN /\ a.count \in Nat /\ a.cap \in Nat /\ a.count <= a.cap
      /\ a \in [null : BOOLEAN, count : Nat, cap : Nat, slots : Seq(Threads \cup {A!Garbage})]
  BY DEF Holds, ArrayRecords
<1>2. CASE n = 0 \/ (~ a.null /\ n <= a.cap)
  BY <1>2 DEF A!Reserved
<1>3. CASE n # 0 /\ a.null
  <2>1. A!Reserved(a, n) = A!Fresh(n)
    BY <1>3 DEF A!Reserved
  <2>2. A!Reserved(a, n) = [null |-> FALSE, count |-> a.count, cap |-> n,
                            slots |-> A!Slots(a.slots, n)]
    BY <1>3, <2>1, NullHolds
  <2>3. n >= a.cap
    BY <1>3, NullHolds
  <2> QED
    BY <2>2, <2>3, ResizedHolds
<1>4. CASE n # 0 /\ ~ a.null /\ ~ (n <= a.cap)
  <2>c. PICK cap : cap = IF a.cap = 0 THEN n ELSE A!Doubled(a.cap, n)
    OBVIOUS
  <2>1. a.cap = 0 => cap \in Nat /\ cap >= a.cap
    BY <2>c
  <2>2. ASSUME a.cap # 0 PROVE cap \in Nat /\ cap >= a.cap
    <3>s. PICK first, S, k : /\ first = a.cap
                             /\ S = {i \in 0 .. n : first * 2^i >= n}
                             /\ k = A!Min(S)
      OBVIOUS
    <3>1. first \in Nat \ {0}
      BY <1>1, <2>2, <3>s
    <3>2. first * 2^k \in Nat /\ first * 2^k >= n /\ first * 2^k >= first
      BY <3>1, <3>s, DoublingSuffices
    <3>3. cap = first * 2^k
      BY <2>c, <2>2, <3>s DEF A!Doubled
    <3> QED
      BY <3>1, <3>2, <3>3, <3>s
  <2>3. A!Reserved(a, n) = [null |-> FALSE, count |-> a.count, cap |-> cap,
                            slots |-> A!Slots(a.slots, cap)]
    <3>1. A!Reserved(a, n) = [a EXCEPT !.cap = cap, !.slots = A!Slots(@, cap)]
      BY <1>4, <2>c DEF A!Reserved
    <3> QED
      BY <1>1, <1>4, <3>1
  <2> QED
    BY <2>1, <2>2, <2>3, ResizedHolds
<1> QED
  BY <1>1, <1>2, <1>3, <1>4
-----------------------------------------------------------------------------
(* The calls on the generic array. *)

ArrayInv == Holds(array, stored) /\ listWrong = FALSE

LEMMA HeaderIsRight ==
  ASSUME ArrayInv
  PROVE  ~ A!HeaderIsWrong
BY DEF ArrayInv, Holds, A!HeaderIsWrong

LEMMA PushStep ==
  ASSUME ArrayInv, NEW v \in Threads, A!Push(v)
  PROVE  ArrayInv'
<1>g. PICK g, n : g = A!Grown(array) /\ n = g.count
  OBVIOUS
<1>1. Holds(g, stored) /\ g.count = array.count /\ g.count < g.cap /\ g.null = FALSE
  BY <1>g, GrownHolds DEF ArrayInv, A!Push
<1>2. /\ array' = [g EXCEPT !.count = @ + 1,
                            !.slots = [i \in DOMAIN @ |-> IF i = g.count + 1 THEN v ELSE @[i]]]
      /\ stored' = Append(stored, v)
      /\ listWrong' = (listWrong \/ A!HeaderIsWrong)
  BY <1>g DEF A!Push
<1>3. /\ g \in [null : BOOLEAN, count : Nat, cap : Nat, slots : Seq(Threads \cup {A!Garbage})]
      /\ stored \in Seq(Threads) /\ Len(stored) = n /\ n \in Nat /\ g.cap \in Nat
      /\ n < g.cap /\ Len(g.slots) = g.cap /\ \A i \in 1 .. n : g.slots[i] = stored[i]
  BY <1>g, <1>1 DEF Holds, ArrayRecords
<1>s. PICK slots : slots = [i \in DOMAIN g.slots |-> IF i = n + 1 THEN v ELSE g.slots[i]]
  OBVIOUS
<1>4. array' = [null |-> FALSE, count |-> n + 1, cap |-> g.cap, slots |-> slots]
  BY <1>g, <1>1, <1>2, <1>3, <1>s
<1>5. /\ slots \in Seq(Threads \cup {A!Garbage}) /\ Len(slots) = g.cap
      /\ slots[n + 1] = v /\ \A i \in 1 .. n : slots[i] = stored[i]
  <2>1. DOMAIN g.slots = 1 .. g.cap
    BY <1>3
  <2>2. \A i \in 1 .. g.cap : (IF i = n + 1 THEN v ELSE g.slots[i]) \in Threads \cup {A!Garbage}
    BY <1>3
  <2>3. slots \in [1 .. g.cap -> Threads \cup {A!Garbage}]
    BY <1>s, <2>1, <2>2
  <2>4. n + 1 \in 1 .. g.cap /\ \A i \in 1 .. n : i \in 1 .. g.cap /\ i # n + 1
    BY <1>3
  <2>5. slots \in Seq(Threads \cup {A!Garbage}) /\ Len(slots) = g.cap
    BY <1>3, <2>3
  <2>6. \A i \in 1 .. g.cap : slots[i] = IF i = n + 1 THEN v ELSE g.slots[i]
    BY <1>s, <2>1
  <2> QED
    BY <1>3, <2>4, <2>5, <2>6
<1>6. /\ stored' \in Seq(Threads) /\ Len(stored') = n + 1
      /\ stored'[n + 1] = v /\ \A i \in 1 .. n : stored'[i] = stored[i]
  BY <1>2, <1>3
<1>7. Holds(array', stored')
  <2>1. array' \in ArrayRecords
    BY <1>3, <1>4, <1>5 DEF ArrayRecords
  <2>2. n + 1 <= g.cap /\ \A i \in 1 .. n + 1 : i \in 1 .. n \/ i = n + 1
    BY <1>3
  <2>3. \A i \in 1 .. n + 1 : slots[i] = stored'[i]
    BY <1>5, <1>6, <2>2
  <2> QED
    BY <1>4, <1>5, <1>6, <2>1, <2>2, <2>3 DEF Holds
<1> QED
  BY <1>2, <1>7, HeaderIsRight DEF ArrayInv

LEMMA InitCountStep ==
  ASSUME ArrayInv, NEW n \in Capacities, NEW v \in Threads, A!InitCount(n, v)
  PROVE  ArrayInv'
<1>s. PICK row : row = [i \in 1 .. n |-> v]
  OBVIOUS
<1>1. n \in Nat
  BY ArrayConstants
<1>2. row \in Seq(Threads) /\ row \in Seq(Threads \cup {A!Garbage}) /\ Len(row) = n
  BY <1>s, <1>1
<1>3. /\ array' = [A!Fresh(n) EXCEPT !.count = n, !.slots = row]
      /\ stored' = row /\ listWrong' = listWrong
  BY <1>s DEF A!InitCount
<1>4. array' = [null |-> FALSE, count |-> n, cap |-> n, slots |-> row]
  BY <1>3 DEF A!Fresh
<1>5. array' \in ArrayRecords
  BY <1>1, <1>2, <1>4 DEF ArrayRecords
<1>6. Holds(array', stored')
  <2>1. /\ array'.null = FALSE /\ array'.count = n /\ array'.cap = n
        /\ array'.slots = row /\ stored' = row
    <3>1. array'.null = FALSE /\ array'.count = n /\ array'.cap = n /\ array'.slots = row
      BY <1>4, Zenon
    <3> QED
      BY <1>3, <3>1, Zenon
  <2>2. PICK a, st : a = array' /\ st = stored'
    OBVIOUS
  <2>3. /\ a \in ArrayRecords /\ st \in Seq(Threads) /\ a.null = FALSE
        /\ a.count = n /\ a.cap = n /\ a.slots = st /\ Len(st) = n /\ n <= n
    BY <1>1, <1>2, <1>5, <2>1, <2>2
  <2>4. Holds(a, st)
    BY <2>3 DEF Holds
  <2> QED
    BY <2>2, <2>4
<1> QED
  BY <1>3, <1>6 DEF ArrayInv

LEMMA SetCountStep ==
  ASSUME ArrayInv, NEW n \in 0 .. MaxCount, A!SetCount(n)
  PROVE  ArrayInv'
<1>1. /\ ~ array.null /\ n <= array.count /\ n \in Nat
      /\ array' = [array EXCEPT !.count = n]
      /\ stored' = SubSeq(stored, 1, n) /\ listWrong' = listWrong
  BY ArrayConstants DEF A!SetCount
<1>2. /\ array \in [null : BOOLEAN, count : Nat, cap : Nat, slots : Seq(Threads \cup {A!Garbage})]
      /\ stored \in Seq(Threads) /\ Len(stored) = array.count
      /\ array.count <= array.cap /\ Len(array.slots) = array.cap
      /\ \A i \in 1 .. array.count : array.slots[i] = stored[i]
  BY <1>1 DEF ArrayInv, Holds, ArrayRecords
<1>3. array' = [null |-> FALSE, count |-> n, cap |-> array.cap, slots |-> array.slots]
  BY <1>1, <1>2
<1>4. /\ stored' \in Seq(Threads) /\ Len(stored') = n
      /\ \A i \in 1 .. n : stored'[i] = stored[i] /\ i \in 1 .. array.count
  BY <1>1, <1>2
<1>5. n <= array.cap
  BY <1>1, <1>2
<1>6. Holds(array', stored')
  <2>1. array' \in ArrayRecords
    BY <1>1, <1>2, <1>3 DEF ArrayRecords
  <2> QED
    BY <1>2, <1>3, <1>4, <1>5, <2>1 DEF Holds
<1> QED
  BY <1>1, <1>6 DEF ArrayInv

(* Every call on the generic array keeps its items. *)
LEMMA ArrayStep ==
  ASSUME ArrayInv, A!NextGeneric
  PROVE  ArrayInv'
<1>1. ASSUME NEW c \in Capacities, A!InitArray(c)
      PROVE  ArrayInv'
  <2>1. array.null /\ array' = A!Fresh(c) /\ stored' = stored /\ listWrong' = listWrong
    BY <1>1 DEF A!InitArray
  <2>2. array' = [null |-> FALSE, count |-> array.count, cap |-> c,
                  slots |-> A!Slots(array.slots, c)]
    BY <2>1, NullHolds DEF ArrayInv
  <2>3. c \in Nat /\ c >= array.cap
    BY <2>1, NullHolds, ArrayConstants DEF ArrayInv
  <2>4. Holds(array', stored)
    BY <2>2, <2>3, ResizedHolds DEF ArrayInv
  <2> QED
    BY <2>1, <2>4 DEF ArrayInv
<1>2. ASSUME NEW n \in Nat, A!Reserve(n)
      PROVE  ArrayInv'
  BY <1>2, ReservedHolds, HeaderIsRight DEF A!Reserve, ArrayInv
<1>3. \A c \in Capacities \cup {0} : c \in Nat
  BY ArrayConstants
<1>4. ASSUME NEW v \in Threads, A!Push(v)
      PROVE  ArrayInv'
  BY <1>4, PushStep
<1>5. ASSUME NEW n \in Capacities, NEW v \in Threads, A!InitCount(n, v)
      PROVE  ArrayInv'
  BY <1>5, InitCountStep
<1>6. ASSUME NEW n \in 0 .. MaxCount, A!SetCount(n)
      PROVE  ArrayInv'
  BY <1>6, SetCountStep
<1>7. ASSUME A!FreeArray
      PROVE  ArrayInv'
  BY <1>7, EmptyHolds, HeaderIsRight DEF A!FreeArray, ArrayInv
<1> QED
  BY <1>1, <1>2, <1>3, <1>4, <1>5, <1>6, <1>7 DEF A!NextGeneric
-----------------------------------------------------------------------------
(* The lists of builders. *)

Slot == Pointers \cup {L!NULL, L!Garbage}
ListRecords == [len : 0 .. MaxItems, cap : Nat, items : Seq(Slot)]

(* A list has the room it says, and its items are empty builders or have   *)
(* blocks, each its own.                                                   *)
Tidy(r) ==
  /\ r \in ListRecords /\ r.len <= r.cap /\ Len(r.items) = r.cap
  /\ \A i \in 1 .. r.len : r.items[i] \in Pointers \cup {L!NULL}
  /\ \A i, j \in 1 .. r.len : r.items[i] = r.items[j] /\ r.items[i] # L!NULL => i = j

(* The invariant: the blocks of the lists are those that are not free, and *)
(* each is of one list.                                                    *)
Apart(ls, bl) ==
  /\ ls \in [Threads -> ListRecords] /\ bl \in [Pointers -> Threads \cup {L!Free}]
  /\ \A l \in Threads : Tidy(ls[l])
  /\ \A p \in Pointers : bl[p] # L!Free <=> \E l \in Threads : p \in L!Blocks(ls[l])
  /\ \A l, k \in Threads, p \in Pointers :
       p \in L!Blocks(ls[l]) /\ p \in L!Blocks(ls[k]) => l = k

LEMMA BlocksAre ==
  ASSUME NEW r, Tidy(r)
  PROVE  /\ L!Blocks(r) \subseteq Pointers /\ L!NULL \notin Pointers
         /\ \A p \in Pointers : p \in L!Blocks(r) <=> \E i \in 1 .. r.len : r.items[i] = p
<1>1. L!NULL \notin Pointers
  BY ArrayConstants
<1> QED
  BY <1>1 DEF Tidy, L!Blocks

LEMMA NoItemsTidy ==
  Tidy(L!NoItems) /\ L!Blocks(L!NoItems) = {}
<1>1. L!NoItems.len = 0 /\ L!NoItems.cap = 0 /\ L!NoItems.items = <<>>
  BY DEF L!NoItems
<1>2. L!NoItems \in ListRecords
  BY ArrayConstants DEF L!NoItems, ListRecords
<1> QED
  BY <1>1, <1>2 DEF Tidy, L!Blocks

(* List l becomes r, and gets and frees blocks for it. *)
Renewed(ls, bl, l, r, ls2, bl2) ==
  /\ ls2 = [ls EXCEPT ![l] = r]
  /\ bl2 \in [Pointers -> Threads \cup {L!Free}]
  /\ \A p \in Pointers :
       /\ p \in L!Blocks(r) => bl2[p] # L!Free /\ (bl[p] = L!Free \/ p \in L!Blocks(ls[l]))
       /\ p \notin L!Blocks(r) =>
            bl2[p] = IF p \in L!Blocks(ls[l]) THEN L!Free ELSE bl[p]

LEMMA RenewedApart ==
  ASSUME NEW ls, NEW bl, Apart(ls, bl), NEW l \in Threads, NEW r, Tidy(r),
         NEW ls2, NEW bl2, Renewed(ls, bl, l, r, ls2, bl2)
  PROVE  Apart(ls2, bl2)
<1>1. /\ ls \in [Threads -> ListRecords] /\ r \in ListRecords
      /\ ls2 = [ls EXCEPT ![l] = r]
      /\ bl2 \in [Pointers -> Threads \cup {L!Free}]
  BY DEF Apart, Tidy, Renewed
<1>2. /\ ls2 \in [Threads -> ListRecords] /\ ls2[l] = r
      /\ \A k \in Threads \ {l} : ls2[k] = ls[k]
  BY <1>1
<1>3. \A k \in Threads : Tidy(ls2[k])
  BY <1>2 DEF Apart
<1>4. \A k \in Threads \ {l}, p \in Pointers : p \in L!Blocks(ls2[k]) =>
        p \notin L!Blocks(ls[l]) /\ bl[p] # L!Free /\ p \notin L!Blocks(r) /\ bl2[p] # L!Free
  BY <1>2 DEF Apart, Renewed
<1>5. \A p \in Pointers : bl2[p] # L!Free <=> \E k \in Threads : p \in L!Blocks(ls2[k])
  <2> SUFFICES ASSUME NEW p \in Pointers
               PROVE  bl2[p] # L!Free <=> \E k \in Threads : p \in L!Blocks(ls2[k])
    OBVIOUS
  <2>1. CASE p \in L!Blocks(r)
    BY <1>2, <2>1 DEF Renewed
  <2>2. CASE p \notin L!Blocks(r)
    <3>1. bl2[p] # L!Free => \E k \in Threads \ {l} : p \in L!Blocks(ls[k])
      BY <2>2 DEF Renewed, Apart
    <3>2. (\E k \in Threads : p \in L!Blocks(ls2[k])) => bl2[p] # L!Free
      BY <1>2, <1>4, <2>2
    <3> QED
      BY <1>2, <3>1, <3>2
  <2> QED
    BY <2>1, <2>2
<1>6. \A k, j \in Threads, p \in Pointers :
        p \in L!Blocks(ls2[k]) /\ p \in L!Blocks(ls2[j]) => k = j
  <2> SUFFICES ASSUME NEW k \in Threads, NEW j \in Threads, NEW p \in Pointers,
                      p \in L!Blocks(ls2[k]), p \in L!Blocks(ls2[j])
               PROVE  k = j
    OBVIOUS
  <2>1. CASE k = l /\ j # l
    BY <1>2, <1>4, <2>1
  <2>2. CASE k # l /\ j = l
    BY <1>2, <1>4, <2>2
  <2>3. CASE k # l /\ j # l
    BY <1>2, <2>3 DEF Apart
  <2> QED
    BY <2>1, <2>2, <2>3
<1> QED
  BY <1>1, <1>2, <1>3, <1>5, <1>6 DEF Apart

Swapped(ls, d, s) == [ls EXCEPT ![d] = ls[s], ![s] = ls[d]]

LEMMA SwappedApart ==
  ASSUME NEW ls, NEW bl, Apart(ls, bl), NEW d \in Threads, NEW s \in Threads,
         NEW ls2, ls2 = Swapped(ls, d, s)
  PROVE  Apart(ls2, bl)
<1>1. ls \in [Threads -> ListRecords]
  BY DEF Apart
<1>2. /\ ls2 \in [Threads -> ListRecords] /\ ls2[d] = ls[s] /\ ls2[s] = ls[d]
      /\ \A k \in Threads \ {d, s} : ls2[k] = ls[k]
  BY <1>1 DEF Swapped
<1>3. \A k \in Threads : Tidy(ls2[k])
  BY <1>2 DEF Apart
<1>4. ASSUME NEW p \in Pointers
      PROVE  (\E k \in Threads : p \in L!Blocks(ls2[k]))
               <=> (\E k \in Threads : p \in L!Blocks(ls[k]))
  BY <1>2
<1>5. \A k, j \in Threads, p \in Pointers :
        p \in L!Blocks(ls2[k]) /\ p \in L!Blocks(ls2[j]) => k = j
  <2> SUFFICES ASSUME NEW k \in Threads, NEW j \in Threads, NEW p \in Pointers,
                      p \in L!Blocks(ls2[k]), p \in L!Blocks(ls2[j])
               PROVE  k = j
    OBVIOUS
  <2>1. \A i, m \in Threads : p \in L!Blocks(ls[i]) /\ p \in L!Blocks(ls[m]) => i = m
    BY DEF Apart
  <2> QED
    BY <1>2, <2>1
<1> QED
  BY <1>2, <1>3, <1>4, <1>5 DEF Apart
-----------------------------------------------------------------------------
(* str_builder_array_reserve *)
LEMMA RoomFacts ==
  ASSUME NEW r, Tidy(r), NEW extra \in Nat, NEW m, m = L!Room(r, extra)
  PROVE  /\ m \in ListRecords /\ m.len = r.len /\ Len(m.items) = m.cap
         /\ r.len + extra <= m.cap
         /\ \A i \in 1 .. r.len : m.items[i] = r.items[i]
<1>1. /\ r \in [len : 0 .. MaxItems, cap : Nat, items : Seq(Slot)]
      /\ r.len \in 0 .. MaxItems /\ MaxItems \in Nat /\ r.len \in Nat /\ r.cap \in Nat
      /\ r.items \in Seq(Slot) /\ r.len <= r.cap /\ Len(r.items) = r.cap
  BY ArrayConstants DEF Tidy, ListRecords
<1>2. CASE extra <= 0 \/ r.len + extra <= r.cap
  <2>1. m = r
    BY <1>2 DEF L!Room
  <2>2. r.len + extra <= r.cap
    BY <1>1, <1>2
  <2> QED
    BY <1>1, <2>1, <2>2 DEF ListRecords
<1>3. CASE ~ (extra <= 0 \/ r.len + extra <= r.cap)
  <2>c. PICK first, needed, cap :
          /\ first = IF r.cap <= 0 THEN FirstCap ELSE r.cap
          /\ needed = r.len + extra /\ cap = L!Doubled(first, needed)
    OBVIOUS
  <2>1. first \in Nat \ {0} /\ first >= r.cap /\ needed \in Nat
    BY <1>1, <2>c, ArrayConstants
  <2>2. cap \in Nat /\ cap >= needed /\ cap >= r.cap
    <3>s. PICK S, k : /\ S = {i \in 0 .. needed : first * 2^i >= needed}
                      /\ k = L!Min(S)
      OBVIOUS
    <3>1. first * 2^k \in Nat /\ first * 2^k >= needed /\ first * 2^k >= first
      BY <2>1, <3>s, DoublingSuffices
    <3>2. cap = first * 2^k
      BY <2>c, <3>s DEF L!Doubled
    <3> QED
      BY <1>1, <2>1, <3>1, <3>2
  <2>n. PICK new : new = A!Slots(r.items, cap)
    OBVIOUS
  <2>3. m = [len |-> r.len, cap |-> cap, items |-> new]
    <3>1. m = [r EXCEPT !.cap = cap, !.items = L!Slots(@, cap)]
      BY <1>3, <2>c DEF L!Room
    <3>2. L!Slots(r.items, cap) = new
      BY <2>n DEF L!Slots, A!Slots, L!Garbage, A!Garbage
    <3> QED
      BY <1>1, <3>1, <3>2
  <2>4. /\ new \in Seq(Slot) /\ Len(new) = cap
        /\ \A i \in 1 .. cap : i <= Len(r.items) => new[i] = r.items[i]
    <3>1. A!Garbage \in Slot
      BY DEF Slot, A!Garbage, L!Garbage
    <3> QED
      BY <1>1, <2>2, <2>n, <3>1, SlotsFacts, ZenonT(30)
  <2>5. \A i \in 1 .. r.len : i \in 1 .. cap /\ i <= Len(r.items)
    BY <1>1, <2>2
  <2>6. m.len = r.len /\ m.cap = cap /\ m.items = new
    BY <2>3
  <2>7. m \in ListRecords
    BY <1>1, <2>2, <2>3, <2>4 DEF ListRecords
  <2> QED
    BY <2>2, <2>c, <2>4, <2>5, <2>6, <2>7
<1> QED
  BY <1>2, <1>3
-----------------------------------------------------------------------------
(* The calls on lists. *)

ListInv == Apart(list, block) /\ listWrong = FALSE

LEMMA ListsAreRight ==
  ASSUME ListInv, NEW l \in Threads
  PROVE  Tidy(list[l]) /\ ~ L!ListIsWrong(list[l]) /\ list \in [Threads -> ListRecords]
BY DEF ListInv, Apart, Tidy, L!ListIsWrong

LEMMA AppendItemStep ==
  ASSUME ListInv, NEW l \in Threads, L!AppendItem(l)
  PROVE  ListInv'
<1>m. PICK s, m, n : s = list[l] /\ m = L!Room(s, 1) /\ n = s.len
  OBVIOUS
<1>1. Tidy(s) /\ list \in [Threads -> ListRecords]
  BY <1>m, ListsAreRight
<1>2. /\ m \in [len : 0 .. MaxItems, cap : Nat, items : Seq(Slot)]
      /\ m.len = n /\ Len(m.items) = m.cap /\ n + 1 <= m.cap
      /\ \A i \in 1 .. n : m.items[i] = s.items[i]
  <2>1. 1 \in Nat
    OBVIOUS
  <2> QED
    BY <1>1, <1>m, <2>1, RoomFacts DEF ListRecords
<1>3. /\ n < MaxItems /\ block' = block
      /\ list' = [list EXCEPT ![l] = [m EXCEPT !.len = m.len + 1,
                                              !.items = [m.items EXCEPT ![m.len + 1] = L!NULL]]]
      /\ listWrong' = (listWrong \/ L!ListIsWrong(list[l]))
  BY <1>m DEF L!AppendItem
<1>i. PICK row : row = [m.items EXCEPT ![n + 1] = L!NULL]
  OBVIOUS
<1>r. PICK r : r = [len |-> n + 1, cap |-> m.cap, items |-> row]
  OBVIOUS
<1>4. list' = [list EXCEPT ![l] = r]
  <2>k. PICK k : k = n + 1
    OBVIOUS
  <2>1. [m EXCEPT !.len = k, !.items = row] = r
    <3>1. m \in [len : 0 .. MaxItems, cap : Nat, items : Seq(Slot)]
      BY <1>2
    <3>2. r = [len |-> k, cap |-> m.cap, items |-> row]
      BY <1>r, <2>k
    <3>3. PICK u : u = [m EXCEPT !.len = k]
      OBVIOUS
    <3>4. u = [len |-> k, cap |-> m.cap, items |-> m.items]
      BY <3>1, <3>3
    <3>5. [u EXCEPT !.items = row] = r
      BY <3>2, <3>4
    <3> QED
      BY <3>3, <3>5
  <2>2. m.len + 1 = k /\ [m.items EXCEPT ![m.len + 1] = L!NULL] = row
    BY <1>2, <1>i, <2>k
  <2> QED
    BY <1>3, <2>1, <2>2
<1>n. n \in Nat /\ MaxItems \in Nat /\ m.cap \in Nat /\ n + 1 \in 0 .. MaxItems
      /\ n + 1 \in 1 .. m.cap
  <2>1. n \in 0 .. MaxItems /\ MaxItems \in Nat /\ m.cap \in Nat /\ n + 1 <= m.cap
    BY <1>2, ArrayConstants
  <2> QED
    BY <1>3, <2>1
<1>5. /\ row \in Seq(Slot) /\ Len(row) = m.cap /\ row[n + 1] = L!NULL
      /\ \A i \in 1 .. n : row[i] = s.items[i]
  <2>1. m.items \in Seq(Slot) /\ Len(m.items) = m.cap /\ L!NULL \in Slot
    BY <1>2 DEF Slot
  <2>2. row \in Seq(Slot) /\ Len(row) = m.cap /\ row[n + 1] = L!NULL
    BY <1>i, <1>n, <2>1
  <2>3. \A i \in 1 .. n : i \in 1 .. m.cap /\ i # n + 1
    BY <1>n
  <2>4. \A i \in 1 .. m.cap : i # n + 1 => row[i] = m.items[i]
    BY <1>i, <2>1
  <2> QED
    BY <1>2, <2>2, <2>3, <2>4
<1>6. r.len = n + 1 /\ r.cap = m.cap /\ r.items = row /\ r \in ListRecords
  BY <1>r, <1>n, <1>5 DEF ListRecords
<1>7. \A i \in 1 .. n + 1 : i \in 1 .. n \/ i = n + 1
  BY <1>n
<1>8. Tidy(r)
  <2>1. \A i \in 1 .. n + 1 : row[i] \in Pointers \cup {L!NULL}
    BY <1>1, <1>5, <1>7, <1>m DEF Tidy
  <2>2. ASSUME NEW i \in 1 .. n + 1, NEW j \in 1 .. n + 1,
               row[i] = row[j], row[i] # L!NULL
        PROVE  i = j
    <3>1. i \in 1 .. n /\ j \in 1 .. n
      BY <1>5, <1>7, <2>2
    <3> QED
      BY <1>1, <1>5, <1>m, <2>2, <3>1 DEF Tidy
  <2>3. n + 1 <= m.cap
    BY <1>2
  <2> QED
    BY <1>5, <1>6, <2>1, <2>2, <2>3 DEF Tidy
<1>9. \A p \in Pointers : p \in L!Blocks(r) <=> p \in L!Blocks(s)
  <2> SUFFICES ASSUME NEW p \in Pointers
               PROVE  p \in L!Blocks(r) <=> p \in L!Blocks(s)
    OBVIOUS
  <2>1. /\ p \in L!Blocks(r) <=> \E i \in 1 .. n + 1 : row[i] = p
        /\ p \in L!Blocks(s) <=> \E i \in 1 .. n : s.items[i] = p
        /\ p # L!NULL
    BY <1>1, <1>6, <1>8, <1>m, BlocksAre
  <2>2. \A i \in 1 .. n : i \in 1 .. n + 1
    BY <1>n
  <2> QED
    BY <1>5, <1>7, <2>1, <2>2
<1>10. Renewed(list, block, l, r, list', block')
  <2>1. \A p \in Pointers : p \in L!Blocks(list[l]) => block[p] # L!Free
    BY DEF ListInv, Apart
  <2> QED
    BY <1>3, <1>4, <1>9, <1>m, <2>1 DEF Renewed, ListInv, Apart
<1>11. Apart(list', block')
  <2>1. Apart(list, block)
    BY DEF ListInv
  <2> QED
    BY <1>8, <1>10, <2>1, RenewedApart
<1> QED
  BY <1>3, <1>11, ListsAreRight DEF ListInv

LEMMA WriteItemStep ==
  ASSUME ListInv, NEW l \in Threads, NEW i \in 1 .. MaxItems, NEW v \in Threads,
         L!WriteItem(l, i, v)
  PROVE  ListInv'
<1>s. PICK s, n : s = list[l] /\ n = s.len
  OBVIOUS
<1>1. Tidy(s) /\ list \in [Threads -> ListRecords]
  BY <1>s, ListsAreRight
<1>2. PICK p \in Pointers : /\ block[p] = L!Free
                            /\ block' = [block EXCEPT ![p] = v]
                            /\ list' = [list EXCEPT ![l].items[i] = p]
  BY DEF L!WriteItem
<1>3. i \in 1 .. n /\ s.items[i] = L!NULL /\ listWrong' = listWrong
  BY <1>s DEF L!WriteItem
<1>4. /\ s \in [len : 0 .. MaxItems, cap : Nat, items : Seq(Slot)]
      /\ s.items \in Seq(Slot) /\ Len(s.items) = s.cap /\ n <= s.cap
      /\ n \in Nat /\ s.cap \in Nat /\ i \in 1 .. s.cap
  <2>1. /\ s \in [len : 0 .. MaxItems, cap : Nat, items : Seq(Slot)]
        /\ s.items \in Seq(Slot) /\ Len(s.items) = s.cap /\ n <= s.cap
        /\ n \in Nat /\ s.cap \in Nat
    BY <1>1, <1>s DEF Tidy, ListRecords
  <2>2. i \in 1 .. s.cap
    BY <1>3, <2>1
  <2> QED
    BY <2>1, <2>2
<1>i. PICK row : row = [s.items EXCEPT ![i] = p]
  OBVIOUS
<1>r. PICK r : r = [len |-> n, cap |-> s.cap, items |-> row]
  OBVIOUS
<1>5. list' = [list EXCEPT ![l] = r]
  <2>1. [s EXCEPT !.items = row] = r
    <3>1. s \in [len : 0 .. MaxItems, cap : Nat, items : Seq(Slot)] /\ s.len = n
      BY <1>4, <1>s
    <3> QED
      BY <1>r, <3>1
  <2>2. list' = [list EXCEPT ![l] = [s EXCEPT !.items = row]]
    BY <1>2, <1>i, <1>s
  <2> QED
    BY <2>1, <2>2
<1>6. /\ row \in Seq(Slot) /\ Len(row) = s.cap /\ row[i] = p
      /\ \A j \in 1 .. s.cap : j # i => row[j] = s.items[j]
  BY <1>4, <1>i DEF Slot
<1>7. r.len = n /\ r.cap = s.cap /\ r.items = row /\ r \in ListRecords
  BY <1>4, <1>6, <1>r, <1>s DEF ListRecords
<1>8. \A j \in 1 .. n : j \in 1 .. s.cap
  BY <1>4
<1>9. p \notin L!Blocks(s) /\ \A j \in 1 .. n : s.items[j] # p
  <2>1. p \notin L!Blocks(s)
    BY <1>2, <1>s DEF ListInv, Apart
  <2> QED
    BY <1>1, <1>s, <2>1, BlocksAre
<1>10. Tidy(r)
  <2>1. \A j \in 1 .. n : row[j] \in Pointers \cup {L!NULL}
    BY <1>1, <1>6, <1>8, <1>s DEF Tidy
  <2>2. ASSUME NEW j \in 1 .. n, NEW k \in 1 .. n, row[j] = row[k], row[j] # L!NULL
        PROVE  j = k
    BY <1>1, <1>6, <1>8, <1>9, <1>s, <2>2 DEF Tidy
  <2> QED
    BY <1>4, <1>6, <1>7, <2>1, <2>2 DEF Tidy
<1>11. \A q \in Pointers : q \in L!Blocks(r) <=> q = p \/ q \in L!Blocks(s)
  <2> SUFFICES ASSUME NEW q \in Pointers
               PROVE  q \in L!Blocks(r) <=> q = p \/ q \in L!Blocks(s)
    OBVIOUS
  <2>1. /\ q \in L!Blocks(r) <=> \E j \in 1 .. n : row[j] = q
        /\ q \in L!Blocks(s) <=> \E j \in 1 .. n : s.items[j] = q
        /\ q # L!NULL
    BY <1>1, <1>7, <1>10, <1>s, BlocksAre
  <2> QED
    BY <1>3, <1>6, <1>8, <2>1
<1>12. Renewed(list, block, l, r, list', block')
  <2>1. \A q \in Pointers : q \in L!Blocks(s) => block[q] # L!Free
    BY <1>s DEF ListInv, Apart
  <2>2. /\ block' \in [Pointers -> Threads \cup {L!Free}] /\ block'[p] = v
        /\ \A q \in Pointers \ {p} : block'[q] = block[q]
    BY <1>2 DEF ListInv, Apart
  <2>3. v # L!Free
    BY ArrayConstants
  <2> QED
    BY <1>2, <1>5, <1>9, <1>11, <1>s, <2>1, <2>2, <2>3 DEF Renewed
<1>13. Apart(list', block')
  <2>1. Apart(list, block)
    BY DEF ListInv
  <2> QED
    BY <1>10, <1>12, <2>1, RenewedApart
<1> QED
  BY <1>3, <1>13 DEF ListInv

(* A list that gives up its blocks. *)
LEMMA EmptiedApart ==
  ASSUME ListInv, NEW l \in Threads, NEW r, Tidy(r), L!Blocks(r) = {},
         NEW ls2, ls2 = [list EXCEPT ![l] = r],
         NEW bl2, bl2 = L!Without(L!Blocks(list[l]))
  PROVE  Apart(ls2, bl2)
<1>1. Apart(list, block) /\ block \in [Pointers -> Threads \cup {L!Free}]
  BY DEF ListInv, Apart
<1>2. bl2 = [p \in Pointers |-> IF p \in L!Blocks(list[l]) THEN L!Free ELSE block[p]]
  BY DEF L!Without
<1>3. Renewed(list, block, l, r, ls2, bl2)
  BY <1>1, <1>2 DEF Renewed
<1> QED
  BY <1>1, <1>3, RenewedApart

LEMMA ListClearStep ==
  ASSUME ListInv, NEW l \in Threads, L!Clear(l)
  PROVE  ListInv'
<1>1. /\ block' = L!Without(L!Blocks(list[l]))
      /\ list' = [list EXCEPT ![l].len = 0] /\ listWrong' = listWrong
  BY DEF L!Clear
<1>2. Tidy(list[l]) /\ list[l] \in [len : 0 .. MaxItems, cap : Nat, items : Seq(Slot)]
  BY ListsAreRight DEF Tidy, ListRecords
<1>r. PICK r : r = [len |-> 0, cap |-> list[l].cap, items |-> list[l].items]
  OBVIOUS
<1>3. [list[l] EXCEPT !.len = 0] = r
  BY <1>2, <1>r
<1>4. list' = [list EXCEPT ![l] = r]
  BY <1>1, <1>3
<1>5. r.len = 0 /\ r.cap \in Nat /\ r.items \in Seq(Slot) /\ Len(r.items) = r.cap
  BY <1>2, <1>r DEF Tidy
<1>6. Tidy(r) /\ L!Blocks(r) = {}
  <2>1. r \in ListRecords
    BY <1>5, <1>r, ArrayConstants DEF ListRecords
  <2> QED
    BY <1>5, <2>1 DEF Tidy, L!Blocks
<1>7. PICK ls2, bl2 : ls2 = list' /\ bl2 = block'
  OBVIOUS
<1>8. Apart(ls2, bl2)
  BY <1>1, <1>4, <1>6, <1>7, EmptiedApart
<1> QED
  BY <1>1, <1>7, <1>8 DEF ListInv

LEMMA DestroyStep ==
  ASSUME ListInv, NEW l \in Threads, L!Destroy(l)
  PROVE  ListInv'
<1>1. /\ block' = L!Without(L!Blocks(list[l]))
      /\ list' = [list EXCEPT ![l] = L!NoItems]
      /\ listWrong' = (listWrong \/ L!ListIsWrong(list[l]))
  BY DEF L!Destroy
<1>2. PICK r, ls2, bl2 : r = L!NoItems /\ ls2 = list' /\ bl2 = block'
  OBVIOUS
<1>3. Tidy(r) /\ L!Blocks(r) = {}
  BY <1>2, NoItemsTidy
<1>4. Apart(ls2, bl2)
  BY <1>1, <1>2, <1>3, EmptiedApart
<1> QED
  BY <1>1, <1>2, <1>4, ListsAreRight DEF ListInv

LEMMA ListMoveStep ==
  ASSUME ListInv, NEW d \in Threads, NEW s \in Threads, L!Move(d, s)
  PROVE  ListInv'
<1>1. /\ d # s /\ block' = L!Without(L!Blocks(list[d]))
      /\ list' = [list EXCEPT ![d] = list[s], ![s] = L!NoItems]
      /\ listWrong' = (listWrong \/ L!ListIsWrong(list[d]))
  BY DEF L!Move
<1>2. PICK r, ls1, ls2, bl2 : /\ r = L!NoItems /\ ls1 = [list EXCEPT ![d] = r]
                              /\ ls2 = Swapped(ls1, d, s) /\ bl2 = block'
  OBVIOUS
<1>3. Tidy(r) /\ L!Blocks(r) = {}
  BY <1>2, NoItemsTidy
<1>4. Apart(ls1, bl2)
  BY <1>1, <1>2, <1>3, EmptiedApart
<1>5. Apart(ls2, bl2)
  BY <1>2, <1>4, SwappedApart
<1>6. ls2 = list'
  <2>1. list = [k \in Threads |-> list[k]] /\ DOMAIN list = Threads
    BY ListsAreRight
  <2>2. ls1 = [k \in Threads |-> IF k = d THEN r ELSE list[k]]
    BY <1>2, <2>1
  <2>3. ls1[d] = r /\ ls1[s] = list[s]
    BY <1>1, <2>2
  <2>4. ls2 = [ls1 EXCEPT ![d] = list[s], ![s] = r]
    BY <1>2, <2>3 DEF Swapped
  <2>5. ls2 = [k \in Threads |-> IF k = s THEN r ELSE IF k = d THEN list[s] ELSE list[k]]
    BY <1>1, <2>2, <2>4
  <2>6. list' = [k \in Threads |-> IF k = s THEN r ELSE IF k = d THEN list[s] ELSE list[k]]
    BY <1>1, <1>2, <2>1
  <2> QED
    BY <2>5, <2>6
<1> QED
  BY <1>1, <1>2, <1>5, <1>6, ListsAreRight DEF ListInv

LEMMA SwapStep ==
  ASSUME ListInv, NEW d \in Threads, NEW s \in Threads, L!Swap(d, s)
  PROVE  ListInv'
<1>1. /\ list' = Swapped(list, d, s) /\ block' = block /\ listWrong' = listWrong
  BY DEF L!Swap, Swapped
<1>2. PICK ls2 : ls2 = list'
  OBVIOUS
<1>3. Apart(ls2, block)
  BY <1>1, <1>2, SwappedApart DEF ListInv
<1> QED
  BY <1>1, <1>2, <1>3 DEF ListInv

(* str_builder_array_copy: as many items, with blocks that were free. *)
LEMMA ListCopyStep ==
  ASSUME ListInv, NEW d \in Threads, NEW s \in Threads, L!Copy(d, s)
  PROVE  ListInv'
<1> DEFINE src == list[s]
           full == L!Full(src)
           n == src.len
<1>s. src = list[s] /\ n = src.len /\ full = L!Full(src)
  OBVIOUS
<1>e. PICK room : room = L!Room(L!NoItems, src.len)
  OBVIOUS
<1>1. PICK f \in [full -> {p \in Pointers : block[p] = L!Free}] :
        /\ L!IsInjective(f)
        /\ block' = [p \in Pointers |->
                       IF \E i \in full : f[i] = p
                       THEN block[src.items[CHOOSE i \in full : f[i] = p]]
                       ELSE IF p \in L!Blocks(list[d]) THEN L!Free ELSE block[p]]
        /\ list' = [list EXCEPT ![d] = L!Replacement(src, f)]
  BY DEF L!Copy
<1> HIDE DEF src, full, n
<1>2. listWrong' = (listWrong \/ L!ListIsWrong(list[d]))
  BY DEF L!Copy
<1>3. /\ Tidy(src) /\ list \in [Threads -> ListRecords] /\ src \in ListRecords
      /\ n \in 0 .. MaxItems /\ n \in Nat
  <2>1. Tidy(src) /\ list \in [Threads -> ListRecords] /\ src \in ListRecords
    BY <1>s, ListsAreRight DEF Tidy
  <2> QED
    BY <1>s, <2>1, ArrayConstants DEF ListRecords
<1>4. /\ room \in [len : 0 .. MaxItems, cap : Nat, items : Seq(Slot)]
      /\ Len(room.items) = room.cap /\ n <= room.cap /\ room.cap \in Nat
  <2>e. PICK none : none = L!NoItems
    OBVIOUS
  <2>1. Tidy(none) /\ none.len = 0 /\ room = L!Room(none, n)
    BY <1>e, <1>s, <2>e, NoItemsTidy DEF L!NoItems
  <2>2. room \in ListRecords /\ Len(room.items) = room.cap /\ none.len + n <= room.cap
    BY <1>3, <2>1, RoomFacts
  <2>3. room \in [len : 0 .. MaxItems, cap : Nat, items : Seq(Slot)]
    BY <2>2 DEF ListRecords
  <2> QED
    BY <1>3, <2>1, <2>2, <2>3
<1>i. PICK row : row = [i \in DOMAIN room.items |->
                              IF i \in full THEN f[i]
                              ELSE IF i <= n THEN L!NULL ELSE room.items[i]]
  OBVIOUS
<1>r. PICK r : r = [len |-> n, cap |-> room.cap, items |-> row]
  OBVIOUS
<1>5. list' = [list EXCEPT ![d] = r]
  <2>1. [room EXCEPT !.len = n, !.items = row] = r
    <3>1. PICK u : u = [room EXCEPT !.len = n]
      OBVIOUS
    <3>2. u = [len |-> n, cap |-> room.cap, items |-> room.items]
      BY <1>4, <3>1
    <3>3. [u EXCEPT !.items = row] = r
      BY <1>r, <3>2
    <3> QED
      BY <3>1, <3>3
  <2>2. L!Replacement(src, f) = [room EXCEPT !.len = n, !.items = row]
    <3>1. DOMAIN f = full
      BY <1>1
    <3> QED
      BY <1>e, <1>i, <1>s, <3>1 DEF L!Replacement
  <2> QED
    BY <1>1, <2>1, <2>2
<1>6. DOMAIN room.items = 1 .. room.cap
  BY <1>4
<1>7. /\ \A i \in full : i \in 1 .. n /\ src.items[i] \in Pointers /\ f[i] \in Pointers
                         /\ block[f[i]] = L!Free
      /\ \A i, j \in full : f[i] = f[j] => i = j
  <2>1. \A i \in full : i \in 1 .. n /\ src.items[i] \in Pointers
    BY <1>3, <1>s DEF Tidy, L!Full
  <2>2. \A i, j \in full : f[i] = f[j] => i = j
    BY <1>1 DEF L!IsInjective
  <2> QED
    BY <1>1, <2>1, <2>2
<1>8. \A i \in full : block[src.items[i]] \in Threads
  <2> SUFFICES ASSUME NEW i \in full
               PROVE  block[src.items[i]] \in Threads
    OBVIOUS
  <2>1. src.items[i] \in Pointers /\ src.items[i] \in L!Blocks(list[s])
    BY <1>3, <1>7, <1>s, BlocksAre
  <2>2. block[src.items[i]] # L!Free
    BY <2>1 DEF ListInv, Apart
  <2> QED
    BY <2>1, <2>2 DEF ListInv, Apart
<1>9. /\ row \in Seq(Slot) /\ Len(row) = room.cap
      /\ \A i \in 1 .. n : row[i] = IF i \in full THEN f[i] ELSE L!NULL
  <2>1. \A i \in 1 .. room.cap :
          (IF i \in full THEN f[i] ELSE IF i <= n THEN L!NULL ELSE room.items[i]) \in Slot
    BY <1>4, <1>7 DEF Slot
  <2>2. row \in [1 .. room.cap -> Slot]
    BY <1>6, <1>i, <2>1
  <2>3. row \in Seq(Slot) /\ Len(row) = room.cap
    BY <1>4, <2>2
  <2>4. \A i \in 1 .. n : i \in 1 .. room.cap /\ i <= n
    BY <1>3, <1>4
  <2> QED
    BY <1>6, <1>i, <2>3, <2>4
<1>10. r.len = n /\ r.cap = room.cap /\ r.items = row /\ r \in ListRecords
  BY <1>3, <1>4, <1>9, <1>r DEF ListRecords
<1>11. Tidy(r)
  <2>1. \A i \in 1 .. n : row[i] \in Pointers \cup {L!NULL}
    BY <1>7, <1>9
  <2>2. ASSUME NEW i \in 1 .. n, NEW j \in 1 .. n, row[i] = row[j], row[i] # L!NULL
        PROVE  i = j
    BY <1>7, <1>9, <2>2
  <2> QED
    BY <1>4, <1>9, <1>10, <2>1, <2>2 DEF Tidy
<1>12. \A p \in Pointers : p \in L!Blocks(r) <=> \E i \in full : f[i] = p
  <2> SUFFICES ASSUME NEW p \in Pointers
               PROVE  p \in L!Blocks(r) <=> \E i \in full : f[i] = p
    OBVIOUS
  <2>1. /\ p \in L!Blocks(r) <=> \E i \in 1 .. n : row[i] = p
        /\ p # L!NULL
    BY <1>10, <1>11, BlocksAre
  <2> QED
    BY <1>7, <1>9, <2>1
<1>13. Renewed(list, block, d, r, list', block')
  <2>1. ASSUME NEW p \in Pointers, \E i \in full : f[i] = p
        PROVE  block'[p] \in Threads /\ block[p] = L!Free
    <3>c. PICK c : c = CHOOSE i \in full : f[i] = p
      OBVIOUS
    <3>1. c \in full
      BY <2>1, <3>c
    <3>2. block'[p] = block[src.items[c]]
      BY <1>1, <2>1, <3>c
    <3> QED
      BY <1>7, <1>8, <2>1, <3>1, <3>2
  <2>2. \A p \in Pointers : ~ (\E i \in full : f[i] = p) =>
          block'[p] = IF p \in L!Blocks(list[d]) THEN L!Free ELSE block[p]
    BY <1>1
  <2>3. block' \in [Pointers -> Threads \cup {L!Free}]
    <3>1. block \in [Pointers -> Threads \cup {L!Free}]
      BY DEF ListInv, Apart
    <3>2. \A p \in Pointers : block'[p] \in Threads \cup {L!Free}
      BY <2>1, <2>2, <3>1
    <3>3. block' = [p \in Pointers |-> block'[p]]
      BY <1>1
    <3> QED
      BY <3>2, <3>3
  <2>4. L!Free \notin Threads
    BY ArrayConstants
  <2>5. \A p \in Pointers :
          /\ p \in L!Blocks(r) => block'[p] # L!Free /\ block[p] = L!Free
          /\ p \notin L!Blocks(r) =>
               block'[p] = IF p \in L!Blocks(list[d]) THEN L!Free ELSE block[p]
    BY <1>12, <2>1, <2>2, <2>4
  <2> QED
    BY <1>5, <2>3, <2>5 DEF Renewed
<1>14. Apart(list', block')
  <2>1. Apart(list, block)
    BY DEF ListInv
  <2> QED
    BY <1>11, <1>13, <2>1, RenewedApart
<1> QED
  BY <1>2, <1>14, ListsAreRight DEF ListInv

(* Every call on lists keeps their blocks apart. *)
LEMMA ListStep ==
  ASSUME ListInv, L!NextLists
  PROVE  ListInv'
<1>1. ASSUME NEW l \in Threads, L!AppendItem(l)
      PROVE  ListInv'
  BY <1>1, AppendItemStep
<1>2. ASSUME NEW l \in Threads, L!Clear(l)
      PROVE  ListInv'
  BY <1>2, ListClearStep
<1>3. ASSUME NEW l \in Threads, L!Destroy(l)
      PROVE  ListInv'
  BY <1>3, DestroyStep
<1>4. ASSUME NEW l \in Threads, NEW i \in 1 .. MaxItems, NEW v \in Threads, L!WriteItem(l, i, v)
      PROVE  ListInv'
  BY <1>4, WriteItemStep
<1>5. ASSUME NEW d \in Threads, NEW s \in Threads, L!Copy(d, s)
      PROVE  ListInv'
  BY <1>5, ListCopyStep
<1>6. ASSUME NEW d \in Threads, NEW s \in Threads, L!Move(d, s)
      PROVE  ListInv'
  BY <1>6, ListMoveStep
<1>7. ASSUME NEW d \in Threads, NEW s \in Threads, L!Swap(d, s)
      PROVE  ListInv'
  BY <1>7, SwapStep
<1> QED
  BY <1>1, <1>2, <1>3, <1>4, <1>5, <1>6, <1>7 DEF L!NextLists
-----------------------------------------------------------------------------
(* Arrays and lists together, and whoever runs. *)

LEMMA ArraysAreExact ==
  ASSUME ArrayInv, ListInv
  PROVE  A!TypeOK /\ A!ItemsAreKept
<1>1. /\ array.count <= array.cap /\ Len(array.slots) = array.cap
      /\ array.count = Len(stored)
      /\ \A i \in 1 .. array.count : array.slots[i] = stored[i]
      /\ ~ listWrong
  BY DEF ArrayInv, Holds
<1>2. \A l \in Threads :
        /\ list[l].len <= list[l].cap /\ Len(list[l].items) = list[l].cap
        /\ \A i \in 1 .. list[l].len : list[l].items[i] \in Pointers \cup {A!NULL}
  BY ListsAreRight, ArrayConstants DEF Tidy
<1> QED
  BY <1>1, <1>2 DEF A!TypeOK, A!ItemsAreKept

LEMMA ItemsAreApart ==
  ASSUME ListInv
  PROVE  L!ItemsOwnTheirBlocks
<1> SUFFICES ASSUME NEW p \in Pointers
             PROVE  L!Cardinality({x \in Threads \X (1 .. MaxItems) :
                                     x[2] <= list[x[1]].len /\ list[x[1]].items[x[2]] = p})
                      = (IF block[p] = L!Free THEN 0 ELSE 1)
  BY DEF L!ItemsOwnTheirBlocks
<1>s. PICK S : S = {x \in Threads \X (1 .. MaxItems) :
                      x[2] <= list[x[1]].len /\ list[x[1]].items[x[2]] = p}
  OBVIOUS
<1>1. ASSUME NEW l \in Threads
      PROVE  /\ list[l].len \in Nat /\ list[l].len <= MaxItems /\ MaxItems \in Nat
             /\ p \in L!Blocks(list[l]) <=> \E i \in 1 .. list[l].len : list[l].items[i] = p
             /\ \A i, j \in 1 .. list[l].len :
                  list[l].items[i] = p /\ list[l].items[j] = p => i = j
  <2>1. Tidy(list[l]) /\ list[l] \in ListRecords /\ p # L!NULL
    BY ListsAreRight, ArrayConstants DEF Tidy
  <2>2. list[l].len \in 0 .. MaxItems /\ MaxItems \in Nat
    BY <2>1, ArrayConstants DEF ListRecords
  <2>3. p \in L!Blocks(list[l]) <=> \E i \in 1 .. list[l].len : list[l].items[i] = p
    BY <2>1, BlocksAre
  <2> QED
    BY <2>1, <2>2, <2>3 DEF Tidy
<1>2. CASE block[p] = L!Free
  <2>1. \A l \in Threads : p \notin L!Blocks(list[l])
    BY <1>2 DEF ListInv, Apart
  <2>2. ASSUME NEW x \in S
        PROVE  FALSE
    <3>1. /\ x[1] \in Threads /\ x[2] \in 1 .. MaxItems
          /\ x[2] <= list[x[1]].len /\ list[x[1]].items[x[2]] = p
      BY <1>s
    <3>2. x[2] \in 1 .. list[x[1]].len
      BY <1>1, <3>1
    <3> QED
      BY <1>1, <2>1, <3>1, <3>2
  <2>3. S = {}
    BY <2>2
  <2> QED
    BY <1>2, <1>s, <2>3, FS_EmptySet, CardinalityIs
<1>3. CASE block[p] # L!Free
  <2>1. PICK l \in Threads : p \in L!Blocks(list[l])
    BY <1>3 DEF ListInv, Apart
  <2>2. \A k \in Threads : p \in L!Blocks(list[k]) => k = l
    BY <2>1 DEF ListInv, Apart
  <2>3. PICK i \in 1 .. list[l].len : list[l].items[i] = p
    BY <1>1, <2>1
  <2>4. i \in 1 .. list[l].len
    BY <2>3
  <2>5. i \in 1 .. MaxItems /\ i <= list[l].len
    BY <1>1, <2>4
  <2>6. <<l, i>> \in S
    BY <1>s, <2>3, <2>5
  <2>7. ASSUME NEW x \in S
        PROVE  x = <<l, i>>
    <3>1. /\ x[1] \in Threads /\ x[2] \in 1 .. MaxItems /\ x = <<x[1], x[2]>>
          /\ x[2] <= list[x[1]].len /\ list[x[1]].items[x[2]] = p
      BY <1>s
    <3>2. x[2] \in 1 .. list[x[1]].len
      BY <1>1, <3>1
    <3>3. x[1] = l
      BY <1>1, <2>2, <3>1, <3>2
    <3>4. x[2] = i
      BY <1>1, <2>3, <2>4, <3>1, <3>2, <3>3
    <3> QED
      BY <3>1, <3>3, <3>4
  <2>8. S = {<<l, i>>}
    BY <2>6, <2>7
  <2>9. Cardinality(S) = 1
    BY <2>8, FS_Singleton
  <2> QED
    BY <1>3, <1>s, <2>9, CardinalityIs
<1> QED
  BY <1>2, <1>3

LEMMA OthersStay ==
  /\ A!NextGeneric => UNCHANGED <<list, block>>
  /\ L!NextLists => UNCHANGED <<array, stored>>
<1>1. A!NextGeneric => UNCHANGED <<list, block>>
  BY DEF A!NextGeneric, A!InitArray, A!Reserve, A!Push, A!InitCount, A!SetCount,
         A!FreeArray, A!Lists1
<1>2. L!NextLists => UNCHANGED <<array, stored>>
  BY DEF L!NextLists, L!AppendItem, L!Clear, L!Destroy, L!WriteItem, L!Copy, L!Move,
         L!Swap, L!Generic
<1> QED
  BY <1>1, <1>2

BlocksInv == BuilderInv /\ ArrayInv /\ ListInv

LEMMA BlocksStart ==
  BlocksInit => BlocksInv
<1> SUFFICES ASSUME BlocksInit
             PROVE  BlocksInv
  OBVIOUS
<1>1. BuilderInv
  BY BuildersInBlocks
<1>2. /\ array = A!NullArray /\ stored = <<>> /\ listWrong = FALSE
      /\ list = [l \in Threads |-> L!NoItems] /\ block = [p \in Pointers |-> L!Free]
  BY DEF BlocksInit, A!Init, A!NoItems, L!NoItems, A!Free, L!Free
<1>3. ArrayInv
  BY <1>2, EmptyHolds DEF ArrayInv
<1>4. Apart(list, block)
  <2>1. L!NoItems \in ListRecords
    BY NoItemsTidy DEF Tidy
  <2> QED
    BY <1>2, <2>1, NoItemsTidy DEF Apart
<1> QED
  BY <1>1, <1>2, <1>3, <1>4 DEF BlocksInv, ListInv

LEMMA BlocksStep ==
  BlocksInv /\ [BlocksNext]_blocksVars => BlocksInv'
<1> SUFFICES ASSUME BlocksInv, [BlocksNext]_blocksVars
             PROVE  BlocksInv'
  OBVIOUS
<1>1. BuilderInv'
  BY BuildersInBlocks DEF BlocksInv
<1>2. CASE A!NextGeneric
  <2>1. ArrayInv'
    BY <1>2, ArrayStep DEF BlocksInv
  <2>2. list' = list /\ block' = block
    BY <1>2, OthersStay
  <2> QED
    BY <1>1, <2>1, <2>2 DEF BlocksInv, ListInv, ArrayInv, Apart
<1>3. CASE L!NextLists
  <2>1. ListInv'
    BY <1>3, ListStep DEF BlocksInv
  <2>2. array' = array /\ stored' = stored
    BY <1>3, OthersStay
  <2> QED
    BY <1>1, <2>1, <2>2 DEF BlocksInv, ListInv, ArrayInv, Holds
<1>4. CASE UNCHANGED arrayVars
  BY <1>1, <1>4 DEF BlocksInv, ListInv, ArrayInv, Holds, Apart, arrayVars
<1> QED
  BY <1>2, <1>3, <1>4 DEF BlocksNext, blocksVars

(* After any calls on builders, arrays and lists of builders every block   *)
(* has one owner that knows its size, none is lost, strings end with their *)
(* NUL inside of their blocks and arrays keep what was stored: what        *)
(* free2, realloc2 and the tests of string.c and array.c rely on, for any  *)
(* capacities and any number of builders and lists.                        *)
THEOREM BlocksAlwaysExact == BlocksSpec => []BlocksAndItemsAreExact
<1>1. BlocksInv => BlocksAndItemsAreExact
  BY BuildersAreExact, ArraysAreExact, ItemsAreApart
     DEF BlocksInv, BlocksAndItemsAreExact
<1> QED
  BY <1>1, BlocksStart, BlocksStep, PTL DEF BlocksSpec

(* A call on one list leaves what the others read as it is, although they  *)
(* were copied, moved or swapped before: no block is of two lists.         *)
LEMMA OtherListsStay ==
  ASSUME ListInv, NEW l \in Threads, NEW k \in Threads \ {l},
         \/ L!Clear(k) \/ L!Destroy(k) \/ L!AppendItem(k)
         \/ \E i \in 1 .. MaxItems, v \in Threads : L!WriteItem(k, i, v)
  PROVE  L!Strings(l)' = L!Strings(l)
<1>1. /\ list \in [Threads -> ListRecords] /\ Tidy(list[l]) /\ L!NULL \notin Pointers
      /\ \A p \in Pointers : p \in L!Blocks(list[l]) =>
           p \notin L!Blocks(list[k]) /\ block[p] # L!Free
      /\ block \in [Pointers -> Threads \cup {L!Free}]
  BY ListsAreRight, ArrayConstants DEF ListInv, Apart
<1>2. list'[l] = list[l]
  BY <1>1 DEF L!Clear, L!Destroy, L!AppendItem, L!WriteItem
<1>3. ASSUME NEW p \in Pointers, p \in L!Blocks(list[l])
      PROVE  block'[p] = block[p]
  <2>1. CASE L!Clear(k) \/ L!Destroy(k)
    BY <1>1, <1>3, <2>1 DEF L!Clear, L!Destroy, L!Without
  <2>2. CASE L!AppendItem(k)
    BY <2>2 DEF L!AppendItem
  <2>3. ASSUME NEW i \in 1 .. MaxItems, NEW v \in Threads, L!WriteItem(k, i, v)
        PROVE  block'[p] = block[p]
    <3>1. PICK q \in Pointers : block[q] = L!Free /\ block' = [block EXCEPT ![q] = v]
      BY <2>3 DEF L!WriteItem
    <3> QED
      BY <1>1, <1>3, <3>1
  <2> QED
    BY <2>1, <2>2, <2>3
<1>4. \A i \in 1 .. list[l].len : list[l].items[i] # L!NULL =>
        list[l].items[i] \in Pointers /\ list[l].items[i] \in L!Blocks(list[l])
  BY <1>1, BlocksAre DEF Tidy
<1>5. \A i \in 1 .. list[l].len :
        (IF list[l].items[i] = L!NULL THEN L!NULL ELSE block'[list[l].items[i]])
          = (IF list[l].items[i] = L!NULL THEN L!NULL ELSE block[list[l].items[i]])
  BY <1>3, <1>4
<1> QED
  BY <1>2, <1>5 DEF L!Strings

(* The lists of builders are separate after str_builder_array_copy, _move  *)
(* and _swap, which no test of string.c calls.                             *)
THEOREM ListsStaySeparate == BlocksSpec => ListsAreSeparate
<1>1. BlocksInv /\ [BlocksNext]_blocksVars =>
        [ \A l \in Threads :
            (\E k \in Threads \ {l} : L!Clear(k) \/ L!Destroy(k) \/ L!AppendItem(k)
                \/ \E i \in 1..MaxItems, v \in Threads : L!WriteItem(k, i, v))
            => L!Strings(l)' = L!Strings(l) ]_<<array, stored, list, block, listWrong>>
  <2>1. BlocksInv => ListInv
    BY DEF BlocksInv
  <2>2. ASSUME ListInv, NEW l \in Threads, NEW k \in Threads \ {l},
               L!Clear(k) \/ L!Destroy(k) \/ L!AppendItem(k)
                 \/ \E i \in 1..MaxItems, v \in Threads : L!WriteItem(k, i, v)
        PROVE  L!Strings(l)' = L!Strings(l)
    BY <2>2, OtherListsStay
  <2> QED
    BY <2>1, <2>2
<1> QED
  BY <1>1, BlocksStart, BlocksStep, PTL
     DEF BlocksSpec, ListsAreSeparate, L!ListsAreSeparate, L!vars

-----------------------------------------------------------------------------
(* Sorting: heaps.                                                          *)

(* The keys of a heap: no child, of nodes from x0 on, is less than its      *)
(* parent.                                                                  *)
IsChild(x, y) == y = 2 * x + 1 \/ y = 2 * x + 2

Ordered(k, len, x0) ==
  \A x \in x0 .. len - 1, y \in 0 .. len - 1 : IsChild(x, y) => k[x] <= k[y]

(* The same but for the node at a, which may be greater than its children.  *)
Loose(k, len, x0, a) ==
  \A x \in x0 .. len - 1, y \in 0 .. len - 1 :
    /\ IsChild(x, y) /\ x # a => k[x] <= k[y]
    /\ IsChild(x, a) /\ IsChild(a, y) => k[x] <= k[y]

LeastOfThree(k, len, a) ==
  LET left == IF 2 * a + 1 < len /\ k[2 * a + 1] < k[a] THEN 2 * a + 1 ELSE a
  IN IF 2 * a + 2 < len /\ k[2 * a + 2] < k[left] THEN 2 * a + 2 ELSE left

LEMMA LeastOfThreeIs ==
  ASSUME NEW len \in Nat, NEW a \in 0 .. len - 1, NEW k \in [0 .. len - 1 -> Int]
  PROVE  /\ LeastOfThree(k, len, a) \in a .. len - 1
         /\ LeastOfThree(k, len, a) = a \/ IsChild(a, LeastOfThree(k, len, a))
         /\ LeastOfThree(k, len, a) # a => k[LeastOfThree(k, len, a)] < k[a]
         /\ \A y \in 0 .. len - 1 : IsChild(a, y) => k[LeastOfThree(k, len, a)] <= k[y]
<1>1. k[a] \in Int /\ a \in 0 .. len - 1 /\ a \in Int
  OBVIOUS
<1>2. 2 * a + 1 < len => 2 * a + 1 \in 0 .. len - 1 /\ k[2 * a + 1] \in Int
  OBVIOUS
<1>3. 2 * a + 2 < len => 2 * a + 2 \in 0 .. len - 1 /\ k[2 * a + 2] \in Int
  OBVIOUS
<1>4. PICK b \in 0 .. len - 1 :
        b = IF 2 * a + 1 < len /\ k[2 * a + 1] < k[a] THEN 2 * a + 1 ELSE a
  BY <1>1, <1>2
<1>5. k[b] <= k[a] /\ (2 * a + 1 < len => k[b] <= k[2 * a + 1]) /\ k[b] \in Int
      /\ (b # a => b = 2 * a + 1 /\ k[b] < k[a])
  BY <1>1, <1>2, <1>4
<1>6. PICK c : c = LeastOfThree(k, len, a)
  OBVIOUS
<1>7. c = IF 2 * a + 2 < len /\ k[2 * a + 2] < k[b] THEN 2 * a + 2 ELSE b
  BY <1>4, <1>6 DEF LeastOfThree
<1>8. c \in 0 .. len - 1 /\ k[c] \in Int /\ k[c] <= k[b] /\ (2 * a + 2 < len => k[c] <= k[2 * a + 2])
      /\ (c # a => (c = 2 * a + 1 \/ c = 2 * a + 2) /\ k[c] < k[a])
  BY <1>1, <1>3, <1>5, <1>7
<1>9. c \in a .. len - 1
  BY <1>1, <1>8
<1>10. ASSUME NEW y \in 0 .. len - 1, IsChild(a, y)
       PROVE  k[c] <= k[y]
  <2>1. CASE y = 2 * a + 1
    BY <1>5, <1>8, <2>1
  <2>2. CASE y = 2 * a + 2
    BY <1>8, <2>2
  <2> QED
    BY <1>10, <2>1, <2>2 DEF IsChild
<1> QED
  BY <1>6, <1>8, <1>9, <1>10 DEF IsChild

LEMMA OneParent ==
  ASSUME NEW x \in Int, NEW y \in Int, NEW c \in Int, IsChild(x, c), IsChild(y, c)
  PROVE  x = y
<1>1. (c = 2 * x + 1 \/ c = 2 * x + 2) /\ (c = 2 * y + 1 \/ c = 2 * y + 2)
  BY DEF IsChild
<1> QED
  BY <1>1

LEMMA ChildBelow ==
  ASSUME NEW x \in Nat, NEW y \in Int, IsChild(x, y)
  PROVE  y > x
BY DEF IsChild

(* A turn of sort_heapify: the heap is in order, or the greater node sinks. *)
LEMMA NodeSinks ==
  ASSUME NEW len \in Nat, NEW x0 \in Nat, NEW a \in x0 .. len - 1, NEW k \in [0 .. len - 1 -> Int],
         Loose(k, len, x0, a), NEW c, c = LeastOfThree(k, len, a),
         NEW k2 \in [0 .. len - 1 -> Int], k2[a] = k[c], k2[c] = k[a],
         \A x \in 0 .. len - 1 : x # a /\ x # c => k2[x] = k[x]
  PROVE  /\ c \in a .. len - 1
         /\ c = a => Ordered(k, len, x0)
         /\ c # a => Loose(k2, len, x0, c)
<1>1. a \in 0 .. len - 1
  OBVIOUS
<1>2. /\ c \in a .. len - 1 /\ (c = a \/ IsChild(a, c)) /\ (c # a => k[c] < k[a])
      /\ \A y \in 0 .. len - 1 : IsChild(a, y) => k[c] <= k[y]
  BY <1>1, LeastOfThreeIs
<1>3. ASSUME c = a
      PROVE  Ordered(k, len, x0)
  BY <1>2, <1>3 DEF Ordered, Loose
<1>4. ASSUME c # a
      PROVE  Loose(k2, len, x0, c)
  <2>1. \A x \in 0 .. len - 1 : k[x] \in Int
    OBVIOUS
  <2>2. c \in 0 .. len - 1 /\ IsChild(a, c) /\ c > a
    BY <1>2, <1>4
  <2>3. ASSUME NEW x \in x0 .. len - 1, NEW y \in 0 .. len - 1, IsChild(x, y), x # c
        PROVE  k2[x] <= k2[y]
    <3>1. x \in 0 .. len - 1 /\ x \in Int /\ y \in Int /\ a \in Int /\ y > x
      BY <2>3 DEF IsChild
    <3>2. CASE x = a
      <4>1. y # a
        BY <3>1, <3>2
      <4>2. k2[x] = k[c]
        BY <3>2
      <4>3. CASE y = c
        BY <1>2, <1>4, <2>1, <2>2, <4>2, <4>3
      <4>4. CASE y # c
        BY <1>2, <2>3, <3>2, <4>1, <4>2, <4>4
      <4> QED
        BY <4>3, <4>4
    <3>3. CASE x # a
      <4>1. k2[x] = k[x] /\ k[x] <= k[y]
        BY <2>3, <3>1, <3>3 DEF Loose
      <4>2. CASE y = a
        <5>1. k[x] <= k[c]
          BY <2>2, <2>3, <4>2 DEF Loose
        <5> QED
          BY <4>1, <4>2, <5>1
      <4>3. CASE y = c
        <5>1. x = a
          BY <2>2, <2>3, <3>1, <4>3 DEF IsChild
        <5> QED
          BY <3>3, <5>1
      <4>4. CASE y # a /\ y # c
        BY <4>1, <4>4
      <4> QED
        BY <4>2, <4>3, <4>4
    <3> QED
      BY <3>2, <3>3
  <2>4. ASSUME NEW x \in x0 .. len - 1, NEW y \in 0 .. len - 1, IsChild(x, c), IsChild(c, y)
        PROVE  k2[x] <= k2[y]
    <3>0. x \in Int /\ a \in Int /\ c \in Int /\ c \in Nat /\ a >= x0 /\ y \in Int
      BY <2>2
    <3>1. x = a
      BY <2>2, <2>4, <3>0, OneParent
    <3>2. y > c /\ c \in x0 .. len - 1
      <4>1. y > c
        BY <2>4, <3>0, ChildBelow
      <4> QED
        BY <1>2, <4>1
    <3>3. k2[y] = k[y] /\ k[c] <= k[y]
      BY <1>4, <2>2, <2>4, <3>2 DEF Loose
    <3> QED
      BY <3>1, <3>3
  <2> QED
    BY <2>3, <2>4 DEF Loose
<1> QED
  BY <1>2, <1>3, <1>4

(* The top of a heap is the least of all.                                   *)
LEMMA TopIsLeast ==
  ASSUME NEW len \in Nat \ {0}, NEW k \in [0 .. len - 1 -> Int], Ordered(k, len, 0), NEW x \in 0 .. len - 1
  PROVE  k[0] <= k[x]
<1> DEFINE Bad == {y \in 0 .. len - 1 : ~ (k[0] <= k[y])}
<1>1. SUFFICES ASSUME Bad # {} PROVE FALSE
  OBVIOUS
<1>2. PICK m \in Bad : \A y \in Bad : m <= y
  <2>1. Bad \in SUBSET Nat
    OBVIOUS
  <2> HIDE DEF Bad
  <2> QED
    BY <1>1, <2>1, LeastExists
<1>3. m \in 0 .. len - 1 /\ ~ (k[0] <= k[m]) /\ k[0] \in Int /\ k[m] \in Int
  OBVIOUS
<1>4. m # 0
  BY <1>3
<1>5. PICK p \in Nat : m = 2 * p + 1 \/ m = 2 * p + 2
  <2>1. \A j \in Nat \ {0} : \E p \in Nat : j = 2 * p + 1 \/ j = 2 * p + 2
    <3> TAKE j \in Nat \ {0}
    <3>1. (j - 1) \div 2 \in Nat /\ (j = 2 * ((j - 1) \div 2) + 1 \/ j = 2 * ((j - 1) \div 2) + 2)
      OBVIOUS
    <3> QED
      BY <3>1
  <2>2. m \in Nat \ {0}
    BY <1>3, <1>4
  <2> QED
    BY <2>1, <2>2
<1>6. p \in 0 .. len - 1 /\ ~ (m <= p) /\ k[p] \in Int
  BY <1>3, <1>5
<1>7. k[p] <= k[m]
  BY <1>3, <1>5, <1>6 DEF Ordered, IsChild
<1>8. k[0] <= k[p]
  BY <1>2, <1>6
<1> QED
  BY <1>3, <1>6, <1>7, <1>8

-----------------------------------------------------------------------------
(* Sorting: the turns of sort_heapify.                                      *)

LEMMA SortConstants ==
  MaxSorted \in Nat /\ Keys \subseteq Int /\ RandMax \in Nat
BY Instances DEF Sorting!SortAssumption

LEMMA LastIsMax ==
  ASSUME NEW m \in Nat, NEW s \in SUBSET (1 .. m), m \in s
  PROVE  Sorting!Max(s) = m
<1>1. \A y \in s : m >= y
  OBVIOUS
<1>2. \A x \in s : (\A y \in s : x >= y) => x = m
  OBVIOUS
<1> QED
  BY <1>1, <1>2 DEF Sorting!Max

LEMMA MaxIsOne ==
  ASSUME NEW m \in Nat, NEW s \in SUBSET (1 .. m), s # {}
  PROVE  Sorting!Max(s) \in s
<1> DEFINE D == {m - x : x \in s}
<1>1. D \in SUBSET Nat /\ D # {}
  <2>1. PICK x : x \in s
    OBVIOUS
  <2>2. m - x \in D
    BY <2>1
  <2>3. \A y \in s : m - y \in Nat
    OBVIOUS
  <2> QED
    BY <2>2, <2>3
<1>2. PICK d \in D : \A y \in D : d <= y
  BY <1>1, LeastExists
<1>3. PICK x \in s : d = m - x
  BY <1>2
<1>4. \A y \in s : x >= y
  <2> TAKE y \in s
  <2>1. d <= m - y
    BY <1>2
  <2> QED
    BY <1>3, <2>1
<1> QED
  BY <1>4 DEF Sorting!Max

(* A turn of the loop, which changes nothing once the node is in its place. *)
Turned(s, len) ==
  LET least == Sorting!Smallest(s.heap, len, s.at)
  IN [heap |-> [s.heap EXCEPT ![s.at + 1] = s.heap[least + 1],
                              ![least + 1] = s.heap[s.at + 1]],
      at |-> least]

Turns(g, h, len, a) ==
  g[0] = [heap |-> h, at |-> a] /\ \A j \in 1 .. len : g[j] = Turned(g[j - 1], len)

LEMMA TurnsUnroll ==
  ASSUME NEW h, NEW len \in Nat, NEW a
  PROVE  \E g : Turns(g, h, len, a) /\ Sorting!Heapified(h, len, a) = g[len].heap
<1> DEFINE x == [heap |-> h, at |-> a]
<1> DEFINE Eq(f, m) == f = [s \in SUBSET (1 .. m) |->
                              IF s = {} THEN x ELSE Turned(f[s \ {Sorting!Max(s)}], len)]
<1>1. \E f : Eq(f, len)
  <2> DEFINE Bad == {m \in Nat : ~ \E f : Eq(f, m)}
  <2>1. SUFFICES ASSUME Bad # {} PROVE FALSE
    OBVIOUS
  <2>2. PICK m \in Bad : \A k \in Bad : m <= k
    BY <2>1, LeastExists
  <2>3. CASE m = 0
    <3> DEFINE f == [s \in SUBSET (1 .. 0) |-> x]
    <3>1. \A s \in SUBSET (1 .. 0) : s = {}
      OBVIOUS
    <3>2. Eq(f, 0)
      BY <3>1
    <3> QED
      BY <2>2, <2>3, <3>2
  <2>4. CASE m # 0
    <3>1. PICK p \in Nat : m = p + 1
      BY <2>4
    <3>2. ~ (m <= p)
      BY <3>1
    <3>3. PICK f : Eq(f, p)
      BY <2>2, <3>2, Zenon
    <3> DEFINE g == [s \in SUBSET (1 .. m) |->
                       IF m \in s THEN Turned(f[s \ {m}], len) ELSE f[s]]
    <3>4. \A s \in SUBSET (1 .. m) : m \notin s => s \in SUBSET (1 .. p)
      BY <3>1
    <3>5. \A s \in SUBSET (1 .. m) : s \ {Sorting!Max(s)} \in SUBSET (1 .. m)
      OBVIOUS
    <3>6. \A s \in SUBSET (1 .. m) :
             g[s] = IF s = {} THEN x ELSE Turned(g[s \ {Sorting!Max(s)}], len)
      <4> TAKE s \in SUBSET (1 .. m)
      <4>1. CASE m \in s
        <5>1. Sorting!Max(s) = m
          BY <4>1, LastIsMax
        <5>2. g[s \ {m}] = f[s \ {m}]
          OBVIOUS
        <5> QED
          BY <4>1, <5>1, <5>2
      <4>2. CASE m \notin s
        <5>1. s \in SUBSET (1 .. p) /\ g[s] = f[s]
          BY <3>4, <4>2
        <5>2. CASE s = {}
          BY <3>3, <5>1, <5>2
        <5>3. CASE s # {}
          <6>1. Sorting!Max(s) \in s
            BY <5>1, <5>3, MaxIsOne
          <6>2. s \ {Sorting!Max(s)} \in SUBSET (1 .. p) /\ m \notin s \ {Sorting!Max(s)}
            BY <4>2, <5>1
          <6>3. g[s \ {Sorting!Max(s)}] = f[s \ {Sorting!Max(s)}]
            BY <3>5, <6>2
          <6>4. f[s] = Turned(f[s \ {Sorting!Max(s)}], len)
            BY <3>3, <5>1, <5>3
          <6> QED
            BY <5>1, <5>3, <6>3, <6>4
        <5> QED
          BY <5>2, <5>3
      <4> QED
        BY <4>1, <4>2
    <3>7. Eq(g, m)
      BY <3>6
    <3> QED
      BY <2>2, <3>7
  <2> QED
    BY <2>3, <2>4
<1> DEFINE Fold == CHOOSE f : Eq(f, len)
<1>2. Eq(Fold, len)
  BY <1>1
<1>3. Sorting!Heapified(h, len, a) = Fold[1 .. len].heap
  <2>1. DOMAIN [step \in 1 .. len |-> step] = 1 .. len
    OBVIOUS
  <2> QED
    BY <2>1 DEF Sorting!Heapified, Sorting!FoldLeft, Sorting!MapThenFoldSet, Turned
<1> DEFINE g == [j \in 0 .. len |-> Fold[1 .. j]]
<1> HIDE DEF Fold
<1>4. g[0] = x
  <2>1. 1 .. 0 = {} /\ 1 .. 0 \in SUBSET (1 .. len)
    OBVIOUS
  <2> QED
    BY <1>2, <2>1
<1>5. \A j \in 1 .. len : g[j] = Turned(g[j - 1], len)
  <2> TAKE j \in 1 .. len
  <2>0. j \in Nat /\ 1 <= j /\ j <= len
    OBVIOUS
  <2>1. 1 .. j \in SUBSET (1 .. len) /\ 1 .. j # {} /\ (1 .. j) \ {j} = 1 .. j - 1
    <3>1. j \in 1 .. j
      BY <2>0
    <3>2. \A y : y \in (1 .. j) \ {j} <=> y \in 1 .. j - 1
      BY <2>0
    <3>3. 1 .. j \in SUBSET (1 .. len)
      BY <2>0
    <3> QED
      BY <3>1, <3>2, <3>3
  <2>2. Sorting!Max(1 .. j) = j
    <3>1. j \in 1 .. j /\ 1 .. j \in SUBSET (1 .. j)
      BY <2>0
    <3> QED
      BY <2>0, <3>1, LastIsMax
  <2>3. Fold[1 .. j] = Turned(Fold[1 .. j - 1], len)
    BY <1>2, <2>1, <2>2
  <2>4. g[j] = Fold[1 .. j] /\ g[j - 1] = Fold[1 .. j - 1]
    BY <2>0
  <2> QED
    BY <2>3, <2>4
<1>6. g[len] = Fold[1 .. len]
  OBVIOUS
<1> QED
  BY <1>3, <1>4, <1>5, <1>6 DEF Turns

(* Nodes of a heap, and the keys of their items.                            *)
NodesOf(p, m) == [value : 0 .. m - 1, p_index : 0 .. p - 1]

KeysOf(f, kk, h, len) == [x \in 0 .. len - 1 |-> kk[f[h[x + 1].value + 1]]]

OnePerPart(h, len) == \A x, y \in 1 .. len : h[x].p_index = h[y].p_index => x = y

(* Two heaps have the same nodes, in any order.                             *)
SameNodes(h, h2, len) ==
  /\ \A x \in 1 .. len : \E y \in 1 .. len : h2[x] = h[y]
  /\ \A y \in 1 .. len : \E x \in 1 .. len : h2[x] = h[y]
  /\ OnePerPart(h, len) => OnePerPart(h2, len)

LEMMA SameAsItself ==
  ASSUME NEW h, NEW len
  PROVE  SameNodes(h, h, len)
BY DEF SameNodes

LEMMA SameAgain ==
  ASSUME NEW h, NEW h2, NEW h3, NEW len, SameNodes(h, h2, len), SameNodes(h2, h3, len)
  PROVE  SameNodes(h, h3, len)
<1>1. ASSUME NEW x \in 1 .. len PROVE \E y \in 1 .. len : h3[x] = h[y]
  <2>1. PICK y \in 1 .. len : h3[x] = h2[y]
    BY DEF SameNodes
  <2>2. PICK z \in 1 .. len : h2[y] = h[z]
    BY DEF SameNodes
  <2> QED
    BY <2>1, <2>2
<1>2. ASSUME NEW y \in 1 .. len PROVE \E x \in 1 .. len : h3[x] = h[y]
  <2>1. PICK x \in 1 .. len : h2[x] = h[y]
    BY DEF SameNodes
  <2>2. PICK z \in 1 .. len : h3[z] = h2[x]
    BY DEF SameNodes
  <2> QED
    BY <2>1, <2>2
<1> QED
  BY <1>1, <1>2 DEF SameNodes

LEMMA KeysAreInts ==
  ASSUME NEW m \in Nat, NEW p \in Nat, NEW len \in 0 .. p,
         NEW f \in [1 .. m -> 1 .. m], NEW kk \in [1 .. m -> Int],
         NEW h \in [1 .. p -> NodesOf(p, m)]
  PROVE  /\ KeysOf(f, kk, h, len) \in [0 .. len - 1 -> Int]
         /\ \A x \in 0 .. len - 1 : /\ KeysOf(f, kk, h, len)[x] = kk[f[h[x + 1].value + 1]]
                                    /\ h[x + 1].value \in 0 .. m - 1
<1>1. ASSUME NEW x \in 0 .. len - 1
      PROVE  kk[f[h[x + 1].value + 1]] \in Int /\ h[x + 1].value \in 0 .. m - 1
  <2>1. h[x + 1] \in NodesOf(p, m)
    OBVIOUS
  <2>2. h[x + 1].value \in 0 .. m - 1
    BY <2>1 DEF NodesOf
  <2>3. PICK v \in 0 .. m - 1 : v = h[x + 1].value
    BY <2>2
  <2>4. v + 1 \in 1 .. m
    OBVIOUS
  <2>5. kk[f[v + 1]] \in Int
    BY <2>4
  <2> QED
    BY <2>3, <2>5
<1> QED
  BY <1>1 DEF KeysOf

(* The heap and the keys of a call of the module.                           *)
Sortable(h, len, p, m) ==
  /\ m \in Nat /\ p \in Nat /\ len \in 0 .. p
  /\ items \in [1 .. m -> 1 .. m] /\ key \in [1 .. m -> Int]
  /\ h \in [1 .. p -> NodesOf(p, m)]

Exchanged(h, h2, a, c) == h2 = [h EXCEPT ![a + 1] = h[c + 1], ![c + 1] = h[a + 1]]

KeysExchanged(k, k2, len, a, c) ==
  k2[a] = k[c] /\ k2[c] = k[a] /\ \A x \in 0 .. len - 1 : x # a /\ x # c => k2[x] = k[x]

SwapDone(h, h2, len, p, m, a, c) ==
  /\ Sortable(h2, len, p, m)
  /\ SameNodes(h, h2, len)
  /\ c = a => h2 = h
  /\ KeysExchanged(KeysOf(items, key, h, len), KeysOf(items, key, h2, len), len, a, c)

LEMMA NodesSwap ==
  ASSUME NEW h, NEW len, NEW p, NEW m, Sortable(h, len, p, m),
         NEW a \in 0 .. len - 1, NEW c \in 0 .. len - 1, NEW h2, Exchanged(h, h2, a, c)
  PROVE  SwapDone(h, h2, len, p, m, a, c)
<1>0. /\ m \in Nat /\ p \in Nat /\ len \in 0 .. p
      /\ items \in [1 .. m -> 1 .. m] /\ key \in [1 .. m -> Int]
      /\ h \in [1 .. p -> NodesOf(p, m)]
  BY DEF Sortable
<1>1. a + 1 \in 1 .. p /\ c + 1 \in 1 .. p /\ a + 1 \in 1 .. len /\ c + 1 \in 1 .. len
  BY <1>0
<1>2. h2 \in [1 .. p -> NodesOf(p, m)]
  BY <1>0, <1>1 DEF Exchanged
<1>3. /\ h2[a + 1] = h[c + 1] /\ h2[c + 1] = h[a + 1]
      /\ \A x \in 1 .. p : x # a + 1 /\ x # c + 1 => h2[x] = h[x]
  BY <1>0, <1>1 DEF Exchanged
<1>4. c = a => h2 = h
  BY <1>0, <1>1 DEF Exchanged
<1> DEFINE other(x) == IF x = a + 1 THEN c + 1 ELSE IF x = c + 1 THEN a + 1 ELSE x
<1>5. \A x \in 1 .. len : other(x) \in 1 .. len /\ other(other(x)) = x /\ h2[x] = h[other(x)]
  <2> TAKE x \in 1 .. len
  <2>1. x \in 1 .. p
    BY <1>0
  <2> QED
    BY <1>1, <1>3, <2>1
<1> HIDE DEF other
<1>6. SameNodes(h, h2, len)
  <2>1. \A y \in 1 .. len : h2[other(y)] = h[y] /\ other(y) \in 1 .. len
    <3> TAKE y \in 1 .. len
    <3>1. other(y) \in 1 .. len /\ other(other(y)) = y
      BY <1>5
    <3> QED
      BY <1>5, <3>1
  <2>2. ASSUME OnePerPart(h, len), NEW x \in 1 .. len, NEW y \in 1 .. len,
               h2[x].p_index = h2[y].p_index
        PROVE  x = y
    <3>1. h2[x] = h[other(x)] /\ h2[y] = h[other(y)] /\ other(x) \in 1 .. len /\ other(y) \in 1 .. len
      BY <1>5
    <3>2. other(x) = other(y)
      BY <2>2, <3>1 DEF OnePerPart
    <3> QED
      BY <1>5, <3>2
  <2> QED
    BY <1>5, <2>1, <2>2 DEF SameNodes, OnePerPart
<1>7. ASSUME NEW x \in 0 .. len - 1, NEW y \in 0 .. len - 1, h2[x + 1] = h[y + 1]
      PROVE  KeysOf(items, key, h2, len)[x] = KeysOf(items, key, h, len)[y]
  <2>1. KeysOf(items, key, h2, len)[x] = key[items[h2[x + 1].value + 1]]
    BY DEF KeysOf
  <2>2. KeysOf(items, key, h, len)[y] = key[items[h[y + 1].value + 1]]
    BY DEF KeysOf
  <2> QED
    BY <1>7, <2>1, <2>2
<1>8. ASSUME NEW x \in 0 .. len - 1, x # a, x # c
      PROVE  KeysOf(items, key, h2, len)[x] = KeysOf(items, key, h, len)[x]
  <2>1. x + 1 \in 1 .. p /\ x + 1 # a + 1 /\ x + 1 # c + 1
    BY <1>0, <1>8
  <2>2. h2[x + 1] = h[x + 1]
    BY <1>3, <2>1
  <2> QED
    BY <1>7, <2>2
<1>9. /\ KeysOf(items, key, h2, len)[a] = KeysOf(items, key, h, len)[c]
      /\ KeysOf(items, key, h2, len)[c] = KeysOf(items, key, h, len)[a]
  BY <1>3, <1>7
<1> QED
  BY <1>0, <1>2, <1>4, <1>6, <1>8, <1>9 DEF KeysExchanged, Sortable, SwapDone

LEMMA SmallestIs ==
  ASSUME NEW len \in Nat, NEW h, NEW a \in 0 .. len - 1
  PROVE  Sorting!Smallest(h, len, a) = LeastOfThree(KeysOf(items, key, h, len), len, a)
<1>1. PICK k : k = KeysOf(items, key, h, len)
  OBVIOUS
<1>2. \A x \in 0 .. len - 1 : Sorting!KeyAt(h, x) = k[x]
  BY <1>1 DEF KeysOf, Sorting!KeyAt
<1>3. PICK b : b = IF 2 * a + 1 < len /\ k[2 * a + 1] < k[a] THEN 2 * a + 1 ELSE a
  OBVIOUS
<1>4. b \in 0 .. len - 1
  BY <1>3
<1>5. /\ 2 * a + 1 < len => Sorting!KeyAt(h, 2 * a + 1) = k[2 * a + 1]
      /\ 2 * a + 2 < len => Sorting!KeyAt(h, 2 * a + 2) = k[2 * a + 2]
      /\ Sorting!KeyAt(h, a) = k[a] /\ Sorting!KeyAt(h, b) = k[b]
  BY <1>2, <1>4
<1>6. b = IF 2 * a + 1 < len /\ Sorting!KeyAt(h, 2 * a + 1) < Sorting!KeyAt(h, a)
          THEN 2 * a + 1 ELSE a
  BY <1>3, <1>5
<1>7. Sorting!Smallest(h, len, a) =
        IF 2 * a + 2 < len /\ Sorting!KeyAt(h, 2 * a + 2) < Sorting!KeyAt(h, b)
        THEN 2 * a + 2 ELSE b
  BY <1>6 DEF Sorting!Smallest
<1>8. LeastOfThree(k, len, a) = IF 2 * a + 2 < len /\ k[2 * a + 2] < k[b] THEN 2 * a + 2 ELSE b
  BY <1>3 DEF LeastOfThree
<1> QED
  BY <1>1, <1>5, <1>7, <1>8

(* What a turn makes of a heap whose node at a sinks from x0.               *)
Sinking(h, g, len, x0, a) ==
  /\ SameNodes(h, g, len)
  /\ Loose(KeysOf(items, key, g, len), len, x0, a)

LEMMA TurnIs ==
  ASSUME NEW h, NEW h0, NEW len, NEW p, NEW m, Sortable(h, len, p, m), NEW x0 \in Nat,
         NEW a \in x0 .. len - 1, Sinking(h0, h, len, x0, a)
  PROVE  \E g : \E c \in a .. len - 1 :
           /\ Turned([heap |-> h, at |-> a], len) = [heap |-> g, at |-> c]
           /\ Sortable(g, len, p, m)
           /\ Sinking(h0, g, len, x0, c)
           /\ Ordered(KeysOf(items, key, h, len), len, x0) => g = h
           /\ Ordered(KeysOf(items, key, g, len), len, x0) \/ c > a
<1>0. /\ m \in Nat /\ p \in Nat /\ len \in 0 .. p
      /\ items \in [1 .. m -> 1 .. m] /\ key \in [1 .. m -> Int]
      /\ h \in [1 .. p -> NodesOf(p, m)]
  BY DEF Sortable
<1>1. /\ m \in Nat /\ p \in Nat /\ len \in 0 .. p /\ len \in Nat
      /\ items \in [1 .. m -> 1 .. m] /\ key \in [1 .. m -> Int]
      /\ h \in [1 .. p -> NodesOf(p, m)] /\ a \in 0 .. len - 1
  <2>1. len \in Nat
    BY <1>0
  <2>2. a \in 0 .. len - 1
    BY <2>1
  <2> QED
    BY <1>0, <2>1, <2>2
<1>2. PICK k \in [0 .. len - 1 -> Int] : k = KeysOf(items, key, h, len)
  BY <1>1, KeysAreInts
<1>3. PICK c : c = LeastOfThree(k, len, a)
  OBVIOUS
<1>4. PICK g : g = [h EXCEPT ![a + 1] = h[c + 1], ![c + 1] = h[a + 1]]
  OBVIOUS
<1>5. Turned([heap |-> h, at |-> a], len) = [heap |-> g, at |-> c]
  <2>1. Sorting!Smallest(h, len, a) = c
    BY <1>1, <1>2, <1>3, SmallestIs
  <2> QED
    BY <1>4, <2>1 DEF Turned
<1>6. /\ c \in a .. len - 1 /\ c \in 0 .. len - 1
      /\ c # a => IsChild(a, c) /\ k[c] < k[a]
  <2>1. /\ c \in a .. len - 1 /\ (c = a \/ IsChild(a, c)) /\ (c # a => k[c] < k[a])
    BY <1>1, <1>3, LeastOfThreeIs
  <2>2. c \in 0 .. len - 1
    BY <1>1, <2>1
  <2> QED
    BY <2>1, <2>2
<1>7. /\ Sortable(g, len, p, m) /\ SameNodes(h, g, len) /\ (c = a => g = h)
      /\ KeysExchanged(KeysOf(items, key, h, len), KeysOf(items, key, g, len), len, a, c)
  <2>1. Exchanged(h, g, a, c)
    BY <1>4 DEF Exchanged
  <2>2. a \in 0 .. len - 1 /\ c \in 0 .. len - 1
    BY <1>1, <1>6
  <2>3. SwapDone(h, g, len, p, m, a, c)
    BY <2>1, <2>2, NodesSwap, Zenon
  <2> QED
    BY <2>3, Zenon DEF SwapDone
<1>8. PICK k2 \in [0 .. len - 1 -> Int] : k2 = KeysOf(items, key, g, len)
  BY <1>7, KeysAreInts DEF Sortable
<1>9. Loose(k, len, x0, a)
  BY <1>2 DEF Sinking
<1>10. k2[a] = k[c] /\ k2[c] = k[a] /\ \A x \in 0 .. len - 1 : x # a /\ x # c => k2[x] = k[x]
  BY <1>2, <1>7, <1>8 DEF KeysExchanged
<1>11. (c = a => Ordered(k, len, x0)) /\ (c # a => Loose(k2, len, x0, c))
  BY <1>1, <1>3, <1>9, <1>10, NodeSinks
<1>13. SameNodes(h0, g, len)
  BY <1>7, SameAgain DEF Sinking
<1>14. c = a => k2 = k
  BY <1>2, <1>7, <1>8
<1>15. Sinking(h0, g, len, x0, c)
  BY <1>8, <1>9, <1>11, <1>13, <1>14 DEF Sinking
<1>16. Ordered(k, len, x0) => c = a
  <2>1. SUFFICES ASSUME Ordered(k, len, x0), c # a PROVE FALSE
    OBVIOUS
  <2>2. k[a] <= k[c]
    BY <1>6, <2>1 DEF Ordered
  <2> QED
    BY <1>1, <1>6, <2>1, <2>2
<1>17. Ordered(k2, len, x0) \/ c > a
  BY <1>6, <1>11, <1>14
<1> QED
  BY <1>2, <1>5, <1>6, <1>7, <1>8, <1>15, <1>16, <1>17

(* After t turns the heap is in order or the node has sunk t places.        *)
AfterTurns(s, h, len, p, m, x0, t) ==
  \E g : \E c \in x0 .. len - 1 :
    /\ s = [heap |-> g, at |-> c]
    /\ Sortable(g, len, p, m) /\ Sinking(h, g, len, x0, c)
    /\ Ordered(KeysOf(items, key, g, len), len, x0) \/ c >= x0 + t

LEMMA OneTurnMore ==
  ASSUME NEW h, NEW len \in Nat, NEW p, NEW m, NEW x0 \in Nat, NEW t \in Nat, NEW s,
         AfterTurns(s, h, len, p, m, x0, t)
  PROVE  AfterTurns(Turned(s, len), h, len, p, m, x0, t + 1)
<1>0. PICK g : \E c \in x0 .. len - 1 :
        /\ s = [heap |-> g, at |-> c]
        /\ Sortable(g, len, p, m) /\ Sinking(h, g, len, x0, c)
        /\ Ordered(KeysOf(items, key, g, len), len, x0) \/ c >= x0 + t
  BY Zenon DEF AfterTurns
<1>1. PICK c \in x0 .. len - 1 :
        /\ s = [heap |-> g, at |-> c]
        /\ Sortable(g, len, p, m) /\ Sinking(h, g, len, x0, c)
        /\ Ordered(KeysOf(items, key, g, len), len, x0) \/ c >= x0 + t
  BY <1>0, Zenon
<1>2a. \E gg : \E cc \in c .. len - 1 :
        /\ Turned([heap |-> g, at |-> c], len) = [heap |-> gg, at |-> cc]
        /\ Sortable(gg, len, p, m) /\ Sinking(h, gg, len, x0, cc)
        /\ Ordered(KeysOf(items, key, g, len), len, x0) => gg = g
        /\ Ordered(KeysOf(items, key, gg, len), len, x0) \/ cc > c
  BY <1>1, TurnIs, Zenon
<1>2b. PICK g2 : \E cc \in c .. len - 1 :
        /\ Turned([heap |-> g, at |-> c], len) = [heap |-> g2, at |-> cc]
        /\ Sortable(g2, len, p, m) /\ Sinking(h, g2, len, x0, cc)
        /\ Ordered(KeysOf(items, key, g, len), len, x0) => g2 = g
        /\ Ordered(KeysOf(items, key, g2, len), len, x0) \/ cc > c
  BY <1>2a, Zenon
<1>2. PICK c2 \in c .. len - 1 :
        /\ Turned([heap |-> g, at |-> c], len) = [heap |-> g2, at |-> c2]
        /\ Sortable(g2, len, p, m) /\ Sinking(h, g2, len, x0, c2)
        /\ Ordered(KeysOf(items, key, g, len), len, x0) => g2 = g
        /\ Ordered(KeysOf(items, key, g2, len), len, x0) \/ c2 > c
  BY <1>2b, Zenon
<1>3. c2 \in x0 .. len - 1 /\ (c2 > c /\ c >= x0 + t => c2 >= x0 + (t + 1))
  OBVIOUS
<1>4. Ordered(KeysOf(items, key, g2, len), len, x0) \/ c2 >= x0 + (t + 1)
  BY <1>1, <1>2, <1>3, Zenon
<1>5. Turned(s, len) = [heap |-> g2, at |-> c2]
  BY <1>1, <1>2, Zenon
<1> QED
  BY <1>2, <1>3, <1>4, <1>5, Zenon DEF AfterTurns

HeapMade(h, g, len, p, m, x0) ==
  /\ Sortable(g, len, p, m) /\ SameNodes(h, g, len)
  /\ Ordered(KeysOf(items, key, g, len), len, x0)

LEMMA HeapifiedIs ==
  ASSUME NEW h, NEW len, NEW p, NEW m, Sortable(h, len, p, m), NEW a \in 0 .. len - 1,
         Ordered(KeysOf(items, key, h, len), len, a + 1)
  PROVE  HeapMade(h, Sorting!Heapified(h, len, a), len, p, m, a)
<1>1. len \in Nat /\ a \in Nat /\ a \in a .. len - 1 /\ len \in 0 .. len
  <2>1. p \in Nat /\ len \in 0 .. p
    BY DEF Sortable
  <2>2. len \in Nat
    BY <2>1
  <2> QED
    BY <2>2
<1>2. PICK g : Turns(g, h, len, a) /\ Sorting!Heapified(h, len, a) = g[len].heap
  BY <1>1, TurnsUnroll
<1> DEFINE Bad == {t \in 0 .. len : ~ AfterTurns(g[t], h, len, p, m, a, t)}
<1>3. AfterTurns(g[0], h, len, p, m, a, 0)
  <2>1. g[0] = [heap |-> h, at |-> a]
    BY <1>2 DEF Turns
  <2>2. PICK k : k = KeysOf(items, key, h, len)
    OBVIOUS
  <2>3. Loose(k, len, a, a)
    <3>1. ASSUME NEW x \in a .. len - 1, NEW y \in 0 .. len - 1, IsChild(x, y), x # a
          PROVE  k[x] <= k[y]
      <4>1. x \in a + 1 .. len - 1
        BY <1>1, <3>1
      <4> QED
        BY <2>2, <3>1, <4>1 DEF Ordered
    <3>2. ASSUME NEW x \in a .. len - 1, IsChild(x, a)
          PROVE  FALSE
      <4>1. x \in Nat /\ x >= a
        BY <1>1
      <4>2. a > x
        BY <1>1, <3>2, <4>1, ChildBelow
      <4> QED
        BY <1>1, <4>1, <4>2
    <3> QED
      BY <3>1, <3>2 DEF Loose
  <2>4. Sinking(h, h, len, a, a)
    BY <2>2, <2>3, SameAsItself DEF Sinking
  <2>5. a >= a + 0
    BY <1>1
  <2> QED
    BY <1>1, <2>1, <2>4, <2>5, Zenon DEF AfterTurns
<1>4. Bad = {}
  <2>1. SUFFICES ASSUME Bad # {} PROVE FALSE
    OBVIOUS
  <2>2. PICK t \in Bad : \A u \in Bad : t <= u
    <3>1. Bad \in SUBSET Nat
      OBVIOUS
    <3> HIDE DEF Bad
    <3> QED
      BY <2>1, <3>1, LeastExists
  <2>3. t \in 0 .. len /\ ~ AfterTurns(g[t], h, len, p, m, a, t)
    OBVIOUS
  <2>4. t # 0
    BY <1>3, <2>3
  <2>5. PICK u \in Nat : t = u + 1 /\ u \in 0 .. len /\ t \in 1 .. len /\ t - 1 = u /\ ~ (t <= u)
    <3>1. t - 1 \in Nat /\ t = (t - 1) + 1 /\ t - 1 \in 0 .. len /\ t \in 1 .. len /\ ~ (t <= t - 1)
      BY <1>1, <2>3, <2>4
    <3> QED
      BY <3>1, Zenon
  <2>6. AfterTurns(g[u], h, len, p, m, a, u)
    BY <2>2, <2>5, Zenon
  <2>7. g[t] = Turned(g[u], len)
    <3>1. g[t] = Turned(g[t - 1], len)
      BY <1>2, <2>5, Zenon DEF Turns
    <3> QED
      BY <2>5, <3>1, Zenon
  <2>8. AfterTurns(Turned(g[u], len), h, len, p, m, a, u + 1)
    BY <1>1, <2>6, OneTurnMore
  <2> QED
    BY <2>3, <2>5, <2>7, <2>8, Zenon
<1>5. AfterTurns(g[len], h, len, p, m, a, len)
  <2>1. len \notin Bad
    BY <1>4, Zenon
  <2> QED
    BY <1>1, <2>1, Zenon
<1>5a. PICK h2 : \E c \in a .. len - 1 :
        /\ g[len] = [heap |-> h2, at |-> c]
        /\ Sortable(h2, len, p, m) /\ Sinking(h, h2, len, a, c)
        /\ Ordered(KeysOf(items, key, h2, len), len, a) \/ c >= a + len
  BY <1>5, Zenon DEF AfterTurns
<1>6. PICK c \in a .. len - 1 :
        /\ g[len] = [heap |-> h2, at |-> c]
        /\ Sortable(h2, len, p, m) /\ Sinking(h, h2, len, a, c)
        /\ Ordered(KeysOf(items, key, h2, len), len, a) \/ c >= a + len
  BY <1>5a, Zenon
<1>7. ~ (c >= a + len)
  BY <1>1
<1>8. g[len].heap = h2
  BY <1>6
<1> QED
  BY <1>2, <1>6, <1>7, <1>8, Zenon DEF HeapMade, Sinking

-----------------------------------------------------------------------------
(* Sorting: the parts of an array.                                          *)

LEMMA QuotientIs ==
  ASSUME NEW a \in Nat, NEW b \in Nat \ {0}
  PROVE  \E q \in Nat, r \in 0 .. b - 1 : q = a \div b /\ r = a % b /\ a = b * q + r
<1> DEFINE q == a \div b
           r == a % b
<1>1. q \in Nat /\ r \in Nat /\ r < b /\ a = b * q + r
  OBVIOUS
<1> HIDE DEF q, r
<1>2. r \in 0 .. b - 1
  BY <1>1
<1>3. q = a \div b /\ r = a % b
  BY DEF q, r
<1> QED
  BY <1>1, <1>2, <1>3

LEMMA ProductsGrow ==
  ASSUME NEW k \in Nat, NEW x \in Int, NEW y \in Int
  PROVE  /\ x * k \in Int
         /\ x <= y => x * k <= y * k
         /\ x < y => x * k + k <= y * k
<1>1. x * k \in Int /\ y * k \in Int /\ (y - x) * k = y * k - x * k
  OBVIOUS
<1>2. x <= y => (y - x) * k >= 0
  OBVIOUS
<1>3. x < y => (y - x) * k >= k
  <2>1. (y - x) * k = (y - x - 1) * k + k
    OBVIOUS
  <2>2. x < y => (y - x - 1) * k >= 0
    OBVIOUS
  <2> QED
    BY <2>1, <2>2
<1> QED
  BY <1>1, <1>2, <1>3

(* Where part k of p starts in an array of m items, and its size.           *)
Off(p, m, k) == k * (m \div p)
Size(p, m, k) == IF k < p - 1 THEN m \div p ELSE m \div p + (m % p)

Divided(p, m) == m \in Nat /\ p \in Nat \ {0} /\ (p <= m \/ (m = 0 /\ p = 1))

LEMMA PartsAre ==
  ASSUME NEW p, NEW m, Divided(p, m)
  PROVE  \A k \in 0 .. p - 1 :
           /\ Off(p, m, k) \in Nat /\ Size(p, m, k) \in Nat
           /\ Off(p, m, k) + Size(p, m, k) <= m
           /\ m > 0 => Size(p, m, k) > 0
           /\ \A j \in 0 .. p - 1 : k < j => Off(p, m, k) + Size(p, m, k) <= Off(p, m, j)
<1>1. m \in Nat /\ p \in Nat \ {0} /\ (p <= m \/ m = 0)
  BY DEF Divided
<1>2. PICK q \in Nat, r \in 0 .. p - 1 : q = m \div p /\ r = m % p /\ m = p * q + r
  BY <1>1, QuotientIs
<1>3. m > 0 => q > 0
  <2>1. SUFFICES ASSUME m > 0, q = 0 PROVE FALSE
    OBVIOUS
  <2>2. p * q = 0
    BY <1>1, <2>1
  <2> QED
    BY <1>1, <1>2, <2>1, <2>2
<1>4. TAKE k \in 0 .. p - 1
<1>5. k \in Int /\ k >= 0 /\ k <= p - 1 /\ p \in Int
  BY <1>1
<1>6. PICK o \in Int : o = k * q /\ o >= 0 /\ o + q <= p * q
  <2>1. k * q \in Int /\ 0 * q <= k * q /\ k * q + q <= p * q
    BY <1>5, ProductsGrow
  <2>2. 0 * q = 0
    OBVIOUS
  <2> QED
    BY <2>1, <2>2
<1>7. Off(p, m, k) = o
  BY <1>2, <1>6 DEF Off
<1>8. PICK s \in Nat : s = Size(p, m, k) /\ s >= q /\ s <= q + r /\ (k < p - 1 => s = q)
  <2>1. Size(p, m, k) = IF k < p - 1 THEN q ELSE q + r
    BY <1>2 DEF Size
  <2> QED
    BY <1>1, <2>1
<1>9. PICK e \in Int : e = p * q
  BY <1>1
<1>10. o + s <= m
  BY <1>1, <1>2, <1>6, <1>8, <1>9
<1>11. ASSUME NEW j \in 0 .. p - 1, k < j
       PROVE  o + s <= Off(p, m, j)
  <2>1. k * q + q <= j * q /\ j \in Int
    BY <1>5, <1>11, ProductsGrow
  <2>2. Off(p, m, j) = j * q
    BY <1>2 DEF Off
  <2>3. s = q
    BY <1>1, <1>8, <1>11
  <2> QED
    BY <1>6, <2>1, <2>2, <2>3
<1> QED
  BY <1>3, <1>6, <1>7, <1>8, <1>10, <1>11

LEMMA InAPart ==
  ASSUME NEW p, NEW m, Divided(p, m), NEW x \in 0 .. m - 1
  PROVE  \E k \in 0 .. p - 1 : Off(p, m, k) <= x /\ x < Off(p, m, k) + Size(p, m, k)
<1>1. m \in Nat /\ p \in Nat \ {0} /\ m > 0 /\ p <= m
  BY DEF Divided
<1>2. PICK q \in Nat, r \in 0 .. p - 1 : q = m \div p /\ r = m % p /\ m = p * q + r
  BY <1>1, QuotientIs
<1>3. q > 0
  <2>1. SUFFICES ASSUME q = 0 PROVE FALSE
    OBVIOUS
  <2>2. p * q = 0
    BY <1>1, <2>1
  <2> QED
    BY <1>1, <1>2, <2>1, <2>2
<1>4. PICK k \in Nat, y \in 0 .. q - 1 : x = q * k + y
  <2>1. x \in Nat /\ q \in Nat \ {0}
    BY <1>1, <1>3
  <2> QED
    BY <2>1, QuotientIs
<1>5. q * k = k * q /\ k * q \in Int /\ p * q \in Int /\ q \in Int /\ k \in Int /\ p \in Int
  BY <1>1
<1>6. CASE k < p - 1
  <2>1. Off(p, m, k) = k * q /\ Size(p, m, k) = q /\ k \in 0 .. p - 1
    BY <1>1, <1>2, <1>6 DEF Off, Size
  <2> QED
    BY <1>4, <1>5, <2>1
<1>7. CASE ~ (k < p - 1)
  <2>1. p - 1 \in 0 .. p - 1 /\ p - 1 <= k /\ p - 1 \in Int /\ p - 1 < p
    BY <1>1, <1>7
  <2>2. Off(p, m, p - 1) = (p - 1) * q /\ Size(p, m, p - 1) = q + r
    BY <1>1, <1>2 DEF Off, Size
  <2>3. (p - 1) * q <= k * q /\ (p - 1) * q + q = p * q /\ (p - 1) * q \in Int
    <3>1. (p - 1) * q <= k * q /\ (p - 1) * q \in Int
      BY <1>5, <2>1, ProductsGrow
    <3>2. (p - 1) * q + q = p * q
      BY <1>1
    <3> QED
      BY <3>1, <3>2
  <2>4. (p - 1) * q <= x /\ x < (p - 1) * q + (q + r)
    BY <1>1, <1>2, <1>4, <1>5, <2>3
  <2> QED
    BY <2>1, <2>2, <2>4
<1> QED
  BY <1>6, <1>7

-----------------------------------------------------------------------------
(* Sorting: the items stay the same.                                        *)

Perm(f, m) ==
  /\ f \in [1 .. m -> 1 .. m]
  /\ \A x, y \in 1 .. m : f[x] = f[y] => x = y
  /\ \A v \in 1 .. m : \E x \in 1 .. m : f[x] = v

(* rand_int never picks what is past the end.                               *)
LEMMA PickedIn ==
  ASSUME NEW m \in Nat, NEW t \in 0 .. m - 1, NEW rnd \in 0 .. RandMax
  PROVE  t + rnd \div (RandMax \div (m - t) + 1) \in t .. m - 1
<1>1. PICK k \in Nat \ {0} : k = m - t
  OBVIOUS
<1>2. RandMax \in Nat /\ rnd \in Nat /\ rnd <= RandMax
  BY SortConstants
<1>3. PICK q \in Nat, r \in 0 .. k - 1 : q = RandMax \div k /\ RandMax = k * q + r
  BY <1>2, QuotientIs
<1>4. PICK d \in Nat \ {0} : d = q + 1
  OBVIOUS
<1>5. PICK u \in Nat, v \in 0 .. d - 1 : u = rnd \div d /\ rnd = d * u + v
  BY <1>2, QuotientIs
<1>6. u < k
  <2>1. SUFFICES ASSUME k <= u PROVE FALSE
    BY <1>1
  <2>2. k * d \in Int /\ k * d <= u * d
    BY <1>1, <1>4, <2>1, ProductsGrow
  <2>3. k * d = k * q + k
    BY <1>4
  <2>4. d * u = u * d /\ u * d \in Int /\ k * q \in Int
    OBVIOUS
  <2> QED
    BY <1>2, <1>3, <1>5, <2>2, <2>3, <2>4
<1>7. t + u \in t .. m - 1
  BY <1>1, <1>6
<1> QED
  BY <1>1, <1>3, <1>4, <1>5, <1>7

LEMMA ExchangeKeeps ==
  ASSUME NEW m \in Nat, NEW f, Perm(f, m), NEW a \in 0 .. m - 1, NEW c \in 0 .. m - 1,
         NEW g, Exchanged(f, g, a, c)
  PROVE  Perm(g, m)
<1> DEFINE other(x) == IF x = a + 1 THEN c + 1 ELSE IF x = c + 1 THEN a + 1 ELSE x
<1>1. f \in [1 .. m -> 1 .. m] /\ a + 1 \in 1 .. m /\ c + 1 \in 1 .. m
  BY DEF Perm
<1>2. g \in [1 .. m -> 1 .. m]
  BY <1>1 DEF Exchanged
<1>3. \A x \in 1 .. m : other(x) \in 1 .. m /\ other(other(x)) = x /\ g[x] = f[other(x)]
  BY <1>1 DEF Exchanged
<1> HIDE DEF other
<1>4. ASSUME NEW x \in 1 .. m, NEW y \in 1 .. m, g[x] = g[y]
      PROVE  x = y
  <2>1. other(x) \in 1 .. m /\ other(y) \in 1 .. m /\ f[other(x)] = f[other(y)]
    BY <1>3, <1>4
  <2>2. other(x) = other(y)
    BY <2>1 DEF Perm
  <2> QED
    BY <1>3, <2>2
<1>5. ASSUME NEW v \in 1 .. m
      PROVE  \E x \in 1 .. m : g[x] = v
  <2>1. PICK y \in 1 .. m : f[y] = v
    BY DEF Perm
  <2>2. other(y) \in 1 .. m /\ g[other(y)] = f[other(other(y))] /\ other(other(y)) = y
    BY <1>3
  <2> QED
    BY <2>1, <2>2
<1> QED
  BY <1>2, <1>4, <1>5 DEF Perm

(* Each part is sorted by itself.                                           *)
PartItems(p, m, k) == Off(p, m, k) .. Off(p, m, k) + Size(p, m, k) - 1

PartsSorted(f, kk, p, m) ==
  \A k \in 0 .. p - 1 : \A x, y \in PartItems(p, m, k) :
    x < y => kk[f[x + 1]] <= kk[f[y + 1]]

PartsKept(f, g, p, m) ==
  \A k \in 0 .. p - 1 :
    /\ {g[x + 1] : x \in PartItems(p, m, k)} = {f[x + 1] : x \in PartItems(p, m, k)}
    /\ \A x, y \in PartItems(p, m, k) : x < y => g[x + 1] # g[y + 1]

LEMMA PartItemsAre ==
  ASSUME NEW p, NEW m, Divided(p, m)
  PROVE  /\ \A k \in 0 .. p - 1 : PartItems(p, m, k) \in SUBSET (0 .. m - 1)
         /\ \A x \in 0 .. m - 1 : \E k \in 0 .. p - 1 : x \in PartItems(p, m, k)
         /\ \A k, j \in 0 .. p - 1 : \A x : x \in PartItems(p, m, k) /\ x \in PartItems(p, m, j) => k = j
<1>1. m \in Nat /\ p \in Nat \ {0}
  BY DEF Divided
<1>2. ASSUME NEW k \in 0 .. p - 1
      PROVE  Off(p, m, k) \in Nat /\ Size(p, m, k) \in Nat /\ Off(p, m, k) + Size(p, m, k) <= m
  BY PartsAre
<1>3. ASSUME NEW k \in 0 .. p - 1, NEW x \in PartItems(p, m, k)
      PROVE  x \in 0 .. m - 1 /\ Off(p, m, k) <= x /\ x < Off(p, m, k) + Size(p, m, k)
  BY <1>1, <1>2, <1>3 DEF PartItems
<1>4. ASSUME NEW x \in 0 .. m - 1
      PROVE  \E k \in 0 .. p - 1 : x \in PartItems(p, m, k)
  <2>1. PICK k \in 0 .. p - 1 : Off(p, m, k) <= x /\ x < Off(p, m, k) + Size(p, m, k)
    BY InAPart
  <2>2. x \in PartItems(p, m, k)
    BY <1>1, <1>2, <2>1 DEF PartItems
  <2> QED
    BY <2>2
<1>5. ASSUME NEW k \in 0 .. p - 1, NEW j \in 0 .. p - 1, NEW x,
             x \in PartItems(p, m, k), x \in PartItems(p, m, j), k < j
      PROVE  FALSE
  <2>1. Off(p, m, k) + Size(p, m, k) <= Off(p, m, j)
    BY <1>5, PartsAre
  <2>2. x \in Int /\ x < Off(p, m, k) + Size(p, m, k) /\ Off(p, m, j) <= x
    BY <1>3, <1>5
  <2> QED
    BY <1>2, <2>1, <2>2
<1>6. \A k, j \in 0 .. p - 1 : k < j \/ j < k \/ k = j
  BY <1>1
<1> QED
  BY <1>3, <1>4, <1>5, <1>6

LEMMA PartsKeep ==
  ASSUME NEW p, NEW m, Divided(p, m), NEW f, Perm(f, m), NEW g \in [1 .. m -> 1 .. m],
         PartsKept(f, g, p, m)
  PROVE  Perm(g, m)
<1>1. m \in Nat /\ \A x \in 0 .. m - 1 : x + 1 \in 1 .. m
  BY DEF Divided
<1>2. \A x \in 1 .. m : \E y \in 0 .. m - 1 : x = y + 1
  <2> TAKE x \in 1 .. m
  <2>1. x - 1 \in 0 .. m - 1 /\ x = (x - 1) + 1
    BY <1>1
  <2> QED
    BY <2>1
<1>3. ASSUME NEW k \in 0 .. p - 1, NEW x \in PartItems(p, m, k)
      PROVE  \E y \in PartItems(p, m, k) : g[x + 1] = f[y + 1]
  <2>1. {g[y + 1] : y \in PartItems(p, m, k)} = {f[y + 1] : y \in PartItems(p, m, k)}
    BY Zenon DEF PartsKept
  <2>2. g[x + 1] \in {g[y + 1] : y \in PartItems(p, m, k)}
    OBVIOUS
  <2>3. g[x + 1] \in {f[y + 1] : y \in PartItems(p, m, k)}
    BY <2>1, <2>2, Zenon
  <2> QED
    BY <2>3
<1>4. ASSUME NEW k \in 0 .. p - 1, NEW x \in PartItems(p, m, k)
      PROVE  \E y \in PartItems(p, m, k) : g[y + 1] = f[x + 1]
  <2>1. {g[y + 1] : y \in PartItems(p, m, k)} = {f[y + 1] : y \in PartItems(p, m, k)}
    BY Zenon DEF PartsKept
  <2>2. f[x + 1] \in {f[y + 1] : y \in PartItems(p, m, k)}
    OBVIOUS
  <2>3. f[x + 1] \in {g[y + 1] : y \in PartItems(p, m, k)}
    BY <2>1, <2>2, Zenon
  <2> QED
    BY <2>3
<1>5. ASSUME NEW x \in 0 .. m - 1, NEW y \in 0 .. m - 1, g[x + 1] = g[y + 1]
      PROVE  x = y
  <2>1. PICK k \in 0 .. p - 1 : x \in PartItems(p, m, k)
    BY PartItemsAre
  <2>2. PICK j \in 0 .. p - 1 : y \in PartItems(p, m, j)
    BY PartItemsAre
  <2>3. PICK u \in PartItems(p, m, k) : g[x + 1] = f[u + 1]
    BY <1>3, <2>1
  <2>4. PICK v \in PartItems(p, m, j) : g[y + 1] = f[v + 1]
    BY <1>3, <2>2
  <2>5. u \in 0 .. m - 1 /\ v \in 0 .. m - 1
    BY PartItemsAre
  <2>6. u + 1 = v + 1
    BY <1>1, <1>5, <2>3, <2>4, <2>5 DEF Perm
  <2>7. u = v
    BY <1>1, <2>5, <2>6
  <2>8. k = j
    BY <2>7, PartItemsAre
  <2>9. x \in Int /\ y \in Int
    OBVIOUS
  <2> QED
    BY <1>5, <2>1, <2>2, <2>8, <2>9 DEF PartsKept
<1>6. ASSUME NEW x \in 1 .. m, NEW y \in 1 .. m, g[x] = g[y]
      PROVE  x = y
  BY <1>2, <1>5, <1>6
<1>7. ASSUME NEW v \in 1 .. m
      PROVE  \E x \in 1 .. m : g[x] = v
  <2>1. PICK z \in 1 .. m : f[z] = v
    BY DEF Perm
  <2>2. PICK x \in 0 .. m - 1 : f[x + 1] = v
    BY <1>2, <2>1
  <2>3. PICK k \in 0 .. p - 1 : x \in PartItems(p, m, k)
    BY PartItemsAre
  <2>4. PICK y \in PartItems(p, m, k) : g[y + 1] = v
    BY <1>4, <2>2, <2>3
  <2>5. y + 1 \in 1 .. m
    BY <1>1, PartItemsAre
  <2> QED
    BY <2>4, <2>5
<1> QED
  BY <1>6, <1>7 DEF Perm

-----------------------------------------------------------------------------
(* Sorting: the heads of the parts.                                         *)

HeadOf(node, t, p, m) ==
  /\ node.value = Off(p, m, node.p_index) + t[node.p_index + 1]
  /\ t[node.p_index + 1] < Size(p, m, node.p_index)

(* The first len nodes are the heads of the parts that are not used up,     *)
(* when t[k + 1] items of part k are gone.                                  *)
Heads(h, len, t, p, m) ==
  /\ t \in [1 .. p -> Nat]
  /\ \A k \in 0 .. p - 1 : t[k + 1] <= Size(p, m, k)
  /\ \A x \in 1 .. len : HeadOf(h[x], t, p, m)
  /\ OnePerPart(h, len)
  /\ \A k \in 0 .. p - 1 : t[k + 1] < Size(p, m, k) => \E x \in 1 .. len : h[x].p_index = k

LEMMA HeadsStay ==
  ASSUME NEW h, NEW g, NEW len, NEW t, NEW p, NEW m, Heads(h, len, t, p, m), SameNodes(h, g, len)
  PROVE  Heads(g, len, t, p, m)
<1>1. ASSUME NEW x \in 1 .. len PROVE HeadOf(g[x], t, p, m)
  <2>1. PICK y \in 1 .. len : g[x] = h[y]
    BY DEF SameNodes
  <2> QED
    BY <2>1 DEF Heads
<1>2. ASSUME NEW k \in 0 .. p - 1, t[k + 1] < Size(p, m, k)
      PROVE  \E x \in 1 .. len : g[x].p_index = k
  <2>1. PICK y \in 1 .. len : h[y].p_index = k
    BY <1>2 DEF Heads
  <2>2. PICK x \in 1 .. len : g[x] = h[y]
    BY DEF SameNodes
  <2> QED
    BY <2>1, <2>2
<1> QED
  BY <1>1, <1>2 DEF Heads, SameNodes

LEMMA NodeTypes ==
  ASSUME NEW h, NEW len, NEW p, NEW m, Sortable(h, len, p, m), NEW x \in 1 .. len
  PROVE  /\ h[x] \in NodesOf(p, m) /\ h[x].value \in 0 .. m - 1 /\ h[x].p_index \in 0 .. p - 1
         /\ x \in 1 .. p
<1>1. x \in 1 .. p /\ h \in [1 .. p -> NodesOf(p, m)]
  BY DEF Sortable
<1>2. h[x] \in NodesOf(p, m)
  BY <1>1
<1> QED
  BY <1>1, <1>2 DEF NodesOf

(* The heads at first.                                                      *)
FirstNodes(p, m) == [k \in 1 .. p |-> [value |-> Off(p, m, k - 1), p_index |-> k - 1]]

NoneTaken(p) == [k \in 1 .. p |-> 0]

LEMMA FirstHeads ==
  ASSUME NEW p, NEW m, Divided(p, m), m > 0
  PROVE  /\ FirstNodes(p, m) \in [1 .. p -> NodesOf(p, m)]
         /\ Heads(FirstNodes(p, m), p, NoneTaken(p), p, m)
<1>1. PICK h, t : h = FirstNodes(p, m) /\ t = NoneTaken(p)
  OBVIOUS
<1>2. m \in Nat /\ p \in Nat \ {0}
  BY DEF Divided
<1>3. ASSUME NEW x \in 1 .. p
      PROVE  /\ x - 1 \in 0 .. p - 1 /\ Off(p, m, x - 1) \in 0 .. m - 1 /\ Size(p, m, x - 1) > 0
             /\ x = (x - 1) + 1
  <2>1. x - 1 \in 0 .. p - 1
    BY <1>2
  <2>2. /\ Off(p, m, x - 1) \in Nat /\ Size(p, m, x - 1) \in Nat /\ Size(p, m, x - 1) > 0
        /\ Off(p, m, x - 1) + Size(p, m, x - 1) <= m
    BY <2>1, PartsAre
  <2> QED
    BY <1>2, <2>1, <2>2
<1>4. ASSUME NEW x \in 1 .. p
      PROVE  /\ h[x] = [value |-> Off(p, m, x - 1), p_index |-> x - 1]
             /\ h[x].value = Off(p, m, x - 1) /\ h[x].p_index = x - 1
             /\ h[x] \in NodesOf(p, m) /\ t[x] = 0
  BY <1>1, <1>3 DEF NodesOf, FirstNodes, NoneTaken
<1>5. t \in [1 .. p -> Nat]
  BY <1>1 DEF NoneTaken
<1>6. h \in [1 .. p -> NodesOf(p, m)]
  BY <1>1, <1>4 DEF FirstNodes
<1>7. ASSUME NEW x \in 1 .. p
      PROVE  HeadOf(h[x], t, p, m)
  <2>1. t[(x - 1) + 1] = 0
    BY <1>3, <1>4
  <2>2. Off(p, m, x - 1) + 0 = Off(p, m, x - 1) /\ 0 < Size(p, m, x - 1)
    <3>1. Off(p, m, x - 1) \in Int /\ Size(p, m, x - 1) > 0
      BY <1>3
    <3> QED
      BY <1>3, PartsAre
  <2> QED
    BY <1>4, <2>1, <2>2 DEF HeadOf
<1>8. \A x \in 1 .. p : h[x].p_index = x - 1
  BY <1>4, Zenon
<1>9. OnePerPart(h, p)
  <2>1. \A x, y \in 1 .. p : x - 1 = y - 1 => x = y
    BY <1>2
  <2> QED
    BY <1>8, <2>1, Zenon DEF OnePerPart
<1>10. ASSUME NEW k \in 0 .. p - 1
      PROVE  /\ t[k + 1] = 0 /\ 0 <= Size(p, m, k)
             /\ \E x \in 1 .. p : h[x].p_index = k
  <2>1. k + 1 \in 1 .. p /\ (k + 1) - 1 = k
    BY <1>2
  <2>2. 0 <= Size(p, m, k)
    <3>1. Size(p, m, k) \in Nat
      BY PartsAre
    <3> QED
      BY <3>1
  <2>3. t[k + 1] = 0
    BY <1>4, <2>1, Zenon
  <2>4. h[k + 1].p_index = k
    BY <1>8, <2>1, Zenon
  <2> QED
    BY <2>1, <2>2, <2>3, <2>4, Zenon
<1>11. Heads(h, p, t, p, m)
  BY <1>7, <1>9, <1>10, <1>5 DEF Heads
<1> QED
  BY <1>1, <1>6, <1>11, Zenon

Taken(t, k) == [t EXCEPT ![k + 1] = t[k + 1] + 1]

LEMMA TakenIs ==
  ASSUME NEW p \in Nat, NEW t \in [1 .. p -> Nat], NEW k \in 0 .. p - 1
  PROVE  /\ Taken(t, k) \in [1 .. p -> Nat]
         /\ Taken(t, k)[k + 1] = t[k + 1] + 1
         /\ \A j \in 0 .. p - 1 : j # k => Taken(t, k)[j + 1] = t[j + 1]
<1>1. k + 1 \in 1 .. p /\ \A j \in 0 .. p - 1 : j + 1 \in 1 .. p /\ (j # k => j + 1 # k + 1)
  OBVIOUS
<1> QED
  BY <1>1 DEF Taken

(* The top of the heap moves on in its part.                                *)
LEMMA NextOfPart ==
  ASSUME NEW h, NEW len, NEW p, NEW m, Sortable(h, len, p, m), Divided(p, m), len > 0,
         NEW t, Heads(h, len, t, p, m), Ordered(KeysOf(items, key, h, len), len, 0),
         NEW k, k = h[1].p_index, t[k + 1] + 1 < Size(p, m, k),
         NEW g, g = [h EXCEPT ![1].value = Off(p, m, k) + (t[k + 1] + 1)]
  PROVE  /\ Sortable(g, len, p, m) /\ Heads(g, len, Taken(t, k), p, m)
         /\ Ordered(KeysOf(items, key, g, len), len, 1)
<1>1. /\ m \in Nat /\ p \in Nat /\ len \in 0 .. p /\ len \in Nat /\ 1 \in 1 .. len /\ 1 \in 1 .. p
      /\ h \in [1 .. p -> NodesOf(p, m)]
  <2>1. m \in Nat /\ p \in Nat /\ len \in 0 .. p /\ h \in [1 .. p -> NodesOf(p, m)]
    BY DEF Sortable
  <2> QED
    BY <2>1
<1>2. k \in 0 .. p - 1 /\ h[1] \in NodesOf(p, m) /\ t \in [1 .. p -> Nat] /\ k + 1 \in 1 .. p
  <2>1. k \in 0 .. p - 1 /\ h[1] \in NodesOf(p, m)
    BY <1>1, NodeTypes
  <2> QED
    BY <1>1, <2>1 DEF Heads
<1>3. PICK c \in Nat : c = t[k + 1]
  BY <1>2
<1>4. PICK o \in Nat : o = Off(p, m, k) /\ o + (c + 1) \in 0 .. m - 1
  <2>1. Off(p, m, k) \in Nat /\ Size(p, m, k) \in Nat /\ Off(p, m, k) + Size(p, m, k) <= m
    BY <1>2, PartsAre
  <2>2. c + 1 < Size(p, m, k)
    BY <1>3
  <2> QED
    BY <1>1, <2>1, <2>2
<1>5. PICK top : top = [value |-> o + (c + 1), p_index |-> k]
  OBVIOUS
<1>6. top \in NodesOf(p, m) /\ top.value = o + (c + 1) /\ top.p_index = k
  BY <1>2, <1>4, <1>5 DEF NodesOf
<1>7. g = [h EXCEPT ![1] = top]
  <2>1. [h[1] EXCEPT !.value = o + (c + 1)] = top
    BY <1>2, <1>5 DEF NodesOf
  <2> QED
    BY <1>1, <1>3, <1>4, <2>1
<1>8. g \in [1 .. p -> NodesOf(p, m)] /\ g[1] = top /\ \A x \in 2 .. p : g[x] = h[x]
  BY <1>1, <1>6, <1>7
<1>9. Sortable(g, len, p, m)
  BY <1>8 DEF Sortable
<1>10. \A x \in 1 .. len : g[x].p_index = h[x].p_index
  <2> TAKE x \in 1 .. len
  <2>1. x = 1 \/ x \in 2 .. p
    BY <1>1
  <2> QED
    BY <1>6, <1>8, <2>1
<1>11. OnePerPart(g, len)
  BY <1>10 DEF Heads, OnePerPart
<1>12. /\ Taken(t, k) \in [1 .. p -> Nat] /\ Taken(t, k)[k + 1] = c + 1
       /\ \A j \in 0 .. p - 1 : j # k => Taken(t, k)[j + 1] = t[j + 1]
  <2>1. p \in Nat /\ t \in [1 .. p -> Nat] /\ k \in 0 .. p - 1
    BY <1>1, <1>2
  <2>2. /\ Taken(t, k) \in [1 .. p -> Nat] /\ Taken(t, k)[k + 1] = t[k + 1] + 1
        /\ \A j \in 0 .. p - 1 : j # k => Taken(t, k)[j + 1] = t[j + 1]
    BY <2>1, TakenIs, Zenon
  <2> QED
    BY <1>3, <2>2
<1>13. ASSUME NEW x \in 1 .. len
       PROVE  HeadOf(g[x], Taken(t, k), p, m)
  <2>1. CASE x = 1
    BY <1>3, <1>4, <1>6, <1>8, <1>12, <2>1 DEF HeadOf
  <2>2. CASE x # 1
    <3>1. g[x] = h[x] /\ HeadOf(h[x], t, p, m)
      BY <1>1, <1>8, <2>2 DEF Heads
    <3>2. h[x].p_index # k /\ h[x].p_index \in 0 .. p - 1
      BY <1>1, <2>2, NodeTypes DEF Heads, OnePerPart
    <3> QED
      BY <1>12, <3>1, <3>2 DEF HeadOf
  <2> QED
    BY <2>1, <2>2
<1>14. ASSUME NEW j \in 0 .. p - 1
       PROVE  /\ Taken(t, k)[j + 1] <= Size(p, m, j)
              /\ Taken(t, k)[j + 1] < Size(p, m, j) => \E x \in 1 .. len : g[x].p_index = j
  <2>1. CASE j = k
    <3>1. c + 1 < Size(p, m, k) /\ Size(p, m, k) \in Nat
      BY <1>2, <1>3, PartsAre
    <3> QED
      BY <1>1, <1>6, <1>8, <1>12, <2>1, <3>1
  <2>2. CASE j # k
    BY <1>10, <1>12, <2>2 DEF Heads
  <2> QED
    BY <2>1, <2>2
<1>15. Heads(g, len, Taken(t, k), p, m)
  BY <1>11, <1>12, <1>13, <1>14 DEF Heads
<1>16. Ordered(KeysOf(items, key, g, len), len, 1)
  <2>1. \A x \in 1 .. len - 1 : KeysOf(items, key, g, len)[x] = KeysOf(items, key, h, len)[x]
    <3> TAKE x \in 1 .. len - 1
    <3>1. x \in 0 .. len - 1 /\ x + 1 \in 2 .. p
      BY <1>1
    <3>2. g[x + 1] = h[x + 1]
      BY <1>8, <3>1
    <3> QED
      BY <3>1, <3>2 DEF KeysOf
  <2>2. ASSUME NEW x \in 1 .. len - 1, NEW y \in 0 .. len - 1, IsChild(x, y)
        PROVE  x \in 0 .. len - 1 /\ y \in 1 .. len - 1
    BY <1>1, <2>2 DEF IsChild
  <2> QED
    BY <2>1, <2>2 DEF Ordered
<1> QED
  BY <1>9, <1>15, <1>16

(* The part of the top is used up: the last node takes its place.           *)
LEMMA PartUsedUp ==
  ASSUME NEW h, NEW len, NEW p, NEW m, Sortable(h, len, p, m), Divided(p, m), len > 0,
         NEW t, Heads(h, len, t, p, m), Ordered(KeysOf(items, key, h, len), len, 0),
         NEW k, k = h[1].p_index, ~ (t[k + 1] + 1 < Size(p, m, k)),
         NEW g, g = IF len > 1 THEN [h EXCEPT ![1] = h[len]] ELSE h
  PROVE  /\ Sortable(g, len - 1, p, m) /\ Heads(g, len - 1, Taken(t, k), p, m)
         /\ Ordered(KeysOf(items, key, g, len - 1), len - 1, 1)
<1>1. /\ m \in Nat /\ p \in Nat /\ len \in 0 .. p /\ len \in Nat /\ 1 \in 1 .. len /\ 1 \in 1 .. p
      /\ h \in [1 .. p -> NodesOf(p, m)]
  <2>1. m \in Nat /\ p \in Nat /\ len \in 0 .. p /\ h \in [1 .. p -> NodesOf(p, m)]
    BY DEF Sortable
  <2> QED
    BY <2>1
<1>2. k \in 0 .. p - 1 /\ t \in [1 .. p -> Nat] /\ k + 1 \in 1 .. p
  <2>1. k \in 0 .. p - 1
    BY <1>1, NodeTypes
  <2> QED
    BY <1>1, <2>1 DEF Heads
<1>3. PICK c \in Nat : c = t[k + 1]
  BY <1>2
<1>4. PICK e \in 0 .. p : e = len - 1 /\ len \in 1 .. p /\ len \in 1 .. len
  BY <1>1
<1>5. g \in [1 .. p -> NodesOf(p, m)]
  BY <1>1, <1>4
<1>6. Sortable(g, e, p, m)
  BY <1>4, <1>5 DEF Sortable
<1> DEFINE from(x) == IF x = 1 THEN len ELSE x
<1>7. \A x \in 1 .. e : g[x] = h[from(x)] /\ from(x) \in 2 .. len
  <2> TAKE x \in 1 .. e
  <2>1. x \in 1 .. p /\ len > 1 /\ from(x) \in 2 .. len
    BY <1>1, <1>4
  <2>2. g = [h EXCEPT ![1] = h[len]]
    BY <2>1
  <2>3. g[x] = h[from(x)]
    BY <1>1, <2>1, <2>2
  <2> QED
    BY <2>1, <2>3
<1>8. \A x, y \in 1 .. e : from(x) = from(y) => x = y
  BY <1>1, <1>4
<1>9. \A z \in 2 .. len : \E x \in 1 .. e : from(x) = z
  <2> TAKE z \in 2 .. len
  <2>1. CASE z = len
    BY <1>1, <1>4, <2>1
  <2>2. CASE z # len
    BY <1>1, <1>4, <2>2
  <2> QED
    BY <2>1, <2>2
<1> HIDE DEF from
<1>10. \A z \in 2 .. len : z \in 1 .. len /\ z # 1
  BY <1>1
<1>11. OnePerPart(g, e)
  <2>1. ASSUME NEW x \in 1 .. e, NEW y \in 1 .. e, g[x].p_index = g[y].p_index
        PROVE  x = y
    <3>1. /\ h[from(x)].p_index = h[from(y)].p_index
          /\ from(x) \in 1 .. len /\ from(y) \in 1 .. len
      BY <1>7, <1>10, <2>1
    <3>2. from(x) = from(y)
      BY <3>1 DEF Heads, OnePerPart
    <3> QED
      BY <1>8, <3>2
  <2> QED
    BY <2>1 DEF OnePerPart
<1>12. /\ Taken(t, k) \in [1 .. p -> Nat] /\ Taken(t, k)[k + 1] = c + 1
       /\ \A j \in 0 .. p - 1 : j # k => Taken(t, k)[j + 1] = t[j + 1]
  <2>1. p \in Nat /\ t \in [1 .. p -> Nat] /\ k \in 0 .. p - 1
    BY <1>1, <1>2
  <2>2. /\ Taken(t, k) \in [1 .. p -> Nat] /\ Taken(t, k)[k + 1] = t[k + 1] + 1
        /\ \A j \in 0 .. p - 1 : j # k => Taken(t, k)[j + 1] = t[j + 1]
    BY <2>1, TakenIs, Zenon
  <2> QED
    BY <1>3, <2>2
<1>13. Taken(t, k)[k + 1] = Size(p, m, k)
  <2>1. HeadOf(h[1], t, p, m)
    BY <1>1 DEF Heads
  <2>2. c < Size(p, m, k) /\ ~ (c + 1 < Size(p, m, k)) /\ Size(p, m, k) \in Nat
    BY <1>2, <1>3, <2>1, PartsAre DEF HeadOf
  <2> QED
    BY <1>12, <2>2
<1>14. ASSUME NEW x \in 1 .. e
       PROVE  HeadOf(g[x], Taken(t, k), p, m)
  <2>1. g[x] = h[from(x)] /\ from(x) \in 1 .. len /\ from(x) # 1
    BY <1>7, <1>10
  <2>2. HeadOf(h[from(x)], t, p, m)
    BY <2>1 DEF Heads
  <2>3. h[from(x)].p_index # k /\ h[from(x)].p_index \in 0 .. p - 1
    BY <1>1, <2>1, NodeTypes DEF Heads, OnePerPart
  <2> QED
    BY <1>12, <2>1, <2>2, <2>3 DEF HeadOf
<1>15. ASSUME NEW j \in 0 .. p - 1
       PROVE  /\ Taken(t, k)[j + 1] <= Size(p, m, j)
              /\ Taken(t, k)[j + 1] < Size(p, m, j) => \E x \in 1 .. e : g[x].p_index = j
  <2>1. CASE j = k
    <3>1. Size(p, m, k) \in Nat
      BY <1>2, PartsAre
    <3> QED
      BY <1>13, <2>1, <3>1
  <2>2. CASE j # k
    <3>1. t[j + 1] <= Size(p, m, j) /\ Taken(t, k)[j + 1] = t[j + 1]
      BY <1>12, <2>2 DEF Heads
    <3>2. ASSUME t[j + 1] < Size(p, m, j)
          PROVE  \E x \in 1 .. e : g[x].p_index = j
      <4>1. PICK z \in 1 .. len : h[z].p_index = j
        BY <3>2 DEF Heads
      <4>2. z \in 2 .. len
        <5>1. z # 1
          BY <2>2, <4>1
        <5> QED
          BY <1>1, <5>1
      <4>3. PICK x \in 1 .. e : from(x) = z
        BY <1>9, <4>2
      <4> QED
        BY <1>7, <4>1, <4>3
    <3> QED
      BY <3>1, <3>2
  <2> QED
    BY <2>1, <2>2
<1>16. Heads(g, e, Taken(t, k), p, m)
  BY <1>11, <1>12, <1>14, <1>15 DEF Heads
<1>17. Ordered(KeysOf(items, key, g, e), e, 1)
  <2>1. \A x \in 1 .. e - 1 : KeysOf(items, key, g, e)[x] = KeysOf(items, key, h, len)[x]
    <3> TAKE x \in 1 .. e - 1
    <3>1. x \in 0 .. e - 1 /\ x \in 0 .. len - 1 /\ x + 1 \in 1 .. e /\ x + 1 # 1
      BY <1>1, <1>4
    <3>2. g[x + 1] = h[x + 1]
      BY <1>7, <3>1 DEF from
    <3> QED
      BY <3>1, <3>2 DEF KeysOf
  <2>2. ASSUME NEW x \in 1 .. e - 1, NEW y \in 0 .. e - 1, IsChild(x, y)
        PROVE  x \in 0 .. len - 1 /\ y \in 0 .. len - 1 /\ y \in 1 .. e - 1
    BY <1>1, <1>4, <2>2 DEF IsChild
  <2> QED
    BY <2>1, <2>2 DEF Ordered
<1> QED
  BY <1>4, <1>6, <1>16, <1>17

-----------------------------------------------------------------------------
(* Sorting: the output.                                                     *)

(* The indices of the items that the output has.                            *)
Gone(t, p, m) ==
  {x \in 0 .. m - 1 : \E k \in 0 .. p - 1 : Off(p, m, k) <= x /\ x < Off(p, m, k) + t[k + 1]}

LEMMA PartBounds ==
  ASSUME NEW p, NEW m, Divided(p, m), NEW k \in 0 .. p - 1, NEW x \in Int
  PROVE  x \in PartItems(p, m, k) <=> Off(p, m, k) <= x /\ x < Off(p, m, k) + Size(p, m, k)
<1>1. Off(p, m, k) \in Nat /\ Size(p, m, k) \in Nat
  BY PartsAre
<1> QED
  BY <1>1 DEF PartItems

InTheirParts(t, p, m) ==
  t \in [1 .. p -> Nat] /\ \A k \in 0 .. p - 1 : t[k + 1] <= Size(p, m, k)

IsNext(v, t, p, m, k) == v = Off(p, m, k) + t[k + 1] /\ t[k + 1] < Size(p, m, k)

OneMoreGone(v, t, p, m, k) ==
  /\ v \in 0 .. m - 1 /\ v \notin Gone(t, p, m)
  /\ Gone(Taken(t, k), p, m) = Gone(t, p, m) \cup {v}

LEMMA GoneMore ==
  ASSUME NEW p, NEW m, Divided(p, m), NEW t, InTheirParts(t, p, m),
         NEW k \in 0 .. p - 1, NEW v, IsNext(v, t, p, m, k)
  PROVE  OneMoreGone(v, t, p, m, k)
<1>1. /\ t \in [1 .. p -> Nat] /\ \A j \in 0 .. p - 1 : t[j + 1] <= Size(p, m, j)
      /\ v = Off(p, m, k) + t[k + 1] /\ t[k + 1] < Size(p, m, k)
  BY Zenon DEF InTheirParts, IsNext
<1>2. m \in Nat /\ p \in Nat \ {0} /\ k + 1 \in 1 .. p
  BY DEF Divided
<1>3. PICK o \in Nat : o = Off(p, m, k)
  BY PartsAre
<1>4. PICK c \in Nat : c = t[k + 1]
  BY <1>1, <1>2
<1>5. PICK w \in Int : w = v /\ w = o + c
  BY <1>1, <1>3, <1>4
<1>6. w \in 0 .. m - 1 /\ w \in PartItems(p, m, k)
  <2>1. w \in PartItems(p, m, k)
    <3>1. Size(p, m, k) \in Nat
      BY PartsAre
    <3> QED
      BY <1>1, <1>3, <1>4, <1>5, <3>1, PartBounds
  <2> QED
    BY <2>1, PartItemsAre
<1>7. w \notin Gone(t, p, m)
  <2>1. SUFFICES ASSUME NEW j \in 0 .. p - 1, Off(p, m, j) <= w, w < Off(p, m, j) + t[j + 1]
                 PROVE  FALSE
    BY DEF Gone
  <2>2. t[j + 1] \in Nat /\ Off(p, m, j) \in Nat /\ Size(p, m, j) \in Nat /\ t[j + 1] <= Size(p, m, j)
    <3>1. j + 1 \in 1 .. p
      BY <1>2
    <3> QED
      BY <1>1, <3>1, PartsAre
  <2>3. w \in PartItems(p, m, j)
    <3>1. w < Off(p, m, j) + Size(p, m, j)
      BY <2>1, <2>2
    <3> QED
      BY <2>1, <3>1, PartBounds
  <2>4. j = k
    BY <1>6, <2>3, PartItemsAre
  <2> QED
    BY <1>3, <1>4, <1>5, <2>1, <2>4
<1>8. /\ Taken(t, k)[k + 1] = c + 1
      /\ \A j \in 0 .. p - 1 : j # k => Taken(t, k)[j + 1] = t[j + 1]
  <2>1. p \in Nat
    BY <1>2
  <2>2. /\ Taken(t, k)[k + 1] = t[k + 1] + 1
        /\ \A j \in 0 .. p - 1 : j # k => Taken(t, k)[j + 1] = t[j + 1]
    BY <1>1, <2>1, TakenIs, Zenon
  <2> QED
    BY <1>4, <2>2
<1>9. \A x \in 0 .. m - 1 : x < o + (c + 1) <=> x < o + c \/ x = w
  BY <1>2, <1>5
<1>10. ASSUME NEW x \in Gone(Taken(t, k), p, m)
      PROVE  x \in Gone(t, p, m) \cup {w}
  <2>1. PICK j \in 0 .. p - 1 : Off(p, m, j) <= x /\ x < Off(p, m, j) + Taken(t, k)[j + 1]
    BY DEF Gone
  <2>2. x \in 0 .. m - 1
    BY DEF Gone
  <2>3. CASE j = k
    <3>1. o <= x /\ x < o + (c + 1)
      BY <1>3, <1>8, <2>1, <2>3
    <3>2. x < o + c \/ x = w
      BY <1>9, <2>2, <3>1
    <3>3. x < o + c => x \in Gone(t, p, m)
      BY <1>3, <1>4, <2>2, <3>1 DEF Gone
    <3> QED
      BY <3>2, <3>3
  <2>4. CASE j # k
    BY <1>8, <2>1, <2>2, <2>4 DEF Gone
  <2> QED
    BY <2>3, <2>4
<1>11. ASSUME NEW x \in Gone(t, p, m) \cup {w}
       PROVE  x \in Gone(Taken(t, k), p, m)
  <2>1. CASE x = w
    <3>1. o <= w /\ w < o + (c + 1)
      BY <1>5
    <3> QED
      BY <1>3, <1>6, <1>8, <2>1, <3>1 DEF Gone
  <2>2. CASE x \in Gone(t, p, m)
    <3>1. PICK j \in 0 .. p - 1 : Off(p, m, j) <= x /\ x < Off(p, m, j) + t[j + 1]
      BY <2>2 DEF Gone
    <3>2. x \in 0 .. m - 1
      BY <2>2 DEF Gone
    <3>3. CASE j = k
      <4>1. o <= x /\ x < o + (c + 1)
        BY <1>3, <1>4, <1>9, <3>1, <3>2, <3>3
      <4> QED
        BY <1>3, <1>8, <3>2, <4>1 DEF Gone
    <3>4. CASE j # k
      BY <1>8, <3>1, <3>2, <3>4 DEF Gone
    <3> QED
      BY <3>3, <3>4
  <2> QED
    BY <2>1, <2>2
<1> QED
  BY <1>5, <1>6, <1>7, <1>10, <1>11 DEF OneMoreGone

(* No item that is left is less than that of the top.                       *)
LEMMA TopIsNext ==
  ASSUME NEW h, NEW len, NEW p, NEW m, Sortable(h, len, p, m), Divided(p, m), len > 0,
         NEW t, Heads(h, len, t, p, m), Ordered(KeysOf(items, key, h, len), len, 0),
         PartsSorted(items, key, p, m), NEW x \in (0 .. m - 1) \ Gone(t, p, m)
  PROVE  key[items[h[1].value + 1]] <= key[items[x + 1]]
<1>1. /\ m \in Nat /\ p \in Nat \ {0} /\ len \in 0 .. p /\ len \in Nat \ {0} /\ 1 \in 1 .. len
      /\ items \in [1 .. m -> 1 .. m] /\ key \in [1 .. m -> Int]
      /\ h \in [1 .. p -> NodesOf(p, m)] /\ p \in Nat
  <2>1. /\ m \in Nat /\ p \in Nat \ {0} /\ len \in 0 .. p /\ h \in [1 .. p -> NodesOf(p, m)]
        /\ items \in [1 .. m -> 1 .. m] /\ key \in [1 .. m -> Int]
    BY DEF Sortable, Divided
  <2>2. len \in Nat \ {0}
    BY <2>1
  <2>3. 1 \in 1 .. len /\ p \in Nat
    BY <2>1, <2>2
  <2> QED
    BY <2>1, <2>2, <2>3, Zenon
<1>2. x \in Int /\ x \in 0 .. m - 1
  OBVIOUS
<1>3. PICK k \in 0 .. p - 1 : x \in PartItems(p, m, k)
  BY PartItemsAre
<1>4. PICK c \in Nat : c = t[k + 1]
  <2>1. k + 1 \in 1 .. p
    BY <1>1
  <2> QED
    BY <2>1 DEF Heads
<1>5. PICK o \in Nat, s \in Nat : o = Off(p, m, k) /\ s = Size(p, m, k)
  BY PartsAre
<1>6. o + c <= x /\ x < o + s
  <2>1. o <= x /\ x < o + s
    BY <1>2, <1>3, <1>5, PartBounds
  <2>2. ~ (x < o + c)
    BY <1>2, <1>4, <1>5, <2>1 DEF Gone
  <2> QED
    BY <1>2, <2>1, <2>2
<1>7. c < s
  BY <1>2, <1>6
<1>8. PICK y \in 1 .. len : h[y].p_index = k
  BY <1>4, <1>5, <1>7 DEF Heads
<1>9. PICK w \in 0 .. m - 1 : w = h[y].value /\ w = o + c
  <2>1. HeadOf(h[y], t, p, m)
    BY DEF Heads
  <2>2. h[y].value = o + c /\ h[y].value \in 0 .. m - 1
    BY <1>4, <1>5, <1>8, <2>1, NodeTypes DEF HeadOf
  <2> QED
    BY <2>2
<1>10. w \in Int /\ w \in PartItems(p, m, k)
  BY <1>5, <1>7, <1>9, PartBounds
<1>11. key[items[w + 1]] <= key[items[x + 1]]
  <2>1. CASE w = x
    <3>1. key[items[x + 1]] \in Int
      <4>1. x + 1 \in 1 .. m
        BY <1>1, <1>2
      <4> QED
        BY <1>1, <4>1
    <3> QED
      BY <2>1, <3>1
  <2>2. CASE w # x
    <3>1. w < x
      BY <1>2, <1>6, <1>9, <1>10, <2>2
    <3> QED
      BY <1>3, <1>10, <3>1 DEF PartsSorted
  <2> QED
    BY <2>1, <2>2
<1>12. key[items[h[1].value + 1]] <= key[items[w + 1]]
  <2>1. PICK kk \in [0 .. len - 1 -> Int] : kk = KeysOf(items, key, h, len)
    BY <1>1, KeysAreInts
  <2>2. 0 \in 0 .. len - 1 /\ y - 1 \in 0 .. len - 1 /\ (y - 1) + 1 = y /\ 0 + 1 = 1
    BY <1>1
  <2>3. kk[0] <= kk[y - 1]
    BY <1>1, <2>1, <2>2, TopIsLeast
  <2>4. kk[0] = key[items[h[1].value + 1]] /\ kk[y - 1] = key[items[h[y].value + 1]]
    BY <2>1, <2>2 DEF KeysOf
  <2> QED
    BY <1>9, <2>3, <2>4
<1>13. /\ key[items[h[1].value + 1]] \in Int /\ key[items[w + 1]] \in Int
       /\ key[items[x + 1]] \in Int
  <2>1. h[1].value \in 0 .. m - 1
    BY <1>1, NodeTypes
  <2>2. \A z \in 0 .. m - 1 : z + 1 \in 1 .. m
    BY <1>1
  <2> QED
    BY <1>1, <1>2, <2>1, <2>2
<1> QED
  BY <1>11, <1>12, <1>13

Outs(out) == {out[x] : x \in 1 .. Len(out)}

(* The output is what is gone, in order, and nothing that is left is less.  *)
Merged(out, t, p, m) ==
  /\ out \in Seq(1 .. m)
  /\ Outs(out) = {items[x + 1] : x \in Gone(t, p, m)}
  /\ Cardinality(Outs(out)) = Len(out)
  /\ \A x \in 1 .. Len(out) - 1 : key[out[x]] <= key[out[x + 1]]
  /\ Len(out) > 0 => \A x \in (0 .. m - 1) \ Gone(t, p, m) : key[out[Len(out)]] <= key[items[x + 1]]

LEMMA MergedAtFirst ==
  ASSUME NEW p, NEW m, Divided(p, m)
  PROVE  Merged(<<>>, NoneTaken(p), p, m)
<1>1. m \in Nat /\ p \in Nat \ {0}
  BY DEF Divided
<1>2. Gone(NoneTaken(p), p, m) = {}
  <2>1. SUFFICES ASSUME NEW x \in Gone(NoneTaken(p), p, m) PROVE FALSE
    OBVIOUS
  <2>2. PICK k \in 0 .. p - 1 : Off(p, m, k) <= x /\ x < Off(p, m, k) + NoneTaken(p)[k + 1]
    BY DEF Gone
  <2>3. k + 1 \in 1 .. p /\ Off(p, m, k) \in Nat /\ x \in Int
    BY <1>1, PartsAre DEF Gone
  <2>4. NoneTaken(p)[k + 1] = 0
    BY <2>3 DEF NoneTaken
  <2> QED
    BY <2>2, <2>3, <2>4
<1>3. Outs(<<>>) = {} /\ Len(<<>>) = 0 /\ <<>> \in Seq(1 .. m)
  BY DEF Outs
<1>4. Cardinality(Outs(<<>>)) = Len(<<>>)
  BY <1>3, FS_EmptySet
<1>5. {items[x + 1] : x \in Gone(NoneTaken(p), p, m)} = {}
  BY <1>2
<1>6. \A x \in 1 .. Len(<<>>) - 1 : FALSE
  BY <1>3
<1>7. ~ (Len(<<>>) > 0)
  BY <1>3
<1> QED
  BY <1>3, <1>4, <1>5, <1>6, <1>7, Zenon DEF Merged

LEMMA OutsFinite ==
  ASSUME NEW m \in Nat, NEW out \in Seq(1 .. m)
  PROVE  IsFiniteSet(Outs(out)) /\ Outs(out) \in SUBSET (1 .. m) /\ Cardinality(1 .. m) = m
         /\ IsFiniteSet(1 .. m) /\ Len(out) \in Nat
<1>1. Outs(out) \in SUBSET (1 .. m)
  BY DEF Outs
<1>2. IsFiniteSet(1 .. m) /\ Cardinality(1 .. m) = m
  BY FS_Interval
<1> QED
  BY <1>1, <1>2, FS_Subset

LEMMA MergedMore ==
  ASSUME NEW p, NEW m \in Nat, NEW t, NEW t2, NEW out, Merged(out, t, p, m),
         Perm(items, m), key \in [1 .. m -> Int],
         NEW w \in (0 .. m - 1) \ Gone(t, p, m), Gone(t2, p, m) = Gone(t, p, m) \cup {w},
         \A x \in (0 .. m - 1) \ Gone(t, p, m) : key[items[w + 1]] <= key[items[x + 1]]
  PROVE  Merged(out \o <<items[w + 1]>>, t2, p, m)
<1>0. items \in [1 .. m -> 1 .. m] /\ \A x \in 0 .. m - 1 : x + 1 \in 1 .. m
  BY DEF Perm
<1>1. \A x \in 0 .. m - 1 : items[x + 1] \in 1 .. m
  BY <1>0
<1>2. PICK v \in 1 .. m : v = items[w + 1]
  <2>1. w \in 0 .. m - 1
    OBVIOUS
  <2>2. items[w + 1] \in 1 .. m
    BY <1>1, <2>1
  <2> QED
    BY <2>2
<1>3. PICK n \in Nat : n = Len(out)
  <2>1. out \in Seq(1 .. m)
    BY Zenon DEF Merged
  <2>2. Len(out) \in Nat
    BY <2>1
  <2> QED
    BY <2>2
<1>4. PICK o : o = out \o <<v>>
  OBVIOUS
<1>5. /\ o \in Seq(1 .. m) /\ Len(o) = n + 1 /\ o[n + 1] = v
      /\ \A x \in 1 .. n : o[x] = out[x]
  <2>1. out \in Seq(1 .. m)
    BY DEF Merged
  <2> QED
    BY <1>3, <1>4, <2>1
<1>6. v \notin Outs(out)
  <2>1. SUFFICES ASSUME NEW x \in Gone(t, p, m), items[x + 1] = v PROVE FALSE
    BY DEF Merged
  <2>2. x \in 0 .. m - 1 /\ x # w
    BY DEF Gone
  <2>3. x + 1 \in 1 .. m /\ w + 1 \in 1 .. m /\ x + 1 # w + 1
    BY <2>2
  <2> QED
    BY <1>2, <2>1, <2>3 DEF Perm
<1>7. Outs(o) = Outs(out) \cup {v}
  <2>1. \A x \in 1 .. n + 1 : x \in 1 .. n \/ x = n + 1
    OBVIOUS
  <2>2. \A x \in 1 .. n : x \in 1 .. n + 1
    OBVIOUS
  <2>3. n + 1 \in 1 .. n + 1
    OBVIOUS
  <2> QED
    BY <1>3, <1>5, <2>1, <2>2, <2>3 DEF Outs
<1>8. Outs(o) = {items[x + 1] : x \in Gone(t2, p, m)}
  <2>1. Outs(out) = {items[x + 1] : x \in Gone(t, p, m)}
    BY Zenon DEF Merged
  <2> QED
    BY <1>2, <1>7, <2>1
<1>9. Cardinality(Outs(o)) = Len(o)
  <2>1. IsFiniteSet(Outs(out)) /\ Cardinality(Outs(out)) = n
    BY <1>3, OutsFinite DEF Merged
  <2>2. Cardinality(Outs(out) \cup {v}) = Cardinality(Outs(out)) + 1
    BY <1>6, <2>1, FS_AddElement
  <2> QED
    BY <1>5, <1>7, <2>1, <2>2
<1>10. ASSUME NEW x \in 1 .. Len(o) - 1
       PROVE  key[o[x]] <= key[o[x + 1]]
  <2>1. CASE x = n
    <3>1. n > 0 /\ x \in 1 .. n
      BY <1>5, <2>1
    <3>2. key[out[n]] <= key[v]
      BY <1>2, <1>3, <3>1 DEF Merged
    <3>3. o[x] = out[n] /\ o[x + 1] = v
      BY <1>5, <2>1, <3>1
    <3> QED
      BY <3>2, <3>3
  <2>2. CASE x # n
    <3>1. x \in 1 .. n - 1 /\ x \in 1 .. n /\ x + 1 \in 1 .. n
      BY <1>5, <2>2
    <3>2. key[out[x]] <= key[out[x + 1]]
      BY <1>3, <3>1 DEF Merged
    <3> QED
      BY <1>5, <3>1, <3>2
  <2> QED
    BY <2>1, <2>2
<1>11. \A x \in (0 .. m - 1) \ Gone(t2, p, m) : key[o[Len(o)]] <= key[items[x + 1]]
  BY <1>2, <1>5
<1>12. Merged(o, t2, p, m)
  BY <1>5, <1>8, <1>9, <1>10, <1>11 DEF Merged
<1> QED
  BY <1>2, <1>4, <1>12

LEMMA AllOut ==
  ASSUME NEW p, NEW m \in Nat, NEW t, NEW out, Merged(out, t, p, m), Perm(items, m)
  PROVE  /\ Len(out) \in 0 .. m
         /\ Len(out) = m => Gone(t, p, m) = 0 .. m - 1
         /\ Gone(t, p, m) = 0 .. m - 1 => Len(out) = m
         /\ Len(out) = m => Outs(out) = 1 .. m
<1>1. out \in Seq(1 .. m) /\ Cardinality(Outs(out)) = Len(out) /\ Len(out) \in Nat
  BY DEF Merged
<1>2. /\ Outs(out) \in SUBSET (1 .. m) /\ IsFiniteSet(1 .. m) /\ Cardinality(1 .. m) = m
  BY <1>1, OutsFinite
<1>3. Len(out) <= m /\ (Len(out) = m => Outs(out) = 1 .. m)
  BY <1>1, <1>2, FS_Subset
<1>4. \A x \in 0 .. m - 1 : x + 1 \in 1 .. m
  OBVIOUS
<1>5. Outs(out) = {items[x + 1] : x \in Gone(t, p, m)}
  BY Zenon DEF Merged
<1>6. ASSUME Len(out) = m, NEW x \in 0 .. m - 1
      PROVE  x \in Gone(t, p, m)
  <2>1. items[x + 1] \in 1 .. m
    BY <1>4 DEF Perm
  <2>2. items[x + 1] \in Outs(out)
    BY <1>3, <1>6, <2>1
  <2>3. PICK y \in Gone(t, p, m) : items[x + 1] = items[y + 1]
    BY <1>5, <2>2
  <2>4. y \in 0 .. m - 1
    BY DEF Gone
  <2>5. x + 1 = y + 1
    BY <1>4, <2>3, <2>4 DEF Perm
  <2>6. x = y
    BY <2>4, <2>5
  <2> QED
    BY <2>6
<1>7. Gone(t, p, m) \in SUBSET (0 .. m - 1)
  BY DEF Gone
<1>8. ASSUME Gone(t, p, m) = 0 .. m - 1
      PROVE  Len(out) = m
  <2>1. ASSUME NEW v \in 1 .. m PROVE v \in Outs(out)
    <3>1. PICK z \in 1 .. m : items[z] = v
      BY DEF Perm
    <3>2. z - 1 \in 0 .. m - 1 /\ (z - 1) + 1 = z
      OBVIOUS
    <3> QED
      BY <1>5, <1>8, <3>1, <3>2
  <2>2. Outs(out) = 1 .. m
    BY <1>2, <2>1
  <2> QED
    BY <1>1, <1>2, <2>2
<1>9. Len(out) = m => Gone(t, p, m) = 0 .. m - 1
  BY <1>6, <1>7
<1>10. Len(out) \in 0 .. m
  BY <1>1, <1>3
<1> QED
  BY <1>3, <1>8, <1>9, <1>10, Zenon

(* The heap is empty when everything is out, and not before.                *)
LEMMA HeadsLeft ==
  ASSUME NEW h, NEW len, NEW p, NEW m, Sortable(h, len, p, m), Divided(p, m),
         NEW t, Heads(h, len, t, p, m)
  PROVE  len = 0 <=> Gone(t, p, m) = 0 .. m - 1
<1>1. m \in Nat /\ p \in Nat \ {0} /\ len \in 0 .. p /\ len \in Nat /\ t \in [1 .. p -> Nat]
  <2>1. m \in Nat /\ p \in Nat \ {0} /\ len \in 0 .. p /\ t \in [1 .. p -> Nat]
    BY DEF Sortable, Divided, Heads
  <2> QED
    BY <2>1
<1>2. ASSUME len = 0, NEW x \in 0 .. m - 1
      PROVE  x \in Gone(t, p, m)
  <2>1. PICK k \in 0 .. p - 1 : Off(p, m, k) <= x /\ x < Off(p, m, k) + Size(p, m, k)
    BY InAPart
  <2>2. ~ (t[k + 1] < Size(p, m, k)) /\ t[k + 1] <= Size(p, m, k)
    <3>1. 1 .. len = {}
      BY <1>2
    <3> QED
      BY <3>1 DEF Heads
  <2>3. t[k + 1] \in Nat /\ Size(p, m, k) \in Nat
    <3>1. k + 1 \in 1 .. p
      BY <1>1
    <3> QED
      BY <1>1, <3>1, PartsAre
  <2>4. t[k + 1] = Size(p, m, k)
    BY <2>2, <2>3
  <2> QED
    BY <2>1, <2>4 DEF Gone
<1>3. ASSUME len # 0
      PROVE  Gone(t, p, m) # 0 .. m - 1
  <2>1. 1 \in 1 .. len
    BY <1>1, <1>3
  <2>2. PICK k \in 0 .. p - 1 : k = h[1].p_index
    BY <2>1, NodeTypes
  <2>3. InTheirParts(t, p, m)
    BY DEF Heads, InTheirParts
  <2>4. PICK v : IsNext(v, t, p, m, k)
    BY <2>1, <2>2 DEF Heads, HeadOf, IsNext
  <2>5. v \in 0 .. m - 1 /\ v \notin Gone(t, p, m)
    BY <2>3, <2>4, GoneMore DEF OneMoreGone
  <2> QED
    BY <2>5
<1>4. Gone(t, p, m) \in SUBSET (0 .. m - 1)
  BY DEF Gone
<1> QED
  BY <1>2, <1>3, <1>4

-----------------------------------------------------------------------------
(* Sorting: the invariant.                                                  *)

Untouched(m) == Perm(items, m) /\ live = 0 /\ output = <<>>

(* The merge, while the nodes from x0 on are in the order of a heap.        *)
Merging(m, x0) ==
  /\ Perm(items, m) /\ m > 1 /\ PartsSorted(items, key, parts, m)
  /\ Sortable(nodes, live, parts, m) /\ Heads(nodes, live, taken, parts, m)
  /\ Ordered(KeysOf(items, key, nodes, live), live, x0)
  /\ Merged(output, taken, parts, m)

Ended(m) ==
  /\ live = 0 /\ Len(output) \in 0 .. m
  /\ \A v \in 1 .. m : \E x \in 1 .. m : items[x] = v
  /\ \A x \in 1 .. m - 1 : key[items[x]] <= key[items[x + 1]]

SortPhase(m) ==
  \/ sortPc \in {"shuffle", "sort"} /\ Untouched(m)
  \/ sortPc = "build" /\ Untouched(m) /\ m > 1 /\ PartsSorted(items, key, parts, m)
  \/ sortPc = "heapify" /\ Merging(m, turn) /\ live = parts /\ turn <= parts /\ output = <<>>
  \/ sortPc = "merge" /\ Merging(m, 0) /\ turn = Len(output)
  \/ sortPc = "done" /\ Ended(m)

SortTypes(m) ==
  /\ Divided(parts, m) /\ key \in [1 .. m -> Int] /\ items \in [1 .. m -> 1 .. m]
  /\ turn \in 0 .. m /\ live \in 0 .. parts

SortInv == \E m \in Nat : SortTypes(m) /\ SortPhase(m)

LEMMA ItemsLength ==
  ASSUME NEW m \in Nat, SortTypes(m)
  PROVE  /\ Len(items) = m /\ Sorting!n = m
         /\ \A k : Sorting!Offset(k) = Off(parts, m, k) /\ Sorting!PartSize(k) = Size(parts, m, k)
                   /\ Sorting!PartItems(k) = PartItems(parts, m, k)
<1>1. items \in [1 .. m -> 1 .. m]
  BY DEF SortTypes
<1>2. items \in Seq(1 .. m) /\ Len(items) = m
  BY <1>1, LenProperties, IsASeq
<1> QED
  BY <1>2 DEF Sorting!n, Sorting!Offset, Sorting!PartSize, Sorting!PartItems, Off, Size, PartItems

LEMMA MostParts ==
  ASSUME NEW m \in Nat
  PROVE  Sorting!Max({m, 1}) = IF m >= 1 THEN m ELSE 1
<1>1. PICK b \in {m, 1} : b = IF m >= 1 THEN m ELSE 1
  OBVIOUS
<1>2. \A y \in {m, 1} : b >= y
  BY <1>1
<1>3. \A x \in {m, 1} : (\A y \in {m, 1} : x >= y) => x = b
  BY <1>1
<1> QED
  BY <1>1, <1>2, <1>3 DEF Sorting!Max

LEMMA SortStart ==
  ASSUME Sorting!Init
  PROVE  SortInv
<1>1. PICK len \in 0 .. MaxSorted :
        /\ items = [j \in 1 .. len |-> j]
        /\ key \in [1 .. len -> Keys]
        /\ parts \in 1 .. Sorting!Max({len, 1})
  BY DEF Sorting!Init
<1>2. turn = 0 /\ output = <<>> /\ live = 0 /\ sortPc = "shuffle"
  BY DEF Sorting!Init
<1>3. len \in Nat
  BY SortConstants
<1>4. Divided(parts, len)
  <2>1. parts \in 1 .. (IF len >= 1 THEN len ELSE 1)
    BY <1>1, <1>3, MostParts
  <2> QED
    BY <1>3, <2>1 DEF Divided
<1>5. key \in [1 .. len -> Int]
  BY <1>1, SortConstants
<1>6. Perm(items, len)
  BY <1>1 DEF Perm
<1>7. items \in [1 .. len -> 1 .. len] /\ turn \in 0 .. len /\ live \in 0 .. parts
  BY <1>1, <1>2, <1>3, <1>4 DEF Divided
<1>8. SortTypes(len)
  BY <1>4, <1>5, <1>7 DEF SortTypes
<1>9. SortPhase(len)
  BY <1>2, <1>6 DEF SortPhase, Untouched
<1> QED
  BY <1>3, <1>8, <1>9 DEF SortInv

LEMMA ShuffleStep ==
  ASSUME NEW m \in Nat, SortTypes(m), SortPhase(m), Sorting!Shuffle
  PROVE  SortTypes(m)' /\ SortPhase(m)'
<1>1. /\ Divided(parts, m) /\ key \in [1 .. m -> Int] /\ turn \in 0 .. m /\ live \in 0 .. parts
      /\ items \in [1 .. m -> 1 .. m]
  BY DEF SortTypes
<1>2. sortPc = "shuffle" /\ UNCHANGED <<key, parts, nodes, live, taken, output>>
  BY DEF Sorting!Shuffle
<1>3. Perm(items, m) /\ live = 0 /\ output = <<>>
  BY <1>2 DEF SortPhase, Untouched
<1>4. CASE turn < m - 1
  <2>1. PICK rnd \in 0 .. RandMax : Sorting!Exchange(Sorting!Picked(rnd))
    BY <1>4, ItemsLength DEF Sorting!Shuffle
  <2>2. turn' = turn + 1 /\ sortPc' = sortPc
    BY <1>4, ItemsLength DEF Sorting!Shuffle
  <2>3. turn \in 0 .. m - 1 /\ turn' \in 0 .. m
    BY <1>1, <1>4, <2>2
  <2>4. PICK c \in 0 .. m - 1 : c = Sorting!Picked(rnd)
    <3>1. turn + rnd \div (RandMax \div (m - turn) + 1) \in turn .. m - 1
      BY <2>3, PickedIn
    <3>2. Sorting!Picked(rnd) \in turn .. m - 1
      BY <3>1, ItemsLength DEF Sorting!Picked
    <3> QED
      BY <2>3, <3>2
  <2>5. Exchanged(items, items', turn, c)
    BY <2>1, <2>4 DEF Sorting!Exchange, Exchanged
  <2>6. Perm(items', m)
    BY <1>3, <2>3, <2>5, ExchangeKeeps
  <2>7. items' \in [1 .. m -> 1 .. m]
    BY <2>6 DEF Perm
  <2>8. SortTypes(m)'
    BY <1>1, <1>2, <2>3, <2>7 DEF SortTypes
  <2>9. SortPhase(m)'
    BY <1>2, <1>3, <2>2, <2>6 DEF SortPhase, Untouched
  <2> QED
    BY <2>8, <2>9
<1>5. CASE ~ (turn < m - 1)
  <2>1. sortPc' = "sort" /\ items' = items /\ turn' = turn
    BY <1>5, ItemsLength DEF Sorting!Shuffle
  <2> QED
    BY <1>1, <1>2, <1>3, <2>1 DEF SortTypes, SortPhase, Untouched
<1> QED
  BY <1>4, <1>5

LEMMA SortPartsStep ==
  ASSUME NEW m \in Nat, SortTypes(m), SortPhase(m), Sorting!SortParts
  PROVE  SortTypes(m)' /\ SortPhase(m)'
<1>1. /\ Divided(parts, m) /\ key \in [1 .. m -> Int] /\ turn \in 0 .. m /\ live \in 0 .. parts
      /\ items \in [1 .. m -> 1 .. m]
  BY DEF SortTypes
<1>2. sortPc = "sort" /\ UNCHANGED <<key, parts, turn, nodes, live, taken, output>>
  BY DEF Sorting!SortParts
<1>3. Perm(items, m) /\ live = 0 /\ output = <<>>
  BY <1>2 DEF SortPhase, Untouched
<1>4. PICK sorted \in [1 .. m -> 1 .. m] :
        /\ \A k \in 0 .. parts - 1 :
             /\ {sorted[x + 1] : x \in PartItems(parts, m, k)} = {items[x + 1] : x \in PartItems(parts, m, k)}
             /\ \A x, y \in PartItems(parts, m, k) : x < y =>
                  sorted[x + 1] # sorted[y + 1] /\ key[sorted[x + 1]] <= key[sorted[y + 1]]
        /\ items' = sorted
  <2>1. Sorting!n = m /\ \A k : Sorting!PartItems(k) = PartItems(parts, m, k)
    BY ItemsLength
  <2> QED
    BY <2>1 DEF Sorting!SortParts
<1>5. PartsKept(items, sorted, parts, m) /\ PartsSorted(sorted, key, parts, m)
  BY <1>4, Zenon DEF PartsKept, PartsSorted
<1>6. Perm(sorted, m)
  BY <1>1, <1>3, <1>5, PartsKeep
<1>7. sortPc' = IF m <= 1 \/ parts = 1 THEN "done" ELSE "build"
  BY ItemsLength DEF Sorting!SortParts
<1>8. SortTypes(m)'
  BY <1>1, <1>2, <1>4 DEF SortTypes
<1>9. CASE m <= 1 \/ parts = 1
  <2>1. \A x \in 1 .. m - 1 : key[sorted[x]] <= key[sorted[x + 1]]
    <3>1. CASE m <= 1
      BY <3>1
    <3>2. ASSUME parts = 1, NEW x \in 1 .. m - 1
          PROVE  key[sorted[x]] <= key[sorted[x + 1]]
      <4>1. x - 1 \in 0 .. m - 1 /\ x \in 0 .. m - 1 /\ x - 1 < x /\ (x - 1) + 1 = x
        OBVIOUS
      <4>2. \A k \in 0 .. parts - 1 : k = 0
        BY <3>2
      <4>3. x - 1 \in PartItems(parts, m, 0) /\ x \in PartItems(parts, m, 0)
        BY <1>1, <4>1, <4>2, PartItemsAre
      <4>4. 0 \in 0 .. parts - 1
        BY <3>2
      <4> QED
        BY <1>5, <4>1, <4>3, <4>4 DEF PartsSorted
    <3> QED
      BY <1>9, <3>1, <3>2
  <2>2. \A v \in 1 .. m : \E x \in 1 .. m : sorted[x] = v
    BY <1>6 DEF Perm
  <2>3. Len(output) \in 0 .. m
    BY <1>3
  <2>4. Ended(m)'
    BY <1>2, <1>3, <1>4, <2>1, <2>2, <2>3 DEF Ended
  <2> QED
    BY <1>7, <1>8, <1>9, <2>4 DEF SortPhase
<1>10. CASE ~ (m <= 1 \/ parts = 1)
  <2>1. Untouched(m)' /\ PartsSorted(items, key, parts, m)' /\ m > 1
    BY <1>2, <1>3, <1>4, <1>5, <1>6, <1>10 DEF Untouched
  <2>2. sortPc' = "build"
    BY <1>7, <1>10
  <2> QED
    BY <1>8, <2>1, <2>2 DEF SortPhase
<1> QED
  BY <1>9, <1>10

LEMMA BuildStep ==
  ASSUME NEW m \in Nat, SortTypes(m), SortPhase(m), Sorting!BuildHeap
  PROVE  SortTypes(m)' /\ SortPhase(m)'
<1>1. /\ Divided(parts, m) /\ key \in [1 .. m -> Int] /\ turn \in 0 .. m /\ live \in 0 .. parts
      /\ items \in [1 .. m -> 1 .. m]
  BY DEF SortTypes
<1>2. sortPc = "build" /\ UNCHANGED <<key, parts, items, output>>
  BY DEF Sorting!BuildHeap
<1>3. Perm(items, m) /\ output = <<>> /\ m > 1 /\ PartsSorted(items, key, parts, m)
  BY <1>2 DEF SortPhase, Untouched
<1>4. PICK h : h = nodes'
  OBVIOUS
<1>5. PICK t : t = taken'
  OBVIOUS
<1>6. /\ h = FirstNodes(parts, m) /\ t = NoneTaken(parts)
      /\ live' = parts /\ turn' = parts \div 2 /\ sortPc' = "heapify"
  <2>1. \A k : Sorting!Offset(k) = Off(parts, m, k)
    BY ItemsLength
  <2> QED
    BY <1>4, <1>5, <2>1 DEF Sorting!BuildHeap, FirstNodes, NoneTaken
<1>7. h \in [1 .. parts -> NodesOf(parts, m)] /\ Heads(h, parts, t, parts, m)
  <2>1. m > 0
    BY <1>3
  <2>2. /\ FirstNodes(parts, m) \in [1 .. parts -> NodesOf(parts, m)]
        /\ Heads(FirstNodes(parts, m), parts, NoneTaken(parts), parts, m)
    BY <1>1, <2>1, FirstHeads
  <2> QED
    BY <1>6, <2>2, Zenon
<1>8. Merged(<<>>, t, parts, m)
  BY <1>1, <1>6, MergedAtFirst, Zenon
<1>9. parts \in Nat \ {0} /\ parts <= m
  BY <1>1, <1>3 DEF Divided
<1>10. PICK b \in 0 .. parts : b = parts \div 2 /\ parts < 2 * b + 2 /\ b \in 0 .. m
  BY <1>9
<1>11. \A k : Ordered(k, parts, b)
  <2>1. ASSUME NEW x \in b .. parts - 1, NEW y \in 0 .. parts - 1, IsChild(x, y)
        PROVE  FALSE
    BY <1>9, <1>10, <2>1 DEF IsChild
  <2> QED
    BY <2>1 DEF Ordered
<1>12. Sortable(h, parts, parts, m)
  <2>1. parts \in Nat /\ parts \in 0 .. parts
    BY <1>9
  <2> QED
    BY <1>1, <1>7, <2>1, Zenon DEF Sortable
<1>13. /\ Perm(items, m)' /\ PartsSorted(items, key, parts, m)'
       /\ Sortable(nodes, live, parts, m)' /\ Heads(nodes, live, taken, parts, m)'
       /\ Merged(output, taken, parts, m)'
  <2>1. Sortable(nodes, live, parts, m)'
    BY <1>2, <1>4, <1>6, <1>12 DEF Sortable
  <2>2. Heads(nodes, live, taken, parts, m)'
    BY <1>2, <1>4, <1>5, <1>6, <1>7
  <2>3. Merged(output, taken, parts, m)'
    BY <1>2, <1>3, <1>5, <1>8 DEF Merged
  <2> QED
    BY <1>2, <1>3, <2>1, <2>2, <2>3
<1>14. Ordered(KeysOf(items, key, nodes, live), live, turn)'
  BY <1>2, <1>6, <1>10, <1>11
<1>15. Merging(m, turn)'
  BY <1>3, <1>13, <1>14 DEF Merging
<1>16. live' = parts' /\ turn' <= parts' /\ output' = <<>> /\ turn' \in 0 .. m /\ live' \in 0 .. parts'
  BY <1>2, <1>3, <1>6, <1>9, <1>10
<1> QED
  BY <1>1, <1>2, <1>6, <1>15, <1>16 DEF SortTypes, SortPhase

LEMMA HeapifyStep ==
  ASSUME NEW m \in Nat, SortTypes(m), SortPhase(m), Sorting!HeapifyNode
  PROVE  SortTypes(m)' /\ SortPhase(m)'
<1>1. /\ Divided(parts, m) /\ key \in [1 .. m -> Int] /\ turn \in 0 .. m /\ live \in 0 .. parts
      /\ items \in [1 .. m -> 1 .. m]
  BY DEF SortTypes
<1>2. sortPc = "heapify" /\ UNCHANGED <<key, parts, items, live, taken, output>>
  BY DEF Sorting!HeapifyNode
<1>3. Merging(m, turn) /\ live = parts /\ turn <= parts /\ output = <<>>
  BY <1>2 DEF SortPhase
<1>4. /\ Perm(items, m) /\ m > 1 /\ PartsSorted(items, key, parts, m)
      /\ Sortable(nodes, live, parts, m) /\ Heads(nodes, live, taken, parts, m)
      /\ Ordered(KeysOf(items, key, nodes, live), live, turn)
      /\ Merged(output, taken, parts, m)
  BY <1>3, Zenon DEF Merging
<1>5. CASE turn > 0
  <2>1. nodes' = Sorting!Heapified(nodes, live, turn - 1) /\ turn' = turn - 1 /\ sortPc' = "heapify"
    BY <1>2, <1>3, <1>5 DEF Sorting!HeapifyNode
  <2>2. PICK a \in 0 .. live - 1 : a = turn - 1 /\ a + 1 = turn /\ a \in 0 .. m /\ a <= parts
    BY <1>1, <1>3, <1>5 DEF Divided
  <2>3. HeapMade(nodes, nodes', live, parts, m, a)
    BY <1>4, <2>1, <2>2, HeapifiedIs
  <2>4. /\ Sortable(nodes', live, parts, m) /\ SameNodes(nodes, nodes', live)
        /\ Ordered(KeysOf(items, key, nodes', live), live, a)
    BY <2>3, Zenon DEF HeapMade
  <2>5. Heads(nodes', live, taken, parts, m)
    BY <1>4, <2>4, HeadsStay
  <2>6. Merged(output, taken, parts, m)' /\ Sortable(nodes, live, parts, m)'
    BY <1>2, <1>4, <2>4 DEF Merged, Sortable
  <2>7. Merging(m, turn)'
    BY <1>2, <1>4, <2>1, <2>2, <2>4, <2>5, <2>6 DEF Merging
  <2> QED
    BY <1>1, <1>2, <1>3, <2>1, <2>2, <2>7 DEF SortTypes, SortPhase
<1>6. CASE ~ (turn > 0)
  <2>1. sortPc' = "merge" /\ nodes' = nodes /\ turn' = turn
    BY <1>6 DEF Sorting!HeapifyNode
  <2>2. turn = 0
    BY <1>1, <1>6
  <2>3. Merged(output, taken, parts, m)' /\ Sortable(nodes, live, parts, m)'
    BY <1>2, <1>4, <2>1 DEF Merged, Sortable
  <2>4. Merging(m, 0)'
    BY <1>2, <1>4, <2>1, <2>2, <2>3 DEF Merging
  <2>5. turn' = Len(output')
    BY <1>2, <1>3, <2>1, <2>2
  <2> QED
    BY <1>1, <1>2, <2>1, <2>4, <2>5 DEF SortTypes, SortPhase
<1> QED
  BY <1>5, <1>6

LEMMA FinishStep ==
  ASSUME NEW m \in Nat, SortTypes(m), SortPhase(m), Sorting!Finish
  PROVE  SortTypes(m)' /\ SortPhase(m)'
<1>1. /\ Divided(parts, m) /\ key \in [1 .. m -> Int] /\ turn \in 0 .. m /\ live \in 0 .. parts
      /\ items \in [1 .. m -> 1 .. m]
  BY DEF SortTypes
<1>2. sortPc = "merge" /\ sortPc' = "done" /\ items' = output
      /\ UNCHANGED <<key, parts, turn, nodes, live, taken, output>>
  BY DEF Sorting!Finish
<1>3. turn >= m
  BY ItemsLength DEF Sorting!Finish
<1>4. Merging(m, 0) /\ turn = Len(output)
  BY <1>2 DEF SortPhase
<1>5. /\ Perm(items, m) /\ Sortable(nodes, live, parts, m) /\ Heads(nodes, live, taken, parts, m)
      /\ Merged(output, taken, parts, m)
  BY <1>4, Zenon DEF Merging
<1>6. Len(output) = m
  BY <1>1, <1>3, <1>4
<1>7. Gone(taken, parts, m) = 0 .. m - 1 /\ Outs(output) = 1 .. m
  BY <1>5, <1>6, AllOut
<1>8. live = 0
  BY <1>1, <1>5, <1>7, HeadsLeft
<1>9. output \in [1 .. m -> 1 .. m]
  <2>1. output \in Seq(1 .. m)
    BY <1>5, Zenon DEF Merged
  <2> QED
    BY <1>6, <2>1
<1>10. \A v \in 1 .. m : \E x \in 1 .. m : output[x] = v
  BY <1>6, <1>7 DEF Outs
<1>11. \A x \in 1 .. m - 1 : key[output[x]] <= key[output[x + 1]]
  BY <1>5, <1>6 DEF Merged
<1>12. Ended(m)'
  BY <1>2, <1>6, <1>8, <1>10, <1>11 DEF Ended
<1> QED
  BY <1>1, <1>2, <1>9, <1>12 DEF SortTypes, SortPhase

LEMMA MergeStep ==
  ASSUME NEW m \in Nat, SortTypes(m), SortPhase(m), Sorting!Merge
  PROVE  SortTypes(m)' /\ SortPhase(m)'
<1>1. /\ Divided(parts, m) /\ key \in [1 .. m -> Int] /\ turn \in 0 .. m /\ live \in 0 .. parts
      /\ items \in [1 .. m -> 1 .. m]
  BY DEF SortTypes
<1>2. sortPc = "merge" /\ turn' = turn + 1 /\ UNCHANGED <<key, parts, items, sortPc>>
  BY DEF Sorting!Merge
<1>3. turn < m
  BY ItemsLength DEF Sorting!Merge
<1>4. Merging(m, 0) /\ turn = Len(output)
  BY <1>2 DEF SortPhase
<1>5. /\ Perm(items, m) /\ m > 1 /\ PartsSorted(items, key, parts, m)
      /\ Sortable(nodes, live, parts, m) /\ Heads(nodes, live, taken, parts, m)
      /\ Ordered(KeysOf(items, key, nodes, live), live, 0)
      /\ Merged(output, taken, parts, m)
  BY <1>4, Zenon DEF Merging
<1>6. parts \in Nat \ {0} /\ parts \in Nat /\ live \in Nat /\ live > 0
  <2>1. parts \in Nat \ {0}
    BY <1>1 DEF Divided
  <2>2. Gone(taken, parts, m) # 0 .. m - 1
    <3>1. Len(output) # m
      BY <1>1, <1>3, <1>4
    <3> QED
      BY <1>5, <3>1, AllOut
  <2>3. live # 0
    BY <1>1, <1>5, <2>2, HeadsLeft
  <2> QED
    BY <1>1, <2>1, <2>3
<1>7. PICK k \in 0 .. parts - 1 : k = nodes[1].p_index
  <2>1. 1 \in 1 .. live
    BY <1>6
  <2> QED
    BY <1>5, <2>1, NodeTypes
<1>8. taken \in [1 .. parts -> Nat] /\ k + 1 \in 1 .. parts
  BY <1>5, <1>6 DEF Heads
<1>9. HeadOf(nodes[1], taken, parts, m) /\ InTheirParts(taken, parts, m)
  <2>1. 1 \in 1 .. live
    BY <1>6
  <2> QED
    BY <1>5, <2>1, Zenon DEF Heads, InTheirParts
<1>10. PICK w : w = nodes[1].value
  OBVIOUS
<1>11. IsNext(w, taken, parts, m, k)
  BY <1>7, <1>9, <1>10 DEF HeadOf, IsNext
<1>12. PICK t2 : t2 = Taken(taken, k)
  OBVIOUS
<1>13. /\ w \in 0 .. m - 1 /\ w \notin Gone(taken, parts, m)
       /\ Gone(t2, parts, m) = Gone(taken, parts, m) \cup {w}
  <2>1. OneMoreGone(w, taken, parts, m, k)
    BY <1>1, <1>9, <1>11, GoneMore, Zenon
  <2> QED
    BY <1>12, <2>1, Zenon DEF OneMoreGone
<1>14. Merged(output \o <<items[w + 1]>>, t2, parts, m)
  <2>1. \A x \in (0 .. m - 1) \ Gone(taken, parts, m) : key[items[w + 1]] <= key[items[x + 1]]
    <3> TAKE x \in (0 .. m - 1) \ Gone(taken, parts, m)
    <3>1. key[items[nodes[1].value + 1]] <= key[items[x + 1]]
      BY <1>1, <1>5, <1>6, TopIsNext
    <3> QED
      BY <1>10, <3>1
  <2>2. w \in (0 .. m - 1) \ Gone(taken, parts, m)
    BY <1>13
  <2> QED
    BY <1>1, <1>5, <1>13, <2>1, <2>2, MergedMore
<1>15. PICK next : next = Sorting!Advanced(k, taken[k + 1] + 1)
  OBVIOUS
<1>16. /\ output' = output \o <<items[w + 1]>>
       /\ taken' = t2 /\ live' = next.len
       /\ nodes' = IF next.len > 0 THEN Sorting!Heapified(next.h, next.len, 0) ELSE next.h
  BY <1>7, <1>10, <1>12, <1>15 DEF Sorting!Merge, Taken
<1>17. /\ next.len \in Nat
       /\ Sortable(next.h, next.len, parts, m) /\ Heads(next.h, next.len, t2, parts, m)
       /\ Ordered(KeysOf(items, key, next.h, next.len), next.len, 1)
  <2>1. Sorting!Offset(k) = Off(parts, m, k) /\ Sorting!PartSize(k) = Size(parts, m, k)
    BY ItemsLength
  <2>2. CASE taken[k + 1] + 1 < Size(parts, m, k)
    <3>1. PICK g : g = [nodes EXCEPT ![1].value = Off(parts, m, k) + (taken[k + 1] + 1)]
      OBVIOUS
    <3>2. next = [h |-> g, len |-> live]
      BY <1>15, <2>1, <2>2, <3>1 DEF Sorting!Advanced
    <3>3. /\ Sortable(g, live, parts, m) /\ Heads(g, live, Taken(taken, k), parts, m)
          /\ Ordered(KeysOf(items, key, g, live), live, 1)
      BY <1>1, <1>5, <1>6, <1>7, <2>2, <3>1, NextOfPart
    <3>4. next.h = g /\ next.len = live
      BY <3>2
    <3> QED
      BY <1>6, <1>12, <3>3, <3>4, Zenon
  <2>3. CASE ~ (taken[k + 1] + 1 < Size(parts, m, k))
    <3>1. PICK g : g = IF live > 1 THEN [nodes EXCEPT ![1] = nodes[live]] ELSE nodes
      OBVIOUS
    <3>2. next = [h |-> g, len |-> live - 1]
      BY <1>15, <2>1, <2>3, <3>1 DEF Sorting!Advanced
    <3>3. /\ Sortable(g, live - 1, parts, m) /\ Heads(g, live - 1, Taken(taken, k), parts, m)
          /\ Ordered(KeysOf(items, key, g, live - 1), live - 1, 1)
      BY <1>1, <1>5, <1>6, <1>7, <2>3, <3>1, PartUsedUp
    <3>4. next.h = g /\ next.len = live - 1 /\ live - 1 \in Nat
      BY <1>6, <3>2
    <3> QED
      BY <1>12, <3>3, <3>4, Zenon
  <2> QED
    BY <2>2, <2>3
<1>18. /\ Sortable(nodes', live', parts, m) /\ Heads(nodes', live', t2, parts, m)
       /\ Ordered(KeysOf(items, key, nodes', live'), live', 0)
  <2>1. CASE next.len > 0
    <3>1. 0 \in 0 .. next.len - 1 /\ 0 + 1 = 1
      BY <1>17, <2>1
    <3>2. Ordered(KeysOf(items, key, next.h, next.len), next.len, 0 + 1)
      BY <1>17, <3>1, Zenon
    <3>3. HeapMade(next.h, nodes', next.len, parts, m, 0)
      <4>1. nodes' = Sorting!Heapified(next.h, next.len, 0)
        BY <1>16, <2>1
      <4>2. HeapMade(next.h, Sorting!Heapified(next.h, next.len, 0), next.len, parts, m, 0)
        BY <1>17, <3>1, <3>2, HeapifiedIs, Zenon
      <4> QED
        BY <4>1, <4>2, Zenon
    <3>4. /\ Sortable(nodes', next.len, parts, m) /\ SameNodes(next.h, nodes', next.len)
          /\ Ordered(KeysOf(items, key, nodes', next.len), next.len, 0)
      BY <3>3, Zenon DEF HeapMade
    <3>5. Heads(nodes', next.len, t2, parts, m)
      BY <1>17, <3>4, HeadsStay, Zenon
    <3> QED
      BY <1>16, <3>4, <3>5, Zenon
  <2>2. CASE ~ (next.len > 0)
    <3>1. next.len = 0 /\ nodes' = next.h /\ live' = 0
      BY <1>16, <1>17, <2>2
    <3>2. \A f : Ordered(f, 0, 0)
      BY DEF Ordered
    <3> QED
      BY <1>17, <3>1, <3>2
  <2> QED
    BY <2>1, <2>2
<1>19. Merged(output, taken, parts, m)'
  BY <1>2, <1>14, <1>16 DEF Merged
<1>20. Sortable(nodes, live, parts, m)' /\ live' \in 0 .. parts
  BY <1>2, <1>18 DEF Sortable
<1>21. Merging(m, 0)'
  BY <1>2, <1>5, <1>16, <1>18, <1>19, <1>20 DEF Merging
<1>22. turn' = Len(output') /\ turn' \in 0 .. m
  <2>1. output \in Seq(1 .. m)
    BY <1>5, Zenon DEF Merged
  <2>2. Len(output \o <<items[w + 1]>>) = Len(output) + 1
    BY <2>1
  <2>3. Len(output') = Len(output) + 1
    BY <1>16, <2>2, Zenon
  <2> QED
    BY <1>1, <1>2, <1>3, <1>4, <2>3
<1> QED
  BY <1>1, <1>2, <1>20, <1>21, <1>22 DEF SortTypes, SortPhase

LEMMA SortStep ==
  ASSUME SortInv, Sorting!Next
  PROVE  SortInv'
<1>1. PICK m \in Nat : SortTypes(m) /\ SortPhase(m)
  BY DEF SortInv
<1>2. SortTypes(m)' /\ SortPhase(m)'
  BY <1>1, ShuffleStep, SortPartsStep, BuildStep, HeapifyStep, MergeStep, FinishStep DEF Sorting!Next
<1> QED
  BY <1>2 DEF SortInv

LEMMA SortStays ==
  ASSUME SortInv, UNCHANGED sortVars
  PROVE  SortInv'
<1>1. PICK m \in Nat : SortTypes(m) /\ SortPhase(m)
  BY DEF SortInv
<1>2. UNCHANGED <<key, parts, items, turn, nodes, live, taken, output, sortPc>>
  BY DEF sortVars
<1>3. SortTypes(m)'
  BY <1>1, <1>2 DEF SortTypes
<1>4. SortPhase(m)'
  BY <1>1, <1>2 DEF SortPhase, Untouched, Merging, Ended, Sortable, Merged
<1> QED
  BY <1>3, <1>4 DEF SortInv

LEMMA SameCount ==
  ASSUME NEW S
  PROVE  Sorting!Cardinality(S) = Cardinality(S)
BY DEF Sorting!Cardinality, Cardinality

(* What the merge keeps, of its heap and of its output.                     *)
LEMMA MergingIs ==
  ASSUME NEW m \in Nat, SortTypes(m), NEW x0, Merging(m, x0)
  PROVE  /\ \A x \in 1 .. live : nodes[x].value \in PartItems(parts, m, nodes[x].p_index)
         /\ {nodes[x] : x \in 1 .. live} =
              {[value |-> Off(parts, m, k) + taken[k + 1], p_index |-> k] :
                 k \in {q \in 0 .. parts - 1 : Sorting!Rest(q) # {}}}
         /\ Outs(output) \cup UNION {Sorting!Rest(k) : k \in 0 .. parts - 1} = 1 .. m
         /\ Len(output) <= m
<1>1. /\ Perm(items, m) /\ Sortable(nodes, live, parts, m) /\ Heads(nodes, live, taken, parts, m)
      /\ Merged(output, taken, parts, m) /\ Divided(parts, m)
  BY Zenon DEF Merging, SortTypes
<1>2. /\ parts \in Nat \ {0} /\ items \in [1 .. m -> 1 .. m] /\ taken \in [1 .. parts -> Nat]
      /\ \A x \in 0 .. m - 1 : x + 1 \in 1 .. m
  <2>1. parts \in Nat \ {0}
    BY <1>1 DEF Divided
  <2>2. items \in [1 .. m -> 1 .. m] /\ taken \in [1 .. parts -> Nat]
    BY <1>1, Zenon DEF Perm, Heads
  <2> QED
    BY <2>1, <2>2
<1>3. \A k : Sorting!Rest(k) =
        {items[x + 1] : x \in Off(parts, m, k) + taken[k + 1] .. Off(parts, m, k) + Size(parts, m, k) - 1}
  BY ItemsLength DEF Sorting!Rest
<1>4. ASSUME NEW k \in 0 .. parts - 1
      PROVE  /\ taken[k + 1] \in Nat /\ Off(parts, m, k) \in Nat /\ Size(parts, m, k) \in Nat
             /\ taken[k + 1] <= Size(parts, m, k) /\ Off(parts, m, k) + Size(parts, m, k) <= m
  <2>1. k + 1 \in 1 .. parts
    BY <1>2
  <2> QED
    BY <1>1, <1>2, <2>1, PartsAre DEF Heads
<1>5. ASSUME NEW k \in 0 .. parts - 1
      PROVE  Sorting!Rest(k) # {} <=> taken[k + 1] < Size(parts, m, k)
  <2>1. PICK o \in Nat, c \in Nat, s \in Nat :
          o = Off(parts, m, k) /\ c = taken[k + 1] /\ s = Size(parts, m, k)
    BY <1>4
  <2>2. Sorting!Rest(k) = {items[x + 1] : x \in o + c .. o + s - 1}
    BY <1>3, <2>1
  <2>3. c < s => o + c \in o + c .. o + s - 1
    OBVIOUS
  <2>4. ~ (c < s) => o + c .. o + s - 1 = {}
    OBVIOUS
  <2> QED
    BY <2>1, <2>2, <2>3, <2>4
<1>6. ASSUME NEW x \in 1 .. live
      PROVE  /\ nodes[x].p_index \in 0 .. parts - 1
             /\ nodes[x] = [value |-> Off(parts, m, nodes[x].p_index) + taken[nodes[x].p_index + 1],
                            p_index |-> nodes[x].p_index]
             /\ taken[nodes[x].p_index + 1] < Size(parts, m, nodes[x].p_index)
             /\ nodes[x].value \in PartItems(parts, m, nodes[x].p_index)
  <2>1. nodes[x] \in NodesOf(parts, m) /\ nodes[x].p_index \in 0 .. parts - 1
    BY <1>1, NodeTypes
  <2>2. PICK k \in 0 .. parts - 1 : k = nodes[x].p_index
    BY <2>1
  <2>3. nodes[x].value = Off(parts, m, k) + taken[k + 1] /\ taken[k + 1] < Size(parts, m, k)
    BY <1>1, <2>2 DEF Heads, HeadOf
  <2>4. nodes[x] = [value |-> Off(parts, m, k) + taken[k + 1], p_index |-> k]
    BY <2>1, <2>2, <2>3 DEF NodesOf
  <2>5. Off(parts, m, k) + taken[k + 1] \in PartItems(parts, m, k)
    BY <1>1, <1>4, <2>3, PartBounds
  <2> QED
    BY <2>1, <2>2, <2>3, <2>4, <2>5
<1>7. {nodes[x] : x \in 1 .. live} =
        {[value |-> Off(parts, m, k) + taken[k + 1], p_index |-> k] :
           k \in {q \in 0 .. parts - 1 : Sorting!Rest(q) # {}}}
  <2> DEFINE head(k) == [value |-> Off(parts, m, k) + taken[k + 1], p_index |-> k]
             left == {q \in 0 .. parts - 1 : Sorting!Rest(q) # {}}
  <2> HIDE DEF head, left
  <2>1. ASSUME NEW x \in 1 .. live
        PROVE  \E k \in left :
                 nodes[x] = head(k)
    <3>1. PICK k \in 0 .. parts - 1 : k = nodes[x].p_index
      BY <1>6
    <3>2. taken[k + 1] < Size(parts, m, k) /\ nodes[x] = head(k)
      BY <1>6, <3>1 DEF head
    <3>3. k \in left
      BY <1>5, <3>2 DEF left
    <3> QED
      BY <3>2, <3>3
  <2>2. ASSUME NEW k \in left
        PROVE  \E x \in 1 .. live :
                 nodes[x] = head(k)
    <3>1. k \in 0 .. parts - 1 /\ taken[k + 1] < Size(parts, m, k)
      BY <1>5 DEF left
    <3>2. PICK x \in 1 .. live : nodes[x].p_index = k
      BY <1>1, <3>1 DEF Heads
    <3> QED
      BY <1>6, <3>2 DEF head
  <2>3. {nodes[x] : x \in 1 .. live} = {head(k) : k \in left}
    BY <2>1, <2>2
  <2> QED
    BY <2>3 DEF head, left
<1>8. Outs(output) = {items[x + 1] : x \in Gone(taken, parts, m)}
  BY <1>1, Zenon DEF Merged
<1>9. ASSUME NEW v \in 1 .. m
      PROVE  v \in Outs(output) \/ \E k \in 0 .. parts - 1 : v \in Sorting!Rest(k)
  <2>1. PICK z \in 1 .. m : items[z] = v
    BY <1>1 DEF Perm
  <2>2. PICK x \in 0 .. m - 1 : items[x + 1] = v
    <3>1. z - 1 \in 0 .. m - 1 /\ (z - 1) + 1 = z
      OBVIOUS
    <3> QED
      BY <2>1, <3>1
  <2>3. PICK k \in 0 .. parts - 1 : Off(parts, m, k) <= x /\ x < Off(parts, m, k) + Size(parts, m, k)
    BY <1>1, InAPart
  <2>4. CASE x < Off(parts, m, k) + taken[k + 1]
    BY <1>8, <2>2, <2>3, <2>4 DEF Gone
  <2>5. CASE ~ (x < Off(parts, m, k) + taken[k + 1])
    <3>1. x \in Off(parts, m, k) + taken[k + 1] .. Off(parts, m, k) + Size(parts, m, k) - 1
      BY <1>4, <2>3, <2>5
    <3> QED
      BY <1>3, <2>2, <3>1
  <2> QED
    BY <2>4, <2>5
<1>10. ASSUME NEW k \in 0 .. parts - 1, NEW v \in Sorting!Rest(k)
       PROVE  v \in 1 .. m
  <2>1. PICK x \in Off(parts, m, k) + taken[k + 1] .. Off(parts, m, k) + Size(parts, m, k) - 1 :
          v = items[x + 1]
    BY <1>3
  <2>2. x \in 0 .. m - 1
    BY <1>4
  <2> QED
    BY <1>2, <2>1, <2>2
<1>11. Outs(output) \in SUBSET (1 .. m) /\ Len(output) <= m
  <2>1. output \in Seq(1 .. m) /\ Len(output) \in 0 .. m
    BY <1>1, AllOut DEF Merged
  <2> QED
    BY <2>1, OutsFinite
<1>12. Outs(output) \cup UNION {Sorting!Rest(k) : k \in 0 .. parts - 1} = 1 .. m
  BY <1>9, <1>10, <1>11
<1> QED
  BY <1>6, <1>7, <1>11, <1>12

LEMMA SortIsRight ==
  ASSUME SortInv
  PROVE  SortIsExact
<1>1. PICK m \in Nat : SortTypes(m) /\ SortPhase(m)
  BY DEF SortInv
<1>2. /\ Divided(parts, m) /\ items \in [1 .. m -> 1 .. m] /\ turn \in 0 .. m /\ live \in 0 .. parts
  BY <1>1 DEF SortTypes
<1>3. /\ Sorting!n = m
      /\ \A k : Sorting!Offset(k) = Off(parts, m, k) /\ Sorting!PartItems(k) = PartItems(parts, m, k)
  BY <1>1, ItemsLength
<1>4. parts \in 1 .. Sorting!Max({m, 1})
  <2>1. parts \in 1 .. (IF m >= 1 THEN m ELSE 1)
    BY <1>2 DEF Divided
  <2> QED
    BY <2>1, MostParts
<1>5. \A v \in 1 .. m : \E x \in 1 .. m : items[x] = v
  BY <1>1 DEF SortPhase, Untouched, Merging, Ended, Perm
<1>6. {items[x] : x \in 1 .. m} = 1 .. m
  BY <1>2, <1>5
<1>7. sortPc \in {"heapify", "merge"} => \E x0 : Merging(m, x0)
  BY <1>1 DEF SortPhase
<1>8. sortPc \notin {"heapify", "merge"} => live = 0 /\ Len(output) <= m
  BY <1>1 DEF SortPhase, Untouched, Ended
<1>9. Len(output) <= m /\ \A x \in 1 .. live : nodes[x].value \in PartItems(parts, m, nodes[x].p_index)
  <2>1. CASE sortPc \in {"heapify", "merge"}
    BY <1>1, <1>7, <2>1, MergingIs
  <2>2. CASE sortPc \notin {"heapify", "merge"}
    BY <1>8, <2>2
  <2> QED
    BY <2>1, <2>2
<1>10. Sorting!TypeOK
  BY <1>2, <1>3, <1>4, <1>9 DEF Sorting!TypeOK
<1>11. Sorting!ItemsAreKept
  <2>1. ASSUME sortPc = "merge"
        PROVE  /\ Sorting!Cardinality(Outs(output)) = Len(output)
               /\ Outs(output) \cup UNION {Sorting!Rest(k) : k \in 0 .. parts - 1} = 1 .. m
    <3>1. Merging(m, 0)
      BY <1>1, <2>1 DEF SortPhase
    <3>2. Cardinality(Outs(output)) = Len(output)
      BY <3>1 DEF Merging, Merged
    <3> QED
      BY <1>1, <3>1, <3>2, MergingIs, SameCount
  <2> QED
    BY <1>3, <1>6, <2>1 DEF Sorting!ItemsAreKept, Outs
<1>12. Sorting!HeapHasHeads
  <2>0. sortPc = "done" => live = 0
    BY <1>1 DEF SortPhase, Ended
  <2>1. SUFFICES ASSUME sortPc = "merge" PROVE Sorting!HeapHasHeads
    BY <2>0 DEF Sorting!HeapHasHeads
  <2>2. Merging(m, 0)
    BY <1>1, <2>1 DEF SortPhase
  <2>3. {nodes[x] : x \in 1 .. live} =
          {[value |-> Off(parts, m, k) + taken[k + 1], p_index |-> k] :
             k \in {q \in 0 .. parts - 1 : Sorting!Rest(q) # {}}}
    BY <1>1, <2>2, MergingIs
  <2>4. ASSUME NEW x \in 1 .. live - 1
        PROVE  Sorting!KeyAt(nodes, (x - 1) \div 2) <= Sorting!KeyAt(nodes, x)
    <3>1. Ordered(KeysOf(items, key, nodes, live), live, 0)
      BY <2>2 DEF Merging
    <3>2. live \in Nat
      BY <1>2 DEF Divided
    <3>3. PICK y \in Nat : y = (x - 1) \div 2 /\ (x = 2 * y + 1 \/ x = 2 * y + 2)
      <4>1. x \in Nat \ {0}
        BY <3>2
      <4>2. (x - 1) \div 2 \in Nat /\ (x = 2 * ((x - 1) \div 2) + 1 \/ x = 2 * ((x - 1) \div 2) + 2)
        BY <4>1
      <4> QED
        BY <4>2
    <3>4. x \in 0 .. live - 1 /\ y \in 0 .. live - 1 /\ IsChild(y, x)
      BY <3>2, <3>3 DEF IsChild
    <3>5. KeysOf(items, key, nodes, live)[y] <= KeysOf(items, key, nodes, live)[x]
      BY <3>1, <3>4 DEF Ordered
    <3> QED
      BY <3>3, <3>4, <3>5 DEF KeysOf, Sorting!KeyAt
  <2> QED
    BY <1>3, <2>1, <2>3, <2>4 DEF Sorting!HeapHasHeads
<1>13. Sorting!ArrayIsSorted
  <2>1. sortPc = "done" => Ended(m)
    BY <1>1 DEF SortPhase
  <2> QED
    BY <1>3, <2>1 DEF Sorting!ArrayIsSorted, Ended
<1> QED
  BY <1>10, <1>11, <1>12, <1>13 DEF SortIsExact

LEMMA SortsInBlocks ==
  /\ BlocksInit => SortInv
  /\ SortInv /\ [BlocksNext]_blocksVars => SortInv'
<1>1. BlocksInit => SortInv
  BY SortStart DEF BlocksInit
<1>2. ASSUME SortInv, [BlocksNext]_blocksVars
      PROVE  SortInv'
  <2>1. CASE Sorting!Next
    BY <1>2, <2>1, SortStep
  <2>2. CASE UNCHANGED sortVars
    BY <1>2, <2>2, SortStays
  <2> QED
    BY <1>2, <2>1, <2>2 DEF BlocksNext, blocksVars
<1> QED
  BY <1>1, <1>2

(* The parallel sort loses no item and ends in order, for arrays of any     *)
(* length, any number of parts and any numbers of rand_int: every index     *)
(* stays inside of the array, the heap has the head of each part that is    *)
(* left, and it is empty when the loop of sort_merge_subsorted ends, as the *)
(* assertion there says.                                                    *)
THEOREM SortAlwaysExact == BlocksSpec => []SortIsExact
<1>1. SortInv => SortIsExact
  BY SortIsRight
<1> QED
  BY <1>1, SortsInBlocks, PTL DEF BlocksSpec

=============================================================================
