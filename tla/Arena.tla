------------------------------- MODULE Arena --------------------------------
(***************************************************************************)
(* The arenas of cbase/arena.c.  An arena is a chain of regions of one     *)
(* size; an object is pushed at the position of the first region that has  *)
(* space for it, and a region starts anew when as many objects were popped *)
(* as were pushed.  An address is an arena, a region and an offset.        *)
(*                                                                         *)
(* Handles are the pointers its callers hold, like objs[] of the tests.    *)
(* They pop an object once, and forget those of an arena they reset or     *)
(* destroy.                                                                *)
(***************************************************************************)
EXTENDS Integers, Sequences, FiniteSets

CONSTANTS
  Narenas,      (* the arenas of arenas_push and arenas_pop: 1 .. Narenas  *)
  DataSize,     (* arena_data_size of each                                 *)
  Alignment,    (* ALIGNMENT                                               *)
  Handles, None,
  Sizes,        (* sizes that are pushed                                   *)
  IndexSizes,   (* sizes that are pushed for an index of 32 bits           *)
  MaxRegions    (* bound: regions of a chain                               *)

Arenas == 1 .. Narenas

Objects == [arena : Arenas, region : Nat \ {0}, from : Nat, size : Nat,
            kind : {"pointer", "index"}]

ASSUME ConstantsAssumption ==
  /\ Narenas \in Nat
  /\ DataSize \in [Arenas -> Nat \ {0}]
  /\ Alignment \in Nat \ {0}
  /\ Sizes \subseteq Nat /\ IndexSizes \subseteq Nat
  /\ MaxRegions \in Nat \ {0}
  /\ IsFiniteSet(Handles)
  /\ None \notin Objects

VARIABLES
  chain,        (* the regions of each arena; none: it does not exist      *)
  objs          (* what each handle points to                              *)

vars == <<chain, objs>>

Empty   == [pos |-> 0, npushed |-> 0]
Regions == [pos : Nat, npushed : Int]

TypeOK ==
  /\ chain \in [Arenas -> Seq(Regions)]
  /\ objs \in [Handles -> Objects \cup {None}]

Init ==
  /\ chain = [a \in Arenas |-> <<>>]
  /\ objs = [h \in Handles |-> None]

(* Mutant: sizes are used as they come. *)
Align_None(size) == size

Align(size) == ((size + Alignment - 1) \div Alignment) * Alignment
-----------------------------------------------------------------------------
(* arena_create *)
Create(a) ==
  /\ chain[a] = <<>>
  /\ chain' = [chain EXCEPT ![a] = <<Empty>>]
  /\ UNCHANGED objs

Forgotten(a) ==
  [h \in Handles |-> IF objs[h] # None /\ objs[h].arena = a THEN None ELSE objs[h]]

(* arena_destroy *)
Destroy(a) ==
  /\ chain[a] # <<>>
  /\ chain' = [chain EXCEPT ![a] = <<>>]
  /\ objs' = Forgotten(a)

(* arena_reset: every region of the chain. *)
Reset(a) ==
  /\ chain[a] # <<>>
  /\ chain' = [chain EXCEPT ![a] = [r \in 1 .. Len(chain[a]) |-> Empty]]
  /\ objs' = Forgotten(a)

Fits(a, r, size) == chain[a][r].pos + size <= DataSize[a]

(* arena_with_space: the first region if it is empty, without looking at   *)
(* its position; otherwise the first with space.  Len + 1 is a new one.    *)
Space(a, size) ==
  IF chain[a][1].npushed = 0 THEN {1}
  ELSE {r \in 1 .. Len(chain[a]) + 1 :
          /\ r <= Len(chain[a]) => Fits(a, r, size)
          /\ \A q \in 1 .. r - 1 : ~Fits(a, q, size)}

Linked(a, r) == IF r > Len(chain[a]) THEN Append(chain[a], Empty) ELSE chain[a]

HasSpace(a, size) == chain[a] # <<>> /\ size <= DataSize[a]

Advanced(region, size) ==
  [pos |-> region.pos + size, npushed |-> region.npushed + 1]

(* arena_push, and xarena_push. *)
Push(a, h, size) ==
  LET aligned == Align(size)
  IN /\ objs[h] = None
     /\ HasSpace(a, aligned)
     /\ \E r \in Space(a, aligned) :
          /\ r <= MaxRegions
          /\ chain' = [chain EXCEPT ![a] =
                         [Linked(a, r) EXCEPT ![r] = Advanced(@, aligned)]]
          /\ objs' = [objs EXCEPT ![h] =
                        [arena |-> a, region |-> r, from |-> Linked(a, r)[r].pos,
                         size |-> aligned, kind |-> "pointer"]]

(* arenas_push: the first arena that is not too small.  One that is has    *)
(* no effect. *)
ArenasPush(h, size) ==
  \E a \in Arenas :
    /\ \A b \in 1 .. a - 1 : ~HasSpace(b, Align(size))
    /\ Push(a, h, size)

(* arena_push_index32: the size is not aligned.  It fails in a link, which *)
(* may just have been made for it. *)
PushIndex32(a, h, size) ==
  /\ objs[h] = None
  /\ HasSpace(a, size)
  /\ \E r \in Space(a, size) :
       /\ r <= MaxRegions
       /\ IF r = 1
          THEN /\ chain' = [chain EXCEPT ![a][1] = Advanced(@, size)]
               /\ objs' = [objs EXCEPT ![h] =
                             [arena |-> a, region |-> 1, from |-> chain[a][1].pos,
                              size |-> size, kind |-> "index"]]
          ELSE /\ chain' = [chain EXCEPT ![a] = Linked(a, r)]
               /\ UNCHANGED objs
-----------------------------------------------------------------------------
(* arena_of: the region whose bytes have the address. *)
ArenaOf(a, object) ==
  {r \in 1 .. Len(chain[a]) :
     object.arena = a /\ object.region = r /\ object.from < DataSize[a]}

(* Mutants: the position is kept; the region starts anew one object early. *)
Decremented_KeepsPos(region) ==
  [pos |-> region.pos, npushed |-> region.npushed - 1]

Decremented_Early(region) ==
  [pos     |-> IF region.npushed - 1 <= 1 THEN 0 ELSE region.pos,
   npushed |-> region.npushed - 1]

Decremented(region) ==
  [pos     |-> IF region.npushed - 1 <= 0 THEN 0 ELSE region.pos,
   npushed |-> region.npushed - 1]

(* arena_decr, and arenas_pop, which tries it on each arena: a pointer     *)
(* that no region has is left alone. *)
Decr(a, h) ==
  /\ objs[h] # None
  /\ \E r \in ArenaOf(a, objs[h]) :
       /\ chain' = [chain EXCEPT ![a][r] = Decremented(@)]
       /\ objs' = [objs EXCEPT ![h] = None]

Next ==
  \/ \E a \in Arenas : Create(a) \/ Destroy(a) \/ Reset(a)
  \/ \E a \in Arenas, h \in Handles, size \in Sizes : Push(a, h, size)
  \/ \E h \in Handles, size \in Sizes : ArenasPush(h, size)
  \/ \E a \in Arenas, h \in Handles, size \in IndexSizes : PushIndex32(a, h, size)
  \/ \E a \in Arenas, h \in Handles : Decr(a, h)

Spec == Init /\ [][Next]_vars
-----------------------------------------------------------------------------
(* Properties. *)

Held == {h \in Handles : objs[h] # None}
InRegion(a, r) == {h \in Held : objs[h].arena = a /\ objs[h].region = r}

(* Objects lie inside their region, below the position the next one is     *)
(* pushed at, and no two overlap: whatever was popped, reset or linked,    *)
(* the bytes a caller was given are its own until it gives them back.      *)
Disjoint ==
  \A h \in Held :
    LET o == objs[h]
    IN /\ o.region <= Len(chain[o.arena])
       /\ o.from + o.size <= chain[o.arena][o.region].pos
       /\ o.from + o.size <= DataSize[o.arena]
       /\ \A g \in InRegion(o.arena, o.region) \ {h} :
            \/ o.from + o.size <= objs[g].from
            \/ objs[g].from + objs[g].size <= o.from

(* npushed counts the objects that are held, and a region that has none    *)
(* gives all its space again.  (arena_with_space relies on it for its      *)
(* first region.)                                                          *)
CountsObjects ==
  \A a \in Arenas : \A r \in 1 .. Len(chain[a]) :
    /\ chain[a][r].npushed = Cardinality(InRegion(a, r))
    /\ chain[a][r].npushed = 0 => chain[a][r].pos = 0

(* Every object that is held can be popped: the test asserts that          *)
(* arena_decr finds each object it pushed.                                 *)
PopSucceeds == \A h \in Held : ArenaOf(objs[h].arena, objs[h]) # {}

(* What ASSUME_ALIGNED says of the pointer arena_push returns. *)
PushAligned ==
  \A h \in Held : objs[h].kind = "pointer" => objs[h].from % Alignment = 0
=============================================================================
