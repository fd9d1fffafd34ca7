------------------------------ MODULE HashMap -------------------------------
(***************************************************************************)
(* A map generated from cbase/hash.c: open addressing with triangular      *)
(* probing, tombstones, and a table that doubles before an insertion finds *)
(* it three quarters occupied.  Keys are copied to an arena, as with       *)
(* HASH_DUPLICATE_KEYS; of the arena only the number of pushes is kept.    *)
(*                                                                         *)
(* One iteration of the loop of hash_resize is one step; everything else   *)
(* of a call is one step.  The widths are those of a smaller machine:      *)
(* MaxCapacity stands for 2^31, the largest power of two of a uint32.      *)
(***************************************************************************)
EXTENDS Integers, FiniteSets

CONSTANTS
  Keys, Values, Null,
  Zeroed,       (* the value of a zeroed bucket                            *)
  Hash,         (* hash_function of each key: any numbers, equal ones too  *)
  Capacities,   (* the powers of two a capacity can be                     *)
  MaxCapacity,  (* the largest of them                                     *)
  Lengths       (* the lengths a map is created with                       *)

(* The i-th slot a key is looked for in, from its base index on. *)
Probe(hash, i, capacity) ==
  ((hash % capacity) + ((i + i * i) \div 2)) % capacity

(* The last conjunct is arithmetic: i(i+1)/2 takes every value modulo a    *)
(* power of two.  TLC evaluates it for the capacities of a run. *)
ASSUME ConstantsAssumption ==
  /\ Hash \in [Keys -> Nat]
  /\ Null \notin Keys \cup Values
  /\ Zeroed \in Values
  /\ Capacities \subseteq Nat \ {0, 1}
  /\ MaxCapacity \in Capacities
  /\ \A c \in Capacities : c <= MaxCapacity /\ (c < MaxCapacity => 2 * c \in Capacities)
  /\ Lengths \subseteq Nat
  /\ \A c \in Capacities : \A base, slot \in 0 .. c - 1 :
       \E i \in 0 .. c - 1 : Probe(base, i, c) = slot

VARIABLES
  capacity, length, occupied, array, slot_states,   (* the map             *)
  npushed,                       (* objects in its arena of keys           *)
  pc, op,                        (* the call in progress                   *)
  new_array, new_slot_states, j, (* locals of hash_resize                  *)
  result                         (* what the last call returned            *)

mapVars    == <<capacity, length, occupied, array, slot_states, npushed>>
resizeVars == <<new_array, new_slot_states, j>>
vars == <<mapVars, resizeVars, pc, op, result>>

States  == {"free", "used", "deleted"}
Buckets == [key : Keys \cup {Null}, value : Values]
NoOp    == [kind |-> "none", key |-> Null, value |-> Zeroed]
Ops     == [kind : {"insert", "overwrite"}, key : Keys, value : Values]
Returned(ok, value) == [ok |-> ok, value |-> value]

Slots     == 0 .. capacity - 1
NewSlots  == 0 .. 2 * capacity - 1
Least(S)  == CHOOSE i \in S : \A h \in S : i <= h
ZeroedArray(c)  == [i \in 0 .. c - 1 |-> [key |-> Null, value |-> Zeroed]]
ZeroedStates(c) == [i \in 0 .. c - 1 |-> "free"]

(* hash_init: twice the least power of two that holds the length, clamped. *)
InitialCapacity(n) ==
  LET clamped == IF n > (2 * MaxCapacity - 1) \div 4
                 THEN (2 * MaxCapacity - 1) \div 4 ELSE n
  IN Least({c \in Capacities : c >= 2 * clamped})

TypeOK ==
  /\ capacity \in Capacities
  /\ length \in Nat
  /\ occupied \in Nat
  /\ npushed \in Nat
  /\ array \in [Slots -> Buckets]
  /\ slot_states \in [Slots -> States]
  /\ pc \in {"ready", "rehash", "put", "dead"}
  /\ op \in Ops \cup {NoOp}
  /\ j \in 0 .. capacity
  /\ pc = "rehash" => /\ 2 * capacity \in Capacities
                      /\ new_array \in [NewSlots -> Buckets]
                      /\ new_slot_states \in [NewSlots -> States]
  /\ result \in [ok : BOOLEAN, value : Values \cup {Null}]

Init ==
  /\ \E n \in Lengths : capacity = InitialCapacity(n)
  /\ length = 0
  /\ occupied = 0
  /\ array = ZeroedArray(capacity)
  /\ slot_states = ZeroedStates(capacity)
  /\ npushed = 0
  /\ pc = "ready"
  /\ op = NoOp
  /\ new_array = Null /\ new_slot_states = Null /\ j = 0
  /\ result = Returned(FALSE, Null)
-----------------------------------------------------------------------------
(* hash_probe looks at the slots Path(key, i) in turn, up to the first that *)
(* is free or has the key. *)
Path(key, i) == Probe(Hash[key], i, capacity)

Holds(slot, key) == slot_states[slot] = "used" /\ array[slot].key = key

Ends(key) ==
  {i \in Slots : \/ slot_states[Path(key, i)] = "free"
                 \/ Holds(Path(key, i), key)}

Found(key) == Ends(key) # {} /\ Holds(Path(key, Least(Ends(key))), key)
FoundAt(key) == Path(key, Least(Ends(key)))

Tombstones(key) ==
  {i \in Slots : /\ slot_states[Path(key, i)] = "deleted"
                 /\ \A e \in Ends(key) : i < e}

(* Where a key that is not found goes: the first tombstone passed, or else *)
(* the free slot.  With neither, out_idx stays unset. *)
HasTarget(key) == Tombstones(key) # {} \/ Ends(key) # {}
Target(key) ==
  IF Tombstones(key) # {} THEN Path(key, Least(Tombstones(key)))
  ELSE Path(key, Least(Ends(key)))

(* hash_lookup *)
Lookup(key) ==
  /\ pc = "ready"
  /\ result' = IF Found(key) THEN Returned(TRUE, array[FoundAt(key)].value)
               ELSE Returned(FALSE, Null)
  /\ UNCHANGED <<mapVars, resizeVars, pc, op>>

(* Mutants: the removed slot is freed; its arena object is not given back. *)
Remove_Frees(key) ==
  /\ pc = "ready"
  /\ IF Found(key)
     THEN /\ array' = [array EXCEPT ![FoundAt(key)].key = Null]
          /\ slot_states' = [slot_states EXCEPT ![FoundAt(key)] = "free"]
          /\ length' = length - 1
          /\ npushed' = npushed - 1
     ELSE UNCHANGED <<array, slot_states, length, npushed>>
  /\ result' = Returned(Found(key), Null)
  /\ UNCHANGED <<capacity, occupied, resizeVars, pc, op>>

Remove_KeepsObject(key) ==
  /\ pc = "ready"
  /\ IF Found(key)
     THEN /\ array' = [array EXCEPT ![FoundAt(key)].key = Null]
          /\ slot_states' = [slot_states EXCEPT ![FoundAt(key)] = "deleted"]
          /\ length' = length - 1
     ELSE UNCHANGED <<array, slot_states, length>>
  /\ result' = Returned(Found(key), Null)
  /\ UNCHANGED <<capacity, occupied, npushed, resizeVars, pc, op>>

(* hash_remove: the slot becomes a tombstone, its value stays.  (A key of  *)
(* fixed length stays too; nothing reads it.) *)
Remove(key) ==
  /\ pc = "ready"
  /\ IF Found(key)
     THEN /\ array' = [array EXCEPT ![FoundAt(key)].key = Null]
          /\ slot_states' = [slot_states EXCEPT ![FoundAt(key)] = "deleted"]
          /\ length' = length - 1
          /\ npushed' = npushed - 1
     ELSE UNCHANGED <<array, slot_states, length, npushed>>
  /\ result' = Returned(Found(key), Null)
  /\ UNCHANGED <<capacity, occupied, resizeVars, pc, op>>

(* hash_zero *)
Zero ==
  /\ pc = "ready"
  /\ length' = 0
  /\ occupied' = 0
  /\ array' = ZeroedArray(capacity)
  /\ slot_states' = ZeroedStates(capacity)
  /\ npushed' = 0
  /\ result' = Returned(TRUE, Null)
  /\ UNCHANGED <<capacity, resizeVars, pc, op>>
-----------------------------------------------------------------------------
(* An insertion first grows a table that is three quarters occupied. *)
MustGrow == occupied * 100 >= capacity * 75

(* hash_insert_pre_calc and hash_overwrite_pre_calc, up to hash_probe: the *)
(* capacity is doubled modulo the width of a uint32 and must have grown;   *)
(* otherwise fatal() ends the process. *)
Store(kind, key, value) ==
  /\ pc = "ready"
  /\ op' = [kind |-> kind, key |-> key, value |-> value]
  /\ IF ~MustGrow
     THEN /\ pc' = "put"
          /\ UNCHANGED resizeVars
     ELSE LET new_capacity == (2 * capacity) % (2 * MaxCapacity)
          IN IF new_capacity < capacity
             THEN /\ pc' = "dead"
                  /\ UNCHANGED resizeVars
             ELSE /\ pc' = "rehash"
                  /\ new_array' = ZeroedArray(new_capacity)
                  /\ new_slot_states' = ZeroedStates(new_capacity)
                  /\ j' = 0
  /\ UNCHANGED <<mapVars, result>>

(* Mutant: the bit mask of the old table. *)
NewPath_OldMask(key, i) == Probe(Hash[key], i, capacity)

NewPath(key, i) == Probe(Hash[key], i, 2 * capacity)

(* Mutant: an entry goes to its base index, taken or not. *)
FreeSteps_Base(key) == {0}

FreeSteps(key) ==
  {i \in NewSlots : new_slot_states[NewPath(key, i)] = "free"}

(* One iteration of hash_resize: a used slot goes to the first free one of *)
(* the new table. *)
Rehash ==
  /\ pc = "rehash"
  /\ j < capacity
  /\ LET key == array[j].key
     IN IF slot_states[j] = "used" /\ FreeSteps(key) # {}
        THEN LET target == NewPath(key, Least(FreeSteps(key)))
             IN /\ new_array' = [new_array EXCEPT ![target] = array[j]]
                /\ new_slot_states' = [new_slot_states EXCEPT ![target] = "used"]
        ELSE UNCHANGED <<new_array, new_slot_states>>
  /\ j' = j + 1
  /\ UNCHANGED <<mapVars, pc, op, result>>

RehashEnds ==
  /\ pc = "rehash"
  /\ j >= capacity
  /\ array' = new_array
  /\ slot_states' = new_slot_states
  /\ capacity' = 2 * capacity
  /\ occupied' = length
  /\ pc' = "put"
  /\ new_array' = Null /\ new_slot_states' = Null /\ j' = 0
  /\ UNCHANGED <<length, npushed, op, result>>

(* A key that is found keeps its slot; only hash_overwrite stores a value. *)
PutFound ==
  /\ pc = "put"
  /\ Found(op.key)
  /\ array' = IF op.kind = "overwrite"
              THEN [array EXCEPT ![FoundAt(op.key)].value = op.value]
              ELSE array
  /\ result' = Returned(op.kind = "overwrite", Null)
  /\ pc' = "ready"
  /\ op' = NoOp
  /\ UNCHANGED <<capacity, length, occupied, slot_states, npushed, resizeVars>>

(* A new key goes to the target.  (Without one the code would store out of *)
(* bounds; PutHasTarget says it has one.) *)
PutNew ==
  /\ pc = "put"
  /\ ~Found(op.key) /\ HasTarget(op.key)
  /\ LET target == Target(op.key)
     IN /\ occupied' = occupied
               + (IF slot_states[target] = "free" THEN 1 ELSE 0)
        /\ array' = [array EXCEPT ![target] =
                       [key |-> op.key, value |-> op.value]]
        /\ slot_states' = [slot_states EXCEPT ![target] = "used"]
  /\ length' = length + 1
  /\ npushed' = npushed + 1
  /\ result' = Returned(TRUE, Null)
  /\ pc' = "ready"
  /\ op' = NoOp
  /\ UNCHANGED <<capacity, resizeVars>>

Next ==
  \/ \E key \in Keys : Lookup(key) \/ Remove(key)
  \/ \E kind \in {"insert", "overwrite"}, key \in Keys, value \in Values :
       Store(kind, key, value)
  \/ Zero
  \/ Rehash \/ RehashEnds
  \/ PutFound \/ PutNew

Spec == Init /\ [][Next]_vars
-----------------------------------------------------------------------------
(* Properties. *)

Used    == {i \in Slots : slot_states[i] = "used"}
Deleted == {i \in Slots : slot_states[i] = "deleted"}

(* hash_length and `occupied` count what the table holds, and the arena of *)
(* keys one object for each key, whatever was removed, reused or rehashed. *)
CountsExact ==
  /\ length = Cardinality(Used)
  /\ occupied = Cardinality(Used) + Cardinality(Deleted)
  /\ npushed = length

(* No key is in two slots, and no free slot comes before a key on its way: *)
(* the probe that stops at a free slot misses nothing.                     *)
Reachable ==
  \A slot \in Used :
    LET key == array[slot].key
    IN /\ key \in Keys
       /\ \A other \in Used : array[other].key = key => other = slot
       /\ \E i \in Slots :
            /\ Path(key, i) = slot
            /\ \A h \in 0 .. i - 1 : slot_states[Path(key, h)] # "free"

(* An insertion always has a slot to go to: target_idx is never unset. *)
PutHasTarget == pc = "put" => Found(op.key) \/ HasTarget(op.key)

(* The loop of hash_resize loses no entry: each used slot it has passed is *)
(* in the new table, with its value, and nothing else is.                  *)
RehashKeepsAll ==
  pc = "rehash" =>
    {array[i] : i \in {i \in 0 .. j - 1 : slot_states[i] = "used"}}
      = {new_array[i] : i \in {i \in NewSlots : new_slot_states[i] = "used"}}

(* The table is a map. *)
Contents ==
  [k \in Keys |-> IF \E i \in Used : array[i].key = k
                  THEN array[CHOOSE i \in Used : array[i].key = k].value
                  ELSE Null]

KM == INSTANCE KeyMap WITH contents <- Contents
ImplementsKeyMap == KM!KMSpec
=============================================================================
