---------------------------- MODULE HashMapProofs ----------------------------
(***************************************************************************)
(* HashMap for any keys, hashes and values, and any capacities that are    *)
(* probed completely: the table stays sound, its counts stay exact, an     *)
(* insertion always has a slot, and the table implements KeyMap.           *)
(***************************************************************************)
EXTENDS HashMap, FiniteSetTheorems, WellFoundedInduction, TLAPS

(* Reachable, for any table: the invariant holds of the table in use and   *)
(* of the one hash_resize fills. *)
Sound(arr, st, c) ==
  \A s \in 0 .. c - 1 : st[s] = "used" =>
    /\ arr[s].key \in Keys
    /\ \A o \in 0 .. c - 1 : st[o] = "used" /\ arr[o].key = arr[s].key => o = s
    /\ \E i \in 0 .. c - 1 :
         /\ Probe(Hash[arr[s].key], i, c) = s
         /\ \A h \in 0 .. i - 1 : st[Probe(Hash[arr[s].key], h, c)] # "free"

UsedIn(st, c) == {s \in 0 .. c - 1 : st[s] = "used"}
Passed == {i \in 0 .. j - 1 : slot_states[i] = "used"}

(* A non-empty set of naturals has a least element. *)
LEMMA LeastIs ==
  ASSUME NEW S \in SUBSET Nat, S # {}
  PROVE  Least(S) \in S /\ \A h \in S : Least(S) <= h
<1> DEFINE R == OpToRel(<, Nat)
<1>1. IsWellFoundedOn(R, Nat)
  BY NatLessThanWellFounded
<1>2. \A x, y \in Nat : x < y => <<x, y>> \in R
  BY DEF OpToRel
<1> HIDE DEF R
<1>3. PICK x \in S : \A y \in S : ~ (<<y, x>> \in R)
  BY <1>1, WFMin
<1>4. ASSUME NEW y \in S
      PROVE  x <= y
  <2>1. x \in Nat /\ y \in Nat
    OBVIOUS
  <2>2. ~ (y < x)
    BY <1>2, <1>3, <2>1
  <2> QED
    BY <2>1, <2>2
<1> QED
  BY <1>4 DEF Least

LEMMA CapacityFacts ==
  ASSUME NEW c \in Capacities
  PROVE  c \in Nat /\ c >= 2 /\ c <= MaxCapacity /\ MaxCapacity \in Nat
BY ConstantsAssumption

LEMMA ModFacts ==
  ASSUME NEW a \in Nat, NEW c \in Nat \ {0}
  PROVE  a % c \in 0 .. c - 1 /\ (a % c) % c = a % c
OBVIOUS

LEMMA ProbeInside ==
  ASSUME NEW hash \in Nat, NEW i \in Nat, NEW c \in Capacities
  PROVE  Probe(hash, i, c) \in 0 .. c - 1
<1>1. c \in Nat \ {0}
  BY CapacityFacts
<1>2. i * i \in Nat
  OBVIOUS
<1>3. (i + i * i) \div 2 \in Nat
  BY <1>2
<1>4. hash % c \in Nat
  BY <1>1, ModFacts
<1>5. (hash % c) + ((i + i * i) \div 2) \in Nat
  BY <1>3, <1>4
<1> QED
  BY <1>1, <1>5, ModFacts DEF Probe

LEMMA PathInside ==
  ASSUME NEW k \in Keys, NEW c \in Capacities, NEW n \in 0 .. c,
         NEW i \in 0 .. n - 1
  PROVE  Probe(Hash[k], i, c) \in 0 .. c - 1
<1>1. Hash[k] \in Nat
  BY ConstantsAssumption
<1>2. i \in Nat
  BY CapacityFacts
<1> QED
  BY <1>1, <1>2, ProbeInside

LEMMA ProbeCovers ==
  ASSUME NEW hash \in Nat, NEW c \in Capacities, NEW slot \in 0 .. c - 1
  PROVE  \E i \in 0 .. c - 1 : Probe(hash, i, c) = slot
<1>1. c \in Nat \ {0}
  BY CapacityFacts
<1>2. hash % c \in 0 .. c - 1 /\ (hash % c) % c = hash % c
  BY <1>1, ModFacts
<1>3. PICK i \in 0 .. c - 1 : Probe(hash % c, i, c) = slot
  BY <1>2, ConstantsAssumption
<1>4. Probe(hash % c, i, c) = Probe(hash, i, c)
  BY <1>2 DEF Probe
<1> QED
  BY <1>3, <1>4

(* A table stays sound when a new key goes to the end of its own path.     *)
LEMMA AddEntry ==
  ASSUME NEW c \in Capacities, NEW arr, NEW st,
         arr \in [0 .. c - 1 -> Buckets], st \in [0 .. c - 1 -> States],
         Sound(arr, st, c),
         NEW k \in Keys, NEW bucket \in Buckets, bucket.key = k,
         \A s \in 0 .. c - 1 : st[s] = "used" => arr[s].key # k,
         NEW i \in 0 .. c - 1,
         NEW target, target = Probe(Hash[k], i, c),
         \A h \in 0 .. i - 1 : st[Probe(Hash[k], h, c)] # "free"
  PROVE  Sound([arr EXCEPT ![target] = bucket], [st EXCEPT ![target] = "used"], c)
<1> DEFINE arr2 == [arr EXCEPT ![target] = bucket]
           st2  == [st EXCEPT ![target] = "used"]
<1>1. c \in Nat /\ c >= 2
  BY CapacityFacts
<1>2. target \in 0 .. c - 1
  <2>1. c \in 0 .. c
    BY <1>1
  <2> QED
    BY <2>1, PathInside
<1>3. /\ arr2[target] = bucket /\ st2[target] = "used"
      /\ \A s \in 0 .. c - 1 : s # target => arr2[s] = arr[s] /\ st2[s] = st[s]
  BY <1>2
<1>4. \A s \in 0 .. c - 1 : st[s] # "free" => st2[s] # "free"
  BY <1>3
<1> HIDE DEF arr2, st2
<1> SUFFICES ASSUME NEW s \in 0 .. c - 1, st2[s] = "used"
             PROVE  /\ arr2[s].key \in Keys
                    /\ \A o \in 0 .. c - 1 :
                         st2[o] = "used" /\ arr2[o].key = arr2[s].key => o = s
                    /\ \E e \in 0 .. c - 1 :
                         /\ Probe(Hash[arr2[s].key], e, c) = s
                         /\ \A h \in 0 .. e - 1 :
                              st2[Probe(Hash[arr2[s].key], h, c)] # "free"
  BY DEF Sound, arr2, st2
<1>5. CASE s = target
  <2>1. arr2[s].key = k
    BY <1>3, <1>5
  <2>2. \A h \in 0 .. i - 1 : st2[Probe(Hash[k], h, c)] # "free"
    <3> SUFFICES ASSUME NEW h \in 0 .. i - 1
                 PROVE  st2[Probe(Hash[k], h, c)] # "free"
      OBVIOUS
    <3>0. i \in 0 .. c
      BY <1>1
    <3>1. Probe(Hash[k], h, c) \in 0 .. c - 1
      BY <3>0, PathInside
    <3> QED
      BY <3>1, <1>4
  <2>3. \A o \in 0 .. c - 1 : st2[o] = "used" /\ arr2[o].key = k => o = s
    BY <1>3, <1>5
  <2> QED
    BY <1>5, <2>1, <2>2, <2>3
<1>6. CASE s # target
  <2>1. st[s] = "used" /\ arr2[s] = arr[s]
    BY <1>3, <1>6
  <2>2. /\ arr[s].key \in Keys
        /\ \A o \in 0 .. c - 1 : st[o] = "used" /\ arr[o].key = arr[s].key => o = s
    BY <2>1 DEF Sound
  <2>3. PICK e \in 0 .. c - 1 :
          /\ Probe(Hash[arr[s].key], e, c) = s
          /\ \A h \in 0 .. e - 1 : st[Probe(Hash[arr[s].key], h, c)] # "free"
    BY <2>1 DEF Sound
  <2>4. \A h \in 0 .. e - 1 : st2[Probe(Hash[arr[s].key], h, c)] # "free"
    <3> SUFFICES ASSUME NEW h \in 0 .. e - 1
                 PROVE  st2[Probe(Hash[arr[s].key], h, c)] # "free"
      OBVIOUS
    <3>0. e \in 0 .. c
      BY <1>1
    <3>1. Probe(Hash[arr[s].key], h, c) \in 0 .. c - 1
      BY <3>0, <2>2, PathInside
    <3> QED
      BY <3>1, <2>3, <1>4
  <2>5. ASSUME NEW o \in 0 .. c - 1, st2[o] = "used", arr2[o].key = arr[s].key
        PROVE  o = s
    <3>1. o # target
      BY <2>1, <2>5, <1>3
    <3> QED
      BY <3>1, <2>2, <2>5, <1>3
  <2> QED
    BY <2>1, <2>2, <2>3, <2>4, <2>5
<1> QED
  BY <1>5, <1>6

(* The table stays sound when a slot becomes a tombstone.                  *)
LEMMA BuryEntry ==
  ASSUME NEW c \in Capacities, NEW arr, NEW st, NEW arr2, NEW st2,
         st \in [0 .. c - 1 -> States],
         Sound(arr, st, c), NEW f \in 0 .. c - 1,
         st2 = [st EXCEPT ![f] = "deleted"],
         \A s \in 0 .. c - 1 : s # f => arr2[s] = arr[s]
  PROVE  Sound(arr2, st2, c)
<1>1. \A s \in 0 .. c - 1 : st2[s] = "used" => s # f /\ st[s] = "used" /\ arr2[s] = arr[s]
  OBVIOUS
<1>2. \A s \in 0 .. c - 1 : st[s] # "free" => st2[s] # "free"
  OBVIOUS
<1> SUFFICES ASSUME NEW s \in 0 .. c - 1, st2[s] = "used"
             PROVE  /\ arr2[s].key \in Keys
                    /\ \A o \in 0 .. c - 1 :
                         st2[o] = "used" /\ arr2[o].key = arr2[s].key => o = s
                    /\ \E e \in 0 .. c - 1 :
                         /\ Probe(Hash[arr2[s].key], e, c) = s
                         /\ \A h \in 0 .. e - 1 :
                              st2[Probe(Hash[arr2[s].key], h, c)] # "free"
  BY DEF Sound
<1>3. /\ st[s] = "used" /\ arr2[s] = arr[s] /\ arr[s].key \in Keys
      /\ \A o \in 0 .. c - 1 : st[o] = "used" /\ arr[o].key = arr[s].key => o = s
  BY <1>1 DEF Sound
<1>4. PICK e \in 0 .. c - 1 :
        /\ Probe(Hash[arr[s].key], e, c) = s
        /\ \A h \in 0 .. e - 1 : st[Probe(Hash[arr[s].key], h, c)] # "free"
  BY <1>3 DEF Sound
<1>5. \A h \in 0 .. e - 1 : st2[Probe(Hash[arr[s].key], h, c)] # "free"
  <2> SUFFICES ASSUME NEW h \in 0 .. e - 1
               PROVE  st2[Probe(Hash[arr[s].key], h, c)] # "free"
    OBVIOUS
  <2>1. e \in 0 .. c
    BY CapacityFacts
  <2>2. Probe(Hash[arr[s].key], h, c) \in 0 .. c - 1
    BY <1>3, <2>1, PathInside
  <2> QED
    BY <1>2, <1>4, <2>2
<1> QED
  BY <1>1, <1>3, <1>4, <1>5

(* hash_probe finds a key exactly when a slot holds it, at that slot.      *)
LEMMA FindIt ==
  ASSUME TypeOK, Sound(array, slot_states, capacity), NEW k \in Keys
  PROVE  /\ Found(k) => FoundAt(k) \in Slots /\ Holds(FoundAt(k), k)
         /\ \A s \in Slots : Holds(s, k) => Found(k)
<1>1. capacity \in Capacities /\ capacity \in Nat
  BY CapacityFacts DEF TypeOK
<1>2. Ends(k) \in SUBSET Nat /\ Ends(k) \subseteq Slots
  BY <1>1 DEF Ends, Slots
<1>3. ASSUME Ends(k) # {}
      PROVE  Least(Ends(k)) \in Ends(k) /\ \A h \in Ends(k) : Least(Ends(k)) <= h
  BY <1>2, <1>3, LeastIs
<1>4. \A i \in Slots : Path(k, i) \in Slots
  <2>1. capacity \in 0 .. capacity
    BY <1>1
  <2> QED
    BY <1>1, <2>1, PathInside DEF Path, Slots
<1>5. Found(k) => FoundAt(k) \in Slots /\ Holds(FoundAt(k), k)
  BY <1>2, <1>3, <1>4 DEF Found, FoundAt
<1>6. ASSUME NEW s \in Slots, Holds(s, k)
      PROVE  Found(k)
  <2>1. slot_states[s] = "used" /\ array[s].key = k
    BY <1>6 DEF Holds
  <2>2. PICK i \in Slots :
          /\ Path(k, i) = s
          /\ \A h \in 0 .. i - 1 : slot_states[Path(k, h)] # "free"
    BY <2>1 DEF Sound, Slots, Path
  <2>3. i \in Ends(k)
    BY <2>2, <1>6 DEF Ends
  <2>4. DEFINE e == Least(Ends(k))
  <2>5. e \in Ends(k) /\ e <= i /\ e \in Nat /\ i \in Nat
    BY <2>3, <1>3, <1>2
  <2> HIDE DEF e
  <2>6. CASE e = i
    BY <2>6, <2>2, <2>3, <1>6 DEF Found, e
  <2>7. CASE e # i
    <3>1. e \in 0 .. i - 1
      BY <2>5, <2>7
    <3>2. slot_states[Path(k, e)] # "free"
      BY <3>1, <2>2
    <3>3. Holds(Path(k, e), k)
      BY <3>2, <2>5 DEF Ends
    <3> QED
      BY <3>3, <2>3 DEF Found, e
  <2> QED
    BY <2>6, <2>7
<1> QED
  BY <1>5, <1>6

(* Where a new key goes: to a slot of its path that is not used and that   *)
(* no free slot precedes.                                                  *)
LEMMA TargetFacts ==
  ASSUME TypeOK, NEW k \in Keys, ~Found(k), HasTarget(k)
  PROVE  \E i \in Slots :
           /\ Target(k) = Path(k, i)
           /\ slot_states[Path(k, i)] # "used"
           /\ \A h \in 0 .. i - 1 : slot_states[Path(k, h)] # "free"
<1>1. capacity \in Capacities /\ capacity \in Nat
  BY CapacityFacts DEF TypeOK
<1>2. /\ Ends(k) \in SUBSET Nat /\ Ends(k) \subseteq Slots
      /\ Tombstones(k) \in SUBSET Nat /\ Tombstones(k) \subseteq Slots
  BY <1>1 DEF Ends, Tombstones, Slots
<1>3. ASSUME NEW i \in Slots, NEW h \in 0 .. i - 1, \A e \in Ends(k) : i <= e
      PROVE  slot_states[Path(k, h)] # "free"
  <2>1. h \in Slots /\ h < i /\ i \in Nat /\ h \in Nat
    BY <1>1 DEF Slots
  <2>2. h \notin Ends(k)
    BY <2>1, <1>3
  <2> QED
    BY <2>1, <2>2 DEF Ends
<1>4. CASE Tombstones(k) # {}
  <2> DEFINE i == Least(Tombstones(k))
  <2>1. i \in Tombstones(k)
    BY <1>2, <1>4, LeastIs
  <2>2. i \in Slots /\ slot_states[Path(k, i)] = "deleted" /\ \A e \in Ends(k) : i < e
    BY <2>1 DEF Tombstones
  <2>3. \A e \in Ends(k) : i <= e
    BY <2>2, <1>1, <1>2 DEF Slots
  <2>4. Target(k) = Path(k, i)
    BY <1>4 DEF Target
  <2> HIDE DEF i
  <2>5. \A h \in 0 .. i - 1 : slot_states[Path(k, h)] # "free"
    BY <2>2, <2>3, <1>3
  <2> QED
    BY <2>2, <2>4, <2>5
<1>5. CASE Tombstones(k) = {}
  <2> DEFINE i == Least(Ends(k))
  <2>0. Ends(k) # {}
    BY <1>5 DEF HasTarget
  <2>1. i \in Ends(k) /\ \A e \in Ends(k) : i <= e
    BY <1>2, <2>0, LeastIs
  <2>2. i \in Slots
    BY <2>1 DEF Ends
  <2>3. ~Holds(Path(k, i), k)
    BY <2>0 DEF Found
  <2>4. slot_states[Path(k, i)] = "free"
    BY <2>1, <2>3 DEF Ends
  <2>5. Target(k) = Path(k, i)
    BY <1>5 DEF Target
  <2> HIDE DEF i
  <2>6. \A h \in 0 .. i - 1 : slot_states[Path(k, h)] # "free"
    BY <2>1, <2>2, <1>3
  <2> QED
    BY <2>2, <2>4, <2>5, <2>6
<1> QED
  BY <1>4, <1>5

(* A set of fewer than c slots leaves one of the c out.                    *)
LEMMA OneLeft ==
  ASSUME NEW c \in Nat, NEW S \in SUBSET (0 .. c - 1), Cardinality(S) < c
  PROVE  \E s \in 0 .. c - 1 : s \notin S
<1>1. Cardinality(0 .. c - 1) = c
  <2>1. 0 \in Int /\ c - 1 \in Int
    OBVIOUS
  <2>2. Cardinality(0 .. c - 1) = IF 0 > c - 1 THEN 0 ELSE c - 1 - 0 + 1
    BY <2>1, FS_Interval
  <2> QED
    BY <2>2
<1>2. SUFFICES ASSUME \A s \in 0 .. c - 1 : s \in S
               PROVE  FALSE
  OBVIOUS
<1>3. S = 0 .. c - 1
  BY <1>2
<1> QED
  BY <1>1, <1>3

LEMMA SlotsFinite ==
  ASSUME NEW c \in Nat, NEW S \in SUBSET (0 .. c - 1)
  PROVE  IsFiniteSet(S) /\ Cardinality(S) \in Nat /\ Cardinality(S) <= c
<1>1. 0 \in Int /\ c - 1 \in Int
  OBVIOUS
<1>2. /\ IsFiniteSet(0 .. c - 1)
      /\ Cardinality(0 .. c - 1) = IF 0 > c - 1 THEN 0 ELSE c - 1 - 0 + 1
  BY <1>1, FS_Interval
<1>3. IsFiniteSet(S) /\ Cardinality(S) <= Cardinality(0 .. c - 1)
  BY <1>2, FS_Subset
<1>4. Cardinality(S) \in Nat
  BY <1>3, FS_CardinalityType
<1> QED
  BY <1>2, <1>3, <1>4

(* With the counts exact, a table that is not fully occupied has a target  *)
(* for every key.                                                          *)
LEMMA RoomTarget ==
  ASSUME TypeOK, CountsExact, occupied < capacity, NEW k \in Keys
  PROVE  HasTarget(k)
<1>1. capacity \in Capacities /\ capacity \in Nat
  BY CapacityFacts DEF TypeOK
<1>2. Used \in SUBSET (0 .. capacity - 1) /\ Deleted \in SUBSET (0 .. capacity - 1)
  BY DEF Used, Deleted, Slots
<1>3. IsFiniteSet(Used) /\ IsFiniteSet(Deleted)
  BY <1>1, <1>2, SlotsFinite
<1>4. Used \cap Deleted = {}
  BY DEF Used, Deleted
<1>5. Cardinality(Used \cup Deleted) = Cardinality(Used) + Cardinality(Deleted)
  <2>1. Cardinality(Used \cup Deleted)
          = Cardinality(Used) + Cardinality(Deleted) - Cardinality(Used \cap Deleted)
    BY <1>3, FS_Union
  <2>2. Cardinality(Used \cap Deleted) = 0
    BY <1>4, FS_EmptySet
  <2>3. Cardinality(Used) \in Nat /\ Cardinality(Deleted) \in Nat
    BY <1>3, FS_CardinalityType
  <2> QED
    BY <2>1, <2>2, <2>3
<1>6. Cardinality(Used \cup Deleted) < capacity
  BY <1>5 DEF CountsExact
<1>7. PICK s \in 0 .. capacity - 1 : s \notin Used \cup Deleted
  BY <1>1, <1>2, <1>6, OneLeft
<1>8. slot_states[s] = "free"
  BY <1>7 DEF Used, Deleted, Slots, TypeOK, States
<1>9. Hash[k] \in Nat
  BY ConstantsAssumption
<1>10. PICK i \in 0 .. capacity - 1 : Probe(Hash[k], i, capacity) = s
  BY <1>1, <1>9, ProbeCovers
<1>11. i \in Ends(k)
  BY <1>8, <1>10 DEF Ends, Path, Slots
<1> QED
  BY <1>11 DEF HasTarget

-----------------------------------------------------------------------------
(* The inductive invariant.  Beyond what the runs check, it says that the  *)
(* table being filled is sound, that it has as many entries as the slots   *)
(* passed, and that a call past the test of the load has room.             *)
Filling ==
  /\ op \in Ops
  /\ 2 * capacity \in Capacities
  /\ new_array \in [NewSlots -> Buckets]
  /\ new_slot_states \in [NewSlots -> {"free", "used"}]
  /\ Sound(new_array, new_slot_states, 2 * capacity)
  /\ {array[i] : i \in Passed}
       = {new_array[i] : i \in UsedIn(new_slot_states, 2 * capacity)}
  /\ Cardinality(UsedIn(new_slot_states, 2 * capacity)) = Cardinality(Passed)

Calling ==
  /\ pc = "rehash" => Filling
  /\ pc = "put" => op \in Ops /\ occupied < capacity

IInv ==
  /\ TypeOK
  /\ CountsExact
  /\ Sound(array, slot_states, capacity)
  /\ Calling

LEMMA EmptyTable ==
  ASSUME NEW c \in Capacities
  PROVE  /\ ZeroedArray(c) \in [0 .. c - 1 -> Buckets]
         /\ ZeroedStates(c) \in [0 .. c - 1 -> {"free", "used"}]
         /\ ZeroedStates(c) \in [0 .. c - 1 -> States]
         /\ Sound(ZeroedArray(c), ZeroedStates(c), c)
         /\ UsedIn(ZeroedStates(c), c) = {}
         /\ Cardinality(UsedIn(ZeroedStates(c), c)) = 0
<1>1. UsedIn(ZeroedStates(c), c) = {}
  BY DEF UsedIn, ZeroedStates
<1>2. ZeroedArray(c) \in [0 .. c - 1 -> Buckets]
  BY ConstantsAssumption DEF ZeroedArray, Buckets
<1> QED
  BY <1>1, <1>2, FS_EmptySet DEF ZeroedStates, States, Sound

(* Zeroed tables count nothing. *)
LEMMA EmptyCounts ==
  ASSUME slot_states = ZeroedStates(capacity), length = 0, occupied = 0, npushed = 0
  PROVE  CountsExact
<1>1. Used = {} /\ Deleted = {}
  BY DEF Used, Deleted, Slots, ZeroedStates
<1> QED
  BY <1>1, FS_EmptySet DEF CountsExact

LEMMA InitialCapacityFacts ==
  ASSUME NEW n \in Lengths
  PROVE  InitialCapacity(n) \in Capacities
<1> DEFINE clamped == IF n > (2 * MaxCapacity - 1) \div 4
                      THEN (2 * MaxCapacity - 1) \div 4 ELSE n
           S == {c \in Capacities : c >= 2 * clamped}
<1>1. MaxCapacity \in Capacities /\ MaxCapacity \in Nat /\ MaxCapacity >= 2 /\ n \in Nat
  BY ConstantsAssumption
<1>2. 2 * clamped <= MaxCapacity
  <2>1. (2 * MaxCapacity - 1) \div 4 \in Nat
        /\ 2 * ((2 * MaxCapacity - 1) \div 4) <= MaxCapacity
    BY <1>1
  <2> QED
    BY <1>1, <2>1
<1>3. MaxCapacity \in S
  BY <1>1, <1>2
<1>4. S \in SUBSET Nat
  BY ConstantsAssumption
<1> HIDE DEF S
<1>5. Least(S) \in S
  BY <1>3, <1>4, LeastIs
<1> QED
  BY <1>5 DEF InitialCapacity, S

LEMMA InitIInv == Init => IInv
<1> SUFFICES ASSUME Init PROVE IInv
  OBVIOUS
<1>1. capacity \in Capacities
  BY InitialCapacityFacts DEF Init
<1>2. CountsExact
  BY EmptyCounts DEF Init
<1>3. Sound(array, slot_states, capacity)
  BY <1>1, EmptyTable DEF Init
<1>4. TypeOK
  <2>1. array \in [Slots -> Buckets] /\ slot_states \in [Slots -> States]
    BY <1>1, EmptyTable DEF Init, Slots
  <2>2. j \in 0 .. capacity
    BY <1>1, CapacityFacts DEF Init
  <2> QED
    BY <1>1, <2>1, <2>2 DEF Init, TypeOK, NoOp, Returned
<1>5. Calling
  BY DEF Init, Calling
<1> QED
  BY <1>2, <1>3, <1>4, <1>5 DEF IInv

LEMMA LookupKeeps ==
  ASSUME IInv, NEW key \in Keys, Lookup(key)
  PROVE  IInv'
<1>1. TypeOK /\ Sound(array, slot_states, capacity)
  BY DEF IInv
<1>2. result' \in [ok : BOOLEAN, value : Values \cup {Null}]
  <2>1. Found(key) => array[FoundAt(key)].value \in Values
    BY <1>1, FindIt DEF TypeOK, Buckets
  <2> QED
    BY <2>1 DEF Lookup, Returned
<1>3. UNCHANGED <<mapVars, resizeVars, pc, op>>
  BY DEF Lookup
<1>4. TypeOK'
  BY <1>1, <1>2, <1>3 DEF TypeOK, mapVars, resizeVars, Slots, NewSlots
<1>5. CountsExact'
  BY <1>3 DEF IInv, CountsExact, Used, Deleted, Slots, mapVars
<1>6. Sound(array, slot_states, capacity)'
  BY <1>1, <1>3 DEF mapVars, Sound
<1>7. Calling'
  BY <1>3 DEF IInv, Calling, Lookup
<1> QED
  BY <1>4, <1>5, <1>6, <1>7 DEF IInv

LEMMA RemoveKeeps ==
  ASSUME IInv, NEW key \in Keys, Remove(key)
  PROVE  IInv'
<1>1. TypeOK /\ Sound(array, slot_states, capacity) /\ CountsExact
  BY DEF IInv
<1>2. Calling'
  BY DEF Remove, Calling
<1>3. CASE ~Found(key)
  <2>1. UNCHANGED <<mapVars, resizeVars, pc, op>> /\ result' = Returned(FALSE, Null)
    BY <1>3 DEF Remove, mapVars, Found
  <2>2. TypeOK'
    BY <1>1, <2>1 DEF TypeOK, mapVars, resizeVars, Slots, NewSlots, Returned
  <2>3. CountsExact'
    BY <1>1, <2>1 DEF CountsExact, Used, Deleted, Slots, mapVars
  <2>4. Sound(array, slot_states, capacity)'
    BY <1>1, <2>1 DEF mapVars, Sound
  <2> QED
    BY <1>2, <2>2, <2>3, <2>4 DEF IInv
<1>4. CASE Found(key)
  <2> DEFINE f == FoundAt(key)
  <2>1. f \in Slots /\ slot_states[f] = "used"
    BY <1>1, <1>4, FindIt DEF Holds
  <2>2. /\ array' = [array EXCEPT ![f].key = Null]
        /\ slot_states' = [slot_states EXCEPT ![f] = "deleted"]
        /\ length' = length - 1
        /\ npushed' = npushed - 1
        /\ UNCHANGED <<capacity, occupied, resizeVars, pc, op>>
        /\ result' = Returned(TRUE, Null)
        /\ pc = "ready"
    BY <1>4 DEF Remove
  <2> HIDE DEF f
  <2>3. capacity \in Capacities /\ capacity \in Nat
    BY <1>1, CapacityFacts DEF TypeOK
  <2>4. Used' = Used \ {f} /\ Deleted' = Deleted \cup {f}
    BY <1>1, <2>1, <2>2 DEF Used, Deleted, Slots, TypeOK
  <2>5. f \in Used /\ f \notin Deleted
    BY <2>1 DEF Used, Deleted
  <2>6. /\ IsFiniteSet(Used) /\ IsFiniteSet(Deleted)
        /\ Cardinality(Used) \in Nat /\ Cardinality(Deleted) \in Nat
    BY <2>3, SlotsFinite DEF Used, Deleted, Slots
  <2>7. Cardinality(Used') = Cardinality(Used) - 1
    BY <2>4, <2>5, <2>6, FS_RemoveElement
  <2>8. Cardinality(Deleted') = Cardinality(Deleted) + 1
    BY <2>4, <2>5, <2>6, FS_AddElement
  <2>9. CountsExact'
    <3>1. Cardinality(Used)' = Cardinality(Used) - 1
          /\ Cardinality(Deleted)' = Cardinality(Deleted) + 1
      BY <2>7, <2>8
    <3> QED
      BY <3>1, <1>1, <2>2, <2>6 DEF CountsExact
  <2>10. length' \in Nat /\ npushed' \in Nat
    <3>1. IsFiniteSet(Used')
      BY <2>4, <2>6, FS_RemoveElement
    <3>2. Cardinality(Used') \in Nat
      BY <3>1, FS_CardinalityType
    <3> QED
      BY <3>2, <2>7, <2>2, <1>1 DEF CountsExact
  <2>11. array' \in [Slots -> Buckets] /\ slot_states' \in [Slots -> States]
    BY <1>1, <2>1, <2>2 DEF TypeOK, Buckets, States
  <2>12. TypeOK'
    BY <1>1, <2>2, <2>10, <2>11 DEF TypeOK, resizeVars, Slots, NewSlots, Returned
  <2>13. Sound(array, slot_states, capacity)'
    <3>1. \A s \in 0 .. capacity - 1 : s # f => array'[s] = array[s]
      BY <1>1, <2>2 DEF TypeOK, Slots
    <3>2. Sound(array', slot_states', capacity)
      BY <1>1, <2>1, <2>2, <2>3, <3>1, BuryEntry DEF TypeOK, Slots
    <3> QED
      BY <3>2, <2>2 DEF Sound
  <2> QED
    BY <1>2, <2>9, <2>12, <2>13 DEF IInv
<1> QED
  BY <1>3, <1>4

LEMMA ZeroKeeps ==
  ASSUME IInv, Zero
  PROVE  IInv'
<1>1. TypeOK /\ capacity \in Capacities
  BY DEF IInv, TypeOK
<1>2. Calling'
  BY DEF Zero, Calling
<1>3. CountsExact'
  <2>1. Used' = {} /\ Deleted' = {}
    BY DEF Zero, Used, Deleted, Slots, ZeroedStates
  <2>2. Cardinality(Used)' = 0 /\ Cardinality(Deleted)' = 0
    BY <2>1, FS_EmptySet
  <2> QED
    BY <2>2 DEF Zero, CountsExact
<1>4. Sound(array, slot_states, capacity)'
  BY <1>1, EmptyTable DEF Zero, Sound
<1>5. TypeOK'
  <2>1. array' \in [Slots -> Buckets] /\ slot_states' \in [Slots -> States]
    BY <1>1, EmptyTable DEF Zero, Slots
  <2> QED
    BY <1>1, <2>1 DEF Zero, TypeOK, resizeVars, Slots, NewSlots, Returned
<1> QED
  BY <1>2, <1>3, <1>4, <1>5 DEF IInv

LEMMA StoreKeeps ==
  ASSUME IInv, NEW kind \in {"insert", "overwrite"}, NEW key \in Keys,
         NEW value \in Values, Store(kind, key, value)
  PROVE  IInv'
<1> DEFINE new_capacity == (2 * capacity) % (2 * MaxCapacity)
<1>1. TypeOK /\ Sound(array, slot_states, capacity) /\ CountsExact
  BY DEF IInv
<1>2. UNCHANGED <<mapVars, result>> /\ op' \in Ops
  BY DEF Store, Ops
<1>3. CountsExact'
  BY <1>1, <1>2 DEF CountsExact, Used, Deleted, Slots, mapVars
<1>4. Sound(array, slot_states, capacity)'
  BY <1>1, <1>2 DEF mapVars, Sound
<1>5. capacity \in Capacities /\ capacity \in Nat /\ capacity >= 2
      /\ MaxCapacity \in Nat /\ capacity <= MaxCapacity
  BY <1>1, CapacityFacts DEF TypeOK
<1>6. CASE ~MustGrow
  <2>1. pc' = "put" /\ UNCHANGED resizeVars
    BY <1>6 DEF Store
  <2>2. occupied < capacity
    BY <1>6, <1>1, <1>5 DEF MustGrow, TypeOK
  <2>3. Calling'
    BY <2>1, <2>2, <1>2 DEF Calling, mapVars
  <2>4. TypeOK'
    BY <1>1, <1>2, <2>1 DEF TypeOK, mapVars, resizeVars, Slots, NewSlots
  <2> QED
    BY <1>3, <1>4, <2>3, <2>4 DEF IInv
<1>7. CASE MustGrow /\ new_capacity < capacity
  <2>1. pc' = "dead" /\ UNCHANGED resizeVars
    BY <1>7 DEF Store
  <2>2. Calling'
    BY <2>1 DEF Calling
  <2>3. TypeOK'
    BY <1>1, <1>2, <2>1 DEF TypeOK, mapVars, resizeVars, Slots, NewSlots
  <2> QED
    BY <1>3, <1>4, <2>2, <2>3 DEF IInv
<1>8. CASE MustGrow /\ ~(new_capacity < capacity)
  <2>1. /\ pc' = "rehash" /\ j' = 0
        /\ new_array' = ZeroedArray(new_capacity)
        /\ new_slot_states' = ZeroedStates(new_capacity)
    BY <1>8 DEF Store
  <2>2. capacity < MaxCapacity
    <3>1. (2 * MaxCapacity) % (2 * MaxCapacity) = 0
      BY <1>5
    <3> QED
      BY <3>1, <1>5, <1>8
  <2>3. new_capacity = 2 * capacity
    BY <2>2, <1>5
  <2>4. 2 * capacity \in Capacities /\ MaxCapacity \in Nat
    BY <2>2, <1>5, ConstantsAssumption
  <2> HIDE DEF new_capacity
  <2>5. capacity' = capacity
    BY <1>2 DEF mapVars
  <2>6. Passed' = {}
    BY <2>1 DEF Passed
  <2>7. UsedIn(new_slot_states', 2 * capacity) = {}
    BY <2>1, <2>3, <2>4, EmptyTable
  <2>8. /\ new_array' \in [NewSlots -> Buckets]
        /\ new_slot_states' \in [NewSlots -> {"free", "used"}]
        /\ new_slot_states' \in [NewSlots -> States]
        /\ Sound(new_array', new_slot_states', 2 * capacity)
    BY <2>1, <2>3, <2>4, EmptyTable DEF NewSlots
  <2>9. Sound(new_array, new_slot_states, 2 * capacity)'
    BY <2>8, <2>5 DEF Sound
  <2>10. UsedIn(new_slot_states, 2 * capacity)' = {}
    BY <2>7, <2>5 DEF UsedIn
  <2>11. Filling'
    BY <1>2, <2>4, <2>5, <2>6, <2>8, <2>9, <2>10 DEF Filling, NewSlots
  <2>12. Calling'
    BY <2>1, <2>11 DEF Calling
  <2>13. TypeOK'
    BY <1>1, <1>2, <1>5, <2>1, <2>4, <2>5, <2>8 DEF TypeOK, mapVars, Slots, NewSlots
  <2> QED
    BY <1>3, <1>4, <2>12, <2>13 DEF IInv
<1> QED
  BY <1>6, <1>7, <1>8

LEMMA RehashKeeps ==
  ASSUME IInv, Rehash
  PROVE  IInv'
<1> DEFINE key == array[j].key
           c2 == 2 * capacity
           oldUsed == UsedIn(new_slot_states, c2)
<1>1. /\ TypeOK /\ Sound(array, slot_states, capacity) /\ CountsExact /\ Filling
      /\ pc = "rehash" /\ j < capacity
  BY DEF IInv, Rehash, Calling
<1>2. /\ UNCHANGED <<mapVars, pc, op, result>> /\ j' = j + 1
  BY DEF Rehash
<1>3. CountsExact'
  BY <1>1, <1>2 DEF CountsExact, Used, Deleted, Slots, mapVars
<1>4. Sound(array, slot_states, capacity)'
  BY <1>1, <1>2 DEF mapVars, Sound
<1>5. /\ capacity \in Capacities /\ capacity \in Nat /\ c2 \in Capacities /\ c2 \in Nat
      /\ capacity >= 2 /\ j \in Nat /\ j \in Slots /\ capacity' = capacity
      /\ array' = array /\ slot_states' = slot_states
  BY <1>1, <1>2, CapacityFacts DEF TypeOK, Filling, Slots, mapVars
<1>6. /\ IsFiniteSet(oldUsed) /\ IsFiniteSet(Passed)
      /\ Cardinality(Passed) \in Nat /\ Cardinality(Passed) <= j
      /\ Cardinality(oldUsed) = Cardinality(Passed)
  BY <1>1, <1>5, SlotsFinite DEF UsedIn, Passed, Filling
<1>7. j' \in 0 .. capacity'
  BY <1>1, <1>2, <1>5
<1>8. CASE slot_states[j] # "used"
  <2>1. UNCHANGED <<new_array, new_slot_states>>
    BY <1>8 DEF Rehash
  <2>2. Passed' = Passed
    BY <1>8, <1>2, <1>5 DEF Passed
  <2>3. Filling'
    <3>1. Sound(new_array, new_slot_states, 2 * capacity)'
      BY <1>1, <1>5, <2>1 DEF Filling, Sound
    <3>2. UsedIn(new_slot_states, 2 * capacity)' = oldUsed
      BY <1>5, <2>1 DEF UsedIn
    <3>3. /\ Cardinality(UsedIn(new_slot_states, 2 * capacity))' = Cardinality(Passed)'
          /\ {array[x] : x \in Passed}'
               = {new_array[x] : x \in UsedIn(new_slot_states, 2 * capacity)}'
      <4>1. {array[x] : x \in Passed} = {new_array[x] : x \in oldUsed}
        BY <1>1 DEF Filling
      <4> QED
        BY <4>1, <1>5, <1>6, <2>1, <2>2, <3>2
    <3>4. /\ op' \in Ops /\ 2 * capacity' \in Capacities
          /\ (new_array \in [NewSlots -> Buckets])'
          /\ (new_slot_states \in [NewSlots -> {"free", "used"}])'
      BY <1>1, <1>2, <1>5, <2>1 DEF Filling, NewSlots
    <3> QED
      BY <3>1, <3>3, <3>4 DEF Filling
  <2>4. TypeOK'
    BY <1>1, <1>2, <1>5, <1>7, <2>1 DEF TypeOK, mapVars, Slots, NewSlots
  <2> QED
    BY <1>1, <1>2, <1>3, <1>4, <2>3, <2>4 DEF IInv, Calling
<1>9. CASE slot_states[j] = "used"
  <2>1. key \in Keys /\ array[j] \in Buckets
        /\ \A i \in 0 .. capacity - 1 : slot_states[i] = "used" /\ array[i].key = key => i = j
    BY <1>1, <1>5, <1>9 DEF Sound, TypeOK, Slots
  <2>2. \A i \in NewSlots : NewPath(key, i) \in NewSlots
    <3>1. c2 \in 0 .. c2
      BY <1>5
    <3> QED
      BY <1>5, <2>1, <3>1, PathInside DEF NewPath, NewSlots
  <2>3. FreeSteps(key) # {}
    <3>1. Cardinality(oldUsed) < c2
      BY <1>1, <1>5, <1>6
    <3>2. PICK s \in 0 .. c2 - 1 : s \notin oldUsed
      BY <1>5, <3>1, OneLeft DEF UsedIn
    <3>3. new_slot_states[s] = "free"
      BY <3>2, <1>1 DEF UsedIn, Filling, NewSlots
    <3>4. Hash[key] \in Nat
      BY <2>1, ConstantsAssumption
    <3>5. PICK i \in 0 .. c2 - 1 : Probe(Hash[key], i, c2) = s
      BY <1>5, <3>4, ProbeCovers
    <3>6. i \in FreeSteps(key)
      BY <3>3, <3>5 DEF FreeSteps, NewPath, NewSlots
    <3> QED
      BY <3>6
  <2> DEFINE i == Least(FreeSteps(key))
             target == NewPath(key, i)
  <2>4. i \in FreeSteps(key) /\ \A h \in FreeSteps(key) : i <= h
    <3>1. FreeSteps(key) \in SUBSET Nat
      BY <1>5 DEF FreeSteps, NewSlots
    <3> QED
      BY <3>1, <2>3, LeastIs
  <2>5. i \in NewSlots /\ new_slot_states[target] = "free"
    BY <2>4 DEF FreeSteps
  <2>6. \A h \in 0 .. i - 1 : new_slot_states[NewPath(key, h)] # "free"
    <3> SUFFICES ASSUME NEW h \in 0 .. i - 1
                 PROVE  new_slot_states[NewPath(key, h)] # "free"
      OBVIOUS
    <3>1. i \in Nat /\ i <= c2 - 1
      BY <2>5, <1>5 DEF NewSlots
    <3> HIDE DEF i
    <3>2. h \in NewSlots /\ h < i /\ h \in Nat
      BY <3>1, <1>5 DEF NewSlots
    <3>3. h \notin FreeSteps(key)
      BY <3>1, <3>2, <2>4
    <3> QED
      BY <3>2, <3>3 DEF FreeSteps
  <2>7. /\ new_array' = [new_array EXCEPT ![target] = array[j]]
        /\ new_slot_states' = [new_slot_states EXCEPT ![target] = "used"]
    BY <1>9, <2>3 DEF Rehash
  <2>8. target \in NewSlots
    BY <2>2, <2>5
  <2>9. target = Probe(Hash[key], i, c2)
    BY DEF NewPath
  <2> HIDE DEF i
  <2>10. \A s \in 0 .. c2 - 1 : new_slot_states[s] = "used" => new_array[s].key # key
    <3> SUFFICES ASSUME NEW s \in 0 .. c2 - 1, new_slot_states[s] = "used",
                        new_array[s].key = key
                 PROVE  FALSE
      OBVIOUS
    <3>1. new_array[s] \in {new_array[x] : x \in oldUsed}
      BY DEF UsedIn
    <3>2. PICK x \in Passed : new_array[s] = array[x]
      BY <3>1, <1>1 DEF Filling
    <3>3. x \in 0 .. capacity - 1 /\ x # j /\ slot_states[x] = "used"
      BY <1>1, <1>5 DEF Passed
    <3> QED
      BY <3>2, <3>3, <2>1
  <2>11. Sound(new_array', new_slot_states', c2)
    <3>1. /\ new_array \in [0 .. c2 - 1 -> Buckets]
          /\ new_slot_states \in [0 .. c2 - 1 -> States]
          /\ Sound(new_array, new_slot_states, c2)
      BY <1>1 DEF Filling, TypeOK, NewSlots
    <3>2. \A h \in 0 .. i - 1 : new_slot_states[Probe(Hash[key], h, c2)] # "free"
      BY <2>6 DEF NewPath
    <3>3. i \in 0 .. c2 - 1
      BY <2>5 DEF NewSlots
    <3> HIDE DEF target, key, c2
    <3>4. array[j].key = key
      BY DEF key
    <3>5. Sound([new_array EXCEPT ![target] = array[j]],
                [new_slot_states EXCEPT ![target] = "used"], c2)
      BY <1>5, <2>1, <2>9, <2>10, <3>1, <3>2, <3>3, <3>4, AddEntry
    <3> QED
      BY <2>7, <3>5
  <2> HIDE DEF target
  <2>12. /\ new_array' \in [NewSlots -> Buckets]
         /\ new_slot_states' \in [NewSlots -> {"free", "used"}]
         /\ new_slot_states' \in [NewSlots -> States]
    BY <1>1, <2>1, <2>7, <2>8 DEF Filling, States
  <2>13. Passed' = Passed \cup {j} /\ j \notin Passed
    BY <1>2, <1>5, <1>9 DEF Passed
  <2>14. UsedIn(new_slot_states', c2) = oldUsed \cup {target} /\ target \notin oldUsed
    BY <1>1, <2>5, <2>7, <2>8 DEF UsedIn, NewSlots, Filling
  <2>15. Cardinality(UsedIn(new_slot_states', c2)) = Cardinality(Passed')
    <3>1. Cardinality(oldUsed \cup {target}) = Cardinality(oldUsed) + 1
      BY <1>6, <2>14, FS_AddElement
    <3>2. Cardinality(Passed \cup {j}) = Cardinality(Passed) + 1
      BY <1>6, <2>13, FS_AddElement
    <3> QED
      BY <3>1, <3>2, <2>13, <2>14, <1>6
  <2>16. {array[x] : x \in Passed'} = {new_array'[x] : x \in UsedIn(new_slot_states', c2)}
    <3>1. {array[x] : x \in Passed} = {new_array[x] : x \in oldUsed}
      BY <1>1 DEF Filling
    <3>2. \A x \in oldUsed : new_array'[x] = new_array[x]
      BY <2>7, <2>14, <1>1 DEF UsedIn, Filling, NewSlots
    <3>3. new_array'[target] = array[j]
      BY <2>7, <2>8, <1>1 DEF Filling
    <3>4. {new_array'[x] : x \in oldUsed \cup {target}}
            = {new_array[x] : x \in oldUsed} \cup {array[j]}
      BY <3>2, <3>3
    <3>5. {array[x] : x \in Passed \cup {j}} = {array[x] : x \in Passed} \cup {array[j]}
      OBVIOUS
    <3> QED
      BY <3>1, <3>4, <3>5, <2>13, <2>14
  <2>17. Filling'
    <3>1. Sound(new_array, new_slot_states, 2 * capacity)'
      BY <2>11, <1>5 DEF Sound
    <3>2. Cardinality(UsedIn(new_slot_states, 2 * capacity))' = Cardinality(Passed)'
      BY <2>15, <1>5 DEF UsedIn
    <3>3. {array[x] : x \in Passed}'
            = {new_array[x] : x \in UsedIn(new_slot_states, 2 * capacity)}'
      BY <2>16, <1>5 DEF UsedIn
    <3>4. /\ op' \in Ops /\ 2 * capacity' \in Capacities
          /\ (new_array \in [NewSlots -> Buckets])'
          /\ (new_slot_states \in [NewSlots -> {"free", "used"}])'
      BY <1>1, <1>2, <1>5, <2>12 DEF Filling, NewSlots
    <3> QED
      BY <3>1, <3>2, <3>3, <3>4 DEF Filling
  <2>18. TypeOK'
    BY <1>1, <1>2, <1>5, <1>7, <2>12 DEF TypeOK, mapVars, Slots, NewSlots
  <2> QED
    BY <1>1, <1>2, <1>3, <1>4, <2>17, <2>18 DEF IInv, Calling
<1> QED
  BY <1>8, <1>9

LEMMA RehashEndsKeeps ==
  ASSUME IInv, RehashEnds
  PROVE  IInv'
<1>1. /\ TypeOK /\ CountsExact /\ Filling
      /\ pc' = "put" /\ j >= capacity
  BY DEF IInv, RehashEnds, Calling
<1>2. /\ array' = new_array /\ slot_states' = new_slot_states
      /\ capacity' = 2 * capacity /\ occupied' = length /\ j' = 0
      /\ UNCHANGED <<length, npushed, op, result>>
  BY DEF RehashEnds
<1>3. capacity \in Nat /\ capacity >= 2 /\ 2 * capacity \in Capacities /\ j = capacity
  BY <1>1, CapacityFacts DEF TypeOK, Filling
<1>4. Passed = Used
  BY <1>3 DEF Passed, Used, Slots
<1>5. /\ Used' = UsedIn(new_slot_states, 2 * capacity)
      /\ Deleted' = {}
  BY <1>1, <1>2 DEF Used, Deleted, Slots, UsedIn, Filling, NewSlots
<1>6. length \in Nat /\ length = Cardinality(Used) /\ length <= capacity
  BY <1>1, <1>3, SlotsFinite DEF CountsExact, TypeOK, Used, Slots
<1>7. Cardinality(Used)' = length /\ Cardinality(Deleted)' = 0
  BY <1>1, <1>4, <1>5, <1>6, FS_EmptySet DEF Filling
<1>8. CountsExact'
  BY <1>1, <1>2, <1>6, <1>7 DEF CountsExact
<1>9. Sound(array, slot_states, capacity)'
  BY <1>1, <1>2 DEF Filling, Sound
<1>10. Calling'
  BY <1>1, <1>2, <1>3, <1>6 DEF Calling, Filling
<1>11. TypeOK'
  <2>1. (array \in [Slots -> Buckets])' /\ (slot_states \in [Slots -> States])'
    BY <1>1, <1>2 DEF Filling, Slots, NewSlots, States
  <2>2. j' \in 0 .. capacity' /\ capacity' \in Capacities /\ occupied' \in Nat
    BY <1>2, <1>3, <1>6
  <2>3. /\ length' \in Nat /\ npushed' \in Nat /\ op' \in Ops \cup {NoOp}
        /\ result' \in [ok : BOOLEAN, value : Values \cup {Null}]
    BY <1>1, <1>2 DEF TypeOK
  <2> QED
    BY <1>1, <2>1, <2>2, <2>3 DEF TypeOK
<1> QED
  BY <1>8, <1>9, <1>10, <1>11 DEF IInv

LEMMA PutFoundKeeps ==
  ASSUME IInv, PutFound
  PROVE  IInv'
<1> DEFINE f == FoundAt(op.key)
<1>1. /\ TypeOK /\ Sound(array, slot_states, capacity) /\ CountsExact
      /\ op \in Ops /\ op.key \in Keys /\ op.value \in Values
  BY DEF IInv, PutFound, Calling, Ops
<1>2. f \in Slots
  BY <1>1, FindIt DEF PutFound
<1>3. /\ array' = IF op.kind = "overwrite"
                  THEN [array EXCEPT ![f].value = op.value] ELSE array
      /\ result' = Returned(op.kind = "overwrite", Null)
      /\ pc' = "ready" /\ op' = NoOp
      /\ UNCHANGED <<capacity, length, occupied, slot_states, npushed, resizeVars>>
  BY DEF PutFound
<1> HIDE DEF f
<1>4. /\ array' \in [Slots -> Buckets]
      /\ \A s \in Slots : array'[s].key = array[s].key
  <2>1. array \in [Slots -> Buckets]
    BY <1>1 DEF TypeOK
  <2>2. CASE op.kind = "overwrite"
    BY <1>1, <1>2, <1>3, <2>1, <2>2 DEF Buckets
  <2>3. CASE op.kind # "overwrite"
    BY <1>3, <2>1, <2>3
  <2> QED
    BY <2>2, <2>3
<1>5. CountsExact'
  BY <1>1, <1>3 DEF CountsExact, Used, Deleted, Slots
<1>6. Sound(array, slot_states, capacity)'
  BY <1>1, <1>3, <1>4 DEF Sound, Slots
<1>7. Calling'
  BY <1>3 DEF Calling
<1>8. TypeOK'
  <2>1. result' \in [ok : BOOLEAN, value : Values \cup {Null}]
    BY <1>3 DEF Returned
  <2> QED
    BY <1>1, <1>3, <1>4, <2>1 DEF TypeOK, resizeVars, Slots, NewSlots
<1> QED
  BY <1>5, <1>6, <1>7, <1>8 DEF IInv

LEMMA PutNewKeeps ==
  ASSUME IInv, PutNew
  PROVE  IInv'
<1> DEFINE target == Target(op.key)
           bucket == [key |-> op.key, value |-> op.value]
<1>1. /\ TypeOK /\ Sound(array, slot_states, capacity) /\ CountsExact
      /\ op \in Ops /\ op.key \in Keys /\ op.value \in Values
      /\ ~Found(op.key) /\ HasTarget(op.key)
  BY DEF IInv, PutNew, Calling, Ops
<1>2. /\ occupied' = occupied + (IF slot_states[target] = "free" THEN 1 ELSE 0)
      /\ array' = [array EXCEPT ![target] = bucket]
      /\ slot_states' = [slot_states EXCEPT ![target] = "used"]
      /\ length' = length + 1 /\ npushed' = npushed + 1
      /\ result' = Returned(TRUE, Null) /\ pc' = "ready" /\ op' = NoOp
      /\ UNCHANGED <<capacity, resizeVars>>
  BY DEF PutNew
<1>3. capacity \in Capacities /\ capacity \in Nat
  BY <1>1, CapacityFacts DEF TypeOK
<1>4. PICK i \in Slots :
        /\ target = Path(op.key, i)
        /\ slot_states[Path(op.key, i)] # "used"
        /\ \A h \in 0 .. i - 1 : slot_states[Path(op.key, h)] # "free"
  BY <1>1, TargetFacts
<1> HIDE DEF target
<1>5. target \in Slots
  <2>1. capacity \in 0 .. capacity
    BY <1>3
  <2> QED
    BY <1>1, <1>3, <1>4, <2>1, PathInside DEF Path, Slots
<1>6. \A s \in 0 .. capacity - 1 : slot_states[s] = "used" => array[s].key # op.key
  BY <1>1, FindIt DEF Holds, Slots
<1>7. Sound(array', slot_states', capacity)
  <2>1. bucket \in Buckets /\ bucket.key = op.key
    BY <1>1 DEF Buckets
  <2>2. /\ i \in 0 .. capacity - 1
        /\ target = Probe(Hash[op.key], i, capacity)
        /\ \A h \in 0 .. i - 1 : slot_states[Probe(Hash[op.key], h, capacity)] # "free"
    BY <1>4 DEF Path, Slots
  <2>3. array \in [0 .. capacity - 1 -> Buckets] /\ slot_states \in [0 .. capacity - 1 -> States]
    BY <1>1 DEF TypeOK, Slots
  <2> HIDE DEF bucket
  <2>4. Sound([array EXCEPT ![target] = bucket], [slot_states EXCEPT ![target] = "used"], capacity)
    BY <1>1, <1>3, <1>6, <2>1, <2>2, <2>3, AddEntry
  <2> QED
    BY <1>2, <2>4 DEF bucket
<1>8. Sound(array, slot_states, capacity)'
  BY <1>2, <1>7 DEF Sound
<1>9. /\ IsFiniteSet(Used) /\ IsFiniteSet(Deleted)
      /\ Cardinality(Used) \in Nat /\ Cardinality(Deleted) \in Nat
  BY <1>3, SlotsFinite DEF Used, Deleted, Slots
<1>10. Used' = Used \cup {target} /\ target \notin Used
  BY <1>1, <1>2, <1>4, <1>5 DEF Used, Slots, TypeOK
<1>11. Cardinality(Used') = Cardinality(Used) + 1
  BY <1>9, <1>10, FS_AddElement
<1>12. Cardinality(Used)' = Cardinality(Used) + 1
  BY <1>11
<1>13. ASSUME slot_states[target] = "free"
       PROVE  CountsExact'
  <2>1. Deleted' = Deleted
    BY <1>1, <1>2, <1>5, <1>13 DEF Deleted, Slots, TypeOK
  <2>2. Cardinality(Deleted)' = Cardinality(Deleted)
    BY <2>1
  <2> QED
    BY <1>1, <1>2, <1>9, <1>12, <1>13, <2>2 DEF CountsExact
<1>14. ASSUME slot_states[target] # "free"
       PROVE  CountsExact'
  <2>1. slot_states[target] = "deleted"
    BY <1>1, <1>4, <1>5, <1>14 DEF TypeOK, States
  <2>2. Deleted' = Deleted \ {target} /\ target \in Deleted
    BY <1>1, <1>2, <1>5, <2>1 DEF Deleted, Slots, TypeOK
  <2>3. Cardinality(Deleted') = Cardinality(Deleted) - 1
    BY <1>9, <2>2, FS_RemoveElement
  <2>4. Cardinality(Deleted)' = Cardinality(Deleted) - 1
    BY <2>3
  <2> QED
    BY <1>1, <1>2, <1>9, <1>12, <1>14, <2>4 DEF CountsExact
<1>15. Calling'
  BY <1>2 DEF Calling
<1>16. TypeOK'
  <2>1. array' \in [Slots -> Buckets] /\ slot_states' \in [Slots -> States]
    BY <1>1, <1>2, <1>5 DEF TypeOK, Buckets, States
  <2>2. length' \in Nat /\ npushed' \in Nat /\ occupied' \in Nat
    BY <1>1, <1>2 DEF TypeOK
  <2> QED
    BY <1>1, <1>2, <2>1, <2>2 DEF TypeOK, resizeVars, Slots, NewSlots, Returned
<1> QED
  BY <1>8, <1>13, <1>14, <1>15, <1>16 DEF IInv

LEMMA StutterKeeps ==
  ASSUME IInv, UNCHANGED vars
  PROVE  IInv'
<1>1. TypeOK /\ CountsExact /\ Sound(array, slot_states, capacity) /\ Calling
  BY DEF IInv
<1>2. UNCHANGED <<capacity, length, occupied, array, slot_states, npushed>>
      /\ UNCHANGED <<new_array, new_slot_states, j>> /\ UNCHANGED <<pc, op, result>>
  BY DEF vars, mapVars, resizeVars
<1>3. TypeOK'
  BY <1>1, <1>2 DEF TypeOK, Slots, NewSlots
<1>4. CountsExact'
  BY <1>1, <1>2 DEF CountsExact, Used, Deleted, Slots
<1>5. Sound(array, slot_states, capacity)'
  BY <1>1, <1>2 DEF Sound
<1>6. Calling'
  <2>1. Sound(new_array, new_slot_states, 2 * capacity)
          => Sound(new_array, new_slot_states, 2 * capacity)'
    BY <1>2 DEF Sound
  <2>2. UsedIn(new_slot_states, 2 * capacity)' = UsedIn(new_slot_states, 2 * capacity)
        /\ Passed' = Passed
    BY <1>2 DEF UsedIn, Passed
  <2>3. Filling => Filling'
    BY <1>2, <2>1, <2>2, ZenonT(30) DEF Filling, NewSlots
  <2> QED
    BY <1>1, <1>2, <2>3 DEF Calling
<1> QED
  BY <1>3, <1>4, <1>5, <1>6 DEF IInv

LEMMA NextKeepsIInv == IInv /\ [Next]_vars => IInv'
<1> SUFFICES ASSUME IInv, [Next]_vars
             PROVE  IInv'
  OBVIOUS
<1>1. ASSUME NEW key \in Keys, Lookup(key) \/ Remove(key)
      PROVE  IInv'
  BY <1>1, LookupKeeps, RemoveKeeps
<1>2. ASSUME NEW kind \in {"insert", "overwrite"}, NEW key \in Keys,
             NEW value \in Values, Store(kind, key, value)
      PROVE  IInv'
  BY <1>2, StoreKeeps
<1>3. Zero => IInv'
  BY ZeroKeeps
<1>4. Rehash \/ RehashEnds => IInv'
  BY RehashKeeps, RehashEndsKeeps
<1>5. PutFound \/ PutNew => IInv'
  BY PutFoundKeeps, PutNewKeeps
<1>6. UNCHANGED vars => IInv'
  BY StutterKeeps
<1> QED
  BY <1>1, <1>2, <1>3, <1>4, <1>5, <1>6 DEF Next

LEMMA AlwaysIInv == Spec => []IInv
BY InitIInv, NextKeepsIInv, PTL DEF Spec

-----------------------------------------------------------------------------
(* Every variable of hash.c keeps its type: no index of a loop leaves the  *)
(* table, and a capacity is always one of the powers of two. *)
THEOREM TypeCorrect == Spec => []TypeOK
<1>1. IInv => TypeOK
  BY DEF IInv
<1> QED
  BY <1>1, AlwaysIInv, PTL

(* The counts of the map and of its arena are exact. *)
THEOREM CountsAlwaysExact == Spec => []CountsExact
<1>1. IInv => CountsExact
  BY DEF IInv
<1> QED
  BY <1>1, AlwaysIInv, PTL

(* No key is stored twice or hidden behind a free slot, in any sequence of *)
(* calls, for any hash function. *)
THEOREM AlwaysReachable == Spec => []Reachable
<1>1. IInv => Reachable
  <2> SUFFICES ASSUME Sound(array, slot_states, capacity)
               PROVE  Reachable
    BY DEF IInv
  <2> QED
    BY DEF Sound, Reachable, Used, Slots, Path
<1> QED
  BY <1>1, AlwaysIInv, PTL

(* hash_insert and hash_overwrite always have a slot to write to. *)
THEOREM AlwaysTarget == Spec => []PutHasTarget
<1>1. IInv => PutHasTarget
  BY RoomTarget DEF IInv, Calling, PutHasTarget, Ops
<1> QED
  BY <1>1, AlwaysIInv, PTL

(* hash_resize loses no entry and makes none up. *)
THEOREM RehashAlwaysKeepsAll == Spec => []RehashKeepsAll
<1>1. IInv => RehashKeepsAll
  BY DEF IInv, Calling, Filling, RehashKeepsAll, Passed, UsedIn, NewSlots
<1> QED
  BY <1>1, AlwaysIInv, PTL
-----------------------------------------------------------------------------
(***************************************************************************)
(* HashMap implements KeyMap, for any keys, hashes, values and capacities. *)
(* A call takes effect in the step that returns; growing the table is a    *)
(* stuttering step of the map.                                             *)
(***************************************************************************)

(* A table has an entry, and the map a table is. *)
Entry(arr, st, c, k, v) ==
  \E s \in 0 .. c - 1 : st[s] = "used" /\ arr[s].key = k /\ arr[s].value = v

MapOf(arr, st, c) ==
  [k \in Keys |->
     IF \E s \in UsedIn(st, c) : arr[s].key = k
     THEN arr[CHOOSE s \in UsedIn(st, c) : arr[s].key = k].value
     ELSE Null]

LEMMA MapFacts ==
  ASSUME NEW arr, NEW st, NEW c, Sound(arr, st, c), NEW k \in Keys
  PROVE  /\ \A v : Entry(arr, st, c, k, v) => MapOf(arr, st, c)[k] = v
         /\ (\A v : ~Entry(arr, st, c, k, v)) => MapOf(arr, st, c)[k] = Null
<1>1. ASSUME NEW v, Entry(arr, st, c, k, v)
      PROVE  MapOf(arr, st, c)[k] = v
  <2>1. PICK s \in 0 .. c - 1 : st[s] = "used" /\ arr[s].key = k /\ arr[s].value = v
    BY <1>1 DEF Entry
  <2> DEFINE o == CHOOSE o \in UsedIn(st, c) : arr[o].key = k
  <2>2. s \in UsedIn(st, c)
    BY <2>1 DEF UsedIn
  <2>3. o \in UsedIn(st, c) /\ arr[o].key = k
    BY <2>1, <2>2
  <2>4. MapOf(arr, st, c)[k] = arr[o].value
    BY <2>1, <2>2 DEF MapOf
  <2> HIDE DEF o
  <2>5. o = s
    BY <2>1, <2>3 DEF Sound, UsedIn
  <2> QED
    BY <2>1, <2>4, <2>5
<1>2. ASSUME \A v : ~Entry(arr, st, c, k, v)
      PROVE  MapOf(arr, st, c)[k] = Null
  <2>1. ASSUME NEW s \in UsedIn(st, c), arr[s].key = k
        PROVE  FALSE
    <3>1. Entry(arr, st, c, k, arr[s].value)
      BY <2>1 DEF Entry, UsedIn
    <3> QED
      BY <3>1, <1>2
  <2> QED
    BY <2>1 DEF MapOf
<1> QED
  BY <1>1, <1>2

(* Tables with the same entries for a key agree on it. *)
LEMMA SameKey ==
  ASSUME NEW arr, NEW st, NEW c, Sound(arr, st, c),
         NEW arr2, NEW st2, NEW c2, Sound(arr2, st2, c2),
         NEW k \in Keys,
         \A v : Entry(arr, st, c, k, v) <=> Entry(arr2, st2, c2, k, v)
  PROVE  MapOf(arr2, st2, c2)[k] = MapOf(arr, st, c)[k]
<1>1. CASE \E v : Entry(arr, st, c, k, v)
  <2>1. PICK v : Entry(arr, st, c, k, v)
    BY <1>1
  <2>2. Entry(arr2, st2, c2, k, v)
    BY <2>1
  <2>3. MapOf(arr, st, c)[k] = v
    BY <2>1, MapFacts
  <2>4. MapOf(arr2, st2, c2)[k] = v
    BY <2>2, MapFacts
  <2> QED
    BY <2>3, <2>4
<1>2. CASE \A v : ~Entry(arr, st, c, k, v)
  <2>1. \A v : ~Entry(arr2, st2, c2, k, v)
    BY <1>2
  <2>2. MapOf(arr, st, c)[k] = Null
    BY <1>2, MapFacts
  <2>3. MapOf(arr2, st2, c2)[k] = Null
    BY <2>1, MapFacts
  <2> QED
    BY <2>2, <2>3
<1> QED
  BY <1>1, <1>2

(* Tables that agree on every key but one differ in the value of that one. *)
LEMMA OneKey ==
  ASSUME NEW arr, NEW st, NEW c, Sound(arr, st, c),
         NEW arr2, NEW st2, NEW c2, Sound(arr2, st2, c2),
         NEW k \in Keys, NEW w,
         \A l \in Keys \ {k} : \A v : Entry(arr, st, c, l, v) <=> Entry(arr2, st2, c2, l, v),
         MapOf(arr2, st2, c2)[k] = w
  PROVE  MapOf(arr2, st2, c2) = [MapOf(arr, st, c) EXCEPT ![k] = w]
<1> DEFINE M == MapOf(arr, st, c)
           M2 == MapOf(arr2, st2, c2)
<1>1. \A l \in Keys \ {k} : M2[l] = M[l]
  BY SameKey
<1>2. /\ M = [l \in Keys |-> M[l]]
      /\ M2 = [l \in Keys |-> M2[l]]
  BY DEF MapOf
<1> HIDE DEF M, M2
<1>3. M2 = [M EXCEPT ![k] = w]
  <2>1. M2[k] = w
    BY DEF M2
  <2> QED
    BY <1>1, <1>2, <2>1
<1> QED
  BY <1>3 DEF M, M2

LEMMA SameMap ==
  ASSUME NEW arr, NEW st, NEW c, Sound(arr, st, c),
         NEW arr2, NEW st2, NEW c2, Sound(arr2, st2, c2),
         \A k \in Keys : \A v : Entry(arr, st, c, k, v) <=> Entry(arr2, st2, c2, k, v)
  PROVE  MapOf(arr2, st2, c2) = MapOf(arr, st, c)
<1>1. \A k \in Keys : MapOf(arr2, st2, c2)[k] = MapOf(arr, st, c)[k]
  BY SameKey
<1>2. /\ MapOf(arr, st, c) = [k \in Keys |-> MapOf(arr, st, c)[k]]
      /\ MapOf(arr2, st2, c2) = [k \in Keys |-> MapOf(arr2, st2, c2)[k]]
  BY DEF MapOf
<1> QED
  BY <1>1, <1>2

LEMMA ContentsIs ==
  /\ Contents = MapOf(array, slot_states, capacity)
  /\ Contents' = MapOf(array', slot_states', capacity')
BY DEF Contents, MapOf, Used, UsedIn, Slots
-----------------------------------------------------------------------------
(* What a search finds is what the map has. *)
LEMMA SearchIs ==
  ASSUME TypeOK, Sound(array, slot_states, capacity), NEW k \in Keys
  PROVE  /\ Found(k) <=> Contents[k] # Null
         /\ Found(k) => Contents[k] = array[FoundAt(k)].value
         /\ Found(k) => /\ FoundAt(k) \in 0 .. capacity - 1
                        /\ slot_states[FoundAt(k)] = "used"
                        /\ array[FoundAt(k)].key = k
         /\ ~Found(k) => /\ Contents[k] = Null
                         /\ \A s \in 0 .. capacity - 1 :
                              slot_states[s] = "used" => array[s].key # k
<1>1. ASSUME Found(k)
      PROVE  /\ Contents[k] = array[FoundAt(k)].value /\ Contents[k] # Null
             /\ FoundAt(k) \in 0 .. capacity - 1
             /\ slot_states[FoundAt(k)] = "used"
             /\ array[FoundAt(k)].key = k
  <2>1. FoundAt(k) \in Slots /\ Holds(FoundAt(k), k)
    BY <1>1, FindIt
  <2>2. Entry(array, slot_states, capacity, k, array[FoundAt(k)].value)
    BY <2>1 DEF Entry, Holds, Slots
  <2>3. Contents[k] = array[FoundAt(k)].value
    BY <2>2, MapFacts, ContentsIs
  <2>4. array[FoundAt(k)].value \in Values
    BY <2>1 DEF TypeOK, Buckets
  <2> QED
    BY <2>1, <2>3, <2>4, ConstantsAssumption DEF Holds, Slots
<1>2. ASSUME ~Found(k)
      PROVE  /\ Contents[k] = Null
             /\ \A s \in 0 .. capacity - 1 :
                  slot_states[s] = "used" => array[s].key # k
  <2>1. \A s \in 0 .. capacity - 1 : slot_states[s] = "used" => array[s].key # k
    BY <1>2, FindIt DEF Holds, Slots
  <2>2. \A v : ~Entry(array, slot_states, capacity, k, v)
    BY <2>1 DEF Entry
  <2> QED
    BY <2>1, <2>2, MapFacts, ContentsIs
<1> QED
  BY <1>1, <1>2

LEMMA LookupRefines ==
  ASSUME IInv, NEW key \in Keys, Lookup(key)
  PROVE  KM!Lookup(key)
<1>1. TypeOK /\ Sound(array, slot_states, capacity)
  BY DEF IInv
<1>2. Contents' = Contents
  BY ContentsIs DEF Lookup, mapVars
<1>3. CASE Found(key)
  <2>1. result' = Returned(TRUE, Contents[key]) /\ Contents[key] # Null
    BY <1>1, <1>3, SearchIs DEF Lookup
  <2> QED
    BY <1>2, <2>1 DEF KM!Lookup, KM!Has, KM!Returned, Returned
<1>4. CASE ~Found(key)
  <2>1. result' = Returned(FALSE, Null) /\ Contents[key] = Null
    BY <1>1, <1>4, SearchIs DEF Lookup
  <2> QED
    BY <1>2, <2>1 DEF KM!Lookup, KM!Has, KM!Returned, Returned
<1> QED
  BY <1>3, <1>4

LEMMA RemoveRefines ==
  ASSUME IInv, NEW key \in Keys, Remove(key)
  PROVE  KM!Remove(key)
<1>1. TypeOK /\ Sound(array, slot_states, capacity)
  BY DEF IInv
<1>2. IInv'
  BY RemoveKeeps
<1>3. Sound(array', slot_states', capacity')
  BY <1>2 DEF IInv, Sound
<1>4. Contents = [k \in Keys |-> Contents[k]]
  BY DEF Contents
<1>5. CASE Found(key)
  <2> DEFINE f == FoundAt(key)
  <2>1. f \in 0 .. capacity - 1 /\ slot_states[f] = "used" /\ array[f].key = key
        /\ Contents[key] # Null
    BY <1>1, <1>5, SearchIs
  <2>2. /\ array' = [array EXCEPT ![f].key = Null]
        /\ slot_states' = [slot_states EXCEPT ![f] = "deleted"]
        /\ capacity' = capacity /\ result' = Returned(TRUE, Null)
    BY <1>5 DEF Remove
  <2> HIDE DEF f
  <2>3. \A s \in 0 .. capacity - 1 :
          /\ slot_states'[s] = "used" <=> slot_states[s] = "used" /\ s # f
          /\ s # f => array'[s] = array[s]
    BY <1>1, <2>1, <2>2 DEF TypeOK, Slots
  <2>4. \A s \in 0 .. capacity - 1 :
          slot_states[s] = "used" /\ array[s].key = key => s = f
    BY <1>1, <2>1 DEF Sound
  <2>5. \A l \in Keys \ {key} : \A v :
          Entry(array, slot_states, capacity, l, v)
            <=> Entry(array', slot_states', capacity', l, v)
    BY <2>1, <2>2, <2>3 DEF Entry
  <2>6. \A v : ~Entry(array', slot_states', capacity', key, v)
    BY <2>2, <2>3, <2>4 DEF Entry
  <2>7. MapOf(array', slot_states', capacity')[key] = Null
    BY <1>3, <2>6, MapFacts
  <2>8. Contents' = [Contents EXCEPT ![key] = Null]
    BY <1>1, <1>3, <2>5, <2>7, OneKey, ContentsIs
  <2> QED
    BY <2>1, <2>2, <2>8 DEF KM!Remove, KM!Has, KM!Returned, Returned
<1>6. CASE ~Found(key)
  <2>1. result' = Returned(FALSE, Null) /\ Contents[key] = Null
    BY <1>1, <1>6, SearchIs DEF Remove, Found
  <2>2. Contents' = Contents
    BY <1>6, ContentsIs DEF Remove
  <2>3. Contents' = [Contents EXCEPT ![key] = Null]
    BY <1>4, <2>1, <2>2
  <2> QED
    BY <2>1, <2>3 DEF KM!Remove, KM!Has, KM!Returned, Returned
<1> QED
  BY <1>5, <1>6

LEMMA EmptyIs ==
  ASSUME NEW c
  PROVE  MapOf(ZeroedArray(c), ZeroedStates(c), c) = [k \in Keys |-> Null]
<1>1. \A s \in UsedIn(ZeroedStates(c), c) : FALSE
  BY DEF UsedIn, ZeroedStates
<1> QED
  BY <1>1 DEF MapOf

LEMMA ZeroRefines ==
  ASSUME IInv, Zero
  PROVE  KM!Zero
<1>1. Contents' = [k \in Keys |-> Null]
  BY EmptyIs, ContentsIs DEF Zero
<1> QED
  BY <1>1 DEF Zero, KM!Zero, KM!Returned, Returned

(* Neither the call's entry nor a step of hash_resize changes the map. *)
LEMMA GrowingStutters ==
  ASSUME IInv, \/ Rehash \/ RehashEnds \/ UNCHANGED vars
               \/ \E kind \in {"insert", "overwrite"}, key \in Keys, value \in Values :
                    Store(kind, key, value)
  PROVE  UNCHANGED <<Contents, result>>
<1>1. ASSUME UNCHANGED <<mapVars, result>>
      PROVE  UNCHANGED <<Contents, result>>
  BY <1>1, ContentsIs DEF mapVars
<1>2. ASSUME RehashEnds
      PROVE  UNCHANGED <<Contents, result>>
  <2>1. /\ TypeOK /\ Sound(array, slot_states, capacity) /\ Filling
        /\ j >= capacity
    BY <1>2 DEF IInv, RehashEnds, Calling
  <2>2. /\ array' = new_array /\ slot_states' = new_slot_states
        /\ capacity' = 2 * capacity /\ result' = result
    BY <1>2 DEF RehashEnds
  <2>3. capacity \in Nat /\ j = capacity
    BY <2>1, CapacityFacts DEF TypeOK
  <2>4. {array[i] : i \in Passed}
          = {new_array[i] : i \in UsedIn(new_slot_states, 2 * capacity)}
    BY <2>1 DEF Filling
  <2>5. Passed = UsedIn(slot_states, capacity)
    BY <2>3 DEF Passed, UsedIn
  <2>6. ASSUME NEW k \in Keys, NEW v
        PROVE  Entry(array, slot_states, capacity, k, v)
                 <=> Entry(new_array, new_slot_states, 2 * capacity, k, v)
    <3>1. Entry(array, slot_states, capacity, k, v)
            <=> \E b \in {array[i] : i \in Passed} : b.key = k /\ b.value = v
      BY <2>5 DEF Entry, UsedIn
    <3>2. Entry(new_array, new_slot_states, 2 * capacity, k, v)
            <=> \E b \in {new_array[i] : i \in UsedIn(new_slot_states, 2 * capacity)} :
                  b.key = k /\ b.value = v
      BY DEF Entry, UsedIn
    <3> QED
      BY <3>1, <3>2, <2>4
  <2>7. Sound(new_array, new_slot_states, 2 * capacity)
    BY <2>1 DEF Filling
  <2>8. MapOf(new_array, new_slot_states, 2 * capacity) = MapOf(array, slot_states, capacity)
    BY <2>1, <2>6, <2>7, SameMap
  <2> QED
    BY <2>2, <2>8, ContentsIs
<1>3. Rehash => UNCHANGED <<mapVars, result>>
  BY DEF Rehash
<1>4. UNCHANGED vars => UNCHANGED <<mapVars, result>>
  BY DEF vars
<1>5. (\E kind \in {"insert", "overwrite"}, key \in Keys, value \in Values :
         Store(kind, key, value)) => UNCHANGED <<mapVars, result>>
  BY DEF Store
<1> QED
  BY <1>1, <1>2, <1>3, <1>4, <1>5

(* The call's end: an insertion of a key the map has changes nothing. *)
LEMMA PutFoundRefines ==
  ASSUME IInv, PutFound
  PROVE  KM!Insert(op.key, op.value) \/ KM!Overwrite(op.key, op.value)
<1> DEFINE key == op.key
           f == FoundAt(op.key)
<1>1. /\ TypeOK /\ Sound(array, slot_states, capacity)
      /\ op \in Ops /\ key \in Keys /\ op.value \in Values
      /\ Found(key)
  BY DEF IInv, PutFound, Calling, Ops
<1>2. IInv'
  BY PutFoundKeeps
<1>3. Sound(array', slot_states', capacity')
  BY <1>2 DEF IInv, Sound
<1>4. f \in 0 .. capacity - 1 /\ slot_states[f] = "used" /\ array[f].key = key
      /\ Contents[key] # Null
  BY <1>1, SearchIs
<1>5. /\ array' = IF op.kind = "overwrite"
                  THEN [array EXCEPT ![f].value = op.value] ELSE array
      /\ result' = Returned(op.kind = "overwrite", Null)
      /\ slot_states' = slot_states /\ capacity' = capacity
  BY DEF PutFound
<1> HIDE DEF f
<1>6. CASE op.kind = "overwrite"
  <2>1. array' = [array EXCEPT ![f].value = op.value]
    BY <1>5, <1>6
  <2>2. /\ \A s \in 0 .. capacity - 1 : s # f => array'[s] = array[s]
        /\ array'[f].key = key /\ array'[f].value = op.value
    <3>1. array \in [0 .. capacity - 1 -> Buckets]
      BY <1>1 DEF TypeOK, Slots
    <3> QED
      BY <1>4, <2>1, <3>1 DEF Buckets
  <2>3. \A l \in Keys \ {key} : \A v :
          Entry(array, slot_states, capacity, l, v)
            <=> Entry(array', slot_states', capacity', l, v)
    BY <1>4, <1>5, <2>2 DEF Entry
  <2>4. Entry(array', slot_states', capacity', key, op.value)
    BY <1>4, <1>5, <2>2 DEF Entry
  <2>5. MapOf(array', slot_states', capacity')[key] = op.value
    BY <1>1, <1>3, <2>4, MapFacts
  <2>6. Contents' = [Contents EXCEPT ![key] = op.value]
    BY <1>1, <1>3, <2>3, <2>5, OneKey, ContentsIs
  <2>7. result' = Returned(TRUE, Null)
    BY <1>5, <1>6
  <2> QED
    BY <2>6, <2>7 DEF KM!Overwrite, KM!Returned, Returned
<1>7. CASE op.kind # "overwrite"
  <2>1. Contents' = Contents
    BY <1>5, <1>7, ContentsIs
  <2>2. result' = Returned(FALSE, Null)
    BY <1>5, <1>7
  <2> QED
    BY <1>4, <2>1, <2>2 DEF KM!Insert, KM!Has, KM!Returned, Returned
<1> QED
  BY <1>6, <1>7

LEMMA PutNewRefines ==
  ASSUME IInv, PutNew
  PROVE  KM!Overwrite(op.key, op.value)
<1> DEFINE key == op.key
           target == Target(op.key)
           bucket == [key |-> op.key, value |-> op.value]
<1>1. /\ TypeOK /\ Sound(array, slot_states, capacity)
      /\ op \in Ops /\ key \in Keys /\ op.value \in Values
      /\ ~Found(key) /\ HasTarget(key)
  BY DEF IInv, PutNew, Calling, Ops
<1>2. IInv'
  BY PutNewKeeps
<1>3. Sound(array', slot_states', capacity')
  BY <1>2 DEF IInv, Sound
<1>4. /\ array' = [array EXCEPT ![target] = bucket]
      /\ slot_states' = [slot_states EXCEPT ![target] = "used"]
      /\ capacity' = capacity /\ result' = Returned(TRUE, Null)
  BY DEF PutNew
<1>5. target \in 0 .. capacity - 1 /\ slot_states[target] # "used"
  <2>1. capacity \in Capacities /\ capacity \in 0 .. capacity
    BY <1>1, CapacityFacts DEF TypeOK
  <2>2. PICK i \in Slots : target = Path(key, i) /\ slot_states[Path(key, i)] # "used"
    BY <1>1, TargetFacts
  <2> HIDE DEF target
  <2> QED
    BY <1>1, <2>1, <2>2, PathInside DEF Path, Slots
<1> HIDE DEF target
<1>6. /\ array'[target] = bucket /\ slot_states'[target] = "used"
      /\ \A s \in 0 .. capacity - 1 :
           s # target => array'[s] = array[s] /\ slot_states'[s] = slot_states[s]
  BY <1>1, <1>4, <1>5 DEF TypeOK, Slots
<1>7. \A l \in Keys \ {key} : \A v :
        Entry(array, slot_states, capacity, l, v)
          <=> Entry(array', slot_states', capacity', l, v)
  BY <1>4, <1>5, <1>6 DEF Entry
<1>8. Entry(array', slot_states', capacity', key, op.value)
  BY <1>4, <1>5, <1>6 DEF Entry
<1>9. MapOf(array', slot_states', capacity')[key] = op.value
  BY <1>1, <1>3, <1>8, MapFacts
<1>10. Contents' = [Contents EXCEPT ![key] = op.value]
  BY <1>1, <1>3, <1>7, <1>9, OneKey, ContentsIs
<1> QED
  BY <1>4, <1>10 DEF KM!Overwrite, KM!Returned, Returned

LEMMA StepRefines == IInv /\ [Next]_vars => [KM!KMNext]_(KM!kmVars)
<1> SUFFICES ASSUME IInv, [Next]_vars
             PROVE  [KM!KMNext]_(KM!kmVars)
  OBVIOUS
<1>1. ASSUME NEW key \in Keys, Lookup(key) \/ Remove(key)
      PROVE  KM!KMNext
  BY <1>1, LookupRefines, RemoveRefines DEF KM!KMNext
<1>2. CASE Zero
  BY <1>2, ZeroRefines DEF KM!KMNext
<1>3. ASSUME PutFound \/ PutNew
      PROVE  KM!KMNext
  <2>1. op.key \in Keys /\ op.value \in Values
    BY <1>3 DEF IInv, PutFound, PutNew, Calling, Ops
  <2> QED
    BY <1>3, <2>1, PutFoundRefines, PutNewRefines DEF KM!KMNext
<1>4. ASSUME \/ Rehash \/ RehashEnds \/ UNCHANGED vars
             \/ \E kind \in {"insert", "overwrite"}, key \in Keys, value \in Values :
                  Store(kind, key, value)
      PROVE  UNCHANGED KM!kmVars
  BY <1>4, GrowingStutters DEF KM!kmVars
<1> QED
  BY <1>1, <1>2, <1>3, <1>4 DEF Next

LEMMA InitRefines == Init => KM!KMInit
<1> SUFFICES ASSUME Init PROVE KM!KMInit
  OBVIOUS
<1>1. Contents = [k \in Keys |-> Null]
  BY EmptyIs, ContentsIs DEF Init
<1> QED
  BY <1>1 DEF Init, KM!KMInit, KM!Returned, Returned

(* Whatever the sequence of calls, each returns what it would on a map     *)
(* from keys to values: hash.c is a map. *)
THEOREM IsAMap == Spec => ImplementsKeyMap
BY InitRefines, StepRefines, AlwaysIInv, PTL DEF Spec, ImplementsKeyMap, KM!KMSpec
=============================================================================
