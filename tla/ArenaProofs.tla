---------------------------- MODULE ArenaProofs -----------------------------
(***************************************************************************)
(* Arena for any arenas, handles and sizes: objects are disjoint and       *)
(* counted.  The invariant is inductive as it stands, for each part needs  *)
(* the other: an empty region is used from its start because npushed       *)
(* counts the objects, and the count of a new region is right because no   *)
(* object lies outside the chain.                                          *)
(***************************************************************************)
EXTENDS Arena, FiniteSetTheorems, TLAPS

(* The parts of the invariant, for any chains c and handles f: a step      *)
(* takes them from one pair to another. *)
Own(f, a, r) == {h \in Handles : f[h] # None /\ f[h].arena = a /\ f[h].region = r}

Placed(c, f, h) ==
  /\ f[h].region <= Len(c[f[h].arena])
  /\ f[h].from + f[h].size <= c[f[h].arena][f[h].region].pos
  /\ f[h].from + f[h].size <= DataSize[f[h].arena]

Apart(f, h, g) ==
  f[h].from + f[h].size <= f[g].from \/ f[g].from + f[g].size <= f[h].from

(* Regions that count the objects of arena a. *)
Counted(regions, f, a) ==
  \A r \in 1 .. Len(regions) :
    /\ regions[r].npushed = Cardinality(Own(f, a, r))
    /\ regions[r].npushed = 0 => regions[r].pos = 0

Good(c, f) ==
  /\ c \in [Arenas -> Seq(Regions)]
  /\ f \in [Handles -> Objects \cup {None}]
  /\ \A h \in Handles : f[h] # None => Placed(c, f, h)
  /\ \A h \in Handles : f[h] # None =>
       \A g \in Own(f, f[h].arena, f[h].region) \ {h} : Apart(f, h, g)
  /\ \A a \in Arenas : Counted(c[a], f, a)

IInv == Good(chain, objs)

LEMMA InvariantIs == IInv <=> TypeOK /\ Disjoint /\ CountsObjects
<1>1. \A a, r : InRegion(a, r) = Own(objs, a, r)
  BY DEF InRegion, Held, Own
<1>2. CountsObjects <=> \A a \in Arenas : Counted(chain[a], objs, a)
  BY <1>1 DEF CountsObjects, Counted
<1>3. Disjoint <=> /\ \A h \in Handles : objs[h] # None => Placed(chain, objs, h)
                   /\ \A h \in Handles : objs[h] # None =>
                        \A g \in Own(objs, objs[h].arena, objs[h].region) \ {h} : Apart(objs, h, g)
  BY <1>1 DEF Disjoint, Held, Placed, Apart
<1> QED
  BY <1>2, <1>3 DEF IInv, Good, TypeOK

LEMMA OwnFinite ==
  ASSUME NEW f, NEW a, NEW r
  PROVE  IsFiniteSet(Own(f, a, r)) /\ Cardinality(Own(f, a, r)) \in Nat
<1>1. Own(f, a, r) \subseteq Handles
  BY DEF Own
<1> QED
  BY <1>1, ConstantsAssumption, FS_Subset, FS_CardinalityType

LEMMA HeldObject ==
  ASSUME NEW f \in [Handles -> Objects \cup {None}], NEW h \in Handles, f[h] # None
  PROVE  /\ f[h] \in Objects /\ f[h].arena \in Arenas
         /\ f[h].region \in Nat \ {0} /\ f[h].from \in Nat /\ f[h].size \in Nat
         /\ h \in Own(f, f[h].arena, f[h].region)
<1>1. f[h] \in Objects
  OBVIOUS
<1> QED
  BY <1>1 DEF Objects, Own

LEMMA AlignFacts ==
  ASSUME NEW size \in Nat
  PROVE  Align(size) \in Nat
<1>1. Alignment \in Nat \ {0}
  BY ConstantsAssumption
<1>2. (size + Alignment - 1) \div Alignment \in Nat
  BY <1>1
<1> QED
  BY <1>1, <1>2 DEF Align

(* The chain with a link or without: no object is in the link. *)
LEMMA LinkedFacts ==
  ASSUME IInv, NEW a \in Arenas, NEW r \in 1 .. Len(chain[a]) + 1
  PROVE  /\ Linked(a, r) \in Seq(Regions)
         /\ r \in 1 .. Len(Linked(a, r))
         /\ Len(Linked(a, r)) >= Len(chain[a])
         /\ \A q \in 1 .. Len(chain[a]) : Linked(a, r)[q] = chain[a][q]
         /\ r > Len(chain[a]) => Linked(a, r)[r] = Empty
         /\ Counted(Linked(a, r), objs, a)
<1>1. chain[a] \in Seq(Regions) /\ Empty \in Regions
  BY DEF IInv, Good, Empty, Regions
<1>2. Counted(chain[a], objs, a)
  BY DEF IInv, Good
<1>3. CASE r > Len(chain[a])
  <2>1. r = Len(chain[a]) + 1 /\ Linked(a, r) = Append(chain[a], Empty)
    BY <1>1, <1>3 DEF Linked
  <2>2. /\ Linked(a, r) \in Seq(Regions) /\ Len(Linked(a, r)) = Len(chain[a]) + 1
        /\ \A q \in 1 .. Len(chain[a]) : Linked(a, r)[q] = chain[a][q]
        /\ Linked(a, r)[r] = Empty
    BY <1>1, <2>1
  <2>3. Own(objs, a, r) = {}
    <3> SUFFICES ASSUME NEW h \in Own(objs, a, r) PROVE FALSE
      OBVIOUS
    <3>1. h \in Handles /\ objs[h] # None /\ objs[h].arena = a /\ objs[h].region = r
      BY DEF Own
    <3>2. r <= Len(chain[a])
      BY <3>1 DEF IInv, Good, Placed
    <3> QED
      BY <3>2, <1>1, <1>3
  <2>4. Cardinality(Own(objs, a, r)) = 0
    BY <2>3, FS_EmptySet
  <2>5. Counted(Linked(a, r), objs, a)
    <3> SUFFICES ASSUME NEW q \in 1 .. Len(Linked(a, r))
                 PROVE  /\ Linked(a, r)[q].npushed = Cardinality(Own(objs, a, q))
                        /\ Linked(a, r)[q].npushed = 0 => Linked(a, r)[q].pos = 0
      BY DEF Counted
    <3>1. CASE q = r
      BY <3>1, <2>2, <2>4 DEF Empty
    <3>2. CASE q # r
      <4>1. q \in 1 .. Len(chain[a])
        BY <3>2, <2>1, <2>2, <1>1
      <4> QED
        BY <4>1, <2>2, <1>2 DEF Counted
    <3> QED
      BY <3>1, <3>2
  <2> QED
    BY <2>1, <2>2, <2>5, <1>1
<1>4. CASE ~(r > Len(chain[a]))
  BY <1>1, <1>2, <1>4 DEF Linked
<1> QED
  BY <1>3, <1>4

(* A region arena_with_space returns has the space. *)
LEMMA SpaceFacts ==
  ASSUME IInv, NEW a \in Arenas, NEW size \in Nat, HasSpace(a, size),
         NEW r \in Space(a, size)
  PROVE  /\ r \in 1 .. Len(chain[a]) + 1
         /\ Linked(a, r)[r].pos + size <= DataSize[a]
<1>1. chain[a] \in Seq(Regions) /\ chain[a] # <<>> /\ size <= DataSize[a]
      /\ DataSize[a] \in Nat
  BY ConstantsAssumption DEF IInv, Good, HasSpace
<1>2. Len(chain[a]) \in Nat \ {0}
  BY <1>1
<1>3. CASE chain[a][1].npushed = 0
  <2>1. r = 1
    BY <1>3 DEF Space
  <2>2. chain[a][1].pos = 0
    BY <1>2, <1>3 DEF IInv, Good, Counted
  <2> QED
    BY <1>1, <1>2, <2>1, <2>2 DEF Linked
<1>4. CASE chain[a][1].npushed # 0
  <2>1. /\ r \in 1 .. Len(chain[a]) + 1
        /\ r <= Len(chain[a]) => Fits(a, r, size)
    BY <1>4 DEF Space
  <2>2. CASE r <= Len(chain[a])
    BY <1>2, <2>1, <2>2 DEF Linked, Fits
  <2>3. CASE r > Len(chain[a])
    <3>1. Linked(a, r)[r] = Empty
      BY <2>1, <2>3, LinkedFacts
    <3> QED
      BY <1>1, <2>1, <3>1 DEF Empty
  <2> QED
    BY <1>2, <2>1, <2>2, <2>3
<1> QED
  BY <1>3, <1>4
-----------------------------------------------------------------------------
(* An object pushed at the position of a region with space for it, in the  *)
(* chain with a link or without. *)
LEMMA Pushed ==
  ASSUME NEW c, NEW f, Good(c, f),
         NEW a \in Arenas, NEW h \in Handles, f[h] = None,
         NEW regions \in Seq(Regions), Counted(regions, f, a),
         Len(regions) >= Len(c[a]),
         \A q \in 1 .. Len(c[a]) : regions[q] = c[a][q],
         NEW object \in Objects, object # None, object.arena = a,
         object.region \in 1 .. Len(regions),
         object.from = regions[object.region].pos,
         object.from + object.size <= DataSize[a]
  PROVE  Good([c EXCEPT ![a] = [regions EXCEPT ![object.region] = Advanced(@, object.size)]],
              [f EXCEPT ![h] = object])
<1> DEFINE r == object.region
           size == object.size
           regions2 == [regions EXCEPT ![r] = Advanced(@, size)]
           c2 == [c EXCEPT ![a] = regions2]
           f2 == [f EXCEPT ![h] = object]
<1>0. size \in Nat /\ object.from \in Nat
  BY DEF Objects
<1>1. c \in [Arenas -> Seq(Regions)] /\ f \in [Handles -> Objects \cup {None}]
  BY DEF Good
<1>2. /\ Len(regions) \in Nat /\ r \in Nat \ {0} /\ r <= Len(regions)
      /\ regions[r] \in Regions
  OBVIOUS
<1>3. regions[r].pos \in Nat /\ regions[r].npushed \in Int /\ c[a] \in Seq(Regions)
  BY <1>1, <1>2 DEF Regions
<1> HIDE DEF r, size
<1>4. Advanced(regions[r], size) \in Regions
  <2>1. regions[r].pos + size \in Nat /\ regions[r].npushed + 1 \in Int
    BY <1>0, <1>3
  <2> QED
    BY <2>1 DEF Advanced, Regions
<1>5. /\ regions2 \in Seq(Regions) /\ Len(regions2) = Len(regions)
      /\ regions2[r] = Advanced(regions[r], size)
      /\ \A q \in 1 .. Len(regions) : q # r => regions2[q] = regions[q]
  BY <1>2, <1>4
<1> HIDE DEF regions2
<1>6. /\ c2 \in [Arenas -> Seq(Regions)] /\ c2[a] = regions2
      /\ \A b \in Arenas : b # a => c2[b] = c[b]
  BY <1>1, <1>5
<1>7. /\ f2 \in [Handles -> Objects \cup {None}] /\ f2[h] = object
      /\ \A g \in Handles : g # h => f2[g] = f[g]
  BY <1>1
<1> HIDE DEF c2, f2
<1>8. ASSUME NEW b, NEW q
      PROVE  Own(f2, b, q) = IF b = a /\ q = r THEN Own(f, b, q) \cup {h} ELSE Own(f, b, q)
  BY <1>7 DEF Own, r
<1>9. h \notin Own(f, a, r)
  BY DEF Own
<1>10. ASSUME NEW b \in Arenas
       PROVE  Counted(c2[b], f2, b)
  <2>1. CASE b # a
    BY <2>1, <1>6, <1>8 DEF Good, Counted
  <2>2. CASE b = a
    <3> SUFFICES ASSUME NEW q \in 1 .. Len(regions)
                 PROVE  /\ regions2[q].npushed = Cardinality(Own(f2, a, q))
                        /\ regions2[q].npushed = 0 => regions2[q].pos = 0
      BY <2>2, <1>5, <1>6 DEF Counted
    <3>1. CASE q # r
      BY <3>1, <1>5, <1>8 DEF Counted
    <3>2. CASE q = r
      <4>1. Cardinality(Own(f, a, r) \cup {h}) = Cardinality(Own(f, a, r)) + 1
        BY <1>9, OwnFinite, FS_AddElement
      <4>2. regions[r].npushed = Cardinality(Own(f, a, r)) /\ Cardinality(Own(f, a, r)) \in Nat
        BY <3>2, OwnFinite DEF Counted
      <4>3. regions2[q].npushed = regions[r].npushed + 1
        BY <3>2, <1>5 DEF Advanced
      <4>4. Own(f2, a, q) = Own(f, a, r) \cup {h}
        BY <3>2, <1>8
      <4> QED
        BY <4>1, <4>2, <4>3, <4>4
    <3> QED
      BY <3>1, <3>2
  <2> QED
    BY <2>1, <2>2
<1>11. ASSUME NEW g \in Handles, f[g] # None
       PROVE  /\ g # h /\ f2[g] = f[g] /\ Placed(c2, f2, g)
  <2>1. /\ g # h /\ f2[g] = f[g]
    BY <1>7, <1>11
  <2>2. f[g].arena \in Arenas /\ f[g].region \in Nat \ {0} /\ f[g].from \in Nat /\ f[g].size \in Nat
    BY <1>1, <1>11, HeldObject
  <2>3. Placed(c, f, g)
    BY <1>11 DEF Good
  <2>4. CASE f[g].arena # a
    BY <2>1, <2>2, <2>3, <2>4, <1>6 DEF Placed
  <2>5. CASE f[g].arena = a
    <3>1. f[g].region \in 1 .. Len(c[a]) /\ f[g].region \in 1 .. Len(regions)
      BY <2>2, <2>3, <2>5, <1>2, <1>3 DEF Placed
    <3>2. regions[f[g].region] = c[a][f[g].region]
      BY <3>1
    <3>3. regions2[f[g].region].pos >= regions[f[g].region].pos
      <4>0. regions[f[g].region] \in Regions
        BY <3>1
      <4>1. regions[f[g].region].pos \in Nat
        BY <4>0 DEF Regions
      <4> QED
        BY <3>1, <4>1, <1>0, <1>3, <1>5, SMTT(20) DEF Advanced
    <3>4. regions2[f[g].region].pos \in Nat /\ regions[f[g].region].pos \in Nat
      <4>1. regions2[f[g].region] \in Regions /\ regions[f[g].region] \in Regions
        BY <3>1, <1>5
      <4> QED
        BY <4>1 DEF Regions
    <3>5. f[g].from + f[g].size <= regions2[f[g].region].pos
      BY <2>2, <2>3, <2>5, <3>2, <3>3, <3>4, SMTT(20) DEF Placed
    <3> QED
      BY <2>1, <2>3, <2>5, <3>1, <3>5, <1>5, <1>6 DEF Placed
  <2> QED
    BY <2>1, <2>4, <2>5
<1>12. Placed(c2, f2, h)
  <2>1. regions2[r].pos = regions[r].pos + size
    BY <1>5 DEF Advanced
  <2> QED
    BY <2>1, <1>0, <1>2, <1>3, <1>5, <1>6, <1>7 DEF Placed, r, size
<1>13. ASSUME NEW g \in Own(f, a, r)
       PROVE  Apart(f2, g, h) /\ Apart(f2, h, g)
  <2>1. g \in Handles /\ f[g] # None /\ f[g].arena = a /\ f[g].region = r
    BY DEF Own
  <2>2. f2[g] = f[g] /\ f[g].region <= Len(c[a]) /\ f[g].from + f[g].size <= c[a][r].pos
    BY <2>1, <1>11 DEF Good, Placed
  <2>3. regions[r] = c[a][r]
    BY <2>1, <2>2, <1>2, <1>3
  <2>4. f[g].from + f[g].size <= object.from
    BY <2>2, <2>3 DEF r
  <2> QED
    BY <2>2, <2>4, <1>7 DEF Apart
<1>14. ASSUME NEW g \in Handles, f2[g] # None,
              NEW e \in Own(f2, f2[g].arena, f2[g].region) \ {g}
       PROVE  Apart(f2, g, e)
  <2>1. CASE g = h
    <3>1. e \in Own(f, a, r)
      BY <2>1, <1>7, <1>8 DEF r
    <3> QED
      BY <2>1, <3>1, <1>13
  <2>2. CASE g # h /\ e = h
    <3>1. f2[g] = f[g] /\ f[g].arena = a /\ f[g].region = r
      BY <2>2, <1>7, <1>14 DEF Own, r
    <3>2. g \in Own(f, a, r)
      BY <3>1, <1>14 DEF Own
    <3> QED
      BY <2>2, <3>2, <1>13
  <2>3. CASE g # h /\ e # h
    <3>1. f2[g] = f[g] /\ f[g] # None
      BY <2>3, <1>7, <1>14
    <3>2. e \in Own(f, f[g].arena, f[g].region) \ {g} /\ f2[e] = f[e]
      BY <2>3, <3>1, <1>7, <1>8, <1>14 DEF Own
    <3>3. Apart(f, g, e)
      BY <3>1, <3>2 DEF Good
    <3> QED
      BY <3>1, <3>2, <3>3 DEF Apart
  <2> QED
    BY <2>1, <2>2, <2>3
<1>15. \A g \in Handles : f2[g] # None => Placed(c2, f2, g)
  BY <1>7, <1>11, <1>12
<1>16. Good(c2, f2)
  BY <1>6, <1>7, <1>10, <1>14, <1>15 DEF Good
<1> QED
  BY <1>16 DEF c2, f2, regions2, r, size

LEMMA PushKeeps ==
  ASSUME IInv, NEW a \in Arenas, NEW h \in Handles, NEW size \in Nat, Push(a, h, size)
  PROVE  IInv'
<1> DEFINE aligned == Align(size)
<1>1. aligned \in Nat /\ objs[h] = None /\ HasSpace(a, aligned)
  BY AlignFacts DEF Push
<1>2. PICK r \in Space(a, aligned) :
        /\ chain' = [chain EXCEPT ![a] = [Linked(a, r) EXCEPT ![r] = Advanced(@, aligned)]]
        /\ objs' = [objs EXCEPT ![h] =
                      [arena |-> a, region |-> r, from |-> Linked(a, r)[r].pos,
                       size |-> aligned, kind |-> "pointer"]]
  BY DEF Push
<1> HIDE DEF aligned
<1>3. r \in 1 .. Len(chain[a]) + 1 /\ Linked(a, r)[r].pos + aligned <= DataSize[a]
  BY <1>1, SpaceFacts
<1>4. /\ Linked(a, r) \in Seq(Regions)
      /\ r \in 1 .. Len(Linked(a, r))
      /\ Len(Linked(a, r)) >= Len(chain[a])
      /\ \A q \in 1 .. Len(chain[a]) : Linked(a, r)[q] = chain[a][q]
      /\ Counted(Linked(a, r), objs, a)
  BY <1>3, LinkedFacts
<1> DEFINE object == [arena |-> a, region |-> r, from |-> Linked(a, r)[r].pos,
                      size |-> aligned, kind |-> "pointer"]
<1>5. Linked(a, r)[r] \in Regions
  BY <1>4
<1>6. Linked(a, r)[r].pos \in Nat /\ r \in Nat \ {0}
  BY <1>4, <1>5 DEF Regions
<1>7. object \in Objects /\ object # None
  BY <1>1, <1>6, ConstantsAssumption DEF Objects
<1>8. object.arena = a /\ object.region = r /\ object.size = aligned
      /\ object.from = Linked(a, r)[r].pos
  OBVIOUS
<1>9. chain' = [chain EXCEPT ![a] = [Linked(a, r) EXCEPT ![object.region] = Advanced(@, object.size)]]
      /\ objs' = [objs EXCEPT ![h] = object]
  BY <1>2
<1> HIDE DEF object
<1>10. Good(chain, objs)
  BY DEF IInv
<1>11. Good([chain EXCEPT ![a] = [Linked(a, r) EXCEPT ![object.region] = Advanced(@, object.size)]],
            [objs EXCEPT ![h] = object])
  BY <1>1, <1>3, <1>4, <1>7, <1>8, <1>10, Pushed
<1> QED
  BY <1>9, <1>11 DEF IInv

LEMMA PushIndex32Keeps ==
  ASSUME IInv, NEW a \in Arenas, NEW h \in Handles, NEW size \in Nat,
         PushIndex32(a, h, size)
  PROVE  IInv'
<1>1. objs[h] = None /\ HasSpace(a, size) /\ chain[a] # <<>>
  BY DEF PushIndex32, HasSpace
<1>2. PICK r \in Space(a, size) :
        IF r = 1
        THEN /\ chain' = [chain EXCEPT ![a][1] = Advanced(@, size)]
             /\ objs' = [objs EXCEPT ![h] =
                           [arena |-> a, region |-> 1, from |-> chain[a][1].pos,
                            size |-> size, kind |-> "index"]]
        ELSE /\ chain' = [chain EXCEPT ![a] = Linked(a, r)]
             /\ UNCHANGED objs
  BY DEF PushIndex32
<1>3. r \in 1 .. Len(chain[a]) + 1 /\ Linked(a, r)[r].pos + size <= DataSize[a]
  BY <1>1, SpaceFacts
<1>4. /\ chain \in [Arenas -> Seq(Regions)] /\ objs \in [Handles -> Objects \cup {None}]
      /\ Good(chain, objs)
  BY DEF IInv, Good
<1>5. CASE r = 1
  <2> DEFINE object == [arena |-> a, region |-> 1, from |-> chain[a][1].pos,
                        size |-> size, kind |-> "index"]
  <2>1. chain[a] \in Seq(Regions) /\ Len(chain[a]) \in Nat \ {0}
    BY <1>1, <1>4
  <2>2. Linked(a, r) = chain[a]
    BY <1>5, <2>1 DEF Linked
  <2>3. chain[a][1] \in Regions
    BY <2>1
  <2>4. chain[a][1].pos \in Nat
    BY <2>3 DEF Regions
  <2>5. object \in Objects /\ object # None
    BY <2>4, ConstantsAssumption DEF Objects
  <2>6. object.arena = a /\ object.region = 1 /\ object.size = size
        /\ object.from = chain[a][1].pos
    OBVIOUS
  <2>7. chain' = [chain EXCEPT ![a] = [chain[a] EXCEPT ![object.region] = Advanced(@, object.size)]]
        /\ objs' = [objs EXCEPT ![h] = object]
    BY <1>2, <1>4, <1>5
  <2> HIDE DEF object
  <2>8. Counted(chain[a], objs, a)
    BY <1>4 DEF Good
  <2>9. object.region \in 1 .. Len(chain[a]) /\ object.from + object.size <= DataSize[a]
    BY <1>3, <1>5, <2>1, <2>2, <2>6
  <2>10. Len(chain[a]) >= Len(chain[a])
    BY <2>1
  <2>11. Good([chain EXCEPT ![a] = [chain[a] EXCEPT ![object.region] = Advanced(@, object.size)]],
              [objs EXCEPT ![h] = object])
    BY <1>1, <1>4, <2>1, <2>5, <2>6, <2>8, <2>9, <2>10, Pushed
  <2> QED
    BY <2>7, <2>11 DEF IInv
<1>6. CASE r # 1
  <2>1. chain' = [chain EXCEPT ![a] = Linked(a, r)] /\ objs' = objs
    BY <1>2, <1>6
  <2>2. /\ Linked(a, r) \in Seq(Regions)
        /\ Len(Linked(a, r)) >= Len(chain[a])
        /\ \A q \in 1 .. Len(chain[a]) : Linked(a, r)[q] = chain[a][q]
        /\ Counted(Linked(a, r), objs, a)
    BY <1>3, LinkedFacts
  <2>3. chain' \in [Arenas -> Seq(Regions)] /\ chain'[a] = Linked(a, r)
        /\ \A b \in Arenas : b # a => chain'[b] = chain[b]
    BY <1>4, <2>1, <2>2
  <2>4. \A b \in Arenas : Counted(chain'[b], objs, b)
    BY <1>4, <2>2, <2>3 DEF Good
  <2>5. ASSUME NEW g \in Handles, objs[g] # None
        PROVE  Placed(chain', objs, g)
    <3>1. Placed(chain, objs, g) /\ objs[g].arena \in Arenas /\ objs[g].region \in Nat \ {0}
      BY <1>4, <2>5, HeldObject DEF Good
    <3>2. CASE objs[g].arena # a
      BY <2>3, <3>1, <3>2 DEF Placed
    <3>3. CASE objs[g].arena = a
      <4>1. chain[a] \in Seq(Regions)
        BY <1>4
      <4>2. objs[g].region \in 1 .. Len(chain[a]) /\ Len(chain[a]) \in Nat
        BY <3>1, <3>3, <4>1 DEF Placed
      <4>3. objs[g].region <= Len(Linked(a, r))
        BY <2>2, <4>2
      <4>4. Linked(a, r)[objs[g].region] = chain[a][objs[g].region]
        BY <2>2, <4>2
      <4> QED
        BY <2>3, <3>1, <3>3, <4>3, <4>4 DEF Placed
    <3> QED
      BY <3>2, <3>3
  <2>6. Good(chain', objs)
    BY <1>4, <2>3, <2>4, <2>5 DEF Good
  <2> QED
    BY <2>1, <2>6 DEF IInv
<1> QED
  BY <1>5, <1>6
-----------------------------------------------------------------------------
(* An arena starts anew, with as many empty regions as it had or one, or   *)
(* is gone; nobody points to it any more. *)
LEMMA ForgottenKeeps ==
  ASSUME IInv, NEW a \in Arenas, NEW regions \in Seq(Regions),
         \A r \in 1 .. Len(regions) : regions[r] = Empty,
         chain' = [chain EXCEPT ![a] = regions], objs' = Forgotten(a)
  PROVE  IInv'
<1>1. /\ chain \in [Arenas -> Seq(Regions)] /\ objs \in [Handles -> Objects \cup {None}]
      /\ Good(chain, objs)
  BY DEF IInv, Good
<1>2. /\ chain' \in [Arenas -> Seq(Regions)] /\ chain'[a] = regions
      /\ \A b \in Arenas : b # a => chain'[b] = chain[b]
  BY <1>1
<1>3. objs' \in [Handles -> Objects \cup {None}]
  BY <1>1 DEF Forgotten
<1>4. \A h \in Handles : objs'[h] # None =>
        objs[h] # None /\ objs'[h] = objs[h] /\ objs[h].arena # a
  BY DEF Forgotten
<1>5. \A r : Own(objs', a, r) = {}
  BY <1>4 DEF Own
<1>6. \A b \in Arenas : \A r : b # a => Own(objs', b, r) = Own(objs, b, r)
  BY <1>4 DEF Own, Forgotten
<1>7. \A b \in Arenas : Counted(chain'[b], objs', b)
  <2>1. Counted(regions, objs', a)
    <3>1. \A r : Cardinality(Own(objs', a, r)) = 0
      BY <1>5, FS_EmptySet
    <3>2. Empty.npushed = 0 /\ Empty.pos = 0
      BY DEF Empty
    <3> QED
      BY <3>1, <3>2 DEF Counted
  <2> QED
    BY <1>1, <1>2, <1>6, <2>1 DEF Good, Counted
<1>8. ASSUME NEW h \in Handles, objs'[h] # None
      PROVE  /\ Placed(chain', objs', h)
             /\ \A g \in Own(objs', objs'[h].arena, objs'[h].region) \ {h} : Apart(objs', h, g)
  <2>1. objs[h] # None /\ objs'[h] = objs[h] /\ objs[h].arena # a /\ objs[h].arena \in Arenas
    BY <1>1, <1>4, <1>8, HeldObject
  <2>2. Placed(chain', objs', h)
    BY <1>1, <1>2, <2>1 DEF Good, Placed
  <2>3. ASSUME NEW g \in Own(objs', objs'[h].arena, objs'[h].region) \ {h}
        PROVE  Apart(objs', h, g)
    <3>1. g \in Own(objs, objs[h].arena, objs[h].region) \ {h}
      BY <2>1, <1>6
    <3>2. Apart(objs, h, g)
      BY <1>1, <2>1, <3>1 DEF Good
    <3>3. objs'[g] = objs[g]
      BY <1>4 DEF Own
    <3> QED
      BY <2>1, <3>2, <3>3 DEF Apart
  <2> QED
    BY <2>2, <2>3
<1>9. Good(chain', objs')
  BY <1>2, <1>3, <1>7, <1>8 DEF Good
<1> QED
  BY <1>9 DEF IInv

LEMMA AnewKeeps ==
  ASSUME IInv, NEW a \in Arenas, Create(a) \/ Destroy(a) \/ Reset(a)
  PROVE  IInv'
<1>1. chain \in [Arenas -> Seq(Regions)] /\ objs \in [Handles -> Objects \cup {None}]
      /\ Empty \in Regions
  BY DEF IInv, Good, Empty, Regions
<1>2. CASE Create(a)
  <2>1. \A h \in Handles : objs[h] # None => objs[h].arena # a
    <3> SUFFICES ASSUME NEW h \in Handles, objs[h] # None, objs[h].arena = a
                 PROVE  FALSE
      OBVIOUS
    <3>1. objs[h].region \in Nat \ {0} /\ objs[h].region <= Len(chain[a])
      BY <1>1, HeldObject DEF IInv, Good, Placed
    <3>2. Len(chain[a]) = 0
      BY <1>2 DEF Create
    <3> QED
      BY <3>1, <3>2
  <2>2. objs' = Forgotten(a)
    BY <1>1, <1>2, <2>1 DEF Create, Forgotten
  <2>3. /\ chain' = [chain EXCEPT ![a] = <<Empty>>] /\ <<Empty>> \in Seq(Regions)
        /\ \A r \in 1 .. Len(<<Empty>>) : <<Empty>>[r] = Empty
    BY <1>1, <1>2 DEF Create
  <2> QED
    BY <2>2, <2>3, ForgottenKeeps
<1>3. CASE Destroy(a)
  <2>1. <<>> \in Seq(Regions) /\ \A r \in 1 .. Len(<<>>) : <<>>[r] = Empty
    OBVIOUS
  <2> QED
    BY <1>3, <2>1, ForgottenKeeps DEF Destroy
<1>4. CASE Reset(a)
  <2> DEFINE regions == [r \in 1 .. Len(chain[a]) |-> Empty]
  <2>1. Len(chain[a]) \in Nat
    BY <1>1
  <2>2. regions \in Seq(Regions) /\ Len(regions) = Len(chain[a])
    BY <1>1, <2>1
  <2>3. \A r \in 1 .. Len(regions) : regions[r] = Empty
    BY <2>2
  <2>4. chain' = [chain EXCEPT ![a] = regions] /\ objs' = Forgotten(a)
    BY <1>4 DEF Reset
  <2> HIDE DEF regions
  <2> QED
    BY <2>2, <2>3, <2>4, ForgottenKeeps
<1> QED
  BY <1>2, <1>3, <1>4

LEMMA DecrKeeps ==
  ASSUME IInv, NEW a \in Arenas, NEW h \in Handles, Decr(a, h)
  PROVE  IInv'
<1>1. /\ chain \in [Arenas -> Seq(Regions)] /\ objs \in [Handles -> Objects \cup {None}]
      /\ Good(chain, objs)
  BY DEF IInv, Good
<1>2. objs[h] # None
  BY DEF Decr
<1>3. PICK r \in ArenaOf(a, objs[h]) :
        /\ chain' = [chain EXCEPT ![a][r] = Decremented(@)]
        /\ objs' = [objs EXCEPT ![h] = None]
  BY DEF Decr
<1>4. r \in 1 .. Len(chain[a]) /\ objs[h].arena = a /\ objs[h].region = r
      /\ chain[a] \in Seq(Regions)
  BY <1>1 DEF ArenaOf
<1>5. chain[a][r] \in Regions
  BY <1>4
<1>6. chain[a][r].pos \in Nat /\ chain[a][r].npushed \in Int
  BY <1>5 DEF Regions
<1>7. h \in Own(objs, a, r) /\ IsFiniteSet(Own(objs, a, r))
      /\ Cardinality(Own(objs, a, r)) \in Nat
      /\ chain[a][r].npushed = Cardinality(Own(objs, a, r))
  <2>1. h \in Own(objs, a, r)
    BY <1>2, <1>4 DEF Own
  <2>2. Counted(chain[a], objs, a)
    BY <1>1 DEF Good
  <2>3. chain[a][r].npushed = Cardinality(Own(objs, a, r))
    BY <1>4, <2>2 DEF Counted
  <2> QED
    BY <2>1, <2>3, OwnFinite
<1>8. Decremented(chain[a][r]) \in Regions
  <2>1. (IF chain[a][r].npushed - 1 <= 0 THEN 0 ELSE chain[a][r].pos) \in Nat
        /\ chain[a][r].npushed - 1 \in Int
    BY <1>6
  <2> QED
    BY <2>1 DEF Decremented, Regions
<1> DEFINE regions2 == [chain[a] EXCEPT ![r] = Decremented(@)]
<1>9. /\ regions2 \in Seq(Regions) /\ Len(regions2) = Len(chain[a])
      /\ regions2[r] = Decremented(chain[a][r])
      /\ \A q \in 1 .. Len(chain[a]) : q # r => regions2[q] = chain[a][q]
  BY <1>4, <1>8
<1>10. chain' = [chain EXCEPT ![a] = regions2]
  BY <1>1, <1>3
<1> HIDE DEF regions2
<1>11. /\ chain' \in [Arenas -> Seq(Regions)] /\ chain'[a] = regions2
       /\ \A b \in Arenas : b # a => chain'[b] = chain[b]
  BY <1>1, <1>9, <1>10
<1>12. /\ objs' \in [Handles -> Objects \cup {None}] /\ objs'[h] = None
       /\ \A g \in Handles : g # h => objs'[g] = objs[g]
  BY <1>1, <1>3
<1>13. ASSUME NEW b, NEW q
       PROVE  Own(objs', b, q) = IF b = a /\ q = r THEN Own(objs, b, q) \ {h} ELSE Own(objs, b, q)
  BY <1>4, <1>12 DEF Own
<1>14. Cardinality(Own(objs, a, r) \ {h}) = Cardinality(Own(objs, a, r)) - 1
       /\ Cardinality(Own(objs, a, r) \ {h}) \in Nat
       /\ IsFiniteSet(Own(objs, a, r) \ {h})
  BY <1>7, FS_RemoveElement, FS_CardinalityType
<1>15. /\ regions2[r].npushed = Cardinality(Own(objs', a, r))
       /\ regions2[r].npushed = 0 => regions2[r].pos = 0
       /\ regions2[r].npushed = 0 => Own(objs', a, r) = {}
       /\ regions2[r].npushed # 0 => regions2[r].pos = chain[a][r].pos
  <2>1. regions2[r].npushed = chain[a][r].npushed - 1
    BY <1>9 DEF Decremented
  <2>2. Own(objs', a, r) = Own(objs, a, r) \ {h}
    BY <1>13
  <2>3. regions2[r].npushed = Cardinality(Own(objs', a, r)) /\ regions2[r].npushed \in Nat
    BY <1>7, <1>14, <2>1, <2>2
  <2>4. Cardinality(Own(objs', a, r)) = 0 => Own(objs', a, r) = {}
    BY <1>14, <2>2, FS_EmptySet
  <2>5. regions2[r].pos = IF chain[a][r].npushed - 1 <= 0 THEN 0 ELSE chain[a][r].pos
    BY <1>9 DEF Decremented
  <2> QED
    BY <2>1, <2>3, <2>4, <2>5, <1>6
<1>16. ASSUME NEW b \in Arenas
       PROVE  Counted(chain'[b], objs', b)
  <2>1. CASE b # a
    BY <1>1, <1>11, <1>13, <2>1 DEF Good, Counted
  <2>2. CASE b = a
    <3> SUFFICES ASSUME NEW q \in 1 .. Len(chain[a])
                 PROVE  /\ regions2[q].npushed = Cardinality(Own(objs', a, q))
                        /\ regions2[q].npushed = 0 => regions2[q].pos = 0
      BY <2>2, <1>9, <1>11 DEF Counted
    <3>1. CASE q = r
      BY <3>1, <1>15
    <3>2. CASE q # r
      BY <3>2, <1>1, <1>9, <1>13 DEF Good, Counted
    <3> QED
      BY <3>1, <3>2
  <2> QED
    BY <2>1, <2>2
<1>17. ASSUME NEW g \in Handles, objs'[g] # None
       PROVE  /\ Placed(chain', objs', g)
              /\ \A e \in Own(objs', objs'[g].arena, objs'[g].region) \ {g} : Apart(objs', g, e)
  <2>1. g # h /\ objs'[g] = objs[g] /\ objs[g] # None
    BY <1>12, <1>17
  <2>2. objs[g].arena \in Arenas /\ objs[g].region \in Nat \ {0}
        /\ g \in Own(objs, objs[g].arena, objs[g].region)
    BY <1>1, <2>1, HeldObject
  <2>3. Placed(chain, objs, g)
    BY <1>1, <2>1 DEF Good
  <2>4. Placed(chain', objs', g)
    <3>1. CASE objs[g].arena # a
      BY <3>1, <1>11, <2>1, <2>2, <2>3 DEF Placed
    <3>2. CASE objs[g].arena = a /\ objs[g].region # r
      <4>1. objs[g].region \in 1 .. Len(chain[a])
        BY <3>2, <1>4, <2>2, <2>3 DEF Placed
      <4> QED
        BY <3>2, <4>1, <1>9, <1>11, <2>1, <2>3 DEF Placed
    <3>3. CASE objs[g].arena = a /\ objs[g].region = r
      <4>1. g \in Own(objs', a, r)
        BY <3>3, <2>1, <2>2, <1>13
      <4>2. regions2[r].pos = chain[a][r].pos
        BY <4>1, <1>15
      <4> QED
        BY <3>3, <4>2, <1>9, <1>11, <2>1, <2>3 DEF Placed
    <3> QED
      BY <3>1, <3>2, <3>3
  <2>5. ASSUME NEW e \in Own(objs', objs'[g].arena, objs'[g].region) \ {g}
        PROVE  Apart(objs', g, e)
    <3>1. e \in Own(objs, objs[g].arena, objs[g].region) \ {g}
      BY <2>1, <1>13
    <3>2. Apart(objs, g, e)
      BY <1>1, <2>1, <3>1 DEF Good
    <3>3. objs'[e] = objs[e]
      BY <1>12 DEF Own
    <3> QED
      BY <2>1, <3>2, <3>3 DEF Apart
  <2> QED
    BY <2>4, <2>5
<1>18. Good(chain', objs')
  BY <1>11, <1>12, <1>16, <1>17 DEF Good
<1> QED
  BY <1>18 DEF IInv
-----------------------------------------------------------------------------
LEMMA InitIInv == Init => IInv
<1> SUFFICES ASSUME Init PROVE IInv
  OBVIOUS
<1>1. \A h \in Handles : objs[h] = None
  BY DEF Init
<1>2. \A a \in Arenas : Counted(chain[a], objs, a)
  BY DEF Init, Counted
<1> QED
  BY <1>1, <1>2 DEF IInv, Good, Init

LEMMA NextKeepsIInv == IInv /\ [Next]_vars => IInv'
<1> SUFFICES ASSUME IInv, [Next]_vars
             PROVE  IInv'
  OBVIOUS
<1>1. Sizes \subseteq Nat /\ IndexSizes \subseteq Nat
  BY ConstantsAssumption
<1>2. ASSUME NEW a \in Arenas, Create(a) \/ Destroy(a) \/ Reset(a)
      PROVE  IInv'
  BY <1>2, AnewKeeps
<1>3. ASSUME NEW a \in Arenas, NEW h \in Handles, NEW size \in Sizes, Push(a, h, size)
      PROVE  IInv'
  BY <1>1, <1>3, PushKeeps
<1>4. ASSUME NEW h \in Handles, NEW size \in Sizes, ArenasPush(h, size)
      PROVE  IInv'
  BY <1>3, <1>4 DEF ArenasPush
<1>5. ASSUME NEW a \in Arenas, NEW h \in Handles, NEW size \in IndexSizes,
             PushIndex32(a, h, size)
      PROVE  IInv'
  BY <1>1, <1>5, PushIndex32Keeps
<1>6. ASSUME NEW a \in Arenas, NEW h \in Handles, Decr(a, h)
      PROVE  IInv'
  BY <1>6, DecrKeeps
<1>7. CASE UNCHANGED vars
  BY <1>7 DEF vars, IInv
<1> QED
  BY <1>2, <1>3, <1>4, <1>5, <1>6, <1>7 DEF Next

LEMMA AlwaysIInv == Spec => []IInv
BY InitIInv, NextKeepsIInv, PTL DEF Spec

(* Chains are sequences of regions with positions, objects have addresses. *)
THEOREM TypeCorrect == Spec => []TypeOK
BY AlwaysIInv, InvariantIs, PTL

(* What is pushed is its holder's own until it is popped, for any sizes,   *)
(* aligned or not, of any length. *)
THEOREM AlwaysDisjoint == Spec => []Disjoint
BY AlwaysIInv, InvariantIs, PTL

(* npushed counts the objects held, and empty regions start anew. *)
THEOREM AlwaysCountsObjects == Spec => []CountsObjects
BY AlwaysIInv, InvariantIs, PTL
-----------------------------------------------------------------------------
(* Where no size is 0, no object is empty. *)
Positive == \A h \in Handles : objs[h] # None => objs[h].size > 0

LEMMA AlignPositive ==
  ASSUME NEW size \in Nat \ {0}
  PROVE  Align(size) > 0
<1>1. Alignment \in Nat \ {0}
  BY ConstantsAssumption
<1>2. (size + Alignment - 1) \div Alignment \in Nat
  BY <1>1
<1>3. (size + Alignment - 1) \div Alignment >= 1
  <2>1. Alignment * 1 <= size + Alignment - 1
    BY <1>1
  <2> QED
    BY <1>1, <2>1, <1>2
<1> QED
  BY <1>1, <1>2, <1>3 DEF Align

LEMMA PositiveStep ==
  ASSUME 0 \notin Sizes \cup IndexSizes
  PROVE  IInv /\ Positive /\ [Next]_vars => Positive'
<1> SUFFICES ASSUME IInv, Positive, [Next]_vars
             PROVE  Positive'
  OBVIOUS
<1>1. /\ Sizes \subseteq Nat \ {0} /\ IndexSizes \subseteq Nat \ {0}
      /\ objs \in [Handles -> Objects \cup {None}]
  BY ConstantsAssumption DEF IInv, Good
<1>2. ASSUME NEW a \in Arenas, Create(a) \/ Destroy(a) \/ Reset(a)
      PROVE  Positive'
  BY <1>2 DEF Create, Destroy, Reset, Forgotten, Positive
<1>3. ASSUME NEW a \in Arenas, NEW h \in Handles, NEW size \in Sizes, Push(a, h, size)
      PROVE  Positive'
  <2>1. Align(size) > 0
    BY <1>1, AlignPositive
  <2>2. PICK r \in Space(a, Align(size)) :
          objs' = [objs EXCEPT ![h] =
                     [arena |-> a, region |-> r, from |-> Linked(a, r)[r].pos,
                      size |-> Align(size), kind |-> "pointer"]]
    BY <1>3 DEF Push
  <2> QED
    BY <1>1, <2>1, <2>2 DEF Positive
<1>4. ASSUME NEW h \in Handles, NEW size \in Sizes, ArenasPush(h, size)
      PROVE  Positive'
  BY <1>3, <1>4 DEF ArenasPush
<1>5. ASSUME NEW a \in Arenas, NEW h \in Handles, NEW size \in IndexSizes,
             PushIndex32(a, h, size)
      PROVE  Positive'
  <2>1. size > 0
    BY <1>1
  <2> QED
    BY <1>1, <1>5, <2>1 DEF PushIndex32, Positive
<1>6. ASSUME NEW a \in Arenas, NEW h \in Handles, Decr(a, h)
      PROVE  Positive'
  BY <1>1, <1>6 DEF Decr, Positive
<1>7. CASE UNCHANGED vars
  BY <1>7 DEF vars, Positive
<1> QED
  BY <1>2, <1>3, <1>4, <1>5, <1>6, <1>7 DEF Next

(* Every object can be popped, as long as nothing of size 0 is pushed: the *)
(* run "arena_zero" shows that it cannot otherwise. *)
THEOREM AlwaysPops ==
  ASSUME 0 \notin Sizes \cup IndexSizes
  PROVE  Spec => []PopSucceeds
<1>1. Init => Positive
  BY DEF Init, Positive
<1>2. IInv /\ Positive /\ [Next]_vars => Positive'
  BY PositiveStep
<1>3. IInv /\ Positive => PopSucceeds
  <2> SUFFICES ASSUME IInv, Positive, NEW h \in Held
               PROVE  ArenaOf(objs[h].arena, objs[h]) # {}
    BY DEF PopSucceeds
  <2>1. h \in Handles /\ objs[h] # None /\ Good(chain, objs)
    BY DEF Held, IInv
  <2>2. /\ objs[h].arena \in Arenas /\ objs[h].region \in Nat \ {0}
        /\ objs[h].from \in Nat /\ objs[h].size \in Nat /\ objs[h].size > 0
    BY <2>1, HeldObject DEF Good, Positive
  <2>3. Placed(chain, objs, h) /\ chain[objs[h].arena] \in Seq(Regions)
    BY <2>1, <2>2 DEF Good
  <2>4. objs[h].region \in 1 .. Len(chain[objs[h].arena])
        /\ objs[h].from < DataSize[objs[h].arena]
    BY <2>2, <2>3, ConstantsAssumption DEF Placed
  <2> QED
    BY <2>4 DEF ArenaOf
<1> QED
  BY <1>1, <1>2, <1>3, AlwaysIInv, PTL DEF Spec
-----------------------------------------------------------------------------
(* A region whose objects all have sizes of whole alignments: any but the  *)
(* first, which is the only one arena_push_index32 pushes to, and the      *)
(* first as well where the sizes it is given are such.                     *)
WholeSizes(r) == r = 1 => \A size \in IndexSizes : size % Alignment = 0

(* The invariant: the position of such a region is aligned, and so is the  *)
(* address of every object that was pushed at it. *)
AlignedRegions ==
  /\ \A a \in Arenas : \A r \in 1 .. Len(chain[a]) :
       WholeSizes(r) => chain[a][r].pos % Alignment = 0
  /\ \A h \in Handles :
       objs[h] # None /\ WholeSizes(objs[h].region) => objs[h].from % Alignment = 0

LEMMA SumAligned ==
  ASSUME NEW m \in Nat \ {0}, NEW x \in Nat, NEW y \in Nat, x % m = 0, y % m = 0
  PROVE  (x + y) % m = 0
<1>1. /\ x = m * (x \div m) /\ x \div m \in Nat
      /\ y = m * (y \div m) /\ y \div m \in Nat
  OBVIOUS
<1>2. PICK i \in Nat : x = i * m
  BY <1>1
<1>3. PICK j \in Nat : y = j * m
  BY <1>1
<1>4. x + y = (i + j) * m /\ i + j \in Nat
  BY <1>2, <1>3
<1>5. ((i + j) * m) % m = 0
  BY <1>4
<1> QED
  BY <1>4, <1>5

LEMMA AlignAligns ==
  ASSUME NEW size \in Nat
  PROVE  Align(size) % Alignment = 0
<1>1. Alignment \in Nat \ {0}
  BY ConstantsAssumption
<1>2. PICK k \in Nat : k = (size + Alignment - 1) \div Alignment
  BY <1>1
<1>3. (k * Alignment) % Alignment = 0
  BY <1>1, <1>2
<1> QED
  BY <1>2, <1>3 DEF Align

(* What either push does: an object of an aligned size, or of any size in  *)
(* a region that need not be aligned. *)
LEMMA AdvancedAligned ==
  ASSUME IInv, AlignedRegions, NEW a \in Arenas, NEW h \in Handles, NEW size \in Nat,
         NEW r \in 1 .. Len(chain[a]) + 1, WholeSizes(r) => size % Alignment = 0,
         NEW kind,
         chain' = [chain EXCEPT ![a] = [Linked(a, r) EXCEPT ![r] = Advanced(@, size)]],
         objs' = [objs EXCEPT ![h] =
                    [arena |-> a, region |-> r, from |-> Linked(a, r)[r].pos,
                     size |-> size, kind |-> kind]]
  PROVE  AlignedRegions'
<1>1. /\ chain \in [Arenas -> Seq(Regions)] /\ objs \in [Handles -> Objects \cup {None}]
      /\ Alignment \in Nat \ {0}
  BY ConstantsAssumption DEF IInv, Good
<1>2. /\ Linked(a, r) \in Seq(Regions) /\ r \in 1 .. Len(Linked(a, r))
      /\ \A q \in 1 .. Len(chain[a]) : Linked(a, r)[q] = chain[a][q]
      /\ r > Len(chain[a]) => Linked(a, r)[r] = Empty
  BY LinkedFacts
<1>3. Len(Linked(a, r)) <= Len(chain[a]) + 1
      /\ \A q \in 1 .. Len(Linked(a, r)) : q # r => q \in 1 .. Len(chain[a])
  BY <1>1 DEF Linked
<1>4. ASSUME NEW q \in 1 .. Len(Linked(a, r)), WholeSizes(q)
      PROVE  Linked(a, r)[q].pos \in Nat /\ Linked(a, r)[q].pos % Alignment = 0
  <2>1. Linked(a, r)[q].pos \in Nat
    <3>1. Linked(a, r)[q] \in Regions
      BY <1>2
    <3> QED
      BY <3>1 DEF Regions
  <2>2. CASE q \in 1 .. Len(chain[a])
    <3>1. chain[a][q].pos % Alignment = 0
      BY <1>4, <2>2 DEF AlignedRegions
    <3>2. Linked(a, r)[q] = chain[a][q]
      BY <1>2, <2>2
    <3> QED
      BY <2>1, <3>1, <3>2
  <2>3. CASE q \notin 1 .. Len(chain[a])
    <3>1. q = r /\ r > Len(chain[a])
      BY <1>1, <1>3, <2>3
    <3>2. Linked(a, r)[q].pos = 0
      BY <3>1, <1>2 DEF Empty
    <3>3. 0 % Alignment = 0
      BY <1>1
    <3> QED
      BY <3>2, <3>3
  <2> QED
    BY <2>2, <2>3
<1>5. /\ Len(chain'[a]) = Len(Linked(a, r))
      /\ \A b \in Arenas : b # a => chain'[b] = chain[b]
      /\ chain'[a][r] = Advanced(Linked(a, r)[r], size)
      /\ \A q \in 1 .. Len(Linked(a, r)) : q # r => chain'[a][q] = Linked(a, r)[q]
  BY <1>1, <1>2
<1>6. ASSUME NEW b \in Arenas, NEW q \in 1 .. Len(chain'[b]), WholeSizes(q)
      PROVE  chain'[b][q].pos % Alignment = 0
  <2>1. CASE b # a
    BY <2>1, <1>5, <1>6 DEF AlignedRegions
  <2>2. CASE b = a /\ q # r
    BY <2>2, <1>4, <1>5, <1>6
  <2>3. CASE b = a /\ q = r
    <3>1. Linked(a, r)[r].pos \in Nat /\ Linked(a, r)[r].pos % Alignment = 0
      BY <2>3, <1>2, <1>4, <1>6
    <3>2. (Linked(a, r)[r].pos + size) % Alignment = 0
      BY <3>1, <2>3, <1>1, <1>6, SumAligned
    <3> QED
      BY <3>2, <2>3, <1>5 DEF Advanced
  <2> QED
    BY <2>1, <2>2, <2>3
<1>7. ASSUME NEW g \in Handles, objs'[g] # None, WholeSizes(objs'[g].region)
      PROVE  objs'[g].from % Alignment = 0
  <2>1. CASE g # h
    BY <2>1, <1>1, <1>7 DEF AlignedRegions
  <2>2. CASE g = h
    <3>1. objs'[g].region = r /\ objs'[g].from = Linked(a, r)[r].pos
      BY <2>2, <1>1
    <3> QED
      BY <3>1, <1>2, <1>4, <1>7
  <2> QED
    BY <2>1, <2>2
<1> QED
  BY <1>6, <1>7 DEF AlignedRegions, WholeSizes

LEMMA AlignedRegionsStep == IInv /\ AlignedRegions /\ [Next]_vars => AlignedRegions'
<1> SUFFICES ASSUME IInv, AlignedRegions, [Next]_vars
             PROVE  AlignedRegions'
  OBVIOUS
<1>1. /\ Sizes \subseteq Nat /\ IndexSizes \subseteq Nat /\ Alignment \in Nat \ {0}
      /\ 0 % Alignment = 0
      /\ chain \in [Arenas -> Seq(Regions)] /\ objs \in [Handles -> Objects \cup {None}]
  BY ConstantsAssumption DEF IInv, Good
<1>2. ASSUME NEW a \in Arenas, Create(a) \/ Destroy(a) \/ Reset(a)
      PROVE  AlignedRegions'
  <2>1. /\ \A b \in Arenas : b # a => chain'[b] = chain[b]
        /\ \A r \in 1 .. Len(chain'[a]) : chain'[a][r] = Empty
    BY <1>1, <1>2 DEF Create, Destroy, Reset
  <2>2. \A h \in Handles : objs'[h] # None => objs'[h] = objs[h]
    BY <1>2 DEF Create, Destroy, Reset, Forgotten
  <2>3. \A b \in Arenas : \A r \in 1 .. Len(chain'[b]) :
          WholeSizes(r) => chain'[b][r].pos % Alignment = 0
    BY <1>1, <2>1 DEF AlignedRegions, Empty
  <2>4. \A h \in Handles : objs'[h] # None /\ WholeSizes(objs'[h].region)
          => objs'[h].from % Alignment = 0
    BY <2>2 DEF AlignedRegions
  <2> QED
    BY <2>3, <2>4 DEF AlignedRegions, WholeSizes
<1>3. ASSUME NEW a \in Arenas, NEW h \in Handles, NEW size \in Sizes, Push(a, h, size)
      PROVE  AlignedRegions'
  <2>1. Align(size) \in Nat /\ Align(size) % Alignment = 0
    BY <1>1, AlignFacts, AlignAligns
  <2>2. PICK r \in Space(a, Align(size)) :
          /\ chain' = [chain EXCEPT ![a] =
                         [Linked(a, r) EXCEPT ![r] = Advanced(@, Align(size))]]
          /\ objs' = [objs EXCEPT ![h] =
                        [arena |-> a, region |-> r, from |-> Linked(a, r)[r].pos,
                         size |-> Align(size), kind |-> "pointer"]]
    BY <1>3 DEF Push
  <2>3. HasSpace(a, Align(size))
    BY <1>3 DEF Push
  <2>4. r \in 1 .. Len(chain[a]) + 1
    BY <2>1, <2>2, <2>3, SpaceFacts
  <2> QED
    BY <2>1, <2>2, <2>4, AdvancedAligned
<1>4. ASSUME NEW h \in Handles, NEW size \in Sizes, ArenasPush(h, size)
      PROVE  AlignedRegions'
  BY <1>3, <1>4 DEF ArenasPush
<1>5. ASSUME NEW a \in Arenas, NEW h \in Handles, NEW size \in IndexSizes,
             PushIndex32(a, h, size)
      PROVE  AlignedRegions'
  <2>1. size \in Nat /\ HasSpace(a, size) /\ chain[a] # <<>>
    BY <1>1, <1>5 DEF PushIndex32, HasSpace
  <2>2. PICK r \in Space(a, size) :
          IF r = 1
          THEN /\ chain' = [chain EXCEPT ![a][1] = Advanced(@, size)]
               /\ objs' = [objs EXCEPT ![h] =
                             [arena |-> a, region |-> 1, from |-> chain[a][1].pos,
                              size |-> size, kind |-> "index"]]
          ELSE /\ chain' = [chain EXCEPT ![a] = Linked(a, r)]
               /\ UNCHANGED objs
    BY <1>5 DEF PushIndex32
  <2>3. r \in 1 .. Len(chain[a]) + 1
    BY <2>1, <2>2, SpaceFacts
  <2>4. CASE r = 1
    <3>1. Linked(a, 1) = chain[a]
      BY <1>1, <2>1 DEF Linked
    <3>2. /\ chain' = [chain EXCEPT ![a] =
                         [Linked(a, 1) EXCEPT ![1] = Advanced(@, size)]]
          /\ objs' = [objs EXCEPT ![h] =
                        [arena |-> a, region |-> 1, from |-> Linked(a, 1)[1].pos,
                         size |-> size, kind |-> "index"]]
      BY <3>1, <2>2, <2>4, <1>1
    <3>3. WholeSizes(1) => size % Alignment = 0
      BY DEF WholeSizes
    <3> QED
      BY <3>2, <3>3, <2>1, <2>3, <2>4, AdvancedAligned
  <2>5. CASE r # 1
    <3>1. chain' = [chain EXCEPT ![a] = Linked(a, r)] /\ objs' = objs
      BY <2>2, <2>5
    <3>2. /\ \A q \in 1 .. Len(chain[a]) : Linked(a, r)[q] = chain[a][q]
          /\ r > Len(chain[a]) => Linked(a, r)[r] = Empty
      BY <2>3, LinkedFacts
    <3>3. \A q \in 1 .. Len(Linked(a, r)) : q # r => q \in 1 .. Len(chain[a])
      BY <1>1, <2>3 DEF Linked
    <3>4. ASSUME NEW b \in Arenas, NEW q \in 1 .. Len(chain'[b]), WholeSizes(q)
          PROVE  chain'[b][q].pos % Alignment = 0
      <4>1. CASE b # a
        BY <4>1, <3>1, <3>4, <1>1 DEF AlignedRegions
      <4>2. CASE b = a /\ q \in 1 .. Len(chain[a])
        BY <4>2, <3>1, <3>2, <3>4, <1>1 DEF AlignedRegions
      <4>3. CASE b = a /\ q \notin 1 .. Len(chain[a])
        <5>1. q = r /\ r > Len(chain[a])
          BY <4>3, <3>1, <3>3, <3>4, <2>3, <1>1
        <5> QED
          BY <5>1, <4>3, <3>1, <3>2, <1>1 DEF Empty
      <4> QED
        BY <4>1, <4>2, <4>3
    <3> QED
      BY <3>1, <3>4 DEF AlignedRegions, WholeSizes
  <2> QED
    BY <2>4, <2>5
<1>6. ASSUME NEW a \in Arenas, NEW h \in Handles, Decr(a, h)
      PROVE  AlignedRegions'
  <2>1. PICK r \in ArenaOf(a, objs[h]) :
          /\ chain' = [chain EXCEPT ![a][r] = Decremented(@)]
          /\ objs' = [objs EXCEPT ![h] = None]
    BY <1>6 DEF Decr
  <2>2. r \in 1 .. Len(chain[a])
    BY <2>1 DEF ArenaOf
  <2>3. /\ \A b \in Arenas : Len(chain'[b]) = Len(chain[b])
        /\ \A b \in Arenas : b # a => chain'[b] = chain[b]
        /\ chain'[a][r] = Decremented(chain[a][r])
        /\ \A q \in 1 .. Len(chain[a]) : q # r => chain'[a][q] = chain[a][q]
    BY <1>1, <2>1, <2>2
  <2>4. chain'[a][r].pos \in {0, chain[a][r].pos}
    BY <2>3 DEF Decremented
  <2>5. \A b \in Arenas : \A q \in 1 .. Len(chain'[b]) :
          WholeSizes(q) => chain'[b][q].pos % Alignment = 0
    BY <1>1, <2>2, <2>3, <2>4 DEF AlignedRegions
  <2>6. \A g \in Handles : objs'[g] # None => objs'[g] = objs[g]
    BY <1>1, <2>1
  <2>7. \A g \in Handles : objs'[g] # None /\ WholeSizes(objs'[g].region)
          => objs'[g].from % Alignment = 0
    BY <2>6 DEF AlignedRegions
  <2> QED
    BY <2>5, <2>7 DEF AlignedRegions, WholeSizes
<1>7. CASE UNCHANGED vars
  BY <1>7 DEF vars, AlignedRegions, WholeSizes
<1> QED
  BY <1>2, <1>3, <1>4, <1>5, <1>6, <1>7 DEF Next

LEMMA AlwaysAlignedRegions == Spec => []AlignedRegions
<1>1. Init => AlignedRegions
  BY DEF Init, AlignedRegions
<1> QED
  BY <1>1, AlwaysIInv, AlignedRegionsStep, PTL DEF Spec

(* What arena_push returns is aligned, as its ASSUME_ALIGNED says, where   *)
(* every size arena_push_index32 is given is a whole number of alignments: *)
(* the run "arena_index" shows that it is not otherwise.                   *)
THEOREM AlwaysPushAligned ==
  ASSUME \A size \in IndexSizes : size % Alignment = 0
  PROVE  Spec => []PushAligned
<1>1. AlignedRegions => PushAligned
  BY DEF AlignedRegions, WholeSizes, PushAligned, Held
<1> QED
  BY <1>1, AlwaysAlignedRegions, PTL

(* Whatever those sizes are, an object outside the first region of its     *)
(* arena is aligned: the sizes spoil the first region only.                *)
THEOREM LaterRegionsStayAligned ==
  Spec => [](\A h \in Held : objs[h].region > 1 => objs[h].from % Alignment = 0)
<1>1. AlignedRegions => \A h \in Held : objs[h].region > 1 => objs[h].from % Alignment = 0
  BY DEF AlignedRegions, WholeSizes, Held
<1> QED
  BY <1>1, AlwaysAlignedRegions, PTL
=============================================================================
