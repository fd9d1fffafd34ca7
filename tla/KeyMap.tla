------------------------------- MODULE KeyMap -------------------------------
(***************************************************************************)
(* What a map generated from cbase/hash.c promises: it is a partial        *)
(* function from keys to values, and each call returns what it would on    *)
(* one.  HashMap implements it.                                            *)
(***************************************************************************)
CONSTANTS Keys, Values, Null

VARIABLES
  contents,     (* the value of each key, Null if the map does not have it *)
  result        (* what the last call returned, and the value it found     *)

kmVars == <<contents, result>>

Returned(ok, value) == [ok |-> ok, value |-> value]

KMInit ==
  /\ contents = [k \in Keys |-> Null]
  /\ result = Returned(FALSE, Null)

Has(k) == contents[k] # Null

Insert(k, v) ==
  /\ contents' = IF Has(k) THEN contents ELSE [contents EXCEPT ![k] = v]
  /\ result' = Returned(~Has(k), Null)

Overwrite(k, v) ==
  /\ contents' = [contents EXCEPT ![k] = v]
  /\ result' = Returned(TRUE, Null)

Lookup(k) ==
  /\ result' = Returned(Has(k), contents[k])
  /\ UNCHANGED contents

Remove(k) ==
  /\ contents' = [contents EXCEPT ![k] = Null]
  /\ result' = Returned(Has(k), Null)

Zero ==
  /\ contents' = [k \in Keys |-> Null]
  /\ result' = Returned(TRUE, Null)

KMNext ==
  \/ \E k \in Keys : Lookup(k) \/ Remove(k)
  \/ \E k \in Keys, v \in Values : Insert(k, v) \/ Overwrite(k, v)
  \/ Zero

KMSpec == KMInit /\ [][KMNext]_kmVars
=============================================================================
