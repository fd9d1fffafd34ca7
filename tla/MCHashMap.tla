----------------------------- MODULE MCHashMap ------------------------------
(***************************************************************************)
(* HashMap for TLC.  Three keys collide modulo 2, two of them in every     *)
(* capacity; the table grows twice, and a third time would overflow.       *)
(***************************************************************************)
EXTENDS HashMap, TLC

CONSTANTS k1, k2, k3, k4

MCKeys == {k1, k2, k3, k4}
MCHash == k1 :> 1 @@ k2 :> 1 @@ k3 :> 3 @@ k4 :> 6
MCValues == {0, 1}
MCCapacities == {2, 4, 8}
MCLengths == {0, 2}
=============================================================================
