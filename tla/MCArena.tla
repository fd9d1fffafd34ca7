------------------------------ MODULE MCArena -------------------------------
(***************************************************************************)
(* Arena for TLC: an arena of four bytes with up to three regions, another *)
(* of six, and four handles of either's objects.  Sizes are smaller than,  *)
(* equal to and larger than an alignment of two, and as large as a region. *)
(***************************************************************************)
EXTENDS Arena, TLC

MCDataSize == <<4, 6>>

HandlesAreAlike == Permutations(Handles)
=============================================================================
