----------------------------- MODULE ParallelFor -----------------------------
(***************************************************************************)
(* What parallel_for (cbase/threads.c) promises the thread that calls it:  *)
(* the function is applied to the indices 0 .. length-1, to every one of   *)
(* them exactly once, in whatever order and by whatever thread, and the    *)
(* call returns only after that.  ThreadPool implements it.                *)
(***************************************************************************)
EXTENDS Integers

CONSTANTS
  Callers,      (* the threads that call parallel_for                      *)
  MaxLength     (* longest range of a call                                 *)

VARIABLES
  length,       (* length of the call a thread is in, 0 when it is in none *)
  applied       (* how often the function was applied to each index        *)

pfVars == <<length, applied>>

Untouched == [i \in 0 .. MaxLength - 1 |-> 0]

PFInit ==
  /\ length = [c \in Callers |-> 0]
  /\ applied = [c \in Callers |-> Untouched]

Call(c) ==
  /\ length[c] = 0
  /\ \E n \in 1 .. MaxLength : length' = [length EXCEPT ![c] = n]
  /\ applied' = [applied EXCEPT ![c] = Untouched]

(* The function gets one range of the call, none of it applied before. *)
Apply(c) ==
  \E first \in 0 .. length[c] - 1 :
    \E last \in first .. length[c] - 1 :
      /\ \A i \in first .. last : applied[c][i] = 0
      /\ applied' = [applied EXCEPT ![c] =
           [i \in 0 .. MaxLength - 1 |->
              IF i \in first .. last THEN 1 ELSE @[i]]]
      /\ UNCHANGED length

Return(c) ==
  /\ length[c] > 0
  /\ \A i \in 0 .. length[c] - 1 : applied[c][i] = 1
  /\ length' = [length EXCEPT ![c] = 0]
  /\ UNCHANGED applied

PFNext == \E c \in Callers : Call(c) \/ Apply(c) \/ Return(c)

PFSpec == PFInit /\ [][PFNext]_pfVars
=============================================================================
