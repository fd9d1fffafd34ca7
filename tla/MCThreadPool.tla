---------------------------- MODULE MCThreadPool ----------------------------
(***************************************************************************)
(* ThreadPool for TLC.  With one caller the pool grows from two to three   *)
(* workers, the ring of three slots wraps around, and all three ways of    *)
(* choosing thread_count occur.  With two callers, each call wants two of  *)
(* the three slots, so the queue can be full, and both may start workers   *)
(* at the same time: four is all they can start.  (One caller never starts *)
(* more than three; five leaves room for one that would start too many.)   *)
(***************************************************************************)
EXTENDS ThreadPool

Args(length, max_threads, min_items) ==
  [length |-> length, max_threads |-> max_threads, min_items |-> min_items]

OneCallerInputs == {Args(0, 3, 1), Args(3, 1, 1), Args(2, 3, 3), Args(2, 3, 1),
                    Args(3, 2, 1), Args(4, 3, 2)}
TwoCallerInputs == {Args(3, 3, 1), Args(1, 3, 1)}
OneWorkers == 1 .. 5
TwoWorkers == 1 .. 4
=============================================================================
