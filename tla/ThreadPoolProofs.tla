--------------------------- MODULE ThreadPoolProofs ---------------------------
(***************************************************************************)
(* ThreadPool for any number of callers, workers and slots: the slices of  *)
(* a call partition its range; no pointer into the stack frame of a call   *)
(* outlives the call; the ring and the count of what is pending are exact; *)
(* the pool implements ParallelFor; and, with one caller, the shutdown     *)
(* joins every worker.                                                     *)
(***************************************************************************)
EXTENDS ThreadPool, FiniteSetTheorems, TLAPS

(* The slices of a call are not empty, begin at 0, follow one another      *)
(* without gap or overlap, and end at length: so each index is in exactly  *)
(* one of them, for every length and every number of threads. *)
THEOREM SlicesPartition ==
  ASSUME NEW length \in Nat, NEW n \in 1 .. length
  PROVE  /\ Slice(length, n, 0).start = 0
         /\ Slice(length, n, n - 1).end = length
         /\ \A i \in 0 .. n - 1 :
              /\ Slice(length, n, i).start < Slice(length, n, i).end
              /\ Slice(length, n, i).start \in 0 .. length
              /\ Slice(length, n, i).end \in 0 .. length
              /\ i + 1 < n => Slice(length, n, i).end
                                = Slice(length, n, i + 1).start
<1> DEFINE range == length \div n
<1>1. range \in Nat /\ range >= 1 /\ n * range <= length
  OBVIOUS
<1> HIDE DEF range
<1>2. ASSUME NEW i \in 0 .. n - 1
      PROVE  /\ i * range \in 0 .. length
             /\ (i + 1) * range \in 0 .. length
             /\ (i + 1) * range = i * range + range
  <2>1. (i + 1) * range = i * range + range
    BY <1>1
  <2>2. i * range >= 0
    BY <1>1
  <2>3. (i + 1) * range <= n * range
    BY <1>1
  <2>4. i * range \in Int /\ (i + 1) * range \in Int
    BY <1>1
  <2> QED
    BY <1>1, <2>1, <2>2, <2>3, <2>4
<1>3. ASSUME NEW i \in 0 .. n - 1
      PROVE  /\ Slice(length, n, i).start = i * range
             /\ Slice(length, n, i).end =
                  IF i + 1 < n THEN (i + 1) * range ELSE length
  BY DEF Slice, range
<1>4. 0 \in 0 .. n - 1 /\ n - 1 \in 0 .. n - 1 /\ 0 * range = 0
  BY <1>1
<1>5. Slice(length, n, 0).start = 0
  BY <1>3, <1>4
<1>6. Slice(length, n, n - 1).end = length
  BY <1>3, <1>4
<1>7. ASSUME NEW i \in 0 .. n - 1
      PROVE  /\ Slice(length, n, i).start < Slice(length, n, i).end
             /\ Slice(length, n, i).start \in 0 .. length
             /\ Slice(length, n, i).end \in 0 .. length
             /\ i + 1 < n => Slice(length, n, i).end
                               = Slice(length, n, i + 1).start
  <2>1. Slice(length, n, i).start = i * range /\ i * range \in 0 .. length
    BY <1>2, <1>3
  <2>2. CASE i + 1 < n
    <3>1. i + 1 \in 0 .. n - 1
      BY <2>2
    <3>2. Slice(length, n, i).end = (i + 1) * range
          /\ Slice(length, n, i + 1).start = (i + 1) * range
      BY <1>3, <2>2, <3>1
    <3> QED
      BY <1>1, <1>2, <2>1, <3>2
  <2>3. CASE ~(i + 1 < n)
    <3>1. Slice(length, n, i).end = length
      BY <1>3, <2>3
    <3>2. i * range + range <= length
      BY <1>2
    <3> QED
      BY <1>1, <2>1, <2>3, <3>1, <3>2
  <2> QED
    BY <2>2, <2>3
<1> QED
  BY <1>5, <1>6, <1>7

(* A call never wants more threads than it has items, or than there are    *)
(* slots in the queue; one that is not done inline wants at least two. *)
LEMMA ThreadCountBounds ==
  ASSUME NEW a \in Arguments
  PROVE  /\ ThreadCount(a) \in 0 .. PARALLEL_FOR_MAX_THREADS
         /\ ThreadCount(a) <= a.length
<1> USE ConstantsAssumption
<1>1. a.length \in Nat /\ a.max_threads \in Int /\ a.min_items \in Int
  BY DEF Arguments
<1> QED
  BY <1>1 DEF ThreadCount, Lesser
-----------------------------------------------------------------------------
(* Type correctness.  It rests on what thread_count was when the caller    *)
(* left the inline path, and on a busy worker having a slice. *)

Splitting == {"ensure", "init", "register", "loop", "start", "submit"}

Shape ==
  /\ \A c \in Callers : pc[c] \in Splitting => NSlices(c) >= 2
  /\ \A w \in Workers : w \in Busy => work[w] # Null

TypeInv == TypeOK /\ Shape

LEMMA SlotsRing ==
  ASSUME NEW k \in Int
  PROVE  k % PARALLEL_FOR_MAX_THREADS \in Slots
BY ConstantsAssumption DEF Slots

LEMMA NoArgsType == NoArgs \in Arguments
BY ConstantsAssumption DEF NoArgs, Arguments

LEMMA ApplyRangeType ==
  ASSUME NEW f \in [0 .. MaxLength - 1 -> Nat], NEW s, NEW e
  PROVE  ApplyRange(f, s, e) \in [0 .. MaxLength - 1 -> Nat]
BY DEF ApplyRange

(* What a step must do for Shape, caller by caller and worker by worker. *)
LEMMA ShapeKept ==
  ASSUME \A d \in Callers : pc'[d] \in Splitting => ThreadCount(args'[d]) >= 2,
         \A w \in Workers : wpc'[w] \in {"run", "done"} => work'[w] # Null
  PROVE  Shape'
BY DEF Shape, NSlices, Busy

LEMMA InitTypeInv == Init => TypeInv
<1> SUFFICES ASSUME Init PROVE TypeInv
  OBVIOUS
<1> USE ConstantsAssumption
<1>1. CallerTypeOK
  <2>1. 0 \in 0 .. MaxCalls /\ "out" \in CallerStates
    BY DEF CallerStates
  <2>2. [start |-> 0, end |-> 0] \in Slices
    BY DEF Slices
  <2> QED
    BY <2>1, <2>2, NoArgsType DEF Init, CallerTypeOK, Untouched
<1>2. WorkerTypeOK
  BY DEF Init, WorkerTypeOK, WorkerStates
<1>3. QueueTypeOK
  BY DEF Init, QueueTypeOK, Slots
<1>4. PoolTypeOK
  <2>1. 0 \in 0 .. PARALLEL_FOR_MAX_THREADS
    OBVIOUS
  <2> QED
    BY <2>1 DEF Init, PoolTypeOK
<1>5. Shape
  BY DEF Init, Shape, Splitting, Busy
<1> QED
  BY <1>1, <1>2, <1>3, <1>4, <1>5 DEF TypeInv, TypeOK

(* The steps a caller takes on its own account. *)
LEMMA CallTypes ==
  ASSUME TypeInv, NEW c \in Callers,
         \/ \E a \in Inputs : Call(c, a)
         \/ RunInline(c) \/ ReturnInline(c)
  PROVE  TypeInv'
<1> USE ConstantsAssumption
<1>1. CallerTypeOK /\ WorkerTypeOK /\ QueueTypeOK /\ PoolTypeOK /\ Shape
  BY DEF TypeInv, TypeOK
<1>2. \A d \in Callers : pc[d] \in Splitting => ThreadCount(args[d]) >= 2
  BY <1>1 DEF Shape, NSlices
<1>3. \A w \in Workers : wpc[w] \in {"run", "done"} => work[w] # Null
  BY <1>1 DEF Shape, Busy
<1>4. ASSUME NEW a \in Inputs, Call(c, a) PROVE TypeInv'
  <2>1. a \in Arguments
    BY DEF Arguments
  <2>2. ThreadCount(a) \in Int
    BY <2>1, ThreadCountBounds
  <2>3. UNCHANGED <<next, slices, workerVars, queueVars, poolVars, exitVars>>
    BY <1>4 DEF Call
  <2>4. WorkerTypeOK' /\ QueueTypeOK' /\ PoolTypeOK'
    BY <1>1, <2>3 DEF WorkerTypeOK, QueueTypeOK, PoolTypeOK, workerVars,
       queueVars, poolVars, exitVars
  <2>5. calls' \in [Callers -> 0 .. MaxCalls]
    BY <1>1, <1>4 DEF Call, CallerTypeOK
  <2>6. CASE a.length <= 0
    <3>1. UNCHANGED <<pc, args, applied>>
      BY <1>4, <2>6 DEF Call
    <3>2. CallerTypeOK'
      BY <1>1, <2>3, <2>5, <3>1 DEF CallerTypeOK
    <3>3. Shape'
      BY <1>2, <1>3, <2>3, <3>1, ShapeKept DEF workerVars
    <3> QED
      BY <2>4, <3>2, <3>3 DEF TypeInv, TypeOK
  <2>7. CASE ~(a.length <= 0)
    <3>1. /\ args' = [args EXCEPT ![c] = a]
          /\ applied' = [applied EXCEPT ![c] = Untouched]
          /\ pc' = [pc EXCEPT ![c] = IF ThreadCount(a) <= 1 THEN "inline"
                                    ELSE "ensure"]
      BY <1>4, <2>7 DEF Call
    <3>2. pc' \in [Callers -> CallerStates]
      BY <1>1, <3>1 DEF CallerTypeOK, CallerStates
    <3>3. args' \in [Callers -> Arguments]
      BY <1>1, <2>1, <3>1 DEF CallerTypeOK
    <3>4. applied' \in [Callers -> [0 .. MaxLength - 1 -> Nat]]
      BY <1>1, <3>1 DEF CallerTypeOK, Untouched
    <3>5. CallerTypeOK'
      BY <1>1, <2>3, <2>5, <3>2, <3>3, <3>4 DEF CallerTypeOK
    <3>6. ASSUME NEW d \in Callers, pc'[d] \in Splitting
          PROVE  ThreadCount(args'[d]) >= 2
      BY <1>1, <1>2, <2>2, <3>1, <3>6 DEF CallerTypeOK, Splitting
    <3>7. Shape'
      BY <1>3, <2>3, <3>6, ShapeKept DEF workerVars
    <3> QED
      BY <2>4, <3>5, <3>7 DEF TypeInv, TypeOK
  <2> QED
    BY <2>6, <2>7
<1>5. CASE RunInline(c) \/ ReturnInline(c)
  <2>1. UNCHANGED <<next, slices, calls, workerVars, queueVars, poolVars,
                    exitVars>>
    BY <1>5 DEF RunInline, ReturnInline
  <2>2. WorkerTypeOK' /\ QueueTypeOK' /\ PoolTypeOK'
    BY <1>1, <2>1 DEF WorkerTypeOK, QueueTypeOK, PoolTypeOK, workerVars,
       queueVars, poolVars, exitVars
  <2>3. pc' \in [Callers -> CallerStates] /\ args' \in [Callers -> Arguments]
    BY <1>1, <1>5, NoArgsType DEF RunInline, ReturnInline, CallerTypeOK,
       CallerStates
  <2>4. applied' \in [Callers -> [0 .. MaxLength - 1 -> Nat]]
    <3>1. applied[c] \in [0 .. MaxLength - 1 -> Nat]
      BY <1>1 DEF CallerTypeOK
    <3>2. ApplyRange(applied[c], 0, args[c].length)
            \in [0 .. MaxLength - 1 -> Nat]
      BY <3>1, ApplyRangeType
    <3> QED
      BY <1>1, <1>5, <3>2 DEF RunInline, ReturnInline, CallerTypeOK
  <2>5. CallerTypeOK'
    BY <1>1, <2>1, <2>3, <2>4 DEF CallerTypeOK
  <2>6. Shape'
    BY <1>1, <1>2, <1>3, <1>5, <2>1, ShapeKept DEF RunInline, ReturnInline,
       Splitting, CallerTypeOK, workerVars
  <2> QED
    BY <2>2, <2>5, <2>6 DEF TypeInv, TypeOK
<1> QED
  BY <1>4, <1>5

LEMMA EnsureTypes ==
  ASSUME TypeInv, NEW c \in Callers, Ensure(c)
  PROVE  TypeInv'
<1> USE ConstantsAssumption
<1>1. CallerTypeOK /\ WorkerTypeOK /\ QueueTypeOK /\ PoolTypeOK /\ Shape
  BY DEF TypeInv, TypeOK
<1>2. \A d \in Callers : pc[d] \in Splitting => ThreadCount(args[d]) >= 2
  BY <1>1 DEF Shape, NSlices
<1>3. \A w \in Workers : wpc[w] \in {"run", "done"} => work[w] # Null
  BY <1>1 DEF Shape, Busy
<1>4. NSlices(c) \in 0 .. PARALLEL_FOR_MAX_THREADS
  BY <1>1, ThreadCountBounds DEF NSlices, CallerTypeOK
<1>5. ASSUME NEW s \in CallerStates, pc[c] \in Splitting,
             pc' = [pc EXCEPT ![c] = s], next' \in [Callers -> Nat],
             UNCHANGED <<args, slices, calls, applied, workerVars, queueVars>>
      PROVE  CallerTypeOK' /\ WorkerTypeOK' /\ QueueTypeOK' /\ Shape'
  <2>1. CallerTypeOK'
    BY <1>1, <1>5 DEF CallerTypeOK
  <2>2. WorkerTypeOK' /\ QueueTypeOK'
    BY <1>1, <1>5 DEF WorkerTypeOK, QueueTypeOK, workerVars, queueVars
  <2>3. \A d \in Callers : pc'[d] \in Splitting => ThreadCount(args'[d]) >= 2
    BY <1>1, <1>2, <1>5 DEF CallerTypeOK
  <2>4. Shape'
    BY <1>3, <1>5, <2>3, ShapeKept DEF workerVars
  <2> QED
    BY <2>1, <2>2, <2>4
<1>6. next \in [Callers -> Nat]
  BY <1>1 DEF CallerTypeOK
<1>7. CASE EnsureStarted(c)
  <2>1. /\ pc[c] \in Splitting
        /\ pc' = [pc EXCEPT ![c] = IF NSlices(c) <= nthreads THEN "submit"
                                  ELSE "init"]
        /\ UNCHANGED <<args, next, slices, calls, applied, workerVars,
                       queueVars, poolVars, exitVars>>
    BY <1>7 DEF EnsureStarted, Splitting
  <2>2. PoolTypeOK'
    BY <1>1, <2>1 DEF PoolTypeOK, poolVars, exitVars
  <2>3. "submit" \in CallerStates /\ "init" \in CallerStates
    BY DEF CallerStates
  <2> QED
    BY <1>5, <1>6, <2>1, <2>2, <2>3 DEF TypeInv, TypeOK
<1>8. CASE CheckInitialized(c)
  <2>1. /\ pc[c] \in Splitting
        /\ pc' = [pc EXCEPT ![c] = IF is_initialized THEN "loop"
                                  ELSE "register"]
        /\ UNCHANGED <<args, next, slices, calls, applied, workerVars,
                       queueVars, poolVars, exitVars>>
    BY <1>8 DEF CheckInitialized, Splitting
  <2>2. PoolTypeOK'
    BY <1>1, <2>1 DEF PoolTypeOK, poolVars, exitVars
  <2>3. "loop" \in CallerStates /\ "register" \in CallerStates
    BY DEF CallerStates
  <2> QED
    BY <1>5, <1>6, <2>1, <2>2, <2>3 DEF TypeInv, TypeOK
<1>9. CASE RegisterShutdown(c)
  <2>1. /\ pc[c] \in Splitting /\ pc' = [pc EXCEPT ![c] = "loop"]
        /\ UNCHANGED <<args, next, slices, calls, applied, workerVars,
                       queueVars>>
    BY <1>9 DEF RegisterShutdown, Splitting
  <2>2. PoolTypeOK'
    BY <1>1, <1>9 DEF RegisterShutdown, PoolTypeOK
  <2>3. "loop" \in CallerStates
    BY DEF CallerStates
  <2> QED
    BY <1>5, <1>6, <2>1, <2>2, <2>3 DEF TypeInv, TypeOK
<1>10. CASE StartLoop(c)
  <2>1. /\ pc[c] \in Splitting /\ pc' = [pc EXCEPT ![c] = "start"]
        /\ UNCHANGED <<args, slices, calls, applied, workerVars, queueVars,
                       poolVars, exitVars>>
    BY <1>10 DEF StartLoop, Splitting
  <2>2. PoolTypeOK'
    BY <1>1, <2>1 DEF PoolTypeOK, poolVars, exitVars
  <2>3. "start" \in CallerStates
    BY DEF CallerStates
  <2>4. next' \in [Callers -> Nat]
    BY <1>1, <1>6, <1>10 DEF StartLoop, PoolTypeOK
  <2> QED
    BY <1>5, <2>1, <2>2, <2>3, <2>4 DEF TypeInv, TypeOK
<1>11. CASE SetNThreads(c)
  <2>1. /\ pc[c] \in Splitting /\ pc' = [pc EXCEPT ![c] = "submit"]
        /\ UNCHANGED <<args, next, slices, calls, applied, workerVars,
                       queueVars>>
    BY <1>11 DEF SetNThreads, Splitting
  <2>2. PoolTypeOK'
    BY <1>1, <1>4, <1>11 DEF SetNThreads, PoolTypeOK, exitVars
  <2>3. "submit" \in CallerStates
    BY DEF CallerStates
  <2> QED
    BY <1>5, <1>6, <2>1, <2>2, <2>3 DEF TypeInv, TypeOK
<1>12. CASE StartWorkerFails(c)
  <2>1. /\ pc[c] \in Splitting /\ pc' \in {pc, [pc EXCEPT ![c] = "exit"]}
        /\ dead' \in BOOLEAN
        /\ UNCHANGED <<args, next, slices, calls, applied, workerVars,
                       queueVars, poolVars, is_stopping, handlers, joined>>
    BY <1>1, <1>12 DEF StartWorkerFails, Fatal, Splitting, PoolTypeOK
  <2>2. PoolTypeOK'
    BY <1>1, <2>1 DEF PoolTypeOK, poolVars
  <2>3. "exit" \in CallerStates /\ pc[c] \in CallerStates
        /\ pc = [pc EXCEPT ![c] = pc[c]]
    BY <1>1 DEF CallerStates, Exiting, CallerTypeOK
  <2> QED
    BY <1>5, <1>6, <2>1, <2>2, <2>3 DEF TypeInv, TypeOK
<1>13. CASE StartWorker(c)
  <2>1. /\ UNCHANGED <<pc, args, slices, calls, applied, work, queueVars,
                       nthreads, is_initialized, exitVars>>
        /\ next' = [next EXCEPT ![c] = @ + 1] /\ next[c] < NSlices(c)
    BY <1>13 DEF StartWorker
  <2>2. PICK w \in Workers :
          /\ wpc[w] = "unborn"
          /\ wpc' = [wpc EXCEPT ![w] = "idle"]
          /\ threads' = [threads EXCEPT ![next[c]] = w]
    BY <1>13 DEF StartWorker
  <2>3. CallerTypeOK'
    <3>1. next' \in [Callers -> Nat]
      BY <1>6, <2>1
    <3> QED
      BY <1>1, <2>1, <3>1 DEF CallerTypeOK
  <2>4. WorkerTypeOK' /\ QueueTypeOK'
    BY <1>1, <2>1, <2>2 DEF WorkerTypeOK, WorkerStates, QueueTypeOK, queueVars
  <2>5. PoolTypeOK'
    BY <1>1, <2>1, <2>2 DEF PoolTypeOK, exitVars
  <2>6. Shape'
    BY <1>1, <1>2, <1>3, <2>1, <2>2, ShapeKept DEF WorkerTypeOK
  <2> QED
    BY <2>3, <2>4, <2>5, <2>6 DEF TypeInv, TypeOK
<1> QED
  BY <1>7, <1>8, <1>9, <1>10, <1>11, <1>12, <1>13 DEF Ensure

(* A caller that only moves on, and not back into the part of the call     *)
(* that splits the range. *)
LEMMA CallerMoves ==
  ASSUME TypeInv, NEW c \in Callers, NEW s \in CallerStates \ Splitting,
         pc' \in {pc, [pc EXCEPT ![c] = s]},
         UNCHANGED <<args, next, slices, calls, applied>>
  PROVE  /\ CallerTypeOK'
         /\ \A d \in Callers : pc'[d] \in Splitting => ThreadCount(args'[d]) >= 2
<1>1. CallerTypeOK /\ Shape
  BY DEF TypeInv, TypeOK
<1>2. CallerTypeOK'
  BY <1>1 DEF CallerTypeOK
<1>3. ASSUME NEW d \in Callers, pc'[d] \in Splitting
      PROVE  ThreadCount(args'[d]) >= 2
  <2>1. pc[d] \in Splitting
    BY <1>1, <1>3 DEF CallerTypeOK
  <2> QED
    BY <1>1, <2>1 DEF Shape, NSlices
<1> QED
  BY <1>2, <1>3

LEMMA SubmitTypes ==
  ASSUME TypeInv, NEW c \in Callers, Submit(c)
  PROVE  TypeInv'
<1> USE ConstantsAssumption
<1> DEFINE n == NSlices(c)
           m == Lesser(n, PARALLEL_FOR_MAX_THREADS - count)
           s == IF m = n THEN "waiting" ELSE "exit"
<1>1. CallerTypeOK /\ WorkerTypeOK /\ QueueTypeOK /\ PoolTypeOK /\ Shape
  BY DEF TypeInv, TypeOK
<1>2. n \in 2 .. PARALLEL_FOR_MAX_THREADS /\ n <= args[c].length
      /\ args[c].length \in 0 .. MaxLength
  <2>1. args[c] \in Arguments /\ pc[c] \in Splitting
    BY <1>1 DEF CallerTypeOK, Submit, Splitting
  <2>2. n >= 2
    BY <1>1, <2>1 DEF Shape
  <2> QED
    BY <2>1, <2>2, ThreadCountBounds DEF NSlices, Arguments
<1>3. m \in 0 .. PARALLEL_FOR_MAX_THREADS /\ m <= n
      /\ m <= PARALLEL_FOR_MAX_THREADS - count
      /\ count \in 0 .. PARALLEL_FOR_MAX_THREADS
  BY <1>1, <1>2 DEF QueueTypeOK, Lesser
<1>4. /\ slices' = [slices EXCEPT ![c] =
             [i \in Slots |-> IF i < n /\ i <= m
                              THEN Slice(args[c].length, n, i) ELSE @[i]]]
      /\ items' = [j \in Slots |->
             LET k == (j - tail) % PARALLEL_FOR_MAX_THREADS
             IN IF k < m THEN <<c, k>> ELSE items[j]]
      /\ tail' = (tail + m) % PARALLEL_FOR_MAX_THREADS
      /\ count' = count + m
      /\ work_pending' = work_pending + m
      /\ UNCHANGED <<args, next, calls, applied, work, head, poolVars,
                     is_stopping, handlers, joined>>
  BY DEF Submit
<1>5. PICK woken \in SUBSET Waiting :
        wpc' = [w \in Workers |-> IF w \in woken THEN "idle" ELSE wpc[w]]
  BY DEF Submit
<1>6. pc' \in {pc, [pc EXCEPT ![c] = s]} /\ dead' \in BOOLEAN
      /\ pc[c] = "submit"
  BY <1>1 DEF Submit, Fatal, PoolTypeOK
<1>7. \A i \in Slots : i < n => Slice(args[c].length, n, i) \in Slices
  <2> SUFFICES ASSUME NEW i \in Slots, i < n
               PROVE  Slice(args[c].length, n, i) \in Slices
    OBVIOUS
  <2>1. i \in 0 .. n - 1 /\ args[c].length \in Nat /\ n \in 1 .. args[c].length
    BY <1>2 DEF Slots
  <2>2. /\ Slice(args[c].length, n, i).start \in 0 .. args[c].length
        /\ Slice(args[c].length, n, i).end \in 0 .. args[c].length
    BY <2>1, SlicesPartition
  <2>3. \A l, p : Slice(l, p, i) = [start |-> Slice(l, p, i).start,
                                   end |-> Slice(l, p, i).end]
    BY DEF Slice
  <2> QED
    BY <1>2, <2>2, <2>3 DEF Slices
<1>8. slices' \in [Callers -> [Slots -> Slices]]
  <2>1. slices[c] \in [Slots -> Slices] /\ slices \in [Callers -> [Slots -> Slices]]
    BY <1>1 DEF CallerTypeOK
  <2>2. [i \in Slots |-> IF i < n /\ i <= m
                         THEN Slice(args[c].length, n, i) ELSE slices[c][i]]
          \in [Slots -> Slices]
    BY <1>7, <2>1
  <2> QED
    BY <1>4, <2>1, <2>2
<1>9. CallerTypeOK'
  <2>1. s \in CallerStates
    BY DEF CallerStates, Exiting
  <2>2. pc' \in [Callers -> CallerStates]
    BY <1>1, <1>6, <2>1 DEF CallerTypeOK
  <2> QED
    BY <1>1, <1>4, <1>8, <2>2 DEF CallerTypeOK
<1>10. WorkerTypeOK'
  BY <1>1, <1>4, <1>5 DEF WorkerTypeOK, WorkerStates
<1>11. QueueTypeOK'
  <2>0. tail \in Int /\ \A j \in Slots : j \in Int
    BY <1>1 DEF QueueTypeOK, Slots
  <2>1. tail' \in Slots
    <3>1. tail + m \in Int
      BY <1>3, <2>0
    <3> QED
      BY <1>4, <3>1, SlotsRing
  <2>2. ASSUME NEW j \in Slots
        PROVE  items'[j] \in Pointers \cup {Null}
    <3>1. (j - tail) % PARALLEL_FOR_MAX_THREADS \in Slots
      BY <2>0, SlotsRing
    <3> QED
      BY <1>1, <1>4, <3>1 DEF QueueTypeOK, Pointers
  <2>3. items' \in [Slots -> Pointers \cup {Null}]
    BY <1>4, <2>2
  <2> QED
    BY <1>1, <1>3, <1>4, <2>1, <2>3 DEF QueueTypeOK
<1>12. PoolTypeOK'
  BY <1>1, <1>4, <1>6 DEF PoolTypeOK, poolVars
<1>13. Shape'
  <2>1. \A d \in Callers : pc'[d] \in Splitting => ThreadCount(args'[d]) >= 2
    BY <1>1, <1>4, <1>6 DEF Shape, NSlices, CallerTypeOK, Splitting
  <2>2. \A w \in Workers : wpc'[w] \in {"run", "done"} => work'[w] # Null
    BY <1>1, <1>4, <1>5 DEF Shape, Busy
  <2> QED
    BY <2>1, <2>2, ShapeKept
<1> QED
  BY <1>9, <1>10, <1>11, <1>12, <1>13 DEF TypeInv, TypeOK

LEMMA WaitTypes ==
  ASSUME TypeInv, NEW c \in Callers,
         WaitAgain(c) \/ CallerWakesUp(c) \/ Return(c) \/ Exit(c)
  PROVE  TypeInv'
<1> USE ConstantsAssumption
<1>1. CallerTypeOK /\ WorkerTypeOK /\ QueueTypeOK /\ PoolTypeOK /\ Shape
  BY DEF TypeInv, TypeOK
<1>2. {"waiting", "woken", "exit", "out"} \subseteq CallerStates \ Splitting
  BY DEF CallerStates, Exiting, Splitting
<1>3. \A w \in Workers : wpc[w] \in {"run", "done"} => work[w] # Null
  BY <1>1 DEF Shape, Busy
<1>4. CASE WaitAgain(c) \/ CallerWakesUp(c) \/ Exit(c)
  <2>1. PICK s \in {"waiting", "woken", "exit"} : pc' = [pc EXCEPT ![c] = s]
    BY <1>4 DEF WaitAgain, CallerWakesUp, Exit
  <2>2. UNCHANGED <<args, next, slices, calls, applied, workerVars, queueVars,
                    poolVars, exitVars>>
    BY <1>4 DEF WaitAgain, CallerWakesUp, Exit
  <2>3. WorkerTypeOK' /\ QueueTypeOK' /\ PoolTypeOK'
    BY <1>1, <2>2 DEF WorkerTypeOK, QueueTypeOK, PoolTypeOK, workerVars,
       queueVars, poolVars, exitVars
  <2>4. CallerTypeOK' /\ Shape'
    BY <1>2, <1>3, <2>1, <2>2, CallerMoves, ShapeKept DEF workerVars
  <2> QED
    BY <2>3, <2>4 DEF TypeInv, TypeOK
<1>5. CASE Return(c)
  <2>1. /\ items' = [i \in Slots |-> Null]
        /\ pc' = [pc EXCEPT ![c] = "out"]
        /\ args' = [args EXCEPT ![c] = NoArgs]
        /\ UNCHANGED <<next, slices, calls, applied, workerVars, head, tail,
                       count, work_pending, poolVars, exitVars>>
    BY <1>5 DEF Return
  <2>2. CallerTypeOK'
    BY <1>1, <1>2, <2>1, NoArgsType DEF CallerTypeOK
  <2>3. WorkerTypeOK' /\ QueueTypeOK' /\ PoolTypeOK'
    BY <1>1, <2>1 DEF WorkerTypeOK, QueueTypeOK, PoolTypeOK, workerVars,
       poolVars, exitVars
  <2>4. \A d \in Callers : pc'[d] \in Splitting => ThreadCount(args'[d]) >= 2
    BY <1>1, <2>1 DEF Shape, NSlices, CallerTypeOK, Splitting
  <2>5. Shape'
    BY <1>3, <2>1, <2>4, ShapeKept DEF workerVars
  <2> QED
    BY <2>2, <2>3, <2>5 DEF TypeInv, TypeOK
<1> QED
  BY <1>4, <1>5

LEMMA ShutdownTypes ==
  ASSUME TypeInv, NEW c \in Callers, Shutdown(c)
  PROVE  TypeInv'
<1> USE ConstantsAssumption
<1>1. CallerTypeOK /\ WorkerTypeOK /\ QueueTypeOK /\ PoolTypeOK /\ Shape
  BY DEF TypeInv, TypeOK
<1>2. Exiting \subseteq CallerStates \ Splitting
  BY DEF CallerStates, Exiting, Splitting
<1>3. \A w \in Workers : wpc[w] \in {"run", "done"} => work[w] # Null
  BY <1>1 DEF Shape, Busy
<1>4. PICK s \in Exiting : pc' \in {pc, [pc EXCEPT ![c] = s]}
  BY DEF Shutdown, RunHandlers, NextHandler, StopWorkers, JoinWorker,
     JoinNull, ShutdownEnds, Exiting, callerVars
<1>5. UNCHANGED <<args, next, slices, calls, applied, work, queueVars>>
  BY DEF Shutdown, RunHandlers, NextHandler, StopWorkers, JoinWorker,
     JoinNull, ShutdownEnds, callerVars, workerVars
<1>6. CallerTypeOK'
      /\ \A d \in Callers : pc'[d] \in Splitting => ThreadCount(args'[d]) >= 2
  BY <1>2, <1>4, <1>5, CallerMoves
<1>7. QueueTypeOK'
  BY <1>1, <1>5 DEF QueueTypeOK, queueVars
<1>8. wpc' \in {wpc, [w \in Workers |-> IF w \in Waiting THEN "idle" ELSE wpc[w]]}
  BY DEF Shutdown, RunHandlers, NextHandler, StopWorkers, JoinWorker,
     JoinNull, ShutdownEnds, workerVars
<1>9. WorkerTypeOK'
  BY <1>1, <1>5, <1>8 DEF WorkerTypeOK, WorkerStates
<1>10. Shape'
  BY <1>1, <1>3, <1>5, <1>6, <1>8, ShapeKept DEF WorkerTypeOK
<1>11. PoolTypeOK'
  <2>1. CASE RunHandlers(c)
    BY <1>1, <2>1 DEF RunHandlers, PoolTypeOK, poolVars, exitVars
  <2>2. CASE NextHandler(c)
    <3>0. handlers \in Nat /\ dead \in BOOLEAN
      BY <1>1 DEF PoolTypeOK
    <3>1. handlers' \in Nat /\ dead' \in BOOLEAN
      <4>1. CASE handlers > 0
        <5>1. handlers' = handlers - 1 /\ UNCHANGED dead
          BY <2>2, <4>1 DEF NextHandler
        <5> QED
          BY <3>0, <4>1, <5>1
      <4>2. CASE ~(handlers > 0)
        <5>1. dead' = TRUE /\ UNCHANGED handlers
          BY <2>2, <4>2 DEF NextHandler
        <5> QED
          BY <3>0, <5>1
      <4> QED
        BY <4>1, <4>2
    <3>2. UNCHANGED <<poolVars, is_stopping, joined>>
      BY <2>2 DEF NextHandler
    <3> QED
      BY <1>1, <3>1, <3>2 DEF PoolTypeOK, poolVars
  <2>3. CASE StopWorkers(c)
    <3>1. is_stopping' \in BOOLEAN /\ joined' \in 0 .. PARALLEL_FOR_MAX_THREADS
          /\ UNCHANGED <<poolVars, handlers, dead>>
      BY <2>3 DEF StopWorkers
    <3> QED
      BY <1>1, <3>1 DEF PoolTypeOK, poolVars
  <2>4. CASE JoinWorker(c)
    <3>1. /\ threads' = [threads EXCEPT ![joined] = 0]
          /\ joined' = joined + 1 /\ joined < nthreads
          /\ UNCHANGED <<nthreads, is_initialized, is_stopping, handlers, dead>>
      BY <2>4 DEF JoinWorker
    <3>2. joined' \in 0 .. PARALLEL_FOR_MAX_THREADS
      BY <1>1, <3>1 DEF PoolTypeOK
    <3>3. threads' \in [Slots -> Workers \cup {0}]
      BY <1>1, <3>1 DEF PoolTypeOK
    <3> QED
      BY <1>1, <3>1, <3>2, <3>3 DEF PoolTypeOK
  <2>5. CASE JoinNull(c)
    BY <1>1, <2>5 DEF JoinNull, PoolTypeOK, poolVars
  <2>6. CASE ShutdownEnds(c)
    BY <1>1, <2>6 DEF ShutdownEnds, PoolTypeOK, exitVars
  <2> QED
    BY <2>1, <2>2, <2>3, <2>4, <2>5, <2>6 DEF Shutdown
<1> QED
  BY <1>6, <1>7, <1>9, <1>10, <1>11 DEF TypeInv, TypeOK

LEMMA WorkerTypes ==
  ASSUME TypeInv, NEW w \in Workers, Worker(w) \/ WorkerWakesUp(w)
  PROVE  TypeInv'
<1> USE ConstantsAssumption
<1>1. CallerTypeOK /\ WorkerTypeOK /\ QueueTypeOK /\ PoolTypeOK /\ Shape
  BY DEF TypeInv, TypeOK
<1>2. \A d \in Callers : pc[d] \in Splitting => ThreadCount(args[d]) >= 2
  BY <1>1 DEF Shape, NSlices
<1>3. \A v \in Workers : wpc[v] \in {"run", "done"} => work[v] # Null
  BY <1>1 DEF Shape, Busy
<1>4. CASE WorkerWaits(w) \/ WorkerWakesUp(w) \/ WorkerStops(w)
  <2>1. PICK s \in {"idle", "waiting", "exited"} : wpc' = [wpc EXCEPT ![w] = s]
    BY <1>4 DEF WorkerWaits, WorkerWakesUp, WorkerStops
  <2>2. UNCHANGED <<callerVars, work, queueVars, poolVars, exitVars>>
    BY <1>4 DEF WorkerWaits, WorkerWakesUp, WorkerStops
  <2>3. CallerTypeOK' /\ QueueTypeOK' /\ PoolTypeOK'
    BY <1>1, <2>2 DEF CallerTypeOK, QueueTypeOK, PoolTypeOK, callerVars,
       queueVars, poolVars, exitVars
  <2>4. WorkerTypeOK'
    BY <1>1, <2>1, <2>2 DEF WorkerTypeOK, WorkerStates
  <2>5. Shape'
    BY <1>1, <1>2, <1>3, <2>1, <2>2, ShapeKept DEF WorkerTypeOK, callerVars
  <2> QED
    BY <2>3, <2>4, <2>5 DEF TypeInv, TypeOK
<1>5. CASE TakeWork(w)
  <2>1. /\ work' = [work EXCEPT ![w] = items[head]]
        /\ items' = [items EXCEPT ![head] = Null]
        /\ head' = (head + 1) % PARALLEL_FOR_MAX_THREADS
        /\ count' = count - 1 /\ count > 0
        /\ wpc' = [wpc EXCEPT ![w] = IF items[head] = Null THEN "idle"
                                    ELSE "run"]
        /\ UNCHANGED <<callerVars, tail, work_pending, poolVars, exitVars>>
    BY <1>5 DEF TakeWork
  <2>2. CallerTypeOK' /\ PoolTypeOK'
    BY <1>1, <2>1 DEF CallerTypeOK, PoolTypeOK, callerVars, poolVars, exitVars
  <2>3. head' \in Slots
    <3>1. head + 1 \in Int
      BY <1>1 DEF QueueTypeOK, Slots
    <3> QED
      BY <2>1, <3>1, SlotsRing
  <2>4. QueueTypeOK'
    BY <1>1, <2>1, <2>3 DEF QueueTypeOK
  <2>5. WorkerTypeOK'
    BY <1>1, <2>1 DEF WorkerTypeOK, WorkerStates, QueueTypeOK
  <2>6. Shape'
    BY <1>1, <1>2, <1>3, <2>1, ShapeKept DEF WorkerTypeOK, callerVars
  <2> QED
    BY <2>2, <2>4, <2>5, <2>6 DEF TypeInv, TypeOK
<1>6. CASE RunWork(w)
  <2>1. work[w] \in Pointers
    BY <1>1, <1>3, <1>6 DEF RunWork, WorkerTypeOK
  <2>2. work[w][1] \in Callers
    BY <2>1 DEF Pointers
  <2> DEFINE c == work[w][1]
             slice == slices[c][work[w][2]]
  <2>3. /\ applied' = [applied EXCEPT ![c] =
                          ApplyRange(applied[c], slice.start, slice.end)]
        /\ wpc' = [wpc EXCEPT ![w] = "done"]
        /\ UNCHANGED <<pc, args, next, slices, calls, work, queueVars,
                       poolVars, exitVars>>
    BY <1>6 DEF RunWork
  <2>4. ApplyRange(applied[c], slice.start, slice.end)
          \in [0 .. MaxLength - 1 -> Nat]
    BY <1>1, <2>2, ApplyRangeType DEF CallerTypeOK
  <2>5. CallerTypeOK'
    BY <1>1, <2>2, <2>3, <2>4 DEF CallerTypeOK
  <2>6. WorkerTypeOK' /\ QueueTypeOK' /\ PoolTypeOK'
    BY <1>1, <2>3 DEF WorkerTypeOK, WorkerStates, QueueTypeOK, PoolTypeOK,
       queueVars, poolVars, exitVars
  <2>7. Shape'
    BY <1>1, <1>2, <1>3, <1>6, <2>3, ShapeKept DEF WorkerTypeOK, RunWork
  <2> QED
    BY <2>5, <2>6, <2>7 DEF TypeInv, TypeOK
<1>7. CASE FinishWork(w)
  <2>1. /\ work_pending' = work_pending - 1
        /\ wpc' = [wpc EXCEPT ![w] = "idle"]
        /\ work' = [work EXCEPT ![w] = Null]
        /\ UNCHANGED <<args, next, slices, calls, applied, items, head, tail,
                       count, poolVars, exitVars>>
    BY <1>7 DEF FinishWork
  <2>2. CallerTypeOK'
        /\ \A d \in Callers : pc'[d] \in Splitting => ThreadCount(args'[d]) >= 2
    <3>1. CASE UNCHANGED pc
      BY <1>1, <1>2, <2>1, <3>1 DEF CallerTypeOK
    <3>2. ASSUME NEW c \in Awaiting, pc' = [pc EXCEPT ![c] = "woken"]
          PROVE  /\ CallerTypeOK'
                 /\ \A d \in Callers :
                      pc'[d] \in Splitting => ThreadCount(args'[d]) >= 2
      <4>1. "woken" \in CallerStates \ Splitting /\ c \in Callers
        BY DEF CallerStates, Splitting, Awaiting
      <4> QED
        BY <2>1, <3>2, <4>1, CallerMoves
    <3> QED
      BY <1>7, <3>1, <3>2 DEF FinishWork
  <2>3. QueueTypeOK' /\ PoolTypeOK'
    BY <1>1, <2>1 DEF QueueTypeOK, PoolTypeOK, poolVars, exitVars
  <2>4. WorkerTypeOK'
    BY <1>1, <2>1 DEF WorkerTypeOK, WorkerStates
  <2>5. Shape'
    BY <1>1, <1>3, <2>1, <2>2, ShapeKept DEF WorkerTypeOK
  <2> QED
    BY <2>2, <2>3, <2>4, <2>5 DEF TypeInv, TypeOK
<1> QED
  BY <1>4, <1>5, <1>6, <1>7 DEF Worker

LEMMA NextTypeInv == TypeInv /\ [Next]_vars => TypeInv'
<1> SUFFICES ASSUME TypeInv, [Next]_vars PROVE TypeInv'
  OBVIOUS
<1>1. CASE UNCHANGED vars \/ Dead
  <2>1. UNCHANGED <<callerVars, workerVars, queueVars, poolVars, exitVars>>
    BY <1>1 DEF Dead, vars
  <2>2. CallerTypeOK' /\ WorkerTypeOK' /\ QueueTypeOK' /\ PoolTypeOK'
    BY <2>1 DEF TypeInv, TypeOK, CallerTypeOK, WorkerTypeOK, QueueTypeOK,
       PoolTypeOK, callerVars, workerVars, queueVars, poolVars, exitVars
  <2>3. Shape'
    BY <2>1, ShapeKept DEF TypeInv, Shape, NSlices, Busy, callerVars,
       workerVars
  <2> QED
    BY <2>2, <2>3 DEF TypeInv, TypeOK
<1>2. ASSUME NEW c \in Callers,
             Calls(c) \/ CallerStep(c) \/ CallerWakesUp(c) \/ Exit(c)
      PROVE  TypeInv'
  BY <1>2, CallTypes, EnsureTypes, SubmitTypes, WaitTypes, ShutdownTypes
  DEF Calls, CallerStep, Inline, Collect
<1>3. ASSUME NEW w \in Workers, Worker(w) \/ WorkerWakesUp(w)
      PROVE  TypeInv'
  BY <1>3, WorkerTypes
<1> QED
  BY <1>1, <1>2, <1>3 DEF Next

LEMMA TypeInvariant == Spec => []TypeInv
  BY InitTypeInv, NextTypeInv, PTL DEF Spec

(* Every variable of the pool keeps its type: in particular the indices of *)
(* the queue stay inside its array, and count within its capacity. *)
THEOREM TypeCorrect == Spec => []TypeOK
<1>1. TypeInv => TypeOK
  BY DEF TypeInv
<1> QED
  BY <1>1, TypeInvariant, PTL
-----------------------------------------------------------------------------
(* No dangling slices.  A caller returns when nothing is pending and the   *)
(* queue is empty; for that to mean that no worker is left with one of its *)
(* slices, what is pending must count at least the queued and the taken. *)

Frame == {"waiting", "woken"} \cup Exiting

AliveInv ==
  /\ count + Cardinality(Busy) <= work_pending
  /\ ~dead =>
       /\ \A j \in Slots : items[j] # Null => SliceAlive(items[j])
       /\ \A w \in Workers : w \in Busy => SliceAlive(work[w])

LEMMA BusyFinite ==
  /\ IsFiniteSet(Busy) /\ IsFiniteSet(Waiting)
  /\ Cardinality(Busy) \in Nat /\ Cardinality(Waiting) \in Nat
<1>1. Busy \subseteq Workers /\ Waiting \subseteq Workers
  BY DEF Busy, Waiting
<1>2. IsFiniteSet(Busy) /\ IsFiniteSet(Waiting)
  BY <1>1, ConstantsAssumption, FS_Subset
<1> QED
  BY <1>2, FS_CardinalityType

(* The call that holds a slice is still in its frame after a step. *)
FramesKept ==
  \A d \in Callers : pc[d] \in Frame => pc'[d] \in Frame /\ args'[d] = args[d]

LEMMA AliveKept ==
  ASSUME TypeInv, FramesKept, NEW p \in Pointers, SliceAlive(p)
  PROVE  SliceAlive(p)'
<1>1. p[1] \in Callers
  BY DEF Pointers
<1> QED
  BY <1>1 DEF FramesKept, SliceAlive, NSlices, Frame

(* Most steps leave the queue and the set of busy workers alone. *)
LEMMA QuietStep ==
  ASSUME TypeInv, AliveInv, ~dead, FramesKept, Busy' = Busy,
         UNCHANGED <<work, queueVars>>
  PROVE  AliveInv'
<1> USE DEF queueVars
<1>1. (count + Cardinality(Busy) <= work_pending)'
  BY DEF AliveInv
<1>2. ASSUME NEW j \in Slots, items[j] # Null PROVE SliceAlive(items[j])'
  <2>1. items[j] \in Pointers /\ SliceAlive(items[j])
    BY <1>2 DEF AliveInv, TypeInv, TypeOK, QueueTypeOK
  <2>2. ASSUME NEW p \in Pointers, SliceAlive(p) PROVE SliceAlive(p)'
    BY <2>2, AliveKept
  <2> QED
    BY <2>1, <2>2 DEF SliceAlive, NSlices
<1>3. ASSUME NEW w \in Workers, w \in Busy PROVE SliceAlive(work[w])'
  <2>1. work[w] \in Pointers /\ SliceAlive(work[w])
    BY <1>3 DEF AliveInv, TypeInv, TypeOK, Shape, WorkerTypeOK
  <2>2. ASSUME NEW p \in Pointers, SliceAlive(p) PROVE SliceAlive(p)'
    BY <2>2, AliveKept
  <2> QED
    BY <2>1, <2>2 DEF SliceAlive, NSlices
<1> QED
  BY <1>1, <1>2, <1>3 DEF AliveInv, SliceAlive, NSlices

LEMMA QuietCallerStep ==
  ASSUME TypeInv, NEW c \in Callers,
         \/ Calls(c) \/ Inline(c) \/ Ensure(c) \/ WaitAgain(c)
         \/ CallerWakesUp(c) \/ Exit(c) \/ Shutdown(c)
  PROVE  /\ FramesKept /\ Busy' = Busy
         /\ UNCHANGED <<work, queueVars>>
<1>1. CallerTypeOK /\ WorkerTypeOK
  BY DEF TypeInv, TypeOK
<1>2. CASE Calls(c) \/ Inline(c)
  BY <1>1, <1>2 DEF Calls, Call, Inline, RunInline, ReturnInline, FramesKept,
     Frame, Exiting, Busy, CallerTypeOK, workerVars, queueVars
<1>3. CASE StartWorker(c)
  <2>1. UNCHANGED <<pc, args, work, queueVars>>
    BY <1>3 DEF StartWorker
  <2>2. Busy' = Busy
    BY <1>1, <1>3 DEF StartWorker, Busy, WorkerTypeOK
  <2> QED
    BY <2>1, <2>2 DEF FramesKept, queueVars
<1>4. CASE Ensure(c) /\ ~StartWorker(c)
  <2>1. UNCHANGED <<args, workerVars, queueVars>> /\ pc[c] \notin Frame
        /\ \E s : pc' \in {pc, [pc EXCEPT ![c] = s]}
    BY <1>4 DEF Ensure, EnsureStarted, CheckInitialized, RegisterShutdown,
       StartLoop, StartWorkerFails, Fatal, SetNThreads, Frame, Exiting
  <2> QED
    BY <1>1, <2>1 DEF FramesKept, Busy, CallerTypeOK, workerVars, queueVars
<1>5. CASE WaitAgain(c) \/ CallerWakesUp(c) \/ Exit(c)
  <2>1. UNCHANGED <<args, workerVars, queueVars>>
        /\ \E s \in Frame : pc' = [pc EXCEPT ![c] = s]
    BY <1>5 DEF WaitAgain, CallerWakesUp, Exit, Frame, Exiting
  <2> QED
    BY <1>1, <2>1 DEF FramesKept, Busy, CallerTypeOK, workerVars, queueVars
<1>6. CASE Shutdown(c)
  <2>1. UNCHANGED <<args, work, queueVars>>
    BY <1>6 DEF Shutdown, RunHandlers, NextHandler, StopWorkers, JoinWorker,
       JoinNull, ShutdownEnds, callerVars, workerVars
  <2>2. \E s \in Frame : pc' \in {pc, [pc EXCEPT ![c] = s]}
    BY <1>6 DEF Shutdown, RunHandlers, NextHandler, StopWorkers, JoinWorker,
       JoinNull, ShutdownEnds, Frame, Exiting, callerVars
  <2>3. wpc' \in {wpc, [w \in Workers |-> IF w \in Waiting THEN "idle"
                                         ELSE wpc[w]]}
    BY <1>6 DEF Shutdown, RunHandlers, NextHandler, StopWorkers, JoinWorker,
       JoinNull, ShutdownEnds, callerVars, workerVars
  <2>4. Busy' = Busy
    BY <1>1, <2>3 DEF Busy, Waiting, WorkerTypeOK
  <2> QED
    BY <1>1, <2>1, <2>2, <2>4 DEF FramesKept, CallerTypeOK, queueVars
<1> QED
  BY <1>2, <1>3, <1>4, <1>5, <1>6

LEMMA QuietWorkerStep ==
  ASSUME TypeInv, NEW w \in Workers,
         WorkerWaits(w) \/ WorkerWakesUp(w) \/ WorkerStops(w) \/ RunWork(w)
  PROVE  /\ FramesKept /\ Busy' = Busy
         /\ UNCHANGED <<work, queueVars>>
<1>1. WorkerTypeOK
  BY DEF TypeInv, TypeOK
<1>2. UNCHANGED <<pc, args, work, queueVars>>
  BY DEF WorkerWaits, WorkerWakesUp, WorkerStops, RunWork, callerVars
<1>3. Busy' = Busy
  BY <1>1 DEF WorkerWaits, WorkerWakesUp, WorkerStops, RunWork, Busy,
     WorkerTypeOK
<1> QED
  BY <1>2, <1>3 DEF FramesKept, queueVars

(* A call adds as much to what is pending as to what is queued, and its    *)
(* slices point into the frame it now waits, or exits, in. *)
LEMMA SubmitAlive ==
  ASSUME TypeInv, AliveInv, ~dead, NEW c \in Callers, Submit(c)
  PROVE  AliveInv'
<1> USE ConstantsAssumption
<1> DEFINE n == NSlices(c)
           m == Lesser(n, PARALLEL_FOR_MAX_THREADS - count)
<1>1. CallerTypeOK /\ WorkerTypeOK /\ QueueTypeOK /\ Shape
  BY DEF TypeInv, TypeOK
<1>2. n \in Nat
  BY <1>1, ThreadCountBounds DEF NSlices, CallerTypeOK
<1>3. m \in Int /\ m <= n
  BY <1>1, <1>2 DEF QueueTypeOK, Lesser
<1>4. /\ items' = [j \in Slots |->
             LET k == (j - tail) % PARALLEL_FOR_MAX_THREADS
             IN IF k < m THEN <<c, k>> ELSE items[j]]
      /\ count' = count + m
      /\ work_pending' = work_pending + m
      /\ UNCHANGED <<args, work>> /\ pc[c] = "submit"
  BY DEF Submit
<1>5. Busy' = Busy
  <2>1. PICK woken \in SUBSET Waiting :
          wpc' = [w \in Workers |-> IF w \in woken THEN "idle" ELSE wpc[w]]
    BY DEF Submit
  <2> QED
    BY <1>1, <2>1 DEF Busy, Waiting, WorkerTypeOK
<1>6. (count + Cardinality(Busy) <= work_pending)'
  BY <1>1, <1>3, <1>4, <1>5, BusyFinite DEF AliveInv, QueueTypeOK
<1>7. CASE dead'
  BY <1>6, <1>7 DEF AliveInv
<1>8. CASE ~dead'
  <2>1. \E s \in Frame : pc' = [pc EXCEPT ![c] = s]
    BY <1>8 DEF Submit, Fatal, Frame, Exiting
  <2>2. FramesKept /\ pc'[c] \in Frame
    BY <1>1, <1>4, <2>1 DEF FramesKept, CallerTypeOK
  <2>3. ASSUME NEW j \in Slots, items'[j] # Null
        PROVE  SliceAlive(items[j])'
    <3> DEFINE k == (j - tail) % PARALLEL_FOR_MAX_THREADS
    <3>1. CASE k < m
      <4>1. items'[j] = <<c, k>>
        BY <1>4, <3>1
      <4>2. k < n /\ NSlices(c)' = n
        <5>1. k \in Int
          BY <1>1 DEF QueueTypeOK, Slots
        <5>2. NSlices(c)' = n
          BY <1>4 DEF NSlices
        <5> QED
          BY <1>2, <1>3, <3>1, <5>1, <5>2
      <4> QED
        BY <2>2, <4>1, <4>2 DEF SliceAlive, Frame
    <3>2. CASE ~(k < m)
      <4>1. items'[j] = items[j]
        BY <1>4, <3>2
      <4>2. items[j] \in Pointers /\ SliceAlive(items[j])
        BY <1>1, <2>3, <4>1 DEF AliveInv, QueueTypeOK
      <4>3. ASSUME NEW p \in Pointers, SliceAlive(p) PROVE SliceAlive(p)'
        BY <2>2, <4>3, AliveKept
      <4> QED
        BY <4>1, <4>2, <4>3 DEF SliceAlive, NSlices
    <3> QED
      BY <3>1, <3>2
  <2>4. ASSUME NEW w \in Workers, w \in Busy PROVE SliceAlive(work[w])'
    <3>1. work[w] \in Pointers /\ SliceAlive(work[w])
      BY <1>1, <2>4 DEF AliveInv, Shape, WorkerTypeOK
    <3>2. ASSUME NEW p \in Pointers, SliceAlive(p) PROVE SliceAlive(p)'
      BY <2>2, <3>2, AliveKept
    <3> QED
      BY <1>4, <3>1, <3>2 DEF SliceAlive, NSlices
  <2> QED
    BY <1>5, <1>6, <2>3, <2>4 DEF AliveInv, SliceAlive, NSlices
<1> QED
  BY <1>7, <1>8

(* Where it matters: with nothing pending no worker is busy, and the       *)
(* caller clears the queue itself. *)
LEMMA ReturnAlive ==
  ASSUME TypeInv, AliveInv, ~dead, NEW c \in Callers, Return(c)
  PROVE  AliveInv'
<1>1. /\ items' = [i \in Slots |-> Null]
      /\ work_pending <= 0
      /\ UNCHANGED <<workerVars, count, work_pending>>
  BY DEF Return
<1>2. Busy' = Busy
  BY <1>1 DEF Busy, workerVars
<1>3. count \in Nat /\ work_pending \in Int
  BY ConstantsAssumption DEF TypeInv, TypeOK, QueueTypeOK
<1>4. Cardinality(Busy) = 0
  BY <1>1, <1>3, BusyFinite DEF AliveInv
<1>5. Busy = {}
  BY <1>4, BusyFinite, FS_EmptySet
<1> QED
  BY <1>1, <1>2, <1>5 DEF AliveInv

LEMMA TakeWorkAlive ==
  ASSUME TypeInv, AliveInv, ~dead, NEW w \in Workers, TakeWork(w)
  PROVE  AliveInv'
<1>1. CallerTypeOK /\ WorkerTypeOK /\ QueueTypeOK /\ PoolTypeOK /\ Shape
  BY DEF TypeInv, TypeOK
<1>2. /\ work' = [work EXCEPT ![w] = items[head]]
      /\ items' = [items EXCEPT ![head] = Null]
      /\ count' = count - 1
      /\ wpc' = [wpc EXCEPT ![w] = IF items[head] = Null THEN "idle" ELSE "run"]
      /\ UNCHANGED <<pc, args, work_pending, dead>>
      /\ wpc[w] = "idle"
  BY DEF TakeWork, callerVars, exitVars
<1>3. \A p : SliceAlive(p)' <=> SliceAlive(p)
  BY <1>2 DEF SliceAlive, NSlices
<1>4. count \in Int /\ work_pending \in Int
  BY <1>1, ConstantsAssumption DEF QueueTypeOK
<1>5. CASE items[head] = Null
  <2>1. Busy' = Busy
    BY <1>1, <1>2, <1>5 DEF Busy, WorkerTypeOK
  <2>2. (count + Cardinality(Busy) <= work_pending)'
    BY <1>2, <1>4, <2>1, BusyFinite DEF AliveInv
  <2>3. \A v \in Workers : v \in Busy => work'[v] = work[v]
    BY <1>1, <1>2 DEF Busy, WorkerTypeOK
  <2> QED
    BY <1>1, <1>2, <1>3, <2>1, <2>2, <2>3 DEF AliveInv, QueueTypeOK
<1>6. CASE items[head] # Null
  <2>1. Busy' = Busy \cup {w} /\ w \notin Busy
    BY <1>1, <1>2, <1>6 DEF Busy, WorkerTypeOK
  <2>2. Cardinality(Busy') = Cardinality(Busy) + 1
    BY <2>1, BusyFinite, FS_AddElement
  <2>3. (count + Cardinality(Busy) <= work_pending)'
    BY <1>2, <1>4, <2>2, BusyFinite DEF AliveInv
  <2>4. SliceAlive(items[head])
    BY <1>1, <1>6 DEF AliveInv, QueueTypeOK
  <2>5. ASSUME NEW v \in Workers, v \in Busy' PROVE SliceAlive(work'[v])
    <3>1. CASE v = w
      BY <1>1, <1>2, <2>4, <3>1 DEF WorkerTypeOK
    <3>2. CASE v # w
      BY <1>1, <1>2, <2>1, <2>5, <3>2 DEF AliveInv, WorkerTypeOK
    <3> QED
      BY <3>1, <3>2
  <2>6. ASSUME NEW j \in Slots, items'[j] # Null PROVE SliceAlive(items'[j])
    BY <1>1, <1>2, <2>6 DEF AliveInv, QueueTypeOK
  <2>7. ASSUME NEW v \in Workers, v \in Busy' PROVE SliceAlive(work[v])'
    BY <1>3, <2>5, <2>7 DEF SliceAlive, NSlices
  <2>8. ASSUME NEW j \in Slots, items'[j] # Null PROVE SliceAlive(items[j])'
    BY <1>3, <2>6, <2>8 DEF SliceAlive, NSlices
  <2> QED
    BY <2>3, <2>7, <2>8 DEF AliveInv
<1> QED
  BY <1>5, <1>6

LEMMA FinishWorkAlive ==
  ASSUME TypeInv, AliveInv, ~dead, NEW w \in Workers, FinishWork(w)
  PROVE  AliveInv'
<1>1. CallerTypeOK /\ WorkerTypeOK /\ QueueTypeOK /\ PoolTypeOK /\ Shape
  BY DEF TypeInv, TypeOK
<1>2. /\ work_pending' = work_pending - 1
      /\ wpc' = [wpc EXCEPT ![w] = "idle"]
      /\ work' = [work EXCEPT ![w] = Null]
      /\ UNCHANGED <<args, items, count>>
      /\ wpc[w] = "done"
  BY DEF FinishWork
<1>3. FramesKept
  <2>1. UNCHANGED pc \/ \E c \in Callers : pc' = [pc EXCEPT ![c] = "woken"]
    BY DEF FinishWork, Awaiting
  <2> QED
    BY <1>1, <1>2, <2>1 DEF FramesKept, Frame, CallerTypeOK
<1>4. count \in Int /\ work_pending \in Int
  BY <1>1, ConstantsAssumption DEF QueueTypeOK
<1>5. Busy' = Busy \ {w} /\ w \in Busy
  BY <1>1, <1>2 DEF Busy, WorkerTypeOK
<1>6. Cardinality(Busy') = Cardinality(Busy) - 1
  BY <1>5, BusyFinite, FS_RemoveElement
<1>7. (count + Cardinality(Busy) <= work_pending)'
  BY <1>2, <1>4, <1>6, BusyFinite DEF AliveInv
<1>8. ASSUME NEW p \in Pointers, SliceAlive(p) PROVE SliceAlive(p)'
  BY <1>3, <1>8, AliveKept
<1>9. ASSUME NEW v \in Workers, v \in Busy' PROVE SliceAlive(work[v])'
  <2>1. v \in Busy /\ work'[v] = work[v]
    BY <1>1, <1>2, <1>5, <1>9 DEF WorkerTypeOK
  <2>2. work[v] \in Pointers /\ SliceAlive(work[v])
    BY <1>1, <2>1 DEF AliveInv, Shape, WorkerTypeOK
  <2> QED
    BY <1>8, <2>1, <2>2 DEF SliceAlive, NSlices
<1>10. ASSUME NEW j \in Slots, items'[j] # Null PROVE SliceAlive(items[j])'
  <2>1. items'[j] = items[j] /\ items[j] \in Pointers /\ SliceAlive(items[j])
    BY <1>1, <1>2, <1>10 DEF AliveInv, QueueTypeOK
  <2> QED
    BY <1>8, <2>1 DEF SliceAlive, NSlices
<1> QED
  BY <1>7, <1>9, <1>10 DEF AliveInv

LEMMA InitAliveInv == Init => AliveInv
<1> SUFFICES ASSUME Init PROVE AliveInv
  OBVIOUS
<1>1. Busy = {}
  BY DEF Init, Busy
<1>2. Cardinality(Busy) = 0
  BY <1>1, FS_EmptySet
<1> QED
  BY <1>1, <1>2 DEF Init, AliveInv

LEMMA NextAliveInv == TypeInv /\ AliveInv /\ [Next]_vars => AliveInv'
<1> SUFFICES ASSUME TypeInv, AliveInv, [Next]_vars PROVE AliveInv'
  OBVIOUS
<1>1. CASE UNCHANGED vars \/ Dead
  <2>1. UNCHANGED <<callerVars, workerVars, queueVars, poolVars, exitVars>>
    BY <1>1 DEF Dead, vars
  <2> QED
    BY <2>1 DEF AliveInv, SliceAlive, NSlices, Busy, callerVars, workerVars,
       queueVars, exitVars
<1>2. ASSUME ~dead, NEW c \in Callers,
             Calls(c) \/ CallerStep(c) \/ CallerWakesUp(c) \/ Exit(c)
      PROVE  AliveInv'
  <2>1. CASE Submit(c)
    BY <1>2, <2>1, SubmitAlive
  <2>2. CASE Return(c)
    BY <1>2, <2>2, ReturnAlive
  <2>3. CASE ~Submit(c) /\ ~Return(c)
    <3>1. \/ Calls(c) \/ Inline(c) \/ Ensure(c) \/ WaitAgain(c)
          \/ CallerWakesUp(c) \/ Exit(c) \/ Shutdown(c)
      BY <1>2, <2>3 DEF CallerStep, Collect
    <3> QED
      BY <1>2, <3>1, QuietCallerStep, QuietStep
  <2> QED
    BY <2>1, <2>2, <2>3
<1>3. ASSUME ~dead, NEW w \in Workers, Worker(w) \/ WorkerWakesUp(w)
      PROVE  AliveInv'
  <2>1. CASE TakeWork(w)
    BY <1>3, <2>1, TakeWorkAlive
  <2>2. CASE FinishWork(w)
    BY <1>3, <2>2, FinishWorkAlive
  <2>3. CASE WorkerWaits(w) \/ WorkerWakesUp(w) \/ WorkerStops(w) \/ RunWork(w)
    BY <1>3, <2>3, QuietWorkerStep, QuietStep
  <2> QED
    BY <1>3, <2>1, <2>2, <2>3 DEF Worker
<1> QED
  BY <1>1, <1>2, <1>3 DEF Next

(* Whatever the callers and however the pool grows, shuts down or runs     *)
(* full: no slot of the queue and no worker refers to a call that has      *)
(* returned, so no worker reads a dead stack frame. *)
THEOREM NoDanglingSlices == Spec => []SlicesAlive
<1>1. TypeInv /\ AliveInv => SlicesAlive
  BY DEF AliveInv, SlicesAlive, Busy
<1>2. Spec => []AliveInv
  BY InitAliveInv, NextAliveInv, TypeInvariant, PTL DEF Spec
<1> QED
  BY <1>1, <1>2, TypeInvariant, PTL
-----------------------------------------------------------------------------
(* The queue is a ring.  The slots are counted from head: a slot has a     *)
(* slice if and only if it is fewer than count slots behind head. *)

Behind(j) == (j - head) % PARALLEL_FOR_MAX_THREADS

Ring ==
  /\ tail = (head + count) % PARALLEL_FOR_MAX_THREADS
  /\ \A j \in Slots : items[j] # Null <=> Behind(j) < count

RingInv == Ring /\ PendingExact

(* Counting from head and going on from head are inverse to each other. *)
LEMMA AroundTheRing ==
  ASSUME NEW P \in Nat \ {0}, NEW h \in 0 .. P - 1, NEW x \in 0 .. P - 1
  PROVE  /\ (x - h) % P \in 0 .. P - 1
         /\ (h + ((x - h) % P)) % P = x
         /\ (h + x) % P \in 0 .. P - 1
         /\ (((h + x) % P) - h) % P = x
<1>1. (x - h) % P = IF x - h < 0 THEN x - h + P ELSE x - h
  OBVIOUS
<1>2. (h + x) % P = IF h + x < P THEN h + x ELSE h + x - P
  OBVIOUS
<1>3. (h + ((x - h) % P)) % P = x
  <2>1. CASE x - h < 0
    <3>1. h + ((x - h) % P) = x + P
      BY <1>1, <2>1
    <3> QED
      BY <3>1
  <2>2. CASE ~(x - h < 0)
    <3>1. h + ((x - h) % P) = x
      BY <1>1, <2>2
    <3> QED
      BY <3>1
  <2> QED
    BY <2>1, <2>2
<1>4. (((h + x) % P) - h) % P = x
  <2>1. CASE h + x < P
    <3>1. ((h + x) % P) - h = x
      BY <1>2, <2>1
    <3> QED
      BY <3>1
  <2>2. CASE ~(h + x < P)
    <3>1. ((h + x) % P) - h = x - P
      BY <1>2, <2>2
    <3> QED
      BY <3>1
  <2> QED
    BY <2>1, <2>2
<1> QED
  BY <1>1, <1>2, <1>3, <1>4

(* m more from the tail are the m behind the c from the head. *)
LEMMA AppendToRing ==
  ASSUME NEW P \in Nat \ {0}, NEW h \in 0 .. P - 1, NEW c \in 0 .. P,
         NEW m \in Nat, c + m <= P, NEW j \in 0 .. P - 1
  PROVE  /\ (((h + c) % P) + m) % P = (h + (c + m)) % P
         /\ (j - h) % P < c + m
              <=> (j - h) % P < c \/ (j - ((h + c) % P)) % P < m
<1> DEFINE t == (h + c) % P
           d == (j - h) % P
<1>1. t = IF h + c < P THEN h + c ELSE h + c - P
  OBVIOUS
<1>2. d = IF j - h < 0 THEN j - h + P ELSE j - h
  OBVIOUS
<1>3. (j - t) % P = IF j - t < 0 THEN j - t + P ELSE j - t
  BY <1>1
<1>4. (h + (c + m)) % P = IF h + c + m < P THEN h + c + m ELSE h + c + m - P
  OBVIOUS
<1>5. (t + m) % P = IF t + m < P THEN t + m ELSE t + m - P
  BY <1>1
<1>6. (t + m) % P = (h + (c + m)) % P
  BY <1>1, <1>4, <1>5
<1>7. d < c + m <=> d < c \/ (j - t) % P < m
  BY <1>1, <1>2, <1>3
<1> QED
  BY <1>6, <1>7

(* None of the m is one of the c. *)
LEMMA AppendIsFree ==
  ASSUME NEW P \in Nat \ {0}, NEW h \in 0 .. P - 1, NEW c \in 0 .. P,
         NEW m \in Nat, c + m <= P, NEW j \in 0 .. P - 1, NEW t \in Int,
         t = (h + c) % P, (j - t) % P < m
  PROVE  ~((j - h) % P < c)
<1>1. t = IF h + c < P THEN h + c ELSE h + c - P
  OBVIOUS
<1>2. (j - h) % P = IF j - h < 0 THEN j - h + P ELSE j - h
  OBVIOUS
<1>3. (j - t) % P = IF j - t < 0 THEN j - t + P ELSE j - t
  BY <1>1
<1> QED
  BY <1>1, <1>2, <1>3

(* Without the first, each slot is one nearer to the head; the old head is *)
(* the last. *)
LEMMA TakeFromRing ==
  ASSUME NEW P \in Nat \ {0}, NEW h \in 0 .. P - 1, NEW c \in 1 .. P,
         NEW j \in 0 .. P - 1
  PROVE  /\ (((h + 1) % P) + (c - 1)) % P = (h + c) % P
         /\ (h - h) % P = 0
         /\ (j - ((h + 1) % P)) % P < c - 1 <=> j # h /\ (j - h) % P < c
<1> DEFINE g == (h + 1) % P
<1>1. g = IF h + 1 < P THEN h + 1 ELSE h + 1 - P
  OBVIOUS
<1>2. (j - h) % P = IF j - h < 0 THEN j - h + P ELSE j - h
  OBVIOUS
<1>3. (j - g) % P = IF j - g < 0 THEN j - g + P ELSE j - g
  BY <1>1
<1>4. (h + c) % P = IF h + c < P THEN h + c ELSE h + c - P
  OBVIOUS
<1>5. (g + (c - 1)) % P
        = IF g + (c - 1) < P THEN g + (c - 1) ELSE g + (c - 1) - P
  <2>1. g \in 0 .. P - 1
    BY <1>1
  <2> HIDE DEF g
  <2> QED
    BY <2>1
<1>6. (g + (c - 1)) % P = (h + c) % P
  BY <1>1, <1>4, <1>5
<1>7. (j - g) % P < c - 1 <=> j # h /\ (j - h) % P < c
  BY <1>1, <1>2, <1>3
<1>8. (h - h) % P = 0
  OBVIOUS
<1> QED
  BY <1>6, <1>7, <1>8

LEMMA RingIsConsistent ==
  ASSUME QueueTypeOK
  PROVE  Ring <=> QueueConsistent
<1> DEFINE P == PARALLEL_FOR_MAX_THREADS
<1>1. P \in Nat \ {0} /\ Slots = 0 .. P - 1 /\ head \in 0 .. P - 1
  BY ConstantsAssumption DEF QueueTypeOK, Slots
<1>2. ASSUME NEW x \in Slots
      PROVE  /\ (x - head) % P \in Slots /\ (head + ((x - head) % P)) % P = x
             /\ (head + x) % P \in Slots /\ (((head + x) % P) - head) % P = x
  BY <1>1, AroundTheRing
<1> HIDE DEF P
<1>3. (\A j \in Slots : items[j] # Null <=> (j - head) % P < count)
        <=> \A k \in Slots : items[(head + k) % P] # Null <=> k < count
  BY <1>2
<1> QED
  BY <1>3 DEF Ring, Behind, QueueConsistent, P

(* A step that leaves the queue and the busy workers alone. *)
LEMMA QuietRing ==
  ASSUME RingInv, Busy' = Busy, UNCHANGED queueVars
  PROVE  RingInv'
BY DEF RingInv, Ring, Behind, PendingExact, queueVars

LEMMA SubmitRing ==
  ASSUME TypeInv, RingInv, NEW c \in Callers, Submit(c)
  PROVE  RingInv'
<1> USE ConstantsAssumption
<1> DEFINE P == PARALLEL_FOR_MAX_THREADS
           n == NSlices(c)
           m == Lesser(n, P - count)
<1>1. CallerTypeOK /\ WorkerTypeOK /\ QueueTypeOK
  BY DEF TypeInv, TypeOK
<1>2. /\ items' = [j \in Slots |->
             LET k == (j - tail) % P IN IF k < m THEN <<c, k>> ELSE items[j]]
      /\ tail' = (tail + m) % P
      /\ count' = count + m
      /\ work_pending' = work_pending + m
      /\ UNCHANGED head
  BY DEF Submit
<1>3. n \in Nat
  BY <1>1, ThreadCountBounds DEF NSlices, CallerTypeOK
<1>4. m \in Nat /\ count + m <= P /\ count \in 0 .. P
  BY <1>1, <1>3 DEF QueueTypeOK, Lesser
<1>5. Busy' = Busy
  <2>1. PICK woken \in SUBSET Waiting :
          wpc' = [w \in Workers |-> IF w \in woken THEN "idle" ELSE wpc[w]]
    BY DEF Submit
  <2> QED
    BY <1>1, <2>1 DEF Busy, Waiting, WorkerTypeOK
<1>6. PendingExact'
  BY <1>1, <1>2, <1>4, <1>5, BusyFinite DEF RingInv, PendingExact, QueueTypeOK
<1>7. head \in 0 .. P - 1 /\ tail = (head + count) % P
  BY <1>1 DEF QueueTypeOK, Slots, RingInv, Ring
<1>8. tail' = (head' + count') % P
  <2>1. 0 \in 0 .. P - 1
    OBVIOUS
  <2> QED
    BY <1>2, <1>4, <1>7, <2>1, AppendToRing
<1>9. ASSUME NEW j \in Slots PROVE items'[j] # Null <=> Behind(j)' < count'
  <2> DEFINE k == (j - tail) % P
  <2>1. k \in Slots
    BY <1>1 DEF QueueTypeOK, Slots
  <2>2. <<c, k>> # Null
    BY <2>1 DEF Slots
  <2>3. items'[j] # Null <=> k < m \/ items[j] # Null
    BY <1>2, <2>2
  <2>4. items[j] # Null <=> (j - head) % P < count
    BY DEF RingInv, Ring, Behind
  <2>5. (j - head) % P < count + m
          <=> (j - head) % P < count \/ (j - ((head + count) % P)) % P < m
    BY <1>4, <1>7, AppendToRing DEF Slots
  <2> QED
    BY <1>2, <1>7, <2>3, <2>4, <2>5 DEF Behind
<1> QED
  BY <1>6, <1>8, <1>9 DEF RingInv, Ring

LEMMA ReturnRing ==
  ASSUME TypeInv, RingInv, NEW c \in Callers, Return(c)
  PROVE  RingInv'
<1>1. /\ items' = [i \in Slots |-> Null] /\ count <= 0
      /\ UNCHANGED <<workerVars, head, tail, count, work_pending>>
  BY DEF Return
<1>2. QueueTypeOK
  BY DEF TypeInv, TypeOK
<1>3. Busy' = Busy
  BY <1>1 DEF Busy, workerVars
<1>4. ASSUME NEW j \in Slots PROVE items'[j] # Null <=> Behind(j)' < count'
  <2>1. Behind(j)' = Behind(j) /\ Behind(j) \in Slots
    BY <1>1, <1>2, ConstantsAssumption DEF Behind, QueueTypeOK, Slots
  <2> QED
    BY <1>1, <1>2, <2>1, ConstantsAssumption DEF QueueTypeOK, Slots
<1> QED
  BY <1>1, <1>3, <1>4 DEF RingInv, Ring, PendingExact

(* The head of a queue that is not empty has a slice: the worker that      *)
(* takes from it is busy. *)
LEMMA TakeWorkRing ==
  ASSUME TypeInv, RingInv, NEW w \in Workers, TakeWork(w)
  PROVE  RingInv' /\ items[head] # Null
<1> USE ConstantsAssumption
<1> DEFINE P == PARALLEL_FOR_MAX_THREADS
<1>1. WorkerTypeOK /\ QueueTypeOK
  BY DEF TypeInv, TypeOK
<1>2. /\ wpc[w] = "idle" /\ count > 0
      /\ items' = [items EXCEPT ![head] = Null]
      /\ head' = (head + 1) % P
      /\ count' = count - 1
      /\ wpc' = [wpc EXCEPT ![w] = IF items[head] = Null THEN "idle" ELSE "run"]
      /\ UNCHANGED <<tail, work_pending>>
  BY DEF TakeWork
<1>3. count \in 1 .. P /\ head \in 0 .. P - 1 /\ work_pending \in Int
  BY <1>1, <1>2 DEF QueueTypeOK, Slots
<1>4. tail = (head + count) % P
      /\ \A j \in Slots : items[j] # Null <=> (j - head) % P < count
  BY DEF RingInv, Ring, Behind
<1>5. items[head] # Null
  <2>1. head \in Slots /\ (head - head) % P = 0
    BY <1>1, <1>3, TakeFromRing DEF QueueTypeOK
  <2> QED
    BY <1>3, <1>4, <2>1
<1>6. tail' = (head' + count') % P
  BY <1>2, <1>3, <1>4, TakeFromRing
<1>7. ASSUME NEW j \in Slots PROVE items'[j] # Null <=> Behind(j)' < count'
  <2>1. (j - ((head + 1) % P)) % P < count - 1
          <=> j # head /\ (j - head) % P < count
    BY <1>3, TakeFromRing DEF Slots
  <2>2. items'[j] # Null <=> j # head /\ items[j] # Null
    BY <1>1, <1>2 DEF QueueTypeOK
  <2> QED
    BY <1>2, <1>4, <2>1, <2>2 DEF Behind
<1>8. Busy' = Busy \cup {w} /\ w \notin Busy
  BY <1>1, <1>2, <1>5 DEF Busy, WorkerTypeOK
<1>9. Cardinality(Busy') = Cardinality(Busy) + 1
  BY <1>8, BusyFinite, FS_AddElement
<1>10. PendingExact'
  BY <1>2, <1>3, <1>9, BusyFinite DEF RingInv, PendingExact
<1> QED
  BY <1>5, <1>6, <1>7, <1>10 DEF RingInv, Ring

LEMMA FinishWorkRing ==
  ASSUME TypeInv, RingInv, NEW w \in Workers, FinishWork(w)
  PROVE  RingInv'
<1>1. WorkerTypeOK /\ QueueTypeOK
  BY DEF TypeInv, TypeOK
<1>2. /\ work_pending' = work_pending - 1 /\ wpc[w] = "done"
      /\ wpc' = [wpc EXCEPT ![w] = "idle"]
      /\ UNCHANGED <<items, head, tail, count>>
  BY DEF FinishWork
<1>3. Busy' = Busy \ {w} /\ w \in Busy
  BY <1>1, <1>2 DEF Busy, WorkerTypeOK
<1>4. Cardinality(Busy') = Cardinality(Busy) - 1
  BY <1>3, BusyFinite, FS_RemoveElement
<1>5. PendingExact'
  BY <1>1, <1>2, <1>4, BusyFinite, ConstantsAssumption
  DEF RingInv, PendingExact, QueueTypeOK
<1> QED
  BY <1>2, <1>5 DEF RingInv, Ring, Behind

LEMMA InitRingInv == Init => RingInv
<1> SUFFICES ASSUME Init PROVE RingInv
  OBVIOUS
<1>1. Busy = {}
  BY DEF Init, Busy
<1>2. PendingExact
  BY <1>1, FS_EmptySet DEF Init, PendingExact
<1>3. tail = (head + count) % PARALLEL_FOR_MAX_THREADS
  BY ConstantsAssumption DEF Init
<1>4. ASSUME NEW j \in Slots PROVE items[j] # Null <=> Behind(j) < count
  <2>1. Behind(j) \in Slots
    BY SlotsRing DEF Init, Behind, Slots
  <2> QED
    BY <2>1 DEF Init, Slots
<1> QED
  BY <1>2, <1>3, <1>4 DEF RingInv, Ring

LEMMA NextRingInv == TypeInv /\ RingInv /\ [Next]_vars => RingInv'
<1> SUFFICES ASSUME TypeInv, RingInv, [Next]_vars PROVE RingInv'
  OBVIOUS
<1>1. CASE UNCHANGED vars \/ Dead
  <2>1. UNCHANGED <<workerVars, queueVars>>
    BY <1>1 DEF Dead, vars
  <2>2. Busy' = Busy
    BY <2>1 DEF Busy, workerVars
  <2> QED
    BY <2>1, <2>2, QuietRing
<1>2. ASSUME NEW c \in Callers,
             Calls(c) \/ CallerStep(c) \/ CallerWakesUp(c) \/ Exit(c)
      PROVE  RingInv'
  <2>1. CASE Submit(c)
    BY <2>1, SubmitRing
  <2>2. CASE Return(c)
    BY <2>2, ReturnRing
  <2>3. CASE ~Submit(c) /\ ~Return(c)
    <3>1. \/ Calls(c) \/ Inline(c) \/ Ensure(c) \/ WaitAgain(c)
          \/ CallerWakesUp(c) \/ Exit(c) \/ Shutdown(c)
      BY <1>2, <2>3 DEF CallerStep, Collect
    <3> QED
      BY <3>1, QuietCallerStep, QuietRing
  <2> QED
    BY <2>1, <2>2, <2>3
<1>3. ASSUME NEW w \in Workers, Worker(w) \/ WorkerWakesUp(w)
      PROVE  RingInv'
  <2>1. CASE TakeWork(w)
    BY <2>1, TakeWorkRing
  <2>2. CASE FinishWork(w)
    BY <2>2, FinishWorkRing
  <2>3. CASE WorkerWaits(w) \/ WorkerWakesUp(w) \/ WorkerStops(w) \/ RunWork(w)
    BY <2>3, QuietWorkerStep, QuietRing
  <2> QED
    BY <1>3, <2>1, <2>2, <2>3 DEF Worker
<1> QED
  BY <1>1, <1>2, <1>3 DEF Next

LEMMA RingInvariant == Spec => []RingInv
  BY InitRingInv, NextRingInv, TypeInvariant, PTL DEF Spec

(* The ring has its slices behind head and nowhere else, and what is       *)
(* pending is what is queued or in the hands of a worker, for any number   *)
(* of callers and workers and any size of the ring. *)
THEOREM QueueAlwaysExact == Spec => []QueueExact
<1>1. TypeInv /\ RingInv => QueueExact
  BY RingIsConsistent DEF TypeInv, TypeOK, RingInv, QueueExact
<1> QED
  BY <1>1, TypeInvariant, RingInvariant, PTL
-----------------------------------------------------------------------------
(* The refinement of ParallelFor.  Where each index of a call stands: its  *)
(* slice is in one place at most, and the function was applied to an index *)
(* once if its slice is in none any more, and not at all before. *)

Queued(p) == \E j \in Slots : items[j] = p
Running(p) == \E w \in Workers : wpc[w] = "run" /\ work[w] = p
Outstanding(p) == Queued(p) \/ Running(p)

OnePlace ==
  /\ \A i, j \in Slots : items[i] = items[j] /\ items[i] # Null => i = j
  /\ \A v, w \in Workers :
       wpc[v] = "run" /\ wpc[w] = "run" /\ work[v] = work[w] => v = w
  /\ \A j \in Slots, w \in Workers : wpc[w] = "run" => items[j] # work[w]

(* The slice that call c is to have as number k, and how often the         *)
(* function was applied to its indices. *)
Span(c, k) == Slice(args[c].length, NSlices(c), k)
AppliedTo(c, k, n) ==
  \A i \in 0 .. MaxLength - 1 :
    Span(c, k).start <= i /\ i < Span(c, k).end => applied[c][i] = n

SlicesPending ==
  \A p \in Pointers : Outstanding(p) =>
    slices[p[1]][p[2]] = Span(p[1], p[2]) /\ AppliedTo(p[1], p[2], 0)

SlicesDone(c) ==
  pc[c] \in {"waiting", "woken"} =>
    /\ NSlices(c) >= 1
    /\ \A k \in 0 .. NSlices(c) - 1 :
         Outstanding(<<c, k>>) \/ AppliedTo(c, k, 1)

CallProgress(c) ==
  /\ pc[c] \in Splitting \cup {"inline"} => applied[c] = Untouched
  /\ pc[c] = "inlined" =>
       \A i \in 0 .. args[c].length - 1 : applied[c][i] = 1
  /\ pc[c] = "out" => args[c].length = 0
  /\ pc[c] \notin {"out"} \cup Exiting => args[c].length > 0

SlicesInv ==
  ~dead => /\ OnePlace /\ SlicesPending
           /\ \A c \in Callers : SlicesDone(c) /\ CallProgress(c)

(* Of two slices of a call the first ends before the second starts, and    *)
(* each index is in one. *)
LEMMA SlicesDisjoint ==
  ASSUME NEW length \in Nat, NEW n \in 1 .. length,
         NEW i \in 0 .. n - 1, NEW j \in 0 .. n - 1, i < j
  PROVE  Slice(length, n, i).end <= Slice(length, n, j).start
<1> DEFINE range == length \div n
<1>1. range \in Nat
  OBVIOUS
<1> HIDE DEF range
<1>2. Slice(length, n, j).start = j * range
      /\ Slice(length, n, i).end = (i + 1) * range
  BY DEF Slice, range
<1>3. (i + 1) * range <= j * range
  BY <1>1
<1> QED
  BY <1>2, <1>3

LEMMA SlicesCover ==
  ASSUME NEW length \in Nat, NEW n \in 1 .. length, NEW x \in 0 .. length - 1
  PROVE  \E k \in 0 .. n - 1 :
           Slice(length, n, k).start <= x /\ x < Slice(length, n, k).end
<1> DEFINE range == length \div n
           q == x \div range
           k == IF q < n THEN q ELSE n - 1
<1>1. range \in Nat \ {0}
  OBVIOUS
<1> HIDE DEF range
<1>2. q \in Nat /\ q * range <= x /\ x < (q + 1) * range
  BY <1>1
<1> HIDE DEF q
<1>3. k \in 0 .. n - 1 /\ k <= q
  BY <1>2
<1>4. Slice(length, n, k).start = k * range
      /\ Slice(length, n, k).end =
           IF k + 1 < n THEN (k + 1) * range ELSE length
  BY DEF Slice, range
<1>5. k * range <= q * range
  BY <1>1, <1>2, <1>3
<1>6. k * range \in Int /\ q * range \in Int /\ (k + 1) * range \in Int
  BY <1>1, <1>2, <1>3
<1>7. k + 1 < n => k = q
  BY <1>2
<1>8. x < Slice(length, n, k).end
  BY <1>2, <1>4, <1>6, <1>7
<1> QED
  BY <1>2, <1>3, <1>4, <1>5, <1>6, <1>8

(* A slice of a call in its frame: where it is, and that its indices are   *)
(* those of the call. *)
LEMMA SpanFacts ==
  ASSUME TypeInv, NEW c \in Callers, NEW k \in 0 .. NSlices(c) - 1
  PROVE  /\ NSlices(c) \in 1 .. args[c].length
         /\ args[c].length \in 0 .. MaxLength
         /\ NSlices(c) <= PARALLEL_FOR_MAX_THREADS
         /\ k \in Slots /\ <<c, k>> \in Pointers
         /\ Span(c, k).start \in 0 .. args[c].length
         /\ Span(c, k).end \in 0 .. args[c].length
         /\ Span(c, k).start < Span(c, k).end
<1> USE ConstantsAssumption
<1>1. args[c] \in Arguments
  BY DEF TypeInv, TypeOK, CallerTypeOK
<1>2. NSlices(c) \in 0 .. PARALLEL_FOR_MAX_THREADS
      /\ NSlices(c) <= args[c].length /\ args[c].length \in 0 .. MaxLength
  BY <1>1, ThreadCountBounds DEF NSlices, Arguments
<1>3. NSlices(c) \in 1 .. args[c].length /\ args[c].length \in Nat
  BY <1>2
<1>4. k \in Slots /\ <<c, k>> \in Pointers
  BY <1>2, <1>3 DEF Slots, Pointers
<1>5. /\ Span(c, k).start < Span(c, k).end
      /\ Span(c, k).start \in 0 .. args[c].length
      /\ Span(c, k).end \in 0 .. args[c].length
  BY <1>3, SlicesPartition DEF Span
<1> QED
  BY <1>2, <1>3, <1>4, <1>5

LEMMA SpansDisjoint ==
  ASSUME TypeInv, NEW c \in Callers, NEW k \in 0 .. NSlices(c) - 1,
         NEW l \in 0 .. NSlices(c) - 1, k # l
  PROVE  Span(c, k).end <= Span(c, l).start \/ Span(c, l).end <= Span(c, k).start
<1>1. NSlices(c) \in 1 .. args[c].length /\ args[c].length \in Nat
  <2>1. NSlices(c) \in 1 .. args[c].length /\ args[c].length \in 0 .. MaxLength
    BY SpanFacts
  <2> QED
    BY <2>1, ConstantsAssumption
<1>2. CASE k < l
  BY <1>1, <1>2, SlicesDisjoint DEF Span
<1>3. CASE l < k
  BY <1>1, <1>3, SlicesDisjoint DEF Span
<1> QED
  BY <1>1, <1>2, <1>3

(* A slice that is somewhere belongs to a call in its frame. *)
LEMMA OutstandingAlive ==
  ASSUME TypeInv, AliveInv, ~dead, NEW p \in Pointers, Outstanding(p)
  PROVE  /\ p[1] \in Callers /\ p[2] \in 0 .. NSlices(p[1]) - 1
         /\ pc[p[1]] \in Frame /\ p = <<p[1], p[2]>>
<1> USE ConstantsAssumption
<1>1. p[1] \in Callers /\ p[2] \in Slots /\ p = <<p[1], p[2]>> /\ p # Null
  BY DEF Pointers, Slots
<1>2. SliceAlive(p)
  BY <1>1 DEF Outstanding, Queued, Running, AliveInv, Busy
<1>3. NSlices(p[1]) \in Nat
  BY <1>1, ThreadCountBounds DEF TypeInv, TypeOK, CallerTypeOK, NSlices
<1> QED
  BY <1>1, <1>2, <1>3 DEF SliceAlive, Frame, Slots

(* A step seen from the slices: nothing in the queue or with a worker      *)
(* moves, and a call that is in its frame keeps what it had. *)
SamePlaces ==
  /\ UNCHANGED items
  /\ \A w \in Workers : wpc'[w] = "run" <=> wpc[w] = "run"
  /\ \A w \in Workers : wpc[w] = "run" => work'[w] = work[w]

SameCall(d) ==
  /\ args'[d] = args[d] /\ applied'[d] = applied[d] /\ slices'[d] = slices[d]

SameSide(d) ==
  \/ pc'[d] = pc[d]
  \/ pc[d] \in {"waiting", "woken"} /\ pc'[d] \in {"waiting", "woken"}

LEMMA PlacesKept ==
  ASSUME SamePlaces
  PROVE  /\ OnePlace => OnePlace'
         /\ \A p : Outstanding(p)' <=> Outstanding(p)
<1>1. OnePlace => OnePlace'
  BY DEF SamePlaces, OnePlace
<1>2. ASSUME NEW p PROVE Outstanding(p)' <=> Outstanding(p)
  BY DEF SamePlaces, Outstanding, Queued, Running
<1> QED
  BY <1>1, <1>2

LEMMA SameCallSpans ==
  ASSUME NEW d \in Callers, SameCall(d)
  PROVE  /\ NSlices(d)' = NSlices(d)
         /\ \A k : Span(d, k)' = Span(d, k)
         /\ \A k, n : AppliedTo(d, k, n)' <=> AppliedTo(d, k, n)
<1>1. NSlices(d)' = NSlices(d)
  BY DEF SameCall, NSlices
<1>2. ASSUME NEW k PROVE Span(d, k)' = Span(d, k)
  BY <1>1 DEF SameCall, Span
<1>3. ASSUME NEW k, NEW n PROVE AppliedTo(d, k, n)' <=> AppliedTo(d, k, n)
  BY <1>2 DEF SameCall, AppliedTo
<1> QED
  BY <1>1, <1>2, <1>3

(* A call that is as it was, while its slices are where they were. *)
LEMMA CallKept ==
  ASSUME NEW d \in Callers, SameCall(d), SameSide(d),
         SlicesDone(d), CallProgress(d),
         \A k \in 0 .. NSlices(d) - 1 : Outstanding(<<d, k>>) => Outstanding(<<d, k>>)'
  PROVE  SlicesDone(d)' /\ CallProgress(d)'
<1>1. NSlices(d)' = NSlices(d)
      /\ \A k : AppliedTo(d, k, 1)' <=> AppliedTo(d, k, 1)
  BY SameCallSpans
<1>2. SlicesDone(d)'
  BY <1>1 DEF SlicesDone, SameSide
<1>3. CallProgress(d)'
  BY DEF CallProgress, SameCall, SameSide, Splitting, Exiting
<1> QED
  BY <1>2, <1>3

(* A slice that is pending is pending still, if its call is as it was. *)
LEMMA PendingKept ==
  ASSUME SlicesPending, NEW p \in Pointers, Outstanding(p),
         p[1] \in Callers, SameCall(p[1])
  PROVE  (slices[p[1]][p[2]] = Span(p[1], p[2]) /\ AppliedTo(p[1], p[2], 0))'
<1>1. slices[p[1]][p[2]] = Span(p[1], p[2]) /\ AppliedTo(p[1], p[2], 0)
  BY DEF SlicesPending
<1>2. Span(p[1], p[2])' = Span(p[1], p[2])
      /\ (AppliedTo(p[1], p[2], 0)' <=> AppliedTo(p[1], p[2], 0))
  BY SameCallSpans
<1> QED
  BY <1>1, <1>2 DEF SameCall

LEMMA QuietSlices ==
  ASSUME TypeInv, AliveInv, SlicesInv, ~dead, SamePlaces,
         \A d \in Callers : pc[d] \in Frame => SameCall(d),
         \A d \in Callers : \/ SameCall(d) /\ SameSide(d)
                            \/ SlicesDone(d)' /\ CallProgress(d)'
  PROVE  SlicesInv'
<1>1. OnePlace' /\ \A p : Outstanding(p)' <=> Outstanding(p)
  BY PlacesKept DEF SlicesInv
<1>2. ASSUME NEW p \in Pointers, Outstanding(p)'
      PROVE  (slices[p[1]][p[2]] = Span(p[1], p[2]) /\ AppliedTo(p[1], p[2], 0))'
  <2>1. Outstanding(p)
    BY <1>1, <1>2
  <2>2. p[1] \in Callers /\ pc[p[1]] \in Frame
    BY <2>1, OutstandingAlive
  <2> QED
    BY <2>1, <2>2, PendingKept DEF SlicesInv
<1>3. ASSUME NEW d \in Callers PROVE SlicesDone(d)' /\ CallProgress(d)'
  BY <1>1, CallKept DEF SlicesInv
<1>4. SlicesPending'
  BY <1>2 DEF SlicesPending
<1> QED
  BY <1>1, <1>3, <1>4 DEF SlicesInv

LEMMA OneCallerStep ==
  ASSUME TypeInv, AliveInv, SlicesInv, ~dead, NEW c \in Callers,
         SamePlaces,
         \A d \in Callers \ {c} : SameCall(d) /\ pc'[d] = pc[d],
         pc[c] \in Frame => SameCall(c),
         SlicesDone(c)', CallProgress(c)'
  PROVE  SlicesInv'
<1>1. \A d \in Callers : pc[d] \in Frame => SameCall(d)
  OBVIOUS
<1>2. \A d \in Callers : \/ SameCall(d) /\ SameSide(d)
                         \/ SlicesDone(d)' /\ CallProgress(d)'
  BY DEF SameSide
<1> QED
  BY <1>1, <1>2, QuietSlices

(* Each step of a caller that queues nothing and takes nothing back. *)
LEMMA CallsSlices ==
  ASSUME TypeInv, AliveInv, SlicesInv, ~dead, NEW c \in Callers,
         Calls(c) \/ Inline(c)
  PROVE  SlicesInv'
<1> USE ConstantsAssumption
<1>1. CallerTypeOK /\ CallProgress(c) /\ SlicesDone(c)
  BY DEF TypeInv, TypeOK, SlicesInv
<1>2. UNCHANGED <<slices, workerVars, queueVars>>
  BY DEF Calls, Call, Inline, RunInline, ReturnInline
<1>3. SamePlaces
  BY <1>2 DEF SamePlaces, workerVars, queueVars
<1>4. pc[c] \in {"out", "inline", "inlined"} /\ pc[c] \notin Frame
  BY DEF Calls, Call, Inline, RunInline, ReturnInline, Frame, Exiting
<1>5. \A d \in Callers \ {c} : SameCall(d) /\ pc'[d] = pc[d]
  BY <1>1, <1>2 DEF Calls, Call, Inline, RunInline, ReturnInline, SameCall,
     CallerTypeOK
<1>6. pc'[c] \in {"out", "inline", "inlined", "ensure"}
  BY <1>1 DEF Calls, Call, Inline, RunInline, ReturnInline, CallerTypeOK
<1>7. SlicesDone(c)'
  BY <1>6 DEF SlicesDone
<1>8. CallProgress(c)'
  <2>1. ASSUME NEW a \in Inputs, Call(c, a) PROVE CallProgress(c)'
    <3>1. a.length \in 0 .. MaxLength
      OBVIOUS
    <3>2. CASE a.length <= 0
      BY <1>1, <2>1, <3>2 DEF Call, CallProgress
    <3>3. CASE ~(a.length <= 0)
      <4>1. args'[c] = a /\ applied'[c] = Untouched
            /\ pc'[c] \in {"inline", "ensure"}
        BY <1>1, <2>1, <3>3 DEF Call, CallerTypeOK
      <4> QED
        BY <3>1, <3>3, <4>1 DEF CallProgress, Splitting, Exiting
    <3> QED
      BY <3>2, <3>3
  <2>2. CASE RunInline(c)
    <3>1. pc[c] = "inline" /\ pc'[c] = "inlined" /\ args' = args
          /\ applied'[c] = ApplyRange(applied[c], 0, args[c].length)
      BY <1>1, <2>2 DEF RunInline, CallerTypeOK
    <3>2. applied[c] = Untouched /\ args[c].length > 0
          /\ args[c].length \in 0 .. MaxLength
      BY <1>1, <3>1 DEF CallProgress, Exiting, CallerTypeOK, Arguments
    <3>3. ASSUME NEW i \in 0 .. args[c].length - 1
          PROVE  applied'[c][i] = 1
      BY <3>1, <3>2 DEF ApplyRange, Untouched
    <3> QED
      BY <3>1, <3>2, <3>3 DEF CallProgress, Splitting, Exiting
  <2>3. CASE ReturnInline(c)
    BY <1>1, <2>3 DEF ReturnInline, CallProgress, CallerTypeOK, NoArgs,
       Splitting, Exiting
  <2> QED
    BY <2>1, <2>2, <2>3 DEF Calls, Inline
<1> QED
  BY <1>3, <1>4, <1>5, <1>7, <1>8, OneCallerStep

(* A caller that moves to another control point only. *)
LEMMA MoveSlices ==
  ASSUME TypeInv, AliveInv, SlicesInv, ~dead, ~dead', NEW c \in Callers,
         \/ Ensure(c) \/ WaitAgain(c) \/ CallerWakesUp(c) \/ Exit(c)
         \/ Shutdown(c)
  PROVE  SlicesInv'
<1>1. CallerTypeOK /\ WorkerTypeOK /\ CallProgress(c) /\ SlicesDone(c)
  BY DEF TypeInv, TypeOK, SlicesInv
<1>2. UNCHANGED <<args, slices, applied, items, work>>
  BY DEF Ensure, EnsureStarted, CheckInitialized, RegisterShutdown, StartLoop,
     StartWorker, StartWorkerFails, SetNThreads, WaitAgain, CallerWakesUp,
     Exit, Shutdown, RunHandlers, NextHandler, StopWorkers, JoinWorker,
     JoinNull, ShutdownEnds, callerVars, workerVars, queueVars
<1>3. \A d \in Callers : SameCall(d)
  BY <1>2 DEF SameCall
<1>4. SamePlaces
  <2>1. CASE ~StartWorker(c) /\ ~StopWorkers(c)
    <3>1. UNCHANGED wpc
      BY <2>1 DEF Ensure, EnsureStarted, CheckInitialized, RegisterShutdown,
         StartLoop, StartWorkerFails, SetNThreads, WaitAgain, CallerWakesUp,
         Exit, Shutdown, RunHandlers, NextHandler, JoinWorker, JoinNull,
         ShutdownEnds, workerVars
    <3> QED
      BY <1>2, <3>1 DEF SamePlaces
  <2>2. CASE StartWorker(c) \/ StopWorkers(c)
    BY <1>1, <1>2, <2>2 DEF StartWorker, StopWorkers, SamePlaces, Waiting,
       WorkerTypeOK
  <2> QED
    BY <2>1, <2>2
<1>5. (\A p : Outstanding(p)' <=> Outstanding(p)) /\ NSlices(c)' = NSlices(c)
      /\ \A k : AppliedTo(c, k, 1)' <=> AppliedTo(c, k, 1)
  BY <1>3, <1>4, PlacesKept, SameCallSpans
<1>6. CASE Ensure(c)
  <2>1. \A d \in Callers \ {c} : pc'[d] = pc[d]
    BY <1>1, <1>6 DEF Ensure, EnsureStarted, CheckInitialized,
       RegisterShutdown, StartLoop, StartWorker, StartWorkerFails, Fatal,
       SetNThreads, CallerTypeOK
  <2>2. pc[c] \in Splitting /\ pc'[c] \in Splitting \cup {"exit"}
    BY <1>1, <1>6 DEF Ensure, EnsureStarted, CheckInitialized,
       RegisterShutdown, StartLoop, StartWorker, StartWorkerFails, Fatal,
       SetNThreads, CallerTypeOK, Splitting
  <2>3. SlicesDone(c)' /\ CallProgress(c)'
    BY <1>1, <1>2, <2>2 DEF SlicesDone, CallProgress, Splitting, Exiting
  <2> QED
    BY <1>3, <1>4, <2>1, <2>3, OneCallerStep
<1>7. CASE WaitAgain(c) \/ CallerWakesUp(c)
  <2>1. /\ \A d \in Callers \ {c} : pc'[d] = pc[d]
        /\ pc[c] \in {"waiting", "woken"} /\ pc'[c] \in {"waiting", "woken"}
    BY <1>1, <1>7 DEF WaitAgain, CallerWakesUp, CallerTypeOK
  <2>2. SlicesDone(c)'
    BY <1>1, <1>5, <2>1 DEF SlicesDone
  <2>3. CallProgress(c)'
    BY <1>1, <1>2, <2>1 DEF CallProgress, Splitting, Exiting
  <2> QED
    BY <1>3, <1>4, <2>1, <2>2, <2>3, OneCallerStep
<1>8. CASE Exit(c) \/ Shutdown(c)
  <2>1. /\ \A d \in Callers \ {c} : pc'[d] = pc[d]
        /\ pc'[c] \in Exiting
    BY <1>1, <1>8 DEF Exit, Shutdown, RunHandlers, NextHandler, StopWorkers,
       JoinWorker, JoinNull, ShutdownEnds, CallerTypeOK, Exiting, callerVars
  <2>2. SlicesDone(c)' /\ CallProgress(c)'
    BY <2>1 DEF SlicesDone, CallProgress, Splitting, Exiting
  <2> QED
    BY <1>3, <1>4, <2>1, <2>2, OneCallerStep
<1> QED
  BY <1>6, <1>7, <1>8

(* When a caller returns, nothing is queued and nobody works: all of its   *)
(* slices are done. *)
LEMMA NothingOutstanding ==
  ASSUME TypeInv, AliveInv, RingInv, work_pending <= 0, count <= 0
  PROVE  \A p \in Pointers : ~Outstanding(p)
<1> USE ConstantsAssumption
<1>1. count = 0 /\ work_pending \in Int
  BY DEF TypeInv, TypeOK, QueueTypeOK
<1>2. Cardinality(Busy) = 0
  BY <1>1, BusyFinite DEF AliveInv
<1>3. Busy = {}
  BY <1>2, BusyFinite, FS_EmptySet
<1>4. \A j \in Slots : items[j] = Null
  <2>1. \A j \in Slots : Behind(j) \in Nat
    BY DEF Behind, Slots, TypeInv, TypeOK, QueueTypeOK
  <2> QED
    BY <1>1, <2>1 DEF RingInv, Ring
<1>5. Null \notin Pointers
  BY DEF Pointers, Slots
<1> QED
  BY <1>3, <1>4, <1>5 DEF Outstanding, Queued, Running, Busy

LEMMA ReturnSlices ==
  ASSUME TypeInv, AliveInv, RingInv, SlicesInv, ~dead, NEW c \in Callers,
         Return(c)
  PROVE  SlicesInv'
<1> USE ConstantsAssumption
<1>1. CallerTypeOK /\ (\A d \in Callers : CallProgress(d) /\ SlicesDone(d))
  BY DEF TypeInv, TypeOK, SlicesInv
<1>2. /\ items' = [i \in Slots |-> Null] /\ pc[c] = "woken"
      /\ pc' = [pc EXCEPT ![c] = "out"]
      /\ args' = [args EXCEPT ![c] = NoArgs]
      /\ UNCHANGED <<slices, applied, wpc, work, dead>>
  BY DEF Return, workerVars, exitVars
<1>3. \A p \in Pointers : ~Outstanding(p)
  BY NothingOutstanding DEF Return
<1>4. \A p \in Pointers : ~Outstanding(p)'
  BY <1>2, <1>3 DEF Outstanding, Queued, Running, Pointers, Slots
<1>5. OnePlace'
  <2>1. \A w \in Workers : wpc[w] = "run" => work[w] # Null
    BY DEF TypeInv, Shape, Busy
  <2> QED
    BY <1>2, <2>1 DEF OnePlace, SlicesInv
<1>6. SlicesPending'
  BY <1>4 DEF SlicesPending
<1>7. ASSUME NEW d \in Callers \ {c} PROVE SlicesDone(d)' /\ CallProgress(d)'
  <2>1. SameCall(d) /\ SameSide(d)
    BY <1>1, <1>2 DEF SameCall, SameSide, CallerTypeOK
  <2>2. \A k \in 0 .. NSlices(d) - 1 : ~Outstanding(<<d, k>>)
    BY <1>3, SpanFacts
  <2> QED
    BY <1>1, <2>1, <2>2, CallKept
<1>8. SlicesDone(c)' /\ CallProgress(c)'
  BY <1>1, <1>2 DEF SlicesDone, CallProgress, CallerTypeOK, NoArgs, Splitting,
     Exiting
<1> QED
  BY <1>5, <1>6, <1>7, <1>8 DEF SlicesInv

(* The slices that a call queues go to slots that are free, each to one of *)
(* its own, and belong to no call before. *)
LEMMA SubmitSlices ==
  ASSUME TypeInv, AliveInv, RingInv, SlicesInv, ~dead, ~dead',
         NEW c \in Callers, Submit(c)
  PROVE  SlicesInv'
<1> USE ConstantsAssumption
<1> DEFINE P == PARALLEL_FOR_MAX_THREADS
           n == NSlices(c)
           m == Lesser(n, P - count)
           At(j) == (j - tail) % P
<1>1. CallerTypeOK /\ WorkerTypeOK /\ QueueTypeOK /\ CallProgress(c)
  BY DEF TypeInv, TypeOK, SlicesInv
<1>2. /\ items' = [j \in Slots |-> IF At(j) < m THEN <<c, At(j)>> ELSE items[j]]
      /\ slices' = [slices EXCEPT ![c] =
             [i \in Slots |-> IF i < n /\ i <= m
                              THEN Slice(args[c].length, n, i) ELSE @[i]]]
      /\ pc[c] = "submit" /\ UNCHANGED <<args, applied, work>>
  BY DEF Submit
<1>3. pc' = [pc EXCEPT ![c] = IF m = n THEN "waiting" ELSE "exit"]
  BY DEF Submit, Fatal
<1>4. n \in 2 .. P /\ m \in 0 .. P /\ m <= n /\ count + m <= P
      /\ count \in 0 .. P /\ args[c].length > 0
  <2>1. n \in Nat /\ n <= P
    BY <1>1, ThreadCountBounds DEF NSlices, CallerTypeOK
  <2>2. n >= 2
    BY <1>2 DEF TypeInv, Shape, Splitting
  <2> QED
    BY <1>1, <1>2, <2>1, <2>2 DEF QueueTypeOK, Lesser, CallProgress, Exiting
<1>5. \A w \in Workers : wpc'[w] = "run" <=> wpc[w] = "run"
  <2>1. PICK woken \in SUBSET Waiting :
          wpc' = [w \in Workers |-> IF w \in woken THEN "idle" ELSE wpc[w]]
    BY DEF Submit
  <2> QED
    BY <1>1, <2>1 DEF Waiting, WorkerTypeOK
<1>6. ASSUME NEW p \in Pointers, Outstanding(p) PROVE p[1] # c
  BY <1>2, <1>6, OutstandingAlive DEF Frame, Exiting
<1>7. ASSUME NEW j \in Slots
      PROVE  /\ At(j) \in Slots /\ <<c, At(j)>> \in Pointers
             /\ <<c, At(j)>> # Null
             /\ At(j) < m => items[j] = Null
             /\ (tail + At(j)) % P = j
  <2>1. tail \in 0 .. P - 1 /\ head \in 0 .. P - 1 /\ j \in 0 .. P - 1
    BY <1>1 DEF QueueTypeOK, Slots
  <2>2. At(j) \in 0 .. P - 1 /\ (tail + At(j)) % P = j
    BY <2>1, AroundTheRing
  <2>3. ASSUME At(j) < m PROVE ~(Behind(j) < count)
    <3>1. m \in Nat /\ count + m <= P /\ count \in 0 .. P
      BY <1>4
    <3>2. tail = (head + count) % P /\ tail \in Int
      BY <2>1 DEF RingInv, Ring
    <3> HIDE DEF m
    <3> QED
      BY <2>1, <2>3, <3>1, <3>2, AppendIsFree DEF Behind
  <2>4. At(j) < m => items[j] = Null
    BY <2>3 DEF RingInv, Ring
  <2>5. <<c, At(j)>> \in Pointers /\ <<c, At(j)>> # Null
    BY <2>2 DEF Pointers, Slots
  <2> QED
    BY <2>2, <2>4, <2>5 DEF Slots
<1>8. ASSUME NEW k \in 0 .. m - 1 PROVE Outstanding(<<c, k>>)'
  <2> DEFINE j == (tail + k) % P
  <2>1. tail \in 0 .. P - 1 /\ k \in 0 .. P - 1
    BY <1>1, <1>4 DEF QueueTypeOK, Slots
  <2>2. j \in 0 .. P - 1 /\ At(j) = k
    BY <2>1, AroundTheRing
  <2> HIDE DEF j, At
  <2>3. items'[j] = <<c, k>> /\ j \in Slots
    BY <1>2, <1>4, <2>2 DEF Slots
  <2> QED
    BY <2>3 DEF Outstanding, Queued
<1> HIDE DEF At
<1>9. ASSUME NEW p \in Pointers, p[1] # c
      PROVE  Outstanding(p)' <=> Outstanding(p)
  <2>1. \A j \in Slots : items'[j] = p <=> items[j] = p
    <3>1. p # Null /\ p = <<p[1], p[2]>>
      BY DEF Pointers, Slots
    <3> QED
      BY <1>2, <1>7, <1>9, <3>1
  <2> QED
    BY <1>2, <1>5, <2>1 DEF Outstanding, Queued, Running
<1>10. ASSUME NEW p \in Pointers, p[1] = c, Outstanding(p)'
       PROVE  p[2] \in 0 .. m - 1
  <2>1. ~Outstanding(p)
    BY <1>6, <1>10
  <2>2. PICK j \in Slots : items'[j] = p /\ items[j] # p
    BY <1>2, <1>5, <1>10, <2>1 DEF Outstanding, Queued, Running
  <2>3. At(j) < m /\ p = <<c, At(j)>>
    BY <1>2, <2>2
  <2> QED
    BY <1>4, <1>7, <2>3 DEF Slots
<1>11. OnePlace'
  <2>1. ASSUME NEW i \in Slots, NEW j \in Slots,
               items'[i] = items'[j], items'[i] # Null
        PROVE  i = j
    <3>1. CASE At(i) < m /\ At(j) < m
      <4>1. At(i) = At(j)
        BY <1>2, <2>1, <3>1
      <4> QED
        BY <1>7, <4>1
    <3>2. CASE ~(At(i) < m) /\ ~(At(j) < m)
      BY <1>2, <2>1, <3>2 DEF OnePlace, SlicesInv
    <3>3. ASSUME NEW x \in Slots, NEW y \in Slots, At(x) < m, ~(At(y) < m),
                 items'[x] = items'[y]
          PROVE  FALSE
      <4>1. items[y] = <<c, At(x)>>
        BY <1>2, <3>3
      <4>2. <<c, At(x)>> \in Pointers /\ Outstanding(<<c, At(x)>>)
        BY <1>7, <4>1 DEF Outstanding, Queued
      <4> QED
        BY <1>6, <4>2
    <3> QED
      BY <2>1, <3>1, <3>2, <3>3
  <2>2. ASSUME NEW j \in Slots, NEW w \in Workers, wpc[w] = "run"
        PROVE  items'[j] # work[w]
    <3>1. work[w] \in Pointers
      BY <1>1, <2>2 DEF TypeInv, Shape, Busy, WorkerTypeOK
    <3>2. work[w][1] # c
      BY <1>6, <2>2, <3>1 DEF Outstanding, Running
    <3> QED
      BY <1>2, <2>2, <3>1, <3>2 DEF OnePlace, SlicesInv
  <2> QED
    BY <1>2, <1>5, <2>1, <2>2 DEF OnePlace, SlicesInv
<1>12. NSlices(c)' = n /\ \A k : Span(c, k)' = Slice(args[c].length, n, k)
  BY <1>2 DEF NSlices, Span
<1>13. ASSUME NEW p \in Pointers, Outstanding(p)'
       PROVE  (slices[p[1]][p[2]] = Span(p[1], p[2]) /\ AppliedTo(p[1], p[2], 0))'
  <2>1. CASE p[1] = c
    <3>1. p[2] \in 0 .. m - 1 /\ p[2] \in Slots
      BY <1>10, <1>13, <2>1 DEF Pointers
    <3>2. slices'[c][p[2]] = Slice(args[c].length, n, p[2])
      BY <1>1, <1>2, <1>4, <3>1 DEF CallerTypeOK
    <3>3. applied'[c] = Untouched
      BY <1>1, <1>2 DEF CallProgress, Splitting
    <3>4. AppliedTo(c, p[2], 0)'
      BY <3>3 DEF AppliedTo, Untouched
    <3> QED
      BY <1>12, <2>1, <3>2, <3>4
  <2>2. CASE p[1] # c
    <3>1. Outstanding(p) /\ p[1] \in Callers
      BY <1>9, <1>13, <2>2 DEF Pointers
    <3>2. SameCall(p[1])
      BY <1>1, <1>2, <2>2, <3>1 DEF SameCall, CallerTypeOK
    <3> QED
      BY <3>1, <3>2, PendingKept DEF SlicesInv
  <2> QED
    BY <2>1, <2>2
<1>14. ASSUME NEW d \in Callers \ {c} PROVE SlicesDone(d)' /\ CallProgress(d)'
  <2>1. SameCall(d) /\ SameSide(d)
    BY <1>1, <1>2, <1>3 DEF SameCall, SameSide, CallerTypeOK
  <2>2. \A k \in 0 .. NSlices(d) - 1 : <<d, k>> \in Pointers
    BY SpanFacts
  <2>3. \A k \in 0 .. NSlices(d) - 1 :
          Outstanding(<<d, k>>)' <=> Outstanding(<<d, k>>)
    BY <1>9, <2>2
  <2> QED
    BY <2>1, <2>3, CallKept DEF SlicesInv
<1>15. SlicesDone(c)'
  <2>1. pc'[c] = "waiting" \/ pc'[c] = "exit"
    BY <1>1, <1>3 DEF CallerTypeOK
  <2>2. pc'[c] = "waiting" => m = n
    BY <1>1, <1>3 DEF CallerTypeOK
  <2> QED
    BY <1>4, <1>8, <1>12, <2>1, <2>2 DEF SlicesDone
<1>16. CallProgress(c)'
  BY <1>1, <1>2, <1>3, <1>4 DEF CallProgress, CallerTypeOK, Splitting, Exiting
<1>17. SlicesPending'
  BY <1>13 DEF SlicesPending
<1> QED
  BY <1>11, <1>14, <1>15, <1>16, <1>17 DEF SlicesInv

(* A worker takes the slice at the head: it has left one place for another. *)
LEMMA TakeWorkSlices ==
  ASSUME TypeInv, AliveInv, RingInv, SlicesInv, ~dead, NEW w \in Workers,
         TakeWork(w)
  PROVE  SlicesInv'
<1> DEFINE p == items[head]
<1>1. CallerTypeOK /\ WorkerTypeOK /\ QueueTypeOK /\ OnePlace /\ SlicesPending
  BY DEF TypeInv, TypeOK, SlicesInv
<1>2. p # Null /\ head \in Slots /\ p \in Pointers
  BY <1>1, TakeWorkRing DEF QueueTypeOK
<1>3. /\ work' = [work EXCEPT ![w] = p]
      /\ items' = [items EXCEPT ![head] = Null]
      /\ wpc' = [wpc EXCEPT ![w] = "run"]
      /\ wpc[w] = "idle"
      /\ UNCHANGED <<pc, args, slices, applied, dead>>
  BY <1>2 DEF TakeWork, callerVars, exitVars
<1> HIDE DEF p
<1>4. \A d \in Callers : SameCall(d) /\ SameSide(d)
  BY <1>3 DEF SameCall, SameSide
<1>5. Null \notin Pointers
  BY ConstantsAssumption DEF Pointers, Slots
<1>6. ASSUME NEW q \in Pointers PROVE Outstanding(q)' <=> Outstanding(q)
  <2>1. Queued(q)' <=> Queued(q) /\ q # p
    BY <1>1, <1>2, <1>3, <1>5 DEF Queued, OnePlace, QueueTypeOK, p
  <2>2. Running(q)' <=> Running(q) \/ q = p
    BY <1>1, <1>3 DEF Running, WorkerTypeOK
  <2>3. Queued(p)
    BY <1>2 DEF Queued, p
  <2> QED
    BY <2>1, <2>2, <2>3 DEF Outstanding
<1>7. OnePlace'
  <2>1. \A j \in Slots : items'[j] # Null =>
          j # head /\ items'[j] = items[j] /\ items[j] # p
    BY <1>1, <1>2, <1>3 DEF OnePlace, QueueTypeOK, p
  <2>2. \A v \in Workers : wpc'[v] = "run" =>
          \/ v = w /\ work'[v] = p
          \/ v # w /\ wpc[v] = "run" /\ work'[v] = work[v]
    BY <1>1, <1>3 DEF WorkerTypeOK
  <2>3. \A v \in Workers : wpc[v] = "run" => work[v] # p /\ work[v] # Null
    BY <1>1, <1>2 DEF OnePlace, p, TypeInv, Shape, Busy
  <2>4. ASSUME NEW j \in Slots, NEW v \in Workers, wpc'[v] = "run"
        PROVE  items'[j] # work'[v]
    BY <1>1, <1>2, <2>1, <2>2, <2>3, <2>4 DEF OnePlace
  <2> QED
    BY <1>1, <2>1, <2>2, <2>3, <2>4 DEF OnePlace
<1>8. ASSUME NEW q \in Pointers, Outstanding(q)'
      PROVE  (slices[q[1]][q[2]] = Span(q[1], q[2]) /\ AppliedTo(q[1], q[2], 0))'
  <2>1. Outstanding(q) /\ q[1] \in Callers
    BY <1>6, <1>8 DEF Pointers
  <2> QED
    BY <1>1, <1>4, <2>1, PendingKept
<1>9. ASSUME NEW d \in Callers PROVE SlicesDone(d)' /\ CallProgress(d)'
  <2>1. \A k \in 0 .. NSlices(d) - 1 : <<d, k>> \in Pointers
    BY SpanFacts
  <2> QED
    BY <1>4, <1>6, <2>1, CallKept DEF SlicesInv
<1> QED
  BY <1>7, <1>8, <1>9 DEF SlicesInv, SlicesPending

(* The function gets exactly the indices of the slice, none of them        *)
(* applied before. *)
LEMMA RunWorkApplies ==
  ASSUME TypeInv, AliveInv, SlicesInv, ~dead, NEW w \in Workers, RunWork(w)
  PROVE  LET c == work[w][1]
             k == work[w][2]
         IN /\ work[w] \in Pointers /\ Outstanding(work[w])
            /\ c \in Callers /\ k \in 0 .. NSlices(c) - 1
            /\ pc[c] \in Frame /\ work[w] = <<c, k>>
            /\ applied' = [applied EXCEPT ![c] =
                 ApplyRange(@, Span(c, k).start, Span(c, k).end)]
            /\ AppliedTo(c, k, 0)
<1> DEFINE c == work[w][1]
           k == work[w][2]
<1>1. wpc[w] = "run" /\ WorkerTypeOK /\ w \in Busy
  BY DEF RunWork, TypeInv, TypeOK, Busy
<1>2. work[w] \in Pointers /\ Outstanding(work[w])
  BY <1>1 DEF TypeInv, Shape, WorkerTypeOK, Outstanding, Running
<1>3. c \in Callers /\ k \in 0 .. NSlices(c) - 1 /\ pc[c] \in Frame
      /\ work[w] = <<c, k>>
  BY <1>2, OutstandingAlive
<1>4. slices[c][k] = Span(c, k) /\ AppliedTo(c, k, 0)
  BY <1>2 DEF SlicesInv, SlicesPending
<1>5. applied' = [applied EXCEPT ![c] =
                    ApplyRange(@, Span(c, k).start, Span(c, k).end)]
  BY <1>4 DEF RunWork
<1> QED
  BY <1>2, <1>3, <1>4, <1>5

LEMMA RunWorkSlices ==
  ASSUME TypeInv, AliveInv, SlicesInv, ~dead, NEW w \in Workers, RunWork(w)
  PROVE  SlicesInv'
<1>1. CallerTypeOK /\ WorkerTypeOK /\ OnePlace /\ SlicesPending
  BY DEF TypeInv, TypeOK, SlicesInv
<1>2. PICK c, k :
        /\ c \in Callers /\ k \in 0 .. NSlices(c) - 1
        /\ work[w] \in Pointers /\ Outstanding(work[w])
        /\ pc[c] \in Frame /\ work[w] = <<c, k>>
        /\ applied' = [applied EXCEPT ![c] =
             ApplyRange(@, Span(c, k).start, Span(c, k).end)]
        /\ AppliedTo(c, k, 0)
  BY RunWorkApplies
<1>3. /\ wpc' = [wpc EXCEPT ![w] = "done"] /\ wpc[w] = "run"
      /\ UNCHANGED <<pc, args, slices, items, work, dead>>
  BY DEF RunWork, queueVars, exitVars
<1>4. ASSUME NEW q \in Pointers
      PROVE  Outstanding(q)' <=> Outstanding(q) /\ q # <<c, k>>
  <2>1. Queued(q)' <=> Queued(q)
    BY <1>3 DEF Queued
  <2>2. Running(q)' <=> Running(q) /\ q # work[w]
    BY <1>1, <1>3 DEF Running, OnePlace, WorkerTypeOK
  <2>3. ~Queued(work[w])
    BY <1>1, <1>3 DEF Queued, OnePlace
  <2> QED
    BY <1>2, <2>1, <2>2, <2>3 DEF Outstanding
<1>5. OnePlace'
  BY <1>1, <1>3 DEF OnePlace, WorkerTypeOK
<1>6. \A d \in Callers : NSlices(d)' = NSlices(d)
                         /\ \A l : Span(d, l)' = Span(d, l)
  BY <1>3 DEF NSlices, Span
<1>7. \A d \in Callers \ {c} : SameCall(d) /\ SameSide(d)
  BY <1>1, <1>2, <1>3 DEF SameCall, SameSide, CallerTypeOK
<1>8. ASSUME NEW i \in 0 .. MaxLength - 1
      PROVE  applied'[c][i] = IF Span(c, k).start <= i /\ i < Span(c, k).end
                              THEN applied[c][i] + 1 ELSE applied[c][i]
  BY <1>1, <1>2 DEF CallerTypeOK, ApplyRange
<1>9. AppliedTo(c, k, 1)'
  BY <1>2, <1>6, <1>8 DEF AppliedTo
<1>10. ASSUME NEW l \in 0 .. NSlices(c) - 1, l # k, NEW n, AppliedTo(c, l, n)
       PROVE  AppliedTo(c, l, n)'
  <2>1. Span(c, k).end <= Span(c, l).start \/ Span(c, l).end <= Span(c, k).start
    BY <1>2, <1>10, SpansDisjoint
  <2>2. /\ Span(c, k).start \in Int /\ Span(c, k).end \in Int
        /\ Span(c, l).start \in Int /\ Span(c, l).end \in Int
    <3>1. /\ Span(c, k).start \in 0 .. args[c].length
          /\ Span(c, k).end \in 0 .. args[c].length
          /\ Span(c, l).start \in 0 .. args[c].length
          /\ Span(c, l).end \in 0 .. args[c].length
      BY <1>2, SpanFacts
    <3> QED
      BY <3>1
  <2>3. ASSUME NEW i \in 0 .. MaxLength - 1,
               Span(c, l).start <= i, i < Span(c, l).end
        PROVE  applied'[c][i] = n
    <3>1. ~(Span(c, k).start <= i /\ i < Span(c, k).end)
      BY <2>1, <2>2, <2>3
    <3> QED
      BY <1>8, <1>10, <2>3, <3>1 DEF AppliedTo
  <2> QED
    BY <1>2, <1>6, <2>3 DEF AppliedTo
<1>11. ASSUME NEW q \in Pointers, Outstanding(q)'
       PROVE  (slices[q[1]][q[2]] = Span(q[1], q[2]) /\ AppliedTo(q[1], q[2], 0))'
  <2>1. Outstanding(q) /\ q # <<c, k>>
    BY <1>4, <1>11
  <2>2. q[1] \in Callers /\ q[2] \in 0 .. NSlices(q[1]) - 1 /\ q = <<q[1], q[2]>>
    BY <2>1, OutstandingAlive
  <2>3. slices[q[1]][q[2]] = Span(q[1], q[2]) /\ AppliedTo(q[1], q[2], 0)
    BY <1>1, <2>1 DEF SlicesPending
  <2>4. CASE q[1] = c
    BY <1>3, <1>6, <1>10, <2>1, <2>2, <2>3, <2>4
  <2>5. CASE q[1] # c
    BY <1>1, <1>7, <2>1, <2>2, <2>5, PendingKept
  <2> QED
    BY <2>4, <2>5
<1>12. ASSUME NEW d \in Callers \ {c} PROVE SlicesDone(d)' /\ CallProgress(d)'
  <2>1. \A l \in 0 .. NSlices(d) - 1 : <<d, l>> \in Pointers /\ <<d, l>> # <<c, k>>
    BY SpanFacts
  <2> QED
    BY <1>4, <1>7, <2>1, CallKept DEF SlicesInv
<1>13. SlicesDone(c)'
  <2>1. ASSUME pc[c] \in {"waiting", "woken"}, NEW l \in 0 .. NSlices(c) - 1
        PROVE  Outstanding(<<c, l>>)' \/ AppliedTo(c, l, 1)'
    <3>1. <<c, l>> \in Pointers
      BY <1>2, SpanFacts
    <3>2. CASE l = k
      BY <1>9, <3>2
    <3>3. CASE l # k
      <4>1. Outstanding(<<c, l>>) \/ AppliedTo(c, l, 1)
        BY <1>2, <2>1 DEF SlicesInv, SlicesDone
      <4> QED
        BY <1>4, <1>10, <3>1, <3>3, <4>1
    <3> QED
      BY <3>2, <3>3
  <2> QED
    BY <1>2, <1>3, <1>6, <2>1 DEF SlicesInv, SlicesDone
<1>14. CallProgress(c)'
  BY <1>2, <1>3 DEF SlicesInv, CallProgress, Frame, Exiting, Splitting
<1> QED
  BY <1>5, <1>11, <1>12, <1>13, <1>14 DEF SlicesInv, SlicesPending

(* The other steps of the workers. *)
LEMMA WorkerSlices ==
  ASSUME TypeInv, AliveInv, SlicesInv, ~dead, NEW w \in Workers,
         \/ WorkerWaits(w) \/ WorkerWakesUp(w) \/ WorkerStops(w)
         \/ FinishWork(w)
  PROVE  SlicesInv'
<1>1. CallerTypeOK /\ WorkerTypeOK
  BY DEF TypeInv, TypeOK
<1>2. UNCHANGED <<args, slices, applied, items>>
  BY DEF WorkerWaits, WorkerWakesUp, WorkerStops, FinishWork, callerVars,
     queueVars
<1>3. SamePlaces
  BY <1>1, <1>2 DEF WorkerWaits, WorkerWakesUp, WorkerStops, FinishWork,
     SamePlaces, WorkerTypeOK
<1>4. ASSUME NEW d \in Callers PROVE SameCall(d) /\ SameSide(d)
  <2>1. UNCHANGED pc \/ \E c \in Awaiting : pc' = [pc EXCEPT ![c] = "woken"]
    BY DEF WorkerWaits, WorkerWakesUp, WorkerStops, FinishWork, callerVars
  <2> QED
    BY <1>1, <1>2, <2>1 DEF SameCall, SameSide, Awaiting, CallerTypeOK
<1> QED
  BY <1>3, <1>4, QuietSlices

LEMMA InitSlicesInv == Init => SlicesInv
<1> SUFFICES ASSUME Init PROVE SlicesInv
  OBVIOUS
<1>1. Null \notin Pointers
  BY ConstantsAssumption DEF Pointers, Slots
<1>2. \A p \in Pointers : ~Outstanding(p)
  BY <1>1 DEF Init, Outstanding, Queued, Running
<1>3. OnePlace
  BY DEF Init, OnePlace
<1>4. \A c \in Callers : SlicesDone(c) /\ CallProgress(c)
  BY DEF Init, SlicesDone, CallProgress, Splitting, NoArgs
<1> QED
  BY <1>2, <1>3, <1>4 DEF SlicesInv, SlicesPending

LEMMA NextSlicesInv ==
  TypeInv /\ AliveInv /\ RingInv /\ SlicesInv /\ [Next]_vars => SlicesInv'
<1> SUFFICES ASSUME TypeInv, AliveInv, RingInv, SlicesInv, [Next]_vars
             PROVE  SlicesInv'
  OBVIOUS
<1>1. CASE dead'
  BY <1>1 DEF SlicesInv
<1>2. CASE UNCHANGED vars \/ Dead
  <2>1. UNCHANGED <<callerVars, workerVars, queueVars, exitVars>>
    BY <1>2 DEF Dead, vars
  <2>2. UNCHANGED <<pc, args, slices, applied, wpc, work, items, dead>>
    BY <2>1 DEF callerVars, workerVars, queueVars, exitVars
  <2>3. SamePlaces /\ \A d \in Callers : SameCall(d) /\ SameSide(d)
    BY <2>2 DEF SamePlaces, SameCall, SameSide
  <2> QED
    BY <2>2, <2>3, QuietSlices DEF SlicesInv
<1>3. ASSUME ~dead, ~dead', NEW c \in Callers,
             Calls(c) \/ CallerStep(c) \/ CallerWakesUp(c) \/ Exit(c)
      PROVE  SlicesInv'
  <2>1. CASE Calls(c) \/ Inline(c)
    BY <1>3, <2>1, CallsSlices
  <2>2. CASE \/ Ensure(c) \/ WaitAgain(c) \/ CallerWakesUp(c) \/ Exit(c)
             \/ Shutdown(c)
    BY <1>3, <2>2, MoveSlices
  <2>3. CASE Submit(c)
    BY <1>3, <2>3, SubmitSlices
  <2>4. CASE Return(c)
    BY <1>3, <2>4, ReturnSlices
  <2> QED
    BY <1>3, <2>1, <2>2, <2>3, <2>4 DEF CallerStep, Collect
<1>4. ASSUME ~dead, NEW w \in Workers, Worker(w) \/ WorkerWakesUp(w)
      PROVE  SlicesInv'
  <2>1. CASE TakeWork(w)
    BY <1>4, <2>1, TakeWorkSlices
  <2>2. CASE RunWork(w)
    BY <1>4, <2>2, RunWorkSlices
  <2>3. CASE WorkerWaits(w) \/ WorkerWakesUp(w) \/ WorkerStops(w) \/ FinishWork(w)
    BY <1>4, <2>3, WorkerSlices
  <2> QED
    BY <1>4, <2>1, <2>2, <2>3 DEF Worker
<1> QED
  BY <1>1, <1>2, <1>3, <1>4 DEF Next

(* Every slice is in one place at most; the function was applied once to   *)
(* the indices of those that are in none any more, and not yet to the      *)
(* others. *)
LEMMA SlicesInvariant == Spec => []SlicesInv
<1>1. Spec => []AliveInv
  BY InitAliveInv, NextAliveInv, TypeInvariant, PTL DEF Spec
<1> QED
  BY <1>1, InitSlicesInv, NextSlicesInv, TypeInvariant, RingInvariant, PTL
  DEF Spec
-----------------------------------------------------------------------------
(* Each step is one of ParallelFor, or leaves what it sees alone. *)

LEMMA CallRefines ==
  ASSUME TypeInv, SlicesInv, ~dead, NEW c \in Callers, Calls(c)
  PROVE  PF!Call(c) \/ UNCHANGED <<args, applied>>
<1>1. CallerTypeOK
  BY DEF TypeInv, TypeOK
<1>2. PICK a \in Inputs : Call(c, a)
  BY DEF Calls
<1>3. CASE a.length <= 0
  BY <1>2, <1>3 DEF Call
<1>4. CASE ~(a.length <= 0)
  <2>1. a.length \in 1 .. MaxLength
    BY <1>4, ConstantsAssumption
  <2>2. pc[c] = "out" /\ args' = [args EXCEPT ![c] = a]
        /\ applied' = [applied EXCEPT ![c] = Untouched]
    BY <1>2, <1>4 DEF Call
  <2>3. args[c].length = 0
    BY <2>2 DEF SlicesInv, CallProgress
  <2>4. [d \in Callers |-> args'[d].length]
          = [[d \in Callers |-> args[d].length] EXCEPT ![c] = a.length]
    BY <1>1, <2>2 DEF CallerTypeOK
  <2> QED
    BY <2>1, <2>2, <2>3, <2>4 DEF PF!Call, PF!Untouched, Untouched
<1> QED
  BY <1>3, <1>4

LEMMA ReturnRefines ==
  ASSUME TypeInv, AliveInv, RingInv, SlicesInv, ~dead, NEW c \in Callers,
         ReturnInline(c) \/ Return(c)
  PROVE  PF!Return(c)
<1>1. CallerTypeOK /\ CallProgress(c) /\ args[c].length \in 0 .. MaxLength
  BY DEF TypeInv, TypeOK, SlicesInv, CallerTypeOK, Arguments
<1>2. pc[c] \in {"inlined", "woken"} /\ args' = [args EXCEPT ![c] = NoArgs]
      /\ UNCHANGED applied
  BY DEF ReturnInline, Return
<1>3. args[c].length > 0
  BY <1>1, <1>2 DEF CallProgress, Exiting
<1>4. ASSUME NEW i \in 0 .. args[c].length - 1 PROVE applied[c][i] = 1
  <2>1. CASE ReturnInline(c)
    BY <1>1, <2>1 DEF ReturnInline, CallProgress
  <2>2. CASE Return(c)
    <3>1. pc[c] = "woken" /\ \A p \in Pointers : ~Outstanding(p)
      BY <2>2, NothingOutstanding DEF Return
    <3>2. NSlices(c) >= 1 /\ SlicesDone(c)
      BY <3>1 DEF SlicesInv, SlicesDone
    <3>3. NSlices(c) \in 1 .. args[c].length
      BY <1>1, <3>2, ThreadCountBounds, ConstantsAssumption
      DEF NSlices, CallerTypeOK
    <3>4. PICK k \in 0 .. NSlices(c) - 1 : Span(c, k).start <= i /\ i < Span(c, k).end
      <4>1. args[c].length \in Nat
        BY <1>1, ConstantsAssumption
      <4> QED
        BY <3>3, <4>1, SlicesCover DEF Span
    <3>5. AppliedTo(c, k, 1)
      BY <3>1, <3>2, SpanFacts DEF SlicesDone
    <3>6. i \in 0 .. MaxLength - 1
      BY <1>1, ConstantsAssumption
    <3> QED
      BY <3>4, <3>5, <3>6 DEF AppliedTo
  <2> QED
    BY <2>1, <2>2
<1>5. [d \in Callers |-> args'[d].length]
        = [[d \in Callers |-> args[d].length] EXCEPT ![c] = 0]
  BY <1>1, <1>2 DEF CallerTypeOK, NoArgs
<1> QED
  BY <1>2, <1>3, <1>4, <1>5 DEF PF!Return

(* The function is applied to one range of a call. *)
LEMMA RangeRefines ==
  ASSUME TypeInv, NEW c \in Callers, NEW s \in Nat, NEW e \in Nat,
         s < e, e <= args[c].length,
         \A i \in 0 .. MaxLength - 1 : s <= i /\ i < e => applied[c][i] = 0,
         applied' = [applied EXCEPT ![c] = ApplyRange(@, s, e)],
         UNCHANGED args
  PROVE  PF!Apply(c)
<1>1. CallerTypeOK /\ args[c].length \in 0 .. MaxLength /\ MaxLength \in Nat
  BY ConstantsAssumption DEF TypeInv, TypeOK, CallerTypeOK, Arguments
<1>2. applied[c] \in [0 .. MaxLength - 1 -> Nat]
  BY <1>1 DEF CallerTypeOK
<1>3. s \in 0 .. args[c].length - 1 /\ e - 1 \in s .. args[c].length - 1
  BY <1>1
<1>4. \A i \in s .. (e - 1) : applied[c][i] = 0
  BY <1>1
<1>5. ApplyRange(applied[c], s, e)
        = [i \in 0 .. MaxLength - 1 |->
             IF i \in s .. (e - 1) THEN 1 ELSE applied[c][i]]
  BY <1>1, <1>2, <1>4 DEF ApplyRange
<1>6. applied' = [applied EXCEPT ![c] =
                    [i \in 0 .. MaxLength - 1 |->
                       IF i \in s .. (e - 1) THEN 1 ELSE @[i]]]
  BY <1>1, <1>5 DEF CallerTypeOK
<1>7. UNCHANGED [d \in Callers |-> args[d].length]
  OBVIOUS
<1> QED
  BY <1>3, <1>4, <1>6, <1>7 DEF PF!Apply

LEMMA ApplyRefines ==
  ASSUME TypeInv, AliveInv, SlicesInv, ~dead
  PROVE  /\ \A c \in Callers : RunInline(c) => PF!Apply(c)
         /\ \A w \in Workers : RunWork(w) => \E c \in Callers : PF!Apply(c)
<1>1. ASSUME NEW c \in Callers, RunInline(c) PROVE PF!Apply(c)
  <2>1. args[c].length \in Nat /\ pc[c] = "inline" /\ CallProgress(c)
    BY <1>1, ConstantsAssumption
    DEF RunInline, TypeInv, TypeOK, CallerTypeOK, Arguments, SlicesInv
  <2>2. args[c].length > 0 /\ applied[c] = Untouched
    BY <2>1 DEF CallProgress, Exiting
  <2>3. \A i \in 0 .. MaxLength - 1 : applied[c][i] = 0
    BY <2>2 DEF Untouched
  <2>4. applied' = [applied EXCEPT ![c] = ApplyRange(@, 0, args[c].length)]
        /\ UNCHANGED args
    BY <1>1 DEF RunInline
  <2> DEFINE e == args[c].length
  <2>5. /\ 0 \in Nat /\ e \in Nat /\ 0 < e /\ e <= args[c].length
        /\ \A i \in 0 .. MaxLength - 1 : 0 <= i /\ i < e => applied[c][i] = 0
        /\ applied' = [applied EXCEPT ![c] = ApplyRange(@, 0, e)]
    BY <2>1, <2>2, <2>3, <2>4
  <2> HIDE DEF e
  <2> QED
    BY <2>4, <2>5, RangeRefines
<1>2. ASSUME NEW w \in Workers, RunWork(w)
      PROVE  \E c \in Callers : PF!Apply(c)
  <2> DEFINE c == work[w][1]
             k == work[w][2]
             s == Span(c, k).start
             e == Span(c, k).end
  <2>1. /\ c \in Callers /\ k \in 0 .. NSlices(c) - 1
        /\ applied' = [applied EXCEPT ![c] = ApplyRange(@, s, e)]
        /\ AppliedTo(c, k, 0)
    BY <1>2, RunWorkApplies
  <2>2. UNCHANGED args
    BY <1>2 DEF RunWork
  <2> HIDE DEF c, k
  <2>3. s \in 0 .. args[c].length /\ e \in 0 .. args[c].length /\ s < e
        /\ args[c].length \in 0 .. MaxLength
    BY <2>1, SpanFacts
  <2>4. s \in Nat /\ e \in Nat /\ e <= args[c].length
    BY <2>3
  <2>5. \A i \in 0 .. MaxLength - 1 : s <= i /\ i < e => applied[c][i] = 0
    BY <2>1 DEF AppliedTo
  <2> HIDE DEF s, e
  <2>6. PF!Apply(c)
    BY <2>1, <2>2, <2>3, <2>4, <2>5, RangeRefines
  <2> QED
    BY <2>1, <2>6
<1> QED
  BY <1>1, <1>2

LEMMA StepRefines ==
  TypeInv /\ AliveInv /\ RingInv /\ SlicesInv /\ [Next]_vars
    => [PF!PFNext]_(PF!pfVars)
<1> SUFFICES ASSUME TypeInv, AliveInv, RingInv, SlicesInv, [Next]_vars
             PROVE  [PF!PFNext]_(PF!pfVars)
  OBVIOUS
<1>1. ASSUME UNCHANGED <<args, applied>> PROVE UNCHANGED PF!pfVars
  BY <1>1 DEF PF!pfVars
<1>2. CASE UNCHANGED vars \/ Dead
  BY <1>1, <1>2 DEF Dead, vars, callerVars
<1>3. ASSUME ~dead, NEW c \in Callers,
             Calls(c) \/ CallerStep(c) \/ CallerWakesUp(c) \/ Exit(c)
      PROVE  [PF!PFNext]_(PF!pfVars)
  <2>1. CASE Calls(c)
    BY <1>1, <1>3, <2>1, CallRefines DEF PF!PFNext
  <2>2. CASE RunInline(c)
    BY <1>3, <2>2, ApplyRefines DEF PF!PFNext
  <2>3. CASE ReturnInline(c) \/ Return(c)
    BY <1>3, <2>3, ReturnRefines DEF PF!PFNext
  <2>4. CASE \/ Ensure(c) \/ Submit(c) \/ WaitAgain(c) \/ Shutdown(c)
             \/ CallerWakesUp(c) \/ Exit(c)
    <3>1. UNCHANGED <<args, applied>>
      BY <2>4 DEF Ensure, EnsureStarted, CheckInitialized, RegisterShutdown,
         StartLoop, StartWorker, StartWorkerFails, SetNThreads, Submit,
         WaitAgain, CallerWakesUp, Exit, Shutdown, RunHandlers, NextHandler,
         StopWorkers, JoinWorker, JoinNull, ShutdownEnds, callerVars
    <3> QED
      BY <1>1, <3>1
  <2> QED
    BY <1>3, <2>1, <2>2, <2>3, <2>4 DEF CallerStep, Inline, Collect
<1>4. ASSUME ~dead, NEW w \in Workers, Worker(w) \/ WorkerWakesUp(w)
      PROVE  [PF!PFNext]_(PF!pfVars)
  <2>1. CASE RunWork(w)
    BY <1>4, <2>1, ApplyRefines DEF PF!PFNext
  <2>2. CASE ~RunWork(w)
    <3>1. UNCHANGED <<args, applied>>
      BY <1>4, <2>2 DEF Worker, WorkerWaits, WorkerWakesUp, WorkerStops,
         TakeWork, FinishWork, callerVars
    <3> QED
      BY <1>1, <3>1
  <2> QED
    BY <2>1, <2>2
<1> QED
  BY <1>2, <1>3, <1>4 DEF Next

LEMMA InitRefines == Init => PF!PFInit
BY DEF Init, PF!PFInit, PF!Untouched, Untouched, NoArgs

(* parallel_for keeps its promise: whatever the number of callers, workers *)
(* and slots, the function is applied to every index of a call exactly     *)
(* once, and the call returns only after that. *)
THEOREM IsParallelFor == Spec => ImplementsParallelFor
<1>1. Spec => []AliveInv
  BY InitAliveInv, NextAliveInv, TypeInvariant, PTL DEF Spec
<1> QED
  BY <1>1, InitRefines, StepRefines, TypeInvariant, RingInvariant,
     SlicesInvariant, PTL DEF Spec, ImplementsParallelFor, PF!PFSpec
-----------------------------------------------------------------------------
(* The workers that the shutdown joins.  Until a caller has counted the    *)
(* workers it starts, they are those up to the `i` of its loop. *)

Alive(w) == wpc[w] \notin {"unborn", "exited"}

Joinable(c) ==
  \A w \in Workers : Alive(w) =>
    \E i \in 0 .. (IF pc[c] = "start" THEN next[c] ELSE nthreads) - 1 :
      threads[i] = w

JoinInv ==
  \A c \in Callers :
    /\ Joinable(c)
    /\ pc[c] \in {"init", "register", "loop"} => nthreads < NSlices(c)
    /\ pc[c] = "start" => nthreads <= next[c] /\ next[c] <= NSlices(c)
    /\ pc[c] = "join" =>
         joined <= nthreads /\ \A i \in 0 .. joined - 1 : threads[i] = 0

(* Without another caller, and as long as threads can be created. *)
OneCaller == (\A c, d \in Callers : c = d) /\ ~CreateMayFail

LEMMA JoinableKept ==
  ASSUME NEW c \in Callers, Joinable(c), pc[c] # "start", pc'[c] # "start",
         UNCHANGED <<threads, nthreads>>,
         \A w \in Workers : Alive(w)' => Alive(w)
  PROVE  Joinable(c)'
BY DEF Joinable

(* Steps of the caller. *)
LEMMA CallerJoin ==
  ASSUME TypeInv, JoinInv, OneCaller, NEW c \in Callers,
         Calls(c) \/ CallerStep(c) \/ CallerWakesUp(c) \/ Exit(c)
  PROVE  JoinInv'
<1> USE ConstantsAssumption
<1>1. CallerTypeOK /\ WorkerTypeOK /\ QueueTypeOK /\ PoolTypeOK
  BY DEF TypeInv, TypeOK
<1>2. /\ Joinable(c)
      /\ pc[c] \in {"init", "register", "loop"} => nthreads < NSlices(c)
      /\ pc[c] = "start" => nthreads <= next[c] /\ next[c] <= NSlices(c)
      /\ pc[c] = "join" =>
           joined <= nthreads /\ \A i \in 0 .. joined - 1 : threads[i] = 0
  BY DEF JoinInv
<1>3. NSlices(c) \in 0 .. PARALLEL_FOR_MAX_THREADS
  BY <1>1, ThreadCountBounds DEF NSlices, CallerTypeOK
<1>4. SUFFICES
        /\ Joinable(c)'
        /\ pc'[c] \in {"init", "register", "loop"} => nthreads' < NSlices(c)'
        /\ pc'[c] = "start" => nthreads' <= next'[c] /\ next'[c] <= NSlices(c)'
        /\ pc'[c] = "join" =>
             joined' <= nthreads' /\ \A i \in 0 .. joined' - 1 : threads'[i] = 0
  BY DEF JoinInv, OneCaller
<1>5. UNCHANGED args => NSlices(c)' = NSlices(c)
  BY DEF NSlices
<1>6. CASE \/ Calls(c) \/ Inline(c) \/ Submit(c) \/ WaitAgain(c) \/ Return(c)
           \/ CallerWakesUp(c) \/ Exit(c)
  <2>1. UNCHANGED <<threads, nthreads>>
    BY <1>6 DEF Calls, Call, Inline, RunInline, ReturnInline, Submit,
       WaitAgain, Return, CallerWakesUp, Exit, poolVars
  <2>2. pc[c] # "start"
        /\ pc'[c] \notin {"init", "register", "loop", "start", "join"}
    BY <1>1, <1>6 DEF Calls, Call, Inline, RunInline, ReturnInline, Submit,
       Fatal, WaitAgain, Return, CallerWakesUp, Exit, CallerTypeOK
  <2>3. \A w \in Workers : Alive(w)' => Alive(w)
    <3>1. CASE Submit(c)
      <4>1. PICK woken \in SUBSET Waiting :
              wpc' = [w \in Workers |-> IF w \in woken THEN "idle" ELSE wpc[w]]
        BY <3>1 DEF Submit
      <4> QED
        BY <1>1, <4>1 DEF Alive, Waiting, WorkerTypeOK
    <3>2. CASE ~Submit(c)
      <4>1. UNCHANGED wpc
        BY <1>6, <3>2 DEF Calls, Call, Inline, RunInline, ReturnInline,
           WaitAgain, Return, CallerWakesUp, Exit, workerVars
      <4> QED
        BY <4>1 DEF Alive
    <3> QED
      BY <3>1, <3>2
  <2> QED
    BY <1>2, <2>1, <2>2, <2>3, JoinableKept
<1>7. CASE EnsureStarted(c) \/ CheckInitialized(c) \/ RegisterShutdown(c)
  <2>1. /\ UNCHANGED <<args, wpc, threads, nthreads>> /\ pc[c] # "start"
        /\ pc'[c] \in {"submit", "init", "register", "loop"}
        /\ pc'[c] # "submit" => nthreads < NSlices(c)
    BY <1>1, <1>2, <1>3, <1>7 DEF EnsureStarted, CheckInitialized,
       RegisterShutdown, CallerTypeOK, PoolTypeOK, workerVars, poolVars
  <2>2. \A w \in Workers : Alive(w)' => Alive(w)
    BY <2>1 DEF Alive
  <2>3. Joinable(c)'
    BY <1>2, <2>1, <2>2, JoinableKept
  <2> QED
    BY <1>5, <2>1, <2>3
<1>8. CASE StartLoop(c)
  <2>1. UNCHANGED <<args, wpc, threads, nthreads>> /\ pc[c] = "loop"
        /\ pc'[c] = "start" /\ next'[c] = nthreads
    BY <1>1, <1>8 DEF StartLoop, CallerTypeOK, workerVars, poolVars
  <2>2. Joinable(c)'
    BY <1>2, <2>1 DEF Joinable, Alive
  <2> QED
    BY <1>1, <1>2, <1>3, <1>5, <2>1, <2>2 DEF PoolTypeOK
<1>9. CASE StartWorker(c)
  <2>1. UNCHANGED <<pc, args, nthreads>> /\ pc[c] = "start"
        /\ next' = [next EXCEPT ![c] = @ + 1] /\ next[c] < NSlices(c)
    BY <1>9 DEF StartWorker
  <2>2. PICK w \in Workers :
          /\ wpc' = [wpc EXCEPT ![w] = "idle"]
          /\ threads' = [threads EXCEPT ![next[c]] = w]
    BY <1>9 DEF StartWorker
  <2>3. next'[c] = next[c] + 1 /\ next[c] \in Nat /\ next[c] \in Slots
    BY <1>1, <1>3, <2>1 DEF CallerTypeOK, Slots
  <2>4. ASSUME NEW v \in Workers, Alive(v)'
        PROVE  \E i \in 0 .. next'[c] - 1 : threads'[i] = v
    <3>1. CASE v = w
      <4>1. threads'[next[c]] = v
        BY <1>1, <2>2, <2>3, <3>1 DEF PoolTypeOK
      <4> QED
        BY <2>3, <4>1
    <3>2. CASE v # w
      <4>1. PICK i \in 0 .. next[c] - 1 : threads[i] = v
        BY <1>1, <1>2, <2>1, <2>2, <2>4, <3>2 DEF Joinable, Alive, WorkerTypeOK
      <4>2. i \in Slots /\ i # next[c]
        BY <2>3 DEF Slots
      <4> QED
        BY <1>1, <2>2, <2>3, <4>1, <4>2 DEF PoolTypeOK
    <3> QED
      BY <3>1, <3>2
  <2>5. Joinable(c)'
    BY <2>1, <2>4 DEF Joinable
  <2> QED
    BY <1>1, <1>2, <1>3, <1>5, <2>1, <2>3, <2>5 DEF PoolTypeOK
<1>10. CASE StartWorkerFails(c)
  BY <1>10 DEF StartWorkerFails, OneCaller
<1>11. CASE SetNThreads(c)
  <2>1. UNCHANGED <<args, wpc, threads, next>> /\ pc[c] = "start"
        /\ pc'[c] = "submit" /\ nthreads' = NSlices(c) /\ next[c] >= NSlices(c)
    BY <1>1, <1>11 DEF SetNThreads, CallerTypeOK, workerVars
  <2>2. next[c] = nthreads'
    BY <1>1, <1>2, <1>3, <2>1 DEF CallerTypeOK
  <2>3. Joinable(c)'
    BY <1>2, <2>1, <2>2 DEF Joinable, Alive
  <2> QED
    BY <2>1, <2>3
<1>12. CASE RunHandlers(c) \/ NextHandler(c) \/ StopWorkers(c) \/ JoinNull(c)
  <2>1. UNCHANGED <<threads, nthreads>> /\ pc[c] # "start"
        /\ pc'[c] \in {"handlers", "stop", "join"}
    BY <1>1, <1>12 DEF RunHandlers, NextHandler, StopWorkers, JoinNull,
       CallerTypeOK, callerVars, poolVars
  <2>2. \A w \in Workers : Alive(w)' => Alive(w)
    BY <1>1, <1>12 DEF RunHandlers, NextHandler, StopWorkers, JoinNull,
       Alive, Waiting, WorkerTypeOK, workerVars
  <2>3. pc'[c] = "join" =>
          joined' <= nthreads' /\ \A i \in 0 .. joined' - 1 : threads'[i] = 0
    BY <1>1, <1>2, <1>12 DEF RunHandlers, NextHandler, StopWorkers, JoinNull,
       CallerTypeOK, PoolTypeOK, callerVars, poolVars
  <2> QED
    BY <1>2, <2>1, <2>2, <2>3, JoinableKept
<1>13. CASE JoinWorker(c)
  <2>1. /\ pc[c] = "join" /\ joined < nthreads
        /\ wpc[threads[joined]] = "exited" /\ joined' = joined + 1
        /\ threads' = [threads EXCEPT ![joined] = 0]
        /\ UNCHANGED <<pc, wpc, nthreads>>
    BY <1>13 DEF JoinWorker, callerVars, workerVars
  <2>2. joined \in Slots /\ joined \in Nat /\ nthreads \in Nat
    BY <1>1, <2>1 DEF PoolTypeOK, Slots
  <2>3. \A i \in 0 .. joined' - 1 : threads'[i] = 0
    BY <1>1, <1>2, <2>1, <2>2 DEF PoolTypeOK, Slots
  <2>4. Joinable(c)'
    <3>1. ASSUME NEW w \in Workers, Alive(w)'
          PROVE  \E i \in 0 .. nthreads' - 1 : threads'[i] = w
      <4>1. PICK i \in 0 .. nthreads - 1 : threads[i] = w
        BY <1>2, <2>1, <3>1 DEF Joinable, Alive
      <4>2. i # joined /\ i \in Slots
        BY <1>1, <2>1, <3>1, <4>1 DEF Alive, PoolTypeOK, Slots
      <4> QED
        BY <1>1, <2>1, <4>1, <4>2 DEF PoolTypeOK
    <3> QED
      BY <2>1, <3>1 DEF Joinable
  <2> QED
    BY <2>1, <2>2, <2>3, <2>4
<1>14. CASE ShutdownEnds(c)
  <2>1. /\ pc[c] = "join" /\ joined >= nthreads /\ nthreads' = 0
        /\ pc'[c] = "handlers" /\ UNCHANGED <<wpc, threads>>
    BY <1>1, <1>14 DEF ShutdownEnds, CallerTypeOK, workerVars
  <2>2. \A w \in Workers : ~Alive(w)
    BY <1>1, <1>2, <2>1 DEF Joinable, PoolTypeOK
  <2> QED
    BY <2>1, <2>2 DEF Joinable, Alive
<1> QED
  BY <1>6, <1>7, <1>8, <1>9, <1>10, <1>11, <1>12, <1>13, <1>14
  DEF CallerStep, Inline, Ensure, Collect, Shutdown

(* A worker neither comes to life by itself nor changes the handles. *)
LEMMA WorkerJoin ==
  ASSUME TypeInv, JoinInv, NEW w \in Workers, Worker(w) \/ WorkerWakesUp(w)
  PROVE  JoinInv'
<1>1. CallerTypeOK /\ WorkerTypeOK
  BY DEF TypeInv, TypeOK
<1>2. UNCHANGED <<args, next, threads, nthreads, joined>>
  BY DEF Worker, WorkerWaits, WorkerWakesUp, WorkerStops, TakeWork, RunWork,
     FinishWork, callerVars, poolVars, exitVars
<1>3. \A v \in Workers : Alive(v)' => Alive(v)
  BY <1>1 DEF Worker, WorkerWaits, WorkerWakesUp, WorkerStops, TakeWork,
     RunWork, FinishWork, Alive, WorkerTypeOK
<1>4. UNCHANGED pc \/ \E d \in Awaiting : pc' = [pc EXCEPT ![d] = "woken"]
  BY DEF Worker, WorkerWaits, WorkerWakesUp, WorkerStops, TakeWork, RunWork,
     FinishWork, callerVars
<1>5. ASSUME NEW c \in Callers
      PROVE  pc'[c] = pc[c] \/ (pc[c] = "waiting" /\ pc'[c] = "woken")
  BY <1>1, <1>4 DEF Awaiting, CallerTypeOK
<1>6. ASSUME NEW c \in Callers PROVE Joinable(c)'
  <2>1. Joinable(c)
    BY DEF JoinInv
  <2> QED
    BY <1>2, <1>3, <1>5, <2>1 DEF Joinable
<1>7. \A c \in Callers : NSlices(c)' = NSlices(c)
  BY <1>2 DEF NSlices
<1> QED
  BY <1>2, <1>5, <1>6, <1>7 DEF JoinInv

LEMMA JoinInvariant ==
  ASSUME OneCaller
  PROVE  Spec => []JoinInv
<1>1. Init => JoinInv
  BY DEF Init, JoinInv, Joinable, Alive
<1>2. TypeInv /\ JoinInv /\ [Next]_vars => JoinInv'
  <2> SUFFICES ASSUME TypeInv, JoinInv, [Next]_vars PROVE JoinInv'
    OBVIOUS
  <2>1. CASE UNCHANGED vars \/ Dead
    <3>1. UNCHANGED <<pc, args, next, wpc, threads, nthreads, joined>>
      BY <2>1 DEF Dead, vars, callerVars, workerVars, poolVars, exitVars
    <3>2. \A c \in Callers : NSlices(c)' = NSlices(c)
      BY <3>1 DEF NSlices
    <3>3. \A c \in Callers : Joinable(c)' <=> Joinable(c)
      BY <3>1 DEF Joinable, Alive
    <3> QED
      BY <3>1, <3>2, <3>3 DEF JoinInv
  <2>2. ASSUME NEW c \in Callers,
               Calls(c) \/ CallerStep(c) \/ CallerWakesUp(c) \/ Exit(c)
        PROVE  JoinInv'
    BY <2>2, CallerJoin
  <2>3. ASSUME NEW w \in Workers, Worker(w) \/ WorkerWakesUp(w)
        PROVE  JoinInv'
    BY <2>3, WorkerJoin
  <2> QED
    BY <2>1, <2>2, <2>3 DEF Next
<1> QED
  BY <1>1, <1>2, TypeInvariant, PTL DEF Spec

(* While one thread alone uses the pool, and as long as threads can be     *)
(* created, every worker alive is in thread_pool_threads below             *)
(* thread_pool_nthreads: the shutdown joins it, however often the pool has *)
(* grown. *)
THEOREM WorkersAlwaysJoinable ==
  ASSUME \A c, d \in Callers : c = d, ~CreateMayFail, Callers # {}
  PROVE  Spec => []WorkersJoinable
<1>1. JoinInv => WorkersJoinable
  BY DEF JoinInv, Joinable, Alive, WorkersJoinable
<1> QED
  BY <1>1, JoinInvariant, PTL DEF OneCaller
=============================================================================
