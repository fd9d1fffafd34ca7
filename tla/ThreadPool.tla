----------------------------- MODULE ThreadPool -----------------------------
(***************************************************************************)
(* The thread pool behind parallel_for (cbase/threads.c), as compiled for  *)
(* POSIX threads: callers that split a range into slices, queue them and   *)
(* wait; workers that take slices from the queue; the growth of the pool,  *)
(* which runs outside the lock; and the shutdown that exit() runs.         *)
(*                                                                         *)
(* What runs under thread_pool_mutex, up to a wait or an unlock, is one    *)
(* step.  The two condition variables are the sets of threads whose        *)
(* control point is "waiting"; a signal wakes one of them, if any, and     *)
(* POSIX lets a thread wake up without one.  A ThreadWork pointer is the   *)
(* caller and the index of the slice in the array on its stack.            *)
(***************************************************************************)
EXTENDS Integers, FiniteSets

CONSTANTS
  Callers,            (* the threads that call parallel_for                *)
  Workers,            (* the pool threads, 1 .. n in order of their birth; *)
                      (* n bounds how many may ever be started             *)
  PARALLEL_FOR_MAX_THREADS,
  NThreads,           (* what util_nthreads returns                        *)
  Inputs,             (* the arguments of a call: length, max_threads,     *)
                      (* min_items                                         *)
  MaxLength,          (* the longest of the lengths                        *)
  MaxCalls,           (* bound on the calls one thread makes               *)
  Debugging,          (* DEBUGGING: fatal() raises SIGILL                  *)
  CreateMayFail,      (* whether pthread_create may fail                   *)
  SpuriousWakeups,    (* whether a wait may end without a signal           *)
  Null                (* the null pointer                                  *)

ASSUME ConstantsAssumption ==
  /\ PARALLEL_FOR_MAX_THREADS \in Nat \ {0, 1}
  /\ Workers \in SUBSET (Nat \ {0}) /\ IsFiniteSet(Workers)
  /\ IsFiniteSet(Callers)
  /\ NThreads \in Int
  /\ MaxLength \in Nat /\ MaxCalls \in Nat
  /\ Inputs \subseteq [length : 0 .. MaxLength, max_threads : Int,
                       min_items : Int]
  /\ Debugging \in BOOLEAN /\ CreateMayFail \in BOOLEAN
  /\ SpuriousWakeups \in BOOLEAN
  /\ Null \notin Callers \X (0 .. PARALLEL_FOR_MAX_THREADS - 1)

VARIABLES
  (* callers *)
  pc,             (* control point of each caller                          *)
  args,           (* the arguments of its call; length 0 outside a call    *)
  next,           (* `i` of the loop that starts workers                   *)
  slices,         (* the ThreadWork array on its stack                     *)
  calls,          (* how many calls it has made                            *)
  applied,        (* history: how often `function` was applied to an index *)
  (* workers *)
  wpc,            (* control point of each worker                          *)
  work,           (* the slice it works on                                 *)
  (* thread_pool_* *)
  nthreads, is_stopping, work_pending, is_initialized,
  threads,        (* the thread handles                                    *)
  items, head, tail, count,
  (* the process *)
  handlers,       (* how many times the shutdown is registered with atexit *)
  joined,         (* `i` of the loop that joins workers                    *)
  dead            (* the process has ended                                 *)

callerVars == <<pc, args, next, slices, calls, applied>>
workerVars == <<wpc, work>>
queueVars  == <<items, head, tail, count, work_pending>>
poolVars   == <<nthreads, is_initialized, threads>>
exitVars   == <<is_stopping, handlers, joined, dead>>
vars == <<callerVars, workerVars, queueVars, poolVars, exitVars>>

Slots == 0 .. PARALLEL_FOR_MAX_THREADS - 1
Pointers == Callers \X Slots

Lesser(m, n) == IF m <= n THEN m ELSE n

(* thread_pool_default_thread_count; PARALLEL_FOR_MAX_THREADS is positive. *)
ThreadCount(a) ==
  IF a.length <= 0 THEN 0
  ELSE IF a.max_threads <= 1 \/ a.length < a.min_items THEN 1
  ELSE LET available == IF NThreads <= 0 THEN 1 ELSE NThreads
       IN Lesser(Lesser(Lesser(available, PARALLEL_FOR_MAX_THREADS),
                        a.max_threads),
                 a.length)

(* Mutant: the last slice is a range like the others. *)
Slice_NoRemainder(length, n, i) ==
  LET range == length \div n
  IN [start |-> i * range, end |-> (i + 1) * range]

(* The i-th of the n slices of 0 .. length-1; the last takes the rest. *)
Slice(length, n, i) ==
  LET range == length \div n
  IN [start |-> i * range,
      end   |-> IF i + 1 < n THEN (i + 1) * range ELSE length]

NSlices(c) == ThreadCount(args[c])

Waiting == {w \in Workers : wpc[w] = "waiting"}
Busy    == {w \in Workers : wpc[w] \in {"run", "done"}}
Exiting == {"exit", "handlers", "stop", "join"}
NoArgs  == [length |-> 0, max_threads |-> 0, min_items |-> 0]

Awaiting == {c \in Callers : pc[c] = "waiting"}

CallerStates == {"out", "inline", "inlined", "ensure", "init", "register",
                 "loop", "start", "submit", "waiting", "woken"} \cup Exiting
WorkerStates == {"unborn", "idle", "waiting", "run", "done", "exited"}
Arguments    == [length : 0 .. MaxLength, max_threads : Int, min_items : Int]
Slices       == [start : 0 .. MaxLength, end : 0 .. MaxLength]

CallerTypeOK ==
  /\ pc \in [Callers -> CallerStates]
  /\ args \in [Callers -> Arguments]
  /\ next \in [Callers -> Nat]
  /\ slices \in [Callers -> [Slots -> Slices]]
  /\ calls \in [Callers -> 0 .. MaxCalls]
  /\ applied \in [Callers -> [0 .. MaxLength - 1 -> Nat]]

WorkerTypeOK ==
  /\ wpc \in [Workers -> WorkerStates]
  /\ work \in [Workers -> Pointers \cup {Null}]

QueueTypeOK ==
  /\ items \in [Slots -> Pointers \cup {Null}]
  /\ head \in Slots
  /\ tail \in Slots
  /\ count \in 0 .. PARALLEL_FOR_MAX_THREADS
  /\ work_pending \in Int

PoolTypeOK ==
  /\ nthreads \in 0 .. PARALLEL_FOR_MAX_THREADS
  /\ is_initialized \in BOOLEAN
  /\ threads \in [Slots -> Workers \cup {0}]
  /\ is_stopping \in BOOLEAN
  /\ handlers \in Nat
  /\ joined \in 0 .. PARALLEL_FOR_MAX_THREADS
  /\ dead \in BOOLEAN

TypeOK == CallerTypeOK /\ WorkerTypeOK /\ QueueTypeOK /\ PoolTypeOK

Untouched == [i \in 0 .. MaxLength - 1 |-> 0]

Init ==
  /\ pc = [c \in Callers |-> "out"]
  /\ args = [c \in Callers |-> NoArgs]
  /\ next = [c \in Callers |-> 0]
  /\ slices = [c \in Callers |-> [i \in Slots |-> [start |-> 0, end |-> 0]]]
  /\ calls = [c \in Callers |-> 0]
  /\ applied = [c \in Callers |-> Untouched]
  /\ wpc = [w \in Workers |-> "unborn"]
  /\ work = [w \in Workers |-> Null]
  /\ nthreads = 0
  /\ is_stopping = FALSE
  /\ work_pending = 0
  /\ is_initialized = FALSE
  /\ threads = [i \in Slots |-> 0]
  /\ items = [i \in Slots |-> Null]
  /\ head = 0
  /\ tail = 0
  /\ count = 0
  /\ handlers = 0
  /\ joined = 0
  /\ dead = FALSE
-----------------------------------------------------------------------------
(* The callers. *)

(* parallel_for_max_threads_min_items, up to the choice of thread_count. *)
Call(c, a) ==
  /\ pc[c] = "out"
  /\ calls[c] < MaxCalls
  /\ calls' = [calls EXCEPT ![c] = @ + 1]
  /\ IF a.length <= 0
     THEN UNCHANGED <<pc, args, applied>>
     ELSE /\ args' = [args EXCEPT ![c] = a]
          /\ applied' = [applied EXCEPT ![c] = Untouched]
          /\ pc' = [pc EXCEPT ![c] = IF ThreadCount(a) <= 1 THEN "inline"
                                    ELSE "ensure"]
  /\ UNCHANGED <<next, slices, workerVars, queueVars, poolVars, exitVars>>

(* function(start, end, ...): each index of the range gets it once more. *)
ApplyRange(f, start, end) ==
  [i \in 0 .. MaxLength - 1 |-> IF start <= i /\ i < end THEN f[i] + 1
                               ELSE f[i]]

(* One thread is enough: the caller does it all. *)
RunInline(c) ==
  /\ pc[c] = "inline"
  /\ applied' = [applied EXCEPT ![c] = ApplyRange(@, 0, args[c].length)]
  /\ pc' = [pc EXCEPT ![c] = "inlined"]
  /\ UNCHANGED <<args, next, slices, calls, workerVars, queueVars, poolVars,
                 exitVars>>

ReturnInline(c) ==
  /\ pc[c] = "inlined"
  /\ pc' = [pc EXCEPT ![c] = "out"]
  /\ args' = [args EXCEPT ![c] = NoArgs]
  /\ UNCHANGED <<next, slices, calls, applied, workerVars, queueVars,
                 poolVars, exitVars>>

(* thread_pool_ensure_started holds no lock: another caller may be inside  *)
(* it, between any two of these steps. *)
EnsureStarted(c) ==
  /\ pc[c] = "ensure"
  /\ pc' = [pc EXCEPT ![c] = IF NSlices(c) <= nthreads THEN "submit"
                            ELSE "init"]
  /\ UNCHANGED <<args, next, slices, calls, applied, workerVars, queueVars,
                 poolVars, exitVars>>

CheckInitialized(c) ==
  /\ pc[c] = "init"
  /\ pc' = [pc EXCEPT ![c] = IF is_initialized THEN "loop" ELSE "register"]
  /\ UNCHANGED <<args, next, slices, calls, applied, workerVars, queueVars,
                 poolVars, exitVars>>

RegisterShutdown(c) ==
  /\ pc[c] = "register"
  /\ is_initialized' = TRUE
  /\ handlers' = handlers + 1
  /\ pc' = [pc EXCEPT ![c] = "loop"]
  /\ UNCHANGED <<args, next, slices, calls, applied, workerVars, queueVars,
                 nthreads, threads, is_stopping, joined, dead>>

(* Mutant: the loop starts at 0, not at the workers there are. *)
StartLoop_FromZero(c) ==
  /\ pc[c] = "loop"
  /\ next' = [next EXCEPT ![c] = 0]
  /\ pc' = [pc EXCEPT ![c] = "start"]
  /\ UNCHANGED <<args, slices, calls, applied, workerVars, queueVars,
                 poolVars, exitVars>>

StartLoop(c) ==
  /\ pc[c] = "loop"
  /\ next' = [next EXCEPT ![c] = nthreads]
  /\ pc' = [pc EXCEPT ![c] = "start"]
  /\ UNCHANGED <<args, slices, calls, applied, workerVars, queueVars,
                 poolVars, exitVars>>

(* thread_pool_start_worker: the thread created last has the next number. *)
StartWorker(c) ==
  /\ pc[c] = "start"
  /\ next[c] < NSlices(c)
  /\ \E w \in Workers :
       /\ wpc[w] = "unborn"
       /\ \A v \in Workers : v < w => wpc[v] # "unborn"
       /\ wpc' = [wpc EXCEPT ![w] = "idle"]
       /\ threads' = [threads EXCEPT ![next[c]] = w]
  /\ next' = [next EXCEPT ![c] = @ + 1]
  /\ UNCHANGED <<pc, args, slices, calls, applied, work, queueVars, nthreads,
                 is_initialized, exitVars>>

(* fatal(EXIT_FAILURE) in a caller. *)
Fatal(c) ==
  IF Debugging
  THEN /\ dead' = TRUE
       /\ UNCHANGED pc
  ELSE /\ pc' = [pc EXCEPT ![c] = "exit"]
       /\ UNCHANGED dead

(* xpthread_create gives up on an error of pthread_create. *)
StartWorkerFails(c) ==
  /\ CreateMayFail
  /\ pc[c] = "start"
  /\ next[c] < NSlices(c)
  /\ Fatal(c)
  /\ UNCHANGED <<args, next, slices, calls, applied, workerVars, queueVars,
                 poolVars, is_stopping, handlers, joined>>

SetNThreads(c) ==
  /\ pc[c] = "start"
  /\ next[c] >= NSlices(c)
  /\ nthreads' = NSlices(c)
  /\ pc' = [pc EXCEPT ![c] = "submit"]
  /\ UNCHANGED <<args, next, slices, calls, applied, workerVars, queueVars,
                 is_initialized, threads, exitVars>>

(* Mutant: one more pending per call instead of per slice. *)
Submit_OnePending(c) ==
  /\ pc[c] = "submit"
  /\ LET n == NSlices(c)
         m == Lesser(n, PARALLEL_FOR_MAX_THREADS - count)
     IN /\ slices' = [slices EXCEPT ![c] =
             [i \in Slots |-> IF i < n /\ i <= m
                              THEN Slice(args[c].length, n, i) ELSE @[i]]]
        /\ items' = [j \in Slots |->
             LET k == (j - tail) % PARALLEL_FOR_MAX_THREADS
             IN IF k < m THEN <<c, k>> ELSE items[j]]
        /\ tail' = (tail + m) % PARALLEL_FOR_MAX_THREADS
        /\ count' = count + m
        /\ work_pending' = work_pending + 1
        /\ wpc' = [w \in Workers |-> IF w \in Waiting THEN "idle" ELSE wpc[w]]
        /\ IF m = n
           THEN /\ pc' = [pc EXCEPT ![c] = "waiting"]
                /\ UNCHANGED dead
           ELSE Fatal(c)
  /\ UNCHANGED <<args, next, calls, applied, work, head, poolVars,
                 is_stopping, handlers, joined>>

(* With the lock held, the caller makes its slices and queues them at the  *)
(* tail, one signal for each, until all are queued or the queue is full.   *)
(* It then waits for done_work: what it has queued is still pending. *)
Submit(c) ==
  /\ pc[c] = "submit"
  /\ LET n == NSlices(c)
         m == Lesser(n, PARALLEL_FOR_MAX_THREADS - count)
     IN /\ slices' = [slices EXCEPT ![c] =
             [i \in Slots |-> IF i < n /\ i <= m
                              THEN Slice(args[c].length, n, i) ELSE @[i]]]
        /\ items' = [j \in Slots |->
             LET k == (j - tail) % PARALLEL_FOR_MAX_THREADS
             IN IF k < m THEN <<c, k>> ELSE items[j]]
        /\ tail' = (tail + m) % PARALLEL_FOR_MAX_THREADS
        /\ count' = count + m
        /\ work_pending' = work_pending + m
        /\ \E woken \in SUBSET Waiting :
             /\ Cardinality(woken) = Lesser(m, Cardinality(Waiting))
             /\ wpc' = [w \in Workers |-> IF w \in woken THEN "idle"
                                          ELSE wpc[w]]
        /\ IF m = n
           THEN /\ pc' = [pc EXCEPT ![c] = "waiting"]
                /\ UNCHANGED dead
           ELSE Fatal(c)
  /\ UNCHANGED <<args, next, calls, applied, work, head, poolVars,
                 is_stopping, handlers, joined>>

(* while ((thread_pool_work_pending > 0) || (thread_pool_queue.count > 0)) *)
WaitAgain(c) ==
  /\ pc[c] = "woken"
  /\ work_pending > 0 \/ count > 0
  /\ pc' = [pc EXCEPT ![c] = "waiting"]
  /\ UNCHANGED <<args, next, slices, calls, applied, workerVars, queueVars,
                 poolVars, exitVars>>

Return(c) ==
  /\ pc[c] = "woken"
  /\ work_pending <= 0 /\ count <= 0
  /\ items' = [i \in Slots |-> Null]
  /\ pc' = [pc EXCEPT ![c] = "out"]
  /\ args' = [args EXCEPT ![c] = NoArgs]
  /\ UNCHANGED <<next, slices, calls, applied, workerVars, head, tail, count,
                 work_pending, poolVars, exitVars>>

CallerWakesUp(c) ==
  /\ SpuriousWakeups
  /\ pc[c] = "waiting"
  /\ pc' = [pc EXCEPT ![c] = "woken"]
  /\ UNCHANGED <<args, next, slices, calls, applied, workerVars, queueVars,
                 poolVars, exitVars>>
-----------------------------------------------------------------------------
(* The workers: thread_pool_worker_run. *)

WorkerWaits(w) ==
  /\ wpc[w] = "idle"
  /\ count <= 0 /\ ~is_stopping
  /\ wpc' = [wpc EXCEPT ![w] = "waiting"]
  /\ UNCHANGED <<callerVars, work, queueVars, poolVars, exitVars>>

WorkerWakesUp(w) ==
  /\ SpuriousWakeups
  /\ wpc[w] = "waiting"
  /\ wpc' = [wpc EXCEPT ![w] = "idle"]
  /\ UNCHANGED <<callerVars, work, queueVars, poolVars, exitVars>>

WorkerStops(w) ==
  /\ wpc[w] = "idle"
  /\ is_stopping
  /\ wpc' = [wpc EXCEPT ![w] = "exited"]
  /\ UNCHANGED <<callerVars, work, queueVars, poolVars, exitVars>>

TakeWork(w) ==
  /\ wpc[w] = "idle"
  /\ ~is_stopping
  /\ count > 0
  /\ work' = [work EXCEPT ![w] = items[head]]
  /\ items' = [items EXCEPT ![head] = Null]
  /\ head' = (head + 1) % PARALLEL_FOR_MAX_THREADS
  /\ count' = count - 1
  /\ wpc' = [wpc EXCEPT ![w] = IF items[head] = Null THEN "idle" ELSE "run"]
  /\ UNCHANGED <<callerVars, tail, work_pending, poolVars, exitVars>>

(* work->function(work->start, work->end, work->worker_id, ...) *)
RunWork(w) ==
  /\ wpc[w] = "run"
  /\ LET c == work[w][1]
         slice == slices[c][work[w][2]]
     IN applied' = [applied EXCEPT ![c] =
                      ApplyRange(@, slice.start, slice.end)]
  /\ wpc' = [wpc EXCEPT ![w] = "done"]
  /\ UNCHANGED <<pc, args, next, slices, calls, work, queueVars, poolVars,
                 exitVars>>

(* Mutant: the test comes before the decrement. *)
FinishWork_TestFirst(w) ==
  /\ wpc[w] = "done"
  /\ work_pending' = work_pending - 1
  /\ IF work_pending <= 0 /\ count <= 0 /\ Awaiting # {}
     THEN \E c \in Awaiting : pc' = [pc EXCEPT ![c] = "woken"]
     ELSE UNCHANGED pc
  /\ wpc' = [wpc EXCEPT ![w] = "idle"]
  /\ work' = [work EXCEPT ![w] = Null]
  /\ UNCHANGED <<args, next, slices, calls, applied, items, head, tail, count,
                 poolVars, exitVars>>

(* The last one out wakes one of the callers that wait, if any. *)
FinishWork(w) ==
  /\ wpc[w] = "done"
  /\ work_pending' = work_pending - 1
  /\ IF work_pending - 1 <= 0 /\ count <= 0 /\ Awaiting # {}
     THEN \E c \in Awaiting : pc' = [pc EXCEPT ![c] = "woken"]
     ELSE UNCHANGED pc
  /\ wpc' = [wpc EXCEPT ![w] = "idle"]
  /\ work' = [work EXCEPT ![w] = Null]
  /\ UNCHANGED <<args, next, slices, calls, applied, items, head, tail, count,
                 poolVars, exitVars>>
-----------------------------------------------------------------------------
(* The end of the process. *)

(* A thread outside parallel_for calls exit(), or main returns. *)
Exit(c) ==
  /\ pc[c] = "out"
  /\ pc' = [pc EXCEPT ![c] = "exit"]
  /\ UNCHANGED <<args, next, slices, calls, applied, workerVars, queueVars,
                 poolVars, exitVars>>

(* exit() lets one thread run the handlers; the others stay in it. *)
RunHandlers(c) ==
  /\ pc[c] = "exit"
  /\ \A d \in Callers : pc[d] \notin {"handlers", "stop", "join"}
  /\ pc' = [pc EXCEPT ![c] = "handlers"]
  /\ UNCHANGED <<args, next, slices, calls, applied, workerVars, queueVars,
                 poolVars, exitVars>>

NextHandler(c) ==
  /\ pc[c] = "handlers"
  /\ IF handlers > 0
     THEN /\ pc' = [pc EXCEPT ![c] = "stop"]
          /\ handlers' = handlers - 1
          /\ UNCHANGED dead
     ELSE /\ dead' = TRUE
          /\ UNCHANGED <<pc, handlers>>
  /\ UNCHANGED <<args, next, slices, calls, applied, workerVars, queueVars,
                 poolVars, is_stopping, joined>>

(* Mutant: the workers that wait are not told. *)
StopWorkers_NoBroadcast(c) ==
  /\ pc[c] = "stop"
  /\ is_stopping' = TRUE
  /\ joined' = 0
  /\ pc' = [pc EXCEPT ![c] = "join"]
  /\ UNCHANGED <<args, next, slices, calls, applied, workerVars, queueVars,
                 poolVars, handlers, dead>>

(* thread_pool_shutdown: tell the workers, ... *)
StopWorkers(c) ==
  /\ pc[c] = "stop"
  /\ is_stopping' = TRUE
  /\ wpc' = [w \in Workers |-> IF w \in Waiting THEN "idle" ELSE wpc[w]]
  /\ joined' = 0
  /\ pc' = [pc EXCEPT ![c] = "join"]
  /\ UNCHANGED <<args, next, slices, calls, applied, work, queueVars,
                 poolVars, handlers, dead>>

(* ... join each of those in thread_pool_threads, ... *)
JoinWorker(c) ==
  /\ pc[c] = "join"
  /\ joined < nthreads
  /\ threads[joined] # 0
  /\ wpc[threads[joined]] = "exited"
  /\ threads' = [threads EXCEPT ![joined] = 0]
  /\ joined' = joined + 1
  /\ UNCHANGED <<callerVars, workerVars, queueVars, nthreads, is_initialized,
                 is_stopping, handlers, dead>>

(* A caller that passed thread_pool_ensure_started during a shutdown has   *)
(* counted workers again that are joined already: pthread_join on a null   *)
(* handle is the end of the process. *)
JoinNull(c) ==
  /\ pc[c] = "join"
  /\ joined < nthreads
  /\ threads[joined] = 0
  /\ dead' = TRUE
  /\ UNCHANGED <<callerVars, workerVars, queueVars, poolVars, is_stopping,
                 handlers, joined>>

(* ... and forget them. *)
ShutdownEnds(c) ==
  /\ pc[c] = "join"
  /\ joined >= nthreads
  /\ nthreads' = 0
  /\ pc' = [pc EXCEPT ![c] = "handlers"]
  /\ UNCHANGED <<args, next, slices, calls, applied, workerVars, queueVars,
                 is_initialized, threads, exitVars>>

Dead == dead /\ UNCHANGED vars

Calls(c)   == \E a \in Inputs : Call(c, a)
Inline(c)  == RunInline(c) \/ ReturnInline(c)
Ensure(c)  == \/ EnsureStarted(c) \/ CheckInitialized(c) \/ RegisterShutdown(c)
              \/ StartLoop(c) \/ StartWorker(c) \/ StartWorkerFails(c)
              \/ SetNThreads(c)
Collect(c) == Submit(c) \/ WaitAgain(c) \/ Return(c)
Shutdown(c) == \/ RunHandlers(c) \/ NextHandler(c) \/ StopWorkers(c)
               \/ JoinWorker(c) \/ JoinNull(c) \/ ShutdownEnds(c)
Worker(w)  == \/ WorkerWaits(w) \/ WorkerStops(w) \/ TakeWork(w) \/ RunWork(w)
              \/ FinishWork(w)

CallerStep(c) == Inline(c) \/ Ensure(c) \/ Collect(c) \/ Shutdown(c)

Next ==
  \/ /\ ~dead
     /\ \/ \E c \in Callers :
             Calls(c) \/ CallerStep(c) \/ CallerWakesUp(c) \/ Exit(c)
        \/ \E w \in Workers : Worker(w) \/ WorkerWakesUp(w)
  \/ Dead

(* Threads are scheduled; the function a worker runs returns.  Nobody has  *)
(* to call or to exit, and no thread has to wake up by itself. *)
Fairness ==
  /\ \A c \in Callers : WF_vars(~dead /\ CallerStep(c))
  /\ \A w \in Workers : WF_vars(~dead /\ Worker(w))

Spec == Init /\ [][Next]_vars /\ Fairness
-----------------------------------------------------------------------------
(* Properties. *)

(* The queue is a ring: the count slots from head hold a slice, the others *)
(* none, and tail is where the next one goes, although head, tail and count *)
(* are kept apart and a returning caller clears every slot. *)
QueueConsistent ==
  /\ tail = (head + count) % PARALLEL_FOR_MAX_THREADS
  /\ \A k \in Slots :
       items[(head + k) % PARALLEL_FOR_MAX_THREADS] # Null <=> k < count

(* What is pending is what is queued and what a worker has taken and not   *)
(* yet accounted for: so the caller that sees none pending is right. *)
PendingExact == work_pending = count + Cardinality(Busy)

(* The ring and the pending count, as two callers and the workers see them *)
(* whenever the lock is free. *)
QueueExact == QueueConsistent /\ PendingExact

(* Neither the queue nor a worker holds a pointer into the stack frame of  *)
(* a call that has returned, whichever call the waiting caller was woken   *)
(* for. *)
SliceAlive(p) ==
  /\ pc[p[1]] \in {"waiting", "woken"} \cup Exiting
  /\ p[2] < NSlices(p[1])

SlicesAlive ==
  ~dead =>
    /\ \A j \in Slots : items[j] # Null => SliceAlive(items[j])
    /\ \A w \in Workers : wpc[w] = "run" => SliceAlive(work[w])

(* While one thread alone uses the pool, every worker alive is one that    *)
(* the shutdown will join, however often the pool has grown. *)
WorkersJoinable ==
  (\A c \in Callers : pc[c] # "start") =>
    \A w \in Workers : wpc[w] \notin {"unborn", "exited"} =>
      \E i \in 0 .. nthreads - 1 : threads[i] = w

(* The pool keeps the promise of parallel_for. *)
PF == INSTANCE ParallelFor
        WITH length <- [c \in Callers |-> args[c].length]
ImplementsParallelFor == PF!PFSpec

(* A call of the only thread that uses the pool returns, unless the        *)
(* process ends first. *)
CallReturns ==
  \A c \in Callers : args[c].length > 0 ~> (args[c].length = 0 \/ dead)

(* When all callers wait, at least one of them gets its answer.  (It is    *)
(* not more: the last worker signals one.) *)
SomeCallerReturns ==
  (\A c \in Callers : pc[c] = "waiting")
    ~> (\E c \in Callers : args[c].length = 0)

(* The shutdown is not left waiting for a worker: the process that calls   *)
(* exit() ends. *)
ExitEnds ==
  (\E c \in Callers : pc[c] \in Exiting) ~> dead

(* Nothing hangs for the only thread that uses the pool: neither a call of *)
(* parallel_for nor the exit() that may come at any moment between calls.  *)
CallsAndExitEnd == CallReturns /\ ExitEnds
=============================================================================
